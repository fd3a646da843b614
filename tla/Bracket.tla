------------------------------- MODULE Bracket -------------------------------
(***************************************************************************)
(* bracket.ts: who plays whom in the first round of a single elimination,  *)
(* and where a winner goes next.  n is the number of entrants, at least 2. *)
(***************************************************************************)
EXTENDS Integers

CONSTANT Nil   \* an empty chair

(* The least number of rounds that has room for everybody; bracketSize(n)  *)
(* is 2 to that power.                                                     *)
RoundCount(n) == CHOOSE r \in 1..n : 2^r >= n /\ \A s \in 1..(r - 1) : 2^s < n

(* Mutant: seeds in the order of their numbers. *)
SeedsInTurn(rounds) == [i \in 1..2^rounds |-> i]

(* Each doubling puts beside every seed the one that completes the sum.    *)
SeedOrder(rounds) ==
  LET order[k \in 1..rounds] ==
        IF k = 1 THEN <<1, 2>>
        ELSE [i \in 1..2^k |->
                IF i % 2 = 1 THEN order[k - 1][(i + 1) \div 2]
                             ELSE 2^k + 1 - order[k - 1][i \div 2]]
  IN order[rounds]

(* The pairs of seeds by slot; a chair nobody is left for stays empty. *)
FirstRound(n) ==
  LET order    == SeedOrder(RoundCount(n))
      Chair(i) == IF order[i] <= n THEN order[i] ELSE Nil
  IN [slot \in 1..2^(RoundCount(n) - 1) |->
        [a |-> Chair(2 * slot - 1), b |-> Chair(2 * slot)]]

(* Every match of the bracket: <<round, slot>>. *)
Positions(n) ==
  {pos \in (1..RoundCount(n)) \X (1..2^(RoundCount(n) - 1)) :
     pos[2] <= 2^(RoundCount(n) - pos[1])}

IsFinal(pos, n)  == pos[1] >= RoundCount(n)
NextMatch(pos)   == <<pos[1] + 1, (pos[2] + 1) \div 2>>
FirstSide(pos)   == "a"     \* mutant: every winner takes the first chair
NextSide(pos)    == IF pos[2] % 2 = 1 THEN "a" ELSE "b"
=============================================================================
