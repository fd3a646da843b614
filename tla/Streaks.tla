------------------------------ MODULE Streaks -------------------------------
(***************************************************************************)
(* The streak of a player whose runs are counted and rejected one by one,  *)
(* against the documented meaning: "the longest run of consecutive days".  *)
(***************************************************************************)
EXTENDS Aggregation

CONSTANTS
  LastDay,   \* bound: days are 1..LastDay
  MaxRuns    \* bound: ids are 1..MaxRuns

VARIABLE runs

Count(i, d) ==
  /\ ~\E x \in runs : x.id = i
  /\ runs' = runs \cup {[id |-> i, day |-> d, value |-> 1]}

Reject(x) == runs' = runs \ {x}

Init == runs = {}
Next ==
  \/ \E i \in 1..MaxRuns, d \in 1..LastDay : Count(i, d)
  \/ \E x \in runs : Reject(x)
Spec == Init /\ [][Next]_runs

Consecutive(n, last) == (last - n + 1)..last \subseteq DaysOf(runs)

(* "streak" is the longest run of consecutive days (architecture.md:42),   *)
(* however many runs fall on one day.  The live streak is the run that     *)
(* ends today or yesterday, in full, and it is never more than the streak  *)
(* the board shows.                                                        *)
StreaksAreRuns ==
  /\ runs # {} =>
       /\ \E d \in 1..LastDay : Consecutive(Streak(runs), d)
       /\ ~\E d \in 1..LastDay : Consecutive(Streak(runs) + 1, d)
  /\ \A today \in 1..LastDay + 2 :
       (\A x \in runs : x.day <= today) =>
         LET n == CurrentStreak(runs, today)
         IN /\ n > 0 <=> \E x \in runs : x.day \in {today - 1, today}
            /\ n > 0 => \E d \in {today - 1, today} :
                          /\ Consecutive(n, d) /\ ~Consecutive(n + 1, d)
                          /\ d = today \/ today \notin DaysOf(runs)
            /\ runs # {} => n <= Streak(runs)
=============================================================================
