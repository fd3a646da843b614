------------------------------ MODULE Knockout ------------------------------
(***************************************************************************)
(* What a tournament promises: from a field of at least two players one    *)
(* after the other goes out, and the one who is left is the champion.      *)
(***************************************************************************)
EXTENDS FiniteSets, Integers

CONSTANTS Players, Nil

VARIABLES
  alive,     \* who is still in; nobody before the start
  champion   \* or Nil

Init ==
  /\ alive = {}
  /\ champion = Nil

Start(field) ==
  /\ alive = {} /\ Cardinality(field) >= 2
  /\ alive' = field
  /\ UNCHANGED champion

GoOut(p) ==
  /\ p \in alive /\ alive # {p}
  /\ alive' = alive \ {p}
  /\ UNCHANGED champion

Crown(p) ==
  /\ alive = {p} /\ champion = Nil
  /\ champion' = p
  /\ UNCHANGED alive

Next ==
  \/ \E field \in SUBSET Players : Start(field)
  \/ \E p \in Players : GoOut(p) \/ Crown(p)

Spec == Init /\ [][Next]_<<alive, champion>>
=============================================================================
