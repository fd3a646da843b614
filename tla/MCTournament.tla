---------------------------- MODULE MCTournament ----------------------------
(* Small instances of Tournament for TLC; players are numbers. *)
EXTENDS Tournament

(* The first two have equal values, the last has no standing. *)
MCStanding ==
  [p \in Players |-> IF p = Cardinality(Players) THEN Nil ELSE IF p = 1 THEN 2 ELSE p]
=============================================================================
