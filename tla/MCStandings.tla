----------------------------- MODULE MCStandings -----------------------------
(* Small instances of Standings for TLC. *)
EXTENDS Standings, TLC

A == INSTANCE Aggregation

MCLowest(S) == A!BestLow(S)
MCSum(S)    == A!SumUp(S)

(* Calls, players and regions are only compared with each other. *)
Symmetry == Permutations(Requests) \cup Permutations(Players) \cup Permutations(Regions)
=============================================================================
