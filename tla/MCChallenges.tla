---------------------------- MODULE MCChallenges ----------------------------
(* Small instances of Challenges for TLC. *)
EXTENDS Challenges, TLC

A == INSTANCE Aggregation

MCSum(S)  == A!SumUp(S)
MCBest(S) == A!BestHigh(S)

CONSTANTS p1, p2
MCMayInvite == {<<p1, p2>>, <<p1, Nil>>}
MCMayBlock == {<<p1, p2>>}

(* Handlers are only compared with each other. *)
Symmetry == Permutations(Handlers)
=============================================================================
