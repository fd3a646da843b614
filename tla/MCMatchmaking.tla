---------------------------- MODULE MCMatchmaking ----------------------------
(***************************************************************************)
(* Small instances, for TLC, of a match from its queue to its ratings.     *)
(* Matchmaking and Ratings share no table: a behaviour is of the queue, or *)
(* of matches that are reported.                                           *)
(***************************************************************************)
EXTENDS Matchmaking, TLC

CONSTANTS Fighters, Handlers, Keys, MaxCalls

VARIABLES part, matches, placements, ratings, at, local, calls, overlap

(* Player 2 is closer to 1 than to 4. *)
MCRating == [p \in Players |-> 100 * p * p]

R == INSTANCE Ratings WITH Players <- Fighters, pc <- at, mem <- local

ASSUME RatingsParameters == R!Parameters

results == <<matches, placements, ratings, at, local, calls, overlap>>

PartsInit == part \in {"queue", "matches"} /\ Init /\ R!Init

PartsNext ==
  \/ part = "queue" /\ Next /\ UNCHANGED <<part, results>>
  \/ part = "matches" /\ R!Next /\ UNCHANGED <<part, vars>>

PartsSpec == PartsInit /\ [][PartsNext]_<<part, vars, results>>

(* Rows and local variables of both parts keep their types. *)
TypesOK == TypeOK /\ R!TypeOK

(* See Ratings: whatever is reported at the same time or again, matches    *)
(* are counted, and call after call the ratings come from all of them.     *)
EveryMatchIsRated == R!EveryMatchIsRated

(* Calls, handlers and who is rated are only compared with each other. *)
Symmetry == Permutations(Calls) \cup Permutations(Handlers) \cup Permutations(Fighters)
=============================================================================
