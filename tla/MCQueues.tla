------------------------------ MODULE MCQueues -------------------------------
(***************************************************************************)
(* Small instances, for TLC, of the two queues whose members are claimed:  *)
(* jobs that wait for a verifier, and players who wait for an opponent.    *)
(* The two share no table: a behaviour is of one part, of a single         *)
(* verifier with a batch, of several with a job each, or of players.       *)
(***************************************************************************)
EXTENDS Verification

CONSTANTS w2, Players, Calls, Parties, Nil, Kinds, MaxInFlight

VARIABLES part, tickets, pairings, issued, at, local

(* Player 2 is closer to 1 than to 4. *)
MCRating == [p \in Players |-> 100 * p * p]

Several == INSTANCE Verification WITH Workers <- Workers \cup {w2}, Limit <- 1, MaxJobs <- 1
Match   == INSTANCE Matchmaking WITH Rating <- MCRating, pc <- at, mem <- local

players == <<tickets, pairings, issued, at, local>>
all     == <<part, vars, players>>

OfSingle(step)  == part = "single" /\ step /\ UNCHANGED <<part, players>>
OfSeveral(step) == part = "several" /\ step /\ UNCHANGED <<part, players>>
OfPlayers(step) == part = "players" /\ step /\ UNCHANGED <<part, vars>>

QueuesInit ==
  /\ Match!Init
  /\ \/ part \in {"single", "players"} /\ Init
     \/ part = "several" /\ Several!Init

QueuesNext == OfSingle(Next) \/ OfSeveral(Several!Next) \/ OfPlayers(Match!Next)

(* The fairness of Verification, and that of Matchmaking. *)
QueuesFairness ==
  /\ \A w \in Workers : WF_all(OfSingle(GoesOn(w)))
  /\ \A w \in Workers \cup {w2} : WF_all(OfSeveral(w \in DOMAIN pc /\ Several!GoesOn(w)))
  /\ \A c \in Calls : WF_all(OfPlayers(Match!Proceed(c)))

QueuesSpec == QueuesInit /\ [][QueuesNext]_all /\ QueuesFairness

(* See Matchmaking: whoever is told "matched" and has no opponent, or no   *)
(* pairing to join, is not left so.                                        *)
NobodyStaysAlone == Match!NobodyStaysAlone
=============================================================================
