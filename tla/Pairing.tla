------------------------------- MODULE Pairing -------------------------------
(***************************************************************************)
(* What the matchmaking queue promises: tickets are paired off.  A pair is *)
(* two tickets of two players, a ticket is in at most one pair, and a pair *)
(* that was made is never taken apart.                                     *)
(***************************************************************************)
CONSTANTS Tickets, Players, Nil

VARIABLES
  owner,   \* owner[t]: the player who holds ticket t, or Nil
  pairs    \* the pairs made so far, each a set of two tickets

Init ==
  /\ owner = [t \in Tickets |-> Nil]
  /\ pairs = {}

Join(t, p) ==
  /\ owner[t] = Nil
  /\ owner' = [owner EXCEPT ![t] = p]
  /\ UNCHANGED pairs

Free(t) == owner[t] # Nil /\ t \notin UNION pairs

Pair(t, u) ==
  /\ Free(t) /\ Free(u)
  /\ owner[t] # owner[u]
  /\ pairs' = pairs \cup {{t, u}}
  /\ UNCHANGED owner

Next ==
  \/ \E t \in Tickets, p \in Players : Join(t, p)
  \/ \E t, u \in Tickets : Pair(t, u)

Spec == Init /\ [][Next]_<<owner, pairs>>
=============================================================================
