----------------------------- MODULE Matchmaking -----------------------------
(***************************************************************************)
(* live.ts: the matchmaking queue of one head-to-head discipline.          *)
(*                                                                         *)
(* POST /v1/queue inserts a ticket and tries to pair it once; GET          *)
(* /v1/queue/:ticket polls it, lets it expire, and hands out the join      *)
(* ticket; DELETE cancels it.  As in Standings a handler is a process, one *)
(* D1 statement is one action, and other handlers run in between.          *)
(*                                                                         *)
(* The clock of a handler is read when a statement is sent, not when D1    *)
(* executes it: what had not run out by then counts as valid.              *)
(***************************************************************************)
EXTENDS Integers, FiniteSets

CONSTANTS
  Players,      \* players(id)
  Calls,        \* calls of the API; the ticket or pairing a call makes bears its name
  Parties,      \* parties of friends
  Nil,          \* SQL NULL, or no row
  Rating,       \* Rating[p]: ratings.rating, 1500 without one
  Kinds,        \* bound: what happens: "poll", "cancel", "timeout", "crash"
  MaxInFlight   \* bound: how many handlers run at the same time

ASSUME RatingAssumption == Rating \in [Players -> Int]

VARIABLES
  tickets,   \* tickets[c]: the queue_tickets row inserted by call c, or Nil
  pairings,  \* the calls whose pairings row exists
  issued,    \* the join tickets handed out: player, their ticket, pairing
  pc,        \* the next statement of each call
  mem        \* the local variables of each call

vars == <<tickets, pairings, issued, pc, mem>>

Or(S) == S \cup {Nil}

(* `late`: expires_at has passed. *)
Ticket == [player : Players, party : Or(Parties), pairing : Or(Calls), late : BOOLEAN,
           state : {"waiting", "matched", "cancelled", "expired"}]

ASSUME NilAssumption == Nil \notin Players /\ Nil \notin Calls /\ Nil \notin Ticket

Labels == {"idle", "insert", "seek", "claim", "undo", "record", "expire", "issue", "done"}

(* `ticket` is the ticket polled, or the opponent a claim is for; `valid`  *)
(* what had not expired when the claim was sent.                           *)
Locals == [player : Or(Players), party : Or(Parties), ticket : Or(Calls),
           pairing : Or(Calls), valid : SUBSET Calls]
Blank  == [player |-> Nil, party |-> Nil, ticket |-> Nil, pairing |-> Nil, valid |-> {}]

JoinTicket == [player : Players, ticket : Calls, pairing : Calls]

(* Every row and local variable keeps its type: a join ticket in           *)
(* particular names a pairing.                                             *)
TypeOK ==
  /\ tickets \in [Calls -> Or(Ticket)]
  /\ pairings \subseteq Calls
  /\ issued \subseteq JoinTicket
  /\ pc \in [Calls -> Labels]
  /\ mem \in [Calls -> Locals]

Init ==
  /\ tickets = [c \in Calls |-> Nil]
  /\ pairings = {}
  /\ issued = {}
  /\ pc = [c \in Calls |-> "idle"]
  /\ mem = [c \in Calls |-> Blank]

Held         == {t \in Calls : tickets[t] # Nil}
Waiting      == {t \in Held : tickets[t].state = "waiting"}
Of(p)        == {t \in Held : tickets[t].player = p}
ClaimedBy(g) == {t \in Held : tickets[t].pairing = g}

InFlight == {c \in Calls : pc[c] \notin {"idle", "done"}}

Start(c, label, locals) ==
  /\ pc[c] = "idle"
  /\ Cardinality(InFlight) < MaxInFlight
  /\ pc' = [pc EXCEPT ![c] = label]
  /\ mem' = [mem EXCEPT ![c] = locals]

Goto(c, label) == pc' = [pc EXCEPT ![c] = label]

Finish(c) ==
  /\ pc' = [pc EXCEPT ![c] = "done"]
  /\ mem' = [mem EXCEPT ![c] = Blank]

-----------------------------------------------------------------------------
(* POST /v1/queue                                                          *)

(* SELECT the player's waiting ticket; with one, 409. *)
Queue(c) ==
  /\ \E p \in Players, party \in Or(Parties) :
       /\ \A t \in Waiting \cap Of(p) : tickets[t].late
       /\ Start(c, "insert", [Blank EXCEPT !.player = p, !.party = party])
  /\ UNCHANGED <<tickets, pairings, issued>>

Insert(c) ==
  /\ pc[c] = "insert"
  /\ tickets' = [tickets EXCEPT ![c] =
       [player |-> mem[c].player, party |-> mem[c].party, pairing |-> Nil,
        late |-> FALSE, state |-> "waiting"]]
  /\ Goto(c, "seek")
  /\ UNCHANGED <<pairings, issued, mem>>

(* Whom the SELECT of tryPair() considers. *)
Opponents(c) ==
  {t \in Waiting :
     /\ ~tickets[t].late
     /\ tickets[t].player # tickets[c].player
     /\ tickets[t].party = Nil \/ tickets[t].party # tickets[c].party}

Distance(t, c) ==
  LET d == Rating[tickets[t].player] - Rating[tickets[c].player]
  IN IF d < 0 THEN -d ELSE d

(* ORDER BY the distance of the ratings; among equals any (created_at is   *)
(* not kept).  The claim that follows binds the time of now.               *)
Seek(c) ==
  /\ pc[c] = "seek"
  /\ \/ Opponents(c) = {} /\ Finish(c)
     \/ \E t \in Opponents(c) :
          /\ \A u \in Opponents(c) : Distance(t, c) <= Distance(u, c)
          /\ mem' = [mem EXCEPT ![c].ticket = t,
                                ![c].valid = {u \in {c, t} : ~tickets[u].late}]
          /\ Goto(c, "claim")
  /\ UNCHANGED <<tickets, pairings, issued>>

(* Mutant: the claim takes what it names, in whatever state. *)
Named(c) == {c, mem[c].ticket} \cap mem[c].valid

(* The rows the claim's WHERE finds: of the two, those still waiting and   *)
(* not expired when it was sent.                                           *)
Caught(c) == {c, mem[c].ticket} \cap mem[c].valid \cap Waiting

(* Mutant: half a pairing is a pairing. *)
SomeCaught(c) == Caught(c) # {}
BothCaught(c) == Caught(c) = {c, mem[c].ticket}

(* UPDATE ... SET state = 'matched', pairing_id = ?; changes = 2 or not. *)
Claim(c) ==
  /\ pc[c] = "claim"
  /\ tickets' = [t \in Calls |->
       IF t \in Caught(c) THEN [tickets[t] EXCEPT !.state = "matched", !.pairing = c]
                          ELSE tickets[t]]
  /\ \/ BothCaught(c) /\ Goto(c, "record")
     \/ ~BothCaught(c) /\ Goto(c, "undo")
  /\ UNCHANGED <<pairings, issued, mem>>

(* Mutant: what was caught stays caught. *)
UndoNothing(c) ==
  /\ pc[c] = "undo"
  /\ Finish(c)
  /\ UNCHANGED <<tickets, pairings, issued>>

(* Put back whatever the claim caught. *)
Undo(c) ==
  /\ pc[c] = "undo"
  /\ tickets' = [t \in Calls |->
       IF t \in ClaimedBy(c) THEN [tickets[t] EXCEPT !.state = "waiting", !.pairing = Nil]
                             ELSE tickets[t]]
  /\ Finish(c)
  /\ UNCHANGED <<pairings, issued>>

(* INSERT INTO pairings; events and webhooks follow. *)
Record(c) ==
  /\ pc[c] = "record"
  /\ pairings' = pairings \cup {c}
  /\ Finish(c)
  /\ UNCHANGED <<tickets, issued>>

-----------------------------------------------------------------------------
(* GET and DELETE /v1/queue/:ticket                                        *)

(* SELECT the ticket.  A waiting one whose time is up is about to expire;  *)
(* a matched one gets its join ticket.                                     *)
Poll(c) ==
  /\ "poll" \in Kinds
  /\ \E t \in Held :
       \/ /\ t \in Waiting /\ tickets[t].late
          /\ Start(c, "expire", [Blank EXCEPT !.ticket = t])
       \/ /\ tickets[t].state = "matched"
          /\ Start(c, "issue", [Blank EXCEPT !.player = tickets[t].player, !.ticket = t,
                                             !.pairing = tickets[t].pairing])
  /\ UNCHANGED <<tickets, pairings, issued>>

(* UPDATE ... SET state = 'expired' WHERE id = ?, whatever it is by now. *)
Expire(c) ==
  /\ pc[c] = "expire"
  /\ tickets' = [tickets EXCEPT ![mem[c].ticket].state = "expired"]
  /\ Finish(c)
  /\ UNCHANGED <<pairings, issued>>

(* Mutant: the pairing's row is not looked at, and the ticket's read again. *)
IssueBlind(c) ==
  /\ pc[c] = "issue"
  /\ issued' = issued \cup {[player |-> mem[c].player, ticket |-> mem[c].ticket,
                             pairing |-> tickets[mem[c].ticket].pairing]}
  /\ Finish(c)
  /\ UNCHANGED <<tickets, pairings>>

(* SELECT the pairing.  Without its row the handler throws (pairing! is    *)
(* null), otherwise it signs a join ticket.                                *)
Issue(c) ==
  /\ pc[c] = "issue"
  /\ \/ mem[c].pairing \notin pairings /\ UNCHANGED issued
     \/ /\ mem[c].pairing \in pairings
        /\ issued' = issued \cup {[player |-> mem[c].player, ticket |-> mem[c].ticket,
                                   pairing |-> mem[c].pairing]}
  /\ Finish(c)
  /\ UNCHANGED <<tickets, pairings>>

(* UPDATE ... SET state = 'cancelled' ... AND state = 'waiting' *)
Cancel(t) ==
  /\ "cancel" \in Kinds
  /\ t \in Waiting
  /\ tickets' = [tickets EXCEPT ![t].state = "cancelled"]
  /\ UNCHANGED <<pairings, issued, pc, mem>>

-----------------------------------------------------------------------------
(* Time passes a ticket's expires_at. *)
RunOut(t) ==
  /\ "timeout" \in Kinds
  /\ t \in Held /\ ~tickets[t].late
  /\ tickets' = [tickets EXCEPT ![t].late = TRUE]
  /\ UNCHANGED <<pairings, issued, pc, mem>>

(* A handler may die between two statements. *)
Crash(c) ==
  /\ "crash" \in Kinds
  /\ c \in InFlight
  /\ Finish(c)
  /\ UNCHANGED <<tickets, pairings, issued>>

(* The statements of a call that is under way. *)
Proceed(c) ==
  \/ Insert(c) \/ Seek(c) \/ Claim(c) \/ Undo(c) \/ Record(c) \/ Expire(c) \/ Issue(c)

Next ==
  \E c \in Calls : Queue(c) \/ Poll(c) \/ Proceed(c) \/ Cancel(c) \/ RunOut(c) \/ Crash(c)

Spec == Init /\ [][Next]_vars

(* The runtime goes on with a handler whose statement has returned; nobody *)
(* is made to call.                                                        *)
Fairness == \A c \in Calls : WF_vars(Proceed(c))

FairSpec == Spec /\ Fairness

-----------------------------------------------------------------------------
(* The pairs made: what a claim that caught both left in the table, also   *)
(* before its pairings row is written and after a ticket has expired.      *)
Pairs == {S \in {ClaimedBy(g) : g \in Calls} : \E t, u \in S : t # u /\ S = {t, u}}

Promise == INSTANCE Pairing WITH
  Tickets <- Calls,
  owner   <- [t \in Calls |-> IF tickets[t] = Nil THEN Nil ELSE tickets[t].player],
  pairs   <- Pairs

(* The queue pairs tickets off: two simultaneous attempts cannot both take *)
(* one, half a claim is never a pair, nobody is paired with themselves and *)
(* no expiry, cancellation, undo or crash takes a pair apart.              *)
KeepsPromise == Promise!Spec

(* A join ticket belongs in its pairing: it is only ever given for a pair, *)
(* to one of the two, although a half claim looks matched until it is      *)
(* undone.                                                                 *)
JoinTicketsAreForPairs ==
  \A j \in issued :
    /\ j.ticket \in ClaimedBy(j.pairing)
    /\ \E u \in ClaimedBy(j.pairing) : tickets[u].player # j.player

(* Told "matched", without an opponent who is told the same or without a   *)
(* pairing to join.                                                        *)
Alone(t) ==
  /\ t \in Held /\ tickets[t].state = "matched"
  /\ \/ ~\E u \in ClaimedBy(tickets[t].pairing) : u # t /\ tickets[u].state = "matched"
     \/ tickets[t].pairing \notin pairings

(* A claim that catches only one of the two tickets undoes itself rather   *)
(* than leaving somebody matched with nobody, and one that catches both    *)
(* writes its pairing.                                                     *)
NobodyStaysAlone == \A t \in Calls : Alone(t) ~> ~Alone(t)
=============================================================================
