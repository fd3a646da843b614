-------------------------- MODULE MatchmakingProofs --------------------------
(***************************************************************************)
(* The matchmaking queue keeps its promise, for every number of players    *)
(* and calls, with time-outs and crashes.                                  *)
(***************************************************************************)
EXTENDS MCMatchmaking, SequenceTheorems, FiniteSetTheorems, TLAPS

(* What a call has claimed, by the statement it is at.  Before its claim   *)
(* nothing; after a claim that caught both, two tickets of two players;    *)
(* after one that did not, at most one.                                    *)
ClaimOK(c) ==
  /\ pc[c] \in {"idle", "insert"} => tickets[c] = Nil
  /\ pc[c] = "insert" => mem[c].player \in Players
  /\ pc[c] \in {"seek", "claim"} => tickets[c] # Nil
  /\ pc[c] = "claim" =>
       /\ mem[c].ticket \in Held
       /\ tickets[mem[c].ticket].player # tickets[c].player
  /\ pc[c] \in {"idle", "insert", "seek", "claim"} => ClaimedBy(c) = {}
  /\ pc[c] = "undo" => \E t \in Calls : ClaimedBy(c) \subseteq {t}
  /\ pc[c] = "record" => \E t, u \in Calls : t # u /\ ClaimedBy(c) = {t, u}
  /\ pc[c] = "expire" => mem[c].ticket \in Held
  /\ pc[c] = "issue" => mem[c].player \in Players /\ mem[c].ticket \in Calls
  /\ \A t, u \in ClaimedBy(c) : t # u => tickets[t].player # tickets[u].player

WaitingIsFree == \A t \in Waiting : tickets[t].pairing = Nil

Inv == TypeOK /\ WaitingIsFree /\ \A c \in Calls : ClaimOK(c)

-----------------------------------------------------------------------------
(* The frame of a step of call c.                                          *)

Frame(c) ==
  /\ tickets' \in [Calls -> Or(Ticket)]
  /\ \A d \in Calls \ {c} : pc'[d] = pc[d] /\ mem'[d] = mem[d] /\ (tickets'[d] = Nil <=> tickets[d] = Nil)
  /\ \A t \in Held : tickets'[t] # Nil /\ tickets'[t].player = tickets[t].player
  /\ \A g \in Calls \ {c} : ClaimedBy(g)' = ClaimedBy(g)
  /\ WaitingIsFree'

LEMMA TicketUpdated ==
  ASSUME NEW k \in Ticket, NEW s \in {"waiting", "matched", "cancelled", "expired"},
         NEW g \in Or(Calls)
  PROVE  /\ [k EXCEPT !.state = s, !.pairing = g] \in Ticket
         /\ [k EXCEPT !.state = s, !.pairing = g].player = k.player
         /\ [k EXCEPT !.state = s, !.pairing = g].state = s
         /\ [k EXCEPT !.state = s, !.pairing = g].pairing = g
  BY DEF Ticket

LEMMA StateUpdated ==
  ASSUME NEW k \in Ticket, NEW s \in {"waiting", "matched", "cancelled", "expired"}
  PROVE  /\ [k EXCEPT !.state = s] \in Ticket
         /\ [k EXCEPT !.state = s].player = k.player
         /\ [k EXCEPT !.state = s].state = s
         /\ [k EXCEPT !.state = s].pairing = k.pairing
  BY DEF Ticket

LEMMA LateUpdated ==
  ASSUME NEW k \in Ticket
  PROVE  /\ [k EXCEPT !.late = TRUE] \in Ticket
         /\ [k EXCEPT !.late = TRUE].player = k.player
         /\ [k EXCEPT !.late = TRUE].state = k.state
         /\ [k EXCEPT !.late = TRUE].pairing = k.pairing
  BY DEF Ticket

(* A statement that leaves the tickets alone.                              *)
LEMMA Reads ==
  ASSUME Inv, NEW c \in Calls, UNCHANGED tickets,
         NEW label \in Labels, pc' = [pc EXCEPT ![c] = label],
         NEW m \in Locals, mem' = [mem EXCEPT ![c] = m]
  PROVE  Frame(c) /\ pc'[c] = label /\ mem'[c] = m /\ ClaimedBy(c)' = ClaimedBy(c)
  BY DEF Inv, TypeOK, Frame, WaitingIsFree, ClaimedBy, Held, Waiting

(* What is left to show of a step.                                         *)
LEMMA StepFrame ==
  ASSUME Inv, NEW c \in Calls, Frame(c), ClaimOK(c)',
         pairings' \subseteq Calls, issued' \subseteq JoinTicket,
         pc' \in [Calls -> Labels], mem' \in [Calls -> Locals]
  PROVE  Inv'
<1>1. ASSUME NEW d \in Calls, d # c  PROVE ClaimOK(d)'
  <2>1. pc'[d] = pc[d] /\ mem'[d] = mem[d] /\ ClaimedBy(d)' = ClaimedBy(d)
        /\ (tickets'[d] = Nil <=> tickets[d] = Nil)
    BY <1>1 DEF Frame
  <2>2. \A t \in Held : t \in Held' /\ tickets'[t].player = tickets[t].player
    BY DEF Frame, Held
  <2>3. ClaimedBy(d) \subseteq Held /\ (tickets[d] # Nil => d \in Held)
    BY DEF ClaimedBy, Held
  <2>4. ClaimOK(d)
    BY DEF Inv
  <2> QED
    BY <2>1, <2>2, <2>3, <2>4 DEF ClaimOK
<1> QED
  BY <1>1 DEF Inv, TypeOK, Frame
-----------------------------------------------------------------------------
(* A claim, in full or in part.                                            *)

LEMMA ClaimFrame ==
  ASSUME Inv, NEW c \in Calls, Claim(c)
  PROVE  /\ Frame(c) /\ ClaimedBy(c) = {} /\ ClaimedBy(c)' = Caught(c)
         /\ c \in Calls /\ mem[c].ticket \in Held /\ c \in Held /\ c # mem[c].ticket
         /\ tickets[mem[c].ticket].player # tickets[c].player
<1> DEFINE n(t) == [tickets[t] EXCEPT !.state = "matched", !.pairing = c]
<1>a. TypeOK /\ WaitingIsFree /\ ClaimOK(c) /\ pc[c] = "claim"
  BY DEF Inv, Claim
<1>1. ClaimedBy(c) = {} /\ mem[c].ticket \in Held /\ c \in Held /\ c # mem[c].ticket
      /\ tickets[mem[c].ticket].player # tickets[c].player
  BY <1>a DEF ClaimOK, Held
<1>2. \A t \in Caught(c) : t \in Waiting /\ tickets[t] \in Ticket /\ tickets[t].pairing = Nil
  BY <1>a, <1>1 DEF Caught, TypeOK, Waiting, Held, WaitingIsFree, Or
<1>3. \A t \in Caught(c) : n(t) \in Ticket /\ n(t).player = tickets[t].player
                            /\ n(t).state = "matched" /\ n(t).pairing = c
  <2> SUFFICES ASSUME NEW t \in Caught(c)
               PROVE  n(t) \in Ticket /\ n(t).player = tickets[t].player
                      /\ n(t).state = "matched" /\ n(t).pairing = c
    OBVIOUS
  <2>1. tickets[t] \in Ticket /\ c \in Or(Calls)
    BY <1>2 DEF Or
  <2> QED
    BY <2>1, TicketUpdated
<1>4. \A t \in Calls : tickets'[t] = IF t \in Caught(c) THEN n(t) ELSE tickets[t]
  BY DEF Claim
<1> HIDE DEF n
<1>5. tickets' \in [Calls -> Or(Ticket)]
  <2>1. \A t \in Calls : tickets'[t] \in Or(Ticket)
    BY <1>a, <1>3, <1>4 DEF TypeOK, Or
  <2>2. tickets' = [t \in Calls |-> tickets'[t]]
    BY DEF Claim
  <2> QED
    BY <2>1, <2>2
<1>6. \A t \in Calls : /\ tickets'[t] = Nil <=> tickets[t] = Nil
                       /\ t \in Held => tickets'[t].player = tickets[t].player
  BY <1>2, <1>3, <1>4, NilAssumption DEF Waiting, Held
<1>7. ClaimedBy(c)' = Caught(c)
  BY <1>1, <1>2, <1>3, <1>4, <1>6 DEF ClaimedBy, Held, Waiting
<1>8. \A g \in Calls \ {c} : ClaimedBy(g)' = ClaimedBy(g)
  BY <1>2, <1>3, <1>4, <1>6, NilAssumption DEF ClaimedBy, Held
<1>9. WaitingIsFree'
  BY <1>a, <1>3, <1>4, <1>6 DEF WaitingIsFree, Waiting, Held
<1>10. \A d \in Calls \ {c} : pc'[d] = pc[d] /\ mem'[d] = mem[d]
  BY <1>a DEF Claim, Goto, TypeOK
<1> QED
  BY <1>1, <1>5, <1>6, <1>7, <1>8, <1>9, <1>10 DEF Frame, Held

LEMMA ClaimStep ==
  ASSUME Inv, NEW c \in Calls, Claim(c)
  PROVE  Inv'
<1>a. TypeOK /\ pc[c] = "claim"
  BY DEF Inv, Claim
<1>1. /\ Frame(c) /\ ClaimedBy(c)' = Caught(c) /\ c # mem[c].ticket /\ mem[c].ticket \in Held
      /\ c \in Held /\ tickets[mem[c].ticket].player # tickets[c].player
  BY ClaimFrame
<1>2. Caught(c) \subseteq {c, mem[c].ticket}
  BY DEF Caught
<1>3. \/ BothCaught(c) /\ pc'[c] = "record"
      \/ ~BothCaught(c) /\ pc'[c] = "undo"
  BY <1>a DEF Claim, Goto, TypeOK
<1>4. ClaimOK(c)'
  <2>1. \A t, u \in ClaimedBy(c)' : t # u => tickets'[t].player # tickets'[u].player
    BY <1>1, <1>2 DEF Frame
  <2>2. pc'[c] = "undo" => \E t \in Calls : ClaimedBy(c)' \subseteq {t}
    BY <1>1, <1>2, <1>3 DEF BothCaught, Held
  <2>3. pc'[c] = "record" => \E t, u \in Calls : t # u /\ ClaimedBy(c)' = {t, u}
    BY <1>1, <1>3 DEF BothCaught, Held
  <2> QED
    BY <1>3, <2>1, <2>2, <2>3 DEF ClaimOK
<1>5. /\ pairings' \subseteq Calls /\ issued' \subseteq JoinTicket
      /\ pc' \in [Calls -> Labels] /\ mem' \in [Calls -> Locals]
  BY <1>a DEF Claim, Goto, TypeOK, Labels
<1> QED
  BY <1>1, <1>4, <1>5, StepFrame

(* Undoing a claim gives up at most one ticket.                            *)
LEMMA UndoFrame ==
  ASSUME Inv, NEW c \in Calls, Undo(c)
  PROVE  Frame(c) /\ ClaimedBy(c)' = {} /\ \E t \in Calls : ClaimedBy(c) \subseteq {t}
<1> DEFINE n(t) == [tickets[t] EXCEPT !.state = "waiting", !.pairing = Nil]
<1>a. TypeOK /\ WaitingIsFree /\ ClaimOK(c) /\ pc[c] = "undo"
  BY DEF Inv, Undo
<1>1. \A t \in ClaimedBy(c) : t \in Held /\ tickets[t] \in Ticket /\ tickets[t].pairing = c
  BY <1>a DEF ClaimedBy, Held, TypeOK, Or
<1>2. \A t \in ClaimedBy(c) : n(t) \in Ticket /\ n(t).player = tickets[t].player
                              /\ n(t).state = "waiting" /\ n(t).pairing = Nil
  <2> SUFFICES ASSUME NEW t \in ClaimedBy(c)
               PROVE  n(t) \in Ticket /\ n(t).player = tickets[t].player
                      /\ n(t).state = "waiting" /\ n(t).pairing = Nil
    OBVIOUS
  <2>1. tickets[t] \in Ticket /\ Nil \in Or(Calls)
    BY <1>1 DEF Or
  <2> QED
    BY <2>1, TicketUpdated
<1>3. \A t \in Calls : tickets'[t] = IF t \in ClaimedBy(c) THEN n(t) ELSE tickets[t]
  BY DEF Undo
<1> HIDE DEF n
<1>4. tickets' \in [Calls -> Or(Ticket)]
  <2>1. \A t \in Calls : tickets'[t] \in Or(Ticket)
    BY <1>a, <1>2, <1>3 DEF TypeOK, Or
  <2>2. tickets' = [t \in Calls |-> tickets'[t]]
    BY DEF Undo
  <2> QED
    BY <2>1, <2>2
<1>5. \A t \in Calls : /\ tickets'[t] = Nil <=> tickets[t] = Nil
                       /\ t \in Held => tickets'[t].player = tickets[t].player
  BY <1>1, <1>2, <1>3, NilAssumption DEF Held
<1>6. ClaimedBy(c)' = {}
  BY <1>2, <1>3, <1>5, NilAssumption DEF ClaimedBy, Held
<1>7. \A g \in Calls \ {c} : ClaimedBy(g)' = ClaimedBy(g)
  BY <1>1, <1>2, <1>3, <1>5, NilAssumption DEF ClaimedBy, Held
<1>8. WaitingIsFree'
  BY <1>a, <1>2, <1>3, <1>5 DEF WaitingIsFree, Waiting, Held
<1>9. \A d \in Calls \ {c} : pc'[d] = pc[d] /\ mem'[d] = mem[d]
  BY <1>a DEF Undo, Finish, TypeOK
<1>10. \E t \in Calls : ClaimedBy(c) \subseteq {t}
  BY <1>a DEF ClaimOK
<1> QED
  BY <1>4, <1>5, <1>6, <1>7, <1>8, <1>9, <1>10 DEF Frame, Held

LEMMA BlankIsLocals == Blank \in Locals
  BY DEF Blank, Locals, Or

LEMMA UndoStep ==
  ASSUME Inv, NEW c \in Calls, Undo(c)
  PROVE  Inv'
<1>a. TypeOK
  BY DEF Inv
<1>1. Frame(c) /\ ClaimedBy(c)' = {}
  BY UndoFrame
<1>2. pc'[c] = "done"
  BY <1>a DEF Undo, Finish, TypeOK
<1>3. ClaimOK(c)'
  BY <1>1, <1>2 DEF ClaimOK
<1>4. /\ pairings' \subseteq Calls /\ issued' \subseteq JoinTicket
      /\ pc' \in [Calls -> Labels] /\ mem' \in [Calls -> Locals]
  BY <1>a, BlankIsLocals DEF Undo, Finish, TypeOK, Labels
<1> QED
  BY <1>1, <1>3, <1>4, StepFrame

-----------------------------------------------------------------------------
(* The other statements.                                                   *)

(* A statement that changes one ticket, but neither its player nor what it *)
(* is claimed for, and makes none wait.                                    *)
LEMMA TicketTouched ==
  ASSUME Inv, NEW c \in Calls, NEW t \in Held, NEW n \in Ticket,
         n.player = tickets[t].player, n.pairing = tickets[t].pairing,
         n.state = "waiting" => tickets[t].state = "waiting",
         tickets' = [tickets EXCEPT ![t] = n],
         \A d \in Calls \ {c} : pc'[d] = pc[d] /\ mem'[d] = mem[d]
  PROVE  /\ Frame(c) /\ ClaimedBy(c)' = ClaimedBy(c)
         /\ \A d \in Calls : tickets'[d] = Nil <=> tickets[d] = Nil
<1>a. TypeOK /\ WaitingIsFree /\ t \in Calls /\ n # Nil
  BY NilAssumption DEF Inv, Held
<1>1. \A d \in Calls : tickets'[d] = IF d = t THEN n ELSE tickets[d]
  BY <1>a DEF TypeOK
<1>2. tickets' \in [Calls -> Or(Ticket)]
  BY <1>a DEF TypeOK, Or
<1>3. \A d \in Calls : tickets'[d] = Nil <=> tickets[d] = Nil
  BY <1>a, <1>1 DEF Held
<1>4. \A g \in Calls : ClaimedBy(g)' = ClaimedBy(g)
  BY <1>1, <1>3 DEF ClaimedBy, Held
<1>5. WaitingIsFree'
  BY <1>a, <1>1, <1>3 DEF WaitingIsFree, Waiting, Held
<1> QED
  BY <1>1, <1>2, <1>3, <1>4, <1>5 DEF Frame, Held

LEMMA QueueStep ==
  ASSUME Inv, NEW c \in Calls, Queue(c)
  PROVE  Inv'
<1>a. TypeOK /\ ClaimOK(c)
  BY DEF Inv
<1>1. PICK p \in Players, party \in Or(Parties) :
        Start(c, "insert", [Blank EXCEPT !.player = p, !.party = party])
  BY DEF Queue
<1> DEFINE m == [Blank EXCEPT !.player = p, !.party = party]
<1>2. m \in Locals /\ m.player = p
  BY DEF Blank, Locals, Or
<1>3. pc[c] = "idle" /\ pc' = [pc EXCEPT ![c] = "insert"] /\ mem' = [mem EXCEPT ![c] = m]
      /\ UNCHANGED <<tickets, pairings, issued>>
  BY <1>1 DEF Start, Queue
<1> HIDE DEF m
<1>4. Frame(c) /\ pc'[c] = "insert" /\ mem'[c] = m /\ ClaimedBy(c)' = ClaimedBy(c)
  BY <1>2, <1>3, Reads DEF Labels
<1>5. ClaimOK(c)'
  BY <1>a, <1>2, <1>3, <1>4 DEF ClaimOK
<1> QED
  BY <1>a, <1>2, <1>3, <1>4, <1>5, StepFrame DEF TypeOK, Labels

LEMMA InsertStep ==
  ASSUME Inv, NEW c \in Calls, Insert(c)
  PROVE  /\ Inv' /\ \A g \in Calls : ClaimedBy(g)' = ClaimedBy(g)
         /\ tickets[c] = Nil /\ mem[c].player \in Players
         /\ \A t \in Calls \ {c} : tickets'[t] = tickets[t]
         /\ tickets'[c] # Nil /\ tickets'[c].player = mem[c].player
<1> DEFINE n == [player |-> mem[c].player, party |-> mem[c].party, pairing |-> Nil,
                 late |-> FALSE, state |-> "waiting"]
<1>a. TypeOK /\ WaitingIsFree /\ ClaimOK(c) /\ pc[c] = "insert"
  BY DEF Inv, Insert
<1>1. tickets[c] = Nil /\ ClaimedBy(c) = {} /\ mem[c].player \in Players
  BY <1>a DEF ClaimOK
<1>2. n \in Ticket
  <2>1. mem[c].party \in Or(Parties)
    BY <1>a DEF TypeOK, Locals
  <2> QED
    BY <1>1, <2>1 DEF Ticket, Or
<1>3. n.player = mem[c].player /\ n.pairing = Nil /\ n # Nil
  BY <1>2, NilAssumption
<1>4. tickets' = [tickets EXCEPT ![c] = n] /\ pc' = [pc EXCEPT ![c] = "seek"]
      /\ UNCHANGED <<pairings, issued, mem>>
  BY DEF Insert, Goto
<1> HIDE DEF n
<1>5. \A t \in Calls : tickets'[t] = IF t = c THEN n ELSE tickets[t]
  BY <1>a, <1>4 DEF TypeOK
<1>6. \A g \in Calls : ClaimedBy(g)' = ClaimedBy(g)
  BY <1>1, <1>3, <1>5, NilAssumption DEF ClaimedBy, Held
<1>7. Frame(c)
  <2>1. tickets' \in [Calls -> Or(Ticket)]
    BY <1>a, <1>2, <1>4 DEF TypeOK, Or
  <2>2. WaitingIsFree'
    BY <1>a, <1>3, <1>5 DEF WaitingIsFree, Waiting, Held
  <2> QED
    BY <1>a, <1>1, <1>4, <1>5, <1>6, <2>1, <2>2 DEF Frame, Held, TypeOK
<1>8. ClaimOK(c)'
  BY <1>1, <1>3, <1>4, <1>5, <1>6, <1>a DEF ClaimOK, TypeOK
<1>9. Inv'
  BY <1>a, <1>4, <1>7, <1>8, StepFrame DEF TypeOK, Labels
<1> QED
  BY <1>1, <1>3, <1>5, <1>6, <1>9

LEMMA SeekStep ==
  ASSUME Inv, NEW c \in Calls, Seek(c)
  PROVE  Inv'
<1>a. TypeOK /\ ClaimOK(c) /\ pc[c] = "seek" /\ UNCHANGED <<tickets, pairings, issued>>
      /\ mem[c] \in Locals
  BY DEF Inv, Seek, TypeOK
<1>1. CASE Finish(c)
  <2>1. Frame(c) /\ pc'[c] = "done" /\ ClaimedBy(c)' = ClaimedBy(c)
    BY <1>1, <1>a, BlankIsLocals, Reads DEF Finish, Labels
  <2>2. ClaimOK(c)'
    BY <1>a, <2>1 DEF ClaimOK, Frame
  <2> QED
    BY <1>1, <1>a, <2>1, <2>2, BlankIsLocals, StepFrame DEF TypeOK, Finish, Labels
<1>2. CASE ~Finish(c)
  <2>1. PICK t \in Opponents(c) :
          /\ mem' = [mem EXCEPT ![c].ticket = t,
                                ![c].valid = {u \in {c, t} : ~tickets[u].late}]
          /\ pc' = [pc EXCEPT ![c] = "claim"]
    BY <1>2 DEF Seek, Goto
  <2> DEFINE V == {u \in {c, t} : ~tickets[u].late}
             m == [mem[c] EXCEPT !.ticket = t, !.valid = V]
  <2>2. t \in Held /\ t \in Calls /\ tickets[t].player # tickets[c].player
    BY DEF Opponents, Waiting, Held
  <2>3. V \subseteq Calls
    BY <2>2
  <2>4. mem' = [mem EXCEPT ![c] = m]
    BY <1>a, <2>1 DEF TypeOK
  <2> HIDE DEF V
  <2>5. m \in Locals /\ m.ticket = t
    BY <1>a, <2>2, <2>3 DEF Locals, Or
  <2> HIDE DEF m
  <2>6. Frame(c) /\ pc'[c] = "claim" /\ mem'[c] = m /\ ClaimedBy(c)' = ClaimedBy(c)
    BY <1>a, <2>1, <2>4, <2>5, Reads DEF Labels
  <2>7. ClaimOK(c)'
    BY <1>a, <2>2, <2>5, <2>6 DEF ClaimOK, Held
  <2> QED
    BY <1>a, <2>1, <2>4, <2>5, <2>6, <2>7, StepFrame DEF TypeOK, Labels
<1> QED
  BY <1>1, <1>2

LEMMA PollStep ==
  ASSUME Inv, NEW c \in Calls, Poll(c)
  PROVE  Inv'
<1>a. TypeOK /\ ClaimOK(c) /\ UNCHANGED <<tickets, pairings, issued>>
  BY DEF Inv, Poll
<1>1. PICK t \in Held :
        \/ Start(c, "expire", [Blank EXCEPT !.ticket = t])
        \/ Start(c, "issue", [Blank EXCEPT !.player = tickets[t].player, !.ticket = t,
                                           !.pairing = tickets[t].pairing])
  BY DEF Poll
<1>2. PICK m \in Locals, label \in {"expire", "issue"} :
        /\ m.ticket = t
        /\ label = "issue" => m.player \in Players
        /\ Start(c, label, m)
  <2>1. t \in Calls /\ tickets[t].player \in Players /\ tickets[t].pairing \in Or(Calls)
    BY <1>a DEF Held, TypeOK, Or, Ticket
  <2>2. [Blank EXCEPT !.ticket = t] \in Locals /\ [Blank EXCEPT !.ticket = t].ticket = t
    BY <2>1 DEF Blank, Locals, Or
  <2>3. /\ [Blank EXCEPT !.player = tickets[t].player, !.ticket = t,
                         !.pairing = tickets[t].pairing] \in Locals
        /\ [Blank EXCEPT !.player = tickets[t].player, !.ticket = t,
                         !.pairing = tickets[t].pairing].ticket = t
        /\ [Blank EXCEPT !.player = tickets[t].player, !.ticket = t,
                         !.pairing = tickets[t].pairing].player \in Players
    BY <2>1 DEF Blank, Locals, Or
  <2> QED
    BY <1>1, <2>2, <2>3
<1>3. pc[c] = "idle" /\ pc' = [pc EXCEPT ![c] = label] /\ mem' = [mem EXCEPT ![c] = m]
      /\ label \in Labels
  BY <1>2 DEF Start, Labels
<1>4. Frame(c) /\ pc'[c] = label /\ mem'[c] = m /\ ClaimedBy(c)' = ClaimedBy(c)
  BY <1>a, <1>2, <1>3, Reads
<1>5. ClaimOK(c)'
  BY <1>a, <1>2, <1>3, <1>4 DEF ClaimOK, Held
<1> QED
  BY <1>a, <1>2, <1>3, <1>4, <1>5, StepFrame DEF TypeOK

LEMMA ExpireStep ==
  ASSUME Inv, NEW c \in Calls, Expire(c)
  PROVE  Inv' /\ \A g \in Calls : ClaimedBy(g)' = ClaimedBy(g)
<1> DEFINE t == mem[c].ticket
           n == [tickets[t] EXCEPT !.state = "expired"]
<1>a. TypeOK /\ ClaimOK(c) /\ pc[c] = "expire" /\ Finish(c) /\ UNCHANGED <<pairings, issued>>
  BY DEF Inv, Expire
<1>1. t \in Held /\ tickets[t] \in Ticket
  BY <1>a DEF ClaimOK, TypeOK, Held, Or
<1>2. n \in Ticket /\ n.player = tickets[t].player /\ n.pairing = tickets[t].pairing
      /\ n.state = "expired"
  BY <1>1, StateUpdated
<1>3. tickets' = [tickets EXCEPT ![t] = n]
  BY DEF Expire
<1>4. \A d \in Calls \ {c} : pc'[d] = pc[d] /\ mem'[d] = mem[d]
  BY <1>a DEF Finish, TypeOK
<1> HIDE DEF n, t
<1>5. Frame(c) /\ ClaimedBy(c)' = ClaimedBy(c) /\ \A d \in Calls : tickets'[d] = Nil <=> tickets[d] = Nil
  BY <1>1, <1>2, <1>3, <1>4, TicketTouched
<1>6. pc'[c] = "done"
  BY <1>a DEF Finish, TypeOK
<1>7. ClaimOK(c)'
  BY <1>a, <1>5, <1>6 DEF ClaimOK, Frame, ClaimedBy
<1>8. Inv'
  BY <1>a, <1>5, <1>7, BlankIsLocals, StepFrame DEF TypeOK, Finish, Labels
<1> QED
  BY <1>5, <1>8 DEF Frame

LEMMA CancelStep ==
  ASSUME Inv, NEW t \in Calls, Cancel(t) \/ RunOut(t)
  PROVE  Inv' /\ \A g \in Calls : ClaimedBy(g)' = ClaimedBy(g)
<1>a. TypeOK /\ ClaimOK(t) /\ t \in Held /\ UNCHANGED <<pairings, issued, pc, mem>>
  BY DEF Inv, Cancel, RunOut, Waiting
<1>1. tickets[t] \in Ticket
  BY <1>a DEF TypeOK, Held, Or
<1>2. PICK n \in Ticket :
        /\ n.player = tickets[t].player /\ n.pairing = tickets[t].pairing
        /\ n.state = "waiting" => tickets[t].state = "waiting"
        /\ tickets' = [tickets EXCEPT ![t] = n]
  <2>1. CASE Cancel(t)
    BY <1>1, <2>1, StateUpdated DEF Cancel
  <2>2. CASE RunOut(t)
    BY <1>1, <2>2, LateUpdated DEF RunOut
  <2> QED
    BY <2>1, <2>2
<1>3. Frame(t) /\ ClaimedBy(t)' = ClaimedBy(t) /\ \A d \in Calls : tickets'[d] = Nil <=> tickets[d] = Nil
  BY <1>a, <1>2, TicketTouched
<1>4. ClaimOK(t)'
  <2>1. \A u \in Held : u \in Held' /\ tickets'[u].player = tickets[u].player
    BY <1>3 DEF Frame, Held
  <2>2. ClaimedBy(t) \subseteq Held
    BY DEF ClaimedBy
  <2> QED
    BY <1>a, <1>3, <2>1, <2>2 DEF ClaimOK
<1>5. Inv'
  BY <1>a, <1>3, <1>4, StepFrame DEF TypeOK
<1> QED
  BY <1>3, <1>5 DEF Frame

(* The last statement of a call that leaves the tickets alone.             *)
LEMMA EndStep ==
  ASSUME Inv, NEW c \in Calls, Record(c) \/ Issue(c) \/ Crash(c)
  PROVE  Inv' /\ UNCHANGED tickets
<1>a. TypeOK /\ ClaimOK(c) /\ Finish(c) /\ UNCHANGED tickets /\ pairings' \subseteq Calls
  BY DEF Inv, TypeOK, Record, Issue, Crash
<1>1. issued' \subseteq JoinTicket
  <2>1. CASE Issue(c) /\ mem[c].pairing \in pairings
    <3>1. [player |-> mem[c].player, ticket |-> mem[c].ticket, pairing |-> mem[c].pairing]
            \in JoinTicket
      BY <1>a, <2>1 DEF JoinTicket, ClaimOK, Issue, Held, TypeOK
    <3> QED
      BY <1>a, <2>1, <3>1 DEF Issue, TypeOK
  <2> QED
    BY <1>a, <2>1 DEF TypeOK, Record, Issue, Crash
<1>2. Frame(c) /\ pc'[c] = "done" /\ ClaimedBy(c)' = ClaimedBy(c)
  BY <1>a, BlankIsLocals, Reads DEF Finish, Labels
<1>3. ClaimOK(c)'
  BY <1>a, <1>2 DEF ClaimOK
<1> QED
  BY <1>a, <1>1, <1>2, <1>3, BlankIsLocals, StepFrame DEF TypeOK, Finish, Labels

-----------------------------------------------------------------------------
(* The invariant.                                                          *)

LEMMA InvInit == Init => Inv
<1> SUFFICES ASSUME Init PROVE Inv
  OBVIOUS
<1>1. TypeOK
  BY BlankIsLocals DEF Init, TypeOK, Or, Labels
<1>2. Held = {} /\ \A g \in Calls : ClaimedBy(g) = {}
  BY DEF Init, Held, ClaimedBy
<1>3. WaitingIsFree /\ \A c \in Calls : ClaimOK(c)
  BY <1>2 DEF Init, WaitingIsFree, Waiting, ClaimOK
<1> QED
  BY <1>1, <1>3 DEF Inv

LEMMA InvStep ==
  ASSUME Inv, Next
  PROVE  Inv'
<1>1. PICK c \in Calls :
        Queue(c) \/ Poll(c) \/ Proceed(c) \/ Cancel(c) \/ RunOut(c) \/ Crash(c)
  BY DEF Next
<1>2. CASE Queue(c)
  BY <1>2, QueueStep
<1>3. CASE Poll(c)
  BY <1>3, PollStep
<1>4. CASE Proceed(c)
  <2>1. CASE Insert(c)
    BY <2>1, InsertStep
  <2>2. CASE Seek(c)
    BY <2>2, SeekStep
  <2>3. CASE Claim(c)
    BY <2>3, ClaimStep
  <2>4. CASE Undo(c)
    BY <2>4, UndoStep
  <2>5. CASE Record(c) \/ Issue(c)
    BY <2>5, EndStep
  <2>6. CASE Expire(c)
    BY <2>6, ExpireStep
  <2> QED
    BY <1>4, <2>1, <2>2, <2>3, <2>4, <2>5, <2>6 DEF Proceed
<1>5. CASE Cancel(c) \/ RunOut(c)
  BY <1>5, CancelStep
<1>6. CASE Crash(c)
  BY <1>6, EndStep
<1> QED
  BY <1>1, <1>2, <1>3, <1>4, <1>5, <1>6

LEMMA InvStutter ==
  ASSUME Inv, UNCHANGED vars
  PROVE  Inv'
  BY DEF Inv, vars, TypeOK, WaitingIsFree, ClaimOK, ClaimedBy, Held, Waiting

LEMMA InvInvariant == Spec => []Inv
<1>1. Inv /\ [Next]_vars => Inv'
  BY InvStep, InvStutter
<1> QED
  BY InvInit, <1>1, PTL DEF Spec

(* Every row and every local variable of the matchmaking handlers stays    *)
(* within its type, whatever runs, expires and crashes in between.         *)
THEOREM TypeCorrect == Spec => []TypeOK
<1>1. Inv => TypeOK
  BY DEF Inv
<1> QED
  BY InvInvariant, <1>1, PTL

-----------------------------------------------------------------------------
(* The queue implements the abstract specification.                        *)

Owner == [t \in Calls |-> IF tickets[t] = Nil THEN Nil ELSE tickets[t].player]

Two(S) == \E t, u \in S : t # u /\ S = {t, u}

(* A waiting ticket is in no pair.                                         *)
LEMMA WaitingUnpaired ==
  ASSUME Inv, NEW t \in Waiting
  PROVE  t \notin UNION Pairs
<1>1. tickets[t].pairing = Nil
  BY DEF Inv, WaitingIsFree
<1>2. \A g \in Calls : t \notin ClaimedBy(g)
  BY <1>1, NilAssumption DEF ClaimedBy
<1> QED
  BY <1>2 DEF Pairs

(* The statements that edit one ticket outside a claim.                    *)
LEMMA TicketEdited ==
  ASSUME Inv, NEW c \in Calls, Expire(c) \/ Cancel(c) \/ RunOut(c)
  PROVE  \E t \in Held, n \in Ticket :
           n.player = tickets[t].player /\ tickets' = [tickets EXCEPT ![t] = n]
<1>a. TypeOK /\ ClaimOK(c)
  BY DEF Inv
<1>1. \A t \in Held : tickets[t] \in Ticket
  BY <1>a DEF TypeOK, Held, Or
<1>2. CASE Expire(c)
  <2> DEFINE t == mem[c].ticket
  <2>1. t \in Held /\ tickets' = [tickets EXCEPT ![t] = [tickets[t] EXCEPT !.state = "expired"]]
    BY <1>a, <1>2 DEF Expire, ClaimOK
  <2> QED
    BY <1>1, <2>1, StateUpdated
<1>3. CASE Cancel(c)
  <2>1. c \in Held /\ tickets' = [tickets EXCEPT ![c] = [tickets[c] EXCEPT !.state = "cancelled"]]
    BY <1>3 DEF Cancel, Waiting
  <2> QED
    BY <1>1, <2>1, StateUpdated
<1>4. CASE RunOut(c)
  <2>1. c \in Held /\ tickets' = [tickets EXCEPT ![c] = [tickets[c] EXCEPT !.late = TRUE]]
    BY <1>4 DEF RunOut
  <2> QED
    BY <1>1, <2>1, LateUpdated
<1> QED
  BY <1>2, <1>3, <1>4

(* Statements that neither make a ticket nor claim one.                    *)
LEMMA PromiseFrame ==
  ASSUME TypeOK, TypeOK', \A g \in Calls : ClaimedBy(g)' = ClaimedBy(g),
         \A t \in Calls : tickets'[t] = Nil <=> tickets[t] = Nil,
         \A t \in Held : tickets'[t].player = tickets[t].player
  PROVE  Owner' = Owner /\ Pairs' = Pairs
<1>1. Owner' = Owner
  BY DEF Owner, Held
<1>2. {ClaimedBy(g)' : g \in Calls} = {ClaimedBy(g) : g \in Calls}
  OBVIOUS
<1>3. Pairs' = Pairs
  BY <1>2 DEF Pairs
<1> QED
  BY <1>1, <1>3

(* A statement that changes what one call has claimed, from what was no    *)
(* pair.                                                                   *)
LEMMA PairsAfter ==
  ASSUME NEW c \in Calls, ~Two(ClaimedBy(c)),
         \A g \in Calls \ {c} : ClaimedBy(g)' = ClaimedBy(g)
  PROVE  Pairs' = IF Two(ClaimedBy(c)') THEN Pairs \cup {ClaimedBy(c)'} ELSE Pairs
<1>1. Pairs = {S \in {ClaimedBy(g) : g \in Calls} : Two(S)}
  BY DEF Pairs, Two
<1>2. Pairs' = {S \in {ClaimedBy(g)' : g \in Calls} : Two(S)}
  BY DEF Pairs, Two
<1> DEFINE P(S) == Two(S)
           f(g) == ClaimedBy(g)
           h(g) == ClaimedBy(g)'
<1>3. \A g \in Calls \ {c} : h(g) = f(g)
  OBVIOUS
<1>4. ~P(f(c))
  OBVIOUS
<1> HIDE DEF P, f, h
<1>5. {S \in {h(g) : g \in Calls} : P(S)} =
        IF P(h(c)) THEN {S \in {f(g) : g \in Calls} : P(S)} \cup {h(c)}
                   ELSE {S \in {f(g) : g \in Calls} : P(S)}
  BY <1>3, <1>4
<1> QED
  BY <1>1, <1>2, <1>5 DEF P, f, h

LEMMA PromiseClaim ==
  ASSUME Inv, NEW c \in Calls, Claim(c)
  PROVE  Promise!Next \/ (Owner' = Owner /\ Pairs' = Pairs)
<1> DEFINE t == mem[c].ticket
<1>1. /\ Frame(c) /\ ClaimedBy(c) = {} /\ ClaimedBy(c)' = Caught(c)
      /\ t \in Held /\ c \in Held /\ c # t
      /\ tickets[t].player # tickets[c].player
  BY ClaimFrame
<1>2. Inv'
  BY ClaimStep
<1>3. \A d \in Calls : tickets'[d] = Nil <=> tickets[d] = Nil
  BY <1>1 DEF Frame, Held
<1>4. Owner' = Owner
  BY <1>1, <1>3 DEF Owner, Frame, Held
<1>5. Pairs' = IF Two(Caught(c)) THEN Pairs \cup {Caught(c)} ELSE Pairs
  <2>1. ~Two(ClaimedBy(c))
    BY <1>1 DEF Two
  <2>2. Pairs' = IF Two(ClaimedBy(c)') THEN Pairs \cup {ClaimedBy(c)'} ELSE Pairs
    BY <1>1, <2>1, PairsAfter DEF Frame
  <2> QED
    BY <1>1, <2>2
<1>6. CASE ~Two(Caught(c))
  BY <1>4, <1>5, <1>6
<1>7. CASE Two(Caught(c))
  <2>1. Caught(c) = {c, t}
    BY <1>7 DEF Caught, Two
  <2>2. c \in Waiting /\ t \in Waiting
    BY <2>1 DEF Caught
  <2>3. c \notin UNION Pairs /\ t \notin UNION Pairs
    BY <2>2, WaitingUnpaired
  <2>4. /\ t \in Calls /\ Owner[c] = tickets[c].player /\ Owner[t] = tickets[t].player
        /\ Owner[c] # Nil /\ Owner[t] # Nil
    BY <1>1, NilAssumption DEF Held, Owner, Inv, TypeOK, Or, Ticket
  <2>5. Pairs' = Pairs \cup {{c, t}}
    BY <1>5, <1>7, <2>1
  <2> HIDE DEF t
  <2>6. Promise!Pair(c, t)
    BY <1>1, <1>4, <2>3, <2>4, <2>5 DEF Promise!Pair, Promise!Free, Owner
  <2> QED
    BY <2>4, <2>6 DEF Promise!Next
<1> QED
  BY <1>6, <1>7

LEMMA PromiseUndo ==
  ASSUME Inv, NEW c \in Calls, Undo(c)
  PROVE  Owner' = Owner /\ Pairs' = Pairs
<1>1. Frame(c) /\ ClaimedBy(c)' = {} /\ \E t \in Calls : ClaimedBy(c) \subseteq {t}
  BY UndoFrame
<1>2. ~Two(ClaimedBy(c)) /\ ~Two(ClaimedBy(c)')
  BY <1>1 DEF Two
<1>3. Pairs' = Pairs
  BY <1>1, <1>2, PairsAfter DEF Frame
<1>4. \A d \in Calls : tickets'[d] = Nil <=> tickets[d] = Nil
  BY NilAssumption, <1>1 DEF Frame, Held, Undo, Inv, TypeOK, ClaimedBy
<1>5. Owner' = Owner
  BY <1>1, <1>4 DEF Owner, Frame, Held
<1> QED
  BY <1>3, <1>5

LEMMA PromiseInsert ==
  ASSUME Inv, NEW c \in Calls, Insert(c)
  PROVE  Promise!Next
<1>1. /\ \A g \in Calls : ClaimedBy(g)' = ClaimedBy(g)
      /\ tickets[c] = Nil /\ mem[c].player \in Players
      /\ \A t \in Calls \ {c} : tickets'[t] = tickets[t]
      /\ tickets'[c] # Nil /\ tickets'[c].player = mem[c].player
  BY InsertStep
<1>p. PICK who \in Players : who = mem[c].player
  BY <1>1
<1>2. Pairs' = Pairs
  <2>1. {ClaimedBy(g)' : g \in Calls} = {ClaimedBy(g) : g \in Calls}
    BY <1>1
  <2> QED
    BY <2>1 DEF Pairs
<1>3. Owner[c] = Nil /\ Owner' = [Owner EXCEPT ![c] = who]
  BY <1>1, <1>p DEF Owner
<1>4. Promise!Join(c, who)
  BY <1>2, <1>3 DEF Promise!Join, Owner
<1> QED
  BY <1>4 DEF Promise!Next

LEMMA PromiseStep ==
  ASSUME Inv, [Next]_vars
  PROVE  Promise!Next \/ (Owner' = Owner /\ Pairs' = Pairs)
<1>1. Inv'
  BY InvStep, InvStutter
<1>a. TypeOK /\ TypeOK'
  BY <1>1 DEF Inv
<1>2. CASE UNCHANGED vars
  BY <1>2 DEF vars, Owner, Pairs, ClaimedBy, Held
<1>3. CASE Next
  <2>1. PICK c \in Calls :
          Queue(c) \/ Poll(c) \/ Proceed(c) \/ Cancel(c) \/ RunOut(c) \/ Crash(c)
    BY <1>3 DEF Next
  <2>2. CASE UNCHANGED tickets
    BY <2>2 DEF Owner, Pairs, ClaimedBy, Held
  <2>3. CASE Claim(c)
    BY <2>3, PromiseClaim
  <2>4. CASE Undo(c)
    BY <2>4, PromiseUndo
  <2>5. CASE Insert(c)
    BY <2>5, PromiseInsert
  <2>6. CASE Expire(c) \/ Cancel(c) \/ RunOut(c)
    <3>1. \A g \in Calls : ClaimedBy(g)' = ClaimedBy(g)
      BY <2>6, ExpireStep, CancelStep
    <3>2. /\ \A t \in Calls : tickets'[t] = Nil <=> tickets[t] = Nil
          /\ \A t \in Held : tickets'[t].player = tickets[t].player
      <4>1. PICK u \in Held, n \in Ticket :
              n.player = tickets[u].player /\ tickets' = [tickets EXCEPT ![u] = n]
        BY <2>6, TicketEdited
      <4> QED
        BY <4>1, <1>a, NilAssumption DEF TypeOK, Held
    <3> QED
      BY <1>a, <3>1, <3>2, PromiseFrame
  <2> QED
    BY <2>1, <2>2, <2>3, <2>4, <2>5, <2>6
       DEF Queue, Poll, Proceed, Seek, Record, Issue, Crash
<1> QED
  BY <1>2, <1>3

(* For any number of players and calls, whatever times out and wherever a  *)
(* handler dies, the queue implements the abstract specification: a pair   *)
(* is two tickets of two players, no ticket is in two pairs, and no pair   *)
(* is ever taken apart.                                                    *)
THEOREM PairsOff == Spec => KeepsPromise
<1>1. Init => Promise!Init
  <2> SUFFICES ASSUME Init PROVE Promise!Init
    OBVIOUS
  <2>1. Pairs = {}
    BY DEF Pairs, Init, ClaimedBy, Held
  <2> QED
    BY <2>1 DEF Init, Promise!Init
<1>2. Inv /\ [Next]_vars => [Promise!Next]_<<Owner, Pairs>>
  BY PromiseStep
<1> QED
  BY InvInvariant, <1>1, <1>2, PTL DEF Spec, KeepsPromise, Promise!Spec, Owner

-----------------------------------------------------------------------------
(* Join tickets, with time-outs and crashes.                               *)

(* A ticket that looks matched bears the name of a claim.                  *)
Matched == \A t \in Held : tickets[t].state = "matched" => tickets[t].pairing # Nil

(* The call that wrote a pairing has ended, and left two tickets for it.   *)
Recorded(g) == g \in pairings => pc[g] = "done" /\ Two(ClaimedBy(g))

(* A poll that has read a pairing has read its own ticket's player, and    *)
(* the ticket is still claimed for it, or the claim has ended for nothing. *)
Polled(c) ==
  pc[c] = "issue" =>
    /\ mem[c].ticket \in Held /\ mem[c].player = tickets[mem[c].ticket].player
    /\ mem[c].pairing \in Calls
    /\ \/ mem[c].ticket \in ClaimedBy(mem[c].pairing)
       \/ pc[mem[c].pairing] = "done" /\ mem[c].pairing \notin pairings

(* What has been issued is for a pairing, and to the ticket's player.      *)
IssuedOK(j) ==
  /\ j.pairing \in pairings
  /\ j.ticket \in ClaimedBy(j.pairing)
  /\ tickets[j.ticket].player = j.player

Joins ==
  /\ Matched
  /\ \A c \in Calls : Recorded(c) /\ Polled(c)
  /\ \A j \in issued : IssuedOK(j)

JInv == Inv /\ Joins

-----------------------------------------------------------------------------
(* What a step of call c leaves.                                           *)

(* Tickets stay, the other calls stand still, and what was claimed for a   *)
(* call that has ended stays claimed.                                      *)
Steady(c) ==
  /\ \A t \in Held : t \in Held' /\ tickets'[t].player = tickets[t].player
  /\ \A d \in Calls \ {c} : /\ pc'[d] = pc[d] /\ mem'[d] = mem[d]
                            /\ ClaimedBy(d)' = ClaimedBy(d)
  /\ pc[c] = "done" => pc'[c] = "done" /\ ClaimedBy(c)' = ClaimedBy(c)
  /\ ClaimedBy(c) \subseteq ClaimedBy(c)' \/ (pc[c] = "undo" /\ pc'[c] = "done")
  /\ Matched'

(* A statement that leaves the tickets alone.                              *)
LEMMA QuietSteady ==
  ASSUME JInv, NEW c \in Calls, UNCHANGED tickets, pc[c] # "done",
         \A d \in Calls \ {c} : pc'[d] = pc[d] /\ mem'[d] = mem[d]
  PROVE  Steady(c)
<1>1. Held' = Held /\ \A g \in Calls : ClaimedBy(g)' = ClaimedBy(g)
  BY DEF Held, ClaimedBy
<1>2. ClaimedBy(c) \subseteq ClaimedBy(c)'
  BY <1>1
<1>3. Matched'
  BY <1>1 DEF JInv, Joins, Matched
<1>4. \A t \in Held : t \in Held' /\ tickets'[t].player = tickets[t].player
  BY <1>1
<1> QED
  BY <1>1, <1>2, <1>3, <1>4 DEF Steady

LEMMA OthersStand ==
  ASSUME Inv, NEW c \in Calls, Queue(c) \/ Poll(c) \/ Proceed(c) \/ Cancel(c) \/ RunOut(c) \/ Crash(c)
  PROVE  \A d \in Calls \ {c} : pc'[d] = pc[d] /\ mem'[d] = mem[d]
<1>1. pc \in [Calls -> Labels] /\ mem \in [Calls -> Locals]
  BY DEF Inv, TypeOK
<1>2. CASE Queue(c) \/ Poll(c)
  BY <1>1, <1>2 DEF Queue, Poll, Start
<1>3. CASE Insert(c) \/ Claim(c) \/ Undo(c) \/ Record(c) \/ Expire(c) \/ Issue(c) \/ Crash(c)
  BY <1>1, <1>3 DEF Insert, Claim, Undo, Record, Expire, Issue, Crash, Goto, Finish
<1>4. CASE Seek(c)
  BY <1>1, <1>4 DEF Seek, Goto, Finish
<1>5. CASE Cancel(c) \/ RunOut(c)
  BY <1>1, <1>5 DEF Cancel, RunOut
<1> QED
  BY <1>2, <1>3, <1>4, <1>5 DEF Proceed

LEMMA InsertSteady ==
  ASSUME JInv, NEW c \in Calls, Insert(c)
  PROVE  Steady(c)
<1>1. /\ \A g \in Calls : ClaimedBy(g)' = ClaimedBy(g)
      /\ tickets[c] = Nil
      /\ \A t \in Calls \ {c} : tickets'[t] = tickets[t]
  BY InsertStep DEF JInv
<1>2. pc[c] = "insert" /\ \A d \in Calls \ {c} : pc'[d] = pc[d] /\ mem'[d] = mem[d]
  BY OthersStand DEF Insert, Proceed, JInv
<1>3. tickets'[c].state = "waiting"
  BY DEF Insert, JInv, Inv, TypeOK
<1>4. Matched'
  BY <1>1, <1>3 DEF Matched, Held, JInv, Joins
<1>5. ClaimedBy(c) \subseteq ClaimedBy(c)'
  BY <1>1
<1>6. \A t \in Held : t \in Held' /\ tickets'[t].player = tickets[t].player
  BY <1>1 DEF Held
<1> QED
  BY <1>1, <1>2, <1>4, <1>5, <1>6 DEF Steady

LEMMA ClaimSteady ==
  ASSUME JInv, NEW c \in Calls, Claim(c)
  PROVE  Steady(c)
<1>1. Frame(c) /\ ClaimedBy(c) = {}
  BY ClaimFrame DEF JInv
<1>2. pc[c] = "claim"
  BY DEF Claim
<1>3. Matched'
  <2> SUFFICES ASSUME NEW t \in Held', tickets'[t].state = "matched"
               PROVE  tickets'[t].pairing # Nil
    BY DEF Matched
  <2>1. t \in Calls
    BY DEF Held
  <2>2. CASE t \in Caught(c)
    <3> DEFINE n == [tickets[t] EXCEPT !.state = "matched", !.pairing = c]
    <3>1. tickets'[t] = n
      BY <2>1, <2>2 DEF Claim
    <3>2. tickets[t] \in Ticket
      BY <2>2 DEF Caught, Waiting, Held, JInv, Inv, TypeOK, Or
    <3>3. n.pairing = c
      BY <3>2 DEF Ticket
    <3> QED
      BY <3>1, <3>3, NilAssumption
  <2>3. CASE t \notin Caught(c)
    <3>1. tickets'[t] = tickets[t]
      BY <2>1, <2>3 DEF Claim
    <3> QED
      BY <3>1 DEF JInv, Joins, Matched, Held
  <2> QED
    BY <2>2, <2>3
<1>4. ClaimedBy(c) \subseteq ClaimedBy(c)'
  BY <1>1
<1>5. \A t \in Held : t \in Held' /\ tickets'[t].player = tickets[t].player
  BY <1>1 DEF Frame, Held
<1> QED
  BY <1>1, <1>2, <1>3, <1>4, <1>5 DEF Steady, Frame

LEMMA UndoSteady ==
  ASSUME JInv, NEW c \in Calls, Undo(c)
  PROVE  Steady(c)
<1>1. Frame(c)
  BY UndoFrame DEF JInv
<1>2. pc[c] = "undo" /\ pc'[c] = "done"
  BY DEF Undo, Finish, JInv, Inv, TypeOK
<1>3. Matched'
  <2> SUFFICES ASSUME NEW t \in Held', tickets'[t].state = "matched"
               PROVE  tickets'[t].pairing # Nil
    BY DEF Matched
  <2>1. t \in Calls
    BY DEF Held
  <2>2. CASE t \in ClaimedBy(c)
    <3> DEFINE n == [tickets[t] EXCEPT !.state = "waiting", !.pairing = Nil]
    <3>1. tickets'[t] = n
      BY <2>1, <2>2 DEF Undo
    <3>2. tickets[t] \in Ticket
      BY <2>2 DEF ClaimedBy, Held, JInv, Inv, TypeOK, Or
    <3>3. n.state = "waiting"
      BY <3>2 DEF Ticket
    <3> QED
      BY <3>1, <3>3
  <2>3. CASE t \notin ClaimedBy(c)
    <3>1. tickets'[t] = tickets[t]
      BY <2>1, <2>3 DEF Undo
    <3> QED
      BY <3>1 DEF JInv, Joins, Matched, Held
  <2> QED
    BY <2>2, <2>3
<1> QED
  BY <1>1, <1>2, <1>3 DEF Steady, Frame, Held

(* A statement that edits one ticket.                                      *)
LEMMA EditSteady ==
  ASSUME JInv, NEW c \in Calls, Expire(c) \/ Cancel(c) \/ RunOut(c)
  PROVE  Steady(c)
<1>1. \A g \in Calls : ClaimedBy(g)' = ClaimedBy(g)
  BY ExpireStep, CancelStep DEF JInv
<1>2. PICK t \in Held, n \in Ticket :
        n.player = tickets[t].player /\ tickets' = [tickets EXCEPT ![t] = n]
  BY TicketEdited DEF JInv
<1>3. \A u \in Calls : tickets'[u] = IF u = t THEN n ELSE tickets[u]
  BY <1>2 DEF JInv, Inv, TypeOK, Held
<1>4. Held' = Held /\ \A u \in Held : tickets'[u].player = tickets[u].player
  BY <1>2, <1>3, NilAssumption DEF Held
<1>5. Matched'
  <2>1. tickets[t] \in Ticket /\ t \in Calls
    BY DEF Held, JInv, Inv, TypeOK, Or
  <2>2. /\ n.state = "matched" => tickets[t].state = "matched"
        /\ n.state = "matched" => n.pairing = tickets[t].pairing
    <3>1. n = tickets'[t]
      BY <1>3, <2>1
    <3>2. CASE Expire(c)
      <4>1. mem[c].ticket \in Held
        BY <3>2 DEF Expire, JInv, Inv, ClaimOK
      <4>2. t = mem[c].ticket \/ n = tickets[t]
        BY <3>1, <3>2, <2>1, <4>1 DEF Expire, JInv, Inv, TypeOK, Held
      <4>3. CASE t = mem[c].ticket
        <5>1. n = [tickets[t] EXCEPT !.state = "expired"]
          BY <3>1, <3>2, <2>1, <4>3 DEF Expire, JInv, Inv, TypeOK
        <5> QED
          BY <2>1, <5>1, StateUpdated
      <4> QED
        BY <4>2, <4>3
    <3>3. CASE Cancel(c)
      <4>1. n = [tickets[t] EXCEPT !.state = "cancelled"] \/ n = tickets[t]
        BY <3>1, <3>3, <2>1 DEF Cancel, JInv, Inv, TypeOK
      <4> QED
        BY <2>1, <4>1, StateUpdated
    <3>4. CASE RunOut(c)
      <4>1. n = [tickets[t] EXCEPT !.late = TRUE] \/ n = tickets[t]
        BY <3>1, <3>4, <2>1 DEF RunOut, JInv, Inv, TypeOK
      <4> QED
        BY <2>1, <4>1, LateUpdated
    <3> QED
      BY <3>2, <3>3, <3>4
  <2> QED
    BY <1>3, <1>4, <2>1, <2>2 DEF Matched, Held, JInv, Joins
<1>6. \A d \in Calls \ {c} : pc'[d] = pc[d] /\ mem'[d] = mem[d]
  BY OthersStand DEF Proceed, JInv
<1>7. pc[c] = "done" => pc'[c] = "done"
  BY DEF Expire, Cancel, RunOut
<1>8. ClaimedBy(c) \subseteq ClaimedBy(c)'
  BY <1>1
<1> QED
  BY <1>1, <1>4, <1>5, <1>6, <1>7, <1>8 DEF Steady

LEMMA AllSteady ==
  ASSUME JInv, NEW c \in Calls, Queue(c) \/ Poll(c) \/ Proceed(c) \/ Cancel(c) \/ RunOut(c) \/ Crash(c)
  PROVE  Steady(c)
<1>1. \A d \in Calls \ {c} : pc'[d] = pc[d] /\ mem'[d] = mem[d]
  BY OthersStand DEF JInv
<1>2. CASE Queue(c) \/ Poll(c) \/ Seek(c) \/ Record(c) \/ Issue(c) \/ Crash(c)
  <2>1. UNCHANGED tickets /\ pc[c] # "done"
    BY <1>2 DEF Queue, Poll, Seek, Record, Issue, Crash, Start, InFlight
  <2> QED
    BY <1>1, <2>1, QuietSteady
<1>3. CASE Expire(c) \/ Cancel(c) \/ RunOut(c)
  BY <1>3, EditSteady
<1> QED
  BY <1>2, <1>3, InsertSteady, ClaimSteady, UndoSteady DEF Proceed

-----------------------------------------------------------------------------
(* What is left to show of a step.                                         *)

(* The other calls' polls, and what was issued before.                     *)
LEMMA JoinsKept ==
  ASSUME JInv, NEW c \in Calls, Steady(c),
         pairings \subseteq pairings', pairings' \subseteq pairings \cup {c},
         c \in pairings' \ pairings => pc[c] = "record",
         Recorded(c)', Polled(c)',
         \A j \in issued' \ issued : IssuedOK(j)'
  PROVE  Joins'
<1>1. ASSUME NEW d \in Calls, d # c  PROVE Recorded(d)' /\ Polled(d)'
  <2>1. pc'[d] = pc[d] /\ mem'[d] = mem[d] /\ ClaimedBy(d)' = ClaimedBy(d)
        /\ (d \in pairings' <=> d \in pairings)
    BY <1>1 DEF Steady
  <2>2. Recorded(d) /\ Polled(d)
    BY DEF JInv, Joins
  <2>3. Recorded(d)'
    BY <2>1, <2>2 DEF Recorded, Two
  <2>4. Polled(d)'
    <3> SUFFICES ASSUME pc[d] = "issue"
                 PROVE  /\ mem[d].ticket \in Held'
                        /\ mem[d].player = tickets'[mem[d].ticket].player
                        /\ mem[d].pairing \in Calls
                        /\ \/ mem[d].ticket \in ClaimedBy(mem[d].pairing)'
                           \/ pc'[mem[d].pairing] = "done" /\ mem[d].pairing \notin pairings'
      BY <2>1 DEF Polled
    <3>1. /\ mem[d].ticket \in Held /\ mem[d].player = tickets[mem[d].ticket].player
          /\ mem[d].pairing \in Calls
          /\ \/ mem[d].ticket \in ClaimedBy(mem[d].pairing)
             \/ pc[mem[d].pairing] = "done" /\ mem[d].pairing \notin pairings
      BY <2>2 DEF Polled
    <3>2. PICK g \in Calls : g = mem[d].pairing
      BY <3>1
    <3>3. mem[d].ticket \in ClaimedBy(g)' \/ (pc'[g] = "done" /\ g \notin pairings')
      <4>1. CASE g # c
        <5>1. ClaimedBy(g)' = ClaimedBy(g) /\ pc'[g] = pc[g]
          BY <4>1 DEF Steady
        <5> QED
          BY <3>1, <3>2, <4>1, <5>1
      <4>2. CASE g = c
        <5>1. CASE pc[c] = "done"
          <6>1. pc'[c] = "done" /\ ClaimedBy(c)' = ClaimedBy(c) /\ c \notin pairings' \ pairings
            BY <5>1 DEF Steady
          <6> QED
            BY <3>1, <3>2, <4>2, <5>1, <6>1
        <5>2. CASE pc[c] # "done"
          <6>1. mem[d].ticket \in ClaimedBy(c)
            BY <3>1, <3>2, <4>2, <5>2
          <6>2. CASE ClaimedBy(c) \subseteq ClaimedBy(c)'
            BY <4>2, <6>1, <6>2
          <6>3. CASE pc[c] = "undo" /\ pc'[c] = "done"
            <7>1. c \notin pairings
              BY <6>3 DEF JInv, Joins, Recorded
            <7> QED
              BY <4>2, <6>3, <7>1
          <6> QED
            BY <6>2, <6>3 DEF Steady
        <5> QED
          BY <5>1, <5>2
      <4> QED
        BY <4>1, <4>2
    <3> QED
      BY <2>1, <3>1, <3>2, <3>3 DEF Steady
  <2> QED
    BY <2>3, <2>4
<1>2. ASSUME NEW j \in issued  PROVE IssuedOK(j)'
  <2>1. j.pairing \in pairings /\ j.ticket \in ClaimedBy(j.pairing) /\ tickets[j.ticket].player = j.player
    BY DEF JInv, Joins, IssuedOK
  <2>2. PICK g \in Calls : g = j.pairing
    BY <2>1 DEF JInv, Inv, TypeOK
  <2>3. pc[g] = "done"
    BY <2>1, <2>2 DEF JInv, Joins, Recorded
  <2>4. ClaimedBy(g)' = ClaimedBy(g)
    BY <2>3 DEF Steady
  <2>5. j.ticket \in Held
    BY <2>1 DEF ClaimedBy
  <2>6. tickets'[j.ticket].player = tickets[j.ticket].player
    BY <2>5 DEF Steady
  <2> QED
    BY <2>1, <2>2, <2>4, <2>6 DEF IssuedOK
<1>3. Matched'
  BY DEF Steady
<1> QED
  BY <1>1, <1>2, <1>3 DEF Joins

(* The statements that are no poll's, and write no pairing.                *)
LEMMA ClaimJoins ==
  ASSUME JInv, NEW c \in Calls,
         Queue(c) \/ Insert(c) \/ Seek(c) \/ Claim(c) \/ Undo(c) \/ Expire(c) \/ Crash(c)
  PROVE  Joins'
<1>1. UNCHANGED <<pairings, issued>> /\ pc'[c] # "issue" /\ pc[c] # "done"
  BY DEF Queue, Insert, Seek, Claim, Undo, Expire, Crash, Start, Goto, Finish, InFlight, JInv, Inv, TypeOK
<1>2. c \notin pairings
  BY <1>1 DEF JInv, Joins, Recorded
<1>3. Steady(c)
  BY AllSteady DEF Proceed
<1> QED
  BY <1>1, <1>2, <1>3, JoinsKept DEF Recorded, Polled

(* A ticket changes while the call that made it, which may be at any of    *)
(* its statements by now, stands still.                                    *)
LEMMA CancelJoins ==
  ASSUME JInv, NEW c \in Calls, Cancel(c) \/ RunOut(c)
  PROVE  Joins'
<1>1. UNCHANGED <<pairings, issued, pc, mem>>
  BY DEF Cancel, RunOut
<1>2. \A g \in Calls : ClaimedBy(g)' = ClaimedBy(g)
  BY CancelStep DEF JInv
<1>3. Steady(c)
  BY AllSteady
<1>4. Recorded(c)'
  BY <1>1, <1>2 DEF JInv, Joins, Recorded, Two
<1>5. Polled(c)'
  <2>1. Polled(c)
    BY DEF JInv, Joins
  <2> SUFFICES ASSUME pc[c] = "issue"
               PROVE  Polled(c)'
    BY <1>1 DEF Polled
  <2>2. PICK g \in Calls : g = mem[c].pairing
    BY <2>1 DEF Polled
  <2>3. /\ mem[c].ticket \in Held'
        /\ mem[c].player = tickets'[mem[c].ticket].player
    BY <1>3, <2>1 DEF Polled, Steady
  <2>4. mem[c].ticket \in ClaimedBy(g)' \/ (pc[g] = "done" /\ g \notin pairings)
    BY <1>2, <2>1, <2>2 DEF Polled
  <2> QED
    BY <1>1, <2>2, <2>3, <2>4 DEF Polled
<1> QED
  BY <1>1, <1>3, <1>4, <1>5, JoinsKept

(* A pairing is written only by a call that has claimed two tickets.       *)
LEMMA RecordJoins ==
  ASSUME JInv, NEW c \in Calls, Record(c)
  PROVE  Joins'
<1>1. /\ pc[c] = "record" /\ pc'[c] = "done" /\ pairings' = pairings \cup {c}
      /\ UNCHANGED <<tickets, issued>>
  BY DEF Record, Finish, JInv, Inv, TypeOK
<1>2. Two(ClaimedBy(c))
  BY <1>1 DEF JInv, Inv, ClaimOK, Two
<1>3. Two(ClaimedBy(c)')
  BY <1>1, <1>2 DEF ClaimedBy, Held
<1>4. Recorded(c)' /\ Polled(c)'
  BY <1>1, <1>3 DEF Recorded, Polled, Two
<1>5. Steady(c)
  BY AllSteady DEF Proceed
<1> QED
  BY <1>1, <1>4, <1>5, JoinsKept

(* A poll reads a ticket that is claimed.                                  *)
LEMMA PollJoins ==
  ASSUME JInv, NEW c \in Calls, Poll(c)
  PROVE  Joins'
<1>0. /\ UNCHANGED <<tickets, pairings, issued>> /\ pc[c] = "idle"
      /\ mem \in [Calls -> Locals] /\ pc \in [Calls -> Labels]
  BY DEF Poll, Start, JInv, Inv, TypeOK
<1>1. c \notin pairings
  BY <1>0 DEF JInv, Joins, Recorded
<1>2. Steady(c)
  BY AllSteady
<1>3. Polled(c)'
  <2>1. CASE pc'[c] = "issue"
    <3>1. PICK t \in Held :
            /\ tickets[t].state = "matched"
            /\ mem'[c] = [Blank EXCEPT !.player = tickets[t].player, !.ticket = t,
                                       !.pairing = tickets[t].pairing]
      BY <1>0, <2>1 DEF Poll, Start
    <3>2. mem'[c].ticket = t /\ mem'[c].player = tickets[t].player
          /\ mem'[c].pairing = tickets[t].pairing
      BY <3>1 DEF Blank
    <3>3. PICK g \in Calls : g = tickets[t].pairing
      <4>1. tickets[t] \in Ticket /\ tickets[t].pairing # Nil
        BY <3>1 DEF Held, JInv, Inv, TypeOK, Or, Joins, Matched
      <4> QED
        BY <4>1 DEF Ticket, Or
    <3>4. t \in ClaimedBy(g)' /\ t \in Held'
      BY <1>0, <3>3 DEF ClaimedBy, Held
    <3> QED
      BY <1>0, <3>2, <3>3, <3>4 DEF Polled
  <2> QED
    BY <2>1 DEF Polled
<1> QED
  BY <1>0, <1>1, <1>2, <1>3, JoinsKept DEF Recorded

(* What is issued is for a pairing that is written, so the claim that the  *)
(* poll has read did not end for nothing.                                  *)
LEMMA IssueJoins ==
  ASSUME JInv, NEW c \in Calls, Issue(c)
  PROVE  Joins'
<1>0. UNCHANGED <<tickets, pairings>> /\ pc[c] = "issue" /\ pc'[c] = "done"
  BY DEF Issue, Finish, JInv, Inv, TypeOK
<1>1. c \notin pairings
  BY <1>0 DEF JInv, Joins, Recorded
<1>2. Steady(c)
  BY AllSteady DEF Proceed
<1>3. ASSUME NEW j \in issued' \ issued
      PROVE  IssuedOK(j)'
  <2>1. /\ mem[c].pairing \in pairings
        /\ j = [player |-> mem[c].player, ticket |-> mem[c].ticket, pairing |-> mem[c].pairing]
    BY DEF Issue
  <2>2. Polled(c)
    BY DEF JInv, Joins
  <2>3. /\ j.pairing \in pairings /\ j.ticket \in ClaimedBy(j.pairing)
        /\ tickets[j.ticket].player = j.player
    BY <1>0, <2>1, <2>2 DEF Polled
  <2>4. j.ticket \in ClaimedBy(j.pairing)'
    BY <1>0, <2>3 DEF ClaimedBy, Held
  <2> QED
    BY <1>0, <2>3, <2>4 DEF IssuedOK
<1> QED
  BY <1>0, <1>1, <1>2, <1>3, JoinsKept DEF Recorded, Polled

-----------------------------------------------------------------------------
LEMMA JoinsInvariant == Spec => []JInv
<1>1. Init => JInv
  <2> SUFFICES ASSUME Init PROVE JInv
    OBVIOUS
  <2>1. Inv
    BY InvInit
  <2>2. Joins
    BY DEF Init, Joins, Matched, Held, Recorded, Polled
  <2> QED
    BY <2>1, <2>2 DEF JInv
<1>2. JInv /\ [Next]_vars => JInv'
  <2> SUFFICES ASSUME JInv, [Next]_vars PROVE JInv'
    OBVIOUS
  <2>1. Inv'
    BY InvStep, InvStutter DEF JInv
  <2>2. UNCHANGED vars => Joins'
    BY DEF vars, JInv, Joins, Matched, Held, Recorded, Two, Polled, IssuedOK, ClaimedBy
  <2>3. ASSUME NEW c \in Calls,
               Queue(c) \/ Poll(c) \/ Proceed(c) \/ Cancel(c) \/ RunOut(c) \/ Crash(c)
        PROVE  Joins'
    BY <2>3, PollJoins, ClaimJoins, RecordJoins, IssueJoins, CancelJoins DEF Proceed
  <2> QED
    BY <2>1, <2>2, <2>3 DEF Next, JInv
<1> QED
  BY <1>1, <1>2, PTL DEF Spec

(* A join ticket is only ever given for a pair, to one of the two, however *)
(* the polls, half claims, undos, expiries and crashes interleave.         *)
THEOREM JoinTicketsForPairs == Spec => []JoinTicketsAreForPairs
<1>1. JInv => JoinTicketsAreForPairs
  <2> SUFFICES ASSUME JInv, NEW j \in issued
               PROVE  /\ j.ticket \in ClaimedBy(j.pairing)
                      /\ \E u \in ClaimedBy(j.pairing) : tickets[u].player # j.player
    BY DEF JoinTicketsAreForPairs
  <2>1. j.pairing \in pairings /\ j.ticket \in ClaimedBy(j.pairing) /\ tickets[j.ticket].player = j.player
    BY DEF JInv, Joins, IssuedOK
  <2>2. PICK g \in Calls : g = j.pairing
    BY <2>1 DEF JInv, Inv, TypeOK
  <2>3. PICK t, u \in ClaimedBy(g) : t # u /\ ClaimedBy(g) = {t, u}
    BY <2>1, <2>2 DEF JInv, Joins, Recorded, Two
  <2>4. tickets[t].player # tickets[u].player
    BY <2>3 DEF JInv, Inv, ClaimOK
  <2> QED
    BY <2>1, <2>2, <2>3, <2>4
<1> QED
  BY <1>1, JoinsInvariant, PTL

-----------------------------------------------------------------------------
(* The results of matches: Ratings, for any number of players, handlers,   *)
(* calls and keys.  First the types; a match belongs to the one call that  *)
(* inserted it until that call is through with it.                         *)

(* What the locals of a handler are at its statement.                      *)
RFits(label, locals) ==
  /\ label \in {"place", "read", "write"} => locals.match \in DOMAIN placements
  /\ label = "place" => placements[locals.match] = [p \in Fighters |-> 0]
  /\ label \in {"read", "write"} =>
       placements[locals.match] = locals.field /\ locals.todo \subseteq R!In(locals.field)

RTypeInv ==
  /\ R!TypeOK
  /\ \A h \in Handlers : RFits(at[h], local[h])
  /\ \A g, h \in Handlers :
       at[g] \in {"place", "read", "write"} /\ at[h] \in {"place", "read", "write"}
         /\ local[g].match = local[h].match => g = h

(* FiniteSets, as Ratings has it. *)
LEMMA RFiniteSets ==
  ASSUME NEW S
  PROVE  (R!IsFiniteSet(S) <=> IsFiniteSet(S)) /\ R!Cardinality(S) = Cardinality(S)
<1>1. R!IsFiniteSet(S) <=> IsFiniteSet(S)
  BY DEF R!IsFiniteSet, IsFiniteSet
<1>2. R!Cardinality(S) = Cardinality(S)
  BY DEF R!Cardinality, Cardinality
<1> QED BY <1>1, <1>2

LEMMA RBlank == R!Blank \in R!Locals /\ R!Unrated \in R!Row
<1>1. R!Unrated \in R!Row
  BY DEF R!Unrated, R!Row
<1>2. /\ FALSE \in BOOLEAN /\ [p \in Fighters |-> 0] \in R!Places
      /\ [p \in Fighters |-> R!Unrated] \in [Fighters -> R!Row]
  BY <1>1 DEF R!Places
<1>3. R!Blank \in R!Locals
  BY <1>2, Zenon DEF R!Blank, R!Locals, R!Or
<1> QED BY <1>1, <1>3

LEMMA RFields ==
  ASSUME NEW m \in R!Locals
  PROVE  /\ m.key \in R!Or(Keys) /\ m.field \in R!Places /\ m.match \in Nat
         /\ m.twice \in BOOLEAN /\ m.before \in [Fighters -> R!Row] /\ m.todo \in SUBSET Fighters
  BY Zenon DEF R!Locals

LEMMA RUpdates ==
  ASSUME NEW m \in R!Locals
  PROVE  /\ \A n \in Nat : /\ [m EXCEPT !.match = n] \in R!Locals
                           /\ [m EXCEPT !.match = n].match = n
                           /\ [m EXCEPT !.match = n].field = m.field
                           /\ [m EXCEPT !.match = n].twice = m.twice
         /\ \A S \in SUBSET Fighters : /\ [m EXCEPT !.todo = S] \in R!Locals
                                      /\ [m EXCEPT !.todo = S].todo = S
                                      /\ [m EXCEPT !.todo = S].match = m.match
                                      /\ [m EXCEPT !.todo = S].field = m.field
                                      /\ [m EXCEPT !.todo = S].before = m.before
  BY Zenon DEF R!Locals

RWithRead(m, p, row, S) == [m EXCEPT !.before[p] = row, !.todo = S]

RIsBefore(e, m, p, row) == e.before = [m.before EXCEPT ![p] = row]

LEMMA RRead ==
  ASSUME NEW m \in R!Locals, NEW p \in Fighters, NEW row \in R!Row, NEW S \in SUBSET Fighters,
         NEW e, e = RWithRead(m, p, row, S)
  PROVE  /\ e \in R!Locals /\ e.todo = S /\ e.match = m.match /\ e.field = m.field
         /\ RIsBefore(e, m, p, row)
<1>1. [m.before EXCEPT ![p] = row] \in [Fighters -> R!Row]
  BY RFields
<1>2. e = [key |-> m.key, field |-> m.field, twice |-> m.twice, match |-> m.match,
           before |-> [m.before EXCEPT ![p] = row], todo |-> S]
  <2>1. m = [key |-> m.key, field |-> m.field, twice |-> m.twice, match |-> m.match,
             before |-> m.before, todo |-> m.todo]
    BY Zenon DEF R!Locals
  <2>2. e = [[m EXCEPT !.before = [m.before EXCEPT ![p] = row]] EXCEPT !.todo = S]
    BY DEF RWithRead
  <2> QED BY <2>1, <2>2
<1>3. e \in R!Locals
  BY <1>1, <1>2, RFields, Zenon DEF R!Locals
<1>4. e.todo = S /\ e.match = m.match /\ e.field = m.field /\ e.before = [m.before EXCEPT ![p] = row]
  BY <1>2
<1> QED BY <1>3, <1>4 DEF RIsBefore

LEMMA RRatingOf == ASSUME R!TypeOK, NEW p \in Fighters  PROVE R!RatingOf(p) \in R!Row
  BY RBlank DEF R!TypeOK, R!RatingOf, R!Or

LEMMA RGames ==
  ASSUME NEW h \in Handlers, NEW m \in R!Locals, m = local[h], NEW p \in Fighters
  PROVE  R!Games(h, p, m.before) \in SUBSET R!Game
<1>1. ASSUME NEW q \in R!In(m.field) \ {p}
      PROVE  [match |-> m.match, foe |-> q, score |-> R!Score(m.field, p, q),
              knew |-> m.before[q].matches] \in R!Game
  <2>1. q \in Fighters /\ m.match \in Nat /\ m.before[q] \in R!Row
    BY RFields DEF R!In
  <2>2. m.before[q].matches \in Nat
    BY <2>1 DEF R!Row
  <2>3. R!Score(m.field, p, q) \in 0..2
    BY DEF R!Score
  <2> QED BY <2>1, <2>2, <2>3 DEF R!Game
<1> QED BY <1>1 DEF R!Games
-----------------------------------------------------------------------------
(* Types.                                                                  *)
LEMMA RInitTypes == R!Init => RTypeInv
<1> SUFFICES ASSUME R!Init  PROVE RTypeInv
  OBVIOUS
<1>1. matches \in Seq(R!Or(Keys)) /\ placements \in Seq(R!Places) /\ Len(placements) = Len(matches)
  BY DEF R!Init
<1>2. ratings \in [Fighters -> R!Or(R!Row)] /\ calls \in 0..MaxCalls
  BY RatingsParameters DEF R!Init, R!Or, R!Parameters
<1>3. overlap \in BOOLEAN /\ local \in [Handlers -> R!Locals]
  BY RBlank, Zenon DEF R!Init
<1>4. at \in [Handlers -> {"idle", "insert", "place", "read", "write"}]
  BY DEF R!Init
<1>5. \A h \in Handlers : at[h] = "idle"
  BY DEF R!Init
<1>6. \A h \in Handlers : RFits(at[h], local[h])
  BY <1>5 DEF RFits
<1> QED BY <1>1, <1>2, <1>3, <1>4, <1>5, <1>6 DEF RTypeInv, R!TypeOK

RStep(h) == R!Report(h) \/ R!Insert(h) \/ R!Place(h) \/ R!Read(h) \/ R!Write(h)

LEMMA RGoto ==
  ASSUME R!TypeOK, NEW h \in Handlers, NEW label, NEW e,
         at' = [at EXCEPT ![h] = label], local' = [local EXCEPT ![h] = e]
  PROVE  /\ at'[h] = label /\ local'[h] = e
         /\ \A g \in Handlers : g # h => at'[g] = at[g] /\ local'[g] = local[g]
         /\ label \in {"idle", "insert", "place", "read", "write"} /\ e \in R!Locals =>
              /\ at' \in [Handlers -> {"idle", "insert", "place", "read", "write"}]
              /\ local' \in [Handlers -> R!Locals]
<1>1. at \in [Handlers -> {"idle", "insert", "place", "read", "write"}] /\ local \in [Handlers -> R!Locals]
  BY DEF R!TypeOK
<1> QED BY <1>1, Zenon

(* What a handler leaves behind, and what it needs to know of the others.  *)
RLeaves(h) ==
  /\ matches' \in Seq(R!Or(Keys)) /\ placements' \in Seq(R!Places) /\ Len(placements') = Len(matches')
  /\ ratings' \in [Fighters -> R!Or(R!Row)]
  /\ calls' \in 0..MaxCalls /\ overlap' \in BOOLEAN
  /\ \E label \in {"idle", "insert", "place", "read", "write"} : \E e \in R!Locals :
       /\ at' = [at EXCEPT ![h] = label] /\ local' = [local EXCEPT ![h] = e]
       /\ RFits(label, e)'
       /\ label \in {"place", "read", "write"} =>
            \/ at[h] \in {"place", "read", "write"} /\ e.match = local[h].match
            \/ e.match \notin DOMAIN placements
  /\ DOMAIN placements \subseteq DOMAIN placements'
  /\ \A n \in DOMAIN placements :
       placements'[n] = placements[n] \/ (at[h] = "place" /\ n = local[h].match)

LEMMA RReportTypes ==
  ASSUME RTypeInv, NEW h \in Handlers, R!Report(h)  PROVE RLeaves(h)
<1>0. R!TypeOK
  BY DEF RTypeInv
<1>1. PICK key \in R!Or(Keys), field \in R!Places, twice \in BOOLEAN :
        /\ at' = [at EXCEPT ![h] = "insert"]
        /\ local' = [local EXCEPT ![h] = [R!Blank EXCEPT !.key = key, !.field = field, !.twice = twice]]
  BY DEF R!Report
<1>2. [R!Blank EXCEPT !.key = key, !.field = field, !.twice = twice] \in R!Locals
  BY <1>1, RBlank, Zenon DEF R!Locals
<1>3. calls' \in 0..MaxCalls
  BY <1>0, RatingsParameters DEF R!Report, R!TypeOK, R!Parameters
<1>4. overlap' \in BOOLEAN
  BY <1>0, Zenon DEF R!Report, R!TypeOK
<1>5. \A e : RFits("insert", e)'
  BY DEF RFits
<1> QED BY <1>0, <1>1, <1>2, <1>3, <1>4, <1>5 DEF RLeaves, R!TypeOK, R!Report, R!tables

LEMMA RFinishes ==
  ASSUME RTypeInv, NEW h \in Handlers, R!Finish(h), UNCHANGED <<matches, placements>>,
         ratings' \in [Fighters -> R!Or(R!Row)]
  PROVE  RLeaves(h)
<1>1. \A e : RFits("idle", e)'
  BY DEF RFits
<1> QED BY <1>1, RBlank DEF RLeaves, RTypeInv, R!TypeOK, R!Finish, R!Goto

LEMMA RInsertTypes ==
  ASSUME RTypeInv, NEW h \in Handlers, R!Insert(h)  PROVE RLeaves(h)
<1>0. R!TypeOK
  BY DEF RTypeInv
<1>1. CASE R!Known(local[h].key)
  <2>1. R!Finish(h) /\ UNCHANGED R!tables
    BY <1>1 DEF R!Insert
  <2> QED BY <1>0, <2>1, RFinishes DEF R!tables, R!TypeOK
<1>2. CASE ~R!Known(local[h].key)
  <2>0. PICK m \in R!Locals : m = local[h]
    BY <1>0 DEF R!TypeOK
  <2>1. /\ matches' = Append(matches, m.key)
        /\ placements' = Append(placements, [p \in Fighters |-> 0])
        /\ R!Goto(h, "place", [m EXCEPT !.match = Len(matches) + 1])
        /\ UNCHANGED ratings
    BY <1>2, <2>0 DEF R!Insert
  <2>2. [p \in Fighters |-> 0] \in R!Places /\ m.key \in R!Or(Keys) /\ Len(matches) + 1 \in Nat
    BY <1>0, RFields DEF R!Places, R!TypeOK
  <2>3. /\ matches' \in Seq(R!Or(Keys)) /\ placements' \in Seq(R!Places) /\ Len(placements') = Len(matches')
        /\ DOMAIN placements' = DOMAIN placements \cup {Len(matches) + 1}
        /\ Len(matches) + 1 \notin DOMAIN placements
        /\ placements'[Len(matches) + 1] = [p \in Fighters |-> 0]
        /\ \A n \in DOMAIN placements : placements'[n] = placements[n]
    BY <1>0, <2>1, <2>2 DEF R!TypeOK
  <2> DEFINE e == [m EXCEPT !.match = Len(matches) + 1]
  <2>4. e \in R!Locals /\ e.match = Len(matches) + 1
    BY <2>2, RUpdates
  <2>5. at' = [at EXCEPT ![h] = "place"] /\ local' = [local EXCEPT ![h] = e] /\ UNCHANGED <<calls, overlap>>
    BY <2>1 DEF R!Goto
  <2> HIDE DEF e
  <2>6. PICK f : f = e
    OBVIOUS
  <2>7. RFits("place", f)'
    BY <2>3, <2>4, <2>6 DEF RFits
  <2> QED BY <1>0, <2>1, <2>3, <2>4, <2>5, <2>6, <2>7 DEF RLeaves, R!TypeOK
<1> QED BY <1>1, <1>2

LEMMA RPlaceTypes ==
  ASSUME RTypeInv, NEW h \in Handlers, R!Place(h)  PROVE RLeaves(h)
<1>0. R!TypeOK /\ at[h] = "place"
  BY DEF RTypeInv, R!Place
<1>1. CASE local[h].twice
  <2>1. R!Finish(h) /\ UNCHANGED R!tables
    BY <1>1 DEF R!Place
  <2> QED BY <1>0, <2>1, RFinishes DEF R!tables, R!TypeOK
<1>2. CASE ~local[h].twice
  <2>0. PICK m \in R!Locals : m = local[h]
    BY <1>0 DEF R!TypeOK
  <2>1. /\ placements' = [placements EXCEPT ![m.match] = m.field]
        /\ R!Goto(h, "read", [m EXCEPT !.todo = R!In(m.field)])
        /\ UNCHANGED <<matches, ratings>>
    BY <1>2, <2>0 DEF R!Place
  <2>2. m.match \in DOMAIN placements /\ m.field \in R!Places /\ R!In(m.field) \in SUBSET Fighters
    BY <1>0, <2>0, RFields DEF RTypeInv, RFits, R!In
  <2>3. /\ placements' \in Seq(R!Places) /\ Len(placements') = Len(matches)
        /\ DOMAIN placements' = DOMAIN placements /\ placements'[m.match] = m.field
        /\ \A n \in DOMAIN placements : n # m.match => placements'[n] = placements[n]
    BY <1>0, <2>1, <2>2 DEF R!TypeOK
  <2> DEFINE e == [m EXCEPT !.todo = R!In(m.field)]
  <2>4. e \in R!Locals /\ e.match = m.match /\ e.field = m.field /\ e.todo = R!In(m.field)
    BY <2>2, RUpdates
  <2>5. at' = [at EXCEPT ![h] = "read"] /\ local' = [local EXCEPT ![h] = e] /\ UNCHANGED <<calls, overlap>>
    BY <2>1 DEF R!Goto
  <2> HIDE DEF e
  <2>6. PICK f : f = e
    OBVIOUS
  <2>7. RFits("read", f)'
    BY <2>2, <2>3, <2>4, <2>6 DEF RFits
  <2> QED BY <1>0, <2>0, <2>1, <2>2, <2>3, <2>4, <2>5, <2>6, <2>7 DEF RLeaves, R!TypeOK
<1> QED BY <1>1, <1>2

LEMMA RReadTypes ==
  ASSUME RTypeInv, NEW h \in Handlers, R!Read(h)  PROVE RLeaves(h)
<1>0. R!TypeOK /\ at[h] = "read" /\ UNCHANGED R!tables
  BY DEF RTypeInv, R!Read
<1>1. PICK m \in R!Locals : m = local[h]
  BY <1>0 DEF R!TypeOK
<1>2. RFits("read", m) /\ m.todo \in SUBSET Fighters /\ R!In(m.field) \in SUBSET Fighters
  BY <1>0, <1>1, RFields DEF RTypeInv, R!In
<1>3. ASSUME NEW label \in {"read", "write"}, NEW e \in R!Locals, R!Goto(h, label, e), e.match = m.match,
             e.field = m.field, e.todo \subseteq R!In(m.field)
      PROVE  RLeaves(h)
  <2>1. RFits(label, e)'
    BY <1>0, <1>2, <1>3 DEF RFits, R!tables
  <2> QED BY <1>0, <1>1, <1>3, <2>1 DEF RLeaves, R!TypeOK, R!tables, R!Goto
<1>4. CASE m.todo = {}
  BY <1>1, <1>2, <1>3, <1>4, RUpdates DEF R!Read
<1>5. CASE m.todo # {}
  <2>1. PICK p \in m.todo : R!Goto(h, "read", [m EXCEPT !.before[p] = R!RatingOf(p), !.todo = @ \ {p}])
    BY <1>1, <1>5 DEF R!Read
  <2> DEFINE e == [m EXCEPT !.before[p] = R!RatingOf(p), !.todo = m.todo \ {p}]
  <2>2. R!Goto(h, "read", e)
    BY <2>1
  <2>3. e \in R!Locals /\ e.match = m.match /\ e.field = m.field /\ e.todo = m.todo \ {p}
    <3>1. p \in Fighters /\ R!RatingOf(p) \in R!Row /\ m.todo \ {p} \in SUBSET Fighters
      BY <1>0, <1>2, RRatingOf
    <3>2. PICK row \in R!Row, S \in SUBSET Fighters : row = R!RatingOf(p) /\ S = m.todo \ {p}
      BY <3>1
    <3>3. e = RWithRead(m, p, row, S)
      BY <3>2 DEF RWithRead
    <3> HIDE DEF e
    <3>4. e \in R!Locals /\ e.match = m.match /\ e.field = m.field /\ e.todo = S
      BY <3>1, <3>3, RRead
    <3> QED BY <3>2, <3>4
  <2> HIDE DEF e
  <2>4. e.todo \subseteq R!In(m.field)
    BY <1>2, <2>3 DEF RFits
  <2> QED BY <1>3, <2>2, <2>3, <2>4
<1> QED BY <1>4, <1>5

LEMMA RWriteTypes ==
  ASSUME RTypeInv, NEW h \in Handlers, R!Write(h)  PROVE RLeaves(h)
<1>0. R!TypeOK /\ at[h] = "write" /\ UNCHANGED <<matches, placements>>
  BY DEF RTypeInv, R!Write
<1>1. PICK m \in R!Locals : m = local[h]
  BY <1>0 DEF R!TypeOK
<1>2. RFits("write", m) /\ m.todo \in SUBSET Fighters
  BY <1>0, <1>1, RFields DEF RTypeInv
<1>3. CASE R!Finish(h) /\ UNCHANGED ratings
  BY <1>0, <1>3, RFinishes DEF R!TypeOK
<1>4. ASSUME NEW p \in m.todo,
             ratings' = [ratings EXCEPT ![p] =
               [games |-> m.before[p].games \cup R!Games(h, p, m.before), matches |-> R!RatingOf(p).matches + 1]],
             R!Goto(h, "write", [m EXCEPT !.todo = @ \ {p}])
      PROVE  RLeaves(h)
  <2>1. p \in Fighters /\ m.before[p] \in R!Row
    BY <1>2, RFields
  <2>2. R!Games(h, p, m.before) \in SUBSET R!Game /\ m.before[p].games \in SUBSET R!Game
    BY <1>1, <2>1, RGames DEF R!Row
  <2>3. R!RatingOf(p).matches + 1 \in Nat
    BY <1>0, <2>1, RRatingOf DEF R!Row
  <2>4. [games |-> m.before[p].games \cup R!Games(h, p, m.before), matches |-> R!RatingOf(p).matches + 1] \in R!Row
    BY <2>2, <2>3 DEF R!Row
  <2>5. ratings' \in [Fighters -> R!Or(R!Row)]
    BY <1>0, <1>4, <2>4 DEF R!TypeOK, R!Or
  <2> DEFINE e == [m EXCEPT !.todo = m.todo \ {p}]
  <2>6. R!Goto(h, "write", e)
    BY <1>4
  <2>7. e \in R!Locals /\ e.match = m.match /\ e.field = m.field /\ e.todo = m.todo \ {p}
    BY <1>2, RUpdates
  <2> HIDE DEF e
  <2>8. PICK f : f = e
    OBVIOUS
  <2>9. RFits("write", f)'
    BY <1>0, <1>2, <2>7, <2>8 DEF RFits
  <2> QED BY <1>0, <1>1, <2>5, <2>6, <2>7, <2>8, <2>9 DEF RLeaves, R!TypeOK, R!Goto
<1> QED BY <1>1, <1>3, <1>4 DEF R!Write

LEMMA RStepLeaves ==
  ASSUME RTypeInv, NEW h \in Handlers, RStep(h)  PROVE RLeaves(h)
  BY RReportTypes, RInsertTypes, RPlaceTypes, RReadTypes, RWriteTypes DEF RStep

LEMMA RStepTypes ==
  ASSUME RTypeInv, NEW h \in Handlers, RStep(h)  PROVE RTypeInv'
<1>0. R!TypeOK /\ RLeaves(h)
  BY RStepLeaves DEF RTypeInv
<1>1. PICK label \in {"idle", "insert", "place", "read", "write"}, e \in R!Locals :
        /\ at' = [at EXCEPT ![h] = label] /\ local' = [local EXCEPT ![h] = e]
        /\ RFits(label, e)'
        /\ label \in {"place", "read", "write"} =>
            \/ at[h] \in {"place", "read", "write"} /\ e.match = local[h].match
            \/ e.match \notin DOMAIN placements
  BY <1>0 DEF RLeaves
<1>2. /\ at'[h] = label /\ local'[h] = e
      /\ \A g \in Handlers : g # h => at'[g] = at[g] /\ local'[g] = local[g]
      /\ at' \in [Handlers -> {"idle", "insert", "place", "read", "write"}]
      /\ local' \in [Handlers -> R!Locals]
  BY <1>0, <1>1, RGoto
<1>3. R!TypeOK'
  BY <1>0, <1>2 DEF R!TypeOK, RLeaves
<1>4. ASSUME NEW g \in Handlers  PROVE RFits(at[g], local[g])'
  <2>1. CASE g = h
    BY <1>1, <1>2, <2>1 DEF RFits
  <2>2. CASE g # h
    <3>1. at'[g] = at[g] /\ local'[g] = local[g]
      BY <1>2, <2>2
    <3>2. RFits(at[g], local[g])
      BY DEF RTypeInv
    <3>3. at[g] \in {"place", "read", "write"} => placements'[local[g].match] = placements[local[g].match]
      BY <1>0, <2>2, <3>2 DEF RTypeInv, RLeaves, RFits
    <3> QED BY <1>0, <3>1, <3>2, <3>3 DEF RFits, RLeaves
  <2> QED BY <2>1, <2>2
<1>5. ASSUME NEW g \in Handlers, g # h, at[g] \in {"place", "read", "write"},
             label \in {"place", "read", "write"}
      PROVE  local[g].match # e.match
  BY <1>1, <1>5 DEF RTypeInv, RFits
<1>6. ASSUME NEW f \in Handlers, NEW g \in Handlers, at'[f] \in {"place", "read", "write"},
             at'[g] \in {"place", "read", "write"}, local'[f].match = local'[g].match
      PROVE  f = g
  <2>1. CASE f # h /\ g # h
    BY <1>2, <1>6, <2>1 DEF RTypeInv
  <2>2. CASE (f = h /\ g # h) \/ (f # h /\ g = h)
    BY <1>2, <1>5, <1>6, <2>2
  <2> QED BY <2>1, <2>2
<1> QED BY <1>3, <1>4, <1>6 DEF RTypeInv

LEMMA RTypeInvariant == R!Spec => []RTypeInv
<1>1. RTypeInv /\ [R!Next]_R!vars => RTypeInv'
  <2>1. RTypeInv /\ UNCHANGED R!vars => RTypeInv'
    BY DEF R!vars, RTypeInv, R!TypeOK, RFits
  <2>2. R!Next => \E h \in Handlers : RStep(h)
    BY DEF R!Next, RStep
  <2> QED BY <2>1, <2>2, RStepTypes
<1> QED BY <1>1, RInitTypes, PTL DEF R!Spec

-----------------------------------------------------------------------------
(* No key has two matches.                                                 *)
RKeysInv == \A m, n \in DOMAIN matches : matches[m] = matches[n] /\ matches[m] # Nil => m = n

LEMMA RKeysInvariant == R!Spec => []RKeysInv
<1>1. R!Init => RKeysInv
  BY DEF R!Init, RKeysInv
<1>2. RTypeInv /\ RKeysInv /\ [R!Next]_R!vars => RKeysInv'
  <2> SUFFICES ASSUME RTypeInv, RKeysInv, [R!Next]_R!vars  PROVE RKeysInv'
    OBVIOUS
  <2>1. CASE UNCHANGED matches
    BY <2>1 DEF RKeysInv
  <2>2. ASSUME NEW h \in Handlers, R!Insert(h), ~R!Known(local[h].key)  PROVE RKeysInv'
    <3>1. matches' = Append(matches, local[h].key) /\ matches \in Seq(R!Or(Keys))
      BY <2>2 DEF R!Insert, RTypeInv, R!TypeOK
    <3>2. local[h].key \in R!Or(Keys)
      BY <2>2, RFields DEF RTypeInv, R!TypeOK
    <3> QED BY <2>2, <3>1, <3>2 DEF RKeysInv, R!Known
  <2>3. UNCHANGED matches \/ \E h \in Handlers : R!Insert(h) /\ ~R!Known(local[h].key)
    BY DEF R!Next, R!Report, R!Insert, R!Place, R!Read, R!Write, R!tables, R!vars
  <2> QED BY <2>1, <2>2, <2>3
<1> QED BY <1>1, <1>2, RTypeInvariant, PTL DEF R!Spec

-----------------------------------------------------------------------------
(* A player's matches are those that are counted, and those of the calls   *)
(* that still have to count them.                                          *)
RPending(p) ==
  {h \in Handlers : \/ at[h] = "read" /\ p \in R!In(local[h].field)
                    \/ at[h] = "write" /\ p \in local[h].todo}

RCountInv ==
  \A p \in Fighters : R!RatingOf(p).matches + Cardinality(RPending(p)) = Cardinality(R!PlayedBy(p))

LEMMA RFinite ==
  ASSUME RTypeInv, NEW p \in Fighters
  PROVE  /\ IsFiniteSet(RPending(p)) /\ Cardinality(RPending(p)) \in Nat
         /\ IsFiniteSet(R!PlayedBy(p)) /\ Cardinality(R!PlayedBy(p)) \in Nat
         /\ R!RatingOf(p).matches \in Nat
<1>1. IsFiniteSet(RPending(p))
  BY FS_Subset, RFiniteSets, RatingsParameters DEF RPending, R!Parameters
<1>2. DOMAIN placements = 1..Len(placements) /\ Len(placements) \in Nat
  BY DEF RTypeInv, R!TypeOK
<1>3. IsFiniteSet(R!PlayedBy(p))
  <2>1. IsFiniteSet(1..Len(placements))
    BY <1>2, FS_Interval
  <2> QED BY <1>2, <2>1, FS_Subset DEF R!PlayedBy
<1>4. R!RatingOf(p).matches \in Nat
  BY RRatingOf DEF RTypeInv, R!Row
<1> QED BY <1>1, <1>3, <1>4, FS_CardinalityType

LEMMA RCountStays ==
  ASSUME RTypeInv, RCountInv, NEW p \in Fighters, R!RatingOf(p)'.matches = R!RatingOf(p).matches,
         RPending(p)' = RPending(p), R!PlayedBy(p)' = R!PlayedBy(p)
  PROVE  R!RatingOf(p)'.matches + Cardinality(RPending(p)') = Cardinality(R!PlayedBy(p)')
  BY DEF RCountInv

LEMMA RCountStep ==
  ASSUME RTypeInv, RCountInv, NEW h \in Handlers, RStep(h), NEW p \in Fighters
  PROVE  R!RatingOf(p)'.matches + Cardinality(RPending(p)') = Cardinality(R!PlayedBy(p)')
<1>0. /\ R!TypeOK /\ at \in [Handlers -> {"idle", "insert", "place", "read", "write"}]
      /\ local \in [Handlers -> R!Locals]
  BY DEF RTypeInv, R!TypeOK
<1>1. PICK m \in R!Locals : m = local[h]
  BY <1>0
<1>2. ASSUME NEW label, NEW e, R!Goto(h, label, e)
      PROVE  /\ at'[h] = label /\ local'[h] = e
             /\ \A g \in Handlers : g # h => at'[g] = at[g] /\ local'[g] = local[g]
  BY <1>0, <1>2, RGoto DEF R!Goto
<1>3. CASE R!Report(h)
  <2>1. at[h] = "idle" /\ at' = [at EXCEPT ![h] = "insert"] /\ UNCHANGED R!tables
        /\ \E e : local' = [local EXCEPT ![h] = e]
    BY <1>3 DEF R!Report
  <2>2. at'[h] = "insert" /\ \A g \in Handlers : g # h => at'[g] = at[g] /\ local'[g] = local[g]
    BY <1>0, <2>1
  <2>3. RPending(p)' = RPending(p)
    BY <2>1, <2>2 DEF RPending
  <2> QED BY <2>1, <2>3, RCountStays DEF R!tables, R!RatingOf, R!PlayedBy
<1>4. CASE R!Insert(h)
  <2>1. at[h] = "insert" /\ UNCHANGED ratings
    BY <1>4 DEF R!Insert, R!tables
  <2>2. \E label \in {"idle", "place"} : \E e : R!Goto(h, label, e)
    BY <1>4 DEF R!Insert, R!Finish
  <2>3. RPending(p)' = RPending(p)
    BY <1>2, <2>1, <2>2 DEF RPending
  <2>4. R!PlayedBy(p)' = R!PlayedBy(p)
    <3>1. CASE UNCHANGED placements
      BY <3>1 DEF R!PlayedBy
    <3>2. CASE placements' = Append(placements, [q \in Fighters |-> 0])
      BY <1>0, <3>2 DEF R!PlayedBy, R!TypeOK, R!Places
    <3> QED BY <1>4, <3>1, <3>2 DEF R!Insert, R!tables
  <2> QED BY <2>1, <2>3, <2>4, RCountStays DEF R!RatingOf
<1>5. CASE R!Place(h)
  <2>0. at[h] = "place" /\ UNCHANGED ratings /\ h \notin RPending(p)
    BY <1>5 DEF R!Place, R!tables, RPending
  <2>1. CASE m.twice
    <3>1. R!Finish(h) /\ UNCHANGED R!tables
      BY <1>1, <1>5, <2>1 DEF R!Place
    <3>2. RPending(p)' = RPending(p)
      BY <1>2, <2>0, <3>1 DEF RPending, R!Finish
    <3> QED BY <3>1, <3>2, RCountStays DEF R!tables, R!RatingOf, R!PlayedBy
  <2>2. CASE ~m.twice
    <3>1. /\ placements' = [placements EXCEPT ![m.match] = m.field]
          /\ R!Goto(h, "read", [m EXCEPT !.todo = R!In(m.field)])
      BY <1>1, <1>5, <2>2 DEF R!Place
    <3>2. R!In(m.field) \in SUBSET Fighters /\ m.field \in R!Places
      BY RFields DEF R!In
    <3>3. [m EXCEPT !.todo = R!In(m.field)].field = m.field
      BY <3>2, RUpdates
    <3>4. at'[h] = "read" /\ local'[h].field = m.field
      BY <1>2, <3>1, <3>3
    <3>5. m.match \in DOMAIN placements /\ placements[m.match] = [q \in Fighters |-> 0]
      BY <1>1, <2>0 DEF RTypeInv, RFits
    <3>6. /\ DOMAIN placements' = DOMAIN placements /\ placements'[m.match] = m.field
          /\ \A n \in DOMAIN placements : n # m.match => placements'[n] = placements[n]
      BY <1>0, <3>1, <3>5 DEF R!TypeOK
    <3>7. CASE p \in R!In(m.field)
      <4>1. RPending(p)' = RPending(p) \cup {h}
        BY <1>2, <2>0, <3>1, <3>4, <3>7 DEF RPending
      <4>2. R!PlayedBy(p)' = R!PlayedBy(p) \cup {m.match} /\ m.match \notin R!PlayedBy(p)
        BY <3>5, <3>6, <3>7 DEF R!PlayedBy, R!In
      <4>3. Cardinality(RPending(p)') = Cardinality(RPending(p)) + 1
        BY <2>0, <4>1, RFinite, FS_AddElement
      <4>4. Cardinality(R!PlayedBy(p)') = Cardinality(R!PlayedBy(p)) + 1
        BY <4>2, RFinite, FS_AddElement
      <4>5. R!RatingOf(p)' = R!RatingOf(p)
        BY <2>0 DEF R!RatingOf
      <4> QED BY <4>3, <4>4, <4>5, RFinite DEF RCountInv
    <3>8. CASE p \notin R!In(m.field)
      <4>1. RPending(p)' = RPending(p)
        BY <1>2, <2>0, <3>1, <3>4, <3>8 DEF RPending
      <4>2. R!PlayedBy(p)' = R!PlayedBy(p)
        BY <3>5, <3>6, <3>8 DEF R!PlayedBy, R!In
      <4> QED BY <2>0, <4>1, <4>2, RCountStays DEF R!RatingOf
    <3> QED BY <3>7, <3>8
  <2> QED BY <2>1, <2>2
<1>6. CASE R!Read(h)
  <2>0. at[h] = "read" /\ UNCHANGED R!tables /\ m.todo \in SUBSET Fighters /\ R!In(m.field) \in SUBSET Fighters
    BY <1>1, <1>6, RFields DEF R!Read, R!In
  <2>1. \/ at'[h] = "read" /\ local'[h].field = m.field
        \/ at'[h] = "write" /\ local'[h].todo = R!In(m.field)
    <3>1. CASE m.todo = {}
      <4>1. R!Goto(h, "write", [m EXCEPT !.todo = R!In(m.field)])
        BY <1>1, <1>6, <3>1 DEF R!Read
      <4>2. [m EXCEPT !.todo = R!In(m.field)].todo = R!In(m.field)
        BY <2>0, RUpdates
      <4> QED BY <1>2, <4>1, <4>2
    <3>2. CASE m.todo # {}
      <4>1. PICK q \in m.todo : R!Goto(h, "read", [m EXCEPT !.before[q] = R!RatingOf(q), !.todo = @ \ {q}])
        BY <1>1, <1>6, <3>2 DEF R!Read
      <4>2. q \in Fighters /\ R!RatingOf(q) \in R!Row /\ m.todo \ {q} \in SUBSET Fighters
        BY <1>0, <2>0, RRatingOf
      <4>3. PICK row \in R!Row, S \in SUBSET Fighters : row = R!RatingOf(q) /\ S = m.todo \ {q}
        BY <4>2
      <4>4. R!Goto(h, "read", RWithRead(m, q, row, S))
        BY <4>1, <4>3 DEF RWithRead
      <4>5. PICK e : e = RWithRead(m, q, row, S)
        OBVIOUS
      <4>6. e.field = m.field
        BY <4>2, <4>5, RRead
      <4> QED BY <1>2, <4>4, <4>5, <4>6
    <3> QED BY <3>1, <3>2
  <2>2. \A g \in Handlers : g # h => at'[g] = at[g] /\ local'[g] = local[g]
    BY <1>2, <1>6 DEF R!Read
  <2>3. RPending(p)' = RPending(p)
    BY <1>1, <2>0, <2>1, <2>2 DEF RPending
  <2> QED BY <2>0, <2>3, RCountStays DEF R!tables, R!RatingOf, R!PlayedBy
<1>7. CASE R!Write(h)
  <2>0. at[h] = "write" /\ UNCHANGED <<matches, placements>> /\ m.todo \in SUBSET Fighters
    BY <1>1, <1>7, RFields DEF R!Write
  <2>1. R!PlayedBy(p)' = R!PlayedBy(p)
    BY <2>0 DEF R!PlayedBy
  <2>2. CASE m.todo = {} /\ R!Finish(h) /\ UNCHANGED ratings
    <3>1. RPending(p)' = RPending(p)
      BY <1>1, <1>2, <2>0, <2>2 DEF RPending, R!Finish
    <3> QED BY <2>1, <2>2, <3>1, RCountStays DEF R!RatingOf
  <2>3. ASSUME NEW q \in m.todo,
               ratings' = [ratings EXCEPT ![q] =
                 [games |-> m.before[q].games \cup R!Games(h, q, m.before), matches |-> R!RatingOf(q).matches + 1]],
               R!Goto(h, "write", [m EXCEPT !.todo = @ \ {q}])
        PROVE  R!RatingOf(p)'.matches + Cardinality(RPending(p)') = Cardinality(R!PlayedBy(p)')
    <3>1. [m EXCEPT !.todo = m.todo \ {q}].todo = m.todo \ {q}
      BY <2>0, RUpdates
    <3>2. at'[h] = "write" /\ local'[h].todo = m.todo \ {q}
      BY <1>2, <2>3, <3>1
    <3>3. CASE p = q
      <4>1. RPending(p)' = RPending(p) \ {h} /\ h \in RPending(p)
        BY <1>1, <1>2, <2>0, <2>3, <3>2, <3>3 DEF RPending
      <4>2. Cardinality(RPending(p)') = Cardinality(RPending(p)) - 1
        BY <4>1, RFinite, FS_RemoveElement
      <4>3. ratings'[p] # Nil /\ ratings'[p].matches = R!RatingOf(p).matches + 1
        <5>1. ratings' \in [Fighters -> R!Or(R!Row)]
          BY <1>7, RWriteTypes DEF RLeaves
        <5>2. p \in Fighters /\ m.before[p] \in R!Row
          BY <2>0, <2>3, <3>3, RFields
        <5>3. [games |-> m.before[p].games \cup R!Games(h, p, m.before),
               matches |-> R!RatingOf(p).matches + 1] \in R!Row
          BY <1>1, <5>2, RGames, RFinite DEF R!Row
        <5> QED BY <1>0, <2>3, <3>3, <5>3, RatingsParameters DEF R!TypeOK, R!Parameters
      <4>4. R!RatingOf(p)'.matches = R!RatingOf(p).matches + 1
        BY <4>3 DEF R!RatingOf
      <4> QED BY <2>1, <4>2, <4>4, RFinite DEF RCountInv
    <3>4. CASE p # q
      <4>1. RPending(p)' = RPending(p)
        BY <1>1, <1>2, <2>0, <2>3, <3>2, <3>4 DEF RPending
      <4>2. ratings'[p] = ratings[p]
        BY <1>0, <2>3, <3>4 DEF R!TypeOK
      <4> QED BY <2>1, <4>1, <4>2, RCountStays DEF R!RatingOf
    <3> QED BY <3>3, <3>4
  <2> QED BY <1>1, <1>7, <2>2, <2>3 DEF R!Write
<1> QED BY <1>3, <1>4, <1>5, <1>6, <1>7 DEF RStep

LEMMA RCountInvariant == R!Spec => []RCountInv
<1>1. R!Init => RCountInv
  <2> SUFFICES ASSUME R!Init, NEW p \in Fighters
               PROVE  R!RatingOf(p).matches + Cardinality(RPending(p)) = Cardinality(R!PlayedBy(p))
    BY DEF RCountInv
  <2>1. RPending(p) = {} /\ R!PlayedBy(p) = {}
    BY DEF R!Init, RPending, R!PlayedBy
  <2>2. R!RatingOf(p).matches = 0
    BY DEF R!Init, R!RatingOf, R!Unrated
  <2> QED BY <2>1, <2>2, FS_EmptySet
<1>2. RTypeInv /\ RCountInv /\ [R!Next]_R!vars => RCountInv'
  <2>1. RCountInv /\ UNCHANGED R!vars => RCountInv'
    BY DEF R!vars, RCountInv, R!RatingOf, RPending, R!PlayedBy
  <2>2. R!Next => \E h \in Handlers : RStep(h)
    BY DEF R!Next, RStep
  <2>3. RTypeInv /\ RCountInv /\ (\E h \in Handlers : RStep(h)) => RCountInv'
    BY RCountStep DEF RCountInv
  <2> QED BY <2>1, <2>2, <2>3
<1> QED BY <1>1, <1>2, RTypeInvariant, PTL DEF R!Spec

-----------------------------------------------------------------------------
(* Call after call: one at a time, and its match is the last.              *)
ROneInv ==
  ~overlap => /\ \A g, h \in R!InFlight : g = h
              /\ \A h \in Handlers :
                   at[h] \in {"place", "read", "write"} => local[h].match = Len(placements)

LEMMA ROneStep ==
  ASSUME RTypeInv, ROneInv, NEW h \in Handlers, RStep(h)  PROVE ROneInv'
<1> SUFFICES ASSUME ~overlap'
             PROVE  /\ \A g, f \in R!InFlight' : g = f
                    /\ \A g \in Handlers :
                         at'[g] \in {"place", "read", "write"} => local'[g].match = Len(placements')
  BY DEF ROneInv
<1>0. /\ R!TypeOK /\ RLeaves(h) /\ overlap \in BOOLEAN
      /\ at \in [Handlers -> {"idle", "insert", "place", "read", "write"}]
  BY RStepLeaves DEF RTypeInv, R!TypeOK
<1>1. PICK label \in {"idle", "insert", "place", "read", "write"}, e \in R!Locals :
        /\ at' = [at EXCEPT ![h] = label] /\ local' = [local EXCEPT ![h] = e]
        /\ RFits(label, e)'
        /\ label \in {"place", "read", "write"} =>
            \/ at[h] \in {"place", "read", "write"} /\ e.match = local[h].match
            \/ e.match \notin DOMAIN placements
  BY <1>0 DEF RLeaves
<1>2. /\ at'[h] = label /\ local'[h] = e
      /\ \A g \in Handlers : g # h => at'[g] = at[g] /\ local'[g] = local[g]
  BY <1>0, <1>1, RGoto
<1>3. ~overlap /\ (R!Report(h) => R!InFlight = {})
  BY <1>0 DEF RStep, R!Report, R!Insert, R!Place, R!Read, R!Write, R!Goto, R!Finish
<1>4. R!Report(h) \/ at[h] # "idle"
  BY DEF RStep, R!Insert, R!Place, R!Read, R!Write
<1>5. \A g \in Handlers : g # h => at[g] = "idle"
  BY <1>3, <1>4 DEF ROneInv, R!InFlight
<1>6. \A g, f \in R!InFlight' : g = f
  BY <1>2, <1>5 DEF R!InFlight
<1>7. label \in {"place", "read", "write"} => e.match = Len(placements')
  <2> SUFFICES ASSUME label \in {"place", "read", "write"}  PROVE e.match = Len(placements')
    OBVIOUS
  <2>1. CASE R!Insert(h) /\ ~R!Known(local[h].key)
    <3>1. placements' = Append(placements, [p \in Fighters |-> 0]) /\ at[h] = "insert"
      BY <2>1 DEF R!Insert
    <3>2. e.match \notin DOMAIN placements /\ e.match \in DOMAIN placements'
      BY <1>1, <3>1 DEF RFits
    <3>3. [p \in Fighters |-> 0] \in R!Places /\ placements \in Seq(R!Places)
      BY <1>0 DEF R!Places, R!TypeOK
    <3>4. DOMAIN placements' = DOMAIN placements \cup {Len(placements')}
      BY <3>1, <3>3
    <3> QED BY <3>2, <3>4
  <2>2. CASE ~(R!Insert(h) /\ ~R!Known(local[h].key))
    <3>1. Len(placements') = Len(placements) /\ DOMAIN placements' = DOMAIN placements
      <4>1. UNCHANGED placements \/ \E m, v : placements' = [placements EXCEPT ![m] = v]
        BY <2>2 DEF RStep, R!Report, R!Insert, R!Place, R!Read, R!Write, R!tables
      <4>2. placements \in Seq(R!Places) /\ placements' \in Seq(R!Places)
        BY <1>0 DEF R!TypeOK, RLeaves
      <4>3. DOMAIN placements' = DOMAIN placements
        BY <4>1, <4>2
      <4> QED BY <4>2, <4>3
    <3>2. e.match \in DOMAIN placements'
      BY <1>1 DEF RFits
    <3> QED BY <1>1, <1>3, <3>1, <3>2 DEF ROneInv
  <2> QED BY <2>1, <2>2
<1>8. ASSUME NEW g \in Handlers, at'[g] \in {"place", "read", "write"}  PROVE local'[g].match = Len(placements')
  BY <1>2, <1>5, <1>7, <1>8
<1> QED BY <1>6, <1>8

LEMMA ROneInvariant == R!Spec => []ROneInv
<1>1. R!Init => ROneInv
  BY DEF R!Init, ROneInv, R!InFlight
<1>2. RTypeInv /\ ROneInv /\ [R!Next]_R!vars => ROneInv'
  <2>1. ROneInv /\ UNCHANGED R!vars => ROneInv'
    BY DEF R!vars, ROneInv, R!InFlight
  <2>2. R!Next => \E h \in Handlers : RStep(h)
    BY DEF R!Next, RStep
  <2> QED BY <2>1, <2>2, ROneStep
<1> QED BY <1>1, <1>2, RTypeInvariant, PTL DEF R!Spec

-----------------------------------------------------------------------------
(* What the placements s say of the matches of p before the M-th: which    *)
(* they are, and the games that a rating comes from.                       *)
RBefore(s, p, M) == {n \in DOMAIN s : s[n][p] > 0 /\ n < M}

RGamesAt(s, m, p) ==
  {[match |-> m, foe |-> q, score |-> R!Score(s[m], p, q), knew |-> Cardinality(RBefore(s, q, m))]
     : q \in R!In(s[m]) \ {p}}

RUpto(s, p, M) == UNION {RGamesAt(s, m, p) : m \in RBefore(s, p, M)}

LEMMA RSame ==
  ASSUME NEW s \in Seq(R!Places), NEW t \in Seq(R!Places), NEW M \in Nat, M <= Len(s) + 1, M <= Len(t) + 1,
         \A n \in 1..(M - 1) : s[n] = t[n], NEW p \in Fighters
  PROVE  RBefore(s, p, M) = RBefore(t, p, M) /\ RUpto(s, p, M) = RUpto(t, p, M)
<1>1. ASSUME NEW q \in Fighters, NEW K \in Nat, K <= M  PROVE RBefore(s, q, K) = RBefore(t, q, K)
  BY <1>1 DEF RBefore
<1>2. ASSUME NEW m \in RBefore(s, p, M)  PROVE RGamesAt(s, m, p) = RGamesAt(t, m, p)
  <2>1. m \in Nat /\ m <= M /\ m \in 1..(M - 1)
    BY DEF RBefore
  <2>2. s[m] = t[m]
    BY <2>1
  <2>3. \A q \in R!In(s[m]) : RBefore(s, q, m) = RBefore(t, q, m)
    BY <1>1, <2>1 DEF R!In
  <2> QED BY <2>2, <2>3 DEF RGamesAt
<1>3. RBefore(s, p, M) = RBefore(t, p, M)
  BY <1>1
<1> QED BY <1>2, <1>3 DEF RUpto

LEMMA RLast ==
  ASSUME NEW s \in Seq(R!Places), NEW L \in Nat, L = Len(s), L # 0, NEW p \in Fighters
  PROVE  /\ s[L][p] > 0 => /\ RBefore(s, p, L + 1) = RBefore(s, p, L) \cup {L}
                           /\ RUpto(s, p, L + 1) = RUpto(s, p, L) \cup RGamesAt(s, L, p)
         /\ ~(s[L][p] > 0) => /\ RBefore(s, p, L + 1) = RBefore(s, p, L)
                              /\ RUpto(s, p, L + 1) = RUpto(s, p, L)
         /\ L \notin RBefore(s, p, L)
<1>1. s[L][p] > 0 => RBefore(s, p, L + 1) = RBefore(s, p, L) \cup {L}
  BY DEF RBefore
<1>2. ~(s[L][p] > 0) => RBefore(s, p, L + 1) = RBefore(s, p, L)
  BY DEF RBefore
<1>3. L \notin RBefore(s, p, L)
  BY DEF RBefore
<1>4. ASSUME s[L][p] > 0  PROVE RUpto(s, p, L + 1) = RUpto(s, p, L) \cup RGamesAt(s, L, p)
  BY <1>1, <1>4 DEF RUpto
<1> QED BY <1>1, <1>2, <1>3, <1>4 DEF RUpto

LEMMA RAll ==
  ASSUME RTypeInv, NEW p \in Fighters
  PROVE  R!PlayedBy(p) = RBefore(placements, p, Len(placements) + 1)
  BY DEF RTypeInv, R!TypeOK, R!PlayedBy, RBefore

(* At read or write: what is rated, and what has been read of whom.        *)
RRated(label, locals) ==
  LET L == Len(placements) IN
  \A p \in Fighters :
    /\ R!RatingOf(p).games =
         IF label = "write" /\ p \in R!In(locals.field) \ locals.todo
           THEN RUpto(placements, p, L + 1) ELSE RUpto(placements, p, L)
    /\ p \in R!In(locals.field) /\ (label = "write" \/ p \notin locals.todo) =>
         /\ locals.before[p].games = RUpto(placements, p, L)
         /\ locals.before[p].matches = Cardinality(RBefore(placements, p, L))

(* Nobody writes: the ratings come from all matches.                       *)
RSettled == \A p \in Fighters : R!RatingOf(p).games = RUpto(placements, p, Len(placements) + 1)

RGamesInv ==
  ~overlap =>
    /\ (\A h \in Handlers : at[h] \notin {"read", "write"}) => RSettled
    /\ \A h \in Handlers : at[h] \in {"read", "write"} => RRated(at[h], local[h])

LEMMA RAlone ==
  ASSUME RTypeInv, ROneInv, RGamesInv, NEW h \in Handlers, RStep(h), ~overlap'
  PROVE  /\ \A g \in Handlers : g # h => at[g] = "idle" /\ at'[g] = "idle"
         /\ at[h] \notin {"read", "write"} => RSettled
         /\ at[h] \in {"read", "write"} => RRated(at[h], local[h])
         /\ at[h] \in {"place", "read", "write"} => local[h].match = Len(placements)
<1>0. /\ R!TypeOK /\ RLeaves(h) /\ overlap \in BOOLEAN
      /\ at \in [Handlers -> {"idle", "insert", "place", "read", "write"}]
  BY RStepLeaves DEF RTypeInv, R!TypeOK
<1>1. PICK label, e : at' = [at EXCEPT ![h] = label] /\ local' = [local EXCEPT ![h] = e]
  BY <1>0 DEF RLeaves
<1>2. \A g \in Handlers : g # h => at'[g] = at[g]
  BY <1>0, <1>1
<1>3. ~overlap /\ (R!Report(h) => R!InFlight = {})
  BY <1>0 DEF RStep, R!Report, R!Insert, R!Place, R!Read, R!Write, R!Goto, R!Finish
<1>4. R!Report(h) \/ at[h] # "idle"
  BY DEF RStep, R!Insert, R!Place, R!Read, R!Write
<1>5. \A g \in Handlers : g # h => at[g] = "idle"
  BY <1>3, <1>4 DEF ROneInv, R!InFlight
<1>6. at[h] \notin {"read", "write"} => RSettled
  BY <1>3, <1>5 DEF RGamesInv
<1> QED BY <1>2, <1>3, <1>5, <1>6 DEF RGamesInv, ROneInv

(* What is left behind by a step that is taken alone.                      *)
RSound(label, locals) ==
  /\ label \notin {"read", "write"} => RSettled
  /\ label \in {"read", "write"} => RRated(label, locals)

RMoves(h, label, locals) ==
  at' = [at EXCEPT ![h] = label] /\ local' = [local EXCEPT ![h] = locals]

LEMMA RSoundGames ==
  ASSUME RTypeInv, ROneInv, RGamesInv, NEW h \in Handlers, RStep(h), NEW label, NEW e,
         RMoves(h, label, e), ~overlap' => RSound(label, e)'
  PROVE  RGamesInv'
<1>1. at \in [Handlers -> {"idle", "insert", "place", "read", "write"}] /\ local \in [Handlers -> R!Locals]
  BY DEF RTypeInv, R!TypeOK
<1>2. at'[h] = label /\ local'[h] = e
  BY <1>1 DEF RMoves
<1> SUFFICES ASSUME ~overlap'
             PROVE  /\ (\A g \in Handlers : at'[g] \notin {"read", "write"}) => RSettled'
                    /\ \A g \in Handlers : at'[g] \in {"read", "write"} => RRated(at[g], local[g])'
  BY DEF RGamesInv
<1>3. \A g \in Handlers : g # h => at'[g] = "idle"
  BY RAlone
<1>4. (\A g \in Handlers : at'[g] \notin {"read", "write"}) => RSettled'
  BY <1>2 DEF RSound
<1>5. ASSUME NEW g \in Handlers, at'[g] \in {"read", "write"}  PROVE RRated(at[g], local[g])'
  <2>1. g = h
    BY <1>3, <1>5
  <2>2. RRated(label, e)'
    BY <1>2, <1>5, <2>1 DEF RSound
  <2> QED BY <1>2, <2>1, <2>2 DEF RRated
<1> QED BY <1>4, <1>5

LEMMA RGamesReport ==
  ASSUME RTypeInv, ROneInv, RGamesInv, NEW h \in Handlers, R!Report(h)  PROVE RGamesInv'
<1>1. PICK e : at' = [at EXCEPT ![h] = "insert"] /\ local' = [local EXCEPT ![h] = e]
  BY DEF R!Report
<1>2. RStep(h) /\ at[h] = "idle" /\ UNCHANGED R!tables
  BY DEF RStep, R!Report
<1>3. ~overlap' => RSettled
  BY <1>2, RAlone
<1>4. ~overlap' => RSound("insert", e)'
  BY <1>2, <1>3 DEF RSound, RSettled, R!RatingOf, R!tables
<1>5. RMoves(h, "insert", e)
  BY <1>1 DEF RMoves
<1> QED BY <1>2, <1>4, <1>5, RSoundGames

LEMMA RGamesFinish ==
  ASSUME RTypeInv, ROneInv, RGamesInv, NEW h \in Handlers, RStep(h), at[h] \notin {"read", "write"},
         R!Finish(h), UNCHANGED R!tables
  PROVE  RGamesInv'
<1>1. ~overlap' => RSettled
  BY RAlone
<1>2. ~overlap' => RSound("idle", R!Blank)'
  BY <1>1 DEF RSound, RSettled, R!RatingOf, R!tables
<1>3. RMoves(h, "idle", R!Blank)
  BY DEF R!Finish, R!Goto, RMoves
<1>4. PICK e : e = R!Blank
  OBVIOUS
<1> QED BY <1>2, <1>3, <1>4, RSoundGames

LEMMA RGamesInsert ==
  ASSUME RTypeInv, ROneInv, RGamesInv, NEW h \in Handlers, R!Insert(h)  PROVE RGamesInv'
<1>0. R!TypeOK /\ RStep(h) /\ at[h] = "insert"
  BY DEF RTypeInv, RStep, R!Insert
<1>1. CASE R!Known(local[h].key)
  BY <1>0, <1>1, RGamesFinish DEF R!Insert
<1>2. CASE ~R!Known(local[h].key)
  <2>1. PICK e : R!Goto(h, "place", e)
    BY <1>2 DEF R!Insert
  <2>2. placements' = Append(placements, [p \in Fighters |-> 0]) /\ UNCHANGED ratings
    BY <1>2 DEF R!Insert
  <2>3. [p \in Fighters |-> 0] \in R!Places /\ placements \in Seq(R!Places)
    BY <1>0 DEF R!Places, R!TypeOK
  <2>4. PICK s \in Seq(R!Places), t \in Seq(R!Places) : s = placements /\ t = placements'
    BY <2>2, <2>3
  <2>5. /\ Len(t) = Len(s) + 1 /\ Len(s) \in Nat /\ t[Len(t)] = [p \in Fighters |-> 0]
        /\ \A n \in 1..Len(s) : s[n] = t[n]
    BY <2>2, <2>3, <2>4
  <2>6. ASSUME NEW p \in Fighters  PROVE RUpto(t, p, Len(t) + 1) = RUpto(s, p, Len(s) + 1)
    <3>1. RUpto(t, p, Len(t) + 1) = RUpto(t, p, Len(t))
      BY <2>5, RLast
    <3>2. RUpto(t, p, Len(s) + 1) = RUpto(s, p, Len(s) + 1)
      <4>1. Len(s) + 1 \in Nat /\ (Len(s) + 1) - 1 = Len(s)
        BY <2>5
      <4> QED BY <2>5, <4>1, RSame
    <3> QED BY <2>5, <3>1, <3>2
  <2>7. ~overlap' => RSettled
    BY <1>0, RAlone
  <2>8. RSettled => RSettled'
    BY <2>2, <2>4, <2>6 DEF RSettled, R!RatingOf
  <2>9. ~overlap' => RSound("place", e)'
    BY <2>7, <2>8 DEF RSound
  <2>10. RMoves(h, "place", e)
    BY <2>1 DEF R!Goto, RMoves
  <2> QED BY <1>0, <2>9, <2>10, RSoundGames
<1> QED BY <1>1, <1>2

LEMMA RGamesPlace ==
  ASSUME RTypeInv, ROneInv, RGamesInv, NEW h \in Handlers, R!Place(h)  PROVE RGamesInv'
<1>0. R!TypeOK /\ RStep(h) /\ at[h] = "place"
  BY DEF RTypeInv, RStep, R!Place
<1>1. CASE local[h].twice
  BY <1>0, <1>1, RGamesFinish DEF R!Place
<1>2. CASE ~local[h].twice
  <2>0. PICK m \in R!Locals : m = local[h]
    BY <1>0 DEF R!TypeOK
  <2>1. placements' = [placements EXCEPT ![m.match] = m.field] /\ UNCHANGED ratings
        /\ R!Goto(h, "read", [m EXCEPT !.todo = R!In(m.field)])
    BY <1>2, <2>0 DEF R!Place
  <2>2. R!In(m.field) \in SUBSET Fighters /\ m.field \in R!Places
    BY RFields DEF R!In
  <2>3. PICK e : e = [m EXCEPT !.todo = R!In(m.field)]
    OBVIOUS
  <2>4. e.field = m.field /\ e.todo = R!In(m.field)
    BY <2>2, <2>3, RUpdates
  <2>5. m.match \in DOMAIN placements /\ placements[m.match] = [p \in Fighters |-> 0]
    BY <1>0, <2>0 DEF RTypeInv, RFits
  <2>6. PICK s \in Seq(R!Places), t \in Seq(R!Places) : s = placements /\ t = placements'
    <3>1. RLeaves(h)
      BY <1>0, RStepLeaves
    <3> QED BY <1>0, <3>1 DEF R!TypeOK, RLeaves
  <2>12. RMoves(h, "read", e)
    BY <2>1, <2>3 DEF R!Goto, RMoves
  <2> SUFFICES ASSUME ~overlap'  PROVE RSound("read", e)'
    BY <1>0, <2>12, RSoundGames
  <2>7. m.match = Len(s) /\ RSettled
    BY <1>0, <2>0, <2>6, RAlone
  <2>8. /\ Len(t) = Len(s) /\ Len(s) \in Nat /\ Len(s) # 0 /\ s[Len(s)] = [p \in Fighters |-> 0]
        /\ \A n \in 1..(Len(s) - 1) : s[n] = t[n]
    BY <2>1, <2>5, <2>6, <2>7
  <2>9. ASSUME NEW p \in Fighters  PROVE RUpto(t, p, Len(t)) = RUpto(s, p, Len(s) + 1)
    <3>1. RUpto(s, p, Len(s) + 1) = RUpto(s, p, Len(s))
      BY <2>8, RLast
    <3>2. RUpto(t, p, Len(s)) = RUpto(s, p, Len(s))
      BY <2>8, RSame
    <3> QED BY <2>8, <3>1, <3>2
  <2>10. \A p \in Fighters : R!RatingOf(p)'.games = RUpto(t, p, Len(t))
    BY <2>1, <2>6, <2>7, <2>9 DEF RSettled, R!RatingOf
  <2>11. RRated("read", e)'
    BY <2>4, <2>6, <2>10 DEF RRated
  <2> QED BY <2>11 DEF RSound
<1> QED BY <1>1, <1>2

(* What a call that is alone reads of p.                                   *)
LEMMA RReads ==
  ASSUME RTypeInv, RCountInv, ROneInv, RGamesInv, NEW h \in Handlers, R!Read(h), ~overlap',
         NEW p \in R!In(local[h].field)
  PROVE  /\ R!RatingOf(p).games = RUpto(placements, p, Len(placements))
         /\ R!RatingOf(p).matches = Cardinality(RBefore(placements, p, Len(placements)))
<1>0. R!TypeOK /\ RStep(h) /\ at[h] = "read"
  BY DEF RTypeInv, RStep, R!Read
<1>1. PICK m \in R!Locals : m = local[h]
  BY <1>0 DEF R!TypeOK
<1>2. p \in Fighters /\ p \in R!In(m.field) /\ m.field[p] > 0
  BY <1>1 DEF R!In
<1>3. PICK s \in Seq(R!Places) : s = placements
  BY <1>0 DEF R!TypeOK
<1>4. m.match = Len(s) /\ RRated("read", m)
  BY <1>0, <1>1, <1>3, RAlone
<1>5. m.match \in DOMAIN s /\ s[m.match] = m.field
  BY <1>0, <1>1, <1>3 DEF RTypeInv, RFits
<1>6. Len(s) \in Nat /\ Len(s) # 0 /\ s[Len(s)][p] > 0
  BY <1>2, <1>4, <1>5
<1>7. R!PlayedBy(p) = RBefore(s, p, Len(s)) \cup {Len(s)} /\ Len(s) \notin RBefore(s, p, Len(s))
  BY <1>2, <1>3, <1>6, RAll, RLast
<1>8. RPending(p) = {h}
  <2>1. \A g \in Handlers : g # h => at[g] = "idle"
    BY <1>0, RAlone
  <2> QED BY <1>0, <1>1, <1>2, <2>1 DEF RPending
<1>9. Cardinality(RPending(p)) = 1
  BY <1>8, FS_Singleton
<1>10. Cardinality(R!PlayedBy(p)) = Cardinality(RBefore(s, p, Len(s))) + 1
  <2>1. IsFiniteSet(R!PlayedBy(p))
    BY <1>2, RFinite
  <2>2. IsFiniteSet(RBefore(s, p, Len(s)))
    BY <1>7, <2>1, FS_Subset
  <2> QED BY <1>7, <2>2, FS_AddElement
<1>11. R!RatingOf(p).matches + 1 = Cardinality(R!PlayedBy(p))
  BY <1>2, <1>9 DEF RCountInv
<1>12. Cardinality(RBefore(s, p, Len(s))) \in Nat /\ R!RatingOf(p).matches \in Nat
  <2>1. IsFiniteSet(R!PlayedBy(p)) /\ R!RatingOf(p).matches \in Nat
    BY <1>2, RFinite
  <2>2. IsFiniteSet(RBefore(s, p, Len(s)))
    BY <1>7, <2>1, FS_Subset
  <2> QED BY <2>1, <2>2, FS_CardinalityType
<1>13. R!RatingOf(p).matches = Cardinality(RBefore(s, p, Len(s)))
  BY <1>10, <1>11, <1>12
<1>14. R!RatingOf(p).games = RUpto(s, p, Len(s))
  BY <1>2, <1>3, <1>4 DEF RRated
<1> QED BY <1>3, <1>13, <1>14

LEMMA RGamesRead ==
  ASSUME RTypeInv, RCountInv, ROneInv, RGamesInv, NEW h \in Handlers, R!Read(h)  PROVE RGamesInv'
<1>0. R!TypeOK /\ RStep(h) /\ at[h] = "read" /\ UNCHANGED R!tables
  BY DEF RTypeInv, RStep, R!Read
<1>1. PICK m \in R!Locals : m = local[h]
  BY <1>0 DEF R!TypeOK
<1>2. m.todo \in SUBSET Fighters /\ m.before \in [Fighters -> R!Row] /\ m.todo \subseteq R!In(m.field)
      /\ R!In(m.field) \in SUBSET Fighters
  BY <1>0, <1>1, RFields DEF RTypeInv, RFits, R!In
<1>3. ~overlap' => RRated("read", m)
  BY <1>0, <1>1, RAlone
<1>4. \A p \in Fighters : R!RatingOf(p)' = R!RatingOf(p)
  BY <1>0 DEF R!RatingOf, R!tables
<1>5. CASE m.todo = {}
  <2>1. PICK e : e = [m EXCEPT !.todo = R!In(m.field)]
    OBVIOUS
  <2>2. RMoves(h, "write", e)
    BY <1>1, <1>5, <2>1 DEF R!Read, R!Goto, RMoves
  <2>3. e.field = m.field /\ e.todo = R!In(m.field) /\ e.before = m.before
    BY <1>2, <2>1, RUpdates
  <2>4. RRated("read", m) => RRated("write", e)'
    BY <1>0, <1>4, <1>5, <2>3 DEF RRated, R!tables
  <2>5. ~overlap' => RSound("write", e)'
    BY <1>3, <2>4 DEF RSound
  <2> QED BY <1>0, <2>2, <2>5, RSoundGames
<1>6. CASE m.todo # {}
  <2>1. PICK p \in m.todo : R!Goto(h, "read", [m EXCEPT !.before[p] = R!RatingOf(p), !.todo = @ \ {p}])
    BY <1>1, <1>6 DEF R!Read
  <2>2. PICK row \in R!Row, S \in SUBSET Fighters : row = R!RatingOf(p) /\ S = m.todo \ {p}
    BY <1>0, <1>2, RRatingOf
  <2>3. PICK e : e = RWithRead(m, p, row, S)
    OBVIOUS
  <2>4. RMoves(h, "read", e)
    BY <2>1, <2>2, <2>3 DEF RWithRead, R!Goto, RMoves
  <2>5. e.field = m.field /\ e.todo = m.todo \ {p} /\ e.before = [m.before EXCEPT ![p] = row]
    BY <1>2, <2>2, <2>3, RRead DEF RIsBefore
  <2>6. e.before[p] = row /\ \A q \in Fighters : q # p => e.before[q] = m.before[q]
    BY <1>2, <2>5
  <2> SUFFICES ASSUME ~overlap'  PROVE RSound("read", e)'
    BY <1>0, <2>4, RSoundGames
  <2>7. /\ R!RatingOf(p).games = RUpto(placements, p, Len(placements))
        /\ R!RatingOf(p).matches = Cardinality(RBefore(placements, p, Len(placements)))
    BY <1>1, <1>2, RReads
  <2>8. RRated("read", e)
    BY <1>3, <2>2, <2>5, <2>6, <2>7 DEF RRated
  <2>9. RRated("read", e)'
    BY <1>0, <1>4, <2>8 DEF RRated, R!tables
  <2> QED BY <2>9 DEF RSound
<1> QED BY <1>5, <1>6

LEMMA RGamesWrite ==
  ASSUME RTypeInv, ROneInv, RGamesInv, NEW h \in Handlers, R!Write(h)  PROVE RGamesInv'
<1>0. R!TypeOK /\ RStep(h) /\ at[h] = "write" /\ UNCHANGED <<matches, placements>>
  BY DEF RTypeInv, RStep, R!Write
<1>1. PICK m \in R!Locals : m = local[h]
  BY <1>0 DEF R!TypeOK
<1>2. m.todo \in SUBSET Fighters /\ m.before \in [Fighters -> R!Row] /\ m.todo \subseteq R!In(m.field)
      /\ R!In(m.field) \in SUBSET Fighters /\ m.field \in R!Places
  BY <1>0, <1>1, RFields DEF RTypeInv, RFits, R!In
<1>3. PICK s \in Seq(R!Places) : s = placements
  BY <1>0 DEF R!TypeOK
<1>4. m.match \in DOMAIN s /\ s[m.match] = m.field
  BY <1>0, <1>1, <1>3 DEF RTypeInv, RFits
<1>5. ~overlap' => RRated("write", m) /\ m.match = Len(s)
  BY <1>0, <1>1, <1>3, RAlone
<1>6. CASE m.todo = {} /\ R!Finish(h) /\ UNCHANGED ratings
  <2>1. ASSUME ~overlap', NEW p \in Fighters  PROVE R!RatingOf(p).games = RUpto(s, p, Len(s) + 1)
    <3>1. Len(s) \in Nat /\ Len(s) # 0 /\ s[Len(s)] = m.field /\ m.field[p] \in 0..2
      BY <1>2, <1>4, <1>5, <2>1 DEF R!Places
    <3>2. p \notin R!In(m.field) => RUpto(s, p, Len(s) + 1) = RUpto(s, p, Len(s))
      BY <3>1, RLast DEF R!In
    <3>3. R!RatingOf(p).games = IF p \in R!In(m.field) THEN RUpto(s, p, Len(s) + 1) ELSE RUpto(s, p, Len(s))
      BY <1>3, <1>5, <1>6, <2>1 DEF RRated
    <3> QED BY <3>2, <3>3
  <2>2. ~overlap' => RSettled
    BY <1>3, <2>1 DEF RSettled
  <2>3. ~overlap' => RSound("idle", R!Blank)'
    BY <1>0, <1>6, <2>2 DEF RSound, RSettled, R!RatingOf
  <2>4. RMoves(h, "idle", R!Blank)
    BY <1>6 DEF R!Finish, R!Goto, RMoves
  <2>5. PICK e : e = R!Blank
    OBVIOUS
  <2> QED BY <1>0, <2>3, <2>4, <2>5, RSoundGames
<1>7. ASSUME NEW p \in m.todo,
             ratings' = [ratings EXCEPT ![p] =
               [games |-> m.before[p].games \cup R!Games(h, p, m.before), matches |-> R!RatingOf(p).matches + 1]],
             R!Goto(h, "write", [m EXCEPT !.todo = @ \ {p}])
      PROVE  RGamesInv'
  <2>1. PICK e : e = [m EXCEPT !.todo = m.todo \ {p}]
    OBVIOUS
  <2>2. RMoves(h, "write", e)
    BY <1>7, <2>1 DEF R!Goto, RMoves
  <2>3. e.field = m.field /\ e.todo = m.todo \ {p} /\ e.before = m.before
    BY <1>2, <2>1, RUpdates
  <2> SUFFICES ASSUME ~overlap'  PROVE RSound("write", e)'
    BY <1>0, <2>2, RSoundGames
  <2>4. p \in Fighters /\ p \in R!In(m.field) /\ m.field[p] > 0
    BY <1>2 DEF R!In
  <2>5. Len(s) \in Nat /\ Len(s) # 0 /\ s[Len(s)] = m.field
    BY <1>4, <1>5
  <2>6. R!RatingOf(p)'.games = m.before[p].games \cup R!Games(h, p, m.before)
    <3>1. PICK row : row = [games |-> m.before[p].games \cup R!Games(h, p, m.before),
                            matches |-> R!RatingOf(p).matches + 1]
      OBVIOUS
    <3>2. row \in R!Row
      <4>1. R!Games(h, p, m.before) \in SUBSET R!Game /\ m.before[p] \in R!Row
        BY <1>1, <1>2, <2>4, RGames
      <4>2. R!RatingOf(p).matches \in Nat
        BY <2>4, RFinite
      <4> QED BY <3>1, <4>1, <4>2 DEF R!Row
    <3>3. ratings'[p] = row /\ row # Nil
      BY <1>0, <1>7, <2>4, <3>1, <3>2, RatingsParameters DEF R!TypeOK, R!Parameters
    <3> QED BY <3>1, <3>3 DEF R!RatingOf
  <2>7. m.before[p].games = RUpto(s, p, Len(s))
    BY <1>3, <1>5, <2>4 DEF RRated
  <2>8. R!Games(h, p, m.before) = RGamesAt(s, Len(s), p)
    <3>1. \A q \in R!In(m.field) : m.before[q].matches = Cardinality(RBefore(s, q, Len(s)))
      BY <1>2, <1>3, <1>5 DEF RRated
    <3> QED BY <1>1, <1>5, <2>5, <3>1 DEF R!Games, RGamesAt
  <2>9. RUpto(s, p, Len(s) + 1) = RUpto(s, p, Len(s)) \cup RGamesAt(s, Len(s), p)
    BY <2>4, <2>5, RLast
  <2>10. R!RatingOf(p)'.games = RUpto(s, p, Len(s) + 1)
    BY <2>6, <2>7, <2>8, <2>9
  <2>11. \A q \in Fighters : q # p => R!RatingOf(q)' = R!RatingOf(q)
    BY <1>0, <1>7 DEF R!RatingOf, R!TypeOK
  <2>12. placements' = s /\ RRated("write", m)
    BY <1>0, <1>3, <1>5
  <2>13. ASSUME NEW q \in Fighters
         PROVE  R!RatingOf(q)'.games = IF q \in R!In(e.field) \ e.todo
                                       THEN RUpto(s, q, Len(s) + 1) ELSE RUpto(s, q, Len(s))
    <3>1. CASE q = p
      BY <2>3, <2>4, <2>10, <3>1
    <3>2. CASE q # p
      BY <1>3, <2>3, <2>11, <2>12, <3>2 DEF RRated
    <3> QED BY <3>1, <3>2
  <2>14. \A q \in R!In(e.field) : /\ e.before[q].games = RUpto(s, q, Len(s))
                                /\ e.before[q].matches = Cardinality(RBefore(s, q, Len(s)))
    BY <1>2, <1>3, <2>3, <2>12 DEF RRated
  <2>15. RRated("write", e)'
    BY <2>12, <2>13, <2>14 DEF RRated
  <2> QED BY <2>15 DEF RSound
<1> QED BY <1>1, <1>6, <1>7 DEF R!Write

LEMMA RGamesInvariant == R!Spec => []RGamesInv
<1>1. R!Init => RGamesInv
  <2> SUFFICES ASSUME R!Init, NEW p \in Fighters
               PROVE  R!RatingOf(p).games = RUpto(placements, p, Len(placements) + 1)
    BY DEF R!Init, RGamesInv, RSettled
  <2>1. placements = <<>> /\ RBefore(placements, p, Len(placements) + 1) = {}
    BY DEF R!Init, RBefore
  <2> QED BY <2>1 DEF R!Init, RUpto, R!RatingOf, R!Unrated
<1>2. RTypeInv /\ RCountInv /\ ROneInv /\ RGamesInv /\ [R!Next]_R!vars => RGamesInv'
  <2>1. RGamesInv /\ UNCHANGED R!vars => RGamesInv'
    BY DEF R!vars, RGamesInv, RSettled, RRated, R!RatingOf
  <2> QED BY <2>1, RGamesReport, RGamesInsert, RGamesPlace, RGamesRead, RGamesWrite DEF R!Next
<1> QED BY <1>1, <1>2, RTypeInvariant, RCountInvariant, ROneInvariant, PTL DEF R!Spec

LEMMA RRatings == R!Spec => []R!EveryMatchIsRated
<1>1. RTypeInv /\ RKeysInv /\ RCountInv /\ RGamesInv => R!EveryMatchIsRated
  <2> SUFFICES ASSUME RTypeInv, RKeysInv, RCountInv, RGamesInv, R!InFlight = {}
               PROVE  /\ \A m, n \in DOMAIN matches : matches[m] = matches[n] /\ matches[m] # Nil => m = n
                      /\ \A p \in Fighters :
                           /\ R!RatingOf(p).matches = R!Cardinality(R!PlayedBy(p))
                           /\ ~overlap =>
                                R!RatingOf(p).games = UNION {
                                  {[match |-> m, foe |-> q, score |-> R!Score(placements[m], p, q),
                                    knew |-> R!Cardinality({n \in R!PlayedBy(q) : n < m})]
                                     : q \in R!In(placements[m]) \ {p}} : m \in R!PlayedBy(p)}
    BY DEF R!EveryMatchIsRated
  <2>1. \A h \in Handlers : at[h] = "idle"
    BY DEF R!InFlight
  <2>2. ASSUME NEW p \in Fighters  PROVE R!RatingOf(p).matches = R!Cardinality(R!PlayedBy(p))
    <3>1. RPending(p) = {}
      BY <2>1 DEF RPending
    <3>2. Cardinality(RPending(p)) = 0
      BY <3>1, FS_EmptySet
    <3> QED BY <3>2, RFinite, RFiniteSets DEF RCountInv
  <2>3. ASSUME ~overlap, NEW p \in Fighters
        PROVE  R!RatingOf(p).games = UNION {
                 {[match |-> m, foe |-> q, score |-> R!Score(placements[m], p, q),
                   knew |-> R!Cardinality({n \in R!PlayedBy(q) : n < m})]
                    : q \in R!In(placements[m]) \ {p}} : m \in R!PlayedBy(p)}
    <3>1. R!RatingOf(p).games = RUpto(placements, p, Len(placements) + 1)
      BY <2>1, <2>3 DEF RGamesInv, RSettled
    <3>2. \A q \in Fighters, m \in DOMAIN placements :
            {n \in R!PlayedBy(q) : n < m} = RBefore(placements, q, m)
      BY DEF R!PlayedBy, RBefore
    <3>3. R!PlayedBy(p) = RBefore(placements, p, Len(placements) + 1)
      BY RAll
    <3> DEFINE Each(m) ==
          {[match |-> m, foe |-> q, score |-> R!Score(placements[m], p, q),
            knew |-> R!Cardinality({n \in R!PlayedBy(q) : n < m})] : q \in R!In(placements[m]) \ {p}}
    <3>4. ASSUME NEW m \in R!PlayedBy(p)  PROVE RGamesAt(placements, m, p) = Each(m)
      <4>1. m \in DOMAIN placements
        BY DEF R!PlayedBy
      <4>2. \A q \in R!In(placements[m]) : {n \in R!PlayedBy(q) : n < m} = RBefore(placements, q, m)
        BY <3>2, <4>1 DEF R!In
      <4> QED BY <4>2, RFiniteSets DEF RGamesAt
    <3>5. R!RatingOf(p).games = UNION {RGamesAt(placements, m, p) : m \in R!PlayedBy(p)}
      BY <3>1, <3>3 DEF RUpto
    <3>6. R!RatingOf(p).games = UNION {Each(m) : m \in R!PlayedBy(p)}
      <4> HIDE DEF Each
      <4> QED BY <3>4, <3>5
    <3> QED BY <3>6
  <2> QED BY <2>2, <2>3 DEF RKeysInv
<1> QED BY <1>1, RTypeInvariant, RKeysInvariant, RCountInvariant, RGamesInvariant, PTL

LEMMA RatingsPart == PartsSpec => R!Spec
<1>1. PartsInit => R!Init
  BY DEF PartsInit
<1>2. [PartsNext]_<<part, vars, results>> => [R!Next]_R!vars
  BY DEF PartsNext, results, R!vars
<1> QED BY <1>1, <1>2, PTL DEF PartsSpec, R!Spec

LEMMA QueuePart == PartsSpec => Spec
<1>1. PartsInit => Init
  BY DEF PartsInit
<1>2. [PartsNext]_<<part, vars, results>> => [Next]_vars
  BY DEF PartsNext, vars
<1> QED BY <1>1, <1>2, PTL DEF PartsSpec, Spec

(* Every row and every local variable of the handlers of the queue and of  *)
(* those of the results stays one that the code can write there.           *)
THEOREM TypesCorrect == PartsSpec => []TypesOK
<1>1. RTypeInv => R!TypeOK
  BY DEF RTypeInv
<1>2. TypeOK /\ R!TypeOK => TypesOK
  BY DEF TypesOK
<1> QED BY <1>1, <1>2, TypeCorrect, RTypeInvariant, QueuePart, RatingsPart, PTL

(* For any number of players, handlers and keys, whatever is reported at   *)
(* the same time or again and wherever a call dies, no key has two         *)
(* matches and every match is counted once no call is under way; and call  *)
(* after call each rating comes from all matches of its player, with what  *)
(* the opponents' ratings were before each.                                *)
THEOREM MatchesAreRated == PartsSpec => []EveryMatchIsRated
<1>1. R!EveryMatchIsRated => EveryMatchIsRated
  BY DEF EveryMatchIsRated
<1> QED BY <1>1, RatingsPart, RRatings, PTL
=============================================================================
