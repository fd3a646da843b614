---------------------------- MODULE AccountsProofs ----------------------------
(***************************************************************************)
(* Accounts, for any number of players, handlers and calls, any allowance  *)
(* and any limit.                                                          *)
(***************************************************************************)
EXTENDS MCAccounts, SequenceTheorems, FiniteSetTheorems, TLAPS

USE DEF Or

(* The labels of statements about a player, an invitation, a ticket.       *)
OfPlayer == {"lift", "in", "give", "code", "join", "redeem", "mail", "adopt", "device", "restore",
             "store", "open"}
OfTicket == {"device", "adopt", "restore", "challenge", "burn", "open"}

(* What the locals of a handler are at its statement.                      *)
Where(h) ==
  /\ pc[h] = "idle" => mem[h] = Blank
  /\ pc[h] \in OfPlayer \/ mem[h].session # 0 => mem[h].player \in Players
  /\ pc[h] \in {"code", "redeem"} => mem[h].invite \in DOMAIN invites
  /\ pc[h] = "join" => mem[h].invite \in 0..Len(invites)
  /\ pc[h] \in OfTicket => mem[h].ticket \in DOMAIN tickets

(* Only a challenge to sign in with a passkey is nobody's.                 *)
TicketsAreOf ==
  \A n \in DOMAIN tickets :
    tickets[n] # Nil /\ tickets[n].kind # "authenticate" => tickets[n].of # Nil

TypeInv == TypeOK /\ TicketsAreOf /\ \A h \in Handlers : Where(h)

-----------------------------------------------------------------------------
(* Sequences.                                                              *)

(* A sequence that is changed in place stays one.                          *)
LEMMA MapSeq ==
  ASSUME NEW S, NEW T, NEW s \in Seq(S), NEW f, f \in [DOMAIN s -> T]
  PROVE  f \in Seq(T) /\ Len(f) = Len(s) /\ DOMAIN f = DOMAIN s
<1>1. DOMAIN s = 1..Len(s) /\ Len(s) \in Nat
  OBVIOUS
<1>2. f \in [1..Len(s) -> T]
  BY <1>1
<1>3. f \in Seq(T)
  BY <1>1, <1>2, SeqDef
<1> QED BY <1>1, <1>2, <1>3, LenProperties

(* What is appended comes last. *)
LEMMA AppendSeq ==
  ASSUME NEW S, NEW s \in Seq(S), NEW x \in S
  PROVE  LET t == Append(s, x) IN
         /\ t \in Seq(S) /\ Len(t) = Len(s) + 1
         /\ DOMAIN t = DOMAIN s \cup {Len(t)} /\ Len(t) \notin DOMAIN s
         /\ \A n \in DOMAIN s : t[n] = s[n]
         /\ t[Len(t)] = x
<1>1. Append(s, x) \in Seq(S) /\ Len(Append(s, x)) = Len(s) + 1
  BY AppendProperties
<1>2. \A n \in 1..Len(s) : Append(s, x)[n] = s[n]
  BY AppendProperties
<1>3. Append(s, x)[Len(s) + 1] = x
  BY AppendProperties
<1>4. DOMAIN s = 1..Len(s) /\ DOMAIN Append(s, x) = 1..Len(s) + 1 /\ Len(s) \in Nat
  BY <1>1, LenProperties
<1> QED BY <1>1, <1>2, <1>3, <1>4

-----------------------------------------------------------------------------
(* Types.                                                                  *)

(* What a handler does. *)
Step(h) == SignedIn(h) \/ SigningUp(h) \/ Linking(h) \/ Recovering(h) \/ Passkeys(h)

(* A step of a handler moves it alone. *)
LEMMA Moves ==
  ASSUME NEW h \in Handlers, Step(h)
  PROVE  /\ \E label \in Labels : pc' = [pc EXCEPT ![h] = label]
         /\ \E locals : mem' = [mem EXCEPT ![h] = locals]
         /\ UNCHANGED <<calls, overlap>> \/ (pc[h] = "idle" /\ Call)
  BY DEF Step, SignedIn, SigningUp, Linking, Recovering, Passkeys, Arrive, Lift, Allowance,
         Give, Ask, RevokeOthers, Forget, Erase, SignUp, Code, Join, Redeem, Link, Device, Confirm,
         Adopt, AskRecovery, Mail, Recover, Restore, Open, Authenticate, Register, Challenge, Burn,
         Store, Goto, Finish, Start, Labels

(* The other handlers keep where they are and what they have.              *)
LEMMA OthersStay ==
  ASSUME TypeInv, NEW h \in Handlers, Step(h)
  PROVE  /\ pc' \in [Handlers -> Labels] /\ DOMAIN mem' = Handlers
         /\ calls' \in 0..MaxCalls /\ overlap' \in BOOLEAN
         /\ \A g \in Handlers \ {h} : pc'[g] = pc[g] /\ mem'[g] = mem[g]
<1>1. calls' \in 0..MaxCalls /\ overlap' \in BOOLEAN
  <2>1. UNCHANGED <<calls, overlap>> \/ Call
    BY Moves
  <2>2. CASE Call
    <3>1. calls' \in 0..MaxCalls
      BY <2>2, QuotaAssumption DEF TypeInv, TypeOK, Call
    <3>2. overlap' \in BOOLEAN
      BY <2>2 DEF TypeInv, TypeOK, Call
    <3> QED BY <3>1, <3>2
  <2> QED BY <2>1, <2>2 DEF TypeInv, TypeOK
<1> QED BY <1>1, Moves DEF TypeInv, TypeOK

(* Which step writes which table. *)
LEMMA Writers ==
  ASSUME NEW h \in Handlers, Step(h)
  PROVE  /\ \/ players' = players
            \/ Lift(h) \/ Give(h) \/ Forget(h) \/ Erase(h) \/ Join(h) \/ Adopt(h)
         /\ \/ sessions' = sessions
            \/ RevokeOthers(h) \/ Erase(h) \/ Join(h) \/ Device(h) \/ Restore(h) \/ Open(h)
         /\ \/ tickets' = tickets
            \/ Ask(h) \/ Erase(h) \/ Device(h) \/ Adopt(h) \/ Mail(h) \/ Restore(h) \/ Burn(h)
         /\ invites' = invites \/ Give(h) \/ Redeem(h)
         /\ passkey' = passkey \/ Forget(h) \/ Erase(h) \/ Store(h)
  BY DEF Step, SignedIn, SigningUp, Linking, Recovering, Passkeys, Arrive, Lift, Allowance,
         Give, Ask, RevokeOthers, Forget, Erase, SignUp, Code, Join, Redeem, Link, Device, Confirm,
         Adopt, AskRecovery, Mail, Recover, Restore, Open, Authenticate, Register, Challenge, Burn,
         Store, tables

LEMMA PlayersStep ==
  ASSUME TypeInv, NEW h \in Handlers, Step(h)
  PROVE  players' \in [Players -> Or(Player)]
<1>1. CASE players' = players
  BY <1>1 DEF TypeInv, TypeOK
<1>2. CASE Lift(h)
  BY <1>2, NilAssumption DEF TypeInv, TypeOK, Lift, Player
<1>0. \A p \in Players : players[p] # Nil => players[p] \in Player
  BY DEF TypeInv, TypeOK
<1>9. \A r \in Player : /\ [r EXCEPT !.left = @ - 1] \in Player
                        /\ \A b \in BOOLEAN : [r EXCEPT !.mail = b] \in Player
  BY DEF Player
<1>10. \A r \in Player : [r EXCEPT !.mail = TRUE] \in Player /\ [r EXCEPT !.mail = FALSE] \in Player
  BY <1>9, Zenon
<1>3. CASE Give(h)
  BY <1>0, <1>3, <1>9 DEF TypeInv, TypeOK, Give, tables
<1>4. CASE Forget(h)
  <2> DEFINE e == IF players[mem[h].player] = Nil THEN Nil ELSE [players[mem[h].player] EXCEPT !.mail = FALSE]
  <2>1. mem[h].player \in Players
    BY <1>4 DEF TypeInv, Where, OfPlayer, Forget
  <2>2. players[mem[h].player] \in Or(Player)
    BY <2>1 DEF TypeInv, TypeOK
  <2>3. e \in Or(Player)
    BY <1>10, <2>2, Zenon
  <2>4. players' = players \/ players' = [players EXCEPT ![mem[h].player] = e]
    BY <1>4, Zenon DEF Forget
  <2> HIDE DEF e
  <2> QED BY <2>3, <2>4 DEF TypeInv, TypeOK
<1>5. CASE Erase(h)
  BY <1>5 DEF TypeInv, TypeOK, Erase, tables
<1>6. CASE Join(h)
  <2>1. mem[h].invite \in Nat
    BY DEF TypeInv, TypeOK, Locals
  <2>2. Newcomer(mem[h].invite, FALSE) \in Player
    BY <2>1, QuotaAssumption DEF Newcomer, Player
  <2> QED BY <1>6, <2>2 DEF TypeInv, TypeOK, Join
<1>7. CASE Adopt(h)
  <2> DEFINE e == [players[mem[h].player] EXCEPT !.mail = TRUE]
  <2>1. \/ players' = players
        \/ mem[h].player \in There /\ players' = [players EXCEPT ![mem[h].player] = e]
    BY <1>7, Zenon DEF Adopt, tables
  <2>2. mem[h].player \in There => e \in Player
    BY <1>0, <1>10, Zenon DEF There
  <2> HIDE DEF e
  <2> QED BY <2>1, <2>2 DEF TypeInv, TypeOK
<1> QED BY <1>1, <1>2, <1>3, <1>4, <1>5, <1>6, <1>7, Writers

LEMMA SessionsStep ==
  ASSUME TypeInv, NEW h \in Handlers, Step(h)
  PROVE  /\ sessions' \in Seq(Or(Session)) /\ Len(sessions) =< Len(sessions')
         /\ DOMAIN sessions \subseteq DOMAIN sessions'
<1>0. sessions \in Seq(Or(Session)) /\ mem[h].ticket \in Nat /\ Len(sessions) \in Nat
  BY DEF TypeInv, TypeOK, Locals
<1>1. CASE sessions' = sessions
  BY <1>0, <1>1
<1>2. ASSUME sessions' \in [DOMAIN sessions -> Or(Session)]
      PROVE  /\ sessions' \in Seq(Or(Session)) /\ Len(sessions) = Len(sessions')
             /\ DOMAIN sessions = DOMAIN sessions'
  BY <1>0, <1>2, MapSeq
<1>3. ASSUME NEW p \in Players, NEW n \in Nat, sessions' = Append(sessions, Opened(p, n))
      PROVE  /\ sessions' \in Seq(Or(Session)) /\ Len(sessions) =< Len(sessions')
             /\ DOMAIN sessions \subseteq DOMAIN sessions'
  <2>1. Opened(p, n) \in Or(Session)
    BY DEF Opened, Session
  <2> QED BY <1>0, <1>3, <2>1, AppendSeq
<1>4. \A n \in DOMAIN sessions : sessions[n] \in Or(Session)
  BY <1>0
<1>5. CASE RevokeOthers(h)
  <2>1. sessions' \in [DOMAIN sessions -> Or(Session)]
    BY <1>4, <1>5 DEF RevokeOthers, Alive, Session
  <2> QED BY <1>0, <1>2, <2>1
<1>6. CASE Restore(h)
  <2>1. sessions' \in [DOMAIN sessions -> Or(Session)]
    BY <1>4, <1>6 DEF Restore, Alive, Session
  <2> QED BY <1>0, <1>2, <2>1
<1>7. CASE Erase(h)
  <2>1. sessions' = sessions \/ sessions' \in [DOMAIN sessions -> Or(Session)]
    BY <1>4, <1>7 DEF Erase, tables
  <2> QED BY <1>0, <1>2, <2>1
<1>8. CASE Join(h) \/ Device(h) \/ Open(h)
  <2>1. mem[h].player \in Players
    BY <1>8 DEF TypeInv, Where, OfPlayer, Join, Device, Open
  <2>2. sessions' = sessions \/ \E n \in {0, mem[h].ticket} : sessions' = Append(sessions, Opened(mem[h].player, n))
    BY <1>8 DEF Join, Device, Open, tables
  <2> QED BY <1>0, <1>1, <1>3, <2>1, <2>2
<1> QED BY <1>1, <1>5, <1>6, <1>7, <1>8, Writers

LEMMA TicketsStep ==
  ASSUME TypeInv, NEW h \in Handlers, Step(h)
  PROVE  /\ tickets' \in Seq(Or(Ticket)) /\ Len(tickets) =< Len(tickets')
         /\ DOMAIN tickets \subseteq DOMAIN tickets'
         /\ TicketsAreOf'
<1>0. tickets \in Seq(Or(Ticket)) /\ Len(tickets) \in Nat
  BY DEF TypeInv, TypeOK
<1>4. \A n \in DOMAIN tickets : tickets[n] \in Or(Ticket)
  BY <1>0
<1>1. CASE tickets' = tickets
  BY <1>0, <1>1 DEF TypeInv, TicketsAreOf
<1>2. ASSUME tickets' \in [DOMAIN tickets -> Or(Ticket)],
             \A n \in DOMAIN tickets : tickets'[n] = Nil \/
               (tickets[n] # Nil /\ tickets'[n].kind = tickets[n].kind /\ tickets'[n].of = tickets[n].of)
      PROVE  /\ tickets' \in Seq(Or(Ticket)) /\ Len(tickets) = Len(tickets')
             /\ DOMAIN tickets = DOMAIN tickets'
             /\ TicketsAreOf'
  <2>1. /\ tickets' \in Seq(Or(Ticket)) /\ Len(tickets) = Len(tickets')
        /\ DOMAIN tickets = DOMAIN tickets'
    BY <1>0, <1>2, MapSeq
  <2> QED BY <1>2, <2>1 DEF TypeInv, TicketsAreOf
<1>3. ASSUME NEW p \in Players, NEW k \in Kinds,
             tickets' = Append(tickets, [kind |-> k, of |-> p, used |-> FALSE, live |-> TRUE])
      PROVE  /\ tickets' \in Seq(Or(Ticket)) /\ Len(tickets) =< Len(tickets')
             /\ DOMAIN tickets \subseteq DOMAIN tickets'
             /\ TicketsAreOf'
  <2> DEFINE t == [kind |-> k, of |-> p, used |-> FALSE, live |-> TRUE]
  <2>1. t \in Or(Ticket) /\ t.of # Nil
    BY NilAssumption DEF Ticket
  <2> HIDE DEF t
  <2>2. tickets' = Append(tickets, t)
    BY <1>3 DEF t
  <2>3. /\ tickets' \in Seq(Or(Ticket)) /\ Len(tickets) =< Len(tickets')
        /\ DOMAIN tickets' = DOMAIN tickets \cup {Len(tickets')}
        /\ \A n \in DOMAIN tickets : tickets'[n] = tickets[n]
        /\ tickets'[Len(tickets')] = t
    BY <1>0, <2>1, <2>2, AppendSeq
  <2> QED BY <2>1, <2>3 DEF TypeInv, TicketsAreOf
<1>5. CASE Ask(h) \/ Mail(h)
  <2>1. mem[h].player \in Players
    BY <1>5 DEF TypeInv, Where, OfPlayer, Ask, Mail
  <2>2. {"link", "verify", "register", "recover"} \subseteq Kinds
    BY DEF Kinds
  <2> QED BY <1>1, <1>3, <1>5, <2>1, <2>2 DEF Ask, Mail
<1>6. CASE Erase(h)
  <2>1. \/ tickets' = tickets
        \/ /\ tickets' \in [DOMAIN tickets -> Or(Ticket)]
           /\ \A n \in DOMAIN tickets : tickets'[n] = Nil \/ tickets'[n] = tickets[n]
    BY <1>4, <1>6 DEF Erase, tables
  <2> QED BY <1>0, <1>1, <1>2, <2>1
<1>7. CASE Device(h) \/ Adopt(h) \/ Restore(h) \/ Burn(h)
  <2>1. tickets' = tickets \/ tickets' = Burnt(mem[h].ticket)
    BY <1>7 DEF Device, Adopt, Restore, Burn, tables
  <2>2. ASSUME NEW n \in Nat
        PROVE  /\ Burnt(n) \in [DOMAIN tickets -> Or(Ticket)]
               /\ \A m \in DOMAIN tickets : \/ Burnt(n)[m] = Nil
                                            \/ /\ tickets[m] # Nil /\ Burnt(n)[m].kind = tickets[m].kind
                                               /\ Burnt(n)[m].of = tickets[m].of
    BY <1>0, <1>4 DEF Burnt, Ticket
  <2>3. mem[h].ticket \in Nat
    BY DEF TypeInv, TypeOK, Locals
  <2> QED BY <1>0, <1>1, <1>2, <2>1, <2>2, <2>3
<1> QED BY <1>0, <1>1, <1>5, <1>6, <1>7, Writers

LEMMA InvitesStep ==
  ASSUME TypeInv, NEW h \in Handlers, Step(h)
  PROVE  /\ invites' \in Seq(Invite) /\ Len(invites) =< Len(invites')
         /\ DOMAIN invites \subseteq DOMAIN invites'
<1>0. invites \in Seq(Invite) /\ Len(invites) \in Nat
  BY DEF TypeInv, TypeOK
<1>1. CASE invites' = invites
  BY <1>0, <1>1
<1>2. CASE Give(h)
  <2>1. mem[h].player \in Players
    BY <1>2 DEF TypeInv, Where, OfPlayer, Give
  <2>2. [by |-> mem[h].player, uses |-> 0, max |-> 1, live |-> TRUE] \in Invite
    BY <2>1 DEF Invite
  <2> QED BY <1>0, <1>2, <2>2, AppendSeq DEF Give, tables
<1>3. CASE Redeem(h)
  <2>1. \A i \in DOMAIN invites : invites[i] \in Invite
    BY <1>0
  <2>2. \A r \in Invite : [r EXCEPT !.uses = @ + 1] \in Invite
    BY DEF Invite
  <2>3. invites' \in [DOMAIN invites -> Invite]
    BY <1>0, <1>3, <2>1, <2>2 DEF Redeem
  <2> QED BY <1>0, <2>3, MapSeq
<1> QED BY <1>1, <1>2, <1>3, Writers

LEMMA PasskeyStep ==
  ASSUME TypeInv, NEW h \in Handlers, Step(h)
  PROVE  passkey' \in Or(Players)
  BY Writers DEF TypeInv, TypeOK, Where, OfPlayer, Forget, Erase, Store, tables

(* A handler goes on with the player it is about, or begins with one that  *)
(* the tables name, and the same of invitations and tickets.               *)
LEMMA LocalsStep ==
  ASSUME TypeInv, NEW h \in Handlers, Step(h)
  PROVE  mem'[h] \in Locals /\ Where(h)'
<1>0. /\ sessions \in Seq(Or(Session)) /\ tickets \in Seq(Or(Ticket)) /\ invites \in Seq(Invite)
      /\ mem[h] \in Locals /\ mem \in [Handlers -> Locals] /\ pc \in [Handlers -> Labels]
      /\ players \in [Players -> Or(Player)]
  BY DEF TypeInv, TypeOK
<1>1. /\ \A n \in DOMAIN sessions : n \in Nat /\ n # 0 /\ sessions[n] \in Or(Session)
      /\ \A n \in DOMAIN tickets : n \in Nat /\ tickets[n] \in Or(Ticket)
      /\ \A n \in DOMAIN invites : n \in Nat
      /\ DOMAIN invites = 1..Len(invites) /\ Len(invites) \in Nat
  BY <1>0
<1>2. /\ DOMAIN invites \subseteq DOMAIN invites' /\ DOMAIN tickets \subseteq DOMAIN tickets'
      /\ 0..Len(invites) \subseteq 0..Len(invites')
  BY <1>0, InvitesStep, TicketsStep
<1>3. Where(h) /\ TicketsAreOf
  BY DEF TypeInv
<1>4. Blank \in Locals /\ Blank.session = 0
  BY DEF Blank, Locals
<1>5. \/ mem'[h] = Blank /\ pc'[h] = "idle"
      \/ mem'[h] = mem[h] /\ pc'[h] # "idle" /\ Step(h)
      \/ Arrive(h) \/ SignUp(h) \/ Link(h) \/ Confirm(h) \/ AskRecovery(h) \/ Recover(h)
      \/ Authenticate(h) \/ Register(h)
  BY <1>0 DEF Step, SignedIn, SigningUp, Linking, Recovering, Passkeys, Arrive, Lift, Allowance,
         Give, Ask, RevokeOthers, Forget, Erase, SignUp, Code, Join, Redeem, Link, Device, Confirm,
         Adopt, AskRecovery, Mail, Recover, Restore, Open, Authenticate, Register, Challenge, Burn,
         Store, Goto, Finish
<1>6. CASE mem'[h] = Blank /\ pc'[h] = "idle"
  BY <1>4, <1>6 DEF Where, OfPlayer, OfTicket
<1>7. ASSUME mem'[h] = mem[h], pc'[h] # "idle",
             ~(Arrive(h) \/ SignUp(h) \/ Link(h) \/ Confirm(h) \/ AskRecovery(h) \/ Recover(h)
               \/ Authenticate(h) \/ Register(h))
      PROVE  mem'[h] \in Locals /\ Where(h)'
  <2>1. \/ pc[h] = "lift" /\ pc'[h] = "in"
        \/ pc[h] = "in" /\ pc'[h] = "give"
        \/ pc[h] = "code" /\ pc'[h] = "join"
        \/ pc[h] = "join" /\ pc'[h] = "redeem" /\ mem[h].invite # 0
        \/ pc[h] = "restore" /\ pc'[h] = "open"
        \/ pc[h] = "challenge" /\ pc'[h] = "burn"
        \/ pc[h] = "burn" /\ pc'[h] = "open" /\ mem[h].player # Nil
        \/ pc[h] = "burn" /\ pc'[h] = "store" /\ mem[h].session # 0
    BY <1>0, <1>7 DEF Step, SignedIn, SigningUp, Linking, Recovering, Passkeys, Lift, Allowance,
         Give, Ask, RevokeOthers, Forget, Erase, Code, Join, Redeem, Device,
         Adopt, Mail, Restore, Open, Challenge, Burn, Store, Goto, Finish
  <2>2. mem[h].player \in Or(Players) /\ mem[h].invite \in Nat
    BY <1>0 DEF Locals
  <2> QED BY <1>0, <1>1, <1>2, <1>3, <1>7, <2>1, <2>2 DEF Where, OfPlayer, OfTicket
<1>8. CASE Arrive(h)
  <2>1. PICK n \in Alive, label \in {"lift", "in"} :
          /\ pc'[h] = label
          /\ mem'[h] = [player |-> sessions[n].of, session |-> n, ticket |-> 0, invite |-> 0]
    BY <1>0, <1>8 DEF Arrive, Start, Blank
  <2>2. n \in Nat /\ sessions[n].of \in Players
    BY <1>1 DEF Alive, Session
  <2> QED BY <2>1, <2>2 DEF Where, OfPlayer, OfTicket, Locals
<1>9. CASE SignUp(h)
  <2>1. PICK p \in Players, i \in 0..Len(invites) :
          Start(h, IF i > 0 THEN "code" ELSE "join", [Blank EXCEPT !.player = p, !.invite = i])
    BY <1>9 DEF SignUp
  <2>2. /\ pc'[h] = (IF i > 0 THEN "code" ELSE "join")
        /\ mem'[h] = [player |-> p, session |-> 0, ticket |-> 0, invite |-> i]
    BY <1>0, <2>1 DEF Start, Blank
  <2> QED BY <1>1, <1>2, <2>2 DEF Where, OfPlayer, OfTicket, Locals
<1>10. CASE Link(h) \/ Confirm(h) \/ Recover(h)
  <2>1. PICK n \in DOMAIN tickets, label \in {"device", "adopt", "restore"} :
          /\ tickets[n] # Nil /\ tickets[n].kind # "authenticate"
          /\ pc'[h] = label
          /\ mem'[h] = [player |-> tickets[n].of, session |-> 0, ticket |-> n, invite |-> 0]
    BY <1>0, <1>10 DEF Link, Confirm, Recover, Start, Fresh, Blank
  <2>2. n \in Nat /\ tickets[n].of \in Players
    BY <1>1, <1>3, <2>1 DEF TicketsAreOf, Ticket
  <2> QED BY <1>2, <2>1, <2>2 DEF Where, OfPlayer, OfTicket, Locals
<1>11. CASE AskRecovery(h)
  <2>1. PICK p \in Players : pc'[h] = "mail" /\ mem'[h] = [player |-> p, session |-> 0, ticket |-> 0, invite |-> 0]
    BY <1>0, <1>11 DEF AskRecovery, Rescued, There, Start, Blank
  <2> QED BY <2>1 DEF Where, OfPlayer, OfTicket, Locals
<1>12. CASE Authenticate(h)
  <2>1. PICK n \in DOMAIN tickets, p \in {Nil, passkey} :
          /\ pc'[h] = "challenge"
          /\ mem'[h] = [player |-> p, session |-> 0, ticket |-> n, invite |-> 0]
    BY <1>0, <1>12 DEF Authenticate, Start, Blank
  <2>2. p \in Or(Players) /\ n \in Nat
    BY <1>1 DEF TypeInv, TypeOK
  <2> QED BY <1>2, <2>1, <2>2 DEF Where, OfPlayer, OfTicket, Locals
<1>13. CASE Register(h)
  <2>1. PICK n \in DOMAIN tickets :
          /\ pc[h] = "in" /\ pc'[h] = "challenge"
          /\ mem'[h] = [player |-> mem[h].player, session |-> mem[h].session, ticket |-> n, invite |-> mem[h].invite]
    BY <1>0, <1>13 DEF Register, Goto, Locals
  <2> QED BY <1>0, <1>1, <1>2, <1>3, <2>1 DEF Where, OfPlayer, OfTicket, Locals
<1> QED BY <1>5, <1>6, <1>7, <1>8, <1>9, <1>10, <1>11, <1>12, <1>13

(* What no handler does: invitations of the app, challenges of nobody, an  *)
(* operator's decision, time.                                              *)
World == AppInvite \/ AskAuthenticate \/ Moderate \/ Lapse

LEMMA WorldTypes ==
  ASSUME TypeInv, World
  PROVE  /\ TypeInv'
         /\ Len(tickets) =< Len(tickets') /\ Len(invites) =< Len(invites')
<1>0. /\ sessions \in Seq(Or(Session)) /\ tickets \in Seq(Or(Ticket)) /\ invites \in Seq(Invite)
      /\ Len(tickets) \in Nat /\ Len(invites) \in Nat
      /\ DOMAIN invites = 1..Len(invites) /\ DOMAIN tickets = 1..Len(tickets)
  BY DEF TypeInv, TypeOK
<1>7. tickets \in Seq(Or(Ticket)) /\ invites \in Seq(Invite)
  BY <1>0
<1>1. UNCHANGED <<sessions, passkey, pc, mem>>
  BY DEF World, AppInvite, AskAuthenticate, Moderate, Lapse, AtOnce
<1>2. calls' \in 0..MaxCalls /\ overlap' \in BOOLEAN
  <2>1. UNCHANGED <<calls, overlap>> \/ Call
    BY DEF World, AppInvite, AskAuthenticate, Moderate, Lapse, AtOnce
  <2>2. CASE Call
    <3>1. calls' \in 0..MaxCalls
      BY <2>2, QuotaAssumption DEF TypeInv, TypeOK, Call
    <3>2. overlap' \in BOOLEAN
      BY <2>2 DEF TypeInv, TypeOK, Call
    <3> QED BY <3>1, <3>2
  <2> QED BY <2>1, <2>2 DEF TypeInv, TypeOK
<1>3. players' \in [Players -> Or(Player)]
  <2>1. \/ players' = players
        \/ \E p \in There, s \in {"active", "suspended", "banned"} :
             players' = [players EXCEPT ![p] = [players[p] EXCEPT !.status = s]]
    BY DEF Moderate, World, AppInvite, AskAuthenticate, Moderate, Lapse
  <2>2. \A r \in Player, s \in {"active", "suspended", "banned"} : [r EXCEPT !.status = s] \in Or(Player)
    BY DEF Player
  <2>3. \A p \in There : p \in Players /\ players[p] \in Player
    BY DEF TypeInv, TypeOK, There
  <2>4. players \in [Players -> Or(Player)]
    BY DEF TypeInv, TypeOK
  <2>5. ASSUME NEW p \in There, NEW s \in {"active", "suspended", "banned"},
               players' = [players EXCEPT ![p] = [players[p] EXCEPT !.status = s]]
        PROVE  players' \in [Players -> Or(Player)]
    <3> DEFINE e == [players[p] EXCEPT !.status = s]
    <3>1. e \in Or(Player) /\ p \in Players
      BY <2>2, <2>3
    <3>2. players' = [players EXCEPT ![p] = e]
      BY <2>5
    <3> HIDE DEF e
    <3> QED BY <2>4, <3>1, <3>2
  <2> QED BY <2>1, <2>4, <2>5
<1>4. /\ tickets' \in Seq(Or(Ticket)) /\ Len(tickets) =< Len(tickets')
      /\ DOMAIN tickets \subseteq DOMAIN tickets' /\ TicketsAreOf'
  <2>1. CASE tickets' = tickets
    BY <1>0, <2>1 DEF TypeInv, TicketsAreOf
  <2>2. CASE AskAuthenticate
    <3> DEFINE t == [kind |-> "authenticate", of |-> Nil, used |-> FALSE, live |-> TRUE]
    <3>1. t \in Or(Ticket) /\ t.kind = "authenticate"
      BY DEF Ticket, Kinds
    <3>2. tickets' = Append(tickets, t)
      BY <2>2 DEF AskAuthenticate
    <3> HIDE DEF t
    <3>3. /\ tickets' \in Seq(Or(Ticket)) /\ Len(tickets) =< Len(tickets')
          /\ DOMAIN tickets' = DOMAIN tickets \cup {Len(tickets')}
          /\ \A n \in DOMAIN tickets : tickets'[n] = tickets[n]
          /\ tickets'[Len(tickets')] = t
      BY <1>0, <3>1, <3>2, AppendSeq
    <3> QED BY <3>1, <3>3 DEF TypeInv, TicketsAreOf
  <2>3. ASSUME NEW n \in DOMAIN tickets, Fresh(n), tickets' = [tickets EXCEPT ![n].live = FALSE]
        PROVE  /\ tickets' \in Seq(Or(Ticket)) /\ Len(tickets) =< Len(tickets')
               /\ DOMAIN tickets \subseteq DOMAIN tickets' /\ TicketsAreOf'
    <3>1. \A m \in DOMAIN tickets : tickets[m] \in Or(Ticket)
      BY <1>0
    <3>2. /\ tickets' \in [DOMAIN tickets -> Or(Ticket)]
          /\ \A m \in DOMAIN tickets :
               tickets'[m] # Nil => /\ tickets[m] # Nil /\ tickets'[m].kind = tickets[m].kind
                                    /\ tickets'[m].of = tickets[m].of
      BY <2>3, <3>1 DEF Ticket, Fresh
    <3>3. tickets' \in Seq(Or(Ticket)) /\ Len(tickets) = Len(tickets') /\ DOMAIN tickets = DOMAIN tickets'
      BY <1>7, <3>2, MapSeq
    <3> QED BY <1>0, <3>2, <3>3 DEF TypeInv, TicketsAreOf
  <2> QED BY <2>1, <2>2, <2>3 DEF World, AppInvite, Moderate, Lapse
<1>5. /\ invites' \in Seq(Invite) /\ Len(invites) =< Len(invites')
      /\ DOMAIN invites \subseteq DOMAIN invites' /\ 0..Len(invites) \subseteq 0..Len(invites')
  <2>1. CASE invites' = invites
    BY <1>0, <2>1
  <2>2. CASE AppInvite
    <3>1. PICK max \in 1..2 :
            invites' = Append(invites, [by |-> Nil, uses |-> 0, max |-> max, live |-> TRUE])
      BY <2>2 DEF AppInvite
    <3>2. [by |-> Nil, uses |-> 0, max |-> max, live |-> TRUE] \in Invite
      BY DEF Invite
    <3> QED BY <1>0, <3>1, <3>2, AppendSeq
  <2>3. ASSUME NEW i \in DOMAIN invites, invites' = [invites EXCEPT ![i].live = FALSE]
        PROVE  invites' \in Seq(Invite) /\ Len(invites) = Len(invites') /\ DOMAIN invites = DOMAIN invites'
    <3>1. \A m \in DOMAIN invites : invites[m] \in Invite
      BY <1>0
    <3>3. \A r \in Invite : [r EXCEPT !.live = FALSE] \in Invite
      BY Zenon DEF Invite
    <3>2. invites' \in [DOMAIN invites -> Invite]
      BY <2>3, <3>1, <3>3
    <3> QED BY <1>7, <3>2, MapSeq
  <2>4. \/ invites' = invites \/ AppInvite
        \/ \E i \in DOMAIN invites : invites' = [invites EXCEPT ![i].live = FALSE]
    BY DEF World, AskAuthenticate, Moderate, Lapse
  <2>5. invites' \in Seq(Invite) /\ Len(invites) =< Len(invites') /\ DOMAIN invites \subseteq DOMAIN invites'
    BY <1>0, <2>1, <2>2, <2>3, <2>4
  <2>6. Len(invites') \in Nat
    BY <2>5
  <2> QED BY <1>0, <2>5, <2>6
<1>6. ASSUME NEW g \in Handlers  PROVE Where(g)'
  BY <1>1, <1>4, <1>5 DEF TypeInv, Where
<1> QED BY <1>1, <1>2, <1>3, <1>4, <1>5, <1>6 DEF TypeInv, TypeOK

LEMMA StepTypes ==
  ASSUME TypeInv, NEW h \in Handlers, Step(h)
  PROVE  TypeInv'
<1>1. mem' \in [Handlers -> Locals]
  <2>1. \A g \in Handlers : mem'[g] \in Locals
    BY OthersStay, LocalsStep DEF TypeInv, TypeOK
  <2>2. \E locals : mem' = [mem EXCEPT ![h] = locals]
    BY Moves
  <2> QED BY <2>1, <2>2 DEF TypeInv, TypeOK
<1>2. /\ DOMAIN invites \subseteq DOMAIN invites' /\ DOMAIN tickets \subseteq DOMAIN tickets'
      /\ 0..Len(invites) \subseteq 0..Len(invites')
  <2>1. Len(invites) \in Nat
    BY DEF TypeInv, TypeOK
  <2>2. Len(invites') \in Nat
    BY InvitesStep
  <2> QED BY <2>1, <2>2, InvitesStep, TicketsStep
<1>3. ASSUME NEW g \in Handlers \ {h}  PROVE Where(g)'
  <2>1. pc'[g] = pc[g] /\ mem'[g] = mem[g]
    BY OthersStay
  <2> QED BY <1>2, <2>1 DEF TypeInv, Where
<1> QED BY <1>1, <1>3, OthersStay, LocalsStep, PlayersStep, SessionsStep, TicketsStep, InvitesStep,
           PasskeyStep DEF TypeInv, TypeOK

LEMMA InitTypes == Init => TypeInv
<1> SUFFICES ASSUME Init PROVE TypeInv
  OBVIOUS
<1>1. players \in [Players -> Or(Player)]
  <2>1. \A b \in BOOLEAN : Newcomer(0, b) \in Player
    BY QuotaAssumption DEF Newcomer, Player
  <2>2. PICK rescued \in Or(Founders) :
          players = [p \in Players |-> IF p \in Founders THEN Newcomer(0, p = rescued) ELSE Nil]
    BY DEF Init
  <2>3. \A p : (p = rescued) \in BOOLEAN
    OBVIOUS
  <2>4. \A p \in Players : (IF p \in Founders THEN Newcomer(0, p = rescued) ELSE Nil) \in Or(Player)
    BY <2>1, <2>3
  <2> QED BY <2>2, <2>4
<1>2. sessions \in Seq(Or(Session))
  <2>1. PICK order \in [1..Cardinality(Founders) -> Founders] :
          sessions = [n \in DOMAIN order |-> Opened(order[n], 0)]
    BY DEF Init
  <2>2. Cardinality(Founders) \in Nat
    BY PlayersAssumption, FS_Subset, FS_CardinalityType
  <2>3. \A p \in Players : Opened(p, 0) \in Or(Session)
    BY DEF Opened, Session
  <2>4. sessions \in [1..Cardinality(Founders) -> Or(Session)]
    BY <2>1, <2>3, PlayersAssumption
  <2> QED BY <2>2, <2>4, SeqDef
<1>3. /\ tickets = <<>> /\ invites = <<>> /\ passkey \in Or(Players) /\ pc \in [Handlers -> Labels]
  BY DEF Init, Labels
<1>7. calls = 0 /\ overlap = FALSE
  BY DEF Init
<1>8. calls \in 0..MaxCalls
  BY <1>7, QuotaAssumption
<1>9. overlap \in BOOLEAN
  BY <1>7, Zenon
<1>6. mem \in [Handlers -> Locals]
  <2>1. Blank \in Locals
    BY DEF Blank, Locals
  <2> QED BY <2>1 DEF Init
<1>5. \A h \in Handlers : Where(h)
  <2>1. Blank.session = 0
    BY DEF Blank
  <2> QED BY <2>1 DEF Init, Where, OfPlayer, OfTicket
<1>4. TicketsAreOf
  BY <1>3 DEF TicketsAreOf
<1> QED BY <1>1, <1>2, <1>3, <1>4, <1>5, <1>6, <1>8, <1>9, EmptySeq DEF TypeInv, TypeOK

LEMMA StutterTypes == TypeInv /\ UNCHANGED vars => TypeInv'
  BY DEF vars, TypeInv, TypeOK, TicketsAreOf, Where

(* A step is a handler's or the world's. *)
LEMMA StepOrWorld ==
  ASSUME [Next]_vars
  PROVE  (\E h \in Handlers : Step(h)) \/ World \/ UNCHANGED vars
  BY DEF Next, Step, World

(* A row that was read is of its type, also when it was written in the     *)
(* meantime, and a handler knows whom it is about.                         *)
LEMMA TypeInvariant == Spec => []TypeInv
<1>1. TypeInv /\ [Next]_vars => TypeInv'
  BY StepOrWorld, StepTypes, WorldTypes, StutterTypes
<1> QED BY <1>1, InitTypes, PTL DEF Spec

(* Rows of players, sessions, tickets and invitations and the local        *)
(* variables of every handler keep their types: a handler that goes on     *)
(* after an account was erased finds no row where it needs one.            *)
THEOREM TypeCorrect == Spec => []TypeOK
  BY TypeInvariant, PTL DEF TypeInv

-----------------------------------------------------------------------------
(* What a step of a handler makes of the rows.                             *)

LEMMA PlayersChange ==
  ASSUME TypeInv, NEW h \in Handlers, Step(h)
  PROVE  /\ Join(h) => /\ There' = There \cup {mem[h].player}
                       /\ players'[mem[h].player] = Newcomer(mem[h].invite, FALSE)
                       /\ \A q \in Players \ {mem[h].player} : players'[q] = players[q]
         /\ Erase(h) => /\ There' \subseteq There
                        /\ tables' # tables => There' = There \ {mem[h].player}
                        /\ \A q \in There' : players'[q] = players[q]
         /\ ~Join(h) /\ ~Erase(h) =>
              /\ There' = There
              /\ \A q \in There : /\ players'[q].via = players[q].via
                                  /\ \/ players'[q].left = players[q].left
                                     \/ Give(h) /\ q = mem[h].player
         /\ Give(h) /\ mem[h].player \in There =>
              players'[mem[h].player].left = players[mem[h].player].left - 1
<1>0. players \in [Players -> Or(Player)] /\ Nil \notin Player
  BY NilAssumption DEF TypeInv, TypeOK
<1>1. \A p \in There : p \in Players /\ players[p] \in Player
  BY <1>0 DEF There
<1>2. CASE Join(h)
  <2>1. mem[h].player \in Players
    BY <1>2 DEF TypeInv, Where, OfPlayer, Join
  <2>2. Newcomer(mem[h].invite, FALSE) \in Player
    BY QuotaAssumption DEF TypeInv, TypeOK, Locals, Newcomer, Player
  <2>3. pc[h] = "join"
    BY <1>2 DEF Join
  <2>4. ~Give(h) /\ ~Erase(h)
    BY <2>3 DEF Give, Erase
  <2> QED BY <1>0, <1>2, <2>1, <2>2, <2>4 DEF There, Join
<1>3. CASE Erase(h)
  <2>1. ~Join(h) /\ ~Give(h)
    BY <1>3 DEF Erase, Join, Give
  <2>2. tables' = tables \/ players' = [players EXCEPT ![mem[h].player] = Nil]
    BY <1>3 DEF Erase
  <2>3. CASE tables' = tables
    BY <1>3, <2>1, <2>3 DEF tables, There
  <2>4. CASE players' = [players EXCEPT ![mem[h].player] = Nil]
    <3>1. There' = There \ {mem[h].player}
      BY <1>0, <2>4 DEF There
    <3> QED BY <1>0, <1>3, <2>1, <2>4, <3>1 DEF There
  <2> QED BY <2>2, <2>3, <2>4
<1>4. CASE ~Join(h) /\ ~Erase(h)
  <2>1. players' = players \/ Lift(h) \/ Give(h) \/ Forget(h) \/ Adopt(h)
    BY <1>4, Writers
  <2>2. CASE players' = players /\ ~Give(h)
    BY <1>4, <2>2 DEF There
  <2>3. CASE Give(h)
    <3>1. CASE players[mem[h].player] = Nil
      BY <1>4, <2>3, <3>1 DEF Give, There, tables
    <3>2. CASE players[mem[h].player] # Nil
      <4> DEFINE e == [players[mem[h].player] EXCEPT !.left = @ - 1]
      <4>1. mem[h].player \in There
        BY <2>3, <3>2 DEF TypeInv, Where, OfPlayer, Give, There
      <4>2. /\ e \in Player /\ e.left = players[mem[h].player].left - 1
            /\ e.via = players[mem[h].player].via
        BY <1>1, <4>1 DEF Player
      <4>3. players' = [players EXCEPT ![mem[h].player] = e]
        BY <2>3, <3>2 DEF Give
      <4> HIDE DEF e
      <4> QED BY <1>0, <1>1, <1>4, <2>3, <4>1, <4>2, <4>3 DEF There
    <3> QED BY <3>1, <3>2
  <2>4. ASSUME NEW p \in Players, NEW e, players' = [players EXCEPT ![p] = e], ~Give(h),
               players[p] = Nil => e = Nil,
               players[p] # Nil => /\ e # Nil /\ e.via = players[p].via /\ e.left = players[p].left
        PROVE  /\ There' = There
               /\ \A q \in There : players'[q].via = players[q].via /\ players'[q].left = players[q].left
    BY <1>0, <1>1, <2>4 DEF There
  <2>5. \A p \in There : \A s \in {"active"}, b \in BOOLEAN :
          /\ LET e == [players[p] EXCEPT !.status = s]
             IN  e \in Player /\ e.via = players[p].via /\ e.left = players[p].left
          /\ LET e == [players[p] EXCEPT !.mail = b]
             IN  e \in Player /\ e.via = players[p].via /\ e.left = players[p].left
    BY <1>1 DEF Player
  <2>6. CASE Lift(h)
    <3> DEFINE e == IF players[mem[h].player] = Nil THEN Nil
                    ELSE [players[mem[h].player] EXCEPT !.status = "active"]
    <3>1. ~Give(h) /\ mem[h].player \in Players
      BY <2>6 DEF TypeInv, Where, OfPlayer, Lift, Give
    <3>2. players' = [players EXCEPT ![mem[h].player] = e]
      BY <2>6, Zenon DEF Lift
    <3>3. /\ players[mem[h].player] = Nil => e = Nil
          /\ players[mem[h].player] # Nil =>
               /\ e # Nil /\ e.via = players[mem[h].player].via /\ e.left = players[mem[h].player].left
      BY <1>0, <2>5, <3>1 DEF There
    <3> HIDE DEF e
    <3> QED BY <1>4, <2>4, <3>1, <3>2, <3>3
  <2>7. CASE Forget(h) /\ players' # players
    <3> DEFINE e == IF players[mem[h].player] = Nil THEN Nil
                    ELSE [players[mem[h].player] EXCEPT !.mail = FALSE]
    <3>1. ~Give(h) /\ mem[h].player \in Players
      BY <2>7 DEF TypeInv, Where, OfPlayer, Forget, Give
    <3>2. players' = [players EXCEPT ![mem[h].player] = e]
      BY <2>7, Zenon DEF Forget
    <3>4. FALSE \in BOOLEAN
      OBVIOUS
    <3>3. /\ players[mem[h].player] = Nil => e = Nil
          /\ players[mem[h].player] # Nil =>
               /\ e # Nil /\ e.via = players[mem[h].player].via /\ e.left = players[mem[h].player].left
      BY <1>0, <2>5, <3>1, <3>4, Zenon DEF There
    <3> HIDE DEF e
    <3> QED BY <1>4, <2>4, <3>1, <3>2, <3>3
  <2>8. CASE Adopt(h) /\ players' # players
    <3> DEFINE e == [players[mem[h].player] EXCEPT !.mail = TRUE]
    <3>1. ~Give(h) /\ mem[h].player \in There
      BY <2>8, Zenon DEF Adopt, Give, tables
    <3>2. players' = [players EXCEPT ![mem[h].player] = e]
      BY <2>8, Zenon DEF Adopt, tables
    <3>4. TRUE \in BOOLEAN
      OBVIOUS
    <3>3. /\ players[mem[h].player] # Nil
          /\ e # Nil /\ e.via = players[mem[h].player].via /\ e.left = players[mem[h].player].left
      BY <1>0, <2>5, <3>1, <3>4, Zenon DEF There
    <3> HIDE DEF e
    <3> QED BY <1>1, <1>4, <2>4, <3>1, <3>2, <3>3
  <2>9. Forget(h) \/ Adopt(h) => ~Give(h)
    BY DEF Forget, Adopt, Give
  <2> QED BY <2>1, <2>2, <2>3, <2>6, <2>7, <2>8, <2>9
<1> QED BY <1>2, <1>3, <1>4

(* Nobody leaves but by an erasure. *)
LEMMA WhoStays ==
  ASSUME TypeInv, NEW h \in Handlers, Step(h)
  PROVE  /\ ~Erase(h) => There \subseteq There'
         /\ Join(h) => mem[h].player \in There' /\ players'[mem[h].player].via = mem[h].invite
                       /\ players'[mem[h].player].left = Quota
<1>1. ~Erase(h) => There \subseteq There'
  <2>1. CASE Join(h)
    <3>1. There' = There \cup {mem[h].player}
      BY <2>1, PlayersChange, Zenon
    <3> QED BY <3>1
  <2>2. CASE ~Join(h)
    <3>1. ~Erase(h) => There' = There
      BY <2>2, PlayersChange, Zenon
    <3> QED BY <3>1
  <2> QED BY <2>1, <2>2
<1>2. ASSUME Join(h)
      PROVE  /\ mem[h].player \in There' /\ players'[mem[h].player].via = mem[h].invite
             /\ players'[mem[h].player].left = Quota
  <2>1. There' = There \cup {mem[h].player} /\ players'[mem[h].player] = Newcomer(mem[h].invite, FALSE)
    BY <1>2, PlayersChange, Zenon
  <2> QED BY <2>1 DEF Newcomer
<1> QED BY <1>1, <1>2

(* A session that is there was there before, or is the one that the        *)
(* statement opens.                                                        *)
LEMMA SessionsChange ==
  ASSUME TypeInv, NEW h \in Handlers, Step(h), NEW n \in DOMAIN sessions', sessions'[n] # Nil
  PROVE  \/ /\ n \in DOMAIN sessions /\ sessions[n] # Nil
            /\ sessions'[n].of = sessions[n].of /\ sessions'[n].via = sessions[n].via
            /\ sessions'[n].live => sessions[n].live
            /\ Erase(h) /\ tables' # tables => sessions[n].of # mem[h].player
            /\ Restore(h) /\ sessions[n].of = mem[h].player => ~sessions'[n].live
         \/ /\ n = Len(sessions) + 1 /\ n \notin DOMAIN sessions
            /\ Join(h) \/ ((Device(h) \/ Open(h)) /\ mem[h].player \in There)
            /\ sessions' = Append(sessions, sessions'[n])
            /\ sessions'[n] = Opened(mem[h].player, IF Join(h) THEN 0 ELSE mem[h].ticket)
<1>0. sessions \in Seq(Or(Session)) /\ Nil \notin Session
  BY NilAssumption DEF TypeInv, TypeOK
<1>1. /\ \A m \in DOMAIN sessions : sessions[m] \in Or(Session)
      /\ \A m \in DOMAIN sessions : sessions[m] # Nil => sessions[m] \in Session
  BY <1>0
<1>2. CASE sessions' = sessions /\ ~Erase(h) /\ ~Restore(h)
  BY <1>1, <1>2
<1>3. CASE RevokeOthers(h) /\ ~Erase(h)
  <2>1. ~Restore(h) /\ DOMAIN sessions' = DOMAIN sessions
    BY <1>3 DEF RevokeOthers, Restore
  <2> QED BY <1>1, <1>3, <2>1 DEF RevokeOthers, Alive, Session
<1>4. CASE Restore(h)
  <2>1. ~Erase(h) /\ DOMAIN sessions' = DOMAIN sessions
    BY <1>4 DEF Restore, Erase
  <2> QED BY <1>1, <1>4, <2>1 DEF Restore, Alive, Session
<1>5. CASE Erase(h)
  <2>1. ~Restore(h) /\ pc[h] = "in"
    BY <1>5 DEF Restore, Erase
  <2>2. CASE tables' = tables
    BY <1>1, <1>5, <2>1, <2>2 DEF tables
  <2>3. CASE tables' # tables
    <3>1. sessions' = [m \in DOMAIN sessions |->
            IF sessions[m] # Nil /\ sessions[m].of = mem[h].player THEN Nil ELSE sessions[m]]
      BY <1>5, <2>3 DEF Erase
    <3> QED BY <1>1, <2>1, <3>1
  <2> QED BY <2>2, <2>3
<1>6. ASSUME NEW i \in Nat, mem[h].player \in Players,
             sessions' = Append(sessions, Opened(mem[h].player, i)), ~Erase(h), ~Restore(h)
      PROVE  \/ n \in DOMAIN sessions /\ sessions'[n] = sessions[n]
             \/ /\ n = Len(sessions) + 1 /\ n \notin DOMAIN sessions
                /\ sessions'[n] = Opened(mem[h].player, i)
  <2>1. Opened(mem[h].player, i) \in Or(Session)
    BY <1>6 DEF Opened, Session
  <2> QED BY <1>0, <1>6, <2>1, AppendSeq
<1>7. mem[h].ticket \in Nat
  BY DEF TypeInv, TypeOK, Locals
<1>8. CASE Join(h)
  <2>1. mem[h].player \in Players /\ ~Erase(h) /\ ~Restore(h)
    BY <1>8 DEF TypeInv, Where, OfPlayer, Join, Erase, Restore
  <2>2. sessions' = Append(sessions, Opened(mem[h].player, 0))
    BY <1>8 DEF Join
  <2> QED BY <1>1, <1>6, <1>8, <2>1, <2>2
<1>9. CASE (Device(h) \/ Open(h)) /\ sessions' # sessions
  <2>1. mem[h].player \in There /\ ~Erase(h) /\ ~Restore(h) /\ ~Join(h)
    BY <1>9 DEF TypeInv, Where, OfPlayer, Device, Open, Erase, Restore, Join, There, tables
  <2>2. sessions' = Append(sessions, Opened(mem[h].player, mem[h].ticket))
    BY <1>9 DEF Device, Open, tables
  <2> QED BY <1>1, <1>6, <1>7, <1>9, <2>1, <2>2 DEF There
<1> QED BY <1>2, <1>3, <1>4, <1>5, <1>8, <1>9, Writers

(* A ticket keeps its kind and its player, and a used one stays used; a    *)
(* new one is the player's who asked for it.                               *)
LEMMA TicketsChange ==
  ASSUME TypeInv, NEW h \in Handlers, Step(h), NEW n \in DOMAIN tickets', tickets'[n] # Nil
  PROVE  \/ /\ n \in DOMAIN tickets /\ tickets[n] # Nil
            /\ tickets'[n].of = tickets[n].of /\ tickets'[n].kind = tickets[n].kind
            /\ tickets[n].used => tickets'[n].used
            /\ Erase(h) /\ tables' # tables => tickets[n].of # mem[h].player
            /\ n = mem[h].ticket /\ ((Device(h) /\ mem[h].player \in There) \/ Restore(h) \/ Burn(h)) => tickets'[n].used
         \/ /\ n = Len(tickets) + 1 /\ n \notin DOMAIN tickets
            /\ tickets'[n].of = mem[h].player /\ mem[h].player \in There
            /\ ~Erase(h) /\ ~Device(h) /\ ~Open(h)
<1>0. tickets \in Seq(Or(Ticket)) /\ Nil \notin Ticket /\ mem[h].ticket \in Nat
  BY NilAssumption DEF TypeInv, TypeOK, Locals
<1>1. /\ \A m \in DOMAIN tickets : tickets[m] \in Or(Ticket)
      /\ \A m \in DOMAIN tickets : tickets[m] # Nil => tickets[m] \in Ticket
  BY <1>0
<1>2. CASE /\ tickets' = tickets /\ ~Erase(h) /\ ~Restore(h) /\ ~Burn(h)
           /\ Device(h) => mem[h].player \notin There
  BY <1>1, <1>2
<1>3. CASE Erase(h)
  <2>1. ~Restore(h) /\ ~Burn(h) /\ ~Device(h)
    BY <1>3 DEF Restore, Erase, Burn, Device
  <2>2. CASE tables' = tables
    BY <1>1, <1>3, <2>1, <2>2 DEF tables
  <2>3. CASE tables' # tables
    <3>1. tickets' = [m \in DOMAIN tickets |->
            IF tickets[m] # Nil /\ tickets[m].of = mem[h].player THEN Nil ELSE tickets[m]]
      BY <1>3, <2>3 DEF Erase
    <3> QED BY <1>1, <2>1, <3>1
  <2> QED BY <2>2, <2>3
<1>4. CASE tickets' = Burnt(mem[h].ticket) /\ ~Erase(h)
  <2>1. DOMAIN tickets' = DOMAIN tickets
    BY <1>4 DEF Burnt
  <2>2. \A r \in Ticket : LET e == [r EXCEPT !.used = TRUE]
                          IN  e \in Ticket /\ e.of = r.of /\ e.kind = r.kind /\ e.used
    BY Zenon DEF Ticket
  <2>3. CASE n = mem[h].ticket
    <3> DEFINE e == [tickets[n] EXCEPT !.used = TRUE]
    <3>1. tickets[n] # Nil /\ tickets'[n] = e
      BY <1>4, <2>1, <2>3, Zenon DEF Burnt
    <3>2. e \in Ticket /\ e.of = tickets[n].of /\ e.kind = tickets[n].kind /\ e.used
      BY <1>1, <2>1, <2>2, <3>1, Zenon
    <3> HIDE DEF e
    <3> QED BY <1>4, <2>1, <3>1, <3>2
  <2>4. CASE n # mem[h].ticket
    BY <1>1, <1>4, <2>1, <2>4 DEF Burnt
  <2> QED BY <2>3, <2>4
<1>5. CASE (Ask(h) \/ Mail(h)) /\ tickets' # tickets
  <2>1. /\ mem[h].player \in There
        /\ ~Erase(h) /\ ~Restore(h) /\ ~Burn(h) /\ ~Device(h) /\ ~Open(h)
    <3>1. mem[h].player \in Players
      BY <1>5 DEF TypeInv, Where, OfPlayer, Ask, Mail
    <3>2. CASE Mail(h)
      BY <1>5, <3>1, <3>2 DEF Mail, There, Erase, Restore, Burn, Device, Open
    <3>3. CASE Ask(h)
      <4>1. pc[h] = "in" /\ mem[h].player \in There
        BY <1>5, <3>1, <3>3 DEF Ask, There
      <4>2. CASE Erase(h)
        <5>1. tickets' = [m \in DOMAIN tickets |->
                IF tickets[m] # Nil /\ tickets[m].of = mem[h].player THEN Nil ELSE tickets[m]]
          BY <1>5, <4>2 DEF Erase, tables
        <5>2. DOMAIN tickets' = DOMAIN tickets
          BY <5>1
        <5>3. PICK t \in Ticket : tickets' = Append(tickets, t)
          <6>1. PICK kind \in {"link", "verify", "register"} :
                  tickets' = Append(tickets, [kind |-> kind, of |-> mem[h].player, used |-> FALSE, live |-> TRUE])
            BY <1>5, <3>3 DEF Ask
          <6>2. [kind |-> kind, of |-> mem[h].player, used |-> FALSE, live |-> TRUE] \in Ticket
            BY <3>1 DEF Ticket, Kinds
          <6> QED BY <6>1, <6>2
        <5> QED BY <1>0, <5>2, <5>3, AppendSeq
      <4> QED BY <4>1, <4>2 DEF Restore, Burn, Device, Open
    <3> QED BY <1>5, <3>2, <3>3
  <2>2. PICK k \in Kinds :
          tickets' = Append(tickets, [kind |-> k, of |-> mem[h].player, used |-> FALSE, live |-> TRUE])
    BY <1>5 DEF Ask, Mail, Kinds
  <2> DEFINE t == [kind |-> k, of |-> mem[h].player, used |-> FALSE, live |-> TRUE]
  <2>3. t \in Or(Ticket) /\ t.of = mem[h].player
    BY <2>1 DEF Ticket, There
  <2>4. tickets' = Append(tickets, t)
    BY <2>2
  <2> HIDE DEF t
  <2> QED BY <1>0, <1>1, <2>1, <2>3, <2>4, AppendSeq
<1>6. CASE Device(h) \/ Adopt(h) \/ Restore(h) \/ Burn(h)
  <2>1. ~Erase(h)
    BY <1>6 DEF Device, Adopt, Restore, Burn, Erase
  <2>2. tickets' = tickets \/ tickets' = Burnt(mem[h].ticket)
    BY <1>6 DEF Device, Adopt, Restore, Burn, tables
  <2>3. Restore(h) \/ Burn(h) \/ (Device(h) /\ mem[h].player \in There) => tickets' = Burnt(mem[h].ticket)
    BY DEF Restore, Burn, Device, There
  <2> QED BY <1>1, <1>2, <1>4, <2>1, <2>2, <2>3
<1>7. Device(h) => ~Ask(h) /\ ~Mail(h)
  BY DEF Device, Ask, Mail
<1> QED BY <1>2, <1>3, <1>5, <1>6, <1>7, Writers

(* An invitation keeps its giver and its limit; a new one is given by      *)
(* somebody who is there.                                                  *)
LEMMA InvitesChange ==
  ASSUME TypeInv, NEW h \in Handlers, Step(h), NEW i \in DOMAIN invites'
  PROVE  \/ /\ i \in DOMAIN invites
            /\ invites'[i].by = invites[i].by /\ invites'[i].max = invites[i].max
            /\ invites'[i].uses = (IF Redeem(h) /\ i = mem[h].invite THEN invites[i].uses + 1
                                                                     ELSE invites[i].uses)
         \/ /\ i = Len(invites) + 1 /\ i \notin DOMAIN invites
            /\ Give(h) /\ mem[h].player \in There /\ invites'[i].by = mem[h].player
            /\ invites'[i].uses = 0 /\ invites'[i].max = 1
<1>0. invites \in Seq(Invite) /\ mem[h].invite \in Nat
  BY DEF TypeInv, TypeOK, Locals
<1>1. \A m \in DOMAIN invites : invites[m] \in Invite
  BY <1>0
<1>2. CASE invites' = invites /\ ~Redeem(h)
  BY <1>1, <1>2
<1>3. CASE Redeem(h)
  BY <1>1, <1>3 DEF Redeem, Invite
<1>4. CASE Give(h) /\ invites' # invites
  <2> DEFINE t == [by |-> mem[h].player, uses |-> 0, max |-> 1, live |-> TRUE]
  <2>1. mem[h].player \in There
    BY <1>4 DEF TypeInv, Where, OfPlayer, Give, There, tables
  <2>2. t \in Invite /\ t.by = mem[h].player /\ t.uses = 0 /\ t.max = 1
    BY <2>1 DEF Invite, There
  <2>3. invites' = Append(invites, t) /\ ~Redeem(h)
    BY <1>4 DEF Give, tables, Redeem
  <2> HIDE DEF t
  <2> QED BY <1>0, <1>1, <1>4, <2>1, <2>2, <2>3, AppendSeq
<1> QED BY <1>2, <1>3, <1>4, Writers

(* The world changes nobody's account, session or key; it adds what is     *)
(* nobody's, and moderates.                                                *)
LEMMA WorldChange ==
  ASSUME TypeInv, World
  PROVE  /\ UNCHANGED <<sessions, passkey, pc, mem>>
         /\ There' = There
         /\ \A p \in There : players'[p].via = players[p].via /\ players'[p].left = players[p].left
         /\ \A n \in DOMAIN tickets' : tickets'[n] # Nil =>
              \/ /\ n \in DOMAIN tickets /\ tickets[n] # Nil /\ tickets'[n].of = tickets[n].of
                 /\ tickets'[n].kind = tickets[n].kind /\ tickets'[n].used = tickets[n].used
              \/ n = Len(tickets) + 1 /\ n \notin DOMAIN tickets /\ tickets'[n].of = Nil
         /\ \A i \in DOMAIN invites' :
              \/ /\ i \in DOMAIN invites /\ invites'[i].by = invites[i].by
                 /\ invites'[i].max = invites[i].max /\ invites'[i].uses = invites[i].uses
              \/ /\ i = Len(invites) + 1 /\ i \notin DOMAIN invites
                 /\ invites'[i].by = Nil /\ invites'[i].uses = 0 /\ invites'[i].max \in 1..2
         /\ UNCHANGED <<calls, overlap>> \/ Call
<1>0. /\ tickets \in Seq(Or(Ticket)) /\ invites \in Seq(Invite) /\ players \in [Players -> Or(Player)]
      /\ Nil \notin Ticket
  BY NilAssumption DEF TypeInv, TypeOK
<1>1. UNCHANGED <<sessions, passkey, pc, mem>> /\ (UNCHANGED <<calls, overlap>> \/ Call)
  BY DEF World, AppInvite, AskAuthenticate, Moderate, Lapse, AtOnce
<1>2. There' = There /\ \A p \in There : players'[p].via = players[p].via /\ players'[p].left = players[p].left
  <2>1. \/ players' = players
        \/ \E p \in There, s \in {"active", "suspended", "banned"} :
             players' = [players EXCEPT ![p] = [players[p] EXCEPT !.status = s]]
    BY DEF Moderate, World, AppInvite, AskAuthenticate, Lapse
  <2>2. ASSUME NEW p \in There, NEW s \in {"active", "suspended", "banned"},
               players' = [players EXCEPT ![p] = [players[p] EXCEPT !.status = s]]
        PROVE  There' = There /\ \A q \in There : players'[q].via = players[q].via /\ players'[q].left = players[q].left
    <3> DEFINE e == [players[p] EXCEPT !.status = s]
    <3>1. p \in Players /\ players[p] \in Player /\ Nil \notin Player
      BY <1>0, NilAssumption DEF There
    <3>2. e \in Player /\ e.via = players[p].via /\ e.left = players[p].left
      BY <3>1 DEF Player
    <3>3. players' = [players EXCEPT ![p] = e]
      BY <2>2
    <3> HIDE DEF e
    <3> QED BY <1>0, <3>1, <3>2, <3>3 DEF There
  <2> QED BY <2>1, <2>2 DEF There
<1>3. ASSUME NEW n \in DOMAIN tickets', tickets'[n] # Nil
      PROVE  \/ /\ n \in DOMAIN tickets /\ tickets[n] # Nil /\ tickets'[n].of = tickets[n].of
                /\ tickets'[n].kind = tickets[n].kind /\ tickets'[n].used = tickets[n].used
             \/ n = Len(tickets) + 1 /\ n \notin DOMAIN tickets /\ tickets'[n].of = Nil
  <2>1. \/ tickets' = tickets \/ AskAuthenticate
        \/ \E m \in DOMAIN tickets : Fresh(m) /\ tickets' = [tickets EXCEPT ![m].live = FALSE]
    BY DEF World, AppInvite, Moderate, Lapse
  <2>2. CASE AskAuthenticate
    <3> DEFINE t == [kind |-> "authenticate", of |-> Nil, used |-> FALSE, live |-> TRUE]
    <3>1. t \in Or(Ticket) /\ t.of = Nil
      BY DEF Ticket, Kinds
    <3>2. tickets' = Append(tickets, t)
      BY <2>2 DEF AskAuthenticate
    <3> HIDE DEF t
    <3> QED BY <1>0, <1>3, <3>1, <3>2, AppendSeq
  <2>3. ASSUME NEW m \in DOMAIN tickets, Fresh(m), tickets' = [tickets EXCEPT ![m].live = FALSE]
        PROVE  /\ n \in DOMAIN tickets /\ tickets[n] # Nil /\ tickets'[n].of = tickets[n].of
               /\ tickets'[n].kind = tickets[n].kind /\ tickets'[n].used = tickets[n].used
    <3>1. \A k \in DOMAIN tickets : tickets[k] # Nil => tickets[k] \in Ticket
      BY <1>0
    <3> QED BY <1>3, <2>3, <3>1 DEF Ticket, Fresh
  <2> QED BY <1>3, <2>1, <2>2, <2>3
<1>4. ASSUME NEW i \in DOMAIN invites'
      PROVE  \/ /\ i \in DOMAIN invites /\ invites'[i].by = invites[i].by
                /\ invites'[i].max = invites[i].max /\ invites'[i].uses = invites[i].uses
             \/ /\ i = Len(invites) + 1 /\ i \notin DOMAIN invites
                /\ invites'[i].by = Nil /\ invites'[i].uses = 0 /\ invites'[i].max \in 1..2
  <2>1. \/ invites' = invites \/ AppInvite
        \/ \E j \in DOMAIN invites : invites' = [invites EXCEPT ![j].live = FALSE]
    BY DEF World, AskAuthenticate, Moderate, Lapse
  <2>2. CASE AppInvite
    <3>1. PICK max \in 1..2 :
            invites' = Append(invites, [by |-> Nil, uses |-> 0, max |-> max, live |-> TRUE])
      BY <2>2 DEF AppInvite
    <3> DEFINE t == [by |-> Nil, uses |-> 0, max |-> max, live |-> TRUE]
    <3>2. t \in Invite /\ t.by = Nil /\ t.uses = 0 /\ t.max = max
      BY DEF Invite
    <3>3. invites' = Append(invites, t)
      BY <3>1
    <3> HIDE DEF t
    <3> QED BY <1>0, <1>4, <3>2, <3>3, AppendSeq
  <2>3. ASSUME NEW j \in DOMAIN invites, invites' = [invites EXCEPT ![j].live = FALSE]
        PROVE  /\ i \in DOMAIN invites /\ invites'[i].by = invites[i].by
               /\ invites'[i].max = invites[i].max /\ invites'[i].uses = invites[i].uses
    <3>1. \A k \in DOMAIN invites : invites[k] \in Invite
      BY <1>0
    <3> QED BY <1>4, <2>3, <3>1 DEF Invite
  <2> QED BY <1>4, <2>1, <2>2, <2>3
<1> QED BY <1>1, <1>2, <1>3, <1>4

-----------------------------------------------------------------------------
(* Rows refer to players who are there, and a name that a sign-up has      *)
(* taken is not used by anybody else.                                      *)

Newly(h) == pc[h] \in {"code", "join"} =>
  mem[h].player \notin There /\ \A g \in Handlers \ {h} : mem[g].player # mem[h].player

RefInv ==
  /\ \A n \in DOMAIN sessions : sessions[n] # Nil =>
       sessions[n].of \in There /\ sessions[n].via =< Len(tickets)
  /\ \A n \in DOMAIN tickets : tickets[n] # Nil => tickets[n].of \in Or(There)
  /\ \A i \in DOMAIN invites : invites[i].by \in Or(There)
  /\ passkey \in Or(There)
  /\ \A p \in There : players[p].via =< Len(invites)
  /\ \A h \in Handlers : Newly(h)

LEMMA RefsOfSessions ==
  ASSUME TypeInv, RefInv, NEW h \in Handlers, Step(h), NEW n \in DOMAIN sessions', sessions'[n] # Nil
  PROVE  sessions'[n].of \in There' /\ sessions'[n].via =< Len(tickets')
<1>0. /\ Len(tickets) \in Nat /\ Len(tickets') \in Nat /\ Len(tickets) =< Len(tickets')
      /\ tickets \in Seq(Or(Ticket)) /\ mem[h].ticket \in Nat
      /\ \A m \in DOMAIN sessions : sessions[m] \in Or(Session)
  BY TicketsStep DEF TypeInv, TypeOK, Locals
<1>1. CASE n \in DOMAIN sessions /\ sessions[n] # Nil /\ sessions'[n].of = sessions[n].of
           /\ sessions'[n].via = sessions[n].via /\ (Erase(h) /\ tables' # tables => sessions[n].of # mem[h].player)
  <2>1. sessions[n].of \in There /\ sessions[n].via =< Len(tickets) /\ sessions[n].via \in Nat
    BY <1>0, <1>1 DEF RefInv, Session
  <2>2. sessions[n].of \in There'
    <3>1. Erase(h) /\ tables' = tables => There' = There
      BY DEF tables, There
    <3> QED BY <1>1, <2>1, <3>1, PlayersChange
  <2> QED BY <1>0, <1>1, <2>1, <2>2
<1>2. CASE /\ Join(h) \/ ((Device(h) \/ Open(h)) /\ mem[h].player \in There)
           /\ sessions'[n] = Opened(mem[h].player, IF Join(h) THEN 0 ELSE mem[h].ticket)
  <2>1. sessions'[n].of = mem[h].player /\ sessions'[n].via \in {0, mem[h].ticket}
    BY <1>2 DEF Opened
  <2>2. CASE Join(h)
    <3>1. sessions'[n].via = 0
      BY <1>2, <2>2 DEF Opened
    <3> QED BY <1>0, <2>1, <2>2, <3>1, WhoStays
  <2>3. CASE (Device(h) \/ Open(h)) /\ mem[h].player \in There
    <3>1. mem[h].ticket =< Len(tickets)
      BY <1>0, <2>3 DEF TypeInv, Where, OfTicket, Device, Open
    <3>2. ~Join(h) /\ ~Erase(h)
      BY <2>3 DEF Join, Erase, Device, Open
    <3> QED BY <1>0, <2>1, <2>3, <3>1, <3>2, WhoStays
  <2> QED BY <1>2, <2>2, <2>3
<1> QED BY <1>1, <1>2, SessionsChange

LEMMA RefsOfTickets ==
  ASSUME TypeInv, RefInv, NEW h \in Handlers, Step(h), NEW n \in DOMAIN tickets', tickets'[n] # Nil
  PROVE  tickets'[n].of \in Or(There')
<1>1. Erase(h) /\ tables' = tables => There' = There
  BY DEF tables, There
<1>2. CASE n \in DOMAIN tickets /\ tickets[n] # Nil /\ tickets'[n].of = tickets[n].of
           /\ (Erase(h) /\ tables' # tables => tickets[n].of # mem[h].player)
  BY <1>1, <1>2, PlayersChange DEF RefInv
<1>3. CASE tickets'[n].of = mem[h].player /\ mem[h].player \in There /\ ~Erase(h)
  BY <1>3, WhoStays
<1> QED BY <1>2, <1>3, TicketsChange

LEMMA RefsOfInvites ==
  ASSUME TypeInv, RefInv, NEW h \in Handlers, Step(h)
  PROVE  /\ \A i \in DOMAIN invites' : invites'[i].by \in Or(There')
         /\ passkey' \in Or(There')
         /\ \A p \in There' : players'[p].via =< Len(invites')
<1>1. /\ Len(invites) \in Nat /\ Len(invites') \in Nat /\ Len(invites) =< Len(invites')
      /\ DOMAIN invites = 1..Len(invites)
      /\ \A p \in There : players[p].via \in Nat
  BY InvitesStep, NilAssumption DEF TypeInv, TypeOK, There, Player
<1>2. Erase(h) /\ tables' = tables => There' = There /\ UNCHANGED <<players, passkey, invites>>
  BY DEF tables, There
<1>3. ASSUME NEW i \in DOMAIN invites'  PROVE invites'[i].by \in Or(There')
  <2>1. CASE i \in DOMAIN invites /\ invites'[i].by = invites[i].by
    <3>1. CASE Erase(h) /\ tables' # tables
      <4>1. \A j \in DOMAIN invites : invites[j].by # mem[h].player
        BY <3>1 DEF Erase
      <4> QED BY <2>1, <3>1, <4>1, PlayersChange DEF RefInv
    <3>2. CASE ~(Erase(h) /\ tables' # tables)
      BY <1>2, <2>1, <3>2, PlayersChange DEF RefInv
    <3> QED BY <3>1, <3>2
  <2>2. CASE Give(h) /\ mem[h].player \in There /\ invites'[i].by = mem[h].player
    <3>1. CASE ~Erase(h)
      BY <2>2, <3>1, WhoStays
    <3>2. CASE Erase(h)
      BY <2>2, <3>2 DEF Give, Erase
    <3> QED BY <3>1, <3>2
  <2> QED BY <2>1, <2>2, InvitesChange
<1>4. passkey' \in Or(There')
  <2>1. CASE passkey' = passkey /\ ~Erase(h)
    BY <2>1, PlayersChange DEF RefInv
  <2>2. CASE Erase(h)
    <3>1. tables' # tables => passkey' = (IF passkey = mem[h].player THEN Nil ELSE passkey)
      BY <2>2 DEF Erase
    <3> QED BY <1>2, <2>2, <3>1, PlayersChange DEF RefInv
  <2>3. CASE Forget(h) /\ ~Erase(h)
    BY <2>3, PlayersChange DEF RefInv, Forget
  <2>4. CASE Store(h)
    <3>1. ~Erase(h) /\ passkey' \in {passkey, mem[h].player} /\ (passkey' = passkey \/ mem[h].player \in There)
      BY <2>4 DEF Store, Erase
    <3> QED BY <3>1, WhoStays DEF RefInv
  <2> QED BY <2>1, <2>2, <2>3, <2>4, Writers
<1>5. ASSUME NEW p \in There'  PROVE players'[p].via =< Len(invites')
  <2>1. CASE Join(h) /\ p = mem[h].player
    <3>1. players'[p].via = mem[h].invite
      BY <2>1, WhoStays
    <3>2. mem[h].invite \in Nat /\ mem[h].invite =< Len(invites)
      BY <1>1, <2>1 DEF TypeInv, Where, Join
    <3> QED BY <1>1, <3>1, <3>2
  <2>2. CASE ~(Join(h) /\ p = mem[h].player)
    <3>1. p \in There /\ players'[p].via = players[p].via
      BY <1>2, <2>2, PlayersChange DEF There
    <3> QED BY <1>1, <3>1 DEF RefInv
  <2> QED BY <2>1, <2>2
<1> QED BY <1>3, <1>4, <1>5

(* A handler goes on with whom it has, or begins with somebody who is      *)
(* there, unless it signs somebody up.                                     *)
LEMMA WhomItIsAbout ==
  ASSUME TypeInv, RefInv, NEW h \in Handlers, Step(h)
  PROVE  \/ mem'[h].player \in {mem[h].player, Nil} \cup There
         \/ /\ pc[h] = "idle" /\ pc'[h] \in {"code", "join"} /\ There' = There
            /\ mem'[h].player \in Players \ There
            /\ \A g \in InFlight : mem[g].player # mem'[h].player
<1>0. mem \in [Handlers -> Locals] /\ tickets \in Seq(Or(Ticket)) /\ Blank.player = Nil
  BY DEF TypeInv, TypeOK, Blank
<1>1. \/ mem'[h] = Blank
      \/ mem'[h] = mem[h]
      \/ Arrive(h) \/ SignUp(h) \/ Link(h) \/ Confirm(h) \/ AskRecovery(h) \/ Recover(h)
      \/ Authenticate(h) \/ Register(h)
  BY <1>0 DEF Step, SignedIn, SigningUp, Linking, Recovering, Passkeys, Lift, Allowance,
         Give, Ask, RevokeOthers, Forget, Erase, Code, Join, Redeem, Device,
         Adopt, Mail, Restore, Open, Challenge, Burn, Store, Goto, Finish
<1>2. CASE Arrive(h)
  <2>1. PICK n \in Alive : mem'[h].player = sessions[n].of
    BY <1>0, <1>2 DEF Arrive, Start, Blank
  <2> QED BY <2>1 DEF RefInv, Alive
<1>3. CASE SignUp(h)
  <2>1. PICK p \in Players \ (There \cup Founders), i \in 0..Len(invites) :
          /\ \A g \in InFlight : mem[g].player # p
          /\ Start(h, IF i > 0 THEN "code" ELSE "join", [Blank EXCEPT !.player = p, !.invite = i])
    BY <1>3 DEF SignUp
  <2>2. mem'[h].player = p /\ pc[h] = "idle" /\ pc'[h] \in {"code", "join"}
    BY <1>0, <2>1 DEF Start, Blank, TypeInv, TypeOK
  <2>3. There' = There
    BY <1>3 DEF SignUp, tables, There
  <2> QED BY <2>1, <2>2, <2>3
<1>4. CASE Link(h) \/ Confirm(h) \/ Recover(h)
  <2>1. PICK n \in DOMAIN tickets : tickets[n] # Nil /\ mem'[h].player = tickets[n].of
    <3>1. PICK n \in DOMAIN tickets, label \in Labels :
            /\ tickets[n] # Nil
            /\ Start(h, label, [Blank EXCEPT !.player = tickets[n].of, !.ticket = n])
      BY <1>4 DEF Link, Confirm, Recover, Fresh, Labels
    <3>2. mem'[h].player = tickets[n].of
      BY <1>0, <3>1 DEF Start, Blank
    <3> QED BY <3>1, <3>2
  <2> QED BY <2>1 DEF RefInv
<1>5. CASE AskRecovery(h)
  BY <1>0, <1>5 DEF AskRecovery, Rescued, Start, Blank
<1>6. CASE Authenticate(h)
  <2>1. mem'[h].player \in {Nil, passkey}
    BY <1>0, <1>6 DEF Authenticate, Start, Blank
  <2> QED BY <2>1 DEF RefInv
<1>7. CASE Register(h)
  BY <1>0, <1>7 DEF Register, Goto, Locals
<1> QED BY <1>0, <1>1, <1>2, <1>3, <1>4, <1>5, <1>6, <1>7

LEMMA NewlyStep ==
  ASSUME TypeInv, RefInv, NEW h \in Handlers, Step(h), NEW g \in Handlers
  PROVE  Newly(g)'
<1>0. /\ mem \in [Handlers -> Locals] /\ pc \in [Handlers -> Labels] /\ Nil \notin Players
      /\ There \subseteq Players
      /\ \A k \in Handlers : /\ pc[k] \in {"code", "join"} => mem[k].player \in Players
                             /\ pc[k] = "idle" => mem[k].player = Nil
  BY NilAssumption DEF TypeInv, TypeOK, Where, OfPlayer, There, Blank
<1>1. /\ \A k \in Handlers \ {h} : pc'[k] = pc[k] /\ mem'[k] = mem[k]
      /\ \A k \in Handlers : Newly(k)
  BY OthersStay DEF RefInv
<1>2. There' \subseteq There \/ (Join(h) /\ There' = There \cup {mem[h].player})
  BY PlayersChange
<1>3. SUFFICES ASSUME pc'[g] \in {"code", "join"}
               PROVE  mem'[g].player \notin There' /\ \A k \in Handlers \ {g} : mem'[k].player # mem'[g].player
  BY DEF Newly
<1>4. CASE g = h
  <2>1. CASE pc[h] = "idle"
    <3>1. mem[h].player = Nil
      BY <1>0, <2>1
    <3>2. CASE mem'[h].player \in {mem[h].player, Nil} \cup There
      <4>1. SignUp(h)
        BY <1>0, <1>3, <1>4, <2>1 DEF Step, SignedIn, SigningUp, Linking, Recovering, Passkeys, Arrive, Lift, Allowance,
         Give, Ask, RevokeOthers, Forget, Erase, Code, Join, Redeem, Link, Device, Confirm,
         Adopt, AskRecovery, Mail, Recover, Restore, Open, Authenticate, Register, Challenge, Burn,
         Store, Goto, Finish, Start
      <4>2. mem'[h].player \in Players \ There
        BY <1>0, <4>1 DEF SignUp, Start, Blank
      <4> QED BY <1>0, <3>1, <3>2, <4>2
    <3>3. CASE /\ There' = There
               /\ mem'[h].player \in Players \ There
               /\ \A k \in InFlight : mem[k].player # mem'[h].player
      BY <1>0, <1>1, <1>4, <3>3 DEF InFlight
    <3> QED BY <3>2, <3>3, WhomItIsAbout
  <2>2. CASE pc[h] # "idle"
    <3>1. Code(h) /\ pc'[h] = "join" /\ mem'[h] = mem[h]
      BY <1>0, <1>3, <1>4, <2>2 DEF Step, SignedIn, SigningUp, Linking, Recovering, Passkeys, Arrive, Lift, Allowance,
         Give, Ask, RevokeOthers, Forget, Erase, SignUp, Code, Join, Redeem, Link, Device, Confirm,
         Adopt, AskRecovery, Mail, Recover, Restore, Open, Authenticate, Register, Challenge, Burn,
         Store, Goto, Finish, Start
    <3>2. pc[h] = "code" /\ There' = There
      BY <3>1 DEF Code, tables, There
    <3> QED BY <1>1, <1>4, <3>1, <3>2 DEF Newly
  <2> QED BY <2>1, <2>2
<1>5. CASE g # h
  <2>1. pc[g] \in {"code", "join"} /\ mem'[g] = mem[g]
    BY <1>1, <1>3, <1>5
  <2>2. mem[g].player \notin There /\ (\A k \in Handlers \ {g} : mem[k].player # mem[g].player)
        /\ mem[g].player \in Players
    BY <1>0, <1>1, <2>1 DEF Newly
  <2>3. mem[g].player \notin There'
    BY <1>2, <1>5, <2>2
  <2>4. mem'[h].player # mem[g].player
    <3>1. g \in InFlight
      BY <2>1 DEF InFlight
    <3> QED BY <1>0, <1>5, <2>2, <3>1, WhomItIsAbout
  <2> QED BY <1>1, <1>5, <2>1, <2>2, <2>3, <2>4
<1> QED BY <1>4, <1>5

LEMMA References == Spec => []RefInv
<1>1. Init => RefInv
  <2> SUFFICES ASSUME Init PROVE RefInv
    OBVIOUS
  <2>1. PICK rescued \in Or(Founders) :
          players = [p \in Players |-> IF p \in Founders THEN Newcomer(0, p = rescued) ELSE Nil]
    BY DEF Init
  <2>2. /\ tickets = <<>> /\ invites = <<>> /\ passkey = Nil /\ pc = [h \in Handlers |-> "idle"]
    BY DEF Init
  <2>3. Len(tickets) = 0 /\ Len(invites) = 0 /\ DOMAIN tickets = {} /\ DOMAIN invites = {}
    BY <2>2
  <2>4. \A b \in BOOLEAN : Newcomer(0, b) \in Player /\ Newcomer(0, b).via = 0
    BY QuotaAssumption DEF Newcomer, Player
  <2>5. There = Founders /\ \A p \in There : players[p].via = 0
    BY <2>1, <2>4, PlayersAssumption, NilAssumption DEF There
  <2>6. \A n \in DOMAIN sessions : sessions[n].of \in There /\ sessions[n].via = 0
    <3>1. PICK order \in [1..Cardinality(Founders) -> Founders] :
            sessions = [n \in DOMAIN order |-> Opened(order[n], 0)]
      BY DEF Init
    <3> QED BY <2>5, <3>1 DEF Opened
  <2>7. \A h \in Handlers : Newly(h)
    BY <2>2 DEF Newly
  <2> QED BY <2>2, <2>3, <2>5, <2>6, <2>7 DEF RefInv
<1>2. TypeInv /\ RefInv /\ [Next]_vars => RefInv'
  <2> SUFFICES ASSUME TypeInv, RefInv, [Next]_vars PROVE RefInv'
    OBVIOUS
  <2>1. ASSUME NEW h \in Handlers, Step(h)  PROVE RefInv'
    <3>1. \A g \in Handlers : Newly(g)'
      BY <2>1, NewlyStep
    <3>2. \A n \in DOMAIN sessions' : sessions'[n] # Nil =>
            sessions'[n].of \in There' /\ sessions'[n].via =< Len(tickets')
      BY <2>1, RefsOfSessions
    <3>3. \A n \in DOMAIN tickets' : tickets'[n] # Nil => tickets'[n].of \in Or(There')
      BY <2>1, RefsOfTickets
    <3>4. /\ \A i \in DOMAIN invites' : invites'[i].by \in Or(There')
          /\ passkey' \in Or(There')
          /\ \A p \in There' : players'[p].via =< Len(invites')
      BY <2>1, RefsOfInvites
    <3> QED BY <3>1, <3>2, <3>3, <3>4 DEF RefInv
  <2>2. CASE World
    <3>1. /\ Len(tickets) =< Len(tickets') /\ Len(invites) =< Len(invites')
          /\ Len(tickets) \in Nat /\ Len(invites) \in Nat /\ Len(tickets') \in Nat /\ Len(invites') \in Nat
          /\ \A n \in DOMAIN sessions : sessions[n] # Nil => sessions[n].via \in Nat
          /\ \A p \in There : players[p].via \in Nat
      BY <2>2, WorldTypes, NilAssumption DEF TypeInv, TypeOK, There, Player, Session
    <3>2. /\ UNCHANGED <<sessions, passkey, pc, mem>> /\ There' = There
          /\ \A p \in There : players'[p].via = players[p].via
      BY <2>2, WorldChange
    <3>3. \A n \in DOMAIN sessions' : sessions'[n] # Nil =>
            sessions'[n].of \in There' /\ sessions'[n].via =< Len(tickets')
      BY <3>1, <3>2 DEF RefInv
    <3>4. \A n \in DOMAIN tickets' : tickets'[n] # Nil => tickets'[n].of \in Or(There')
      BY <2>2, <3>2, WorldChange DEF RefInv
    <3>5. \A i \in DOMAIN invites' : invites'[i].by \in Or(There')
      BY <2>2, <3>2, WorldChange DEF RefInv
    <3>6. \A p \in There' : players'[p].via =< Len(invites')
      BY <3>1, <3>2 DEF RefInv
    <3>7. \A h \in Handlers : Newly(h)'
      BY <3>2 DEF RefInv, Newly
    <3> QED BY <3>2, <3>3, <3>4, <3>5, <3>6, <3>7 DEF RefInv
  <2>3. CASE UNCHANGED vars
    BY <2>3 DEF vars, RefInv, There, Newly
  <2> QED BY <2>1, <2>2, <2>3, StepOrWorld
<1> QED BY <1>1, <1>2, TypeInvariant, PTL DEF Spec

-----------------------------------------------------------------------------
(* Calls that do not overlap.                                              *)

AloneInv == ~overlap => \A g, h \in InFlight : g = h

(* A handler that begins is counted as a call; one that goes on is not.    *)
LEMMA Begins ==
  ASSUME NEW h \in Handlers, Step(h)
  PROVE  \/ pc[h] = "idle" /\ Call
         \/ pc[h] # "idle" /\ UNCHANGED <<calls, overlap>>
  BY DEF Step, SignedIn, SigningUp, Linking, Recovering, Passkeys, Arrive, Lift, Allowance,
         Give, Ask, RevokeOthers, Forget, Erase, SignUp, Code, Join, Redeem, Link, Device, Confirm,
         Adopt, AskRecovery, Mail, Recover, Restore, Open, Authenticate, Register, Challenge, Burn,
         Store, Goto, Finish, Start

(* Without an overlap no other handler is under way, before and after.     *)
LEMMA Undisturbed ==
  ASSUME TypeInv, AloneInv, NEW h \in Handlers, Step(h), ~overlap'
  PROVE  ~overlap /\ \A g \in Handlers \ {h} : pc[g] = "idle" /\ pc'[g] = "idle"
<1>1. CASE pc[h] = "idle" /\ Call
  <2>1. ~overlap /\ InFlight = {}
    BY <1>1 DEF Call
  <2> QED BY <2>1, OthersStay DEF InFlight
<1>2. CASE pc[h] # "idle" /\ UNCHANGED <<calls, overlap>>
  <2>1. ~overlap /\ h \in InFlight
    BY <1>2 DEF InFlight
  <2> QED BY <2>1, OthersStay DEF InFlight, AloneInv
<1> QED BY <1>1, <1>2, Begins

LEMMA OneAtATime == Spec => []AloneInv
<1>1. Init => AloneInv
  BY DEF Init, AloneInv, InFlight
<1>2. TypeInv /\ AloneInv /\ [Next]_vars => AloneInv'
  <2> SUFFICES ASSUME TypeInv, AloneInv, [Next]_vars, ~overlap'
               PROVE  \A g, k \in InFlight' : g = k
    BY DEF AloneInv
  <2>1. ASSUME NEW h \in Handlers, Step(h)  PROVE \A g, k \in InFlight' : g = k
    BY <2>1, Undisturbed DEF InFlight
  <2>2. CASE World
    <3>1. UNCHANGED pc /\ (UNCHANGED <<calls, overlap>> \/ Call)
      BY <2>2, WorldChange
    <3>2. InFlight' = InFlight
      BY <3>1 DEF InFlight
    <3> QED BY <3>1, <3>2 DEF AloneInv, Call
  <2>3. CASE UNCHANGED vars
    BY <2>3 DEF vars, AloneInv, InFlight
  <2> QED BY <2>1, <2>2, <2>3, StepOrWorld
<1> QED BY <1>1, <1>2, TypeInvariant, PTL DEF Spec

-----------------------------------------------------------------------------
(* Invitations.                                                            *)

Came(i)      == {p \in There : players[p].via = i}
Redeeming(i) == {h \in Handlers : pc[h] = "redeem" /\ mem[h].invite = i}

(* What a handler has read of an allowance or an invitation is still so    *)
(* when it draws on it, if nobody else is under way.                       *)
Covered(h) ==
  /\ pc[h] = "give" /\ mem[h].player \in There => players[mem[h].player].left > 0
  /\ pc[h] \in {"join", "redeem"} /\ mem[h].invite # 0 =>
       invites[mem[h].invite].uses < invites[mem[h].invite].max

InviteInv == InvitesAddUp /\ (~overlap => \A h \in Handlers : Covered(h))

LEMMA InviteTypes ==
  ASSUME TypeInv
  PROVE  /\ \A p \in There : p \in Players /\ players[p].left \in Int /\ players[p].via \in Nat
         /\ \A i \in DOMAIN invites : i \in Nat /\ i # 0 /\ invites[i].uses \in Nat /\ invites[i].max \in Nat
         /\ DOMAIN invites = 1..Len(invites) /\ Len(invites) \in Nat
         /\ Nil \notin There
         /\ \A p : IsFiniteSet({i \in DOMAIN invites : invites[i].by = p}) /\ Given(p) \in Nat
         /\ \A i : IsFiniteSet(Came(i)) /\ Cardinality(Came(i)) \in Nat
         /\ \A i : IsFiniteSet(Redeeming(i)) /\ Cardinality(Redeeming(i)) \in Nat
<1>1. \A p \in There : p \in Players /\ players[p].left \in Int /\ players[p].via \in Nat
  BY NilAssumption DEF TypeInv, TypeOK, There, Player
<1>2. invites \in Seq(Invite)
  BY DEF TypeInv, TypeOK
<1>3. DOMAIN invites = 1..Len(invites) /\ Len(invites) \in Nat
  BY <1>2
<1>4. \A i \in DOMAIN invites : i \in Nat /\ i # 0 /\ invites[i].uses \in Nat /\ invites[i].max \in Nat
  <2>1. \A i \in DOMAIN invites : invites[i] \in Invite
    BY <1>2
  <2>2. \A i \in DOMAIN invites : i \in Nat /\ i # 0
    BY <1>3
  <2> QED BY <2>1, <2>2 DEF Invite
<1>5. IsFiniteSet(DOMAIN invites)
  BY <1>3, FS_Interval
<1>6. ASSUME NEW p  PROVE IsFiniteSet({i \in DOMAIN invites : invites[i].by = p}) /\ Given(p) \in Nat
  <2>1. {i \in DOMAIN invites : invites[i].by = p} \subseteq DOMAIN invites
    OBVIOUS
  <2> QED BY <1>5, <2>1, FS_Subset, FS_CardinalityType DEF Given
<1>7. ASSUME NEW i  PROVE /\ IsFiniteSet(Came(i)) /\ Cardinality(Came(i)) \in Nat
                          /\ IsFiniteSet(Redeeming(i)) /\ Cardinality(Redeeming(i)) \in Nat
  <2>1. Came(i) \subseteq Players /\ Redeeming(i) \subseteq Handlers
    BY DEF Came, Redeeming, There
  <2> QED BY <2>1, PlayersAssumption, HandlersAssumption, FS_Subset, FS_CardinalityType
<1> QED BY <1>1, <1>3, <1>4, <1>6, <1>7, NilAssumption DEF There

(* What everybody gave and has left. *)
LEMMA GivenStep ==
  ASSUME TypeInv, RefInv, InvitesAddUp, NEW h \in Handlers, Step(h), NEW p \in There'
  PROVE  players'[p].left + Given(p)' = Quota
<1>0. DOMAIN invites \subseteq DOMAIN invites' /\ TypeInv'
  BY InvitesStep, StepTypes
<1> DEFINE G == {i \in DOMAIN invites : invites[i].by = p}
           N == {i \in DOMAIN invites' : invites'[i].by = p}
<1>1. Given(p) = Cardinality(G) /\ Given(p)' = Cardinality(N)
  BY DEF Given
<1>2. \A i \in DOMAIN invites' :
        \/ i \in DOMAIN invites /\ invites'[i].by = invites[i].by
        \/ /\ i = Len(invites) + 1 /\ i \notin DOMAIN invites
           /\ Give(h) /\ mem[h].player \in There /\ invites'[i].by = mem[h].player
  BY InvitesChange
<1>3. CASE Join(h) /\ p = mem[h].player
  <2>1. p \notin There /\ p # Nil
    BY <1>3, NilAssumption DEF RefInv, Newly, Join, There
  <2>2. ~Give(h)
    BY <1>3 DEF Join, Give
  <2>3. N = {}
    BY <1>2, <2>1, <2>2 DEF RefInv
  <2>4. Given(p)' = 0
    BY <1>1, <2>3, FS_EmptySet
  <2> QED BY <1>3, <2>4, WhoStays, QuotaAssumption
<1>4. CASE ~(Join(h) /\ p = mem[h].player)
  <2>1. p \in There
    <3>1. Erase(h) \/ ~Erase(h)
      OBVIOUS
    <3> QED BY <1>4, PlayersChange
  <2>2. players[p].left + Given(p) = Quota
    BY <2>1 DEF InvitesAddUp
  <2>3. CASE Give(h) /\ p = mem[h].player
    <3>1. players'[p].left = players[p].left - 1
      BY <2>1, <2>3, PlayersChange
    <3>2. invites' = Append(invites, [by |-> p, uses |-> 0, max |-> 1, live |-> TRUE])
      BY <2>1, <2>3 DEF Give, There
    <3>3. [by |-> p, uses |-> 0, max |-> 1, live |-> TRUE] \in Invite /\ invites \in Seq(Invite)
      BY <2>1 DEF Invite, There, TypeInv, TypeOK
    <3>4. Len(invites') \in DOMAIN invites' /\ Len(invites') = Len(invites) + 1 /\ Len(invites') \notin DOMAIN invites
      BY <3>2, <3>3, AppendSeq
    <3>5. N = G \cup {Len(invites')}
      <4>1. invites'[Len(invites')].by = p
        BY <1>2, <2>3, <3>4
      <4> QED BY <1>0, <1>2, <3>4, <4>1
    <3>6. Len(invites') \notin G
      BY <3>4
    <3>7. IsFiniteSet(G)
      BY InviteTypes
    <3>8. Cardinality(N) = Cardinality(G) + 1
      BY <3>5, <3>6, <3>7, FS_AddElement
    <3>9. players[p].left \in Int /\ Given(p) \in Nat
      BY <2>1, InviteTypes
    <3> QED BY <1>1, <2>2, <3>1, <3>8, <3>9, QuotaAssumption
  <2>4. CASE ~(Give(h) /\ p = mem[h].player)
    <3>1. N = G
      BY <1>0, <1>2, <2>4
    <3>2. players'[p].left = players[p].left
      <4>1. CASE Join(h)
        <5>1. p \in Players \ {mem[h].player}
          BY <1>4, <2>1, <4>1 DEF There
        <5> QED BY <4>1, <5>1, PlayersChange
      <4>2. CASE Erase(h)
        BY <4>2, PlayersChange
      <4>3. CASE ~Join(h) /\ ~Erase(h)
        BY <2>1, <2>4, <4>3, PlayersChange
      <4> QED BY <4>1, <4>2, <4>3
    <3> QED BY <1>1, <2>2, <3>1, <3>2
  <2> QED BY <2>3, <2>4
<1> QED BY <1>3, <1>4

(* Which handler redeems next, and which invitation.                       *)
LEMMA RedeemingStep ==
  ASSUME TypeInv, NEW h \in Handlers, Step(h), NEW i
  PROVE  /\ Join(h) /\ mem[h].invite = i /\ i # 0 =>
              Redeeming(i)' = Redeeming(i) \cup {h} /\ h \notin Redeeming(i)
         /\ Redeem(h) /\ mem[h].invite = i =>
              Redeeming(i)' = Redeeming(i) \ {h} /\ h \in Redeeming(i)
         /\ ~(Join(h) /\ mem[h].invite = i /\ i # 0) /\ ~(Redeem(h) /\ mem[h].invite = i) =>
              Redeeming(i)' = Redeeming(i)
<1>0. pc \in [Handlers -> Labels] /\ mem \in [Handlers -> Locals]
  BY DEF TypeInv, TypeOK
<1>1. \A g \in Handlers \ {h} : pc'[g] = pc[g] /\ mem'[g] = mem[g]
  BY OthersStay
<1>2. pc[h] = "redeem" <=> Redeem(h)
  BY DEF Step, SignedIn, SigningUp, Linking, Recovering, Passkeys, Arrive, Lift, Allowance,
         Give, Ask, RevokeOthers, Forget, Erase, SignUp, Code, Join, Redeem, Link, Device, Confirm,
         Adopt, AskRecovery, Mail, Recover, Restore, Open, Authenticate, Register, Challenge, Burn,
         Store, Start
<1>3. pc'[h] = "redeem" <=> Join(h) /\ mem[h].invite # 0
  BY <1>0 DEF Step, SignedIn, SigningUp, Linking, Recovering, Passkeys, Arrive, Lift, Allowance,
         Give, Ask, RevokeOthers, Forget, Erase, SignUp, Code, Join, Redeem, Link, Device, Confirm,
         Adopt, AskRecovery, Mail, Recover, Restore, Open, Authenticate, Register, Challenge, Burn,
         Store, Goto, Finish, Start
<1>4. Join(h) /\ mem[h].invite # 0 => mem'[h] = mem[h] /\ pc[h] # "redeem"
  BY <1>0 DEF Join, Goto
<1>5. CASE Join(h) /\ mem[h].invite # 0
  <2>1. ~Redeem(h)
    BY <1>2, <1>4, <1>5
  <2>2. mem[h].invite = i => Redeeming(i)' = Redeeming(i) \cup {h} /\ h \notin Redeeming(i)
    BY <1>1, <1>3, <1>4, <1>5 DEF Redeeming
  <2>3. mem[h].invite # i => Redeeming(i)' = Redeeming(i)
    BY <1>1, <1>3, <1>4, <1>5 DEF Redeeming
  <2> QED BY <1>5, <2>1, <2>2, <2>3
<1>6. CASE Redeem(h)
  <2>1. pc'[h] # "redeem" /\ pc[h] = "redeem" /\ ~Join(h)
    BY <1>0, <1>2, <1>6 DEF Join, Redeem, Goto, Finish
  <2>2. mem[h].invite = i => Redeeming(i)' = Redeeming(i) \ {h} /\ h \in Redeeming(i)
    BY <1>1, <2>1 DEF Redeeming
  <2>3. mem[h].invite # i => Redeeming(i)' = Redeeming(i)
    BY <1>1, <2>1 DEF Redeeming
  <2> QED BY <1>6, <2>1, <2>2, <2>3
<1>7. CASE ~(Join(h) /\ mem[h].invite # 0) /\ ~Redeem(h)
  BY <1>1, <1>2, <1>3, <1>7 DEF Redeeming
<1> QED BY <1>5, <1>6, <1>7

(* Who came by an invitation. *)
LEMMA CameStep ==
  ASSUME TypeInv, RefInv, InvitesAddUp, NEW h \in Handlers, Step(h), NEW i \in DOMAIN invites'
  PROVE  Cardinality(Came(i)') =< invites'[i].uses + Cardinality(Redeeming(i)')
<1>0. TypeInv'
  BY StepTypes
<1>1. /\ IsFiniteSet(Came(i)) /\ Cardinality(Came(i)) \in Nat
      /\ IsFiniteSet(Redeeming(i)) /\ Cardinality(Redeeming(i)) \in Nat
      /\ IsFiniteSet(Came(i)') /\ Cardinality(Came(i)') \in Nat
      /\ Cardinality(Redeeming(i)') \in Nat
      /\ invites'[i].uses \in Nat
  <2>1. /\ IsFiniteSet(Came(i)) /\ Cardinality(Came(i)) \in Nat
        /\ IsFiniteSet(Redeeming(i)) /\ Cardinality(Redeeming(i)) \in Nat
    BY InviteTypes
  <2>2. /\ IsFiniteSet(Came(i)') /\ Cardinality(Came(i)') \in Nat
        /\ Cardinality(Redeeming(i)') \in Nat
    <3>1. Came(i)' \subseteq Players /\ Redeeming(i)' \subseteq Handlers
      BY DEF Came, Redeeming, There
    <3> QED BY <3>1, PlayersAssumption, HandlersAssumption, FS_Subset, FS_CardinalityType
  <2>3. invites'[i].uses \in Nat
    <3>1. invites' \in Seq(Invite)
      BY InvitesStep
    <3>2. invites'[i] \in Invite
      BY <3>1
    <3> QED BY <3>2 DEF Invite
  <2> QED BY <2>1, <2>2, <2>3
<1>2. Join(h) \/ Erase(h) \/ Came(i)' = Came(i)
  BY PlayersChange DEF Came
<1>3. Erase(h) => Came(i)' \subseteq Came(i)
  BY PlayersChange DEF Came
<1>4. Join(h) => Came(i)' = IF mem[h].invite = i THEN Came(i) \cup {mem[h].player} ELSE Came(i)
  <2> SUFFICES ASSUME Join(h) PROVE Came(i)' = IF mem[h].invite = i THEN Came(i) \cup {mem[h].player} ELSE Came(i)
    OBVIOUS
  <2>1. mem[h].player \notin There
    BY DEF RefInv, Newly, Join
  <2>2. There' = There \cup {mem[h].player} /\ \A q \in There : players'[q] = players[q]
    <3>1. \A q \in There : q \in Players \ {mem[h].player}
      BY <2>1 DEF There
    <3> QED BY <3>1, PlayersChange
  <2>3. players'[mem[h].player].via = mem[h].invite
    BY WhoStays
  <2> QED BY <2>1, <2>2, <2>3 DEF Came
<1>5. CASE i \in DOMAIN invites
  <2>1. Cardinality(Came(i)) =< invites[i].uses + Cardinality(Redeeming(i)) /\ i # 0 /\ invites[i].uses \in Nat
    BY <1>5, InviteTypes DEF InvitesAddUp, Came, Redeeming
  <2>2. invites'[i].uses = (IF Redeem(h) /\ i = mem[h].invite THEN invites[i].uses + 1 ELSE invites[i].uses)
    BY <1>5, InvitesChange
  <2>3. CASE Join(h) /\ mem[h].invite = i
    <3>1. Redeeming(i)' = Redeeming(i) \cup {h} /\ h \notin Redeeming(i) /\ ~Redeem(h)
      BY <2>1, <2>3, RedeemingStep DEF Join, Redeem
    <3>2. Cardinality(Redeeming(i)') = Cardinality(Redeeming(i)) + 1
      BY <1>1, <3>1, FS_AddElement
    <3>3. Cardinality(Came(i)') =< Cardinality(Came(i)) + 1
      <4>1. Came(i)' = Came(i) \cup {mem[h].player}
        BY <1>4, <2>3
      <4>2. CASE mem[h].player \in Came(i)
        <5>1. Came(i)' = Came(i)
          BY <4>1, <4>2
        <5> QED BY <1>1, <5>1
      <4>3. CASE mem[h].player \notin Came(i)
        <5>1. Cardinality(Came(i) \cup {mem[h].player}) = Cardinality(Came(i)) + 1
          BY <1>1, <4>3, FS_AddElement
        <5> QED BY <1>1, <4>1, <5>1
      <4> QED BY <4>2, <4>3
    <3> QED BY <1>1, <2>1, <2>2, <3>1, <3>2, <3>3
  <2>4. CASE Redeem(h) /\ mem[h].invite = i
    <3>1. Redeeming(i)' = Redeeming(i) \ {h} /\ h \in Redeeming(i)
      BY <2>4, RedeemingStep
    <3>2. Cardinality(Redeeming(i)') = Cardinality(Redeeming(i)) - 1
      BY <1>1, <3>1, FS_RemoveElement
    <3>3. Came(i)' = Came(i)
      BY <1>2, <2>4 DEF Join, Erase, Redeem
    <3> QED BY <1>1, <2>1, <2>2, <2>4, <3>2, <3>3
  <2>5. CASE ~(Join(h) /\ mem[h].invite = i) /\ ~(Redeem(h) /\ mem[h].invite = i)
    <3>1. Redeeming(i)' = Redeeming(i) /\ invites'[i].uses = invites[i].uses
      BY <2>2, <2>5, RedeemingStep
    <3>2. Came(i)' \subseteq Came(i)
      BY <1>2, <1>3, <1>4, <2>5
    <3>3. Cardinality(Came(i)') =< Cardinality(Came(i))
      BY <1>1, <3>2, FS_Subset
    <3> QED BY <1>1, <2>1, <3>1, <3>3
  <2> QED BY <2>3, <2>4, <2>5
<1>6. CASE i \notin DOMAIN invites
  <2>1. i = Len(invites) + 1 /\ Give(h) /\ Len(invites) \in Nat
    BY <1>6, InvitesChange, InviteTypes
  <2>2. ~Join(h) /\ ~Erase(h)
    <3>1. ~Join(h)
      BY <2>1 DEF Give, Join
    <3>2. CASE Erase(h)
      BY <1>6, <3>2 DEF Erase, tables
    <3> QED BY <3>1, <3>2
  <2>3. Came(i)' = Came(i)
    BY <1>2, <2>2
  <2>4. \A p \in There : players[p].via =< Len(invites) /\ players[p].via \in Nat
    BY InviteTypes DEF RefInv
  <2>5. Came(i) = {}
    BY <2>1, <2>4 DEF Came
  <2>6. Cardinality(Came(i)') = 0
    BY <2>3, <2>5, FS_EmptySet
  <2> QED BY <1>1, <2>6
<1> QED BY <1>5, <1>6

(* Alone, a handler draws on no more than what it has read.                *)
LEMMA CoveredStep ==
  ASSUME TypeInv, RefInv, AloneInv, InviteInv, NEW h \in Handlers, Step(h), ~overlap'
  PROVE  /\ \A g \in Handlers : Covered(g)'
         /\ \A p \in There' : players'[p].left >= 0
         /\ \A i \in DOMAIN invites' : invites'[i].uses =< invites'[i].max
<1>0. ~overlap /\ (\A g \in Handlers \ {h} : pc[g] = "idle" /\ pc'[g] = "idle")
  BY Undisturbed
<1>1. /\ Covered(h)
      /\ \A p \in There : players[p].left >= 0 /\ players[p].left \in Int
      /\ \A i \in DOMAIN invites :
           /\ invites[i].uses =< invites[i].max
           /\ invites[i].uses \in Nat /\ invites[i].max \in Nat
  BY <1>0, InviteTypes DEF InviteInv, InvitesAddUp
<1>2. pc \in [Handlers -> Labels] /\ mem \in [Handlers -> Locals]
  BY DEF TypeInv, TypeOK
<1>3. Covered(h)'
  <2>1. \/ pc'[h] \notin {"give", "join", "redeem"}
        \/ SignUp(h) \/ Allowance(h) \/ Code(h) \/ Join(h)
    BY <1>2 DEF Step, SignedIn, SigningUp, Linking, Recovering, Passkeys, Arrive, Lift,
         Give, Ask, RevokeOthers, Forget, Erase, Redeem, Link, Device, Confirm,
         Adopt, AskRecovery, Mail, Recover, Restore, Open, Authenticate, Register, Challenge, Burn,
         Store, Goto, Finish, Start
  <2>2. CASE pc'[h] \notin {"give", "join", "redeem"}
    BY <2>2 DEF Covered
  <2>3. CASE SignUp(h) /\ pc'[h] \in {"give", "join", "redeem"}
    <3>1. PICK p \in Players, i \in 0..Len(invites) :
            Start(h, IF i > 0 THEN "code" ELSE "join", [Blank EXCEPT !.player = p, !.invite = i])
      BY <2>3 DEF SignUp
    <3>2. /\ pc'[h] = (IF i > 0 THEN "code" ELSE "join")
          /\ mem'[h] = [player |-> p, session |-> 0, ticket |-> 0, invite |-> i]
      BY <1>2, <3>1 DEF Start, Blank
    <3>3. pc'[h] = "join" /\ mem'[h].invite = 0
      BY <2>3, <3>2, InviteTypes
    <3> QED BY <3>3 DEF Covered
  <2>4. CASE Allowance(h) /\ pc'[h] \in {"give", "join", "redeem"}
    <3>1. /\ players' = players /\ mem'[h] = mem[h] /\ pc'[h] = "give"
          /\ players[mem[h].player] # Nil /\ ~(players[mem[h].player].left =< 0)
      BY <1>2, <2>4 DEF Allowance, Goto, Finish, tables
    <3> QED BY <1>1, <3>1 DEF Covered, There
  <2>5. CASE Code(h) /\ pc'[h] \in {"give", "join", "redeem"}
    <3>1. /\ invites' = invites /\ mem'[h] = mem[h] /\ pc'[h] = "join"
          /\ invites[mem[h].invite].uses < invites[mem[h].invite].max
      BY <1>2, <2>5 DEF Code, Goto, Finish, tables
    <3> QED BY <3>1 DEF Covered
  <2>6. CASE Join(h) /\ pc'[h] \in {"give", "join", "redeem"}
    <3>1. invites' = invites /\ mem'[h] = mem[h] /\ pc'[h] = "redeem" /\ pc[h] = "join"
      BY <1>2, <2>6 DEF Join, Goto, Finish
    <3> QED BY <1>1, <3>1 DEF Covered
  <2> QED BY <2>1, <2>2, <2>3, <2>4, <2>5, <2>6
<1>4. \A g \in Handlers : Covered(g)'
  BY <1>0, <1>3 DEF Covered
<1>5. ASSUME NEW p \in There'  PROVE players'[p].left >= 0
  <2>1. CASE Join(h) /\ p = mem[h].player
    BY <2>1, WhoStays, QuotaAssumption
  <2>2. CASE Join(h) /\ p # mem[h].player
    <3>1. p \in There /\ p \in Players \ {mem[h].player}
      BY <2>2, PlayersChange DEF There
    <3>2. players'[p] = players[p]
      BY <2>2, <3>1, PlayersChange
    <3> QED BY <1>1, <3>1, <3>2
  <2>3. CASE Erase(h)
    <3>1. p \in There /\ players'[p] = players[p]
      BY <2>3, PlayersChange
    <3> QED BY <1>1, <3>1
  <2>4. CASE ~Join(h) /\ ~Erase(h)
    <3>1. p \in There
      BY <2>4, PlayersChange
    <3>2. players'[p].left = players[p].left \/ (Give(h) /\ p = mem[h].player)
      BY <2>4, <3>1, PlayersChange
    <3>3. CASE Give(h) /\ p = mem[h].player
      <4>1. players'[p].left = players[p].left - 1
        BY <3>1, <3>3, PlayersChange
      <4>2. players[p].left > 0
        BY <1>1, <3>1, <3>3 DEF Covered, Give
      <4> QED BY <1>1, <3>1, <4>1, <4>2
    <3> QED BY <1>1, <3>1, <3>2, <3>3
  <2> QED BY <2>1, <2>2, <2>3, <2>4
<1>6. ASSUME NEW i \in DOMAIN invites'  PROVE invites'[i].uses =< invites'[i].max
  <2>1. CASE i \in DOMAIN invites
    <3>1. /\ invites'[i].max = invites[i].max
          /\ invites'[i].uses = (IF Redeem(h) /\ i = mem[h].invite THEN invites[i].uses + 1
                                                                   ELSE invites[i].uses)
      BY <2>1, InvitesChange
    <3>2. i # 0
      BY <2>1, InviteTypes
    <3>3. Redeem(h) /\ i = mem[h].invite => invites[i].uses < invites[i].max
      BY <1>1, <3>2 DEF Covered, Redeem
    <3> QED BY <1>1, <2>1, <3>1, <3>3
  <2>2. CASE i \notin DOMAIN invites
    BY <2>2, InvitesChange
  <2> QED BY <2>1, <2>2
<1> QED BY <1>4, <1>5, <1>6

LEMMA InviteWorld ==
  ASSUME TypeInv, RefInv, InviteInv, World
  PROVE  InviteInv'
<1>1. /\ UNCHANGED <<pc, mem>> /\ There' = There
      /\ \A p \in There : players'[p].via = players[p].via /\ players'[p].left = players[p].left
      /\ overlap' \in BOOLEAN /\ (~overlap' => ~overlap)
  BY WorldChange, WorldTypes DEF Call, TypeInv, TypeOK
<1>2. DOMAIN invites \subseteq DOMAIN invites'
  <2>1. Len(invites) =< Len(invites') /\ invites' \in Seq(Invite) /\ invites \in Seq(Invite)
    BY WorldTypes DEF TypeInv, TypeOK
  <2> QED BY <2>1
<1>3. \A i \in DOMAIN invites' :
        \/ /\ i \in DOMAIN invites /\ invites'[i].by = invites[i].by
           /\ invites'[i].max = invites[i].max /\ invites'[i].uses = invites[i].uses
        \/ /\ i = Len(invites) + 1 /\ i \notin DOMAIN invites
           /\ invites'[i].by = Nil /\ invites'[i].uses = 0 /\ invites'[i].max \in 1..2
  BY WorldChange
<1>4. ASSUME NEW p \in There  PROVE Given(p)' = Given(p)
  <2>1. p # Nil
    BY InviteTypes
  <2>2. {i \in DOMAIN invites' : invites'[i].by = p} = {i \in DOMAIN invites : invites[i].by = p}
    BY <1>2, <1>3, <2>1
  <2> QED BY <2>2 DEF Given
<1>5. \A i : Came(i)' = Came(i) /\ Redeeming(i)' = Redeeming(i)
  BY <1>1 DEF Came, Redeeming
<1>6. ASSUME NEW i \in DOMAIN invites'
      PROVE  /\ Cardinality(Came(i)') =< invites'[i].uses + Cardinality(Redeeming(i)')
             /\ ~overlap' => invites'[i].uses =< invites'[i].max
  <2>1. CASE i \in DOMAIN invites
    <3>1. /\ Cardinality(Came(i)) =< invites[i].uses + Cardinality(Redeeming(i))
          /\ ~overlap => invites[i].uses =< invites[i].max
      BY <2>1 DEF InviteInv, InvitesAddUp, Came, Redeeming
    <3>2. invites'[i].max = invites[i].max /\ invites'[i].uses = invites[i].uses
      BY <1>3, <2>1
    <3> QED BY <1>1, <1>5, <3>1, <3>2
  <2>2. CASE i \notin DOMAIN invites
    <3>1. i = Len(invites) + 1 /\ invites'[i].uses = 0 /\ invites'[i].max \in 1..2
      BY <1>3, <2>2
    <3>2. \A p \in There : players[p].via =< Len(invites) /\ players[p].via \in Nat
      BY InviteTypes DEF RefInv
    <3>3. Came(i) = {}
      BY <3>1, <3>2, InviteTypes DEF Came
    <3>4. Cardinality(Came(i)') = 0 /\ Cardinality(Redeeming(i)') \in Nat
      BY <1>5, <3>3, FS_EmptySet, InviteTypes
    <3> QED BY <3>1, <3>4
  <2> QED BY <2>1, <2>2
<1>7. ASSUME ~overlap', NEW g \in Handlers  PROVE Covered(g)'
  <2>1. Covered(g)
    BY <1>1, <1>7 DEF InviteInv
  <2>2. pc[g] \in {"join", "redeem"} /\ mem[g].invite # 0 => mem[g].invite \in DOMAIN invites
    BY InviteTypes DEF TypeInv, Where
  <2> QED BY <1>1, <1>2, <1>3, <2>1, <2>2 DEF Covered
<1>8. InvitesAddUp'
  <2>1. ASSUME NEW p \in There
        PROVE  players'[p].left + Given(p)' = Quota /\ (~overlap' => players'[p].left >= 0)
    BY <1>1, <1>4 DEF InviteInv, InvitesAddUp
  <2> QED BY <1>1, <1>6, <2>1 DEF InvitesAddUp, Came, Redeeming
<1> QED BY <1>7, <1>8 DEF InviteInv

LEMMA InviteInit == Init => InviteInv
<1> SUFFICES ASSUME Init PROVE InviteInv
  OBVIOUS
<1>1. invites = <<>> /\ (\A h \in Handlers : pc[h] = "idle")
  BY DEF Init
<1>2. \A h \in Handlers : Covered(h)
  BY <1>1 DEF Covered
<1>3. DOMAIN invites = {}
  BY <1>1
<1>4. ASSUME NEW p \in There  PROVE players[p].left = Quota /\ Given(p) = 0
  <2>1. {i \in DOMAIN invites : invites[i].by = p} = {}
    BY <1>3
  <2>2. Given(p) = 0
    BY <2>1, FS_EmptySet DEF Given
  <2> QED BY <2>2 DEF There, Init, Newcomer
<1> QED BY <1>2, <1>3, <1>4, QuotaAssumption DEF InviteInv, InvitesAddUp

(* Nobody gives more invitations than the allowance paid for, and no       *)
(* account comes by an invitation that is not, or is about to be, marked   *)
(* used, whatever calls overlap and whoever was erased; as long as none    *)
(* overlap, no allowance and no invitation is overdrawn.                   *)
THEOREM InvitationsAddUp == Spec => []InvitesAddUp
<1>1. TypeInv /\ TypeInv' /\ RefInv /\ AloneInv /\ InviteInv /\ [Next]_vars => InviteInv'
  <2> SUFFICES ASSUME TypeInv, TypeInv', RefInv, AloneInv, InviteInv, [Next]_vars  PROVE InviteInv'
    OBVIOUS
  <2>1. ASSUME NEW h \in Handlers, Step(h)  PROVE InviteInv'
    <3>1. \A p \in There' : players'[p].left + Given(p)' = Quota
      BY <2>1, GivenStep DEF InviteInv
    <3>2. \A i \in DOMAIN invites' : Cardinality(Came(i)') =< invites'[i].uses + Cardinality(Redeeming(i)')
      BY <2>1, CameStep DEF InviteInv
    <3>3. ~overlap' => /\ \A g \in Handlers : Covered(g)'
                       /\ \A p \in There' : players'[p].left >= 0
                       /\ \A i \in DOMAIN invites' : invites'[i].uses =< invites'[i].max
      BY <2>1, CoveredStep
    <3> QED BY <3>1, <3>2, <3>3 DEF InviteInv, InvitesAddUp, Came, Redeeming
  <2>2. CASE World
    BY <2>2, InviteWorld
  <2>3. CASE UNCHANGED vars
    BY <2>3 DEF vars, InviteInv, InvitesAddUp, Covered, There, Given
  <2> QED BY <2>1, <2>2, <2>3, StepOrWorld
<1>2. InviteInv => InvitesAddUp
  BY DEF InviteInv
<1> QED BY <1>1, <1>2, InviteInit, TypeInvariant, References, OneAtATime, PTL DEF Spec

-----------------------------------------------------------------------------
(* Codes, links and challenges.                                            *)

Via(n)     == {s \in DOMAIN sessions : sessions[s] # Nil /\ sessions[s].via = n}
AliveOf(p) == {s \in Alive : sessions[s].of = p}

SignIns == {"link", "recover", "authenticate"}

(* What a ticket was read for, by the statement that it leads to.          *)
ReadFor(h) ==
  CASE pc[h] = "device"  -> {"link"}
    [] pc[h] = "restore" -> {"recover"}
    [] pc[h] = "burn"    -> {IF mem[h].session = 0 THEN "authenticate" ELSE "register"}
    [] pc[h] = "open"    -> {"recover", "authenticate"}

(* What a handler has read of a ticket is still so when it uses it, and    *)
(* between the batch that recovers an account and the session that follows *)
(* nobody is signed in.                                                    *)
Holds(h) ==
  LET n == mem[h].ticket
      p == mem[h].player
  IN
  pc[h] \in {"device", "restore", "burn", "open"} =>
    /\ Via(n) = {}
    /\ tickets[n] # Nil =>
         /\ tickets[n].kind \in ReadFor(h)
         /\ pc[h] = "open" => tickets[n].used
         /\ pc[h] \in {"restore", "open"} /\ tickets[n].kind = "recover" => tickets[n].of = p
         /\ pc[h] = "open" /\ tickets[n].kind = "recover" => AliveOf(p) = {}

TicketInv ==
  /\ \A n \in DOMAIN tickets :
       /\ \A r, s \in Via(n) : r = s
       /\ Via(n) # {} /\ tickets[n] # Nil => tickets[n].used /\ tickets[n].kind \in SignIns
  /\ \A h \in Handlers : Holds(h)

(* Only two statements open a session by a ticket.                         *)
LEMMA ViaStep ==
  ASSUME TypeInv, NEW h \in Handlers, Step(h), NEW n \in Nat \ {0}
  PROVE  \/ Via(n)' \subseteq Via(n)
         \/ /\ Device(h) \/ Open(h)
            /\ mem[h].player \in There /\ n = mem[h].ticket
            /\ Via(n)' \subseteq Via(n) \cup {Len(sessions) + 1}
<1>1. ASSUME NEW s \in Via(n)'
      PROVE  \/ s \in Via(n)
             \/ /\ Device(h) \/ Open(h)
                /\ mem[h].player \in There /\ n = mem[h].ticket /\ s = Len(sessions) + 1
  <2>1. s \in DOMAIN sessions' /\ sessions'[s] # Nil /\ sessions'[s].via = n
    BY DEF Via
  <2>2. CASE s \in DOMAIN sessions /\ sessions[s] # Nil /\ sessions'[s].via = sessions[s].via
    BY <2>1, <2>2 DEF Via
  <2>3. CASE /\ s = Len(sessions) + 1
             /\ Join(h) \/ ((Device(h) \/ Open(h)) /\ mem[h].player \in There)
             /\ sessions'[s] = Opened(mem[h].player, IF Join(h) THEN 0 ELSE mem[h].ticket)
    <3>1. n = IF Join(h) THEN 0 ELSE mem[h].ticket
      BY <2>1, <2>3 DEF Opened
    <3> QED BY <2>3, <3>1
  <2> QED BY <2>1, <2>2, <2>3, SessionsChange
<1> QED BY <1>1

(* A ticket that opened a session is used up.                              *)
LEMMA UsedStep ==
  ASSUME TypeInv, RefInv, TicketInv, NEW h \in Handlers, Step(h), NEW n \in DOMAIN tickets'
  PROVE  /\ \A r, s \in Via(n)' : r = s
         /\ Via(n)' # {} /\ tickets'[n] # Nil => tickets'[n].used /\ tickets'[n].kind \in SignIns
<1>0. /\ DOMAIN tickets = 1..Len(tickets) /\ Len(tickets) \in Nat /\ n \in Nat \ {0}
      /\ \A s \in DOMAIN sessions : sessions[s] # Nil => sessions[s].via \in Nat
  <2>1. tickets \in Seq(Or(Ticket)) /\ tickets' \in Seq(Or(Ticket)) /\ sessions \in Seq(Or(Session))
    BY TicketsStep DEF TypeInv, TypeOK
  <2>2. \A s \in DOMAIN sessions : sessions[s] \in Or(Session)
    BY <2>1
  <2> QED BY <2>1, <2>2 DEF Session
<1>1. Device(h) \/ Open(h) => mem[h].ticket \in DOMAIN tickets /\ Via(mem[h].ticket) = {}
  BY DEF TypeInv, Where, OfTicket, TicketInv, Holds, Device, Open
<1>2. CASE n \notin DOMAIN tickets
  <2>1. Via(n) = {}
    BY <1>0, <1>2 DEF RefInv, Via
  <2>2. Via(n)' = {}
    BY <1>0, <1>1, <1>2, <2>1, ViaStep
  <2> QED BY <2>2
<1>3. CASE n \in DOMAIN tickets /\ Via(n)' \subseteq Via(n)
  <2>1. tickets'[n] # Nil => /\ tickets[n] # Nil /\ tickets'[n].kind = tickets[n].kind
                             /\ tickets[n].used => tickets'[n].used
    BY <1>3, TicketsChange
  <2> QED BY <1>3, <2>1 DEF TicketInv
<1>4. CASE /\ n \in DOMAIN tickets
           /\ Device(h) \/ Open(h)
           /\ mem[h].player \in There /\ n = mem[h].ticket
           /\ Via(n)' \subseteq Via(n) \cup {Len(sessions) + 1}
  <2>1. \A r, s \in Via(n)' : r = s
    BY <1>1, <1>4
  <2>2. tickets'[n] # Nil =>
          /\ tickets[n] # Nil /\ tickets'[n].kind = tickets[n].kind
          /\ tickets[n].used => tickets'[n].used
          /\ Device(h) => tickets'[n].used
    BY <1>4, TicketsChange
  <2>3. tickets[n] # Nil => tickets[n].kind \in SignIns /\ (Open(h) => tickets[n].used)
    BY <1>4 DEF TicketInv, Holds, ReadFor, SignIns, Device, Open
  <2> QED BY <1>4, <2>1, <2>2, <2>3
<1> QED BY <1>0, <1>2, <1>3, <1>4, ViaStep

(* Alone, a handler uses a ticket as it has read it.                       *)
LEMMA HoldsStep ==
  ASSUME TypeInv, RefInv, TicketInv, NEW h \in Handlers, Step(h)
  PROVE  Holds(h)'
<1>0. /\ pc \in [Handlers -> Labels] /\ mem \in [Handlers -> Locals] /\ tickets \in Seq(Or(Ticket))
      /\ Blank.session = 0
      /\ \A n \in DOMAIN tickets : n \in Nat \ {0}
  BY DEF TypeInv, TypeOK, Blank
<1>1. \/ pc'[h] \notin {"device", "restore", "burn", "open"}
      \/ Link(h) \/ Recover(h) \/ Challenge(h) \/ Restore(h) \/ Burn(h)
  BY <1>0 DEF Step, SignedIn, SigningUp, Linking, Recovering, Passkeys, Arrive, Lift, Allowance,
         Give, Ask, RevokeOthers, Forget, Erase, SignUp, Code, Join, Redeem, Device, Confirm,
         Adopt, AskRecovery, Mail, Open, Authenticate, Register,
         Store, Goto, Finish, Start
<1>2. CASE pc'[h] \notin {"device", "restore", "burn", "open"}
  BY <1>2 DEF Holds
<1>3. ASSUME NEW n \in DOMAIN tickets, Fresh(n), UNCHANGED tables, mem'[h].ticket = n,
             pc'[h] \in {"device", "restore", "burn"}, tickets[n].kind \in ReadFor(h)',
             pc'[h] = "restore" => mem'[h].player = tickets[n].of
      PROVE  Holds(h)'
  <2>1. Via(n) = {} /\ Via(n)' = Via(n)
    BY <1>3 DEF TicketInv, Fresh, Via, tables
  <2> QED BY <1>3, <2>1 DEF Holds, tables
<1>4. CASE Link(h)
  <2>1. PICK n \in DOMAIN tickets :
          /\ Fresh(n) /\ tickets[n].kind = "link"
          /\ Start(h, "device", [Blank EXCEPT !.player = tickets[n].of, !.ticket = n])
    BY <1>4 DEF Link
  <2>2. pc'[h] = "device" /\ mem'[h].ticket = n
    BY <1>0, <2>1 DEF Start, Blank
  <2> QED BY <1>3, <1>4, <2>1, <2>2 DEF Link, ReadFor
<1>5. CASE Recover(h)
  <2>1. PICK n \in DOMAIN tickets :
          /\ Fresh(n) /\ tickets[n].kind = "recover"
          /\ Start(h, "restore", [Blank EXCEPT !.player = tickets[n].of, !.ticket = n])
    BY <1>5 DEF Recover
  <2>2. pc'[h] = "restore" /\ mem'[h].ticket = n /\ mem'[h].player = tickets[n].of
    BY <1>0, <2>1 DEF Start, Blank
  <2> QED BY <1>3, <1>5, <2>1, <2>2 DEF Recover, ReadFor
<1>6. CASE Challenge(h) /\ pc'[h] \in {"device", "restore", "burn", "open"}
  <2>1. /\ Fresh(mem[h].ticket) /\ pc'[h] = "burn" /\ mem'[h] = mem[h]
        /\ tickets[mem[h].ticket].kind = (IF mem[h].session = 0 THEN "authenticate" ELSE "register")
    BY <1>0, <1>6 DEF Challenge, Goto, Finish
  <2>2. mem[h].ticket \in DOMAIN tickets
    BY <1>6 DEF Challenge, TypeInv, Where, OfTicket
  <2> QED BY <1>3, <1>6, <2>1, <2>2 DEF Challenge, ReadFor
<1>7. ASSUME Restore(h) \/ Burn(h), pc'[h] = "open", mem'[h] = mem[h], ~Device(h), ~Open(h)
      PROVE  Holds(h)'
  <2> DEFINE n == mem[h].ticket
             p == mem[h].player
  <2>1. n \in DOMAIN tickets /\ n \in DOMAIN tickets'
    BY <1>7, TicketsStep DEF TypeInv, Where, OfTicket, Restore, Burn
  <2>2. Via(n) = {} /\ Holds(h)
    BY <1>7 DEF TicketInv, Holds, Restore, Burn
  <2>3. Via(n)' = {}
    BY <1>0, <1>7, <2>1, <2>2, ViaStep
  <2>4. tickets'[n] # Nil =>
          /\ tickets[n] # Nil /\ tickets'[n].kind = tickets[n].kind /\ tickets'[n].of = tickets[n].of
          /\ tickets'[n].used
    BY <1>7, <2>1, TicketsChange
  <2>5. CASE Restore(h)
    <3>1. pc[h] = "restore" /\ (tickets[n] # Nil => tickets[n].kind = "recover" /\ tickets[n].of = p)
      BY <2>2, <2>5 DEF Holds, ReadFor, Restore
    <3>2. AliveOf(p)' = {}
      <4>1. ~Join(h)
        BY <3>1 DEF Join
      <4>2. ASSUME NEW s \in DOMAIN sessions', sessions'[s] # Nil, sessions'[s].of = p
            PROVE  ~sessions'[s].live
        BY <1>7, <2>5, <4>1, <4>2, SessionsChange
      <4> QED BY <1>7, <4>2 DEF AliveOf, Alive
    <3>3. ReadFor(h)' = {"recover", "authenticate"}
      BY <1>7 DEF ReadFor
    <3> QED BY <1>7, <2>3, <2>4, <3>1, <3>2, <3>3 DEF Holds
  <2>6. CASE Burn(h)
    <3>1. pc[h] = "burn" /\ mem[h].session = 0
      BY <1>0, <1>7, <2>6 DEF Burn, Goto, Finish
    <3>2. tickets[n] # Nil => tickets[n].kind = "authenticate"
      BY <2>2, <3>1 DEF Holds, ReadFor
    <3>3. ReadFor(h)' = {"recover", "authenticate"}
      BY <1>7 DEF ReadFor
    <3> QED BY <1>7, <2>3, <2>4, <3>2, <3>3 DEF Holds
  <2> QED BY <1>7, <2>5, <2>6
<1>8. CASE (Restore(h) \/ Burn(h)) /\ pc'[h] \in {"device", "restore", "burn", "open"}
  <2>1. pc'[h] = "open" /\ mem'[h] = mem[h] /\ ~Device(h) /\ ~Open(h)
    BY <1>0, <1>8 DEF Restore, Burn, Goto, Finish, Device, Open
  <2> QED BY <1>7, <1>8, <2>1
<1> QED BY <1>1, <1>2, <1>4, <1>5, <1>6, <1>8

LEMMA TicketWorld ==
  ASSUME TypeInv, RefInv, TicketInv, World
  PROVE  TicketInv'
<1>1. /\ UNCHANGED <<sessions, pc, mem>>
      /\ \A n \in DOMAIN tickets' : tickets'[n] # Nil =>
           \/ /\ n \in DOMAIN tickets /\ tickets[n] # Nil /\ tickets'[n].of = tickets[n].of
              /\ tickets'[n].kind = tickets[n].kind /\ tickets'[n].used = tickets[n].used
           \/ n = Len(tickets) + 1 /\ n \notin DOMAIN tickets /\ tickets'[n].of = Nil
  BY WorldChange
<1>2. /\ DOMAIN tickets = 1..Len(tickets) /\ Len(tickets) \in Nat
      /\ \A n \in DOMAIN tickets' : n \in Nat \ {0}
      /\ DOMAIN tickets \subseteq DOMAIN tickets'
      /\ \A s \in DOMAIN sessions : sessions[s] # Nil => sessions[s].via \in Nat
  <2>1. /\ tickets \in Seq(Or(Ticket)) /\ tickets' \in Seq(Or(Ticket)) /\ sessions \in Seq(Or(Session))
        /\ Len(tickets) =< Len(tickets')
    BY WorldTypes DEF TypeInv, TypeOK
  <2>2. \A s \in DOMAIN sessions : sessions[s] \in Or(Session)
    BY <2>1
  <2> QED BY <2>1, <2>2 DEF Session
<1>3. \A n : Via(n)' = Via(n) /\ AliveOf(n)' = AliveOf(n)
  BY <1>1 DEF Via, AliveOf, Alive
<1>4. ASSUME NEW n \in DOMAIN tickets'
      PROVE  /\ \A r, s \in Via(n) : r = s
             /\ Via(n) # {} /\ tickets'[n] # Nil => tickets'[n].used /\ tickets'[n].kind \in SignIns
  <2>1. CASE n \in DOMAIN tickets
    BY <1>1, <2>1 DEF TicketInv
  <2>2. CASE n \notin DOMAIN tickets
    <3>1. Via(n) = {}
      BY <1>2, <2>2 DEF RefInv, Via
    <3> QED BY <3>1
  <2> QED BY <2>1, <2>2
<1>5. ASSUME NEW h \in Handlers  PROVE Holds(h)'
  <2>1. Holds(h) /\ ReadFor(h)' = ReadFor(h)
    BY <1>1 DEF TicketInv, ReadFor
  <2>2. pc[h] \in {"device", "restore", "burn", "open"} => mem[h].ticket \in DOMAIN tickets
    BY DEF TypeInv, Where, OfTicket
  <2> QED BY <1>1, <1>2, <1>3, <2>1, <2>2 DEF Holds
<1> QED BY <1>3, <1>4, <1>5 DEF TicketInv

LEMMA TicketsOnce == Spec => [](~overlap => TicketInv)
<1>1. Init => TicketInv
  BY DEF Init, TicketInv, Holds
<1>2. TypeInv /\ RefInv /\ AloneInv /\ (~overlap => TicketInv) /\ [Next]_vars => (~overlap => TicketInv)'
  <2> SUFFICES ASSUME TypeInv, RefInv, AloneInv, ~overlap => TicketInv, [Next]_vars, ~overlap'
               PROVE  TicketInv'
    OBVIOUS
  <2>1. ASSUME NEW h \in Handlers, Step(h)  PROVE TicketInv'
    <3>1. ~overlap /\ \A g \in Handlers \ {h} : pc'[g] = "idle"
      BY <2>1, Undisturbed
    <3>2. TicketInv
      BY <3>1
    <3>3. \A g \in Handlers \ {h} : Holds(g)'
      BY <3>1 DEF Holds
    <3>4. Holds(h)'
      BY <2>1, <3>2, HoldsStep
    <3>5. \A n \in DOMAIN tickets' :
            /\ \A r, s \in Via(n)' : r = s
            /\ Via(n)' # {} /\ tickets'[n] # Nil => tickets'[n].used /\ tickets'[n].kind \in SignIns
      BY <2>1, <3>2, UsedStep
    <3> QED BY <3>3, <3>4, <3>5 DEF TicketInv
  <2>2. CASE World
    <3>1. ~overlap
      BY <2>2, WorldChange DEF Call
    <3> QED BY <2>2, <3>1, TicketWorld
  <2>3. CASE UNCHANGED vars
    BY <2>3 DEF vars, TicketInv, Via, Holds, ReadFor, AliveOf, Alive
  <2> QED BY <2>1, <2>2, <2>3, StepOrWorld
<1> QED BY <1>1, <1>2, TypeInvariant, References, OneAtATime, PTL DEF Spec

(* Call after call, a code, a link that recovers or a challenge opens one  *)
(* session, however often it is tried and whatever lapses in the meantime, *)
(* and what confirms or registers opens none.                              *)
THEOREM TicketsOpenOneSession == Spec => []OneSessionPerTicket
<1>1. (~overlap => TicketInv) => OneSessionPerTicket
  <2> SUFFICES ASSUME TicketInv, NEW n \in DOMAIN tickets
               PROVE  /\ Cardinality(Via(n)) =< 1
                      /\ Via(n) # {} /\ tickets[n] # Nil => tickets[n].kind \in SignIns
    BY DEF OneSessionPerTicket, Via, SignIns
  <2>1. CASE Via(n) = {}
    BY <2>1, FS_EmptySet
  <2>2. ASSUME NEW s \in Via(n)  PROVE Cardinality(Via(n)) =< 1
    <3>1. Via(n) = {s}
      BY DEF TicketInv
    <3> QED BY <3>1, FS_Singleton
  <2> QED BY <2>1, <2>2 DEF TicketInv
<1> QED BY <1>1, TicketsOnce, PTL

(* "Recovering ends every other session": call after call, the session     *)
(* that a recovery opens is the only one of its account that is alive.     *)
THEOREM RecoveryIsAlone == Spec => RecoveryEndsTheOthers
<1> DEFINE A == ~overlap' =>
       \A h \in Handlers :
         LET n == mem[h].ticket IN
         pc[h] = "open" /\ pc'[h] = "idle" /\ tickets[n] # Nil /\ tickets[n].kind = "recover" =>
           Cardinality({s \in Alive' : sessions'[s].of = mem[h].player}) = 1
<1>1. TypeInv /\ RefInv /\ AloneInv /\ (~overlap => TicketInv) /\ [Next]_vars => [A]_vars
  <2> SUFFICES ASSUME TypeInv, RefInv, AloneInv, ~overlap => TicketInv, [Next]_vars, ~overlap',
                      NEW h \in Handlers, pc[h] = "open", pc'[h] = "idle",
                      tickets[mem[h].ticket] # Nil, tickets[mem[h].ticket].kind = "recover"
               PROVE  Cardinality({s \in Alive' : sessions'[s].of = mem[h].player}) = 1
    OBVIOUS
  <2> DEFINE n == mem[h].ticket
             p == mem[h].player
             L == {s \in Alive' : sessions'[s].of = p}
  <2>1. pc'[h] # pc[h]
    OBVIOUS
  <2>2. Step(h)
    <3>1. ASSUME NEW g \in Handlers, Step(g)  PROVE g = h
      BY <2>1, <3>1, OthersStay
    <3>2. ~World
      BY <2>1, WorldChange
    <3>3. ~UNCHANGED vars
      BY <2>1 DEF vars
    <3> QED BY <3>1, <3>2, <3>3, StepOrWorld
  <2>3. Open(h)
    BY <2>2 DEF Step, SignedIn, SigningUp, Linking, Recovering, Passkeys, Arrive, Lift, Allowance,
         Give, Ask, RevokeOthers, Forget, Erase, SignUp, Code, Join, Redeem, Link, Device, Confirm,
         Adopt, AskRecovery, Mail, Recover, Restore, Authenticate, Register, Challenge, Burn,
         Store, Start
  <2>4. TicketInv
    BY <2>2, Undisturbed
  <2>5. AliveOf(p) = {} /\ tickets[n].of = p
    BY <2>4 DEF TicketInv, Holds
  <2>6. p \in There
    <3>1. n \in DOMAIN tickets /\ p \in Players
      BY DEF TypeInv, Where, OfTicket, OfPlayer
    <3>2. p \in Or(There)
      BY <2>5, <3>1 DEF RefInv
    <3> QED BY <3>1, <3>2, NilAssumption
  <2>7. sessions' = Append(sessions, Opened(p, n))
    BY <2>3, <2>6 DEF Open, There
  <2>8. n \in Nat /\ p \in Players /\ sessions \in Seq(Or(Session))
    BY <2>6 DEF TypeInv, TypeOK, Locals, There
  <2>9. Opened(p, n) \in Session /\ Opened(p, n).of = p /\ Opened(p, n).live
    BY <2>8, Zenon DEF Opened, Session
  <2>10. /\ DOMAIN sessions' = DOMAIN sessions \cup {Len(sessions')}
         /\ \A s \in DOMAIN sessions : sessions'[s] = sessions[s]
         /\ sessions'[Len(sessions')] = Opened(p, n)
    BY <2>7, <2>8, <2>9, AppendSeq
  <2>11. L = {Len(sessions')}
    <3>1. \A s \in DOMAIN sessions : s \notin L
      BY <2>5, <2>10 DEF AliveOf, Alive
    <3>2. Len(sessions') \in L
      BY <2>9, <2>10, NilAssumption DEF Alive
    <3>3. L \subseteq DOMAIN sessions'
      BY DEF Alive
    <3> QED BY <2>10, <3>1, <3>2, <3>3
  <2> QED BY <2>11, FS_Singleton
<1> QED BY <1>1, TypeInvariant, References, OneAtATime, TicketsOnce, PTL DEF Spec, RecoveryEndsTheOthers

(***************************************************************************)
(* Console, for any number of handlers, apps, keys and calls and any limit.*)
(***************************************************************************)
USE DEF C!Or

(* FiniteSets, as Console has it. *)
LEMMA CFiniteSets ==
  ASSUME NEW S
  PROVE  (C!IsFiniteSet(S) <=> IsFiniteSet(S)) /\ C!Cardinality(S) = Cardinality(S)
<1>1. C!IsFiniteSet(S) <=> IsFiniteSet(S)
  BY DEF C!IsFiniteSet, IsFiniteSet
<1>2. C!Cardinality(S) = Cardinality(S)
  BY DEF C!Cardinality, Cardinality
<1> QED BY <1>1, <1>2

CSigningInAt == {"use", "others", "abroad", "account", "create", "session"}

(* What the locals of a handler are at its statement.                      *)
CWhere(h) ==
  /\ at[h] \notin {"idle", "send"} => local[h].of \in C!Providers
  /\ at[h] \in CSigningInAt => local[h].token \in DOMAIN tokens
  /\ at[h] = "session" => developers[local[h].of] # Nil
  /\ at[h] \in {"app", "pair", "mint"} => local[h].app \in Apps
  /\ at[h] \in {"last", "retire"} => local[h].key \in DOMAIN keys

CTypeInv == C!TypeOK /\ \A h \in Handlers : CWhere(h)

(* What a handler does. *)
CStep(h) == C!SigningIn(h) \/ C!SignedIn(h)

-----------------------------------------------------------------------------
(* What a step makes of the rows.                                          *)

(* Which step writes which table. *)
LEMMA CWriters ==
  ASSUME C!Next
  PROVE  /\ \/ tokens' = tokens
            \/ C!AskGitHub
            \/ \E n \in C!Unused : tokens' = [tokens EXCEPT ![n].live = FALSE]
            \/ \E h \in Handlers : C!SendMail(h) \/ C!Wrong(h) \/ C!Use(h) \/ C!Others(h)
         /\ developers' = developers \/ \E h \in Handlers : C!Account(h) \/ C!CreateAccount(h)
         /\ \/ logins' = logins
            \/ \E n \in C!Alive : \/ logins' = [logins EXCEPT ![n].fresh = FALSE]
                                \/ logins' = [logins EXCEPT ![n].live = FALSE]
            \/ \E h \in Handlers : C!StartSession(h) \/ C!Revoke(h)
         /\ owner' = owner \/ \E h \in Handlers : C!CreateApp(h)
         /\ \/ keys' = keys
            \/ \E k \in DOMAIN keys : keys' = [keys EXCEPT ![k].expired = TRUE]
            \/ \E h \in Handlers : C!IssueKeyPair(h) \/ C!Mint(h) \/ C!Retire(h)
         /\ listed' = listed \/ listed' = FALSE
  BY DEF C!Next, C!SigningIn, C!SignedIn, C!AskMail, C!SendMail, C!Follow, C!Guess, C!Wrong, C!Use, C!Others, C!Abroad,
         C!Account, C!CreateAccount, C!StartSession, C!Arrive, C!Revoke, C!AskApp, C!CreateApp, C!IssueKeyPair, C!AskKey,
         C!Mint, C!AskRevoke, C!Last, C!Retire, C!Refused, C!AskGitHub, C!Lapse, C!tables

(* A mail or state stays whose it is, and used; its attempts are counted   *)
(* by wrong codes only.                                                    *)
CWrongAt(n) ==
  \E h \in Handlers :
    /\ C!Wrong(h) /\ n = local[h].token
    /\ tokens'[n].attempts = local[h].attempts /\ tokens'[n].wrong = tokens[n].wrong + 1
    /\ local[h].attempts >= CodeAttempts => tokens'[n].used

LEMMA CTokensChange ==
  ASSUME CTypeInv, C!Next
  PROVE  /\ tokens' \in Seq(C!Token) /\ DOMAIN tokens \subseteq DOMAIN tokens'
         /\ \A n \in DOMAIN tokens :
              /\ tokens'[n].by = tokens[n].by
              /\ tokens[n].used => tokens'[n].used
              /\ \/ tokens'[n].attempts = tokens[n].attempts /\ tokens'[n].wrong = tokens[n].wrong
                 \/ CWrongAt(n)
         /\ \A n \in DOMAIN tokens' \ DOMAIN tokens :
              n = Len(tokens) + 1 /\ tokens'[n].attempts = 0 /\ tokens'[n].wrong = 0
<1>0. tokens \in Seq(C!Token) /\ \A n \in DOMAIN tokens : tokens[n] \in C!Token
  <2>1. tokens \in Seq(C!Token)
    BY DEF CTypeInv, C!TypeOK
  <2> QED BY <2>1
<1>2. \A t \in C!Token, b \in BOOLEAN :
        LET e == [t EXCEPT !.used = b]
        IN  e \in C!Token /\ e.by = t.by /\ e.attempts = t.attempts /\ e.wrong = t.wrong /\ e.used = b
  BY Zenon DEF C!Token
<1>3. \A t \in C!Token, b \in BOOLEAN :
        LET e == [t EXCEPT !.live = b]
        IN  e \in C!Token /\ e.by = t.by /\ e.attempts = t.attempts /\ e.wrong = t.wrong /\ e.used = t.used
  BY Zenon DEF C!Token
<1>4. CASE tokens' = tokens
  BY <1>0, <1>4
<1>5. ASSUME NEW by \in C!Providers, tokens' = Append(tokens, C!NewToken(by))
      PROVE  /\ tokens' \in Seq(C!Token) /\ DOMAIN tokens \subseteq DOMAIN tokens'
             /\ \A n \in DOMAIN tokens : tokens'[n] = tokens[n]
             /\ \A n \in DOMAIN tokens' \ DOMAIN tokens :
                  n = Len(tokens) + 1 /\ tokens'[n].attempts = 0 /\ tokens'[n].wrong = 0
  <2>1. C!NewToken(by) \in C!Token /\ C!NewToken(by).attempts = 0 /\ C!NewToken(by).wrong = 0
    BY DEF C!NewToken, C!Token
  <2> QED BY <1>0, <1>5, <2>1, AppendSeq
<1>6. ASSUME NEW n \in DOMAIN tokens, NEW e \in C!Token, tokens' = [tokens EXCEPT ![n] = e]
      PROVE  /\ tokens' \in Seq(C!Token) /\ DOMAIN tokens' = DOMAIN tokens
             /\ tokens'[n] = e /\ \A m \in DOMAIN tokens \ {n} : tokens'[m] = tokens[m]
  <2>1. tokens' \in [DOMAIN tokens -> C!Token]
    BY <1>0, <1>6
  <2>2. tokens' \in Seq(C!Token) /\ DOMAIN tokens' = DOMAIN tokens
    BY <1>0, <2>1, MapSeq
  <2> QED BY <1>6, <2>2
<1>7. CASE C!AskGitHub \/ \E h \in Handlers : C!SendMail(h)
  BY <1>5, <1>7 DEF C!AskGitHub, C!SendMail, C!Providers
<1>8. ASSUME NEW n \in C!Unused, tokens' = [tokens EXCEPT ![n].live = FALSE]
      PROVE  /\ tokens' \in Seq(C!Token) /\ DOMAIN tokens' = DOMAIN tokens
             /\ \A m \in DOMAIN tokens :
                  /\ tokens'[m].by = tokens[m].by /\ tokens'[m].used = tokens[m].used
                  /\ tokens'[m].attempts = tokens[m].attempts /\ tokens'[m].wrong = tokens[m].wrong
  <2> DEFINE e == [tokens[n] EXCEPT !.live = FALSE]
  <2>1. n \in DOMAIN tokens /\ tokens[n] \in C!Token /\ FALSE \in BOOLEAN
    BY <1>0 DEF C!Unused
  <2>2. /\ e \in C!Token /\ e.by = tokens[n].by /\ e.attempts = tokens[n].attempts
        /\ e.wrong = tokens[n].wrong /\ e.used = tokens[n].used
    BY <1>3, <2>1, Zenon
  <2>3. tokens' = [tokens EXCEPT ![n] = e]
    BY <1>8
  <2> HIDE DEF e
  <2> QED BY <1>6, <2>1, <2>2, <2>3
<1>9. ASSUME NEW h \in Handlers, C!Use(h)
      PROVE  /\ tokens' \in Seq(C!Token) /\ DOMAIN tokens' = DOMAIN tokens
             /\ \A m \in DOMAIN tokens :
                  /\ tokens'[m].by = tokens[m].by /\ (tokens[m].used => tokens'[m].used)
                  /\ tokens'[m].attempts = tokens[m].attempts /\ tokens'[m].wrong = tokens[m].wrong
  <2> DEFINE n == local[h].token
             e == [tokens[n] EXCEPT !.used = TRUE]
  <2>1. n \in DOMAIN tokens /\ tokens[n] \in C!Token /\ TRUE \in BOOLEAN
    BY <1>0, <1>9 DEF CTypeInv, CWhere, CSigningInAt, C!Use
  <2>2. /\ e \in C!Token /\ e.by = tokens[n].by /\ e.attempts = tokens[n].attempts
        /\ e.wrong = tokens[n].wrong /\ e.used = TRUE
    BY <1>2, <2>1, Zenon
  <2>3. tokens' = [tokens EXCEPT ![n] = e]
    BY <1>9 DEF C!Use
  <2> HIDE DEF e
  <2> QED BY <1>6, <2>1, <2>2, <2>3
<1>10. ASSUME NEW h \in Handlers, C!Others(h)
       PROVE  /\ tokens' \in Seq(C!Token) /\ DOMAIN tokens' = DOMAIN tokens
              /\ \A m \in DOMAIN tokens :
                  /\ tokens'[m].by = tokens[m].by /\ (tokens[m].used => tokens'[m].used)
                  /\ tokens'[m].attempts = tokens[m].attempts /\ tokens'[m].wrong = tokens[m].wrong
  <2>1. tokens' = [m \in DOMAIN tokens |->
          IF m \in C!Mails THEN [tokens[m] EXCEPT !.used = TRUE] ELSE tokens[m]]
    BY <1>10 DEF C!Others
  <2>2. TRUE \in BOOLEAN
    OBVIOUS
  <2>3. ASSUME NEW m \in DOMAIN tokens
        PROVE  /\ tokens'[m] \in C!Token
               /\ tokens'[m].by = tokens[m].by /\ (tokens[m].used => tokens'[m].used)
               /\ tokens'[m].attempts = tokens[m].attempts /\ tokens'[m].wrong = tokens[m].wrong
    <3> DEFINE e == [tokens[m] EXCEPT !.used = TRUE]
    <3>1. tokens'[m] = e \/ tokens'[m] = tokens[m]
      BY <2>1
    <3>2. /\ e \in C!Token /\ e.by = tokens[m].by /\ e.attempts = tokens[m].attempts
          /\ e.wrong = tokens[m].wrong /\ e.used = TRUE
      BY <1>0, <1>2, <2>2, Zenon
    <3> HIDE DEF e
    <3> QED BY <1>0, <3>1, <3>2
  <2>4. tokens' \in [DOMAIN tokens -> C!Token]
    BY <2>1, <2>3
  <2> QED BY <1>0, <2>3, <2>4, MapSeq
<1>11. ASSUME NEW h \in Handlers, C!Wrong(h)
       PROVE  /\ tokens' \in Seq(C!Token) /\ DOMAIN tokens' = DOMAIN tokens
              /\ \A m \in DOMAIN tokens :
                  /\ tokens'[m].by = tokens[m].by /\ (tokens[m].used => tokens'[m].used)
                  /\ \/ tokens'[m].attempts = tokens[m].attempts /\ tokens'[m].wrong = tokens[m].wrong
                     \/ CWrongAt(m)
  <2> DEFINE n == local[h].token
  <2>1. n \in DOMAIN tokens /\ tokens[n] \in C!Token
    BY <1>0, <1>11 DEF CTypeInv, CWhere, CSigningInAt, C!Wrong
  <2>2. PICK a \in Nat : a = local[h].attempts
    BY DEF CTypeInv, C!TypeOK, C!Locals
  <2>3. PICK w \in Nat : w = tokens[n].wrong + 1
    BY <2>1 DEF C!Token
  <2>4. PICK b \in BOOLEAN : b = (tokens[n].used \/ a >= CodeAttempts)
    OBVIOUS
  <2> DEFINE e == [tokens[n] EXCEPT !.attempts = a, !.wrong = w, !.used = b]
  <2>5. e \in C!Token /\ e.by = tokens[n].by /\ e.attempts = a /\ e.wrong = w /\ e.used = b
    BY <2>1, Zenon DEF C!Token
  <2>6. tokens' = [tokens EXCEPT ![n] = e]
    BY <1>11, <2>2, <2>3, <2>4 DEF C!Wrong
  <2>7. (tokens[n].used => b) /\ (a >= CodeAttempts => b)
    BY <2>4
  <2> HIDE DEF e
  <2>8. tokens'[n] = e /\ \A m \in DOMAIN tokens \ {n} : tokens'[m] = tokens[m]
    BY <1>6, <2>1, <2>5, <2>6
  <2>9. CWrongAt(n)
    BY <1>11, <2>2, <2>3, <2>5, <2>7, <2>8 DEF CWrongAt
  <2> QED BY <1>6, <2>1, <2>5, <2>6, <2>7, <2>8, <2>9
<1> QED BY <1>4, <1>5, <1>7, <1>8, <1>9, <1>10, <1>11, CWriters

(* A session stays whose it is, and by what it came.                       *)
LEMMA CSessionsChange ==
  ASSUME CTypeInv, C!Next
  PROVE  /\ logins' \in Seq(C!Session) /\ DOMAIN logins \subseteq DOMAIN logins'
         /\ \A s \in DOMAIN logins :
              logins'[s].of = logins[s].of /\ logins'[s].via = logins[s].via
         /\ \A s \in DOMAIN logins' \ DOMAIN logins :
              /\ s = Len(logins) + 1
              /\ \E h \in Handlers : /\ C!StartSession(h) /\ logins'[s].of = local[h].of
                                     /\ logins'[s].via = local[h].token
<1>0. logins \in Seq(C!Session) /\ \A n \in DOMAIN logins : logins[n] \in C!Session
  <2>1. logins \in Seq(C!Session)
    BY DEF CTypeInv, C!TypeOK
  <2> QED BY <2>1
<1>1. FALSE \in BOOLEAN /\ TRUE \in BOOLEAN
  OBVIOUS
<1>2. \A r \in C!Session, b \in BOOLEAN :
        /\ LET e == [r EXCEPT !.live = b] IN e \in C!Session /\ e.of = r.of /\ e.via = r.via
        /\ LET e == [r EXCEPT !.fresh = b] IN e \in C!Session /\ e.of = r.of /\ e.via = r.via
  BY Zenon DEF C!Session
<1>3. \A r \in C!Session :
        /\ LET e == [r EXCEPT !.live = FALSE] IN e \in C!Session /\ e.of = r.of /\ e.via = r.via
        /\ LET e == [r EXCEPT !.fresh = FALSE] IN e \in C!Session /\ e.of = r.of /\ e.via = r.via
  BY <1>1, <1>2, Zenon
<1>4. ASSUME logins' \in [DOMAIN logins -> C!Session],
             \A s \in DOMAIN logins : logins'[s].of = logins[s].of /\ logins'[s].via = logins[s].via
      PROVE  logins' \in Seq(C!Session) /\ DOMAIN logins' = DOMAIN logins
  BY <1>0, <1>4, MapSeq
<1>5. CASE logins' = logins
  BY <1>0, <1>5
<1>6. ASSUME NEW n \in C!Alive, \/ logins' = [logins EXCEPT ![n].fresh = FALSE]
                              \/ logins' = [logins EXCEPT ![n].live = FALSE]
      PROVE  /\ logins' \in [DOMAIN logins -> C!Session]
             /\ \A s \in DOMAIN logins :
                  logins'[s].of = logins[s].of /\ logins'[s].via = logins[s].via
  <2>1. PICK e \in C!Session : /\ logins' = [logins EXCEPT ![n] = e]
                             /\ e.of = logins[n].of /\ e.via = logins[n].via
    BY <1>0, <1>3, <1>6, Zenon DEF C!Alive
  <2> QED BY <1>0, <2>1
<1>7. ASSUME NEW h \in Handlers, C!Revoke(h)
      PROVE  /\ logins' \in [DOMAIN logins -> C!Session]
             /\ \A s \in DOMAIN logins :
                  logins'[s].of = logins[s].of /\ logins'[s].via = logins[s].via
  <2>1. PICK gone : logins' = [n \in DOMAIN logins |->
                      IF n \in gone THEN [logins[n] EXCEPT !.live = FALSE] ELSE logins[n]]
    BY <1>7 DEF C!Revoke
  <2>2. \A n \in DOMAIN logins : \E e \in C!Session :
          logins'[n] = e /\ e.of = logins[n].of /\ e.via = logins[n].via
    BY <1>0, <1>3, <2>1, Zenon
  <2> QED BY <2>1, <2>2
<1>8. ASSUME NEW h \in Handlers, C!StartSession(h)
      PROVE  /\ logins' \in Seq(C!Session) /\ DOMAIN logins \subseteq DOMAIN logins'
             /\ \A s \in DOMAIN logins : logins'[s] = logins[s]
             /\ \A s \in DOMAIN logins' \ DOMAIN logins :
                  s = Len(logins) + 1 /\ logins'[s].of = local[h].of /\ logins'[s].via = local[h].token
  <2> DEFINE e == [of |-> local[h].of, via |-> local[h].token, fresh |-> TRUE, live |-> TRUE]
  <2>1. local[h].of \in C!Providers /\ local[h].token \in Nat
    BY <1>8 DEF CTypeInv, C!TypeOK, CWhere, C!StartSession, C!Locals
  <2>2. e \in C!Session /\ e.of = local[h].of /\ e.via = local[h].token
    BY <2>1 DEF C!Session
  <2>3. logins' = Append(logins, e)
    BY <1>8 DEF C!StartSession
  <2> HIDE DEF e
  <2> QED BY <1>0, <2>2, <2>3, AppendSeq
<1> QED BY <1>4, <1>5, <1>6, <1>7, <1>8, CWriters

(* A key stays what it is; only the statement that retires it revokes it,  *)
(* and a new one is not revoked.                                           *)
LEMMA CKeysChange ==
  ASSUME CTypeInv, C!Next
  PROVE  /\ keys' \in Seq(C!Key) /\ DOMAIN keys \subseteq DOMAIN keys'
         /\ \A k \in DOMAIN keys :
              /\ keys'[k].app = keys[k].app /\ keys'[k].kind = keys[k].kind
              /\ \/ keys'[k].revoked = keys[k].revoked
                 \/ \E h \in Handlers : C!Retire(h) /\ k = local[h].key
              /\ keys[k].expired => keys'[k].expired
         /\ \A k \in DOMAIN keys' \ DOMAIN keys : ~keys'[k].revoked
<1>0. keys \in Seq(C!Key) /\ \A k \in DOMAIN keys : keys[k] \in C!Key
  <2>1. keys \in Seq(C!Key)
    BY DEF CTypeInv, C!TypeOK
  <2> QED BY <2>1
<1>1. FALSE \in BOOLEAN /\ TRUE \in BOOLEAN
  OBVIOUS
<1>2. \A r \in C!Key, b \in BOOLEAN :
        /\ LET e == [r EXCEPT !.expired = b]
           IN  e \in C!Key /\ e.app = r.app /\ e.kind = r.kind /\ e.revoked = r.revoked /\ e.expired = b
        /\ LET e == [r EXCEPT !.revoked = b]
           IN  e \in C!Key /\ e.app = r.app /\ e.kind = r.kind /\ e.expired = r.expired
  BY Zenon DEF C!Key
<1>3. \A r \in C!Key :
        /\ LET e == [r EXCEPT !.expired = TRUE]
           IN  e \in C!Key /\ e.app = r.app /\ e.kind = r.kind /\ e.revoked = r.revoked /\ e.expired
        /\ LET e == [r EXCEPT !.revoked = TRUE]
           IN  e \in C!Key /\ e.app = r.app /\ e.kind = r.kind /\ e.expired = r.expired
  BY <1>1, <1>2, Zenon
<1>4. ASSUME NEW n \in DOMAIN keys, NEW e \in C!Key, keys' = [keys EXCEPT ![n] = e]
      PROVE  /\ keys' \in Seq(C!Key) /\ DOMAIN keys' = DOMAIN keys
             /\ keys'[n] = e /\ \A k \in DOMAIN keys \ {n} : keys'[k] = keys[k]
  <2>1. keys' \in [DOMAIN keys -> C!Key]
    BY <1>0, <1>4
  <2>2. keys' \in Seq(C!Key) /\ DOMAIN keys' = DOMAIN keys
    BY <1>0, <2>1, MapSeq
  <2> QED BY <1>4, <2>2
<1>5. CASE keys' = keys
  BY <1>0, <1>5
<1>6. ASSUME NEW n \in DOMAIN keys, keys' = [keys EXCEPT ![n].expired = TRUE]
      PROVE  /\ keys' \in Seq(C!Key) /\ DOMAIN keys' = DOMAIN keys
             /\ \A k \in DOMAIN keys :
                  /\ keys'[k].app = keys[k].app /\ keys'[k].kind = keys[k].kind
                  /\ keys'[k].revoked = keys[k].revoked /\ (keys[k].expired => keys'[k].expired)
  <2> DEFINE e == [keys[n] EXCEPT !.expired = TRUE]
  <2>1. e \in C!Key /\ e.app = keys[n].app /\ e.kind = keys[n].kind /\ e.revoked = keys[n].revoked /\ e.expired
    BY <1>0, <1>3, Zenon
  <2>2. keys' = [keys EXCEPT ![n] = e]
    BY <1>6
  <2> HIDE DEF e
  <2> QED BY <1>4, <2>1, <2>2
<1>7. ASSUME NEW h \in Handlers, C!Retire(h)
      PROVE  /\ keys' \in Seq(C!Key) /\ DOMAIN keys' = DOMAIN keys
             /\ \A k \in DOMAIN keys :
                  /\ keys'[k].app = keys[k].app /\ keys'[k].kind = keys[k].kind
                  /\ k = local[h].key \/ keys'[k].revoked = keys[k].revoked
                  /\ keys[k].expired => keys'[k].expired
  <2> DEFINE n == local[h].key
             e == [keys[n] EXCEPT !.revoked = TRUE]
  <2>0. n \in DOMAIN keys
    BY <1>7 DEF CTypeInv, CWhere, C!Retire
  <2>1. e \in C!Key /\ e.app = keys[n].app /\ e.kind = keys[n].kind /\ e.expired = keys[n].expired
    BY <1>0, <1>3, <2>0, Zenon
  <2>2. keys' = [keys EXCEPT ![n] = e]
    BY <1>7 DEF C!Retire
  <2> HIDE DEF e
  <2> QED BY <1>4, <2>0, <2>1, <2>2
<1>8. ASSUME NEW a \in Apps, NEW kind \in C!KeyKinds, NEW ends \in BOOLEAN
      PROVE  C!NewKey(a, kind, ends) \in C!Key /\ ~C!NewKey(a, kind, ends).revoked
  BY Zenon DEF C!NewKey, C!Key
<1>9. ASSUME NEW h \in Handlers, C!Mint(h)
      PROVE  /\ keys' \in Seq(C!Key) /\ DOMAIN keys \subseteq DOMAIN keys'
             /\ \A k \in DOMAIN keys : keys'[k] = keys[k]
             /\ \A k \in DOMAIN keys' \ DOMAIN keys : ~keys'[k].revoked
  <2>1. PICK kind \in C!KeyKinds, ends \in BOOLEAN : keys' = Append(keys, C!NewKey(local[h].app, kind, ends))
    BY <1>9 DEF C!Mint
  <2>2. local[h].app \in Apps
    BY <1>9 DEF CTypeInv, CWhere, C!Mint
  <2> DEFINE e == C!NewKey(local[h].app, kind, ends)
  <2>3. e \in C!Key /\ ~e.revoked
    BY <1>8, <2>2
  <2>4. keys' = Append(keys, e)
    BY <2>1
  <2> HIDE DEF e
  <2> QED BY <1>0, <2>3, <2>4, AppendSeq
<1>10. ASSUME NEW h \in Handlers, C!IssueKeyPair(h)
       PROVE  /\ keys' \in Seq(C!Key) /\ DOMAIN keys \subseteq DOMAIN keys'
              /\ \A k \in DOMAIN keys : keys'[k] = keys[k]
              /\ \A k \in DOMAIN keys' \ DOMAIN keys : ~keys'[k].revoked
  <2> DEFINE a == C!NewKey(local[h].app, "public", FALSE)
             b == C!NewKey(local[h].app, "secret", FALSE)
  <2>1. local[h].app \in Apps
    BY <1>10 DEF CTypeInv, CWhere, C!IssueKeyPair
  <2>2. a \in C!Key /\ b \in C!Key /\ ~a.revoked /\ ~b.revoked
    BY <1>1, <1>8, <2>1, Zenon DEF C!KeyKinds
  <2>3. keys' = keys \o <<a, b>>
    BY <1>10 DEF C!IssueKeyPair
  <2> HIDE DEF a, b
  <2>4. <<a, b>> \in Seq(C!Key) /\ Len(<<a, b>>) = 2 /\ <<a, b>>[1] = a /\ <<a, b>>[2] = b
    BY <2>2
  <2>5. /\ keys' \in Seq(C!Key) /\ Len(keys') = Len(keys) + 2 /\ Len(keys) \in Nat
        /\ \A i \in 1..Len(keys) + 2 : keys'[i] = IF i =< Len(keys) THEN keys[i] ELSE <<a, b>>[i - Len(keys)]
    BY <1>0, <2>3, <2>4, ConcatProperties
  <2>6. DOMAIN keys' = 1..Len(keys) + 2 /\ DOMAIN keys = 1..Len(keys)
    BY <1>0, <2>5
  <2>7. \A k \in DOMAIN keys : keys'[k] = keys[k]
    BY <2>5, <2>6
  <2>8. ASSUME NEW k \in DOMAIN keys' \ DOMAIN keys  PROVE keys'[k] \in {a, b}
    <3>1. k - Len(keys) \in {1, 2} /\ keys'[k] = <<a, b>>[k - Len(keys)]
      BY <2>5, <2>6
    <3> QED BY <2>4, <3>1
  <2> QED BY <2>2, <2>5, <2>6, <2>7, <2>8
<1> QED BY <1>5, <1>6, <1>7, <1>9, <1>10, CWriters

(* A developer is created once, and stays.                                 *)
LEMMA CDevelopersChange ==
  ASSUME C!Parameters, CTypeInv, C!Next
  PROVE  /\ developers' \in [C!Providers -> C!Or(C!Developer)]
         /\ \A by \in C!Providers : developers[by] # Nil => developers'[by] # Nil
<1>0. /\ developers \in [C!Providers -> C!Or(C!Developer)] /\ Nil \notin C!Developer
      /\ \A by \in C!Providers : developers[by] # Nil => developers[by] \in C!Developer
  BY DEF CTypeInv, C!TypeOK, C!Parameters
<1>1. ASSUME NEW h \in Handlers, C!Account(h) \/ C!CreateAccount(h)
      PROVE  developers' = developers \/ \E by \in C!Providers, e \in C!Developer : developers' = [developers EXCEPT ![by] = e]
  <2>1. local[h].of \in C!Providers /\ local[h].two \in BOOLEAN
    BY <1>1 DEF CTypeInv, C!TypeOK, CWhere, C!Account, C!CreateAccount, C!Locals
  <2>2. CASE C!CreateAccount(h)
    <3>1. [twoFactor |-> local[h].two] \in C!Developer
      BY <2>1, Zenon DEF C!Developer
    <3> QED BY <2>1, <2>2, <3>1 DEF C!CreateAccount
  <2>3. CASE C!Account(h) /\ developers[local[h].of] # Nil
    <3>1. [developers[local[h].of] EXCEPT !.twoFactor = local[h].two] \in C!Developer
      <4>1. \A d \in C!Developer, b \in BOOLEAN : [d EXCEPT !.twoFactor = b] \in C!Developer
        BY Zenon DEF C!Developer
      <4> QED BY <1>0, <2>1, <2>3, <4>1, Zenon
    <3>2. developers' = [developers EXCEPT ![local[h].of] = [developers[local[h].of] EXCEPT !.twoFactor = local[h].two]]
      BY <2>3 DEF C!Account
    <3> QED BY <2>1, <3>1, <3>2
  <2>4. CASE C!Account(h) /\ developers[local[h].of] = Nil
    BY <2>4 DEF C!Account
  <2> QED BY <1>1, <2>2, <2>3, <2>4
<1>2. developers' = developers \/ \E by \in C!Providers, e \in C!Developer : developers' = [developers EXCEPT ![by] = e]
  BY <1>1, CWriters
<1> QED BY <1>0, <1>2

-----------------------------------------------------------------------------
(* Types.                                                                  *)

(* A step of a handler moves it alone. *)
LEMMA CMoves ==
  ASSUME NEW h \in Handlers, CStep(h)
  PROVE  /\ \E label \in C!Labels : at' = [at EXCEPT ![h] = label]
         /\ \E locals : local' = [local EXCEPT ![h] = locals]
         /\ \/ at[h] = "idle" /\ C!Call
            \/ at[h] # "idle" /\ UNCHANGED <<asked, crossed>>
  BY DEF CStep, C!SigningIn, C!SignedIn, C!AskMail, C!SendMail, C!Follow, C!Guess, C!Wrong, C!Use, C!Others, C!Abroad,
         C!Account, C!CreateAccount, C!StartSession, C!Arrive, C!Revoke, C!AskApp, C!CreateApp, C!IssueKeyPair, C!AskKey,
         C!Mint, C!AskRevoke, C!Last, C!Retire, C!Refused, C!Goto, C!Finish, C!Start, C!Labels

(* What no handler does. *)
CWorld == C!AskGitHub \/ C!Lapse

LEMMA CWorldStays ==
  ASSUME CWorld
  PROVE  UNCHANGED <<at, local>> /\ (C!Call \/ UNCHANGED <<asked, crossed>>)
  BY DEF CWorld, C!AskGitHub, C!Lapse

LEMMA COthersStay ==
  ASSUME CTypeInv, NEW h \in Handlers, CStep(h)
  PROVE  /\ at' \in [Handlers -> C!Labels] /\ DOMAIN local' = Handlers
         /\ \A g \in Handlers \ {h} : at'[g] = at[g] /\ local'[g] = local[g]
  BY CMoves DEF CTypeInv, C!TypeOK

LEMMA CCallsStep ==
  ASSUME C!Parameters, CTypeInv, C!Call \/ UNCHANGED <<asked, crossed>>
  PROVE  asked' \in 0..MaxCalls /\ crossed' \in BOOLEAN
<1>1. CASE C!Call
  <2>1. asked' \in 0..MaxCalls
    BY <1>1 DEF CTypeInv, C!TypeOK, C!Call, C!Parameters
  <2>2. crossed' \in BOOLEAN
    BY <1>1 DEF CTypeInv, C!TypeOK, C!Call
  <2> QED BY <2>1, <2>2
<1>2. CASE UNCHANGED <<asked, crossed>>
  BY <1>2 DEF CTypeInv, C!TypeOK
<1> QED BY <1>1, <1>2

(* A handler begins with a mail, a state or a session that is there, and   *)
(* goes on with what it has.                                               *)
LEMMA CLocalsStep ==
  ASSUME C!Parameters, CTypeInv, NEW h \in Handlers, CStep(h)
  PROVE  local'[h] \in C!Locals /\ CWhere(h)'
<1>0. /\ tokens \in Seq(C!Token) /\ logins \in Seq(C!Session) /\ keys \in Seq(C!Key)
      /\ local \in [Handlers -> C!Locals] /\ at \in [Handlers -> C!Labels] /\ local[h] \in C!Locals
      /\ CWhere(h)
  BY DEF CTypeInv, C!TypeOK
<1>1. /\ \A n \in DOMAIN tokens : n \in Nat /\ tokens[n] \in C!Token
      /\ \A n \in DOMAIN logins : n \in Nat /\ logins[n] \in C!Session
      /\ \A k \in DOMAIN keys : k \in Nat /\ keys[k] \in C!Key
  BY <1>0
<1>2. /\ DOMAIN tokens \subseteq DOMAIN tokens' /\ DOMAIN keys \subseteq DOMAIN keys'
      /\ \A by \in C!Providers : developers[by] # Nil => developers'[by] # Nil
  <2>1. C!Next
    BY DEF C!Next, CStep
  <2> QED BY <2>1, CTokensChange, CKeysChange, CDevelopersChange
<1>3. C!Blank \in C!Locals
  <2>1. FALSE \in BOOLEAN
    OBVIOUS
  <2> QED BY <2>1 DEF C!Blank, C!Locals
<1>4. \/ local'[h] = C!Blank /\ at'[h] \in {"idle", "send"}
      \/ C!Follow(h) \/ C!Guess(h) \/ C!Abroad(h) \/ C!Arrive(h) \/ C!AskApp(h) \/ C!AskKey(h) \/ C!AskRevoke(h)
      \/ /\ local'[h] = local[h]
         /\ \/ at[h] = "use" /\ at'[h] \in {"others", "abroad"}
            \/ at[h] = "others" /\ at'[h] = "account"
            \/ at[h] = "account" /\ at'[h] = "create"
            \/ at[h] = "account" /\ at'[h] = "session" /\ developers[local[h].of] # Nil
            \/ at[h] = "app" /\ at'[h] = "pair"
            \/ at[h] = "last" /\ at'[h] = "retire"
      \/ C!CreateAccount(h) /\ at'[h] = "session" /\ local'[h] = local[h]
  BY <1>0 DEF CStep, C!SigningIn, C!SignedIn, C!AskMail, C!SendMail, C!Follow, C!Guess, C!Wrong, C!Use, C!Others, C!Abroad,
         C!Account, C!CreateAccount, C!StartSession, C!Arrive, C!Revoke, C!AskApp, C!CreateApp, C!IssueKeyPair, C!AskKey,
         C!Mint, C!AskRevoke, C!Last, C!Retire, C!Refused, C!Goto, C!Finish, C!Start
<1>5. CASE local'[h] = C!Blank /\ at'[h] \in {"idle", "send"}
  BY <1>3, <1>5 DEF CWhere, CSigningInAt
<1>6. CASE /\ local'[h] = local[h]
           /\ \/ at[h] = "use" /\ at'[h] \in {"others", "abroad"}
              \/ at[h] = "others" /\ at'[h] = "account"
              \/ at[h] = "account" /\ at'[h] = "create"
              \/ at[h] = "account" /\ at'[h] = "session" /\ developers[local[h].of] # Nil
              \/ at[h] = "app" /\ at'[h] = "pair"
              \/ at[h] = "last" /\ at'[h] = "retire"
  BY <1>0, <1>2, <1>6 DEF CWhere, CSigningInAt
<1>7. CASE C!CreateAccount(h) /\ at'[h] = "session" /\ local'[h] = local[h]
  <2>1. developers'[local[h].of] # Nil /\ local[h].of \in C!Providers
    <3>1. local[h].of \in C!Providers /\ local[h].two \in BOOLEAN /\ developers \in [C!Providers -> C!Or(C!Developer)]
      BY <1>0, <1>7 DEF C!CreateAccount, CWhere, C!Locals, CTypeInv, C!TypeOK
    <3>2. [twoFactor |-> local[h].two] \in C!Developer
      BY <3>1, Zenon DEF C!Developer
    <3>3. \/ developers'[local[h].of] = [twoFactor |-> local[h].two]
          \/ developers[local[h].of] # Nil /\ developers' = developers
      BY <1>7, <3>1 DEF C!CreateAccount
    <3> QED BY <3>1, <3>2, <3>3 DEF C!Parameters
  <2> QED BY <1>0, <1>2, <1>7, <2>1 DEF CWhere, CSigningInAt, C!CreateAccount
<1>8. CASE C!Follow(h) \/ C!Guess(h)
  <2>1. \E n \in DOMAIN tokens : \E a \in {0, tokens[n].attempts + 1}, by \in {"email", tokens[n].by} :
          C!Start(h, "use", IF C!Follow(h) THEN [C!Blank EXCEPT !.token = n, !.of = by]
                                       ELSE [C!Blank EXCEPT !.token = n, !.of = by, !.attempts = a])
    BY <1>8 DEF C!Follow, C!Guess, C!Unused
  <2>2. PICK n \in DOMAIN tokens, by \in C!Providers, a \in Nat :
          /\ at'[h] = "use"
          /\ local'[h] = [of |-> by, token |-> n, session |-> 0, attempts |-> a, key |-> 0, app |-> Nil,
                        fresh |-> FALSE, two |-> FALSE]
    <3>1. \A n \in DOMAIN tokens : {0, tokens[n].attempts + 1} \subseteq Nat /\ {"email", tokens[n].by} \subseteq C!Providers
      BY <1>1 DEF C!Token, C!Providers
    <3>2. PICK n \in DOMAIN tokens, by \in C!Providers, a \in Nat :
            C!Start(h, "use", IF C!Follow(h) THEN [C!Blank EXCEPT !.token = n, !.of = by]
                                         ELSE [C!Blank EXCEPT !.token = n, !.of = by, !.attempts = a])
      BY <2>1, <3>1
    <3>3. CASE C!Follow(h)
      <4>1. /\ at'[h] = "use"
            /\ local'[h] = [of |-> by, token |-> n, session |-> 0, attempts |-> 0, key |-> 0, app |-> Nil,
                          fresh |-> FALSE, two |-> FALSE]
        BY <1>0, <3>2, <3>3 DEF C!Start, C!Blank
      <4>2. 0 \in Nat
        OBVIOUS
      <4> QED BY <4>1, <4>2
    <3>4. CASE ~C!Follow(h)
      BY <1>0, <3>2, <3>4 DEF C!Start, C!Blank
    <3> QED BY <3>3, <3>4
  <2>3. local'[h] \in C!Locals
    <3>1. n \in Nat /\ 0 \in Nat /\ FALSE \in BOOLEAN
      BY <1>1
    <3> QED BY <2>2, <3>1 DEF C!Locals
  <2> QED BY <1>2, <2>2, <2>3 DEF CWhere, CSigningInAt
<1>9. CASE C!Abroad(h) /\ at'[h] # "idle"
  <2>1. PICK two \in BOOLEAN : local'[h] = [local[h] EXCEPT !.two = two]
    BY <1>0, <1>9 DEF C!Abroad, C!Goto, C!Finish
  <2>2. at[h] = "abroad" /\ at'[h] = "account"
    BY <1>0, <1>9 DEF C!Abroad, C!Goto, C!Finish
  <2>3. local'[h] \in C!Locals /\ local'[h].of = local[h].of /\ local'[h].token = local[h].token
    BY <1>0, <2>1, Zenon DEF C!Locals
  <2> QED BY <1>0, <1>2, <2>2, <2>3 DEF CWhere, CSigningInAt
<1>10. CASE C!Arrive(h)
  <2>1. PICK n \in DOMAIN logins :
          C!Start(h, "in", [C!Blank EXCEPT !.of = logins[n].of, !.session = n, !.fresh = logins[n].fresh,
                                       !.two = developers[logins[n].of].twoFactor])
    BY <1>10 DEF C!Arrive, C!Alive
  <2>2. /\ at'[h] = "in"
        /\ local'[h] = [of |-> logins[n].of, token |-> 0, session |-> n, attempts |-> 0, key |-> 0,
                      app |-> Nil, fresh |-> logins[n].fresh, two |-> developers[logins[n].of].twoFactor]
    BY <1>0, <2>1 DEF C!Start, C!Blank
  <2>3. /\ logins[n].of \in C!Providers /\ logins[n].fresh \in BOOLEAN
        /\ developers[logins[n].of] \in C!Developer /\ n \in Nat
    BY <1>1 DEF CTypeInv, C!TypeOK, C!Session
  <2>4. developers[logins[n].of].twoFactor \in BOOLEAN
    BY <2>3 DEF C!Developer
  <2>5. local'[h] \in C!Locals
    <3>1. ASSUME NEW p \in C!Providers, NEW f \in BOOLEAN, NEW t \in BOOLEAN
          PROVE  [of |-> p, token |-> 0, session |-> n, attempts |-> 0, key |-> 0, app |-> Nil,
                  fresh |-> f, two |-> t] \in C!Locals
      BY <2>3 DEF C!Locals
    <3> QED BY <2>2, <2>3, <2>4, <3>1, Zenon
  <2> QED BY <2>2, <2>3, <2>5 DEF CWhere, CSigningInAt
<1>11. CASE C!AskApp(h) \/ C!AskKey(h)
  <2>1. PICK a \in Apps, label \in {"app", "mint"} :
          at[h] = "in" /\ at'[h] = label /\ local'[h] = [local[h] EXCEPT !.app = a]
    BY <1>0, <1>11 DEF C!AskApp, C!AskKey, C!Goto
  <2>2. local'[h] \in C!Locals /\ local'[h].of = local[h].of /\ local'[h].app = a
    BY <1>0, <2>1, Zenon DEF C!Locals
  <2> QED BY <1>0, <2>1, <2>2 DEF CWhere, CSigningInAt
<1>12. CASE C!AskRevoke(h)
  <2>1. PICK k \in DOMAIN keys :
          at[h] = "in" /\ at'[h] = "last" /\ local'[h] = [local[h] EXCEPT !.key = k]
    BY <1>0, <1>12 DEF C!AskRevoke, C!Goto
  <2>2. local'[h] \in C!Locals /\ local'[h].of = local[h].of /\ local'[h].key = k
    BY <1>0, <1>1, <2>1, Zenon DEF C!Locals
  <2> QED BY <1>0, <1>2, <2>1, <2>2 DEF CWhere, CSigningInAt
<1>13. C!Abroad(h) /\ at'[h] = "idle" => local'[h] = C!Blank
  BY <1>0 DEF C!Abroad, C!Goto, C!Finish
<1> QED BY <1>4, <1>5, <1>6, <1>7, <1>8, <1>9, <1>10, <1>11, <1>12, <1>13

LEMMA CRowsStep ==
  ASSUME C!Parameters, CTypeInv, C!Next
  PROVE  /\ listed' \in BOOLEAN
         /\ \A n \in DOMAIN logins' : developers'[logins'[n].of] # Nil
         /\ owner' \in [Apps -> C!Or(C!Providers)]
<1>1. listed' \in BOOLEAN
  BY CWriters DEF CTypeInv, C!TypeOK
<1>2. ASSUME NEW n \in DOMAIN logins'  PROVE developers'[logins'[n].of] # Nil
  <2>1. CASE n \in DOMAIN logins
    <3>1. logins[n] \in C!Session
      BY <2>1 DEF CTypeInv, C!TypeOK
    <3>2. logins[n].of \in C!Providers
      BY <3>1 DEF C!Session
    <3> QED BY <2>1, <3>2, CSessionsChange, CDevelopersChange DEF CTypeInv, C!TypeOK
  <2>2. CASE n \notin DOMAIN logins
    <3>1. PICK h \in Handlers : C!StartSession(h) /\ logins'[n].of = local[h].of
      BY <2>2, CSessionsChange
    <3>2. developers[local[h].of] # Nil /\ local[h].of \in C!Providers
      BY <3>1 DEF C!StartSession, CTypeInv, CWhere
    <3> QED BY <3>1, <3>2, CDevelopersChange
  <2> QED BY <2>1, <2>2
<1>3. owner' \in [Apps -> C!Or(C!Providers)]
  BY CWriters DEF CTypeInv, C!TypeOK, CWhere, C!CreateApp
<1> QED BY <1>1, <1>2, <1>3

LEMMA CTypeInvariant == ASSUME C!Parameters PROVE C!Spec => []CTypeInv
<1>1. C!Init => CTypeInv
  <2> SUFFICES ASSUME C!Init PROVE CTypeInv
    OBVIOUS
  <2>1. FALSE \in BOOLEAN /\ TRUE \in BOOLEAN
    OBVIOUS
  <2>2. C!Blank \in C!Locals
    BY <2>1 DEF C!Blank, C!Locals
  <2>3. listed \in BOOLEAN /\ crossed \in BOOLEAN
    BY <2>1, Zenon DEF C!Init
  <2>4. asked \in 0..MaxCalls
    BY DEF C!Init, C!Parameters
  <2>5. tokens \in Seq(C!Token) /\ logins \in Seq(C!Session) /\ keys \in Seq(C!Key) /\ DOMAIN logins = {}
    BY EmptySeq DEF C!Init
  <2>6. /\ developers \in [C!Providers -> C!Or(C!Developer)] /\ owner \in [Apps -> C!Or(C!Providers)]
        /\ at \in [Handlers -> C!Labels] /\ local \in [Handlers -> C!Locals]
    BY <2>2 DEF C!Init, C!Labels
  <2>7. \A h \in Handlers : CWhere(h)
    BY DEF C!Init, CWhere, CSigningInAt
  <2> QED BY <2>3, <2>4, <2>5, <2>6, <2>7 DEF CTypeInv, C!TypeOK
<1>2. CTypeInv /\ [C!Next]_C!vars => CTypeInv'
  <2> SUFFICES ASSUME CTypeInv, [C!Next]_C!vars PROVE CTypeInv'
    OBVIOUS
  <2>1. CASE UNCHANGED C!vars
    BY <2>1 DEF C!vars, CTypeInv, C!TypeOK, CWhere
  <2>2. CASE C!Next
    <3>1. /\ tokens' \in Seq(C!Token) /\ logins' \in Seq(C!Session) /\ keys' \in Seq(C!Key)
          /\ DOMAIN tokens \subseteq DOMAIN tokens' /\ DOMAIN keys \subseteq DOMAIN keys'
          /\ developers' \in [C!Providers -> C!Or(C!Developer)]
          /\ \A by \in C!Providers : developers[by] # Nil => developers'[by] # Nil
      BY <2>2, CTokensChange, CSessionsChange, CKeysChange, CDevelopersChange
    <3>2. ASSUME NEW g \in Handlers, at'[g] = at[g], local'[g] = local[g]  PROVE CWhere(g)'
      <4>1. CWhere(g)
        BY DEF CTypeInv
      <4> QED BY <3>1, <3>2, <4>1 DEF CWhere, CSigningInAt
    <3>3. ASSUME NEW h \in Handlers, CStep(h)
          PROVE  /\ at' \in [Handlers -> C!Labels] /\ local' \in [Handlers -> C!Locals]
                 /\ asked' \in 0..MaxCalls /\ crossed' \in BOOLEAN
                 /\ \A g \in Handlers : CWhere(g)'
      <4>1. /\ at' \in [Handlers -> C!Labels] /\ DOMAIN local' = Handlers
            /\ \A g \in Handlers \ {h} : at'[g] = at[g] /\ local'[g] = local[g]
            /\ \E locals : local' = [local EXCEPT ![h] = locals]
        BY <3>3, COthersStay, CMoves
      <4>2. local'[h] \in C!Locals /\ CWhere(h)'
        BY <3>3, CLocalsStep
      <4>3. local' \in [Handlers -> C!Locals]
        BY <4>1, <4>2 DEF CTypeInv, C!TypeOK
      <4>4. asked' \in 0..MaxCalls /\ crossed' \in BOOLEAN
        BY <3>3, CMoves, CCallsStep
      <4> QED BY <3>2, <4>1, <4>2, <4>3, <4>4
    <3>4. CASE CWorld
      <4>1. UNCHANGED <<at, local>> /\ asked' \in 0..MaxCalls /\ crossed' \in BOOLEAN
        BY <3>4, CWorldStays, CCallsStep
      <4> QED BY <2>2, <3>1, <3>2, <4>1, CRowsStep DEF CTypeInv, C!TypeOK
    <3>5. (\E h \in Handlers : CStep(h)) \/ CWorld
      BY <2>2 DEF C!Next, CStep, CWorld
    <3> QED BY <2>2, <3>1, <3>3, <3>4, <3>5, CRowsStep DEF CTypeInv, C!TypeOK
  <2> QED BY <2>1, <2>2
<1> QED BY <1>1, <1>2, PTL DEF C!Spec

(* Rows and local variables of every handler keep their types, and nobody  *)
(* is signed in without an account, also when two sign-ins create it.      *)
LEMMA CTypeCorrect == ASSUME C!Parameters PROVE C!Spec => []C!TypeOK
  BY CTypeInvariant, PTL DEF CTypeInv

-----------------------------------------------------------------------------
(* Calls that do not overlap.                                              *)

CAloneInv == ~crossed => \A g, h \in C!InFlight : g = h

(* Without an overlap no other handler is under way, before and after.     *)
LEMMA CUndisturbed ==
  ASSUME CTypeInv, CAloneInv, NEW h \in Handlers, CStep(h), ~crossed'
  PROVE  ~crossed /\ \A g \in Handlers \ {h} : at[g] = "idle" /\ at'[g] = "idle"
<1>1. CASE at[h] = "idle" /\ C!Call
  <2>1. ~crossed /\ C!InFlight = {}
    BY <1>1 DEF C!Call
  <2> QED BY <2>1, COthersStay DEF C!InFlight
<1>2. CASE at[h] # "idle" /\ UNCHANGED <<asked, crossed>>
  <2>1. ~crossed /\ h \in C!InFlight
    BY <1>2 DEF C!InFlight
  <2> QED BY <2>1, COthersStay DEF C!InFlight, CAloneInv
<1> QED BY <1>1, <1>2, CMoves

LEMMA CStepOrWorld ==
  ASSUME [C!Next]_C!vars
  PROVE  (\E h \in Handlers : CStep(h)) \/ CWorld \/ UNCHANGED C!vars
  BY DEF C!Next, CStep, CWorld

LEMMA COneAtATime == ASSUME C!Parameters PROVE C!Spec => []CAloneInv
<1>1. C!Init => CAloneInv
  BY DEF C!Init, CAloneInv, C!InFlight
<1>2. CTypeInv /\ CAloneInv /\ [C!Next]_C!vars => CAloneInv'
  <2> SUFFICES ASSUME CTypeInv, CAloneInv, [C!Next]_C!vars, ~crossed'
               PROVE  \A g, k \in C!InFlight' : g = k
    BY DEF CAloneInv
  <2>1. ASSUME NEW h \in Handlers, CStep(h)  PROVE \A g, k \in C!InFlight' : g = k
    BY <2>1, CUndisturbed DEF C!InFlight
  <2>2. CASE CWorld
    <3>1. C!InFlight' = C!InFlight
      BY <2>2, CWorldStays DEF C!InFlight
    <3> QED BY <2>2, <3>1, CWorldStays DEF CAloneInv, C!Call
  <2>3. CASE UNCHANGED C!vars
    BY <2>3 DEF C!vars, CAloneInv, C!InFlight
  <2> QED BY <2>1, <2>2, <2>3, CStepOrWorld
<1> QED BY <1>1, <1>2, CTypeInvariant, PTL DEF C!Spec

-----------------------------------------------------------------------------
(* Mails.                                                                  *)

COlderUsed(m) == \A n \in C!Mails : n =< m => tokens[n].used
CStillUsed(m) == \A n \in C!Mails' : n =< m => tokens'[n].used
CByMail       == {s \in DOMAIN logins : logins[s].of = "email"}

(* Whoever is signed in by a mail, or is about to be, has used it and the  *)
(* older ones up.                                                          *)
CMailInv ==
  /\ \A s \in CByMail : logins[s].via \in DOMAIN tokens /\ COlderUsed(logins[s].via)
  /\ \A h \in Handlers : local[h].of = "email" =>
       /\ at[h] # "abroad"
       /\ at[h] \in {"account", "create", "session"} => COlderUsed(local[h].token)

(* Used mails stay used, and a new one is not an older one.                *)
LEMMA COlderStays ==
  ASSUME CTypeInv, C!Next, NEW m \in DOMAIN tokens, COlderUsed(m)
  PROVE  CStillUsed(m)
<1>1. tokens \in Seq(C!Token)
  BY DEF CTypeInv, C!TypeOK
<1>2. m \in Nat /\ m =< Len(tokens) /\ Len(tokens) \in Nat
  BY <1>1
<1>3. ASSUME NEW n \in C!Mails', n =< m  PROVE n \in C!Mails /\ tokens[n].used
  <2>1. n \in DOMAIN tokens
    BY <1>2, <1>3, CTokensChange DEF C!Mails
  <2> QED BY <1>3, <2>1, CTokensChange DEF C!Mails, COlderUsed
<1> QED BY <1>3, CTokensChange DEF CStillUsed, C!Mails

(* How a sign-in goes on. *)
LEMMA CSignInGoes ==
  ASSUME CTypeInv, NEW h \in Handlers, CStep(h)
  PROVE  /\ at'[h] = "abroad" => C!Use(h) /\ local'[h] = local[h] /\ local[h].of # "email"
         /\ at'[h] = "others" => C!Use(h) /\ local'[h] = local[h] /\ local[h].of = "email"
         /\ at'[h] \in {"account", "create", "session"} =>
              /\ local'[h].of = local[h].of /\ local'[h].token = local[h].token
              /\ C!Others(h) \/ at[h] \in {"abroad", "account", "create"}
         /\ at'[h] = "use" => C!Follow(h) \/ C!Guess(h)
<1>0. at \in [Handlers -> C!Labels] /\ local \in [Handlers -> C!Locals]
  BY DEF CTypeInv, C!TypeOK
<1>1. /\ at'[h] \in {"abroad", "others"} => C!Use(h)
      /\ at'[h] = "use" => C!Follow(h) \/ C!Guess(h)
      /\ at'[h] \in {"account", "create", "session"} =>
           C!Others(h) \/ C!Abroad(h) \/ C!Account(h) \/ C!CreateAccount(h)
  BY <1>0 DEF CStep, C!SigningIn, C!SignedIn, C!AskMail, C!SendMail, C!Wrong,
         C!StartSession, C!Arrive, C!Revoke, C!AskApp, C!CreateApp,
         C!IssueKeyPair, C!AskKey, C!Mint, C!AskRevoke, C!Last, C!Retire, C!Refused, C!Goto, C!Finish, C!Start,
         C!Use, C!Others, C!Abroad, C!Account, C!CreateAccount, C!Follow, C!Guess
<1>2. C!Use(h) => local'[h] = local[h] /\ at'[h] = IF local[h].of = "email" THEN "others" ELSE "abroad"
  BY <1>0 DEF C!Use, C!Goto
<1>3. /\ C!Others(h) \/ C!Account(h) => local'[h] = local[h]
      /\ C!CreateAccount(h) /\ at'[h] # "idle" => local'[h] = local[h]
      /\ C!Account(h) \/ C!CreateAccount(h) \/ C!Abroad(h) => at[h] \in {"abroad", "account", "create"}
  BY <1>0 DEF C!Others, C!Account, C!CreateAccount, C!Abroad, C!Goto, C!Finish
<1>4. C!Abroad(h) /\ at'[h] # "idle" => local'[h].of = local[h].of /\ local'[h].token = local[h].token
  BY <1>0 DEF C!Abroad, C!Goto, C!Finish, C!Locals
<1> QED BY <1>1, <1>2, <1>3, <1>4

LEMMA CMailStep ==
  ASSUME CTypeInv, CMailInv, C!Next
  PROVE  CMailInv'
<1>1. ASSUME NEW s \in CByMail'  PROVE logins'[s].via \in DOMAIN tokens' /\ CStillUsed(logins'[s].via)
  <2>1. \E m \in DOMAIN tokens : logins'[s].via = m /\ COlderUsed(m)
    <3>1. CASE s \in DOMAIN logins
      BY <1>1, <3>1, CSessionsChange DEF CByMail, CMailInv
    <3>2. CASE s \notin DOMAIN logins
      <4>1. PICK h \in Handlers : /\ C!StartSession(h) /\ logins'[s].of = local[h].of
                                  /\ logins'[s].via = local[h].token
        BY <1>1, <3>2, CSessionsChange DEF CByMail
      <4>2. at[h] = "session" /\ local[h].of = "email"
        BY <1>1, <4>1 DEF C!StartSession, CByMail
      <4>3. COlderUsed(local[h].token) /\ local[h].token \in DOMAIN tokens
        BY <4>2 DEF CMailInv, CTypeInv, CWhere, CSigningInAt
      <4> QED BY <4>1, <4>3
    <3> QED BY <3>1, <3>2
  <2>2. PICK m \in DOMAIN tokens : logins'[s].via = m /\ COlderUsed(m)
    BY <2>1
  <2>3. CStillUsed(m) /\ m \in DOMAIN tokens'
    BY <2>2, COlderStays, CTokensChange
  <2> QED BY <2>2, <2>3
<1>2. ASSUME NEW g \in Handlers, at'[g] = at[g], local'[g] = local[g], local[g].of = "email"
      PROVE  /\ at'[g] # "abroad"
             /\ at'[g] \in {"account", "create", "session"} => CStillUsed(local'[g].token)
  <2>1. CASE at[g] \in {"account", "create", "session"}
    <3>1. PICK m \in DOMAIN tokens : m = local[g].token /\ COlderUsed(m)
      BY <1>2, <2>1 DEF CMailInv, CTypeInv, CWhere, CSigningInAt
    <3>2. CStillUsed(m)
      BY COlderStays, <3>1
    <3> QED BY <1>2, <2>1, <3>1, <3>2
  <2>2. CASE at[g] \notin {"account", "create", "session"}
    BY <1>2, <2>2 DEF CMailInv
  <2> QED BY <2>1, <2>2
<1>3. ASSUME NEW h \in Handlers, CStep(h), local'[h].of = "email"
      PROVE  /\ at'[h] # "abroad"
             /\ at'[h] \in {"account", "create", "session"} => CStillUsed(local'[h].token)
  <2>1. at'[h] # "abroad"
    BY <1>3, CSignInGoes
  <2>2. ASSUME at'[h] \in {"account", "create", "session"}  PROVE CStillUsed(local'[h].token)
    <3>1. /\ local[h].of = "email" /\ local'[h].token = local[h].token
          /\ C!Others(h) \/ at[h] \in {"abroad", "account", "create"}
      BY <1>3, <2>2, CSignInGoes
    <3>2. CASE C!Others(h)
      <4>1. tokens' = [n \in DOMAIN tokens |->
              IF n \in C!Mails THEN [tokens[n] EXCEPT !.used = TRUE] ELSE tokens[n]]
        BY <3>2 DEF C!Others
      <4>2. ASSUME NEW n \in C!Mails'  PROVE tokens'[n].used
        <5>1. n \in C!Mails /\ tokens[n] \in C!Token
          BY <4>1, <4>2, CTokensChange DEF C!Mails, CTypeInv, C!TypeOK
        <5>2. tokens'[n] = [tokens[n] EXCEPT !.used = TRUE]
          BY <4>1, <5>1 DEF C!Mails
        <5> QED BY <5>1, <5>2, Zenon DEF C!Token
      <4> QED BY <4>2 DEF CStillUsed
    <3>3. CASE at[h] \in {"account", "create"}
      <4>1. PICK m \in DOMAIN tokens : m = local[h].token /\ COlderUsed(m)
        BY <3>1, <3>3 DEF CMailInv, CTypeInv, CWhere, CSigningInAt
      <4>2. CStillUsed(m)
        BY COlderStays, <4>1
      <4> QED BY <3>1, <4>1, <4>2
    <3>4. at[h] # "abroad"
      BY <3>1 DEF CMailInv
    <3> QED BY <3>1, <3>2, <3>3, <3>4
  <2> QED BY <2>1, <2>2
<1>4. ASSUME NEW g \in Handlers, local'[g].of = "email"
      PROVE  /\ at'[g] # "abroad"
             /\ at'[g] \in {"account", "create", "session"} => CStillUsed(local'[g].token)
  <2>1. CASE CWorld
    BY <1>2, <1>4, <2>1, CWorldStays
  <2>2. ASSUME NEW h \in Handlers, CStep(h), h # g
        PROVE  at'[g] = at[g] /\ local'[g] = local[g]
    BY <2>2, COthersStay
  <2>3. CWorld \/ CStep(g) \/ \E h \in Handlers : CStep(h) /\ h # g
    BY DEF C!Next, CStep, CWorld
  <2> QED BY <1>2, <1>3, <1>4, <2>1, <2>2, <2>3
<1> QED BY <1>1, <1>4 DEF CMailInv, COlderUsed, CStillUsed

LEMMA CMailsUsed == ASSUME C!Parameters PROVE C!Spec => []CMailInv
<1>1. C!Init => CMailInv
  BY DEF C!Init, CMailInv, CByMail
<1>2. CTypeInv /\ CMailInv /\ [C!Next]_C!vars => CMailInv'
  <2>1. ASSUME CMailInv, UNCHANGED C!vars  PROVE CMailInv'
    BY <2>1 DEF C!vars, CMailInv, CByMail, COlderUsed, C!Mails
  <2> QED BY <2>1, CMailStep
<1> QED BY <1>1, <1>2, CTypeInvariant, PTL DEF C!Spec

(* Alone, a mail is used as it was read, the sign-in that it leads to is   *)
(* by a newer mail than every sign-in before it, and a wrong code counts.  *)
CNewer(m)  == \A s \in CByMail : logins[s].via < m
CCounted(n) ==
  /\ tokens[n].attempts = tokens[n].wrong /\ tokens[n].wrong =< CodeAttempts
  /\ tokens[n].wrong = CodeAttempts => tokens[n].used

CReads(h) ==
  LET n == local[h].token IN
  /\ at[h] = "use" => /\ ~tokens[n].used /\ tokens[n].by = local[h].of
                      /\ local[h].attempts > 0 => local[h].attempts = tokens[n].attempts + 1
  /\ at[h] \in {"others", "account", "create", "session"} /\ local[h].of = "email" => CNewer(n)

CNewerInv ==
  /\ \A s, t \in CByMail : t < s => logins[t].via < logins[s].via
  /\ \A n \in DOMAIN tokens : CCounted(n)
  /\ \A h \in Handlers : CReads(h)

LEMMA CTokenTypes ==
  ASSUME CTypeInv
  PROVE  /\ \A n \in DOMAIN tokens : /\ tokens[n] \in C!Token /\ n \in Nat
                                     /\ tokens[n].attempts \in Nat /\ tokens[n].wrong \in Nat
         /\ \A s \in DOMAIN logins : logins[s] \in C!Session /\ s \in Nat /\ logins[s].via \in Nat
         /\ DOMAIN logins = 1..Len(logins) /\ Len(logins) \in Nat
<1>1. tokens \in Seq(C!Token) /\ logins \in Seq(C!Session)
  BY DEF CTypeInv, C!TypeOK
<1>2. \A n \in DOMAIN tokens : tokens[n] \in C!Token /\ n \in Nat
  BY <1>1
<1>3. \A s \in DOMAIN logins : logins[s] \in C!Session /\ s \in Nat
  BY <1>1
<1> QED BY <1>1, <1>2, <1>3 DEF C!Token, C!Session

(* A new session by a mail comes last, and by the newest of them.          *)
LEMMA CByMailStep ==
  ASSUME CTypeInv, C!Next, NEW s \in CByMail'
  PROVE  \/ s \in CByMail /\ logins'[s].via = logins[s].via
         \/ /\ s = Len(logins) + 1 /\ s \notin CByMail
            /\ \E h \in Handlers : /\ C!StartSession(h) /\ local[h].of = "email"
                                   /\ logins'[s].via = local[h].token
<1>1. CASE s \in DOMAIN logins
  BY <1>1, CSessionsChange DEF CByMail
<1>2. CASE s \notin DOMAIN logins
  BY <1>2, CSessionsChange DEF CByMail
<1> QED BY <1>1, <1>2

LEMMA CCountedStep ==
  ASSUME C!Parameters, CTypeInv, CNewerInv, C!Next, NEW n \in DOMAIN tokens'
  PROVE  CCounted(n)'
<1>1. CASE n \notin DOMAIN tokens
  BY <1>1, CTokensChange DEF CCounted, C!Parameters
<1>2. CASE n \in DOMAIN tokens /\ CWrongAt(n)
  <2>1. PICK h \in Handlers :
          /\ C!Wrong(h) /\ n = local[h].token
          /\ tokens'[n].attempts = local[h].attempts /\ tokens'[n].wrong = tokens[n].wrong + 1
          /\ local[h].attempts >= CodeAttempts => tokens'[n].used
    BY <1>2 DEF CWrongAt
  <2>2. at[h] = "use" /\ local[h].attempts > 0
    BY <2>1 DEF C!Wrong
  <2>3. CReads(h) /\ CCounted(n)
    BY <1>2 DEF CNewerInv
  <2>4. local[h].attempts = tokens[n].wrong + 1 /\ ~tokens[n].used
    BY <2>1, <2>2, <2>3 DEF CReads, CCounted
  <2>5. tokens[n].wrong \in Nat /\ CodeAttempts \in Nat
    BY <1>2, CTokenTypes DEF C!Parameters
  <2>6. tokens[n].wrong < CodeAttempts
    BY <2>3, <2>4, <2>5 DEF CCounted
  <2>7. tokens'[n].attempts = tokens'[n].wrong /\ tokens'[n].wrong =< CodeAttempts
    BY <2>1, <2>4, <2>5, <2>6
  <2>8. tokens'[n].wrong = CodeAttempts => tokens'[n].used
    <3>1. tokens'[n].wrong = CodeAttempts => local[h].attempts >= CodeAttempts
      BY <2>1, <2>4, <2>5
    <3> QED BY <2>1, <3>1
  <2> QED BY <2>7, <2>8 DEF CCounted
<1>3. CASE /\ n \in DOMAIN tokens
           /\ tokens'[n].attempts = tokens[n].attempts /\ tokens'[n].wrong = tokens[n].wrong
  BY <1>3, CTokensChange DEF CCounted, CNewerInv
<1> QED BY <1>1, <1>2, <1>3, CTokensChange

(* Time uses nothing up. *)
LEMMA CWorldTokens ==
  ASSUME CTypeInv, CWorld, NEW n \in DOMAIN tokens
  PROVE  tokens'[n].used = tokens[n].used /\ tokens'[n].by = tokens[n].by /\ tokens'[n].attempts = tokens[n].attempts
<1>0. tokens \in Seq(C!Token) /\ tokens[n] \in C!Token
  BY CTokenTypes DEF CTypeInv, C!TypeOK
<1>1. CASE tokens' = tokens
  BY <1>1
<1>2. CASE C!AskGitHub
  <2>1. C!NewToken("github") \in C!Token
    BY DEF C!NewToken, C!Token, C!Providers
  <2>2. tokens' = Append(tokens, C!NewToken("github"))
    BY <1>2 DEF C!AskGitHub
  <2> QED BY <1>0, <2>1, <2>2, AppendSeq
<1>3. ASSUME NEW m \in C!Unused, tokens' = [tokens EXCEPT ![m].live = FALSE]
      PROVE  tokens'[n].used = tokens[n].used /\ tokens'[n].by = tokens[n].by /\ tokens'[n].attempts = tokens[n].attempts
  <2>1. tokens'[n] = tokens[n] \/ tokens'[n] = [tokens[n] EXCEPT !.live = FALSE]
    BY <1>3
  <2> QED BY <1>0, <2>1, Zenon DEF C!Token
<1> QED BY <1>1, <1>2, <1>3 DEF CWorld, C!Lapse

LEMMA CReadsStep ==
  ASSUME CTypeInv, CMailInv, CNewerInv, NEW h \in Handlers, CStep(h)
  PROVE  CReads(h)'
<1>0. /\ at \in [Handlers -> C!Labels] /\ local \in [Handlers -> C!Locals]
      /\ C!Next
  BY DEF CTypeInv, C!TypeOK, C!Next, CStep
<1>1. ASSUME at'[h] = "use"
      PROVE  LET n == local'[h].token IN
             /\ ~tokens'[n].used /\ tokens'[n].by = local'[h].of
             /\ local'[h].attempts > 0 => local'[h].attempts = tokens'[n].attempts + 1
  <2>1. C!Follow(h) \/ C!Guess(h)
    BY <1>1, CSignInGoes
  <2>2. tokens' = tokens
    BY <2>1 DEF C!Follow, C!Guess, C!tables
  <2>3. CASE C!Follow(h)
    <3>1. PICK n \in C!Unused : C!Start(h, "use", [C!Blank EXCEPT !.token = n, !.of = tokens[n].by])
      BY <2>3 DEF C!Follow
    <3>2. local'[h].token = n /\ local'[h].of = tokens[n].by /\ local'[h].attempts = 0
      BY <1>0, <3>1 DEF C!Start, C!Blank
    <3> QED BY <2>2, <3>2 DEF C!Unused
  <2>4. CASE C!Guess(h)
    <3>1. PICK n \in C!Unused \cap C!Mails : \E a \in {0, tokens[n].attempts + 1} :
            C!Start(h, "use", [C!Blank EXCEPT !.token = n, !.of = "email", !.attempts = a])
      BY <2>4 DEF C!Guess
    <3>2. PICK a \in {0, tokens[n].attempts + 1} :
            C!Start(h, "use", [C!Blank EXCEPT !.token = n, !.of = "email", !.attempts = a])
      BY <3>1
    <3>3. local'[h].token = n /\ local'[h].of = "email" /\ local'[h].attempts = a
      BY <1>0, <3>2 DEF C!Start, C!Blank
    <3>4. tokens[n].attempts \in Nat
      BY CTokenTypes DEF C!Unused
    <3> QED BY <2>2, <3>2, <3>3, <3>4 DEF C!Unused, C!Mails
  <2> QED BY <2>1, <2>3, <2>4
<1>2. ASSUME at'[h] \in {"others", "account", "create", "session"}, local'[h].of = "email", NEW s \in CByMail'
      PROVE  logins'[s].via < local'[h].token
  <2>1. local[h].of = "email" /\ local'[h].token = local[h].token
        /\ (C!Use(h) \/ C!Others(h) \/ at[h] \in {"account", "create"})
    <3>1. at[h] # "abroad" \/ local[h].of # "email"
      BY DEF CMailInv
    <3> QED BY <1>2, <3>1, CSignInGoes
  <2>2. s \in CByMail /\ logins'[s].via = logins[s].via
    <3>1. ~C!StartSession(h)
      BY <2>1 DEF C!StartSession, C!Use, C!Others
    <3>2. ASSUME NEW g \in Handlers, C!StartSession(g)  PROVE g = h
      <4>1. at'[g] # at[g]
        BY <1>0, <3>2 DEF C!StartSession, C!Finish, C!Goto
      <4> QED BY <4>1, COthersStay
    <3> QED BY <1>0, <3>1, <3>2, CByMailStep
  <2>3. CASE C!Use(h)
    <3>1. at[h] = "use" /\ local[h].token \in DOMAIN tokens
      BY <2>3 DEF C!Use, CTypeInv, CWhere, CSigningInAt
    <3>2. ~tokens[local[h].token].used /\ local[h].token \in C!Mails
      BY <2>1, <3>1 DEF CNewerInv, CReads, C!Mails
    <3>3. ~(local[h].token =< logins[s].via)
      BY <2>2, <3>2 DEF CMailInv, COlderUsed
    <3>4. local[h].token \in Nat /\ logins[s].via \in Nat
      BY <2>2, <3>1, CTokenTypes DEF CByMail
    <3> QED BY <2>1, <2>2, <3>3, <3>4
  <2>4. CASE C!Others(h) \/ at[h] \in {"account", "create"}
    <3>1. at[h] \in {"others", "account", "create"}
      BY <2>4 DEF C!Others
    <3>2. CNewer(local[h].token)
      BY <2>1, <3>1 DEF CNewerInv, CReads
    <3> QED BY <2>1, <2>2, <3>2 DEF CNewer
  <2> QED BY <2>1, <2>3, <2>4
<1> QED BY <1>1, <1>2 DEF CReads, CNewer

LEMMA CNewerStep ==
  ASSUME C!Parameters, CTypeInv, CMailInv, CAloneInv, CNewerInv, C!Next, ~crossed'
  PROVE  CNewerInv'
<1>1. ASSUME NEW s \in CByMail', NEW t \in CByMail', t < s  PROVE logins'[t].via < logins'[s].via
  <2>1. CASE s \in CByMail /\ logins'[s].via = logins[s].via
    <3>1. s =< Len(logins)
      BY <2>1, CTokenTypes DEF CByMail
    <3>2. t # Len(logins) + 1
      BY <1>1, <2>1, <3>1, CTokenTypes DEF CByMail
    <3>3. t \in CByMail /\ logins'[t].via = logins[t].via
      BY <3>2, CByMailStep
    <3> QED BY <1>1, <2>1, <3>3 DEF CNewerInv
  <2>2. ASSUME s = Len(logins) + 1,
               NEW h \in Handlers, C!StartSession(h), local[h].of = "email", logins'[s].via = local[h].token
        PROVE  logins'[t].via < logins'[s].via
    <3>1. t # Len(logins) + 1
      BY <1>1, <2>2, CTokenTypes
    <3>2. t \in CByMail /\ logins'[t].via = logins[t].via
      BY <3>1, CByMailStep
    <3>3. CNewer(local[h].token)
      BY <2>2 DEF CNewerInv, CReads, C!StartSession
    <3> QED BY <2>2, <3>2, <3>3 DEF CNewer
  <2> QED BY <2>1, <2>2, CByMailStep
<1>2. ASSUME NEW g \in Handlers  PROVE CReads(g)'
  <2>1. ASSUME NEW h \in Handlers, CStep(h)  PROVE CReads(g)'
    <3>1. CASE g = h
      BY <2>1, <3>1, CReadsStep
    <3>2. CASE g # h
      <4>1. at'[g] = "idle"
        BY <2>1, <3>2, CUndisturbed
      <4> QED BY <4>1 DEF CReads
    <3> QED BY <3>1, <3>2
  <2>2. CASE CWorld
    <3>1. UNCHANGED <<at, local>> /\ CReads(g)
      BY <2>2, CWorldStays DEF CNewerInv
    <3>2. at[g] \in CSigningInAt => local[g].token \in DOMAIN tokens
      BY DEF CTypeInv, CWhere
    <3>3. ASSUME NEW s \in CByMail'  PROVE s \in CByMail /\ logins'[s].via = logins[s].via
      <4>1. ASSUME NEW h \in Handlers  PROVE ~C!StartSession(h)
        <5>1. C!StartSession(h) => at'[h] # at[h]
          BY DEF C!StartSession, C!Finish, C!Goto, CTypeInv, C!TypeOK
        <5> QED BY <3>1, <5>1
      <4> QED BY <4>1, CByMailStep
    <3>4. at[g] = "use" =>
            LET n == local[g].token
            IN  tokens'[n].used = tokens[n].used /\ tokens'[n].by = tokens[n].by /\ tokens'[n].attempts = tokens[n].attempts
      BY <2>2, <3>2, CWorldTokens DEF CSigningInAt
    <3> QED BY <3>1, <3>3, <3>4 DEF CReads, CNewer
  <2>3. CWorld \/ \E h \in Handlers : CStep(h)
    BY DEF C!Next, CStep, CWorld
  <2> QED BY <2>1, <2>2, <2>3
<1> QED BY <1>1, <1>2, CCountedStep DEF CNewerInv

(* Whoever is signed in by a mail, it and the older ones are used up,      *)
(* whatever runs at the same time; call after call each sign-in came by a  *)
(* newer mail than the one before, and no mail answers more wrong codes    *)
(* than it may.                                                            *)
LEMMA COlderMailsDie == ASSUME C!Parameters PROVE C!Spec => []C!OlderMailsAreDead
<1>1. C!Init => (~crossed => CNewerInv)
  BY DEF C!Init, CNewerInv, CByMail, CReads
<1>2. CTypeInv /\ CMailInv /\ CAloneInv /\ (~crossed => CNewerInv) /\ [C!Next]_C!vars => (~crossed => CNewerInv)'
  <2>1. ASSUME CNewerInv, UNCHANGED C!vars  PROVE CNewerInv'
    BY <2>1 DEF C!vars, CNewerInv, CByMail, CCounted, CReads, CNewer
  <2>2. ASSUME CTypeInv, CAloneInv, C!Next, ~crossed'  PROVE ~crossed
    <3>1. CASE CWorld
      BY <2>2, <3>1, CWorldStays DEF C!Call
    <3> QED BY <2>2, <3>1, CUndisturbed DEF C!Next, CStep, CWorld
  <2> SUFFICES ASSUME CTypeInv, CMailInv, CAloneInv, ~crossed => CNewerInv, [C!Next]_C!vars, ~crossed'
               PROVE  CNewerInv'
    OBVIOUS
  <2>3. CASE UNCHANGED C!vars
    BY <2>1, <2>3 DEF C!vars
  <2>4. CASE C!Next
    BY <2>2, <2>4, CNewerStep
  <2> QED BY <2>3, <2>4
<1>3. CTypeInv /\ CMailInv /\ (~crossed => CNewerInv) => C!OlderMailsAreDead
  <2> SUFFICES ASSUME CTypeInv, CMailInv, ~crossed => CNewerInv  PROVE C!OlderMailsAreDead
    OBVIOUS
  <2>1. ASSUME NEW s \in DOMAIN logins, logins[s].of = "email"
        PROVE  /\ \A n \in C!Mails : n =< logins[s].via => tokens[n].used
               /\ ~crossed => \A t \in 1..s - 1 : logins[t].of = "email" => logins[t].via < logins[s].via
    <3>1. s \in CByMail /\ s \in 1..Len(logins) /\ Len(logins) \in Nat
      BY <2>1, CTokenTypes DEF CByMail
    <3>2. \A t \in 1..s - 1 : t \in DOMAIN logins /\ t < s
      BY <3>1, CTokenTypes
    <3> QED BY <3>1, <3>2 DEF CMailInv, COlderUsed, CNewerInv, CByMail
  <2>2. ASSUME ~crossed, NEW n \in C!Mails
        PROVE  tokens[n].wrong =< CodeAttempts /\ (tokens[n].wrong = CodeAttempts => tokens[n].used)
    BY <2>2 DEF CNewerInv, CCounted, C!Mails
  <2> QED BY <2>1, <2>2 DEF C!OlderMailsAreDead
<1> QED BY <1>1, <1>2, <1>3, CTypeInvariant, CMailsUsed, COneAtATime, PTL DEF C!Spec

-----------------------------------------------------------------------------
(* Keys.                                                                   *)

CGood(a, kind) == {k \in C!Held(a, kind) : ~keys[k].revoked}

(* Alone, the key that is about to be revoked is not the last of its kind. *)
CKeyInv ==
  /\ \A a \in Apps, kind \in C!KeyKinds : C!Held(a, kind) # {} => CGood(a, kind) # {}
  /\ \A h \in Handlers : at[h] = "retire" =>
       CGood(keys[local[h].key].app, keys[local[h].key].kind) \ {local[h].key} # {}

(* Every good key but the one that is retired stays one.                   *)
LEMMA CGoodStays ==
  ASSUME CTypeInv, C!Next, NEW a, NEW kind, NEW k \in CGood(a, kind), \A h \in Handlers : C!Retire(h) => local[h].key # k
  PROVE  k \in CGood(a, kind)'
<1>1. k \in DOMAIN keys /\ keys[k].app = a /\ keys[k].kind = kind /\ ~keys[k].revoked
  BY DEF CGood, C!Held
<1>2. k \in DOMAIN keys' /\ keys'[k].app = a /\ keys'[k].kind = kind
  BY <1>1, CKeysChange
<1>3. ~keys'[k].revoked
  BY <1>1, CKeysChange
<1> QED BY <1>2, <1>3 DEF CGood, C!Held

LEMMA CKeyStep ==
  ASSUME CTypeInv, CAloneInv, CKeyInv, C!Next, ~crossed'
  PROVE  CKeyInv'
<1>0. ASSUME NEW h \in Handlers, CStep(h)  PROVE \A g \in Handlers \ {h} : ~C!Retire(g) /\ at'[g] = "idle"
  BY <1>0, CUndisturbed DEF C!Retire
<1>9. /\ keys \in Seq(C!Key)
      /\ \A k \in DOMAIN keys : keys[k].app \in Apps /\ keys[k].kind \in C!KeyKinds
      /\ at \in [Handlers -> C!Labels] /\ local \in [Handlers -> C!Locals]
  <2>1. keys \in Seq(C!Key) /\ at \in [Handlers -> C!Labels] /\ local \in [Handlers -> C!Locals]
    BY DEF CTypeInv, C!TypeOK
  <2>2. \A k \in DOMAIN keys : keys[k] \in C!Key
    BY <2>1
  <2> QED BY <2>1, <2>2 DEF C!Key
<1>1. ASSUME NEW a \in Apps, NEW kind \in C!KeyKinds, C!Held(a, kind)' # {}  PROVE CGood(a, kind)' # {}
  <2>1. PICK k \in DOMAIN keys' : keys'[k].app = a /\ keys'[k].kind = kind
    BY <1>1 DEF C!Held
  <2>2. CASE k \notin DOMAIN keys
    BY <2>1, <2>2, CKeysChange DEF CGood, C!Held
  <2>3. CASE k \in DOMAIN keys
    <3>1. k \in C!Held(a, kind)
      BY <2>1, <2>3, CKeysChange DEF C!Held
    <3>2. CASE \E h \in Handlers : C!Retire(h)
      <4>1. PICK h \in Handlers : C!Retire(h)
        BY <3>2
      <4>2. CStep(h) /\ at[h] = "retire"
        BY <4>1 DEF CStep, C!SignedIn, C!Retire
      <4>3. PICK j \in CGood(a, kind) : j # local[h].key
        <5>1. CASE keys[local[h].key].app = a /\ keys[local[h].key].kind = kind
          BY <4>2, <5>1 DEF CKeyInv
        <5>2. CASE ~(keys[local[h].key].app = a /\ keys[local[h].key].kind = kind)
          <6>1. PICK j \in CGood(a, kind) : TRUE
            BY <3>1 DEF CKeyInv
          <6>2. keys[j].app = a /\ keys[j].kind = kind
            BY <6>1 DEF CGood, C!Held
          <6> QED BY <5>2, <6>1, <6>2
        <5> QED BY <5>1, <5>2
      <4>4. \A g \in Handlers : C!Retire(g) => local[g].key # j
        BY <1>0, <4>2, <4>3
      <4>5. j \in CGood(a, kind)'
        BY <4>3, <4>4, CGoodStays
      <4> QED BY <4>5
    <3>3. CASE ~\E h \in Handlers : C!Retire(h)
      <4>1. PICK j \in CGood(a, kind) : TRUE
        BY <3>1 DEF CKeyInv
      <4>2. j \in CGood(a, kind)'
        BY <3>3, <4>1, CGoodStays
      <4> QED BY <4>2
    <3> QED BY <3>2, <3>3
  <2> QED BY <2>2, <2>3
<1>2. ASSUME NEW g \in Handlers, at'[g] = "retire"
      PROVE  CGood(keys[local[g].key].app, keys[local[g].key].kind)' \ {local'[g].key} # {}
  <2>1. CASE CWorld
    <3>1. UNCHANGED <<at, local>>
      BY <2>1, CWorldStays
    <3>2. PICK k \in DOMAIN keys : k = local[g].key
      BY <1>2, <3>1 DEF CTypeInv, CWhere
    <3>3. PICK a, kind : a = keys[k].app /\ kind = keys[k].kind
      OBVIOUS
    <3>4. PICK j \in CGood(a, kind) : j # k
      BY <1>2, <3>1, <3>2, <3>3 DEF CKeyInv
    <3>5. \A h \in Handlers : ~C!Retire(h)
      BY <1>9, <3>1 DEF C!Retire, C!Finish, C!Goto
    <3>6. j \in CGood(a, kind)'
      BY <3>4, <3>5, CGoodStays
    <3>7. keys'[k].app = a /\ keys'[k].kind = kind
      BY <3>2, <3>3, CKeysChange
    <3> QED BY <3>1, <3>2, <3>4, <3>6, <3>7
  <2>2. CASE CStep(g)
    <3>1. C!Last(g)
      BY <1>2, <1>9, <2>2 DEF CStep, C!SigningIn, C!SignedIn, C!AskMail, C!SendMail, C!Follow, C!Guess, C!Wrong, C!Use,
         C!Others, C!Abroad, C!Account, C!CreateAccount, C!StartSession, C!Arrive, C!Revoke, C!AskApp, C!CreateApp,
         C!IssueKeyPair, C!AskKey, C!Mint, C!AskRevoke, C!Retire, C!Refused, C!Goto, C!Finish, C!Start
    <3>2. PICK k \in DOMAIN keys : k = local[g].key
      BY <3>1 DEF C!Last, CTypeInv, CWhere
    <3>3. /\ local'[g] = local[g] /\ keys' = keys
          /\ ~(Cardinality(CGood(keys[k].app, keys[k].kind)) =< 1)
      BY <1>2, <1>9, <3>1, <3>2, CFiniteSets DEF C!Last, C!Goto, C!Finish, C!tables, CGood
    <3>4. ASSUME CGood(keys[k].app, keys[k].kind) \subseteq {k}  PROVE FALSE
      <4>1. Cardinality({k}) = 1 /\ IsFiniteSet({k})
        BY FS_Singleton
      <4>2. Cardinality(CGood(keys[k].app, keys[k].kind)) =< Cardinality({k})
        BY <3>4, <4>1, FS_Subset
      <4> QED BY <3>3, <4>1, <4>2
    <3>5. PICK j \in CGood(keys[k].app, keys[k].kind) : j # k
      BY <3>4
    <3> QED BY <3>2, <3>3, <3>5 DEF CGood, C!Held
  <2>3. ASSUME NEW h \in Handlers, CStep(h), h # g  PROVE FALSE
    BY <1>0, <1>2, <2>3
  <2>4. CWorld \/ \E h \in Handlers : CStep(h)
    BY DEF C!Next, CStep, CWorld
  <2> QED BY <2>1, <2>2, <2>3, <2>4
<1> QED BY <1>1, <1>2 DEF CKeyInv

(* Call after call, an app that has had keys is let in with a key of each  *)
(* kind, unless one has run out: the last one is never revoked.            *)
LEMMA CLastKeysAreKept == ASSUME C!Parameters PROVE C!Spec => []C!LastKeyIsKept
<1>1. C!Init => (~crossed => CKeyInv)
  BY DEF C!Init, CKeyInv, C!Held
<1>2. CTypeInv /\ CAloneInv /\ (~crossed => CKeyInv) /\ [C!Next]_C!vars => (~crossed => CKeyInv)'
  <2>1. ASSUME CKeyInv, UNCHANGED C!vars  PROVE CKeyInv'
    BY <2>1 DEF C!vars, CKeyInv, CGood, C!Held
  <2>2. ASSUME CTypeInv, CAloneInv, C!Next, ~crossed'  PROVE ~crossed
    <3>1. CASE CWorld
      BY <2>2, <3>1, CWorldStays DEF C!Call
    <3> QED BY <2>2, <3>1, CUndisturbed DEF C!Next, CStep, CWorld
  <2> SUFFICES ASSUME CTypeInv, CAloneInv, ~crossed => CKeyInv, [C!Next]_C!vars, ~crossed'
               PROVE  CKeyInv'
    OBVIOUS
  <2>3. CASE UNCHANGED C!vars
    BY <2>1, <2>3 DEF C!vars
  <2>4. CASE C!Next
    BY <2>2, <2>4, CKeyStep
  <2> QED BY <2>3, <2>4
<1>3. (~crossed => CKeyInv) => C!LastKeyIsKept
  <2> SUFFICES ASSUME CKeyInv, NEW a \in Apps, NEW kind \in C!KeyKinds, C!Held(a, kind) # {},
                      \A k \in C!Held(a, kind) : ~keys[k].expired
               PROVE  \E k \in C!Held(a, kind) : C!Accepts(keys[k], kind)
    BY DEF C!LastKeyIsKept
  <2>1. PICK k \in C!Held(a, kind) : ~keys[k].revoked
    BY DEF CKeyInv, CGood
  <2> QED BY <2>1 DEF C!Accepts, C!Held
<1> QED BY <1>1, <1>2, <1>3, CTypeInvariant, COneAtATime, PTL DEF C!Spec

-----------------------------------------------------------------------------
(* The two parts together.                                                 *)
LEMMA PlayersPart == PartsSpec => Spec
<1>1. PartsInit => Init
  BY DEF PartsInit
<1>2. [PartsNext]_all => [Next]_vars
  BY DEF PartsNext, vars, all
<1> QED BY <1>1, <1>2, PTL DEF PartsSpec, Spec

LEMMA DevelopersPart == PartsSpec => C!Spec
<1>1. PartsInit => C!Init
  BY DEF PartsInit
<1>2. [PartsNext]_all => [C!Next]_C!vars
  BY DEF PartsNext, all, console, C!vars
<1> QED BY <1>1, <1>2, PTL DEF PartsSpec, C!Spec

(* Every row and every local variable of the handlers of players and of    *)
(* developers stays one the code can write there.                          *)
THEOREM TypesCorrect == PartsSpec => []TypesOK
<1>1. TypeOK /\ C!TypeOK => TypesOK
  BY DEF TypesOK
<1>2. PartsSpec => []C!TypeOK
  BY ConsoleParameters, DevelopersPart, CTypeCorrect, PTL
<1> QED BY <1>1, <1>2, TypeCorrect, PlayersPart, PTL

(* Call after call, who is let in by a mail has used the last one that was *)
(* sent: older links and codes are dead, for any number of mails.          *)
THEOREM OlderMailsDie == PartsSpec => []OlderMailsAreDead
<1>1. C!OlderMailsAreDead => OlderMailsAreDead
  BY DEF OlderMailsAreDead
<1>2. PartsSpec => []C!OlderMailsAreDead
  BY ConsoleParameters, DevelopersPart, COlderMailsDie, PTL
<1> QED BY <1>1, <1>2, PTL

(* Call after call, an app that has had keys is let in with a key of each  *)
(* kind, unless one has run out: the last one is never revoked.            *)
THEOREM LastKeysAreKept == PartsSpec => []LastKeyIsKept
<1>1. C!LastKeyIsKept => LastKeyIsKept
  BY DEF LastKeyIsKept
<1>2. PartsSpec => []C!LastKeyIsKept
  BY ConsoleParameters, DevelopersPart, CLastKeysAreKept, PTL
<1> QED BY <1>1, <1>2, PTL
=============================================================================
