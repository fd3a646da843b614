------------------------------ MODULE Accounts ------------------------------
(***************************************************************************)
(* identity.ts, recovery.ts and the invitations of access.ts: how a player *)
(* comes to an account, into it from another device, back into it, and out *)
(* of it for good.                                                         *)
(*                                                                         *)
(* A handler is a process, one D1 statement or batch an action.  Codes,    *)
(* mails and signatures are rows named by their place; one that was        *)
(* deleted is Nil.  There is one app, one rescue address that any player   *)
(* may claim and one authenticator.  A request that dies takes no further  *)
(* step.                                                                   *)
(***************************************************************************)
EXTENDS Integers, Sequences, FiniteSets

CONSTANTS
  Players,          \* id('plr')
  Founders,         \* the players that are there, and signed in, at first
  Handlers,         \* calls that run at the same time
  InviteOnly,       \* apps.access_mode = 'invite'
  Quota,            \* apps.invites_per_player
  SignupsPerHour,   \* SIGNUPS_PER_HOUR; what the model covers is one hour
  RecoveryPerHour,  \* RECOVERY_PER_HOUR
  MaxCalls,         \* bound on the calls
  Nil

ASSUME PlayersAssumption  == IsFiniteSet(Players) /\ Founders \subseteq Players
ASSUME HandlersAssumption == IsFiniteSet(Handlers)
ASSUME QuotaAssumption    == Quota \in Nat /\ MaxCalls \in Nat

VARIABLES
  players,   \* the row of each player, or Nil
  sessions,  \* in the order of their insertion
  tickets,   \* link_codes, recovery_tokens and webauthn_challenges
  invites,
  passkey,   \* whose account the credential opens, or Nil
  pc,        \* the next statement of each handler
  mem,       \* the local variables of each handler
  calls,     \* how many calls there have been
  overlap    \* history: two calls have been under way at the same time

tables == <<players, sessions, tickets, invites, passkey>>
vars   == <<players, sessions, tickets, invites, passkey, pc, mem, calls, overlap>>

Or(S) == S \cup {Nil}

(* A link code, a link that confirms an address, one that recovers the     *)
(* account, a challenge to register a passkey, one to sign in with it.     *)
Kinds == {"link", "verify", "recover", "register", "authenticate"}

Player  == [status : {"active", "suspended", "banned"}, left : Int, via : Nat, mail : BOOLEAN]
Session == [of : Players, live : BOOLEAN, via : Nat]
Ticket  == [kind : Kinds, of : Or(Players), used : BOOLEAN, live : BOOLEAN]
Invite  == [by : Or(Players), uses : Nat, max : Nat, live : BOOLEAN]

ASSUME NilAssumption == Nil \notin Players \cup Player \cup Session \cup Ticket

Labels == {"idle", "lift", "in", "give", "code", "join", "redeem", "mail", "adopt", "device",
           "restore", "challenge", "burn", "store", "open"}

Blank == [player |-> Nil, session |-> 0, ticket |-> 0, invite |-> 0]

Locals == [player : Or(Players), session : Nat, ticket : Nat, invite : Nat]

(* Rows and local variables keep their types. *)
TypeOK ==
  /\ players \in [Players -> Or(Player)]
  /\ sessions \in Seq(Or(Session))
  /\ tickets \in Seq(Or(Ticket))
  /\ invites \in Seq(Invite)
  /\ passkey \in Or(Players)
  /\ pc \in [Handlers -> Labels]
  /\ mem \in [Handlers -> Locals]
  /\ calls \in 0..MaxCalls /\ overlap \in BOOLEAN

Newcomer(via, mail) == [status |-> "active", left |-> Quota, via |-> via, mail |-> mail]
Opened(p, via) == [of |-> p, live |-> TRUE, via |-> via]

Init ==
  /\ \E rescued \in Or(Founders) :
       players = [p \in Players |-> IF p \in Founders THEN Newcomer(0, p = rescued) ELSE Nil]
  /\ \E order \in [1..Cardinality(Founders) -> Founders] :
       /\ \A m, n \in DOMAIN order : order[m] = order[n] => m = n
       /\ sessions = [n \in DOMAIN order |-> Opened(order[n], 0)]
  /\ tickets = <<>> /\ invites = <<>> /\ passkey = Nil
  /\ pc = [h \in Handlers |-> "idle"]
  /\ mem = [h \in Handlers |-> Blank]
  /\ calls = 0 /\ overlap = FALSE

There    == {p \in Players : players[p] # Nil}
Alive    == {n \in DOMAIN sessions : sessions[n] # Nil /\ sessions[n].live}
InFlight == {h \in Handlers : pc[h] # "idle"}

Call ==
  /\ calls < MaxCalls /\ calls' = calls + 1
  /\ overlap' = (overlap \/ InFlight # {})

Goto(h, label, locals) ==
  /\ pc' = [pc EXCEPT ![h] = label]
  /\ mem' = [mem EXCEPT ![h] = locals]
  /\ UNCHANGED <<calls, overlap>>

Finish(h) == Goto(h, "idle", Blank)

Start(h, label, locals) ==
  /\ pc[h] = "idle" /\ Call
  /\ pc' = [pc EXCEPT ![h] = label]
  /\ mem' = [mem EXCEPT ![h] = locals]

AtOnce == Call /\ UNCHANGED <<pc, mem>>

Fresh(n) == tickets[n] # Nil /\ ~tickets[n].used /\ tickets[n].live

-----------------------------------------------------------------------------
(* requirePlayer(): the session and its player, then the end of a          *)
(* suspension that is over.                                                *)

Arrive(h) ==
  /\ \E n \in Alive :
       LET p == sessions[n].of IN
       \E label \in IF players[p].status = "suspended" THEN {"lift", "in"} ELSE {"in"} :
         Start(h, label, [Blank EXCEPT !.player = p, !.session = n])
  /\ UNCHANGED tables

Lift(h) ==
  LET p == mem[h].player IN
  /\ pc[h] = "lift"
  /\ players' = [players EXCEPT ![p] = IF @ = Nil THEN Nil ELSE [@ EXCEPT !.status = "active"]]
  /\ Goto(h, "in", mem[h])
  /\ UNCHANGED <<sessions, tickets, invites, passkey>>

-----------------------------------------------------------------------------
(* What a player who is signed in asks for.                                *)

(* Mutant: an allowance that is used up is not looked at. *)
AllowanceUnchecked(h) ==
  /\ pc[h] = "in"
  /\ Goto(h, "give", mem[h])
  /\ UNCHANGED tables

(* POST /v1/me/invites: the allowance, *)
Allowance(h) ==
  /\ pc[h] = "in"
  /\ LET p == mem[h].player IN
     IF players[p] = Nil \/ players[p].left <= 0 THEN Finish(h) ELSE Goto(h, "give", mem[h])
  /\ UNCHANGED tables

(* and the batch that draws on it; an account that is gone refuses it. *)
Give(h) ==
  LET p == mem[h].player IN
  /\ pc[h] = "give"
  /\ IF players[p] = Nil
       THEN UNCHANGED tables
       ELSE /\ invites' = Append(invites, [by |-> p, uses |-> 0, max |-> 1, live |-> TRUE])
            /\ players' = [players EXCEPT ![p].left = @ - 1]
            /\ UNCHANGED <<sessions, tickets, passkey>>
  /\ Finish(h)

(* POST /v1/me/link-code, /v1/me/recovery-email, /v1/me/passkeys/challenge *)
Ask(h) ==
  /\ pc[h] = "in"
  /\ \E kind \in {"link", "verify", "register"} :
       tickets' = IF players[mem[h].player] = Nil THEN tickets ELSE
         Append(tickets, [kind |-> kind, of |-> mem[h].player, used |-> FALSE, live |-> TRUE])
  /\ Finish(h)
  /\ UNCHANGED <<players, sessions, invites, passkey>>

(* POST /v1/me/sessions/revoke-others *)
RevokeOthers(h) ==
  /\ pc[h] = "in"
  /\ sessions' = [n \in DOMAIN sessions |->
       IF n \in Alive \ {mem[h].session} /\ sessions[n].of = mem[h].player
         THEN [sessions[n] EXCEPT !.live = FALSE] ELSE sessions[n]]
  /\ Finish(h)
  /\ UNCHANGED <<players, tickets, invites, passkey>>

(* DELETE /v1/me/passkeys/:id and /v1/me/recovery-email *)
Forget(h) ==
  LET p == mem[h].player IN
  /\ pc[h] = "in"
  /\ \/ /\ passkey' = IF passkey = p THEN Nil ELSE passkey
        /\ UNCHANGED players
     \/ /\ players' = [players EXCEPT ![p] = IF @ = Nil THEN Nil ELSE [@ EXCEPT !.mail = FALSE]]
        /\ UNCHANGED passkey
  /\ Finish(h)
  /\ UNCHANGED <<sessions, tickets, invites>>

(* DELETE /v1/me, one batch.  It leaves the invitations and the players    *)
(* who came by them, and D1 refuses it as long as they refer to the        *)
(* account.                                                                *)
Erase(h) ==
  LET p == mem[h].player
      Without(rows) == [n \in DOMAIN rows |->
        IF rows[n] # Nil /\ rows[n].of = p THEN Nil ELSE rows[n]]
  IN
  /\ pc[h] = "in"
  /\ IF \E n \in DOMAIN invites : invites[n].by = p
       THEN UNCHANGED tables
       ELSE /\ players' = [players EXCEPT ![p] = Nil]
            /\ sessions' = Without(sessions)
            /\ tickets' = Without(tickets)
            /\ passkey' = IF passkey = p THEN Nil ELSE passkey
            /\ UNCHANGED invites
  /\ Finish(h)

-----------------------------------------------------------------------------
(* POST /v1/auth/anonymous: how many came this hour, *)
SignUp(h) ==
  /\ \E p \in Players \ (There \cup Founders), i \in 0..Len(invites) :
       /\ \A g \in InFlight : mem[g].player # p
       /\ InviteOnly => i > 0
       /\ Cardinality(There \ Founders) < SignupsPerHour
       /\ Start(h, IF i > 0 THEN "code" ELSE "join", [Blank EXCEPT !.player = p, !.invite = i])
  /\ UNCHANGED tables

(* Mutant: an invitation that is used up is taken once more. *)
CodeOffByOne(h) ==
  LET i == invites[mem[h].invite] IN
  /\ pc[h] = "code"
  /\ IF i.uses <= i.max /\ i.live THEN Goto(h, "join", mem[h]) ELSE Finish(h)
  /\ UNCHANGED tables

(* the invitation, *)
Code(h) ==
  LET i == invites[mem[h].invite] IN
  /\ pc[h] = "code"
  /\ IF i.uses < i.max /\ i.live THEN Goto(h, "join", mem[h]) ELSE Finish(h)
  /\ UNCHANGED tables

(* the batch that makes the account and its first session, *)
Join(h) ==
  /\ pc[h] = "join"
  /\ players' = [players EXCEPT ![mem[h].player] = Newcomer(mem[h].invite, FALSE)]
  /\ sessions' = Append(sessions, Opened(mem[h].player, 0))
  /\ IF mem[h].invite = 0 THEN Finish(h) ELSE Goto(h, "redeem", mem[h])
  /\ UNCHANGED <<tickets, invites, passkey>>

(* and the use of the invitation. *)
Redeem(h) ==
  /\ pc[h] = "redeem"
  /\ invites' = [invites EXCEPT ![mem[h].invite].uses = @ + 1]
  /\ Finish(h)
  /\ UNCHANGED <<players, sessions, tickets, passkey>>

(* POST /v1/invites, of the app itself. *)
AppInvite ==
  /\ \E max \in 1..2 : invites' = Append(invites, [by |-> Nil, uses |-> 0, max |-> max, live |-> TRUE])
  /\ AtOnce
  /\ UNCHANGED <<players, sessions, tickets, passkey>>

-----------------------------------------------------------------------------
(* POST /v1/auth/redeem: the code, and the batch that burns it and opens a *)
(* session on the other device.                                            *)

(* Mutant: a used code is as good as a new one. *)
LinkReused(h) ==
  /\ \E n \in DOMAIN tickets :
       /\ tickets[n] # Nil /\ tickets[n].live /\ tickets[n].kind = "link"
       /\ Start(h, "device", [Blank EXCEPT !.player = tickets[n].of, !.ticket = n])
  /\ UNCHANGED tables

Link(h) ==
  /\ \E n \in DOMAIN tickets :
       /\ Fresh(n) /\ tickets[n].kind = "link"
       /\ Start(h, "device", [Blank EXCEPT !.player = tickets[n].of, !.ticket = n])
  /\ UNCHANGED tables

Burnt(n) == [tickets EXCEPT ![n] = IF @ = Nil THEN Nil ELSE [@ EXCEPT !.used = TRUE]]

Device(h) ==
  LET p == mem[h].player IN
  /\ pc[h] = "device"
  /\ IF players[p] = Nil
       THEN UNCHANGED tables
       ELSE /\ tickets' = Burnt(mem[h].ticket)
            /\ sessions' = Append(sessions, Opened(p, mem[h].ticket))
            /\ UNCHANGED <<players, invites, passkey>>
  /\ Finish(h)

-----------------------------------------------------------------------------
(* GET /v1/auth/recovery/confirm: the link, and whether the address        *)
(* rescues another account; the batch, against the unique index.           *)

Rescued == {p \in There : players[p].mail}

Confirm(h) ==
  /\ \E n \in DOMAIN tickets :
       /\ Fresh(n) /\ tickets[n].kind = "verify"
       /\ Rescued \subseteq {tickets[n].of}
       /\ Start(h, "adopt", [Blank EXCEPT !.player = tickets[n].of, !.ticket = n])
  /\ UNCHANGED tables

Adopt(h) ==
  LET p == mem[h].player IN
  /\ pc[h] = "adopt"
  /\ IF p \notin There \/ ~(Rescued \subseteq {p})
       THEN UNCHANGED tables
       ELSE /\ tickets' = Burnt(mem[h].ticket)
            /\ players' = [players EXCEPT ![p].mail = TRUE]
            /\ UNCHANGED <<sessions, invites, passkey>>
  /\ Finish(h)

(* POST /v1/auth/recover: who has verified the address, unless too much    *)
(* was sent to it, *)
AskRecovery(h) ==
  /\ Cardinality({n \in DOMAIN tickets :
       tickets[n] # Nil /\ tickets[n].kind \in {"verify", "recover"}}) < RecoveryPerHour
  /\ \E p \in Rescued : Start(h, "mail", [Blank EXCEPT !.player = p])
  /\ UNCHANGED tables

(* and the link that is sent to it. *)
Mail(h) ==
  /\ pc[h] = "mail"
  /\ tickets' = IF players[mem[h].player] = Nil THEN tickets ELSE
       Append(tickets, [kind |-> "recover", of |-> mem[h].player, used |-> FALSE, live |-> TRUE])
  /\ Finish(h)
  /\ UNCHANGED <<players, sessions, invites, passkey>>

(* GET /v1/auth/recover/callback: the link, *)
Recover(h) ==
  /\ \E n \in DOMAIN tickets :
       /\ Fresh(n) /\ tickets[n].kind = "recover"
       /\ players[tickets[n].of].status # "banned"
       /\ Start(h, "restore", [Blank EXCEPT !.player = tickets[n].of, !.ticket = n])
  /\ UNCHANGED tables

(* Mutant: only the session that was signed in last is ended. *)
RestoreLast(h) ==
  /\ pc[h] = "restore"
  /\ tickets' = Burnt(mem[h].ticket)
  /\ sessions' = [n \in DOMAIN sessions |->
       IF n = Len(sessions) /\ n \in Alive /\ sessions[n].of = mem[h].player
         THEN [sessions[n] EXCEPT !.live = FALSE] ELSE sessions[n]]
  /\ Goto(h, "open", mem[h])
  /\ UNCHANGED <<players, invites, passkey>>

(* the batch that burns it and ends every session, *)
Restore(h) ==
  /\ pc[h] = "restore"
  /\ tickets' = Burnt(mem[h].ticket)
  /\ sessions' = [n \in DOMAIN sessions |->
       IF n \in Alive /\ sessions[n].of = mem[h].player
         THEN [sessions[n] EXCEPT !.live = FALSE] ELSE sessions[n]]
  /\ Goto(h, "open", mem[h])
  /\ UNCHANGED <<players, invites, passkey>>

(* and startPlayerSession(), also at the end of a sign-in by passkey. *)
Open(h) ==
  LET p == mem[h].player IN
  /\ pc[h] = "open"
  /\ sessions' = IF players[p] = Nil THEN sessions ELSE Append(sessions, Opened(p, mem[h].ticket))
  /\ Finish(h)
  /\ UNCHANGED <<players, tickets, invites, passkey>>

-----------------------------------------------------------------------------
(* POST /v1/auth/passkey/challenge *)
AskAuthenticate ==
  /\ tickets' = Append(tickets, [kind |-> "authenticate", of |-> Nil, used |-> FALSE, live |-> TRUE])
  /\ AtOnce
  /\ UNCHANGED <<players, sessions, invites, passkey>>

(* POST /v1/auth/passkey: the credential and the status of its player; who *)
(* is banned loses the challenge and gets no session.                      *)
Authenticate(h) ==
  /\ passkey # Nil
  /\ \E n \in DOMAIN tickets :
       Start(h, "challenge", [Blank EXCEPT !.ticket = n,
         !.player = IF players[passkey].status = "banned" THEN Nil ELSE passkey])
  /\ UNCHANGED tables

(* POST /v1/me/passkeys has been let in with a challenge. *)
Register(h) ==
  /\ pc[h] = "in"
  /\ \E n \in DOMAIN tickets : Goto(h, "challenge", [mem[h] EXCEPT !.ticket = n])
  /\ UNCHANGED tables

(* claimChallenge(): single use, for one purpose. *)
Challenge(h) ==
  LET n       == mem[h].ticket
      purpose == IF mem[h].session = 0 THEN "authenticate" ELSE "register"
  IN
  /\ pc[h] = "challenge"
  /\ IF Fresh(n) /\ tickets[n].kind = purpose THEN Goto(h, "burn", mem[h]) ELSE Finish(h)
  /\ UNCHANGED tables

(* What was read decides; a signature that is wrong ends the call here.    *)
Burn(h) ==
  LET n == mem[h].ticket
      p == mem[h].player
  IN
  /\ pc[h] = "burn"
  /\ tickets' = Burnt(n)
  /\ \/ Finish(h)
     \/ mem[h].session = 0 /\ p # Nil /\ Goto(h, "open", mem[h])
     \/ mem[h].session # 0 /\ tickets[n] # Nil /\ tickets[n].of = p /\ Goto(h, "store", mem[h])
  /\ UNCHANGED <<players, sessions, invites, passkey>>

(* The INSERT, against the unique index and the player's key. *)
Store(h) ==
  /\ pc[h] = "store"
  /\ passkey' = IF passkey = Nil /\ mem[h].player \in There THEN mem[h].player ELSE passkey
  /\ Finish(h)
  /\ UNCHANGED <<players, sessions, tickets, invites>>

-----------------------------------------------------------------------------
(* An operator's decision (social.ts), and time. *)
Moderate ==
  /\ \E p \in There, status \in {"active", "suspended", "banned"} :
       players[p].status # status /\ players' = [players EXCEPT ![p].status = status]
  /\ AtOnce
  /\ UNCHANGED <<sessions, tickets, invites, passkey>>

Lapse ==
  /\ \/ /\ \E n \in DOMAIN tickets : Fresh(n) /\ tickets' = [tickets EXCEPT ![n].live = FALSE]
        /\ UNCHANGED invites
     \/ /\ \E i \in DOMAIN invites :
             /\ invites[i].live /\ invites[i].by = Nil
             /\ invites' = [invites EXCEPT ![i].live = FALSE]
        /\ UNCHANGED tickets
  /\ UNCHANGED <<players, sessions, passkey, pc, mem, calls, overlap>>

SignedIn(h) ==
  Arrive(h) \/ Lift(h) \/ Allowance(h) \/ Give(h) \/ Ask(h) \/ RevokeOthers(h) \/ Forget(h) \/ Erase(h)
SigningUp(h)  == SignUp(h) \/ Code(h) \/ Join(h) \/ Redeem(h)
Linking(h)    == Link(h) \/ Device(h)
Recovering(h) == Confirm(h) \/ Adopt(h) \/ AskRecovery(h) \/ Mail(h) \/ Recover(h) \/ Restore(h) \/ Open(h)
Passkeys(h)   == Authenticate(h) \/ Register(h) \/ Challenge(h) \/ Burn(h) \/ Store(h)

Next ==
  \/ \E h \in Handlers : SignedIn(h) \/ SigningUp(h) \/ Linking(h) \/ Recovering(h) \/ Passkeys(h)
  \/ AppInvite \/ AskAuthenticate \/ Moderate \/ Lapse

Spec == Init /\ [][Next]_vars

-----------------------------------------------------------------------------
(* Call after call, a code, a link or a challenge opens one session, and   *)
(* what opens none, because it confirms or registers, opens none.          *)
OneSessionPerTicket ==
  ~overlap =>
    \A n \in DOMAIN tickets :
      LET by == {s \in DOMAIN sessions : sessions[s] # Nil /\ sessions[s].via = n} IN
      /\ Cardinality(by) <= 1
      /\ by # {} /\ tickets[n] # Nil => tickets[n].kind \in {"link", "recover", "authenticate"}

(* "Recovering ends every other session": call after call, whoever         *)
(* recovers an account is afterwards signed in alone.                      *)
RecoveryEndsTheOthers ==
  [][~overlap' =>
       \A h \in Handlers :
         LET n == mem[h].ticket IN
         pc[h] = "open" /\ pc'[h] = "idle" /\ tickets[n] # Nil /\ tickets[n].kind = "recover" =>
           Cardinality({s \in Alive' : sessions'[s].of = mem[h].player}) = 1]_vars

Given(p) == Cardinality({i \in DOMAIN invites : invites[i].by = p})

(* Nobody gives more invitations than the allowance paid for, no account   *)
(* comes by an invitation that is not, or is about to be, marked used, and *)
(* call after call nothing is overdrawn.                                   *)
InvitesAddUp ==
  /\ \A p \in There :
       /\ players[p].left + Given(p) = Quota
       /\ ~overlap => players[p].left >= 0
  /\ \A i \in DOMAIN invites :
       /\ Cardinality({p \in There : players[p].via = i})
            <= invites[i].uses + Cardinality({h \in Handlers : pc[h] = "redeem" /\ mem[h].invite = i})
       /\ ~overlap => invites[i].uses <= invites[i].max
=============================================================================
