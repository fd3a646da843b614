----------------------------- MODULE Challenges -----------------------------
(***************************************************************************)
(* compete.ts: challenges between two players of one discipline in one     *)
(* open season, from the invitation to the decision, and what a block      *)
(* (social.ts) does to them.                                               *)
(*                                                                         *)
(* A handler is a process, one D1 statement or batch an action; handlers   *)
(* take call after call, and one that dies takes no further step.          *)
(*                                                                         *)
(* Of time only the order matters: created_at and entered_at are places in *)
(* the ledger, and of expires_at there is the sign of what is left.  A     *)
(* statement's now() is the moment of its effect, but for an acceptance,   *)
(* which may have bound it any time since it read the challenge.           *)
(***************************************************************************)
EXTENDS Integers, Sequences, FiniteSets

CONSTANTS
  Players,
  ChallengeIds,    \* id('chl'): each is used once
  Handlers,        \* calls that run at the same time
  Values,          \* values that are submitted
  MaxValue,        \* disciplines.max_value: what lies above is held
  HigherIsBetter,  \* lib.ts higherIsBetter(d)
  Aggregate(_),    \* standings.ts: the value of a non-empty set of runs
  MaxRuns,         \* bound on the ledger
  MayInvite,       \* bound: the pairs <<p, o>> of which p may challenge o, or anybody
  MayBlock,        \* bound: the pairs <<p, q>> of which p may block q
  Nil

ASSUME ValueAssumption == Values \subseteq Int /\ MaxValue \in Int /\ HigherIsBetter \in BOOLEAN
ASSUME BoundAssumption == MaxRuns \in Nat /\ MayBlock \subseteq Players \X Players
ASSUME AggregateAssumption ==
  \A S \in (SUBSET [id : 1..MaxRuns, value : Values]) \ {{}} : Aggregate(S) \in Int

VARIABLES
  runs,        \* entries in the order of their insertion; the index is the id
  challenges,  \* the rows by id, Nil for one that is not there
  entered,     \* entered[c][p]: the opponent's challenge_entries row, or Nil
  left,        \* the sign of expires_at - now() for each challenge
  blocks,      \* pairs <<blocker, blocked>>
  pc,          \* the next statement of each handler
  mem,         \* the local variables of each handler
  overlap      \* history: two calls have been under way at the same time

tables == <<runs, challenges, entered, left, blocks>>
vars   == <<runs, challenges, entered, left, blocks, pc, mem, overlap>>

Or(S) == S \cup {Nil}
Places == 0..MaxRuns

Run       == [by : Players, value : Values, status : {"counted", "review", "rejected"}]
Challenge == [state : {"open", "accepted", "settled", "expired"},
              challenger : Players, opponent : Or(Players), winner : Or(Players),
              target : Int]
Entered   == [at : Places, value : Or(Int)]

ASSUME NilAssumption == Nil \notin Players \cup ChallengeIds \cup Int \cup Challenge \cup Entered

Labels == {"idle", "target", "barrier", "create", "enter", "find", "weigh", "settle"}

(* `asked` is when an acceptance has read the challenge, `todo` what a     *)
(* submission has found.                                                   *)
Blank == [player |-> Nil, other |-> Nil, chl |-> Nil, value |-> Nil, asked |-> 0, todo |-> {}]

Locals == [player : Or(Players), other : Or(Players), chl : Or(ChallengeIds),
           value : Or(Int), asked : Places, todo : SUBSET ChallengeIds]

(* Rows and local variables keep their types. *)
TypeOK ==
  /\ \A n \in DOMAIN runs : runs[n] \in Run
  /\ \A c \in ChallengeIds :
       /\ challenges[c] # Nil => challenges[c] \in Challenge
       /\ \A p \in Players : entered[c][p] # Nil => entered[c][p] \in Entered
  /\ left \in [ChallengeIds -> -1..1]
  /\ blocks \subseteq Players \X Players
  /\ pc \in [Handlers -> Labels]
  /\ mem \in [Handlers -> Locals]
  /\ overlap \in BOOLEAN

Init ==
  /\ runs = <<>>
  /\ challenges = [c \in ChallengeIds |-> Nil]
  /\ entered = [c \in ChallengeIds |-> [p \in Players |-> Nil]]
  /\ left = [c \in ChallengeIds |-> 1]
  /\ blocks = {}
  /\ pc = [h \in Handlers |-> "idle"]
  /\ mem = [h \in Handlers |-> Blank]
  /\ overlap = FALSE

Created   == {c \in ChallengeIds : challenges[c] # Nil}
InFlight  == {h \in Handlers : pc[h] # "idle"}

Call == overlap' = (overlap \/ InFlight # {})

Goto(h, label, locals) ==
  /\ pc' = [pc EXCEPT ![h] = label]
  /\ mem' = [mem EXCEPT ![h] = locals]

Start(h, label, locals) == pc[h] = "idle" /\ Goto(h, label, locals) /\ Call

Finish(h) ==
  /\ pc' = [pc EXCEPT ![h] = "idle"]
  /\ mem' = [mem EXCEPT ![h] = Blank]

-----------------------------------------------------------------------------
(* valueFor(): the aggregate of what counts, of all of it or of what was   *)
(* made after a given time.                                                *)

Beats(a, b) == IF HigherIsBetter THEN a > b ELSE a < b

RunsOf(p, since) ==
  {n \in DOMAIN runs : runs[n].by = p /\ (since # Nil => n > since)}

Sum(ns) == Aggregate({[id |-> n, value |-> runs[n].value] : n \in ns})

(* Mutant: the time is forgotten. *)
AchievedEver(p, since) ==
  LET ns == {n \in RunsOf(p, Nil) : runs[n].status = "counted"}
  IN IF ns = {} THEN Nil ELSE Sum(ns)

Achieved(p, since) ==
  LET ns == {n \in RunsOf(p, since) : runs[n].status = "counted"}
  IN IF ns = {} THEN Nil ELSE Sum(ns)

Blocked(p, q) == <<p, q>> \in blocks \/ <<q, p>> \in blocks

-----------------------------------------------------------------------------
(* POST /v1/challenges: with an opponent, or open to everybody.            *)

Invite(h) ==
  /\ \E p \in Players, o \in Or(Players), c \in ChallengeIds \ Created :
       /\ p # o /\ <<p, o>> \in MayInvite
       /\ \A g \in InFlight : mem[g].chl # c
       /\ Start(h, "target", [Blank EXCEPT !.player = p, !.other = o, !.chl = c])
  /\ UNCHANGED tables

(* Mutant: also without an entry. *)
TargetUnchecked(h) ==
  /\ pc[h] = "target"
  /\ Goto(h, IF mem[h].other = Nil THEN "create" ELSE "barrier",
          [mem[h] EXCEPT !.value = Achieved(mem[h].player, Nil)])
  /\ UNCHANGED <<tables, overlap>>

(* valueFor() of the challenger: nobody challenges without an entry. *)
Target(h) ==
  LET value == Achieved(mem[h].player, Nil) IN
  /\ pc[h] = "target"
  /\ IF value = Nil
       THEN Finish(h)
       ELSE Goto(h, IF mem[h].other = Nil THEN "create" ELSE "barrier",
                 [mem[h] EXCEPT !.value = value])
  /\ UNCHANGED <<tables, overlap>>

Barrier(h) ==
  /\ pc[h] = "barrier"
  /\ IF Blocked(mem[h].player, mem[h].other) THEN Finish(h) ELSE Goto(h, "create", mem[h])
  /\ UNCHANGED <<tables, overlap>>

(* The batch.  The challenger's own challenge_entries row is left out:     *)
(* nothing reads it.                                                       *)
Create(h) ==
  /\ pc[h] = "create"
  /\ \E days \in -1..1 : left' = [left EXCEPT ![mem[h].chl] = days]
  /\ challenges' = [challenges EXCEPT ![mem[h].chl] =
       [state |-> IF mem[h].other = Nil THEN "accepted" ELSE "open",
        challenger |-> mem[h].player, opponent |-> mem[h].other, winner |-> Nil,
        target |-> mem[h].value]]
  /\ Finish(h)
  /\ UNCHANGED <<runs, entered, blocks, overlap>>

-----------------------------------------------------------------------------
(* POST /v1/challenges/:id/accept                                          *)

(* The SELECT and what is checked of it. *)
Accept(h) ==
  /\ \E c \in Created, p \in Players :
       LET ch == challenges[c] IN
       /\ ch.challenger # p
       /\ left[c] >= 0
       /\ ch.opponent \in {Nil, p}
       /\ ch.state # "settled"
       /\ Start(h, "enter", [Blank EXCEPT !.player = p, !.chl = c, !.asked = Len(runs)])
  /\ UNCHANGED tables

(* The batch; who has entered once keeps the time of it. *)
Enter(h) ==
  LET c == mem[h].chl
      p == mem[h].player
  IN
  /\ pc[h] = "enter"
  /\ challenges' = [challenges EXCEPT ![c].state = "accepted", ![c].opponent = p]
  /\ IF entered[c][p] = Nil
       THEN \E at \in mem[h].asked..Len(runs) : entered' = [entered EXCEPT ![c][p] = [at |-> at, value |-> Nil]]
       ELSE UNCHANGED entered
  /\ Finish(h)
  /\ UNCHANGED <<runs, left, blocks, overlap>>

-----------------------------------------------------------------------------
(* GET /v1/challenges: what has run out goes to the challenger.            *)

(* Mutant: in whatever state it is. *)
ExpireAny ==
  /\ challenges' = [c \in ChallengeIds |->
       IF c \in Created /\ left[c] < 0
         THEN [challenges[c] EXCEPT !.state = "expired", !.winner = challenges[c].challenger]
         ELSE challenges[c]]
  /\ Call
  /\ UNCHANGED <<runs, entered, left, blocks, pc, mem>>

Expire ==
  /\ challenges' = [c \in ChallengeIds |->
       IF c \in Created /\ challenges[c].state \in {"open", "accepted"} /\ left[c] < 0
         THEN [challenges[c] EXCEPT !.state = "expired", !.winner = challenges[c].challenger]
         ELSE challenges[c]]
  /\ Call
  /\ UNCHANGED <<runs, entered, left, blocks, pc, mem>>

-----------------------------------------------------------------------------
(* POST /v1/entries, and settleChallenges() at its end; what lies between  *)
(* is the matter of Standings and touches no challenge.                    *)

Submit(h) ==
  /\ Len(runs) < MaxRuns
  /\ \E p \in Players, value \in Values :
       /\ runs' = Append(runs, [by |-> p, value |-> value,
                                status |-> IF value > MaxValue THEN "review" ELSE "counted"])
       /\ Start(h, "find", [Blank EXCEPT !.player = p])
  /\ UNCHANGED <<challenges, entered, left, blocks>>

(* SELECT the accepted challenges of this opponent that have not run out. *)
Find(h) ==
  LET p == mem[h].player IN
  /\ pc[h] = "find"
  /\ Goto(h, "weigh", [mem[h] EXCEPT !.todo =
       {c \in Created : /\ challenges[c].state = "accepted" /\ challenges[c].opponent = p
                        /\ entered[c][p] # Nil /\ left[c] > 0}])
  /\ UNCHANGED <<tables, overlap>>

(* Mutant: not the aggregate, but one run after the other. *)
WeighEachRun(h) ==
  /\ pc[h] = "weigh"
  /\ \/ mem[h].todo = {} /\ Finish(h)
     \/ \E c \in mem[h].todo :
          LET p     == mem[h].player
              wins  == {n \in RunsOf(p, entered[c][p].at) :
                          runs[n].status = "counted" /\ Beats(Sum({n}), challenges[c].target)}
          IN IF wins = {}
               THEN Goto(h, "weigh", [mem[h] EXCEPT !.todo = @ \ {c}])
               ELSE Goto(h, "settle", [mem[h] EXCEPT !.chl = c, !.value = Sum(wins)])
  /\ UNCHANGED <<tables, overlap>>

(* valueFor() since the acceptance, against the target. *)
Weigh(h) ==
  /\ pc[h] = "weigh"
  /\ \/ mem[h].todo = {} /\ Finish(h)
     \/ \E c \in mem[h].todo :
          LET value == Achieved(mem[h].player, entered[c][mem[h].player].at)
          IN IF value = Nil \/ ~Beats(value, challenges[c].target)
               THEN Goto(h, "weigh", [mem[h] EXCEPT !.todo = @ \ {c}])
               ELSE Goto(h, "settle", [mem[h] EXCEPT !.chl = c, !.value = value])
  /\ UNCHANGED <<tables, overlap>>

(* The batch: the challenge by its id, whatever became of it meanwhile. *)
Settle(h) ==
  LET c == mem[h].chl
      p == mem[h].player
  IN
  /\ pc[h] = "settle"
  /\ challenges' = [challenges EXCEPT ![c].state = "settled", ![c].winner = p]
  /\ entered' = [entered EXCEPT ![c][p].value = mem[h].value]
  /\ Goto(h, "weigh", [mem[h] EXCEPT !.todo = @ \ {c}, !.chl = Nil, !.value = Nil])
  /\ UNCHANGED <<runs, left, blocks, overlap>>

-----------------------------------------------------------------------------
(* An operator decides a held run; the rest of that call is in Standings.  *)
Review ==
  /\ \E n \in DOMAIN runs, decision \in {"counted", "rejected"} :
       /\ runs[n].status = "review"
       /\ runs' = [runs EXCEPT ![n].status = decision]
  /\ Call
  /\ UNCHANGED <<challenges, entered, left, blocks, pc, mem>>

(* POST /v1/me/blocks/:handle, one batch; the follows are left out. *)
Block ==
  /\ \E p \in Players : \E q \in Players \ {p} :
       /\ <<p, q>> \in MayBlock
       /\ blocks' = blocks \cup {<<p, q>>}
       /\ challenges' = [c \in ChallengeIds |->
            IF c \in Created /\ challenges[c].state \in {"open", "accepted"}
                 /\ {challenges[c].challenger, challenges[c].opponent} = {p, q}
              THEN [challenges[c] EXCEPT !.state = "expired"]
              ELSE challenges[c]]
  /\ Call
  /\ UNCHANGED <<runs, entered, left, pc, mem>>

Unblock ==
  /\ \E pair \in blocks : blocks' = blocks \ {pair}
  /\ Call
  /\ UNCHANGED <<runs, challenges, entered, left, pc, mem>>

Tick ==
  /\ \E c \in Created : left[c] > -1 /\ left' = [left EXCEPT ![c] = @ - 1]
  /\ UNCHANGED <<runs, challenges, entered, blocks, pc, mem, overlap>>

-----------------------------------------------------------------------------
Inviting(h)   == Invite(h) \/ Target(h) \/ Barrier(h) \/ Create(h)
Accepting(h)  == Accept(h) \/ Enter(h)
Submitting(h) == Submit(h) \/ Find(h) \/ Weigh(h) \/ Settle(h)

Next ==
  \/ \E h \in Handlers : Inviting(h) \/ Accepting(h) \/ Submitting(h)
  \/ Expire \/ Review \/ Block \/ Unblock \/ Tick

Spec == Init /\ [][Next]_vars

-----------------------------------------------------------------------------
(* A challenge is decided only by performance after acceptance: whoever    *)
(* has won by a run has accepted before, and runs made after that beat the *)
(* target; whoever else accepts, submits or expires it at the same time.   *)
WonAfterAcceptance ==
  \A c \in Created :
    LET ch == challenges[c] IN
    ch.state = "settled" =>
      /\ ch.winner # ch.challenger /\ entered[c][ch.winner] # Nil
      /\ LET e == entered[c][ch.winner] IN
           /\ Beats(e.value, ch.target)
           /\ \E ns \in SUBSET RunsOf(ch.winner, e.at) : ns # {} /\ Sum(ns) = e.value

(* Call after call, a decision stands: who has won is not replaced by an   *)
(* expiry, a later acceptance or another run, nor is the opponent.         *)
DecisionStands ==
  [][~overlap' =>
       \A c \in Created :
         LET old == challenges[c]
             new == challenges'[c]
         IN /\ old.winner # Nil => new.winner = old.winner /\ new.state = old.state
            /\ old.opponent # Nil => new.opponent = old.opponent]_vars

(* Call after call, whoever beats the target in time wins: when a          *)
(* submission ends, its player has no challenge left whose target what     *)
(* counts since the acceptance, one run or several, beats already.         *)
BeatenIsSettled ==
  [][~overlap' =>
       \A h \in Handlers : pc[h] = "weigh" /\ pc'[h] = "idle" =>
         \A c \in Created :
           LET ch    == challenges[c]
               p     == mem[h].player
               value == Achieved(p, entered[c][p].at)
           IN ch.state = "accepted" /\ ch.opponent = p /\ left[c] > 0 /\ value # Nil =>
                ~Beats(value, ch.target)]_vars

(* A block dissolves existing challenges and prevents every kind of        *)
(* contact: call after call, the two have no challenge that is running.    *)
BlockDissolves ==
  ~overlap =>
    \A c \in Created :
      LET ch == challenges[c] IN
      ch.opponent # Nil /\ Blocked(ch.challenger, ch.opponent) =>
        ch.state \in {"settled", "expired"}
=============================================================================
