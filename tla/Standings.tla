------------------------------ MODULE Standings ------------------------------
(***************************************************************************)
(* The ledger and its projection, for one competition key: one discipline  *)
(* in one open season.                                                     *)
(*                                                                         *)
(* Fact:     `entries`, the ledger, and `player_regions`, `players.status`.*)
(* Derived:  `qualifications` (the exam) and `standings` (the board).      *)
(*                                                                         *)
(* A handler of the Worker awaits every statement it sends to D1.  A D1    *)
(* statement, or a D1.batch, is atomic; between two of them any other      *)
(* handler may run.  So a handler is a process with a program counter and  *)
(* local variables, and one statement is one action.  The handlers that    *)
(* touch an entry, the exam or the board are all here: submitting a run,   *)
(* reviewing it, the verifier's verdict, moderation, choosing a home       *)
(* region, the expiry of a suspension, and the rebuild.                    *)
(***************************************************************************)
EXTENDS Integers, FiniteSets

CONSTANTS
  Players,        \* players(id)
  Regions,        \* regions open as a home
  Requests,       \* calls of the API; the entry a call inserts bears its name
  Values,         \* values a run may have
  Days,           \* days a run may have occurred on
  Keys,           \* idempotency keys
  Nil,            \* SQL NULL, or no row
  MaxValue,       \* disciplines.max_value, or Nil
  Bar,            \* disciplines.qualifying_score, or Nil
  HigherIsBetter, \* lib.ts higherIsBetter(d)
  HasModule,      \* disciplines.module_id is set
  Aggregate(_),   \* standings.ts aggregateCte(d), on the counted runs of one player
  Kinds,          \* bound: the endpoints called
  MaxInFlight     \* bound: how many handlers run at the same time

(* A run as the aggregation sees it. *)
Run == [id : Requests, value : Values, day : Days]

ASSUME ValuesAssumption == Values \subseteq Int
ASSUME AggregateAssumption ==
  \A S \in (SUBSET Run) \ {{}} : Aggregate(S) \in Int
ASSUME DisciplineAssumption ==
  /\ MaxValue \in Int \cup {Nil}
  /\ Bar \in Int \cup {Nil}
  /\ HigherIsBetter \in BOOLEAN
  /\ HasModule \in BOOLEAN

VARIABLES
  entries,    \* entries[e]: the row inserted by call e, or Nil
  jobs,       \* jobs[e]: the verification job of entry e, and its last verdict
  quals,      \* quals[p]: qualifications.value_at, or Nil
  standings,  \* standings[p]: the player's row on the board, or Nil
  status,     \* players.status
  home,       \* player_regions.region_id for the season, or Nil
  pc,         \* the next statement of each call
  mem,        \* the local variables of each call
  answers     \* what a submission was told: which entry carries its run

ledger  == <<entries, jobs>>
derived == <<quals, standings>>
people  == <<status, home>>
vars    == <<entries, jobs, quals, standings, status, home, pc, mem, answers>>

Or(S) == S \cup {Nil}

Statuses == {"active", "suspended", "banned"}

Entry == [player : Players, value : Values, day : Days, key : Or(Keys),
          region : Or(Regions), status : {"counted", "review", "rejected"}]

Standing == [value : Int, eligible : BOOLEAN, region : Or(Regions)]

(* `state` folds queued, claimed and error into "open": what a verdict may *)
(* still decide.                                                           *)
Job   == [state : {"none", "open", "done"}, verdict : {"none", "counted", "rejected"}]
NoJob == [state |-> "none", verdict |-> "none"]

Labels == {"idle", "lookup", "region", "insert", "hold", "enqueue",
           "decide", "verdict", "retry", "giveup",
           "aggregate", "exam", "pass", "improve",
           "ledger", "drop", "eligible", "qualified", "write",
           "status", "sweep", "lift", "lock", "clear", "players", "next", "done"}

AllKinds == {"submit", "submit_untraced", "review", "result", "status", "resolve",
             "read", "region", "rebuild"}

(* What a decision or a moderation call sets. *)
Targets == {"counted", "rejected", "requeue", "giveup"} \cup Statuses

(* `todo` is the result set rebuild walks: players with their regions. *)
Locals == [kind : AllKinds \cup {""}, player : Or(Players), value : Or(Values), day : Or(Days),
           key : Or(Keys), entry : Or(Requests), to : Targets \cup {""}, region : Or(Regions),
           agg : Or(Int), exam : Or(Int), eligible : BOOLEAN,
           todo : SUBSET [player : Players, region : Or(Regions)]]

Blank == [kind |-> "", player |-> Nil, value |-> Nil, day |-> Nil, key |-> Nil,
          entry |-> Nil, to |-> "", region |-> Nil, agg |-> Nil, exam |-> Nil,
          eligible |-> FALSE, todo |-> {}]

Answer == [player : Players, key : Or(Keys), entry : Requests]

(* NULL is no value, and no row is not a row. *)
ASSUME NilAssumption ==
  /\ Nil \notin Players /\ Nil \notin Regions /\ Nil \notin Requests
  /\ Nil \notin Keys /\ Nil \notin Int
  /\ Nil \notin Entry /\ Nil \notin Standing /\ Nil \notin Answer

(* Every table, program counter and local variable keeps its type.         *)
TypeOK ==
  /\ entries \in [Requests -> Or(Entry)]
  /\ jobs \in [Requests -> Job]
  /\ quals \in [Players -> Or(Int)]
  /\ standings \in [Players -> Or(Standing)]
  /\ status \in [Players -> Statuses]
  /\ home \in [Players -> Or(Regions)]
  /\ pc \in [Requests -> Labels]
  /\ mem \in [Requests -> Locals]
  /\ answers \in [Requests -> Or(Answer)]

Init ==
  /\ entries = [e \in Requests |-> Nil]
  /\ jobs = [e \in Requests |-> NoJob]
  /\ quals = [p \in Players |-> Nil]
  /\ standings = [p \in Players |-> Nil]
  /\ status = [p \in Players |-> "active"]
  /\ home = [p \in Players |-> Nil]
  /\ pc = [r \in Requests |-> "idle"]
  /\ mem = [r \in Requests |-> Blank]
  /\ answers = [r \in Requests |-> Nil]

-----------------------------------------------------------------------------
(* What the SQL asks of the tables, and the arithmetic of a discipline.    *)

Beats(a, b)     == IF HigherIsBetter THEN a > b ELSE a < b
Reaches(v, bar) == IF HigherIsBetter THEN v >= bar ELSE v <= bar
Passes(v)       == Bar # Nil /\ Reaches(v, Bar)

Magnitude(v)  == IF v < 0 THEN -v ELSE v
Suspicious(v) == MaxValue # Nil /\ Magnitude(v) > MaxValue

(* The entries of a player with one of the given statuses. *)
EntriesOf(p, S) ==
  {e \in Requests : entries[e] # Nil /\ entries[e].player = p /\ entries[e].status \in S}
CountedOrHeld(p) == EntriesOf(p, {"counted", "review"})     \* mutant: the filter forgotten
Counted(p)       == EntriesOf(p, {"counted"})

RunsOf(E) == {[id |-> e, value |-> entries[e].value, day |-> entries[e].day] : e \in E}
LedgerValue(p) == Aggregate(RunsOf(Counted(p)))

(* The rows a SELECT by idem_key finds. *)
Keyed(p, k) ==
  {e \in Requests : k # Nil /\ entries[e] # Nil /\ entries[e].player = p /\ entries[e].key = k}

(* The rows that make the unique index (discipline, player, idem_key)      *)
(* refuse an insert.                                                       *)
NoIndex(p, k)   == {}                                        \* mutant
Conflicts(p, k) == Keyed(p, k)

(* Whether a player belongs on the board, as eligibility() decides it. *)
Qualified(p) == Bar = Nil \/ quals[p] # Nil
Deserves(p)  == status[p] # "banned" /\ Qualified(p)

-----------------------------------------------------------------------------
(* Control of a handler.                                                   *)

InFlight == {r \in Requests : pc[r] \notin {"idle", "done"}}

Start(r, kind, label, locals) ==
  /\ pc[r] = "idle"
  /\ kind \in Kinds
  /\ Cardinality(InFlight) < MaxInFlight
  /\ pc' = [pc EXCEPT ![r] = label]
  /\ mem' = [mem EXCEPT ![r] = [locals EXCEPT !.kind = kind]]

Goto(r, label) == pc' = [pc EXCEPT ![r] = label]

(* The handler answers; its local variables are gone. *)
Finish(r) ==
  /\ pc' = [pc EXCEPT ![r] = "done"]
  /\ mem' = [mem EXCEPT ![r] = Blank]

Tell(r, e) ==
  answers' = [answers EXCEPT ![r] =
                [player |-> mem[r].player, key |-> mem[r].key, entry |-> e]]

-----------------------------------------------------------------------------
(* POST /v1/entries                                                        *)

(* requirePlayer has read the player; mayContribute lets only "active" on. *)
(* A traced submission and one without a trace differ once there is a      *)
(* module.                                                                 *)
Submit(r) ==
  /\ \E p \in Players, v \in Values, d \in Days, k \in Or(Keys),
        kind \in {"submit", "submit_untraced"} :
       /\ status[p] = "active"
       /\ Start(r, kind, IF k = Nil THEN "region" ELSE "lookup",
                [Blank EXCEPT !.player = p, !.value = v, !.day = d, !.key = k])
  /\ UNCHANGED <<ledger, derived, people, answers>>

(* SELECT by idem_key: a run seen before is answered with its entry. *)
Lookup(r) ==
  /\ pc[r] = "lookup"
  /\ \/ /\ Keyed(mem[r].player, mem[r].key) = {}
        /\ Goto(r, "region")
        /\ UNCHANGED <<mem, answers>>
     \/ \E e \in Keyed(mem[r].player, mem[r].key) : Tell(r, e) /\ Finish(r)
  /\ UNCHANGED <<ledger, derived, people>>

(* SELECT player_regions: read once, used by the insert and by the refresh. *)
ReadRegion(r) ==
  /\ pc[r] = "region"
  /\ mem' = [mem EXCEPT ![r].region = home[mem[r].player]]
  /\ Goto(r, "insert")
  /\ UNCHANGED <<ledger, derived, people, answers>>

(* INSERT INTO entries.  When the unique index refuses it, the entry that  *)
(* won is read back and named in the answer.  The insert of player_apps    *)
(* that follows touches nothing modelled here.                             *)
Insert(r) ==
  LET m   == mem[r]
      row == [player |-> m.player, value |-> m.value, day |-> m.day, key |-> m.key,
              region |-> m.region,
              status |-> IF Suspicious(m.value) THEN "review" ELSE "counted"]
  IN
  /\ pc[r] = "insert"
  /\ \/ \E e \in Conflicts(m.player, m.key) :
          Tell(r, e) /\ Finish(r) /\ UNCHANGED entries
     \/ /\ Conflicts(m.player, m.key) = {}
        /\ entries' = [entries EXCEPT ![r] = row]
        /\ Tell(r, r)
        /\ \/ Suspicious(m.value) /\ Finish(r)                    \* 202, held
           \/ /\ ~Suspicious(m.value) /\ HasModule
              /\ m.kind = "submit_untraced"
              /\ Finish(r)                                        \* 400, trace missing
           \/ /\ ~Suspicious(m.value) /\ HasModule
              /\ m.kind = "submit"
              /\ Goto(r, "hold") /\ UNCHANGED mem
           \/ /\ ~Suspicious(m.value) /\ ~HasModule
              /\ Goto(r, "aggregate") /\ UNCHANGED mem
  /\ UNCHANGED <<jobs, derived, people>>

(* Mutant: the update is forgotten. *)
HoldNothing(r) ==
  /\ pc[r] = "hold"
  /\ Goto(r, "enqueue")
  /\ UNCHANGED <<ledger, derived, people, mem, answers>>

(* UPDATE entries SET status = 'review': only now is an unproven run held. *)
Hold(r) ==
  /\ pc[r] = "hold"
  /\ entries' = [entries EXCEPT ![r].status = "review"]
  /\ Goto(r, "enqueue")
  /\ UNCHANGED <<jobs, derived, people, mem, answers>>

(* queueVerification: the batch that inserts the job. *)
Enqueue(r) ==
  /\ pc[r] = "enqueue"
  /\ jobs' = [jobs EXCEPT ![r].state = "open"]
  /\ Finish(r)
  /\ UNCHANGED <<entries, derived, people, answers>>

-----------------------------------------------------------------------------
(* POST /v1/admin/entries/:id/review                                       *)

(* SELECT ... WHERE status = 'review' *)
Review(r) ==
  /\ \E e \in Requests, to \in {"counted", "rejected"} :
       /\ entries[e] # Nil /\ entries[e].status = "review"
       /\ Start(r, "review", "decide",
                [Blank EXCEPT !.entry = e, !.to = to, !.player = entries[e].player,
                              !.region = entries[e].region])
  /\ UNCHANGED <<ledger, derived, people, answers>>

(* UPDATE entries SET status = ? WHERE id = ?, whatever the status is now. *)
Decide(r) ==
  /\ pc[r] = "decide"
  /\ entries' = [entries EXCEPT ![mem[r].entry].status = mem[r].to]
  /\ Goto(r, "aggregate")
  /\ UNCHANGED <<jobs, derived, people, mem, answers>>

-----------------------------------------------------------------------------
(* POST /v1/verifier/jobs/:id/result                                       *)

(* SELECT the job with its entry; 409 if the job is done.                  *)
Result(r) ==
  /\ \E e \in Requests, to \in {"counted", "rejected", "requeue", "giveup"} :
       /\ jobs[e].state = "open"
       /\ Start(r, "result", IF to \in {"requeue", "giveup"} THEN "retry" ELSE "verdict",
                [Blank EXCEPT !.entry = e, !.to = to, !.player = entries[e].player,
                              !.region = entries[e].region])
  /\ UNCHANGED <<ledger, derived, people, answers>>

(* Mutant: the verdict does not reach the projection. *)
VerdictOnly(r) ==
  /\ pc[r] = "verdict"
  /\ jobs' = [jobs EXCEPT ![mem[r].entry] = [state |-> "done", verdict |-> mem[r].to]]
  /\ entries' = [entries EXCEPT ![mem[r].entry].status = mem[r].to]
  /\ Finish(r)
  /\ UNCHANGED <<derived, people, answers>>

(* The batch: the job is done and the entry counts or is rejected. *)
Verdict(r) ==
  /\ pc[r] = "verdict"
  /\ jobs' = [jobs EXCEPT ![mem[r].entry] = [state |-> "done", verdict |-> mem[r].to]]
  /\ entries' = [entries EXCEPT ![mem[r].entry].status = mem[r].to]
  /\ Goto(r, "aggregate")
  /\ UNCHANGED <<derived, people, mem, answers>>

(* An error verdict: the job goes back to the queue, or to 'error' after   *)
(* the third attempt, where a later verdict may still decide it.  The      *)
(* UPDATE names the job only, so it reopens one decided in the meantime.   *)
Retry(r) ==
  /\ pc[r] = "retry"
  /\ jobs' = [jobs EXCEPT ![mem[r].entry].state = "open"]
  /\ IF mem[r].to = "giveup" THEN Goto(r, "giveup") /\ UNCHANGED mem ELSE Finish(r)
  /\ UNCHANGED <<entries, derived, people, answers>>

(* Giving up holds the entry for a human; the board is not refreshed. *)
GiveUp(r) ==
  /\ pc[r] = "giveup"
  /\ entries' = [entries EXCEPT ![mem[r].entry].status = "review"]
  /\ Finish(r)
  /\ UNCHANGED <<jobs, derived, people, answers>>

-----------------------------------------------------------------------------
(* syncQualification(): the exam.                                          *)

(* Read the player's aggregate from the ledger. *)
ReadAggregate(r) ==
  LET p == mem[r].player IN
  /\ pc[r] = "aggregate"
  /\ IF Counted(p) = {}
       THEN Goto(r, "ledger") /\ UNCHANGED mem
       ELSE /\ mem' = [mem EXCEPT ![r].agg = LedgerValue(p)]
            /\ Goto(r, "exam")
  /\ UNCHANGED <<ledger, derived, people, answers>>

(* Mutant: any aggregate passes the exam. *)
ReadExamUnmarked(r) ==
  LET exam == quals[mem[r].player] IN
  /\ pc[r] = "exam"
  /\ mem' = [mem EXCEPT ![r].exam = exam]
  /\ Goto(r, IF exam = Nil THEN "pass" ELSE "ledger")
  /\ UNCHANGED <<ledger, derived, people, answers>>

(* Read the existing qualification and choose the write. *)
ReadExam(r) ==
  LET exam == quals[mem[r].player]
      agg  == mem[r].agg
  IN
  /\ pc[r] = "exam"
  /\ mem' = [mem EXCEPT ![r].exam = exam]
  /\ \/ exam = Nil /\ Passes(agg) /\ Goto(r, "pass")
     \/ exam = Nil /\ ~Passes(agg) /\ Goto(r, "ledger")
     \/ exam # Nil /\ Beats(agg, exam) /\ Goto(r, "improve")
     \/ exam # Nil /\ ~Beats(agg, exam) /\ Goto(r, "ledger")
  /\ UNCHANGED <<ledger, derived, people, answers>>

(* INSERT INTO qualifications ... ON CONFLICT DO NOTHING *)
Pass(r) ==
  LET p == mem[r].player IN
  /\ pc[r] = "pass"
  /\ quals' = [quals EXCEPT ![p] = IF @ = Nil THEN mem[r].agg ELSE @]
  /\ Goto(r, "ledger")
  /\ UNCHANGED <<ledger, standings, people, mem, answers>>

(* UPDATE qualifications SET value_at = ?, against the value read before. *)
Improve(r) ==
  /\ pc[r] = "improve"
  /\ quals' = [quals EXCEPT ![mem[r].player] = mem[r].agg]
  /\ Goto(r, "ledger")
  /\ UNCHANGED <<ledger, standings, people, mem, answers>>

-----------------------------------------------------------------------------
(* projection.refresh(): one player's row, recomputed.                     *)

(* After a refresh, a rebuild goes on with the next player. *)
Return(r) ==
  IF mem[r].kind = "rebuild" THEN Goto(r, "next") /\ UNCHANGED mem ELSE Finish(r)

(* Mutant: a player without a counted run keeps a row. *)
ReadLedgerOrNull(r) ==
  LET p == mem[r].player IN
  /\ pc[r] = "ledger"
  /\ mem' = [mem EXCEPT ![r].agg = IF Counted(p) = {} THEN Nil ELSE LedgerValue(p)]
  /\ Goto(r, "eligible")
  /\ UNCHANGED <<ledger, derived, people, answers>>

(* Read the aggregate again; without a counted run the row is deleted. *)
ReadLedger(r) ==
  LET p == mem[r].player IN
  /\ pc[r] = "ledger"
  /\ IF Counted(p) = {}
       THEN Goto(r, "drop") /\ UNCHANGED mem
       ELSE /\ mem' = [mem EXCEPT ![r].agg = LedgerValue(p)]
            /\ Goto(r, "eligible")
  /\ UNCHANGED <<ledger, derived, people, answers>>

Drop(r) ==
  /\ pc[r] = "drop"
  /\ standings' = [standings EXCEPT ![mem[r].player] = Nil]
  /\ Return(r)
  /\ UNCHANGED <<ledger, quals, people, answers>>

(* eligibility(): read the player's status ... *)
ReadStatus(r) ==
  LET banned == status[mem[r].player] = "banned" IN
  /\ pc[r] = "eligible"
  /\ mem' = [mem EXCEPT ![r].eligible = ~banned /\ Bar = Nil]
  /\ Goto(r, IF banned \/ Bar = Nil THEN "write" ELSE "qualified")
  /\ UNCHANGED <<ledger, derived, people, answers>>

(* ... and, with an exam to pass, whether it was passed. *)
ReadQualified(r) ==
  /\ pc[r] = "qualified"
  /\ mem' = [mem EXCEPT ![r].eligible = quals[mem[r].player] # Nil]
  /\ Goto(r, "write")
  /\ UNCHANGED <<ledger, derived, people, answers>>

(* INSERT ... ON CONFLICT DO UPDATE, with everything read so far. *)
WriteStanding(r) ==
  LET m == mem[r] IN
  /\ pc[r] = "write"
  /\ standings' = [standings EXCEPT ![m.player] =
                     [value |-> m.agg, eligible |-> m.eligible, region |-> m.region]]
  /\ Return(r)
  /\ UNCHANGED <<ledger, quals, people, answers>>

-----------------------------------------------------------------------------
(* Moderation, and the expiry of a suspension.                             *)

(* "status": POST /v1/admin/players/:handle/status.                        *)
(* "resolve": POST /v1/admin/reports/:id/resolve with suspend or ban.      *)
Moderate(r) ==
  /\ \E p \in Players, to \in Statuses, kind \in {"status", "resolve"} :
       /\ kind = "resolve" => to # "active"
       /\ Start(r, kind, "status", [Blank EXCEPT !.player = p, !.to = to])
  /\ UNCHANGED <<ledger, derived, people, answers>>

(* UPDATE players SET status.  Resolving a report with a suspension leaves *)
(* the boards alone.                                                       *)
SetStatus(r) ==
  /\ pc[r] = "status"
  /\ status' = [status EXCEPT ![mem[r].player] = mem[r].to]
  /\ IF mem[r].kind = "resolve" /\ mem[r].to = "suspended"
       THEN Finish(r)
       ELSE Goto(r, "sweep") /\ UNCHANGED mem
  /\ UNCHANGED <<ledger, derived, home, answers>>

(* Mutant: coming back is simply the reverse of a ban. *)
SweepBack(r) ==
  LET p == mem[r].player IN
  /\ pc[r] = "sweep"
  /\ standings' = [standings EXCEPT ![p] =
                     IF @ = Nil THEN Nil ELSE [@ EXCEPT !.eligible = mem[r].to # "banned"]]
  /\ Finish(r)
  /\ UNCHANGED <<ledger, quals, people, answers>>

(* setEligibility(): one UPDATE over the player's rows. *)
Sweep(r) ==
  LET p == mem[r].player IN
  /\ pc[r] = "sweep"
  /\ standings' = [standings EXCEPT ![p] =
                     IF @ = Nil THEN Nil
                     ELSE [@ EXCEPT !.eligible = mem[r].to # "banned" /\ Qualified(p)]]
  /\ Finish(r)
  /\ UNCHANGED <<ledger, quals, people, answers>>

(* Any authenticated call of a player whose suspension has run out:        *)
(* requirePlayer reads the row ...                                         *)
Authenticate(r) ==
  /\ \E p \in Players :
       /\ status[p] = "suspended"
       /\ Start(r, "read", "lift", [Blank EXCEPT !.player = p])
  /\ UNCHANGED <<ledger, derived, people, answers>>

(* ... and then sets it active, whatever it says by now. *)
LiftSuspension(r) ==
  /\ pc[r] = "lift"
  /\ status' = [status EXCEPT ![mem[r].player] = "active"]
  /\ Finish(r)
  /\ UNCHANGED <<ledger, derived, home, answers>>

-----------------------------------------------------------------------------
(* PATCH /v1/me/region                                                     *)

(* No region is chosen yet; the one asked for is open and the finest. *)
ChooseRegion(r) ==
  /\ \E p \in Players, g \in Regions :
       /\ home[p] = Nil
       /\ Start(r, "region", "lock", [Blank EXCEPT !.player = p, !.region = g])
  /\ UNCHANGED <<ledger, derived, people, answers>>

(* Mutant: the second of two racing choices replaces the first. *)
LockLast(r) ==
  /\ pc[r] = "lock"
  /\ home' = [home EXCEPT ![mem[r].player] = mem[r].region]
  /\ Finish(r)
  /\ UNCHANGED <<ledger, derived, status, answers>>

(* INSERT INTO player_regions; its primary key refuses a second row. *)
LockRegion(r) ==
  LET p == mem[r].player IN
  /\ pc[r] = "lock"
  /\ home' = [home EXCEPT ![p] = IF @ = Nil THEN mem[r].region ELSE @]
  /\ Finish(r)
  /\ UNCHANGED <<ledger, derived, status, answers>>

-----------------------------------------------------------------------------
(* POST /v1/admin/standings/rebuild                                        *)

Rebuild(r) ==
  /\ Start(r, "rebuild", "clear", Blank)
  /\ UNCHANGED <<ledger, derived, people, answers>>

ClearBoard(r) ==
  /\ pc[r] = "clear"
  /\ standings' = [p \in Players |-> Nil]
  /\ Goto(r, "players")
  /\ UNCHANGED <<ledger, quals, people, mem, answers>>

(* Mutant: the rebuild loses the regions. *)
ReadPlayersOnly(r) ==
  /\ pc[r] = "players"
  /\ mem' = [mem EXCEPT ![r].todo =
               {[player |-> p, region |-> Nil] : p \in {q \in Players : Counted(q) # {}}}]
  /\ Goto(r, "next")
  /\ UNCHANGED <<ledger, derived, people, answers>>

(* The players with a counted run, each with the home region they have now.*)
ReadPlayers(r) ==
  /\ pc[r] = "players"
  /\ mem' = [mem EXCEPT ![r].todo =
               {[player |-> p, region |-> home[p]] : p \in {q \in Players : Counted(q) # {}}}]
  /\ Goto(r, "next")
  /\ UNCHANGED <<ledger, derived, people, answers>>

NextPlayer(r) ==
  /\ pc[r] = "next"
  /\ \/ mem[r].todo = {} /\ Finish(r)
     \/ \E t \in mem[r].todo :
          /\ mem' = [mem EXCEPT ![r].player = t.player, ![r].region = t.region,
                                ![r].todo = @ \ {t}]
          /\ Goto(r, "ledger")
  /\ UNCHANGED <<ledger, derived, people, answers>>

-----------------------------------------------------------------------------
(* A handler may die between two statements: the isolate is evicted, a     *)
(* statement throws.  Nothing it wrote is undone.  "crash" \in Kinds       *)
(* switches this on.                                                       *)
Crash(r) ==
  /\ "crash" \in Kinds
  /\ r \in InFlight
  /\ Finish(r)
  /\ UNCHANGED <<ledger, derived, people, answers>>

Submission(r) == Submit(r) \/ Lookup(r) \/ ReadRegion(r) \/ Insert(r) \/ Hold(r) \/ Enqueue(r)
Decision(r)   == Review(r) \/ Decide(r) \/ Result(r) \/ Verdict(r) \/ Retry(r) \/ GiveUp(r)
Sync(r)       == ReadAggregate(r) \/ ReadExam(r) \/ Pass(r) \/ Improve(r)
Refresh(r)    == ReadLedger(r) \/ Drop(r) \/ ReadStatus(r) \/ ReadQualified(r) \/ WriteStanding(r)
Moderation(r) == Moderate(r) \/ SetStatus(r) \/ Sweep(r) \/ Authenticate(r) \/ LiftSuspension(r)
Residence(r)  == ChooseRegion(r) \/ LockRegion(r)
Rebuilding(r) == Rebuild(r) \/ ClearBoard(r) \/ ReadPlayers(r) \/ NextPlayer(r)

Next ==
  \E r \in Requests :
    \/ Submission(r) \/ Decision(r) \/ Sync(r) \/ Refresh(r)
    \/ Moderation(r) \/ Residence(r) \/ Rebuilding(r) \/ Crash(r)

Spec == Init /\ [][Next]_vars

-----------------------------------------------------------------------------
(* Properties that hold whatever the interleaving.                         *)

(* A row is on a board only if the exam was passed or there is none: not   *)
(* after an unban, not after a refresh that raced with anything.           *)
ExamBeforeBoard ==
  \A p \in Players :
    standings[p] # Nil /\ standings[p].eligible => Qualified(p)

(* A qualification is only ever given for a value that reaches the bar,    *)
(* and racing updates of value_at never leave one that does not.           *)
QualificationEarned ==
  \A p \in Players : quals[p] # Nil => Passes(quals[p])

(* v is what the aggregation makes of some of the player's own decided     *)
(* entries; a run that is still held is never among them.                  *)
Sourced(v, p) ==
  \E S \in (SUBSET EntriesOf(p, {"counted", "rejected"})) \ {{}} : v = Aggregate(RunsOf(S))

(* The entry is stored and held, it is not part of the competition yet:    *)
(* no number on the board or in an exam ever includes an undecided run.    *)
DecidedRunsOnly ==
  \A p \in Players :
    /\ standings[p] # Nil => Sourced(standings[p].value, p)
    /\ quals[p] # Nil => Sourced(quals[p], p)

(* Where a run is only held by the plausibility limit, that is so.  Where  *)
(* a module proves the runs it is not: an entry is inserted as counted and *)
(* held by a second statement.                                             *)
HeldRunsStayOff == ~HasModule => DecidedRunsOnly

(* Home regions are locked per season: a player stands on the boards of    *)
(* the region they locked or of none, whoever wrote the row and from       *)
(* whichever copy of the region.                                           *)
OwnRegionOnly ==
  \A p \in Players :
    standings[p] # Nil => standings[p].region \in {Nil, home[p]}

(* Submissions with the same idempotency key get the same entry, however   *)
(* they interleave, and that entry is the player's.                        *)
OneEntryPerKey ==
  \A r, s \in Requests :
    answers[r] # Nil =>
      LET a == answers[r]
          b == answers[s]
      IN /\ entries[a.entry] # Nil /\ entries[a.entry].player = a.player
         /\ (b # Nil /\ a.key # Nil /\ b.player = a.player /\ b.key = a.key
               => b.entry = a.entry)

-----------------------------------------------------------------------------
(* Properties of a board nobody is working on.                             *)

(* The row a rebuild would write for p now. *)
Derived(p) ==
  IF Counted(p) = {} THEN Nil
  ELSE [value |-> LedgerValue(p), eligible |-> Deserves(p), region |-> home[p]]

(* Between calls the board agrees with the ledger: every counted run is    *)
(* in its player's value, and exactly those are on the board who belong    *)
(* there; the banned are not, and who is back from a ban is.               *)
BoardIsLedger ==
  InFlight = {} =>
    \A p \in Players :
      /\ (standings[p] = Nil) <=> (Counted(p) = {})
      /\ standings[p] # Nil => /\ standings[p].value = LedgerValue(p)
                               /\ standings[p].eligible = Deserves(p)

(* A discipline that can prove its runs does not count one until it has:   *)
(* between calls a counted run has a verdict, and no later one against it. *)
(* (Calls without operator reviews; an operator may count a run before the *)
(* verifier answers.)                                                      *)
UnprovenRunDoesNotCount ==
  HasModule /\ InFlight = {} =>
    \A e \in Requests :
      entries[e] # Nil /\ entries[e].status = "counted" => jobs[e].verdict = "counted"

(* When a rebuild that ran alone ends, every row is the derived one. *)
RebuildRestoresTheBoard ==
  [][\A r \in Requests :
       pc[r] = "next" /\ pc'[r] = "done" => \A p \in Players : standings[p] = Derived(p)]_vars
=============================================================================
