--------------------------- MODULE StandingsProofs ---------------------------
(***************************************************************************)
(* The types and the safety properties of Standings, for every number of   *)
(* players, calls, values and keys, every aggregation and every            *)
(* discipline.                                                             *)
(***************************************************************************)
EXTENDS Standings, FiniteSetTheorems, TLAPS

USE DEF Or

-----------------------------------------------------------------------------
(* Records keep their types under the assignments the handlers make.       *)

LEMMA BlankIsLocals == Blank \in Locals
  BY DEF Blank, Locals, AllKinds, Targets

LEMMA SubmitLocals ==
  ASSUME NEW p \in Players, NEW v \in Values, NEW d \in Days, NEW k \in Or(Keys)
  PROVE  [Blank EXCEPT !.player = p, !.value = v, !.day = d, !.key = k] \in Locals
  BY DEF Blank, Locals, Targets

LEMMA DecisionLocals ==
  ASSUME NEW e \in Requests, NEW to \in Targets, NEW p \in Players, NEW g \in Or(Regions)
  PROVE  [Blank EXCEPT !.entry = e, !.to = to, !.player = p, !.region = g] \in Locals
  BY DEF Blank, Locals, Targets

LEMMA ModerationLocals ==
  ASSUME NEW p \in Players, NEW to \in Targets
  PROVE  [Blank EXCEPT !.player = p, !.to = to] \in Locals
  BY DEF Blank, Locals, Targets

LEMMA ReadLocals ==
  ASSUME NEW p \in Players
  PROVE  [Blank EXCEPT !.player = p] \in Locals
  BY DEF Blank, Locals, Targets

LEMMA ResidenceLocals ==
  ASSUME NEW p \in Players, NEW g \in Regions
  PROVE  [Blank EXCEPT !.player = p, !.region = g] \in Locals
  BY DEF Blank, Locals, Targets

LEMMA KindAssigned ==
  ASSUME NEW m \in Locals, NEW x \in AllKinds
  PROVE  [m EXCEPT !.kind = x] \in Locals
  BY DEF Locals

LEMMA RegionAssigned ==
  ASSUME NEW m \in Locals, NEW x \in Or(Regions)
  PROVE  [m EXCEPT !.region = x] \in Locals
  BY DEF Locals

LEMMA AggAssigned ==
  ASSUME NEW m \in Locals, NEW x \in Int
  PROVE  [m EXCEPT !.agg = x] \in Locals
  BY DEF Locals

LEMMA ExamAssigned ==
  ASSUME NEW m \in Locals, NEW x \in Or(Int)
  PROVE  [m EXCEPT !.exam = x] \in Locals
  BY DEF Locals

LEMMA EligibleAssigned ==
  ASSUME NEW m \in Locals, NEW x \in BOOLEAN
  PROVE  [m EXCEPT !.eligible = x] \in Locals
  BY DEF Locals

LEMMA TodoAssigned ==
  ASSUME NEW m \in Locals, NEW x \in SUBSET [player : Players, region : Or(Regions)]
  PROVE  [m EXCEPT !.todo = x] \in Locals
  BY DEF Locals

LEMMA TodoTaken ==
  ASSUME NEW m \in Locals, NEW t \in m.todo
  PROVE  [m EXCEPT !.player = t.player, !.region = t.region, !.todo = @ \ {t}] \in Locals
  BY DEF Locals

LEMMA EntryStatusAssigned ==
  ASSUME NEW e \in Entry, NEW s \in {"counted", "review", "rejected"}
  PROVE  [e EXCEPT !.status = s] \in Entry
  BY DEF Entry

LEMMA JobStateAssigned ==
  ASSUME NEW j \in Job, NEW s \in {"none", "open", "done"}
  PROVE  [j EXCEPT !.state = s] \in Job
  BY DEF Job

LEMMA StandingAssigned ==
  ASSUME NEW b \in Standing, NEW x \in BOOLEAN
  PROVE  [b EXCEPT !.eligible = x] \in Standing
  BY DEF Standing

(* The runs of a non-empty set of entries have an integer aggregate.       *)
LEMMA AggregateIsInt ==
  ASSUME TypeOK, NEW E \in (SUBSET Requests) \ {{}},
         \A e \in E : entries[e] # Nil
  PROVE  Aggregate(RunsOf(E)) \in Int
<1>1. RunsOf(E) \in (SUBSET Run) \ {{}}
  <2>1. PICK e \in E : TRUE
    OBVIOUS
  <2>2. \A x \in E : entries[x] \in Entry
    BY DEF TypeOK
  <2>3. \A x \in E : [id |-> x, value |-> entries[x].value, day |-> entries[x].day] \in Run
    BY <2>2 DEF Run, Entry
  <2>4. RunsOf(E) # {}
    BY <2>1 DEF RunsOf
  <2> QED
    BY <2>3, <2>4 DEF RunsOf
<1> QED
  BY <1>1, AggregateAssumption

LEMMA LedgerValueIsInt ==
  ASSUME TypeOK, NEW p \in Players, Counted(p) # {}
  PROVE  LedgerValue(p) \in Int
<1>1. Counted(p) \in (SUBSET Requests) \ {{}} /\ \A e \in Counted(p) : entries[e] # Nil
  BY DEF Counted, EntriesOf
<1> QED
  BY <1>1, AggregateIsInt DEF LedgerValue

-----------------------------------------------------------------------------
(* Types.  Beyond TypeOK, a handler has the local variables its next       *)
(* statement needs, and has inserted its entry or not.                     *)

HasSubject == Labels \ {"idle", "done", "clear", "players", "next"}
HasValue   == {"exam", "pass", "improve", "eligible", "qualified", "write"}
BeforeRow  == {"idle", "lookup", "region", "insert"}

Ready(r) ==
  /\ pc[r] \in HasSubject => mem[r].player \in Players
  /\ pc[r] \in HasValue => mem[r].agg \in Int
  /\ pc[r] \in {"lookup", "region", "insert"} => mem[r].value \in Values /\ mem[r].day \in Days
  /\ pc[r] \in {"decide", "verdict", "retry", "giveup"} =>
       mem[r].entry \in Requests /\ entries[mem[r].entry] # Nil
  /\ pc[r] \in {"decide", "verdict"} => mem[r].to \in {"counted", "rejected"}
  /\ pc[r] = "status" \/ pc[r] = "sweep" => mem[r].to \in Statuses
  /\ pc[r] \in {"hold", "enqueue"} => entries[r] # Nil
  /\ pc[r] \in BeforeRow => entries[r] = Nil

JobsHaveEntries == \A e \in Requests : jobs[e].state # "none" => entries[e] # Nil

TypeInv == TypeOK /\ JobsHaveEntries /\ \A r \in Requests : Ready(r)

TablesOK ==
  /\ entries \in [Requests -> Or(Entry)]
  /\ jobs \in [Requests -> Job]
  /\ quals \in [Players -> Or(Int)]
  /\ standings \in [Players -> Or(Standing)]
  /\ status \in [Players -> Statuses]
  /\ home \in [Players -> Or(Regions)]
  /\ answers \in [Requests -> Or(Answer)]

(* A step of handler r moves its own program counter and locals only.      *)
Moves(r) ==
  /\ pc' = [pc EXCEPT ![r] = pc'[r]] /\ pc'[r] \in Labels
  /\ mem' = [mem EXCEPT ![r] = mem'[r]] /\ mem'[r] \in Locals

(* The ledger only grows, by the entry of the handler that steps.          *)
Grows(r) ==
  /\ \A e \in Requests : entries[e] # Nil =>
       /\ entries'[e] # Nil
       /\ entries'[e].player = entries[e].player /\ entries'[e].value = entries[e].value
       /\ entries'[e].day = entries[e].day /\ entries'[e].key = entries[e].key
       /\ entries'[e].region = entries[e].region
  /\ \A e \in Requests \ {r} : entries[e] = Nil => entries'[e] = Nil

Keeps(r) == TypeInv' /\ Moves(r) /\ Grows(r)

(* What is left to show of a step once its frame is known.                 *)
LEMMA TypeFrame ==
  ASSUME TypeInv, NEW r \in Requests, Moves(r), Grows(r), TablesOK', JobsHaveEntries', Ready(r)'
  PROVE  Keeps(r)
<1>1. TypeOK'
  BY DEF TypeInv, TypeOK, TablesOK, Moves
<1>2. ASSUME NEW s \in Requests, s # r  PROVE Ready(s)'
  <2>1. pc'[s] = pc[s] /\ mem'[s] = mem[s]
    BY <1>2 DEF Moves, TypeInv, TypeOK
  <2>2. Ready(s)
    BY DEF TypeInv
  <2> QED
    BY <1>2, <2>1, <2>2 DEF Ready, Grows, BeforeRow
<1> QED
  BY <1>1, <1>2 DEF TypeInv, Keeps

(* A statement that only reads.                                            *)
LEMMA TypeRead ==
  ASSUME TypeInv, NEW r \in Requests, Moves(r), UNCHANGED <<ledger, derived, people, answers>>,
         Ready(r)'
  PROVE  Keeps(r)
<1>1. Grows(r) /\ TablesOK' /\ JobsHaveEntries'
  BY DEF Grows, TablesOK, JobsHaveEntries, TypeInv, TypeOK, ledger, derived, people
<1> QED
  BY <1>1, TypeFrame

-----------------------------------------------------------------------------
(* The four ways a statement moves its handler.                            *)

LEMMA Started ==
  ASSUME TypeOK, NEW r \in Requests, NEW kind \in AllKinds, NEW label \in Labels,
         NEW m \in Locals, Start(r, kind, label, m)
  PROVE  /\ Moves(r) /\ pc[r] = "idle" /\ pc'[r] = label
         /\ mem'[r] = [m EXCEPT !.kind = kind]
<1>1. [m EXCEPT !.kind = kind] \in Locals
  BY KindAssigned
<1> QED
  BY <1>1 DEF Start, Moves, TypeOK

LEMMA Assigned ==
  ASSUME TypeOK, NEW r \in Requests, NEW label \in Labels, Goto(r, label),
         NEW m \in Locals, mem' = [mem EXCEPT ![r] = m]
  PROVE  Moves(r) /\ pc'[r] = label /\ mem'[r] = m
  BY DEF Goto, Moves, TypeOK

LEMMA Stepped ==
  ASSUME TypeOK, NEW r \in Requests, NEW label \in Labels, Goto(r, label), UNCHANGED mem
  PROVE  Moves(r) /\ pc'[r] = label /\ mem'[r] = mem[r]
  BY DEF Goto, Moves, TypeOK

LEMMA Finished ==
  ASSUME TypeOK, NEW r \in Requests, Finish(r)
  PROVE  Moves(r) /\ pc'[r] = "done" /\ mem'[r] = Blank
  BY BlankIsLocals DEF Finish, Moves, TypeOK, Labels

LEMMA Returned ==
  ASSUME TypeOK, NEW r \in Requests, Return(r)
  PROVE  /\ Moves(r)
         /\ \/ pc'[r] = "done" /\ mem'[r] = Blank
            \/ pc'[r] = "next" /\ mem'[r] = mem[r]
  BY Stepped, Finished DEF Return, Labels

(* A statement that sets the status of an existing entry.                  *)
LEMMA EntryUpdated ==
  ASSUME TypeOK, NEW r \in Requests, NEW e \in Requests, entries[e] # Nil,
         NEW s \in {"counted", "review", "rejected"},
         entries' = [entries EXCEPT ![e].status = s]
  PROVE  /\ entries' \in [Requests -> Or(Entry)]
         /\ Grows(r)
         /\ \A x \in Requests : entries'[x] = Nil <=> entries[x] = Nil
<1>1. entries[e] \in Entry
  BY DEF TypeOK
<1>2. [entries[e] EXCEPT !.status = s] \in Entry
  BY <1>1, EntryStatusAssigned
<1>3. [entries[e] EXCEPT !.status = s] # Nil
  BY <1>2, NilAssumption
<1>4. \A x \in Requests :
        entries'[x] = IF x = e THEN [entries[e] EXCEPT !.status = s] ELSE entries[x]
  BY DEF TypeOK
<1>5. entries' \in [Requests -> Or(Entry)]
  BY <1>2 DEF TypeOK
<1>6. \A x \in Requests : entries'[x] = Nil <=> entries[x] = Nil
  BY <1>3, <1>4
<1>7. Grows(r)
  BY <1>1, <1>4, <1>6 DEF Grows, Entry
<1> QED
  BY <1>5, <1>6, <1>7

-----------------------------------------------------------------------------
(* Every step preserves the types, one lemma for each group of actions.    *)

(* Submitting a run. *)
LEMMA SubmissionType ==
  ASSUME TypeInv, NEW r \in Requests, Submission(r)
  PROVE  Keeps(r)
<1>a. TypeOK /\ JobsHaveEntries /\ Ready(r) /\ mem[r] \in Locals
  BY DEF TypeInv, TypeOK
<1>1. CASE Submit(r)
  <2>1. PICK p \in Players, v \in Values, d \in Days, k \in Or(Keys),
             kind \in {"submit", "submit_untraced"} :
          Start(r, kind, IF k = Nil THEN "region" ELSE "lookup",
                [Blank EXCEPT !.player = p, !.value = v, !.day = d, !.key = k])
    BY <1>1 DEF Submit
  <2> DEFINE m == [Blank EXCEPT !.player = p, !.value = v, !.day = d, !.key = k]
  <2>2. m \in Locals /\ m.player = p /\ m.value = v /\ m.day = d
    BY SubmitLocals DEF Blank
  <2>3. Moves(r) /\ pc[r] = "idle" /\ pc'[r] \in {"region", "lookup"}
        /\ mem'[r] = [m EXCEPT !.kind = kind]
    <3> DEFINE label == IF k = Nil THEN "region" ELSE "lookup"
    <3>1. kind \in AllKinds /\ label \in Labels /\ label \in {"region", "lookup"}
          /\ Start(r, kind, label, m)
      BY <2>1 DEF AllKinds, Labels
    <3> HIDE DEF m, label
    <3> QED
      BY <1>a, <2>2, <3>1, Started
  <2>4. mem'[r].player = p /\ mem'[r].value = v /\ mem'[r].day = d
    <3> HIDE DEF m
    <3> QED
      BY <2>2, <2>3 DEF Locals
  <2>5. entries' = entries
    BY <1>1 DEF Submit, ledger
  <2>6. Ready(r)'
    BY <1>a, <2>3, <2>4, <2>5 DEF Ready, HasSubject, HasValue, BeforeRow, Labels
  <2> QED
    BY <1>1, <2>3, <2>6, TypeRead DEF Submit
<1>2. CASE Lookup(r)
  <2>1. Moves(r) /\ entries' = entries /\ pc[r] = "lookup"
    BY <1>a, <1>2, Stepped, Finished DEF Lookup, Labels, ledger
  <2>2. \/ pc'[r] = "region" /\ mem'[r] = mem[r]
        \/ pc'[r] = "done"
    BY <1>a, <1>2, Stepped, Finished DEF Lookup, Labels
  <2>3. Ready(r)'
    BY <1>a, <2>1, <2>2 DEF Ready, HasSubject, HasValue, BeforeRow, Labels
  <2>4. answers' \in [Requests -> Or(Answer)]
    <3>1. [player |-> mem[r].player, key |-> mem[r].key, entry |-> r] \in Answer
          /\ \A e \in Requests :
               [player |-> mem[r].player, key |-> mem[r].key, entry |-> e] \in Answer
      BY <1>a, <2>1 DEF Answer, Locals, Ready, HasSubject, Labels
    <3> QED
      BY <1>a, <1>2, <3>1 DEF Lookup, Tell, Keyed, TypeOK
  <2>5. Grows(r) /\ JobsHaveEntries' /\ TablesOK'
    BY <1>a, <1>2, <2>4 DEF Lookup, Grows, JobsHaveEntries, TablesOK, TypeOK, ledger, derived, people
  <2> QED
    BY <2>1, <2>3, <2>5, TypeFrame
<1>3. CASE ReadRegion(r)
  <2>1. mem[r].player \in Players /\ pc[r] = "region"
    BY <1>a, <1>3 DEF ReadRegion, Ready, HasSubject, Labels
  <2> DEFINE m == [mem[r] EXCEPT !.region = home[mem[r].player]]
  <2>2. m \in Locals
    BY <1>a, <2>1, RegionAssigned DEF TypeOK
  <2>3. m.player = mem[r].player /\ m.value = mem[r].value /\ m.day = mem[r].day
    BY <1>a DEF Locals
  <2>4. Moves(r) /\ pc'[r] = "insert" /\ mem'[r] = m
    <3>1. mem' = [mem EXCEPT ![r] = m] /\ Goto(r, "insert")
      BY <1>3 DEF ReadRegion
    <3> HIDE DEF m
    <3> QED
      BY <1>a, <2>2, <3>1, Assigned DEF Labels
  <2>5. entries' = entries
    BY <1>3 DEF ReadRegion, ledger
  <2> HIDE DEF m
  <2>6. Ready(r)'
    BY <1>a, <2>1, <2>3, <2>4, <2>5 DEF Ready, HasSubject, HasValue, BeforeRow, Labels
  <2> QED
    BY <1>3, <2>4, <2>6, TypeRead DEF ReadRegion
<1>4. CASE Insert(r)
  <2> DEFINE m   == mem[r]
             row == [player |-> m.player, value |-> m.value, day |-> m.day, key |-> m.key,
                     region |-> m.region,
                     status |-> IF Suspicious(m.value) THEN "review" ELSE "counted"]
  <2>1. pc[r] = "insert" /\ entries[r] = Nil /\ m.player \in Players
        /\ m.value \in Values /\ m.day \in Days
    BY <1>a, <1>4 DEF Insert, Ready, HasSubject, BeforeRow, Labels
  <2>2. row \in Entry /\ row # Nil
    <3>1. m.key \in Or(Keys) /\ m.region \in Or(Regions)
      BY <1>a DEF Locals
    <3>2. row \in Entry
      BY <2>1, <3>1 DEF Entry
    <3> QED
      BY <3>2, NilAssumption
  <2>3. /\ Moves(r)
        /\ \/ pc'[r] = "done"
           \/ pc'[r] \in {"hold", "aggregate"} /\ mem'[r] = m /\ entries'[r] # Nil
    <3>1. CASE Finish(r)
      BY <1>a, <3>1, Finished
    <3>2. CASE entries' = [entries EXCEPT ![r] = row] /\ UNCHANGED mem
               /\ (Goto(r, "hold") \/ Goto(r, "aggregate"))
      <4>1. entries'[r] # Nil
        BY <1>a, <2>2, <3>2 DEF TypeOK
      <4> QED
        BY <1>a, <3>2, <4>1, Stepped DEF Labels
    <3> QED
      BY <1>4, <3>1, <3>2 DEF Insert
  <2>4. \/ entries' = entries
        \/ entries' = [entries EXCEPT ![r] = row]
    BY <1>4 DEF Insert
  <2>5. entries' \in [Requests -> Or(Entry)] /\ Grows(r)
    <3> HIDE DEF row
    <3> QED
      BY <1>a, <2>1, <2>2, <2>4 DEF Grows, TypeOK
  <2>6. JobsHaveEntries'
    BY <1>a, <1>4, <2>5 DEF Insert, JobsHaveEntries, Grows
  <2>7. answers' \in [Requests -> Or(Answer)]
    <3>1. \A e \in Requests :
            [player |-> mem[r].player, key |-> mem[r].key, entry |-> e] \in Answer
      BY <1>a, <2>1 DEF Answer, Locals
    <3>2. \E e \in Requests : Tell(r, e)
      BY <1>4 DEF Insert, Conflicts, Keyed
    <3> QED
      BY <1>a, <3>1, <3>2 DEF Tell, TypeOK
  <2>8. TablesOK'
    BY <1>a, <1>4, <2>5, <2>7 DEF Insert, TablesOK, TypeOK, derived, people
  <2>9. Ready(r)'
    BY <1>a, <2>1, <2>3 DEF Ready, HasSubject, HasValue, BeforeRow, Labels
  <2> QED
    BY <2>3, <2>5, <2>6, <2>8, <2>9, TypeFrame
<1>5. CASE Hold(r)
  <2>1. pc[r] = "hold" /\ entries[r] # Nil /\ Goto(r, "enqueue") /\ UNCHANGED mem
    BY <1>a, <1>5 DEF Hold, Ready
  <2>2. Moves(r) /\ pc'[r] = "enqueue" /\ mem'[r] = mem[r]
    BY <1>a, <2>1, Stepped DEF Labels
  <2>3. /\ entries' \in [Requests -> Or(Entry)] /\ Grows(r)
        /\ \A x \in Requests : entries'[x] = Nil <=> entries[x] = Nil
    BY <1>a, <1>5, <2>1, EntryUpdated DEF Hold
  <2>4. TablesOK' /\ JobsHaveEntries'
    BY <1>a, <1>5, <2>3 DEF Hold, TablesOK, TypeOK, JobsHaveEntries, derived, people
  <2>5. Ready(r)'
    BY <1>a, <2>1, <2>2, <2>3 DEF Ready, HasSubject, HasValue, BeforeRow, Labels
  <2> QED
    BY <2>2, <2>3, <2>4, <2>5, TypeFrame
<1>6. CASE Enqueue(r)
  <2>1. pc[r] = "enqueue" /\ entries[r] # Nil /\ Finish(r) /\ entries' = entries
    BY <1>a, <1>6 DEF Enqueue, Ready
  <2>2. Moves(r) /\ pc'[r] = "done"
    BY <1>a, <2>1, Finished
  <2>3. jobs' \in [Requests -> Job] /\ \A e \in Requests \ {r} : jobs'[e] = jobs[e]
    BY <1>a, <1>6, JobStateAssigned DEF Enqueue, TypeOK
  <2>4. Grows(r) /\ TablesOK' /\ JobsHaveEntries'
    BY <1>a, <1>6, <2>1, <2>3 DEF Enqueue, Grows, TablesOK, TypeOK, JobsHaveEntries, derived, people
  <2>5. Ready(r)'
    BY <2>2 DEF Ready, HasSubject, HasValue, BeforeRow, Labels
  <2> QED
    BY <2>2, <2>4, <2>5, TypeFrame
<1> QED
  BY <1>1, <1>2, <1>3, <1>4, <1>5, <1>6 DEF Submission

(* Reviewing an entry, and the verdict of a verifier. *)
LEMMA DecisionType ==
  ASSUME TypeInv, NEW r \in Requests, Decision(r)
  PROVE  Keeps(r)
<1>a. TypeOK /\ JobsHaveEntries /\ Ready(r) /\ mem[r] \in Locals
  BY DEF TypeInv, TypeOK
<1>1. CASE Review(r)
  <2>1. PICK e \in Requests, to \in {"counted", "rejected"} :
          /\ entries[e] # Nil
          /\ Start(r, "review", "decide",
                   [Blank EXCEPT !.entry = e, !.to = to, !.player = entries[e].player,
                                 !.region = entries[e].region])
    BY <1>1 DEF Review
  <2> DEFINE m == [Blank EXCEPT !.entry = e, !.to = to, !.player = entries[e].player,
                                !.region = entries[e].region]
  <2>2. entries[e].player \in Players /\ entries[e].region \in Or(Regions)
    BY <1>a, <2>1 DEF TypeOK, Entry
  <2>3. m \in Locals
    BY <2>2, DecisionLocals DEF Targets
  <2>4. m.entry = e /\ m.to = to /\ m.player = entries[e].player
    BY DEF Blank
  <2>5. Moves(r) /\ pc[r] = "idle" /\ pc'[r] = "decide" /\ mem'[r] = [m EXCEPT !.kind = "review"]
    <3>1. Start(r, "review", "decide", m)
      BY <2>1
    <3> HIDE DEF m
    <3> QED
      BY <1>a, <2>3, <3>1, Started DEF Labels, AllKinds
  <2> HIDE DEF m
  <2>6. mem'[r].entry = e /\ mem'[r].to = to /\ mem'[r].player = entries[e].player
    BY <2>3, <2>4, <2>5 DEF Locals
  <2>7. entries' = entries
    BY <1>1 DEF Review, ledger
  <2>8. Ready(r)'
    BY <2>1, <2>2, <2>5, <2>6, <2>7 DEF Ready, HasSubject, HasValue, BeforeRow, Labels
  <2> QED
    BY <1>1, <2>5, <2>8, TypeRead DEF Review
<1>2. CASE Decide(r)
  <2>1. /\ pc[r] = "decide" /\ Goto(r, "aggregate") /\ UNCHANGED mem
        /\ mem[r].player \in Players /\ mem[r].entry \in Requests /\ entries[mem[r].entry] # Nil
        /\ mem[r].to \in {"counted", "rejected"}
    BY <1>a, <1>2 DEF Decide, Ready, HasSubject, Labels
  <2>2. Moves(r) /\ pc'[r] = "aggregate" /\ mem'[r] = mem[r]
    BY <1>a, <2>1, Stepped DEF Labels
  <2>3. /\ entries' \in [Requests -> Or(Entry)] /\ Grows(r)
        /\ \A x \in Requests : entries'[x] = Nil <=> entries[x] = Nil
    BY <1>a, <1>2, <2>1, EntryUpdated DEF Decide
  <2>4. TablesOK' /\ JobsHaveEntries'
    BY <1>a, <1>2, <2>3 DEF Decide, TablesOK, TypeOK, JobsHaveEntries, derived, people
  <2>5. Ready(r)'
    BY <2>1, <2>2 DEF Ready, HasSubject, HasValue, BeforeRow, Labels
  <2> QED
    BY <2>2, <2>3, <2>4, <2>5, TypeFrame
<1>3. CASE Result(r)
  <2>1. PICK e \in Requests, to \in {"counted", "rejected", "requeue", "giveup"} :
          /\ jobs[e].state = "open"
          /\ Start(r, "result", IF to \in {"requeue", "giveup"} THEN "retry" ELSE "verdict",
                   [Blank EXCEPT !.entry = e, !.to = to, !.player = entries[e].player,
                                 !.region = entries[e].region])
    BY <1>3 DEF Result
  <2> DEFINE m == [Blank EXCEPT !.entry = e, !.to = to, !.player = entries[e].player,
                                !.region = entries[e].region]
             label == IF to \in {"requeue", "giveup"} THEN "retry" ELSE "verdict"
  <2>2. entries[e] # Nil
    BY <1>a, <2>1 DEF JobsHaveEntries
  <2>3. entries[e].player \in Players /\ entries[e].region \in Or(Regions)
    BY <1>a, <2>2 DEF TypeOK, Entry
  <2>4. m \in Locals
    BY <2>3, DecisionLocals DEF Targets
  <2>5. m.entry = e /\ m.to = to /\ m.player = entries[e].player
    BY DEF Blank
  <2>6. Moves(r) /\ pc[r] = "idle" /\ pc'[r] = label /\ mem'[r] = [m EXCEPT !.kind = "result"]
    <3>1. label \in Labels /\ "result" \in AllKinds /\ Start(r, "result", label, m)
      BY <2>1 DEF Labels, AllKinds
    <3> HIDE DEF m, label
    <3> QED
      BY <1>a, <2>4, <3>1, Started
  <2> HIDE DEF m
  <2>7. mem'[r].entry = e /\ mem'[r].to = to /\ mem'[r].player = entries[e].player
    BY <2>4, <2>5, <2>6 DEF Locals
  <2>8. entries' = entries
    BY <1>3 DEF Result, ledger
  <2>9. Ready(r)'
    BY <2>2, <2>3, <2>6, <2>7, <2>8 DEF Ready, HasSubject, HasValue, BeforeRow, Labels
  <2> QED
    BY <1>3, <2>6, <2>9, TypeRead DEF Result
<1>4. CASE Verdict(r)
  <2>1. /\ pc[r] = "verdict" /\ Goto(r, "aggregate") /\ UNCHANGED mem
        /\ mem[r].player \in Players /\ mem[r].entry \in Requests /\ entries[mem[r].entry] # Nil
        /\ mem[r].to \in {"counted", "rejected"}
    BY <1>a, <1>4 DEF Verdict, Ready, HasSubject, Labels
  <2>2. Moves(r) /\ pc'[r] = "aggregate" /\ mem'[r] = mem[r]
    BY <1>a, <2>1, Stepped DEF Labels
  <2>3. /\ entries' \in [Requests -> Or(Entry)] /\ Grows(r)
        /\ \A x \in Requests : entries'[x] = Nil <=> entries[x] = Nil
    BY <1>a, <1>4, <2>1, EntryUpdated DEF Verdict
  <2>4. /\ jobs' \in [Requests -> Job]
        /\ \A e \in Requests : jobs'[e].state # "none" /\ e # mem[r].entry => jobs[e].state # "none"
    BY <1>a, <1>4, <2>1 DEF Verdict, TypeOK, Job
  <2>5. TablesOK' /\ JobsHaveEntries'
    BY <1>a, <1>4, <2>1, <2>3, <2>4 DEF Verdict, TablesOK, TypeOK, JobsHaveEntries, derived, people
  <2>6. Ready(r)'
    BY <2>1, <2>2 DEF Ready, HasSubject, HasValue, BeforeRow, Labels
  <2> QED
    BY <2>2, <2>3, <2>5, <2>6, TypeFrame
<1>5. CASE Retry(r)
  <2>1. /\ pc[r] = "retry" /\ mem[r].player \in Players
        /\ mem[r].entry \in Requests /\ entries[mem[r].entry] # Nil
    BY <1>a, <1>5 DEF Retry, Ready, HasSubject, Labels
  <2>2. /\ Moves(r)
        /\ \/ pc'[r] = "giveup" /\ mem'[r] = mem[r]
           \/ pc'[r] = "done"
    BY <1>a, <1>5, Stepped, Finished DEF Retry, Labels
  <2>3. /\ jobs' \in [Requests -> Job]
        /\ \A e \in Requests : jobs'[e].state # "none" /\ e # mem[r].entry => jobs[e].state # "none"
    BY <1>a, <1>5, <2>1, JobStateAssigned DEF Retry, TypeOK
  <2>4. Grows(r) /\ TablesOK' /\ JobsHaveEntries'
    BY <1>a, <1>5, <2>1, <2>3 DEF Retry, Grows, TablesOK, TypeOK, JobsHaveEntries, derived, people
  <2>5. entries' = entries
    BY <1>5 DEF Retry
  <2>6. Ready(r)'
    BY <2>1, <2>2, <2>5 DEF Ready, HasSubject, HasValue, BeforeRow, Labels
  <2> QED
    BY <2>2, <2>4, <2>6, TypeFrame
<1>6. CASE GiveUp(r)
  <2>1. pc[r] = "giveup" /\ Finish(r) /\ mem[r].entry \in Requests /\ entries[mem[r].entry] # Nil
    BY <1>a, <1>6 DEF GiveUp, Ready
  <2>2. Moves(r) /\ pc'[r] = "done"
    BY <1>a, <2>1, Finished
  <2>3. /\ entries' \in [Requests -> Or(Entry)] /\ Grows(r)
        /\ \A x \in Requests : entries'[x] = Nil <=> entries[x] = Nil
    BY <1>a, <1>6, <2>1, EntryUpdated DEF GiveUp
  <2>4. TablesOK' /\ JobsHaveEntries'
    BY <1>a, <1>6, <2>3 DEF GiveUp, TablesOK, TypeOK, JobsHaveEntries, derived, people
  <2>5. Ready(r)'
    BY <2>2 DEF Ready, HasSubject, HasValue, BeforeRow, Labels
  <2> QED
    BY <2>2, <2>3, <2>4, <2>5, TypeFrame
<1> QED
  BY <1>1, <1>2, <1>3, <1>4, <1>5, <1>6 DEF Decision

(* The exam.                                                               *)
LEMMA SyncType ==
  ASSUME TypeInv, NEW r \in Requests, Sync(r)
  PROVE  Keeps(r)
<1>a. TypeOK /\ JobsHaveEntries /\ Ready(r) /\ mem[r] \in Locals
  BY DEF TypeInv, TypeOK
<1>1. CASE ReadAggregate(r)
  <2>1. mem[r].player \in Players /\ pc[r] = "aggregate" /\ entries' = entries
    BY <1>a, <1>1 DEF ReadAggregate, Ready, HasSubject, Labels, ledger
  <2>2. CASE Counted(mem[r].player) = {}
    <3>1. Moves(r) /\ pc'[r] = "ledger" /\ mem'[r] = mem[r]
      BY <1>a, <1>1, <2>2, Stepped DEF ReadAggregate, Labels
    <3>2. Ready(r)'
      BY <2>1, <3>1 DEF Ready, HasSubject, HasValue, BeforeRow, Labels
    <3> QED
      BY <1>1, <3>1, <3>2, TypeRead DEF ReadAggregate
  <2>3. CASE Counted(mem[r].player) # {}
    <3> DEFINE m == [mem[r] EXCEPT !.agg = LedgerValue(mem[r].player)]
    <3>1. LedgerValue(mem[r].player) \in Int
      BY <1>a, <2>1, <2>3, LedgerValueIsInt
    <3>2. m \in Locals /\ m.player = mem[r].player /\ m.agg \in Int
      BY <1>a, <3>1, AggAssigned DEF Locals
    <3>3. mem' = [mem EXCEPT ![r] = m] /\ Goto(r, "exam")
      BY <1>1, <2>3 DEF ReadAggregate
    <3> HIDE DEF m
    <3>4. Moves(r) /\ pc'[r] = "exam" /\ mem'[r] = m
      BY <1>a, <3>2, <3>3, Assigned DEF Labels
    <3>5. Ready(r)'
      BY <2>1, <3>2, <3>4 DEF Ready, HasSubject, HasValue, BeforeRow, Labels
    <3> QED
      BY <1>1, <3>4, <3>5, TypeRead DEF ReadAggregate
  <2> QED
    BY <2>2, <2>3
<1>2. CASE ReadExam(r)
  <2>1. mem[r].player \in Players /\ mem[r].agg \in Int /\ pc[r] = "exam" /\ entries' = entries
    BY <1>a, <1>2 DEF ReadExam, Ready, HasSubject, HasValue, Labels, ledger
  <2> DEFINE m == [mem[r] EXCEPT !.exam = quals[mem[r].player]]
  <2>2. m \in Locals /\ m.player = mem[r].player /\ m.agg = mem[r].agg
    BY <1>a, <2>1, ExamAssigned DEF TypeOK, Locals
  <2>3. PICK label \in {"pass", "ledger", "improve"} :
          Goto(r, label) /\ mem' = [mem EXCEPT ![r] = m]
    BY <1>2 DEF ReadExam
  <2> HIDE DEF m
  <2>4. Moves(r) /\ pc'[r] = label /\ mem'[r] = m
    <3>1. label \in Labels
      BY DEF Labels
    <3> QED
      BY <1>a, <2>2, <2>3, <3>1, Assigned
  <2>5. Ready(r)'
    BY <2>1, <2>2, <2>4 DEF Ready, HasSubject, HasValue, BeforeRow, Labels
  <2> QED
    BY <1>2, <2>4, <2>5, TypeRead DEF ReadExam
<1>3. CASE Pass(r)
  <2>1. mem[r].player \in Players /\ mem[r].agg \in Int /\ pc[r] = "pass" /\ entries' = entries
    BY <1>a, <1>3 DEF Pass, Ready, HasSubject, HasValue, Labels, ledger
  <2>2. Moves(r) /\ pc'[r] = "ledger" /\ mem'[r] = mem[r]
    BY <1>a, <1>3, Stepped DEF Pass, Labels
  <2>3. quals' \in [Players -> Or(Int)]
    BY <1>a, <1>3, <2>1 DEF Pass, TypeOK
  <2>4. Grows(r) /\ TablesOK' /\ JobsHaveEntries'
    BY <1>a, <1>3, <2>3 DEF Pass, Grows, TablesOK, TypeOK, JobsHaveEntries, ledger, people
  <2>5. Ready(r)'
    BY <2>1, <2>2 DEF Ready, HasSubject, HasValue, BeforeRow, Labels
  <2> QED
    BY <2>2, <2>4, <2>5, TypeFrame
<1>4. CASE Improve(r)
  <2>1. mem[r].player \in Players /\ mem[r].agg \in Int /\ pc[r] = "improve" /\ entries' = entries
    BY <1>a, <1>4 DEF Improve, Ready, HasSubject, HasValue, Labels, ledger
  <2>2. Moves(r) /\ pc'[r] = "ledger" /\ mem'[r] = mem[r]
    BY <1>a, <1>4, Stepped DEF Improve, Labels
  <2>3. quals' \in [Players -> Or(Int)]
    BY <1>a, <1>4, <2>1 DEF Improve, TypeOK
  <2>4. Grows(r) /\ TablesOK' /\ JobsHaveEntries'
    BY <1>a, <1>4, <2>3 DEF Improve, Grows, TablesOK, TypeOK, JobsHaveEntries, ledger, people
  <2>5. Ready(r)'
    BY <2>1, <2>2 DEF Ready, HasSubject, HasValue, BeforeRow, Labels
  <2> QED
    BY <2>2, <2>4, <2>5, TypeFrame
<1> QED
  BY <1>1, <1>2, <1>3, <1>4 DEF Sync

(* The refresh of one row of the board.                                    *)
LEMMA RefreshType ==
  ASSUME TypeInv, NEW r \in Requests, Refresh(r)
  PROVE  Keeps(r)
<1>a. TypeOK /\ JobsHaveEntries /\ Ready(r) /\ mem[r] \in Locals
  BY DEF TypeInv, TypeOK
<1>1. CASE ReadLedger(r)
  <2>1. mem[r].player \in Players /\ pc[r] = "ledger" /\ entries' = entries
    BY <1>a, <1>1 DEF ReadLedger, Ready, HasSubject, Labels, ledger
  <2>2. CASE Counted(mem[r].player) = {}
    <3>1. Moves(r) /\ pc'[r] = "drop" /\ mem'[r] = mem[r]
      BY <1>a, <1>1, <2>2, Stepped DEF ReadLedger, Labels
    <3>2. Ready(r)'
      BY <2>1, <3>1 DEF Ready, HasSubject, HasValue, BeforeRow, Labels
    <3> QED
      BY <1>1, <3>1, <3>2, TypeRead DEF ReadLedger
  <2>3. CASE Counted(mem[r].player) # {}
    <3> DEFINE m == [mem[r] EXCEPT !.agg = LedgerValue(mem[r].player)]
    <3>1. LedgerValue(mem[r].player) \in Int
      BY <1>a, <2>1, <2>3, LedgerValueIsInt
    <3>2. m \in Locals /\ m.player = mem[r].player /\ m.agg \in Int
      BY <1>a, <3>1, AggAssigned DEF Locals
    <3>3. mem' = [mem EXCEPT ![r] = m] /\ Goto(r, "eligible")
      BY <1>1, <2>3 DEF ReadLedger
    <3> HIDE DEF m
    <3>4. Moves(r) /\ pc'[r] = "eligible" /\ mem'[r] = m
      BY <1>a, <3>2, <3>3, Assigned DEF Labels
    <3>5. Ready(r)'
      BY <2>1, <3>2, <3>4 DEF Ready, HasSubject, HasValue, BeforeRow, Labels
    <3> QED
      BY <1>1, <3>4, <3>5, TypeRead DEF ReadLedger
  <2> QED
    BY <2>2, <2>3
<1>2. CASE Drop(r)
  <2>1. Moves(r) /\ pc'[r] \in {"done", "next"} /\ entries' = entries /\ pc[r] = "drop"
    BY <1>a, <1>2, Returned DEF Drop, ledger
  <2>2. standings' \in [Players -> Or(Standing)]
    BY <1>a, <1>2 DEF Drop, TypeOK
  <2>3. Grows(r) /\ TablesOK' /\ JobsHaveEntries'
    BY <1>a, <1>2, <2>2 DEF Drop, Grows, TablesOK, TypeOK, JobsHaveEntries, ledger, people
  <2>4. Ready(r)'
    BY <2>1 DEF Ready, HasSubject, HasValue, BeforeRow, Labels
  <2> QED
    BY <2>1, <2>3, <2>4, TypeFrame
<1>3. CASE ReadStatus(r)
  <2>1. mem[r].player \in Players /\ mem[r].agg \in Int /\ pc[r] = "eligible" /\ entries' = entries
    BY <1>a, <1>3 DEF ReadStatus, Ready, HasSubject, HasValue, Labels, ledger
  <2> DEFINE x == (status[mem[r].player] # "banned" /\ Bar = Nil)
             m == [mem[r] EXCEPT !.eligible = x]
  <2>2. m \in Locals /\ m.player = mem[r].player /\ m.agg = mem[r].agg
    <3>1. x \in BOOLEAN
      OBVIOUS
    <3> HIDE DEF x
    <3>2. m \in Locals
      BY <1>a, <3>1, EligibleAssigned
    <3> QED
      BY <1>a, <3>2 DEF Locals
  <2>3. PICK label \in {"write", "qualified"} :
          Goto(r, label) /\ mem' = [mem EXCEPT ![r] = m]
    BY <1>3 DEF ReadStatus
  <2> HIDE DEF m
  <2>4. Moves(r) /\ pc'[r] = label /\ mem'[r] = m
    <3>1. label \in Labels
      BY DEF Labels
    <3> QED
      BY <1>a, <2>2, <2>3, <3>1, Assigned
  <2>5. Ready(r)'
    BY <2>1, <2>2, <2>4 DEF Ready, HasSubject, HasValue, BeforeRow, Labels
  <2> QED
    BY <1>3, <2>4, <2>5, TypeRead DEF ReadStatus
<1>4. CASE ReadQualified(r)
  <2>1. mem[r].player \in Players /\ mem[r].agg \in Int /\ pc[r] = "qualified" /\ entries' = entries
    BY <1>a, <1>4 DEF ReadQualified, Ready, HasSubject, HasValue, Labels, ledger
  <2> DEFINE x == (quals[mem[r].player] # Nil)
             m == [mem[r] EXCEPT !.eligible = x]
  <2>2. m \in Locals /\ m.player = mem[r].player /\ m.agg = mem[r].agg
    <3>1. x \in BOOLEAN
      OBVIOUS
    <3> HIDE DEF x
    <3>2. m \in Locals
      BY <1>a, <3>1, EligibleAssigned
    <3> QED
      BY <1>a, <3>2 DEF Locals
  <2>3. PICK label \in {"write"} :
          Goto(r, label) /\ mem' = [mem EXCEPT ![r] = m]
    BY <1>4 DEF ReadQualified
  <2> HIDE DEF m
  <2>4. Moves(r) /\ pc'[r] = label /\ mem'[r] = m
    <3>1. label \in Labels
      BY DEF Labels
    <3> QED
      BY <1>a, <2>2, <2>3, <3>1, Assigned
  <2>5. Ready(r)'
    BY <2>1, <2>2, <2>4 DEF Ready, HasSubject, HasValue, BeforeRow, Labels
  <2> QED
    BY <1>4, <2>4, <2>5, TypeRead DEF ReadQualified
<1>5. CASE WriteStanding(r)
  <2>1. Moves(r) /\ pc'[r] \in {"done", "next"} /\ entries' = entries
        /\ mem[r].player \in Players /\ mem[r].agg \in Int
    BY <1>a, <1>5, Returned DEF WriteStanding, Ready, HasSubject, HasValue, Labels, ledger
  <2> DEFINE row == [value |-> mem[r].agg, eligible |-> mem[r].eligible, region |-> mem[r].region]
  <2>2. row \in Standing
    <3>1. mem[r].eligible \in BOOLEAN /\ mem[r].region \in Or(Regions)
      BY <1>a DEF Locals
    <3> QED
      BY <2>1, <3>1 DEF Standing
  <2>3. standings' = [standings EXCEPT ![mem[r].player] = row]
    BY <1>5 DEF WriteStanding
  <2> HIDE DEF row
  <2>4. standings' \in [Players -> Or(Standing)]
    BY <1>a, <2>2, <2>3 DEF TypeOK
  <2>5. Grows(r) /\ TablesOK' /\ JobsHaveEntries'
    BY <1>a, <1>5, <2>4 DEF WriteStanding, Grows, TablesOK, TypeOK, JobsHaveEntries, ledger, people
  <2>6. Ready(r)'
    BY <2>1 DEF Ready, HasSubject, HasValue, BeforeRow, Labels
  <2> QED
    BY <2>1, <2>5, <2>6, TypeFrame
<1> QED
  BY <1>1, <1>2, <1>3, <1>4, <1>5 DEF Refresh

(* Moderation and the expiry of a suspension.                              *)
LEMMA ModerationType ==
  ASSUME TypeInv, NEW r \in Requests, Moderation(r)
  PROVE  Keeps(r)
<1>a. TypeOK /\ JobsHaveEntries /\ Ready(r) /\ mem[r] \in Locals
  BY DEF TypeInv, TypeOK
<1>1. CASE Moderate(r)
  <2>1. PICK p \in Players, to \in Statuses, kind \in {"status", "resolve"} :
          Start(r, kind, "status", [Blank EXCEPT !.player = p, !.to = to])
    BY <1>1 DEF Moderate
  <2> DEFINE m == [Blank EXCEPT !.player = p, !.to = to]
  <2>2. m \in Locals /\ m.player = p /\ m.to = to
    BY ModerationLocals DEF Blank, Targets
  <2>3. kind \in AllKinds /\ Start(r, kind, "status", m)
    BY <2>1 DEF AllKinds
  <2> HIDE DEF m
  <2>4. Moves(r) /\ pc[r] = "idle" /\ pc'[r] = "status" /\ mem'[r] = [m EXCEPT !.kind = kind]
    BY <1>a, <2>2, <2>3, Started DEF Labels
  <2>5. mem'[r].player = p /\ mem'[r].to = to /\ entries' = entries
    BY <1>1, <2>2, <2>4 DEF Locals, Moderate, ledger
  <2>6. Ready(r)'
    BY <2>4, <2>5 DEF Ready, HasSubject, HasValue, BeforeRow, Labels
  <2> QED
    BY <1>1, <2>4, <2>6, TypeRead DEF Moderate
<1>2. CASE SetStatus(r)
  <2>1. pc[r] = "status" /\ mem[r].player \in Players /\ mem[r].to \in Statuses /\ entries' = entries
    BY <1>a, <1>2 DEF SetStatus, Ready, HasSubject, Labels, ledger
  <2>2. /\ Moves(r)
        /\ \/ pc'[r] = "done"
           \/ pc'[r] = "sweep" /\ mem'[r] = mem[r]
    BY <1>a, <1>2, Stepped, Finished DEF SetStatus, Labels
  <2>3. status' \in [Players -> Statuses]
    BY <1>a, <1>2, <2>1 DEF SetStatus, TypeOK
  <2>4. Grows(r) /\ TablesOK' /\ JobsHaveEntries'
    BY <1>a, <1>2, <2>3 DEF SetStatus, Grows, TablesOK, TypeOK, JobsHaveEntries, ledger, derived
  <2>5. Ready(r)'
    BY <2>1, <2>2 DEF Ready, HasSubject, HasValue, BeforeRow, Labels
  <2> QED
    BY <2>2, <2>4, <2>5, TypeFrame
<1>3. CASE Sweep(r)
  <2>1. Moves(r) /\ pc'[r] = "done" /\ mem[r].player \in Players
    BY <1>a, <1>3, Finished DEF Sweep, Ready, HasSubject, Labels
  <2>2. standings' \in [Players -> Or(Standing)]
    <3> DEFINE p == mem[r].player
               x == mem[r].to # "banned" /\ Qualified(p)
    <3>1. standings' = [standings EXCEPT ![p] = IF @ = Nil THEN Nil ELSE [@ EXCEPT !.eligible = x]]
      BY <1>3 DEF Sweep
    <3>2. x \in BOOLEAN
      OBVIOUS
    <3> HIDE DEF x
    <3> QED
      BY <1>a, <2>1, <3>1, <3>2, StandingAssigned DEF TypeOK
  <2>3. Grows(r) /\ TablesOK' /\ JobsHaveEntries'
    BY <1>a, <1>3, <2>2 DEF Sweep, Grows, TablesOK, TypeOK, JobsHaveEntries, ledger, people
  <2>4. Ready(r)'
    BY <2>1 DEF Ready, HasSubject, HasValue, BeforeRow, Labels
  <2> QED
    BY <2>1, <2>3, <2>4, TypeFrame
<1>4. CASE Authenticate(r)
  <2>1. PICK p \in Players : Start(r, "read", "lift", [Blank EXCEPT !.player = p])
    BY <1>4 DEF Authenticate
  <2> DEFINE m == [Blank EXCEPT !.player = p]
  <2>2. m \in Locals /\ m.player = p /\ Start(r, "read", "lift", m)
    BY <2>1, ReadLocals DEF Blank
  <2> HIDE DEF m
  <2>3. Moves(r) /\ pc[r] = "idle" /\ pc'[r] = "lift" /\ mem'[r] = [m EXCEPT !.kind = "read"]
    BY <1>a, <2>2, Started DEF Labels, AllKinds
  <2>4. mem'[r].player = p /\ entries' = entries
    BY <1>4, <2>2, <2>3 DEF Locals, Authenticate, ledger
  <2>5. Ready(r)'
    BY <2>3, <2>4 DEF Ready, HasSubject, HasValue, BeforeRow, Labels
  <2> QED
    BY <1>4, <2>3, <2>5, TypeRead DEF Authenticate
<1>5. CASE LiftSuspension(r)
  <2>1. Moves(r) /\ pc'[r] = "done"
    BY <1>a, <1>5, Finished DEF LiftSuspension
  <2>2. status' \in [Players -> Statuses]
    BY <1>a, <1>5 DEF LiftSuspension, TypeOK, Statuses
  <2>3. Grows(r) /\ TablesOK' /\ JobsHaveEntries'
    BY <1>a, <1>5, <2>2 DEF LiftSuspension, Grows, TablesOK, TypeOK, JobsHaveEntries, ledger, derived
  <2>4. Ready(r)'
    BY <2>1 DEF Ready, HasSubject, HasValue, BeforeRow, Labels
  <2> QED
    BY <2>1, <2>3, <2>4, TypeFrame
<1> QED
  BY <1>1, <1>2, <1>3, <1>4, <1>5 DEF Moderation

(* Choosing a home region.                                                 *)
LEMMA ResidenceType ==
  ASSUME TypeInv, NEW r \in Requests, Residence(r)
  PROVE  Keeps(r)
<1>a. TypeOK /\ JobsHaveEntries /\ Ready(r) /\ mem[r] \in Locals
  BY DEF TypeInv, TypeOK
<1>1. CASE ChooseRegion(r)
  <2>1. PICK p \in Players, g \in Regions :
          Start(r, "region", "lock", [Blank EXCEPT !.player = p, !.region = g])
    BY <1>1 DEF ChooseRegion
  <2> DEFINE m == [Blank EXCEPT !.player = p, !.region = g]
  <2>2. m \in Locals /\ m.player = p /\ m.region = g /\ Start(r, "region", "lock", m)
    BY <2>1, ResidenceLocals DEF Blank
  <2> HIDE DEF m
  <2>3. Moves(r) /\ pc[r] = "idle" /\ pc'[r] = "lock" /\ mem'[r] = [m EXCEPT !.kind = "region"]
    BY <1>a, <2>2, Started DEF Labels, AllKinds
  <2>4. mem'[r].player = p /\ entries' = entries
    BY <1>1, <2>2, <2>3 DEF Locals, ChooseRegion, ledger
  <2>5. Ready(r)'
    BY <2>3, <2>4 DEF Ready, HasSubject, HasValue, BeforeRow, Labels
  <2> QED
    BY <1>1, <2>3, <2>5, TypeRead DEF ChooseRegion
<1>2. CASE LockRegion(r)
  <2>1. Moves(r) /\ pc'[r] = "done"
    BY <1>a, <1>2, Finished DEF LockRegion
  <2>2. home' \in [Players -> Or(Regions)]
    BY <1>a, <1>2 DEF LockRegion, TypeOK, Locals
  <2>3. Grows(r) /\ TablesOK' /\ JobsHaveEntries'
    BY <1>a, <1>2, <2>2 DEF LockRegion, Grows, TablesOK, TypeOK, JobsHaveEntries, ledger, derived
  <2>4. Ready(r)'
    BY <2>1 DEF Ready, HasSubject, HasValue, BeforeRow, Labels
  <2> QED
    BY <2>1, <2>3, <2>4, TypeFrame
<1> QED
  BY <1>1, <1>2 DEF Residence

(* A rebuild of the board.                                                 *)
LEMMA RebuildingType ==
  ASSUME TypeInv, NEW r \in Requests, Rebuilding(r)
  PROVE  Keeps(r)
<1>a. TypeOK /\ JobsHaveEntries /\ Ready(r) /\ mem[r] \in Locals
  BY DEF TypeInv, TypeOK
<1>1. CASE Rebuild(r)
  <2>1. Moves(r) /\ pc[r] = "idle" /\ pc'[r] = "clear"
    BY <1>a, <1>1, BlankIsLocals, Started DEF Rebuild, Labels, AllKinds
  <2>2. Ready(r)'
    BY <2>1 DEF Ready, HasSubject, HasValue, BeforeRow, Labels
  <2> QED
    BY <1>1, <2>1, <2>2, TypeRead DEF Rebuild
<1>2. CASE ClearBoard(r)
  <2>1. Moves(r) /\ pc'[r] = "players"
    BY <1>a, <1>2, Stepped DEF ClearBoard, Labels
  <2>2. Grows(r) /\ TablesOK' /\ JobsHaveEntries'
    BY <1>a, <1>2 DEF ClearBoard, Grows, TablesOK, TypeOK, JobsHaveEntries, ledger, people
  <2>3. Ready(r)'
    BY <2>1 DEF Ready, HasSubject, HasValue, BeforeRow, Labels
  <2> QED
    BY <2>1, <2>2, <2>3, TypeFrame
<1>3. CASE ReadPlayers(r)
  <2> DEFINE T == {[player |-> p, region |-> home[p]] : p \in {q \in Players : Counted(q) # {}}}
             m == [mem[r] EXCEPT !.todo = T]
  <2>1. T \in SUBSET [player : Players, region : Or(Regions)]
    BY <1>a DEF TypeOK
  <2>2. m \in Locals
    <3> HIDE DEF T
    <3> QED
      BY <1>a, <2>1, TodoAssigned
  <2>3. mem' = [mem EXCEPT ![r] = m] /\ Goto(r, "next")
    BY <1>3 DEF ReadPlayers
  <2> HIDE DEF m, T
  <2>4. Moves(r) /\ pc'[r] = "next"
    BY <1>a, <2>2, <2>3, Assigned DEF Labels
  <2>5. Ready(r)'
    BY <2>4 DEF Ready, HasSubject, HasValue, BeforeRow, Labels
  <2> QED
    BY <1>3, <2>4, <2>5, TypeRead DEF ReadPlayers
<1>4. CASE NextPlayer(r)
  <2>1. entries' = entries
    BY <1>4 DEF NextPlayer, ledger
  <2>2. CASE Finish(r)
    <3>1. Moves(r) /\ pc'[r] = "done"
      BY <1>a, <2>2, Finished
    <3>2. Ready(r)'
      BY <3>1 DEF Ready, HasSubject, HasValue, BeforeRow, Labels
    <3> QED
      BY <1>4, <3>1, <3>2, TypeRead DEF NextPlayer
  <2>3. ASSUME NEW t \in mem[r].todo, Goto(r, "ledger"),
               mem' = [mem EXCEPT ![r].player = t.player, ![r].region = t.region,
                                  ![r].todo = @ \ {t}]
        PROVE  Keeps(r)
    <3> DEFINE m == [mem[r] EXCEPT !.player = t.player, !.region = t.region, !.todo = @ \ {t}]
    <3>1. m \in Locals /\ m.player \in Players
      BY <1>a, TodoTaken DEF Locals
    <3>2. mem' = [mem EXCEPT ![r] = m]
      BY <1>a, <2>3 DEF TypeOK
    <3> HIDE DEF m
    <3>3. Moves(r) /\ pc'[r] = "ledger" /\ mem'[r] = m
      BY <1>a, <2>3, <3>1, <3>2, Assigned DEF Labels
    <3>4. Ready(r)'
      BY <3>1, <3>3 DEF Ready, HasSubject, HasValue, BeforeRow, Labels
    <3> QED
      BY <1>4, <3>3, <3>4, TypeRead DEF NextPlayer
  <2> QED
    BY <1>4, <2>2, <2>3 DEF NextPlayer
<1> QED
  BY <1>1, <1>2, <1>3, <1>4 DEF Rebuilding

LEMMA CrashType ==
  ASSUME TypeInv, NEW r \in Requests, Crash(r)
  PROVE  Keeps(r)
<1>1. Moves(r) /\ pc'[r] = "done"
  BY Finished DEF TypeInv, Crash
<1>2. Ready(r)'
  BY <1>1 DEF Ready, HasSubject, HasValue, BeforeRow, Labels
<1> QED
  BY <1>1, <1>2, TypeRead DEF Crash

LEMMA TypeStep == TypeInv /\ [Next]_vars => TypeInv'
<1>1. TypeInv /\ UNCHANGED vars => TypeInv'
  BY DEF vars, TypeInv, TypeOK, Ready, JobsHaveEntries
<1>2. TypeInv /\ Next => TypeInv'
  BY SubmissionType, DecisionType, SyncType, RefreshType, ModerationType, ResidenceType,
     RebuildingType, CrashType DEF Next, Keeps
<1> QED
  BY <1>1, <1>2

LEMMA TypeInit == Init => TypeInv
<1> SUFFICES ASSUME Init  PROVE TypeInv
  OBVIOUS
<1>1. NoJob \in Job /\ "idle" \in Labels /\ "active" \in Statuses
  BY DEF NoJob, Job, Labels, Statuses
<1>2. TypeOK
  BY <1>1, BlankIsLocals DEF Init, TypeOK
<1>3. JobsHaveEntries
  BY DEF Init, JobsHaveEntries, NoJob
<1>4. \A r \in Requests : Ready(r)
  BY DEF Init, Ready, HasSubject, HasValue, BeforeRow, Labels
<1> QED
  BY <1>2, <1>3, <1>4 DEF TypeInv

(* Every table, program counter and local variable keeps its type, so no   *)
(* handler ever reads a row that is not there: syncQualification and       *)
(* refresh find an integer where they expect one, and an entry named by a  *)
(* review or by a verification job exists.                                 *)
THEOREM TypeCorrect == Spec => []TypeOK
<1>1. TypeInv => TypeOK
  BY DEF TypeInv
<1> QED
  BY TypeInit, TypeStep, <1>1, PTL DEF Spec

LEMMA TypeInvariant == Spec => []TypeInv
  BY TypeInit, TypeStep, PTL DEF Spec

(* What every step of a handler does, whichever it is.                     *)
LEMMA StepKeeps ==
  ASSUME TypeInv, NEW r \in Requests,
         \/ Submission(r) \/ Decision(r) \/ Sync(r) \/ Refresh(r)
         \/ Moderation(r) \/ Residence(r) \/ Rebuilding(r) \/ Crash(r)
  PROVE  Keeps(r)
  BY SubmissionType, DecisionType, SyncType, RefreshType, ModerationType, ResidenceType,
     RebuildingType, CrashType

-----------------------------------------------------------------------------
(* What a step of a handler is.                                            *)

Step(r) ==
  \/ Submission(r) \/ Decision(r) \/ Sync(r) \/ Refresh(r)
  \/ Moderation(r) \/ Residence(r) \/ Rebuilding(r) \/ Crash(r)

(* The frame of a step: only its own handler moves.                        *)
LEMMA OthersStay ==
  ASSUME TypeInv, NEW r \in Requests, Step(r)
  PROVE  \A s \in Requests \ {r} : pc'[s] = pc[s] /\ mem'[s] = mem[s]
<1>1. Moves(r)
  BY StepKeeps DEF Step, Keeps
<1> QED
  BY <1>1 DEF Moves, TypeInv, TypeOK

-----------------------------------------------------------------------------
(* The exam comes before the board.  Between the statement that reads the  *)
(* qualification and the one that writes the row, the answer stays true:   *)
(* no statement takes a qualification away.                                *)

ExamInv ==
  /\ ExamBeforeBoard
  /\ \A r \in Requests : pc[r] = "write" /\ mem[r].eligible => Qualified(mem[r].player)

LEMMA QualificationsStay ==
  ASSUME TypeInv, NEW r \in Requests, Step(r)
  PROVE  \A p \in Players : Qualified(p) => Qualified(p)'
<1>1. CASE Pass(r)
  <2>1. pc[r] = "pass" /\ mem[r].agg \in Int
    BY <1>1 DEF Pass, TypeInv, Ready, HasValue
  <2> QED
    BY <1>1, <2>1, NilAssumption DEF Pass, TypeInv, TypeOK, Qualified
<1>2. CASE Improve(r)
  <2>1. pc[r] = "improve" /\ mem[r].agg \in Int
    BY <1>2 DEF Improve, TypeInv, Ready, HasValue
  <2> QED
    BY <1>2, <2>1, NilAssumption DEF Improve, TypeInv, TypeOK, Qualified
<1>3. CASE UNCHANGED quals
  BY <1>3 DEF Qualified
<1>4. Pass(r) \/ Improve(r) \/ UNCHANGED quals
  BY DEF Step, Submission, Decision, Sync, Refresh, Moderation, Residence, Rebuilding,
         Submit, Lookup, ReadRegion, Insert, Hold, Enqueue, Review, Decide, Result, Verdict,
         Retry, GiveUp, ReadAggregate, ReadExam, ReadLedger, Drop, ReadStatus, ReadQualified,
         WriteStanding, Moderate, SetStatus, Sweep, Authenticate, LiftSuspension, ChooseRegion,
         LockRegion, Rebuild, ClearBoard, ReadPlayers, NextPlayer, Crash, derived
<1> QED
  BY <1>1, <1>2, <1>3, <1>4

(* The statements that change the board.                                   *)
LEMMA BoardWriters ==
  ASSUME NEW r \in Requests, Step(r)
  PROVE  Drop(r) \/ WriteStanding(r) \/ Sweep(r) \/ ClearBoard(r) \/ UNCHANGED standings
  BY DEF Step, Submission, Decision, Sync, Refresh, Moderation, Residence, Rebuilding,
         Submit, Lookup, ReadRegion, Insert, Hold, Enqueue, Review, Decide, Result, Verdict,
         Retry, GiveUp, ReadAggregate, ReadExam, Pass, Improve, ReadLedger, ReadStatus,
         ReadQualified, Moderate, SetStatus, Authenticate, LiftSuspension, ChooseRegion,
         LockRegion, Rebuild, ReadPlayers, NextPlayer, Crash, derived

(* The statements after which the row is written.                          *)
LEMMA WritePrepared ==
  ASSUME TypeInv, NEW r \in Requests, Step(r), pc'[r] = "write"
  PROVE  ReadStatus(r) \/ ReadQualified(r)
  BY DEF TypeInv, TypeOK, Step, Submission, Decision, Sync, Refresh, Moderation, Residence,
         Rebuilding, Start, Goto, Finish, Return,
         Submit, Lookup, ReadRegion, Insert, Hold, Enqueue, Review, Decide, Result, Verdict,
         Retry, GiveUp, ReadAggregate, ReadExam, Pass, Improve, ReadLedger, Drop,
         WriteStanding, Moderate, SetStatus, Sweep, Authenticate, LiftSuspension, ChooseRegion,
         LockRegion, Rebuild, ClearBoard, ReadPlayers, NextPlayer, Crash

LEMMA ExamStep == TypeInv /\ ExamInv /\ [Next]_vars => ExamInv'
<1>1. ExamInv /\ UNCHANGED vars => ExamInv'
  BY DEF vars, derived, ExamInv, ExamBeforeBoard, Qualified
<1> SUFFICES ASSUME TypeInv, ExamInv, NEW r \in Requests, Step(r)
             PROVE  ExamInv'
  BY <1>1 DEF Next, Step
<1>2. \A p \in Players : Qualified(p) => Qualified(p)'
  BY QualificationsStay
<1>a. Keeps(r) /\ TypeOK /\ Ready(r)
  BY StepKeeps DEF Step, TypeInv
<1>3. ExamBeforeBoard'
  <2>1. CASE Drop(r)
    BY <1>2, <1>a, <2>1 DEF Drop, ExamInv, ExamBeforeBoard, TypeOK
  <2>2. CASE WriteStanding(r)
    <3>1. pc[r] = "write" /\ mem[r].player \in Players
      BY <1>a, <2>2 DEF WriteStanding, Ready, HasSubject, Labels
    <3>2. standings' = [standings EXCEPT ![mem[r].player] =
             [value |-> mem[r].agg, eligible |-> mem[r].eligible, region |-> mem[r].region]]
      BY <2>2 DEF WriteStanding
    <3> QED
      BY <1>2, <1>a, <3>1, <3>2 DEF ExamInv, ExamBeforeBoard, TypeOK
  <2>3. CASE Sweep(r)
    <3> DEFINE q == mem[r].player
               x == mem[r].to # "banned" /\ Qualified(q)
    <3>1. standings' = [standings EXCEPT ![q] =
             IF @ = Nil THEN Nil ELSE [@ EXCEPT !.eligible = x]]
      BY <2>3 DEF Sweep
    <3>2. ASSUME NEW p \in Players, standings'[p] # Nil, standings'[p].eligible
          PROVE  Qualified(p)
      <4>1. CASE p # q
        BY <1>a, <3>1, <3>2, <4>1 DEF ExamInv, ExamBeforeBoard, TypeOK
      <4>2. CASE p = q
        <5>1. standings[q] \in Standing
          BY <1>a, <3>1, <3>2, <4>2 DEF TypeOK
        <5>2. standings'[q] = [standings[q] EXCEPT !.eligible = x]
          BY <1>a, <3>1, <3>2, <4>2 DEF TypeOK
        <5>3. standings'[q].eligible = x
          <6> HIDE DEF x
          <6> QED
            BY <5>1, <5>2 DEF Standing
        <5> QED
          BY <3>2, <4>2, <5>3
      <4> QED
        BY <4>1, <4>2
    <3> QED
      BY <1>2, <3>2 DEF ExamBeforeBoard
  <2>4. CASE ClearBoard(r)
    BY <2>4 DEF ClearBoard, ExamBeforeBoard
  <2>5. CASE UNCHANGED standings
    BY <1>2, <2>5 DEF ExamInv, ExamBeforeBoard
  <2> QED
    BY <2>1, <2>2, <2>3, <2>4, <2>5, BoardWriters
<1>4. ASSUME NEW s \in Requests, pc'[s] = "write", mem'[s].eligible
      PROVE  Qualified(mem[s].player)'
  <2>1. CASE s # r
    <3>1. pc[s] = "write" /\ mem'[s] = mem[s] /\ mem[s].player \in Players
      BY <1>4, <2>1, OthersStay DEF TypeInv, Ready, HasSubject, Labels
    <3> QED
      BY <1>2, <1>4, <3>1 DEF ExamInv, Qualified
  <2>2. CASE s = r
    <3>1. ReadStatus(r) \/ ReadQualified(r)
      BY <1>4, <2>2, WritePrepared
    <3>2. mem[r].player \in Players
      BY <1>a, <3>1 DEF ReadStatus, ReadQualified, Ready, HasSubject, Labels
    <3> DEFINE x == IF pc[r] = "eligible" THEN status[mem[r].player] # "banned" /\ Bar = Nil
                                          ELSE quals[mem[r].player] # Nil
    <3>3. mem'[r].player = mem[r].player /\ (mem'[r].eligible <=> x)
      <4>1. x \in BOOLEAN /\ mem[r] \in Locals
        BY <1>a DEF TypeOK
      <4>2. mem'[r] = [mem[r] EXCEPT !.eligible = x]
        BY <1>a, <3>1 DEF ReadStatus, ReadQualified, TypeOK
      <4> HIDE DEF x
      <4> QED
        BY <4>1, <4>2 DEF Locals
    <3>4. Qualified(mem[r].player)
      BY <1>4, <2>2, <3>3 DEF Qualified
    <3> QED
      BY <1>2, <2>2, <3>2, <3>3, <3>4 DEF Qualified
  <2> QED
    BY <2>1, <2>2
<1> QED
  BY <1>3, <1>4 DEF ExamInv, Qualified

(* A row is on a board only if its player passed the exam or there is      *)
(* none, whatever a refresh, an unban and a rebuild race with.             *)
THEOREM ExamFirst == Spec => []ExamBeforeBoard
<1>1. Init => ExamInv
  BY DEF Init, ExamInv, ExamBeforeBoard
<1>2. ExamInv => ExamBeforeBoard
  BY DEF ExamInv
<1> QED
  BY <1>1, <1>2, ExamStep, TypeInvariant, PTL DEF Spec

-----------------------------------------------------------------------------
(* A qualification is earned.  The exam was read in one statement and is    *)
(* written in another; what is written passes because it beats a value that *)
(* passed, whichever value that was.                                        *)

EarnedInv ==
  /\ QualificationEarned
  /\ \A r \in Requests : pc[r] \in {"pass", "improve"} => Passes(mem[r].agg)

LEMMA ExamWriters ==
  ASSUME NEW r \in Requests, Step(r)
  PROVE  Pass(r) \/ Improve(r) \/ UNCHANGED quals
  BY DEF Step, Submission, Decision, Sync, Refresh, Moderation, Residence, Rebuilding,
         Submit, Lookup, ReadRegion, Insert, Hold, Enqueue, Review, Decide, Result, Verdict,
         Retry, GiveUp, ReadAggregate, ReadExam, ReadLedger, Drop, ReadStatus, ReadQualified,
         WriteStanding, Moderate, SetStatus, Sweep, Authenticate, LiftSuspension, ChooseRegion,
         LockRegion, Rebuild, ClearBoard, ReadPlayers, NextPlayer, Crash, derived

(* The statements after which the exam is written.                         *)
LEMMA ExamPrepared ==
  ASSUME TypeInv, NEW r \in Requests, Step(r), pc'[r] \in {"pass", "improve"}
  PROVE  ReadExam(r)
  BY DEF TypeInv, TypeOK, Step, Submission, Decision, Sync, Refresh, Moderation, Residence,
         Rebuilding, Start, Goto, Finish, Return,
         Submit, Lookup, ReadRegion, Insert, Hold, Enqueue, Review, Decide, Result, Verdict,
         Retry, GiveUp, ReadAggregate, Pass, Improve, ReadLedger, Drop, ReadStatus, ReadQualified,
         WriteStanding, Moderate, SetStatus, Sweep, Authenticate, LiftSuspension, ChooseRegion,
         LockRegion, Rebuild, ClearBoard, ReadPlayers, NextPlayer, Crash

LEMMA BetterPasses ==
  ASSUME NEW a \in Int, NEW b \in Int, Passes(b), Beats(a, b)
  PROVE  Passes(a)
  BY DisciplineAssumption DEF Passes, Reaches, Beats

LEMMA EarnedStep == TypeInv /\ EarnedInv /\ [Next]_vars => EarnedInv'
<1>1. EarnedInv /\ UNCHANGED vars => EarnedInv'
  BY DEF vars, derived, EarnedInv, QualificationEarned, Passes
<1> SUFFICES ASSUME TypeInv, EarnedInv, NEW r \in Requests, Step(r)
             PROVE  EarnedInv'
  BY <1>1 DEF Next, Step
<1>a. TypeOK /\ Ready(r) /\ mem[r] \in Locals
  BY DEF TypeInv, TypeOK
<1>2. QualificationEarned'
  <2>1. CASE Pass(r)
    <3>1. pc[r] = "pass" /\ mem[r].player \in Players /\ Passes(mem[r].agg)
      BY <1>a, <2>1 DEF Pass, Ready, HasSubject, Labels, EarnedInv
    <3> QED
      BY <1>a, <2>1, <3>1 DEF Pass, EarnedInv, QualificationEarned, TypeOK, Passes
  <2>2. CASE Improve(r)
    <3>1. pc[r] = "improve" /\ mem[r].player \in Players /\ Passes(mem[r].agg)
      BY <1>a, <2>2 DEF Improve, Ready, HasSubject, Labels, EarnedInv
    <3> QED
      BY <1>a, <2>2, <3>1 DEF Improve, EarnedInv, QualificationEarned, TypeOK, Passes
  <2>3. CASE UNCHANGED quals
    BY <2>3 DEF EarnedInv, QualificationEarned, Passes
  <2> QED
    BY <2>1, <2>2, <2>3, ExamWriters
<1>3. ASSUME NEW s \in Requests, pc'[s] \in {"pass", "improve"}
      PROVE  Passes(mem'[s].agg)
  <2>1. CASE s # r
    BY <1>3, <2>1, OthersStay DEF EarnedInv
  <2>2. CASE s = r
    <3> DEFINE exam == quals[mem[r].player]
               m    == [mem[r] EXCEPT !.exam = exam]
    <3>1. ReadExam(r)
      BY <1>3, <2>2, ExamPrepared
    <3>2. mem[r].player \in Players /\ mem[r].agg \in Int
      BY <1>a, <3>1 DEF ReadExam, Ready, HasSubject, HasValue, Labels
    <3>3. mem'[r].agg = mem[r].agg
      <4>1. mem'[r] = m
        BY <1>a, <3>1 DEF ReadExam, TypeOK
      <4> HIDE DEF exam
      <4> QED
        BY <1>a, <4>1 DEF Locals
    <3>4. CASE exam = Nil
      BY <1>3, <1>a, <2>2, <3>1, <3>3, <3>4 DEF ReadExam, Goto, TypeOK
    <3>5. CASE exam # Nil
      <4>1. exam \in Int /\ Passes(exam)
        BY <1>a, <3>2, <3>5 DEF TypeOK, EarnedInv, QualificationEarned
      <4>2. Beats(mem[r].agg, exam)
        BY <1>3, <1>a, <2>2, <3>1, <3>5 DEF ReadExam, Goto, TypeOK
      <4>3. Passes(mem[r].agg)
        BY <3>2, <4>1, <4>2, BetterPasses
      <4> QED
        BY <2>2, <3>3, <4>3
    <3> QED
      BY <2>2, <3>4, <3>5
  <2> QED
    BY <2>1, <2>2
<1> QED
  BY <1>2, <1>3 DEF EarnedInv, Passes

(* A qualification always names a value that reaches the bar, also when    *)
(* two handlers wrote it from readings of different ages.                  *)
THEOREM QualifiedByTheBar == Spec => []QualificationEarned
<1>1. Init => EarnedInv
  BY DEF Init, EarnedInv, QualificationEarned
<1>2. EarnedInv => QualificationEarned
  BY DEF EarnedInv
<1> QED
  BY <1>1, <1>2, EarnedStep, TypeInvariant, PTL DEF Spec

-----------------------------------------------------------------------------
(* Regions.  A region travels from player_regions into the locals of a     *)
(* submission, from there into the entry, from the entry into the locals   *)
(* of a review, and into the rows a rebuild walks; every copy is the home  *)
(* region or was made before there was one.                                *)

Settled(g, p) == g \in {Nil, home[p]}

RegionInv ==
  /\ OwnRegionOnly
  /\ \A e \in Requests : entries[e] # Nil => Settled(entries[e].region, entries[e].player)
  /\ \A r \in Requests :
       /\ pc[r] \in HasSubject \ {"lock"} => Settled(mem[r].region, mem[r].player)
       /\ \A t \in mem[r].todo : Settled(t.region, t.player)

LEMMA HomeWriters ==
  ASSUME NEW r \in Requests, Step(r)
  PROVE  LockRegion(r) \/ UNCHANGED home
  BY DEF Step, Submission, Decision, Sync, Refresh, Moderation, Residence, Rebuilding,
         Submit, Lookup, ReadRegion, Insert, Hold, Enqueue, Review, Decide, Result, Verdict,
         Retry, GiveUp, ReadAggregate, ReadExam, Pass, Improve, ReadLedger, Drop, ReadStatus,
         ReadQualified, WriteStanding, Moderate, SetStatus, Sweep, Authenticate, LiftSuspension,
         ChooseRegion, Rebuild, ClearBoard, ReadPlayers, NextPlayer, Crash, people

(* A home region is locked: what is settled stays settled.                 *)
LEMMA SettledStays ==
  ASSUME TypeInv, NEW r \in Requests, Step(r)
  PROVE  \A p \in Players, g \in Or(Regions) : Settled(g, p) => Settled(g, p)'
<1>1. CASE LockRegion(r)
  BY <1>1 DEF LockRegion, TypeInv, TypeOK, Settled
<1>2. CASE UNCHANGED home
  BY <1>2 DEF Settled
<1> QED
  BY <1>1, <1>2, HomeWriters

LEMMA EntryWriters ==
  ASSUME NEW r \in Requests, Step(r)
  PROVE  \/ Insert(r) \/ UNCHANGED entries
         \/ Hold(r) \/ Decide(r) \/ Verdict(r) \/ GiveUp(r)
  BY DEF Step, Submission, Decision, Sync, Refresh, Moderation, Residence, Rebuilding,
         Submit, Lookup, ReadRegion, Enqueue, Review, Result,
         Retry, ReadAggregate, ReadExam, Pass, Improve, ReadLedger, Drop, ReadStatus,
         ReadQualified, WriteStanding, Moderate, SetStatus, Sweep, Authenticate, LiftSuspension,
         ChooseRegion, LockRegion, Rebuild, ClearBoard, ReadPlayers, NextPlayer, Crash, ledger

(* Where the copy a handler carries comes from.                            *)
Carries(r) ==
  /\ mem'[r].region = mem[r].region /\ mem'[r].player = mem[r].player
  /\ mem'[r].todo = mem[r].todo
  /\ pc[r] \in HasSubject \ {"lock"} \/ pc'[r] \notin HasSubject
Starts(r) == mem'[r].todo = {} /\ (pc'[r] = "lock" \/ mem'[r].region = Nil)

LEMMA StartsBlank ==
  ASSUME TypeInv, NEW r \in Requests, Submit(r) \/ Moderate(r) \/ Authenticate(r) \/ Rebuild(r)
  PROVE  Starts(r)
<1>1. CASE Submit(r)
  <2>1. PICK p \in Players, v \in Values, d \in Days, k \in Or(Keys),
             kind \in {"submit", "submit_untraced"} :
          Start(r, kind, IF k = Nil THEN "region" ELSE "lookup",
                [Blank EXCEPT !.player = p, !.value = v, !.day = d, !.key = k])
    BY <1>1 DEF Submit
  <2> QED
    BY <2>1 DEF Start, Starts, Blank, TypeInv, TypeOK
<1>2. CASE Moderate(r)
  BY <1>2 DEF Starts, Moderate, Start, Blank, TypeInv, TypeOK
<1>3. CASE Authenticate(r)
  BY <1>3 DEF Starts, Authenticate, Start, Blank, TypeInv, TypeOK
<1>4. CASE Rebuild(r)
  BY <1>4 DEF Starts, Rebuild, Start, Blank, TypeInv, TypeOK
<1> QED
  BY <1>1, <1>2, <1>3, <1>4

LEMMA RegionSources ==
  ASSUME TypeInv, NEW r \in Requests, Step(r)
  PROVE  \/ Carries(r) \/ Starts(r)
         \/ Review(r) \/ Result(r) \/ ReadRegion(r) \/ ReadPlayers(r) \/ NextPlayer(r)
<1>a. TypeOK /\ mem[r] \in Locals
  BY DEF TypeInv, TypeOK
<1>1. CASE Finish(r)
  BY <1>1, <1>a DEF Finish, Starts, Blank, TypeOK
<1>2. ASSUME UNCHANGED mem, pc[r] \in HasSubject \ {"lock"} \/ pc'[r] \notin HasSubject
      PROVE  Carries(r)
  BY <1>2 DEF Carries
<1>3. CASE Submission(r)
  BY <1>a, <1>1, <1>2, <1>3, StartsBlank
     DEF Submission, Lookup, Insert, Hold, Enqueue, HasSubject, Labels
<1>4. CASE Decision(r)
  BY <1>a, <1>1, <1>2, <1>4 DEF Decision, Decide, Verdict, Retry, GiveUp, HasSubject, Labels
<1>5. CASE Sync(r)
  <2>1. CASE ReadAggregate(r)
    <3> DEFINE v == LedgerValue(mem[r].player)
    <3>1. pc[r] \in HasSubject \ {"lock"}
      BY <2>1 DEF ReadAggregate, HasSubject, Labels
    <3>2. \/ UNCHANGED mem
          \/ mem' = [mem EXCEPT ![r] = [mem[r] EXCEPT !.agg = v]]
      BY <2>1 DEF ReadAggregate
    <3> HIDE DEF v
    <3>3. CASE mem' = [mem EXCEPT ![r] = [mem[r] EXCEPT !.agg = v]]
      <4>1. mem'[r] = [mem[r] EXCEPT !.agg = v]
        BY <1>a, <3>3 DEF TypeOK
      <4> QED
        BY <1>a, <3>1, <4>1 DEF Carries, Locals
    <3> QED
      BY <1>2, <3>1, <3>2, <3>3
  <2>2. CASE ReadExam(r)
    BY <1>a, <2>2 DEF ReadExam, Carries, HasSubject, Labels, TypeOK, Locals
  <2> QED
    BY <1>2, <1>5, <2>1, <2>2 DEF Sync, Pass, Improve, HasSubject, Labels
<1>6. CASE Refresh(r)
  <2>1. CASE ReadLedger(r)
    <3> DEFINE v == LedgerValue(mem[r].player)
    <3>1. pc[r] \in HasSubject \ {"lock"}
      BY <2>1 DEF ReadLedger, HasSubject, Labels
    <3>2. \/ UNCHANGED mem
          \/ mem' = [mem EXCEPT ![r] = [mem[r] EXCEPT !.agg = v]]
      BY <2>1 DEF ReadLedger
    <3> HIDE DEF v
    <3>3. CASE mem' = [mem EXCEPT ![r] = [mem[r] EXCEPT !.agg = v]]
      <4>1. mem'[r] = [mem[r] EXCEPT !.agg = v]
        BY <1>a, <3>3 DEF TypeOK
      <4> QED
        BY <1>a, <3>1, <4>1 DEF Carries, Locals
    <3> QED
      BY <1>2, <3>1, <3>2, <3>3
  <2>2. CASE ReadStatus(r)
    BY <1>a, <2>2 DEF ReadStatus, Carries, HasSubject, Labels, TypeOK, Locals
  <2>3. CASE ReadQualified(r)
    BY <1>a, <2>3 DEF ReadQualified, Carries, HasSubject, Labels, TypeOK, Locals
  <2> QED
    BY <1>1, <1>2, <1>6, <2>1, <2>2, <2>3
       DEF Refresh, Drop, WriteStanding, Return, HasSubject, Labels
<1>7. CASE Moderation(r)
  BY <1>1, <1>2, <1>7, StartsBlank
     DEF Moderation, SetStatus, Sweep, LiftSuspension, HasSubject, Labels
<1>8. CASE ChooseRegion(r)
  BY <1>8, <1>a DEF ChooseRegion, Start, Starts, Blank, TypeOK
<1>9. CASE LockRegion(r) \/ Crash(r)
  BY <1>1, <1>9 DEF LockRegion, Crash
<1>10. CASE ClearBoard(r)
  BY <1>2, <1>10, <1>a DEF ClearBoard, Goto, TypeOK, HasSubject
<1>11. CASE Rebuild(r)
  BY <1>11, StartsBlank
<1> QED
  BY <1>3, <1>4, <1>5, <1>6, <1>7, <1>8, <1>9, <1>10, <1>11 DEF Step, Residence, Rebuilding

LEMMA RegionBoard ==
  ASSUME TypeInv, RegionInv, NEW r \in Requests, Step(r)
  PROVE  OwnRegionOnly'
<1>a. TypeOK /\ Ready(r) /\ mem[r] \in Locals
  BY DEF TypeInv, TypeOK
<1>1. \A p \in Players, g \in Or(Regions) : Settled(g, p) => Settled(g, p)'
  BY SettledStays
<1>2. \A p \in Players : standings[p] # Nil =>
         standings[p] \in Standing /\ Settled(standings[p].region, p)
         /\ standings[p].region \in Or(Regions)
  BY <1>a DEF RegionInv, OwnRegionOnly, Settled, TypeOK, Standing
<1>3. \A p \in Players : standings'[p] # Nil =>
         standings'[p].region \in Or(Regions) /\ Settled(standings'[p].region, p)
  <2>1. CASE Drop(r)
    BY <1>2, <1>a, <2>1 DEF Drop, TypeOK
  <2>2. CASE WriteStanding(r)
    <3>1. /\ mem[r].player \in Players /\ Settled(mem[r].region, mem[r].player)
          /\ mem[r].region \in Or(Regions)
      BY <1>a, <2>2 DEF WriteStanding, Ready, HasSubject, Labels, RegionInv, Locals
    <3>2. standings' = [standings EXCEPT ![mem[r].player] =
             [value |-> mem[r].agg, eligible |-> mem[r].eligible, region |-> mem[r].region]]
      BY <2>2 DEF WriteStanding
    <3> QED
      BY <1>2, <1>a, <3>1, <3>2 DEF TypeOK
  <2>3. CASE Sweep(r)
    <3> DEFINE q == mem[r].player
               x == mem[r].to # "banned" /\ Qualified(q)
    <3>1. standings' = [standings EXCEPT ![q] =
             IF @ = Nil THEN Nil ELSE [@ EXCEPT !.eligible = x]]
      BY <2>3 DEF Sweep
    <3> HIDE DEF x
    <3>2. ASSUME NEW b \in Standing
          PROVE  [b EXCEPT !.eligible = x].region = b.region
      BY DEF Standing
    <3>3. \A p \in Players : standings'[p] # Nil =>
             standings[p] # Nil /\ standings'[p].region = standings[p].region
      BY <1>2, <1>a, <3>1, <3>2 DEF TypeOK
    <3> QED
      BY <1>2, <3>3
  <2>4. CASE ClearBoard(r)
    BY <2>4 DEF ClearBoard
  <2>5. CASE UNCHANGED standings
    BY <1>2, <2>5
  <2> QED
    BY <2>1, <2>2, <2>3, <2>4, <2>5, BoardWriters
<1> QED
  BY <1>1, <1>3 DEF OwnRegionOnly, Settled

LEMMA RegionLedger ==
  ASSUME TypeInv, RegionInv, NEW r \in Requests, Step(r), NEW e \in Requests, entries'[e] # Nil
  PROVE  /\ entries'[e].player \in Players /\ entries'[e].region \in Or(Regions)
         /\ Settled(entries'[e].region, entries'[e].player)
<1>a. TypeOK /\ Ready(r) /\ mem[r] \in Locals /\ Keeps(r)
  BY StepKeeps DEF TypeInv, TypeOK, Step
<1>1. CASE entries[e] # Nil
  <2>1. entries'[e].player = entries[e].player /\ entries'[e].region = entries[e].region
    BY <1>a, <1>1 DEF Keeps, Grows
  <2>2. entries[e] \in Entry
    BY <1>1, <1>a DEF TypeOK
  <2> QED
    BY <1>1, <2>1, <2>2 DEF RegionInv, Entry
<1>2. CASE entries[e] = Nil
  <2>1. e = r
    BY <1>a, <1>2 DEF Keeps, Grows
  <2>2. Insert(r)
    <3>1. CASE Hold(r) \/ Decide(r) \/ Verdict(r) \/ GiveUp(r)
      BY <1>2, <1>a, <2>1, <3>1, <1>a DEF Hold, Decide, Verdict, GiveUp, Ready, TypeOK
    <3> QED
      BY <1>2, <3>1, EntryWriters
  <2>3. /\ mem[r].player \in Players /\ mem[r].region \in Or(Regions)
        /\ Settled(mem[r].region, mem[r].player)
    BY <1>a, <2>2 DEF Insert, Ready, HasSubject, Labels, RegionInv, Locals
  <2>4. entries'[r].player = mem[r].player /\ entries'[r].region = mem[r].region
    BY <1>a, <1>2, <2>1, <2>2 DEF Insert, TypeOK
  <2> QED
    BY <2>1, <2>3, <2>4
<1> QED
  BY <1>1, <1>2

LEMMA RegionLocals ==
  ASSUME TypeInv, RegionInv, NEW r \in Requests, Step(r)
  PROVE  /\ pc'[r] \in HasSubject \ {"lock"} => Settled(mem'[r].region, mem'[r].player)
         /\ \A t \in mem'[r].todo : Settled(t.region, t.player)
<1>a. TypeOK /\ Ready(r) /\ mem[r] \in Locals
  BY DEF TypeInv, TypeOK
<1>1. CASE Carries(r)
  BY <1>1 DEF Carries, RegionInv
<1>2. CASE Starts(r)
  BY <1>2 DEF Starts, Settled
<1>3. CASE Review(r) \/ Result(r)
  <2>1. PICK e \in Requests, to \in Targets, kind \in AllKinds :
          /\ entries[e] # Nil
          /\ mem' = [mem EXCEPT ![r] = [[Blank EXCEPT !.entry = e, !.to = to,
                       !.player = entries[e].player, !.region = entries[e].region]
                         EXCEPT !.kind = kind]]
    <3>1. CASE Review(r)
      BY <3>1 DEF Review, Start, Targets, AllKinds
    <3>2. CASE Result(r)
      <4>1. PICK e \in Requests, to \in {"counted", "rejected", "requeue", "giveup"} :
              /\ jobs[e].state = "open"
              /\ Start(r, "result", IF to \in {"requeue", "giveup"} THEN "retry" ELSE "verdict",
                       [Blank EXCEPT !.entry = e, !.to = to, !.player = entries[e].player,
                                     !.region = entries[e].region])
        BY <3>2 DEF Result
      <4>2. entries[e] # Nil
        BY <4>1 DEF TypeInv, JobsHaveEntries
      <4> QED
        BY <4>1, <4>2 DEF Start, Targets, AllKinds
    <3> QED
      BY <1>3, <3>1, <3>2
  <2>2. /\ mem'[r].region = entries[e].region /\ mem'[r].player = entries[e].player
        /\ mem'[r].todo = {}
    BY <1>a, <2>1 DEF Blank, TypeOK
  <2> QED
    BY <2>1, <2>2 DEF RegionInv
<1>4. CASE ReadRegion(r)
  <2> DEFINE g == home[mem[r].player]
  <2>1. mem'[r] = [mem[r] EXCEPT !.region = g]
    BY <1>a, <1>4 DEF ReadRegion, TypeOK
  <2>2. Settled(g, mem[r].player)
    BY DEF Settled
  <2> HIDE DEF g
  <2>3. mem'[r].region = g /\ mem'[r].player = mem[r].player /\ mem'[r].todo = mem[r].todo
    BY <1>a, <2>1 DEF Locals
  <2> QED
    BY <2>2, <2>3 DEF RegionInv
<1>5. CASE ReadPlayers(r)
  <2> DEFINE T == {[player |-> p, region |-> home[p]] : p \in {q \in Players : Counted(q) # {}}}
  <2>1. mem'[r] = [mem[r] EXCEPT !.todo = T] /\ pc'[r] = "next"
    BY <1>a, <1>5 DEF ReadPlayers, Goto, TypeOK
  <2>2. \A t \in T : Settled(t.region, t.player)
    BY DEF Settled
  <2> HIDE DEF T
  <2>3. mem'[r].todo = T
    BY <1>a, <2>1 DEF Locals
  <2> QED
    BY <2>1, <2>2, <2>3 DEF HasSubject
<1>6. CASE NextPlayer(r)
  <2>1. CASE Finish(r)
    BY <1>a, <2>1 DEF Finish, Blank, TypeOK, HasSubject
  <2>2. CASE ~Finish(r)
    <3>1. PICK t \in mem[r].todo :
            mem' = [mem EXCEPT ![r].player = t.player, ![r].region = t.region,
                               ![r].todo = @ \ {t}]
      BY <1>6, <2>2 DEF NextPlayer
    <3>2. mem'[r] = [mem[r] EXCEPT !.player = t.player, !.region = t.region, !.todo = @ \ {t}]
      BY <1>a, <3>1 DEF TypeOK
    <3>3. /\ mem'[r].region = t.region /\ mem'[r].player = t.player
          /\ mem'[r].todo = mem[r].todo \ {t}
      BY <1>a, <3>2 DEF Locals
    <3> QED
      BY <3>3 DEF RegionInv
  <2> QED
    BY <2>1, <2>2
<1> QED
  BY <1>1, <1>2, <1>3, <1>4, <1>5, <1>6, RegionSources

LEMMA RegionStep == TypeInv /\ RegionInv /\ [Next]_vars => RegionInv'
<1>1. RegionInv /\ UNCHANGED vars => RegionInv'
  BY DEF vars, derived, ledger, people, RegionInv, OwnRegionOnly, Settled
<1> SUFFICES ASSUME TypeInv, RegionInv, NEW r \in Requests, Step(r)
             PROVE  RegionInv'
  BY <1>1 DEF Next, Step
<1>2. \A p \in Players, g \in Or(Regions) : Settled(g, p) => Settled(g, p)'
  BY SettledStays
<1>a. Keeps(r) /\ TypeOK
  BY StepKeeps DEF TypeInv, Step
<1>3. \A e \in Requests : entries'[e] # Nil =>
         Settled(entries[e].region, entries[e].player)'
  BY <1>2, RegionLedger DEF Settled
<1>4. ASSUME NEW s \in Requests
      PROVE  /\ pc'[s] \in HasSubject \ {"lock"} => Settled(mem[s].region, mem[s].player)'
             /\ \A t \in mem'[s].todo : Settled(t.region, t.player)'
  <2>1. /\ pc'[s] \in HasSubject \ {"lock"} => Settled(mem'[s].region, mem'[s].player)
        /\ \A t \in mem'[s].todo : Settled(t.region, t.player)
    BY OthersStay, RegionLocals DEF RegionInv
  <2>2. TypeInv' /\ mem'[s] \in Locals
    BY <1>a DEF Keeps, TypeInv, TypeOK
  <2>3. pc'[s] \in HasSubject => mem'[s].player \in Players
    BY <2>2 DEF TypeInv, Ready
  <2>4. mem'[s].region \in Or(Regions)
        /\ \A t \in mem'[s].todo : t.player \in Players /\ t.region \in Or(Regions)
    BY <2>2 DEF Locals
  <2> QED
    BY <1>2, <2>1, <2>3, <2>4 DEF Settled
<1> QED
  BY <1>3, <1>4, RegionBoard DEF RegionInv, Settled

(* Home regions are locked per season: no row of the board ever names a    *)
(* region other than its player's home, whichever handler wrote it and     *)
(* from however old a copy of the region.                                  *)
THEOREM RegionLocked == Spec => []OwnRegionOnly
<1>1. Init => RegionInv
  <2>1. Blank.todo = {} /\ "idle" \notin HasSubject
    BY DEF Blank, HasSubject
  <2> QED
    BY <2>1 DEF Init, RegionInv, OwnRegionOnly
<1>2. RegionInv => OwnRegionOnly
  BY DEF RegionInv
<1> QED
  BY <1>1, <1>2, RegionStep, TypeInvariant, PTL DEF Spec

-----------------------------------------------------------------------------
(* A discipline with a module does not count a run before its verdict,     *)
(* between calls.  In between it does: an entry that is counted without a  *)
(* verdict belongs to a handler that is about to hold it.                  *)

ProvenInv ==
  /\ \A e \in Requests :
       entries[e] # Nil /\ entries[e].status = "counted" =>
         jobs[e].verdict = "counted" \/ pc[e] = "hold"
  /\ \A r \in Requests :
       /\ pc[r] # "decide"
       /\ pc[r] \in {"lookup", "region", "insert"} => mem[r].kind = "submit"

(* Calls without operator reviews and without submissions that bring no    *)
(* trace, in an isolate that does not die.                                 *)
Traced == HasModule /\ Kinds \cap {"submit_untraced", "review", "crash"} = {}

(* The statements after which a call is at one of the first of a           *)
(* submission, or at the one that reviews.                                 *)
LEMMA SubmissionAt ==
  ASSUME TypeInv, Traced, NEW r \in Requests, Step(r)
  PROVE  /\ pc'[r] \in {"lookup", "region", "insert"} => Submit(r) \/ Lookup(r) \/ ReadRegion(r)
         /\ pc'[r] # "decide"
  BY DEF TypeInv, TypeOK, Traced, Step, Submission, Decision, Sync, Refresh, Moderation, Residence,
         Rebuilding, Start, Goto, Finish, Return,
         Submit, Lookup, ReadRegion, Insert, Hold, Enqueue, Review, Decide, Result, Verdict,
         Retry, GiveUp, ReadAggregate, ReadExam, Pass, Improve, ReadLedger, Drop, ReadStatus,
         ReadQualified, WriteStanding, Moderate, SetStatus, Sweep, Authenticate, LiftSuspension,
         ChooseRegion, LockRegion, Rebuild, ClearBoard, ReadPlayers, NextPlayer, Crash

(* The statements that change a job.                                       *)
LEMMA JobWriters ==
  ASSUME NEW r \in Requests, Step(r)
  PROVE  Enqueue(r) \/ Verdict(r) \/ Retry(r) \/ UNCHANGED jobs
  BY DEF Step, Submission, Decision, Sync, Refresh, Moderation, Residence, Rebuilding,
         Submit, Lookup, ReadRegion, Insert, Hold, Review, Decide, Result, GiveUp,
         ReadAggregate, ReadExam, Pass, Improve, ReadLedger, Drop, ReadStatus,
         ReadQualified, WriteStanding, Moderate, SetStatus, Sweep, Authenticate, LiftSuspension,
         ChooseRegion, LockRegion, Rebuild, ClearBoard, ReadPlayers, NextPlayer, Crash, ledger

(* A verdict is only ever replaced by the verdict of another result.       *)
LEMMA VerdictsStay ==
  ASSUME TypeInv, NEW r \in Requests, Step(r), ~Verdict(r)
  PROVE  \A e \in Requests : jobs'[e].verdict = jobs[e].verdict
<1>1. ASSUME NEW e \in Requests, jobs' = [jobs EXCEPT ![e].state = "open"]
      PROVE  \A x \in Requests : jobs'[x].verdict = jobs[x].verdict
  <2>1. jobs \in [Requests -> Job]
    BY DEF TypeInv, TypeOK
  <2> QED
    BY <1>1, <2>1 DEF Job
<1>2. CASE Enqueue(r)
  BY <1>1, <1>2 DEF Enqueue
<1>3. CASE Retry(r)
  <2>1. mem[r].entry \in Requests
    BY <1>3 DEF Retry, TypeInv, Ready
  <2> QED
    BY <1>1, <1>3, <2>1 DEF Retry
<1> QED
  BY <1>2, <1>3, JobWriters

LEMMA HoldLeft ==
  ASSUME TypeInv, Traced, NEW r \in Requests, Step(r), pc[r] = "hold"
  PROVE  Hold(r)
  BY DEF Traced, Step, Submission, Decision, Sync, Refresh, Moderation, Residence,
         Rebuilding, Start,
         Submit, Lookup, ReadRegion, Insert, Hold, Enqueue, Review, Decide, Result, Verdict,
         Retry, GiveUp, ReadAggregate, ReadExam, Pass, Improve, ReadLedger, Drop, ReadStatus,
         ReadQualified, WriteStanding, Moderate, SetStatus, Sweep, Authenticate, LiftSuspension,
         ChooseRegion, LockRegion, Rebuild, ClearBoard, ReadPlayers, NextPlayer, Crash

LEMMA ProvenStep == Traced /\ TypeInv /\ ProvenInv /\ [Next]_vars => ProvenInv'
<1>1. ProvenInv /\ UNCHANGED vars => ProvenInv'
  BY DEF vars, ledger, ProvenInv
<1> SUFFICES ASSUME Traced, TypeInv, ProvenInv, NEW r \in Requests, Step(r)
             PROVE  ProvenInv'
  BY <1>1 DEF Next, Step
<1>a. TypeOK /\ Ready(r) /\ mem[r] \in Locals
  BY DEF TypeInv, TypeOK
<1>2. ASSUME NEW e \in Requests, entries'[e] # Nil, entries'[e].status = "counted"
      PROVE  jobs'[e].verdict = "counted" \/ pc'[e] = "hold"
  <2>1. CASE Insert(r) /\ entries' # entries
    <3>1. CASE e = r
      <4>1. entries[r] = Nil /\ mem[r].kind = "submit"
        BY <1>a, <2>1 DEF Insert, Ready, BeforeRow, ProvenInv
      <4>2. entries'[r].status = IF Suspicious(mem[r].value) THEN "review" ELSE "counted"
        BY <1>a, <2>1, <4>1 DEF Insert, TypeOK
      <4>3. pc'[r] = "hold"
        BY <1>2, <1>a, <2>1, <3>1, <4>1, <4>2 DEF Insert, Goto, Traced, TypeOK
      <4> QED
        BY <3>1, <4>3
    <3>2. CASE e # r
      <4>1. entries'[e] = entries[e] /\ jobs' = jobs /\ pc'[e] = pc[e]
        BY <1>a, <2>1, <3>2, OthersStay DEF Insert, TypeOK
      <4> QED
        BY <1>2, <4>1 DEF ProvenInv
    <3> QED
      BY <3>1, <3>2
  <2>2. CASE Hold(r)
    <3>1. entries[r] \in Entry
      BY <1>a, <2>2 DEF Hold, Ready, TypeOK
    <3>2. [entries[r] EXCEPT !.status = "review"].status = "review"
      BY <3>1 DEF Entry
    <3>3. e # r /\ entries'[e] = entries[e] /\ jobs' = jobs
      BY <1>2, <1>a, <2>2, <3>2 DEF Hold, TypeOK
    <3>4. pc'[e] = pc[e]
      BY <3>3, OthersStay
    <3> QED
      BY <1>2, <3>3, <3>4 DEF ProvenInv
  <2>3. CASE GiveUp(r)
    <3> DEFINE x == mem[r].entry
    <3>1. x \in Requests /\ entries[x] \in Entry
      BY <1>a, <2>3 DEF GiveUp, Ready, TypeOK
    <3>2. [entries[x] EXCEPT !.status = "review"].status = "review"
      BY <3>1 DEF Entry
    <3>3. e # x /\ entries'[e] = entries[e] /\ jobs' = jobs
      BY <1>2, <1>a, <2>3, <3>2 DEF GiveUp, TypeOK
    <3>4. pc[e] = "hold" => pc'[e] = "hold"
      BY <2>3, OthersStay DEF GiveUp
    <3> QED
      BY <1>2, <3>3, <3>4 DEF ProvenInv
  <2>4. CASE Verdict(r)
    <3> DEFINE x == mem[r].entry
    <3>1. x \in Requests /\ entries[x] \in Entry /\ mem[r].to \in {"counted", "rejected"}
      BY <1>a, <2>4 DEF Verdict, Ready, TypeOK
    <3>2. [entries[x] EXCEPT !.status = mem[r].to].status = mem[r].to
      BY <3>1 DEF Entry
    <3>3. CASE e = x
      <4>1. mem[r].to = "counted" /\ jobs'[e].verdict = mem[r].to
        BY <1>2, <1>a, <2>4, <3>1, <3>2, <3>3 DEF Verdict, TypeOK
      <4> QED
        BY <4>1
    <3>4. CASE e # x
      <4>1. entries'[e] = entries[e] /\ jobs'[e] = jobs[e]
        BY <1>a, <2>4, <3>4 DEF Verdict, TypeOK
      <4>2. pc[e] = "hold" => pc'[e] = "hold"
        BY <2>4, OthersStay DEF Verdict
      <4> QED
        BY <1>2, <4>1, <4>2 DEF ProvenInv
    <3> QED
      BY <3>3, <3>4
  <2>5. CASE UNCHANGED entries /\ ~Verdict(r)
    <3>1. jobs'[e].verdict = jobs[e].verdict
      BY <2>5, VerdictsStay
    <3>2. pc[e] = "hold" => pc'[e] = "hold" \/ Hold(r)
      BY HoldLeft, OthersStay
    <3> QED
      BY <1>2, <2>2, <2>5, <3>1, <3>2 DEF ProvenInv
  <2>6. ~Decide(r)
    BY DEF Decide, ProvenInv
  <2> QED
    BY <2>1, <2>2, <2>3, <2>4, <2>5, <2>6, EntryWriters
<1>3. ASSUME NEW s \in Requests
      PROVE  /\ pc'[s] # "decide"
             /\ pc'[s] \in {"lookup", "region", "insert"} => mem'[s].kind = "submit"
  <2>1. CASE s # r
    BY <2>1, OthersStay DEF ProvenInv
  <2>2. CASE s = r /\ pc'[r] \in {"lookup", "region", "insert"}
    <3>1. CASE Submit(r)
      <4>1. PICK p \in Players, v \in Values, d \in Days, k \in Or(Keys),
                 kind \in {"submit", "submit_untraced"} :
              Start(r, kind, IF k = Nil THEN "region" ELSE "lookup",
                    [Blank EXCEPT !.player = p, !.value = v, !.day = d, !.key = k])
        BY <3>1 DEF Submit
      <4>2. kind = "submit"
        BY <4>1 DEF Start, Traced
      <4>3. mem'[r].kind = kind
        BY <1>a, <4>1 DEF Start, TypeOK, Blank
      <4> QED
        BY <2>2, <4>2, <4>3
    <3>2. CASE Lookup(r)
      BY <1>a, <2>2, <3>2 DEF Lookup, Finish, ProvenInv, TypeOK
    <3>3. CASE ReadRegion(r)
      <4> DEFINE g == home[mem[r].player]
      <4>1. mem'[r] = [mem[r] EXCEPT !.region = g] /\ mem[r].kind = "submit"
        BY <1>a, <3>3 DEF ReadRegion, TypeOK, ProvenInv
      <4> HIDE DEF g
      <4> QED
        BY <1>a, <2>2, <4>1 DEF Locals
    <3> QED
      BY <2>2, <3>1, <3>2, <3>3, SubmissionAt
  <2> QED
    BY <2>1, <2>2, SubmissionAt
<1> QED
  BY <1>2, <1>3 DEF ProvenInv

(* A discipline that can prove its runs does not count one until it has:   *)
(* however submissions, verdicts, retries and give-ups interleave, no      *)
(* counted run is left without a verdict for it.  (Where every submission  *)
(* of a module's discipline brings a trace, no operator decides and no     *)
(* isolate dies between the insert and the hold; without the first or the  *)
(* last of these it is not true.)                                          *)
THEOREM ProvenRunsCount ==
  ASSUME HasModule, Kinds \cap {"submit_untraced", "review", "crash"} = {}
  PROVE  Spec => []UnprovenRunDoesNotCount
<1>1. Init => ProvenInv
  BY DEF Init, ProvenInv
<1>2. ProvenInv => UnprovenRunDoesNotCount
  BY DEF ProvenInv, UnprovenRunDoesNotCount, InFlight
<1>3. TypeInv /\ ProvenInv /\ [Next]_vars => ProvenInv'
  BY ProvenStep DEF Traced
<1> QED
  BY <1>1, <1>2, <1>3, TypeInvariant, PTL DEF Spec

-----------------------------------------------------------------------------
(* One entry per key.  The unique index keeps the entries of a key apart,  *)
(* and an answer names an entry of its own player and key, which neither   *)
(* ever change.                                                            *)

(* Two entries that the unique index would not let be.                     *)
Clash(e, f) ==
  /\ entries[e] # Nil /\ entries[f] # Nil
  /\ entries[e].player = entries[f].player
  /\ entries[e].key = entries[f].key /\ entries[e].key # Nil

(* The answer to r is of an entry of its player and key.                   *)
Told(r) ==
  LET a == answers[r]
  IN /\ entries[a.entry] # Nil
     /\ entries[a.entry].player = a.player /\ entries[a.entry].key = a.key

KeyInv ==
  /\ \A e, f \in Requests : Clash(e, f) => e = f
  /\ \A r \in Requests : answers[r] # Nil => Told(r)

(* A new entry is that of the call that inserts, of its player and key,    *)
(* where there was none.                                                   *)
LEMMA NewEntry ==
  ASSUME TypeInv, NEW r \in Requests, Step(r), NEW e \in Requests,
         entries[e] = Nil, entries'[e] # Nil
  PROVE  /\ e = r /\ Insert(r) /\ Conflicts(mem[r].player, mem[r].key) = {}
         /\ entries'[r].player = mem[r].player /\ entries'[r].key = mem[r].key
<1>a. TypeOK /\ Ready(r) /\ Keeps(r)
  BY StepKeeps DEF TypeInv, Step
<1>1. e = r
  BY <1>a DEF Keeps, Grows
<1>2. Insert(r)
  <2>1. CASE Hold(r) \/ Decide(r) \/ Verdict(r) \/ GiveUp(r)
    BY <1>1, <1>a, <2>1 DEF Hold, Decide, Verdict, GiveUp, Ready, TypeOK
  <2> QED
    BY <2>1, EntryWriters
<1>3. Conflicts(mem[r].player, mem[r].key) = {}
  BY <1>1, <1>2 DEF Insert
<1>4. entries'[r].player = mem[r].player /\ entries'[r].key = mem[r].key
  BY <1>a, <1>1, <1>2 DEF Insert, TypeOK
<1> QED
  BY <1>1, <1>2, <1>3, <1>4

(* Only the lookup and the insert tell a call which entry is its run's.    *)
LEMMA AnswerWriters ==
  ASSUME NEW r \in Requests, Step(r)
  PROVE  Lookup(r) \/ Insert(r) \/ UNCHANGED answers
  BY DEF Step, Submission, Decision, Sync, Refresh, Moderation, Residence, Rebuilding,
         Submit, ReadRegion, Hold, Enqueue, Review, Decide, Result, Verdict,
         Retry, GiveUp, ReadAggregate, ReadExam, Pass, Improve, ReadLedger, Drop, ReadStatus,
         ReadQualified, WriteStanding, Moderate, SetStatus, Sweep, Authenticate, LiftSuspension,
         ChooseRegion, LockRegion, Rebuild, ClearBoard, ReadPlayers, NextPlayer, Crash

LEMMA KeyStep == TypeInv /\ KeyInv /\ [Next]_vars => KeyInv'
<1>1. KeyInv /\ UNCHANGED vars => KeyInv'
  BY DEF vars, ledger, KeyInv, Clash, Told
<1> SUFFICES ASSUME TypeInv, KeyInv, NEW r \in Requests, Step(r)
             PROVE  KeyInv'
  BY <1>1 DEF Next, Step
<1>a. TypeOK /\ Grows(r)
  BY StepKeeps DEF TypeInv, Step, Keeps
<1>2. ASSUME NEW e \in Requests, NEW f \in Requests, Clash(e, f)'
      PROVE  e = f
  <2>1. CASE entries[e] # Nil /\ entries[f] # Nil
    <3>1. Clash(e, f)
      BY <1>2, <1>a, <2>1 DEF Clash, Grows
    <3> QED
      BY <3>1 DEF KeyInv
  <2>2. ASSUME NEW x \in Requests, NEW y \in Requests, entries[x] = Nil, entries[y] # Nil
        PROVE  ~Clash(x, y)' /\ ~Clash(y, x)'
    <3> SUFFICES ASSUME entries'[x] # Nil, entries'[y].player = entries'[x].player,
                        entries'[y].key = entries'[x].key, entries'[x].key # Nil
                 PROVE  FALSE
      BY DEF Clash
    <3>1. /\ Conflicts(mem[r].player, mem[r].key) = {} /\ x = r
          /\ entries'[x].player = mem[r].player /\ entries'[x].key = mem[r].key
      BY <2>2, NewEntry
    <3>2. entries'[y].player = entries[y].player /\ entries'[y].key = entries[y].key
      BY <1>a, <2>2 DEF Grows
    <3>3. y \in Conflicts(mem[r].player, mem[r].key)
      BY <2>2, <3>1, <3>2 DEF Conflicts, Keyed
    <3> QED
      BY <3>1, <3>3
  <2>3. CASE entries[e] = Nil /\ entries[f] = Nil
    BY <1>2, <2>3, NewEntry DEF Clash
  <2> QED
    BY <1>2, <2>1, <2>2, <2>3
<1>3. ASSUME NEW s \in Requests, answers'[s] # Nil
      PROVE  Told(s)'
  <2>1. CASE answers[s] # Nil /\ answers'[s] = answers[s]
    <3>1. answers[s] \in Answer
      BY <1>a, <2>1 DEF TypeOK
    <3>2. answers[s].entry \in Requests
      BY <3>1 DEF Answer
    <3>3. Told(s)
      BY <2>1 DEF KeyInv
    <3> QED
      BY <1>a, <2>1, <3>2, <3>3 DEF Told, Grows
  <2>2. ASSUME NEW e \in Requests, Tell(r, e), entries'[e] # Nil,
               entries'[e].player = mem[r].player, entries'[e].key = mem[r].key
        PROVE  Told(s)'
    <3>1. CASE s = r
      <4>1. answers'[s] = [player |-> mem[r].player, key |-> mem[r].key, entry |-> e]
        BY <1>a, <2>2, <3>1 DEF Tell, TypeOK
      <4> QED
        BY <2>2, <4>1 DEF Told
    <3>2. CASE s # r
      <4>1. answers'[s] = answers[s]
        BY <1>a, <2>2, <3>2 DEF Tell, TypeOK
      <4> QED
        BY <1>3, <2>1, <4>1
    <3> QED
      BY <3>1, <3>2
  <2>3. ASSUME NEW e \in Keyed(mem[r].player, mem[r].key), Tell(r, e)
        PROVE  Told(s)'
    <3>1. /\ e \in Requests /\ entries[e] # Nil
          /\ entries[e].player = mem[r].player /\ entries[e].key = mem[r].key
      BY <2>3 DEF Keyed
    <3>2. /\ entries'[e] # Nil
          /\ entries'[e].player = mem[r].player /\ entries'[e].key = mem[r].key
      BY <1>a, <3>1 DEF Grows
    <3> QED
      BY <2>2, <2>3, <3>1, <3>2
  <2>4. CASE Lookup(r)
    BY <1>3, <2>1, <2>3, <2>4 DEF Lookup
  <2>5. CASE Insert(r)
    <3>1. CASE \E e \in Conflicts(mem[r].player, mem[r].key) : Tell(r, e)
      BY <2>3, <3>1 DEF Conflicts
    <3>2. CASE entries' = [entries EXCEPT ![r] =
                 [player |-> mem[r].player, value |-> mem[r].value, day |-> mem[r].day,
                  key |-> mem[r].key, region |-> mem[r].region,
                  status |-> IF Suspicious(mem[r].value) THEN "review" ELSE "counted"]]
               /\ Tell(r, r)
      <4> DEFINE row == [player |-> mem[r].player, value |-> mem[r].value, day |-> mem[r].day,
                         key |-> mem[r].key, region |-> mem[r].region,
                         status |-> IF Suspicious(mem[r].value) THEN "review" ELSE "counted"]
      <4>1. entries'[r] = row
        BY <1>a, <3>2 DEF TypeOK
      <4>2. entries'[r] # Nil
        <5>1. mem[r] \in Locals /\ Ready(r) /\ pc[r] = "insert"
          BY <2>5 DEF Insert, TypeInv, TypeOK
        <5>2. row \in Entry
          BY <5>1 DEF Ready, HasSubject, Labels, Entry, Locals
        <5> HIDE DEF row
        <5> QED
          BY <4>1, <5>2, NilAssumption
      <4>3. entries'[r].player = mem[r].player /\ entries'[r].key = mem[r].key
        BY <4>1
      <4> QED
        BY <2>2, <3>2, <4>2, <4>3
    <3> QED
      BY <2>5, <3>1, <3>2 DEF Insert
  <2> QED
    BY <1>3, <2>1, <2>4, <2>5, AnswerWriters
<1> QED
  BY <1>2, <1>3 DEF KeyInv

(* Submissions with the same idempotency key get the same entry, however   *)
(* they interleave, and that entry is the player's.                        *)
THEOREM KeysNameOneEntry == Spec => []OneEntryPerKey
<1>1. Init => KeyInv
  BY DEF Init, KeyInv, Clash
<1>2. TypeInv /\ KeyInv => OneEntryPerKey
  <2> SUFFICES ASSUME TypeInv, KeyInv, NEW r \in Requests, NEW s \in Requests, answers[r] # Nil
               PROVE  /\ Told(r)
                      /\ answers[s] # Nil /\ answers[r].key # Nil /\ answers[s].player = answers[r].player
                           /\ answers[s].key = answers[r].key => answers[s].entry = answers[r].entry
    BY DEF OneEntryPerKey, Told
  <2>1. Told(r) /\ answers[r].entry \in Requests
    BY DEF KeyInv, TypeInv, TypeOK, Answer
  <2>2. ASSUME answers[s] # Nil, answers[r].key # Nil, answers[s].player = answers[r].player,
               answers[s].key = answers[r].key
        PROVE  answers[s].entry = answers[r].entry
    <3>1. Told(s) /\ answers[s].entry \in Requests
      BY <2>2 DEF KeyInv, TypeInv, TypeOK, Answer
    <3>2. Clash(answers[s].entry, answers[r].entry)
      BY <2>1, <2>2, <3>1 DEF Told, Clash
    <3> QED
      BY <2>1, <3>1, <3>2 DEF KeyInv
  <2> QED
    BY <2>1, <2>2
<1> QED
  BY <1>1, <1>2, KeyStep, TypeInvariant, PTL DEF Spec

-----------------------------------------------------------------------------
(* Held runs stay off.  Without a module an entry that is decided stays    *)
(* so: an operator may count or reject it again, but nothing holds it.  A  *)
(* value a handler carries, or one that is stored, was made of decided     *)
(* entries, and still is whatever is decided in between.                   *)

HeldInv ==
  /\ DecidedRunsOnly
  /\ \A r \in Requests :
       /\ pc[r] \notin {"hold", "enqueue", "verdict", "retry", "giveup"}
       /\ jobs[r].state # "open"
       /\ pc[r] \in HasValue => Sourced(mem[r].agg, mem[r].player)

Decided(p) == EntriesOf(p, {"counted", "rejected"})

(* Without a module there is no job, and no statement of one.              *)
LEMMA NoVerification ==
  ASSUME ~HasModule, TypeInv, HeldInv, NEW r \in Requests, Step(r)
  PROVE  /\ pc'[r] \notin {"hold", "enqueue", "verdict", "retry", "giveup"}
         /\ UNCHANGED jobs
<1>a. pc \in [Requests -> Labels] /\ pc[r] \notin {"hold", "enqueue", "verdict", "retry", "giveup"}
      /\ \A e \in Requests : jobs[e].state # "open"
  BY DEF TypeInv, TypeOK, HeldInv
<1>1. ~Hold(r) /\ ~Enqueue(r) /\ ~Result(r) /\ ~Verdict(r) /\ ~Retry(r) /\ ~GiveUp(r)
  BY <1>a DEF Hold, Enqueue, Result, Verdict, Retry, GiveUp
<1>2. UNCHANGED jobs
  BY <1>1, JobWriters
<1>3. pc'[r] \notin {"hold", "enqueue", "verdict", "retry", "giveup"}
  BY <1>a, <1>1 DEF Step, Submission, Decision, Sync, Refresh, Moderation, Residence,
         Rebuilding, Start, Goto, Finish, Return,
         Submit, Lookup, ReadRegion, Insert, Review, Decide,
         ReadAggregate, ReadExam, Pass, Improve, ReadLedger, Drop, ReadStatus, ReadQualified,
         WriteStanding, Moderate, SetStatus, Sweep, Authenticate, LiftSuspension, ChooseRegion,
         LockRegion, Rebuild, ClearBoard, ReadPlayers, NextPlayer, Crash
<1> QED
  BY <1>2, <1>3

LEMMA DecidedStay ==
  ASSUME ~HasModule, TypeInv, HeldInv, NEW r \in Requests, Step(r), NEW p \in Players,
         NEW e \in Decided(p)
  PROVE  e \in Decided(p)' /\ entries'[e].value = entries[e].value /\ entries'[e].day = entries[e].day
<1>a. TypeOK /\ Ready(r) /\ Grows(r)
  BY StepKeeps DEF TypeInv, Step, Keeps
<1>1. /\ e \in Requests /\ entries[e] # Nil /\ entries[e].player = p
      /\ entries[e].status \in {"counted", "rejected"}
  BY DEF Decided, EntriesOf
<1>2. entries'[e].status \in {"counted", "rejected"}
  <2>1. CASE Insert(r)
    <3>1. entries[r] = Nil
      BY <1>a, <2>1 DEF Insert, Ready, BeforeRow
    <3>2. entries'[e] = entries[e]
      BY <1>a, <1>1, <2>1, <3>1 DEF Insert, TypeOK
    <3> QED
      BY <1>1, <3>2
  <2>2. CASE Decide(r)
    <3>1. /\ entries[e] \in Entry /\ mem[r].to \in {"counted", "rejected"}
          /\ entries' = [entries EXCEPT ![mem[r].entry].status = mem[r].to]
      BY <1>a, <1>1, <2>2 DEF Decide, Ready, TypeOK
    <3>2. CASE e = mem[r].entry
      <4>1. entries'[e] = [entries[e] EXCEPT !.status = mem[r].to]
        BY <1>a, <1>1, <3>1, <3>2 DEF TypeOK
      <4>2. [entries[e] EXCEPT !.status = mem[r].to].status = mem[r].to
        BY <3>1 DEF Entry
      <4> QED
        BY <3>1, <4>1, <4>2
    <3>3. CASE e # mem[r].entry
      <4>1. entries'[e] = entries[e]
        BY <1>a, <1>1, <3>1, <3>3 DEF TypeOK
      <4> QED
        BY <1>1, <4>1
    <3> QED
      BY <3>2, <3>3
  <2>3. CASE UNCHANGED entries
    BY <1>1, <2>3
  <2>4. ~Hold(r) /\ ~Verdict(r) /\ ~GiveUp(r)
    BY DEF Hold, Verdict, GiveUp, HeldInv
  <2> QED
    BY <2>1, <2>2, <2>3, <2>4, EntryWriters
<1>3. /\ entries'[e] # Nil /\ entries'[e].player = p
      /\ entries'[e].value = entries[e].value /\ entries'[e].day = entries[e].day
  BY <1>a, <1>1 DEF Grows
<1> QED
  BY <1>1, <1>2, <1>3 DEF Decided, EntriesOf

(* What was made of decided entries still is.                              *)
LEMMA SourcedStays ==
  ASSUME ~HasModule, TypeInv, HeldInv, NEW r \in Requests, Step(r), NEW p \in Players, NEW v,
         Sourced(v, p)
  PROVE  Sourced(v, p)'
<1>1. PICK S \in (SUBSET Decided(p)) \ {{}} : v = Aggregate(RunsOf(S))
  BY DEF Sourced, Decided
<1>2. \A e \in S : /\ e \in Decided(p)'
                    /\ entries'[e].value = entries[e].value /\ entries'[e].day = entries[e].day
  BY DecidedStay
<1>3. RunsOf(S)' = RunsOf(S)
  BY <1>2 DEF RunsOf
<1>4. S \in (SUBSET Decided(p)') \ {{}}
  BY <1>2
<1> QED
  BY <1>1, <1>3, <1>4 DEF Sourced, Decided

LEMMA LedgerSourced ==
  ASSUME NEW p \in Players, Counted(p) # {}
  PROVE  Sourced(LedgerValue(p), p)
<1>1. Counted(p) \in (SUBSET EntriesOf(p, {"counted", "rejected"})) \ {{}}
  BY DEF Counted, EntriesOf
<1> QED
  BY <1>1 DEF Sourced, LedgerValue

(* Where a handler's value comes from.                                     *)
LEMMA ValuePrepared ==
  ASSUME TypeInv, NEW r \in Requests, Step(r), pc'[r] \in HasValue
  PROVE  ReadAggregate(r) \/ ReadExam(r) \/ ReadLedger(r) \/ ReadStatus(r) \/ ReadQualified(r)
  BY DEF TypeInv, TypeOK, HasValue, Step, Submission, Decision, Sync, Refresh, Moderation, Residence,
         Rebuilding, Start, Goto, Finish, Return,
         Submit, Lookup, ReadRegion, Insert, Hold, Enqueue, Review, Decide, Result, Verdict,
         Retry, GiveUp, Pass, Improve, Drop,
         WriteStanding, Moderate, SetStatus, Sweep, Authenticate, LiftSuspension, ChooseRegion,
         LockRegion, Rebuild, ClearBoard, ReadPlayers, NextPlayer, Crash

LEMMA ValueSources ==
  ASSUME TypeInv, NEW r \in Requests, Step(r), pc'[r] \in HasValue
  PROVE  /\ mem[r].player \in Players /\ mem'[r].player = mem[r].player
         /\ \/ /\ Counted(mem[r].player) # {}
               /\ mem'[r].agg = LedgerValue(mem[r].player)
            \/ pc[r] \in HasValue /\ mem'[r].agg = mem[r].agg
<1>a. TypeOK /\ Ready(r) /\ mem[r] \in Locals
  BY DEF TypeInv, TypeOK
<1>1. CASE ReadAggregate(r) \/ ReadLedger(r)
  <2> DEFINE v == LedgerValue(mem[r].player)
  <2>1. pc[r] \in {"aggregate", "ledger"} /\ mem[r].player \in Players
    BY <1>a, <1>1 DEF ReadAggregate, ReadLedger, Ready, HasSubject, Labels
  <2>2. Counted(mem[r].player) # {} /\ mem' = [mem EXCEPT ![r].agg = v]
    BY <1>a, <1>1 DEF ReadAggregate, ReadLedger, Goto, HasValue, TypeOK
  <2>3. mem'[r] = [mem[r] EXCEPT !.agg = v]
    BY <1>a, <2>2 DEF TypeOK
  <2> HIDE DEF v
  <2>4. mem'[r].agg = v /\ mem'[r].player = mem[r].player
    BY <1>a, <2>3 DEF Locals
  <2> QED
    BY <2>1, <2>2, <2>4 DEF v
<1>2. CASE ReadExam(r)
  <2> DEFINE x == quals[mem[r].player]
  <2>1. mem'[r] = [mem[r] EXCEPT !.exam = x] /\ pc[r] = "exam"
    BY <1>a, <1>2 DEF ReadExam, TypeOK
  <2> HIDE DEF x
  <2>2. mem'[r].agg = mem[r].agg /\ mem'[r].player = mem[r].player
    BY <1>a, <2>1 DEF Locals
  <2> QED
    BY <1>a, <2>1, <2>2 DEF Ready, HasSubject, HasValue, Labels
<1>3. CASE ReadStatus(r) \/ ReadQualified(r)
  <2>1. PICK x : mem'[r] = [mem[r] EXCEPT !.eligible = x]
    BY <1>a, <1>3 DEF ReadStatus, ReadQualified, TypeOK
  <2>2. pc[r] \in {"eligible", "qualified"}
    BY <1>3 DEF ReadStatus, ReadQualified
  <2>3. mem'[r].agg = mem[r].agg /\ mem'[r].player = mem[r].player
    BY <1>a, <2>1 DEF Locals
  <2> QED
    BY <1>a, <2>2, <2>3 DEF Ready, HasSubject, HasValue, Labels
<1> QED
  BY <1>1, <1>2, <1>3, ValuePrepared

(* Every number on the board and in the exams is one that was there, or    *)
(* one that a handler carried.                                             *)
LEMMA NumberSources ==
  ASSUME TypeInv, NEW r \in Requests, Step(r), NEW p \in Players
  PROVE  /\ standings'[p] # Nil =>
              \/ standings[p] # Nil /\ standings'[p].value = standings[p].value
              \/ pc[r] \in HasValue /\ mem[r].player = p /\ standings'[p].value = mem[r].agg
         /\ quals'[p] # Nil =>
              \/ quals[p] # Nil /\ quals'[p] = quals[p]
              \/ pc[r] \in HasValue /\ mem[r].player = p /\ quals'[p] = mem[r].agg
<1>a. TypeOK
  BY DEF TypeInv
<1>1. standings'[p] # Nil =>
        \/ standings[p] # Nil /\ standings'[p].value = standings[p].value
        \/ pc[r] \in HasValue /\ mem[r].player = p /\ standings'[p].value = mem[r].agg
  <2>1. CASE Drop(r) \/ ClearBoard(r)
    BY <1>a, <2>1 DEF Drop, ClearBoard, TypeOK
  <2>2. CASE WriteStanding(r)
    BY <1>a, <2>2 DEF WriteStanding, TypeOK, HasValue
  <2>3. CASE Sweep(r)
    <3> DEFINE q == mem[r].player
               x == mem[r].to # "banned" /\ Qualified(q)
    <3>1. standings' = [standings EXCEPT ![q] =
             IF @ = Nil THEN Nil ELSE [@ EXCEPT !.eligible = x]]
      BY <2>3 DEF Sweep
    <3> HIDE DEF x
    <3>2. ASSUME NEW b \in Standing
          PROVE  [b EXCEPT !.eligible = x].value = b.value
      BY DEF Standing
    <3> QED
      BY <1>a, <3>1, <3>2 DEF TypeOK
  <2>4. CASE UNCHANGED standings
    BY <2>4
  <2> QED
    BY <2>1, <2>2, <2>3, <2>4, BoardWriters
<1>2. quals'[p] # Nil =>
        \/ quals[p] # Nil /\ quals'[p] = quals[p]
        \/ pc[r] \in HasValue /\ mem[r].player = p /\ quals'[p] = mem[r].agg
  BY <1>a, ExamWriters DEF Pass, Improve, HasValue, TypeOK
<1> QED
  BY <1>1, <1>2

LEMMA HeldStep == ~HasModule /\ TypeInv /\ HeldInv /\ [Next]_vars => HeldInv'
<1>1. HeldInv /\ UNCHANGED vars => HeldInv'
  BY DEF vars, ledger, derived, HeldInv, DecidedRunsOnly, Sourced, EntriesOf, RunsOf
<1> SUFFICES ASSUME ~HasModule, TypeInv, HeldInv, NEW r \in Requests, Step(r)
             PROVE  HeldInv'
  BY <1>1 DEF Next, Step
<1>2. ASSUME NEW s \in Requests, pc[s] \in HasValue
      PROVE  mem[s].player \in Players /\ Sourced(mem[s].agg, mem[s].player)
  BY <1>2 DEF HeldInv, TypeInv, Ready, HasValue, HasSubject, Labels
<1>3. DecidedRunsOnly'
  <2>1. ASSUME NEW p \in Players, standings'[p] # Nil
        PROVE  \E v : v = standings'[p].value /\ Sourced(v, p)'
    <3>1. PICK v : v = standings'[p].value /\ Sourced(v, p)
      BY <1>2, <2>1, NumberSources DEF HeldInv, DecidedRunsOnly
    <3> QED
      BY <3>1, SourcedStays
  <2>2. ASSUME NEW p \in Players, quals'[p] # Nil
        PROVE  \E v : v = quals'[p] /\ Sourced(v, p)'
    <3>1. PICK v : v = quals'[p] /\ Sourced(v, p)
      BY <1>2, <2>2, NumberSources DEF HeldInv, DecidedRunsOnly
    <3> QED
      BY <3>1, SourcedStays
  <2> QED
    BY <2>1, <2>2 DEF DecidedRunsOnly, Sourced
<1>4. ASSUME NEW s \in Requests, pc'[s] \in HasValue
      PROVE  \E v, p : v = mem'[s].agg /\ p = mem'[s].player /\ Sourced(v, p)'
  <2>1. PICK p, v : p \in Players /\ v = mem'[s].agg /\ p = mem'[s].player /\ Sourced(v, p)
    <3>1. CASE s = r
      BY <1>2, <1>4, <3>1, ValueSources, LedgerSourced
    <3>2. CASE s # r
      BY <1>2, <1>4, <3>2, OthersStay
    <3> QED
      BY <3>1, <3>2
  <2> QED
    BY <2>1, SourcedStays
<1>5. ASSUME NEW s \in Requests
      PROVE  /\ pc'[s] \notin {"hold", "enqueue", "verdict", "retry", "giveup"}
             /\ jobs'[s].state # "open"
  BY NoVerification, OthersStay DEF HeldInv
<1>6. ASSUME NEW s \in Requests, pc'[s] \in HasValue
      PROVE  Sourced(mem[s].agg, mem[s].player)'
  BY <1>4, <1>6 DEF Sourced, EntriesOf
<1> QED
  BY <1>3, <1>5, <1>6 DEF HeldInv

(* Where a run is only held by the plausibility limit, no number on the    *)
(* board or in an exam ever includes an undecided run: whatever operators  *)
(* decide, and count again, while a refresh carries what it has read.      *)
THEOREM HeldRunsAreOff == Spec => []HeldRunsStayOff
<1>1. Init => HeldInv
  <2>1. \A e \in Requests : NoJob.state # "open"
    BY DEF NoJob
  <2> QED
    BY <2>1 DEF Init, HeldInv, DecidedRunsOnly, HasValue
<1>2. CASE HasModule
  <2>1. HeldRunsStayOff
    BY <1>2 DEF HeldRunsStayOff
  <2> QED
    BY <2>1, PTL
<1>3. CASE ~HasModule
  <2>1. HeldInv => HeldRunsStayOff
    BY DEF HeldInv, HeldRunsStayOff
  <2>2. TypeInv /\ HeldInv /\ [Next]_vars => HeldInv'
    BY <1>3, HeldStep
  <2> QED
    BY <1>1, <2>1, <2>2, TypeInvariant, PTL DEF Spec
<1> QED
  BY <1>2, <1>3
-----------------------------------------------------------------------------
(* A board nobody is working on: for every number of players, calls,       *)
(* values and keys, every aggregation and every discipline, the board      *)
(* between calls that come one after the other is the ledger's, and what   *)
(* a rebuild leaves behind is the derived one.                             *)

(* Calls come one after the other, in an isolate that does not die.        *)
Serial == MaxInFlight = 1 /\ "crash" \notin Kinds

(* What leaves a board behind the ledger without any overlap: a suspension *)
(* of a banned player by a report, a submission without the trace a module *)
(* asks for, and a verifier that gives up on a run an operator has counted.*)
Orderly ==
  /\ Serial
  /\ "resolve" \notin Kinds
  /\ HasModule => "submit_untraced" \notin Kinds
  /\ ~({"review", "result"} \subseteq Kinds)

Sweeping   == {"clear", "players", "next"}
Syncing    == {"aggregate", "exam", "pass", "improve"}
Refreshing == {"ledger", "drop", "eligible", "qualified", "write"}
Deciding   == {"verdict", "retry", "giveup"}
Calm       == {"lookup", "region", "insert", "enqueue", "decide", "verdict", "retry", "giveup",
               "status", "lift", "lock"}

-----------------------------------------------------------------------------
(* The invariant, from the control of a handler to the board.              *)

Alone == \A r, s \in InFlight : r = s

(* What the locals of a handler say of the call they are of.               *)
Kept(r) ==
  /\ pc[r] \in Sweeping => mem[r].kind = "rebuild"
  /\ mem[r].kind = "rebuild" => pc[r] \in Sweeping \cup Refreshing
  /\ mem[r].kind # "rebuild" => mem[r].todo = {}
  /\ r \in InFlight => mem[r].kind \in Kinds
  /\ pc[r] \in Deciding => mem[r].kind = "result"
  /\ pc[r] = "decide" => mem[r].kind = "review"
  /\ pc[r] \in Deciding \cup {"decide"} => entries[mem[r].entry].player = mem[r].player

(* What a refresh has read is still so: nothing else runs.                 *)
Fresh(r) ==
  LET p == mem[r].player IN
  /\ pc[r] = "drop" => Counted(p) = {}
  /\ pc[r] \in {"eligible", "qualified", "write"} =>
       Counted(p) # {} /\ mem[r].agg = LedgerValue(p)
  /\ pc[r] = "qualified" => status[p] # "banned" /\ Bar # Nil
  /\ pc[r] = "write" => mem[r].eligible = Deserves(p)

SerialInv == Alone /\ \A r \in Requests : Kept(r) /\ Fresh(r)

(* How far a rebuild has come: the players it has still to visit.          *)
Pending(r) == {t.player : t \in mem[r].todo}

Rebuilt(r) ==
  /\ pc[r] = "players" => \A q \in Players : standings[q] = Nil
  /\ pc[r] = "next" => \A q \in Players \ Pending(r) : standings[q] = Derived(q)
  /\ pc[r] \in Refreshing =>
       /\ \A q \in Players \ (Pending(r) \cup {mem[r].player}) : standings[q] = Derived(q)
       /\ mem[r].region = home[mem[r].player]
  /\ \A t \in mem[r].todo : t.region = home[t.player]

RebuildInv == \A r \in Requests : mem[r].kind = "rebuild" => Rebuilt(r)

(* The row of q is what the runs E make of it.                             *)
Fits(q, E) ==
  /\ standings[q] = Nil <=> E = {}
  /\ standings[q] # Nil => /\ standings[q].value = Aggregate(RunsOf(E))
                           /\ standings[q].eligible = Deserves(q)
Right(q) == Fits(q, Counted(q))

(* How far any other call has come.                                        *)
Stage(r) ==
  LET p == mem[r].player IN
  /\ pc[r] \in Calm => \A q \in Players : Right(q)
  /\ pc[r] = "hold" => \A q \in Players : Fits(q, Counted(q) \ {r})
  /\ pc[r] \in Syncing \cup Refreshing \cup {"sweep"} => \A q \in Players \ {p} : Right(q)
  /\ pc[r] = "sweep" =>
       /\ mem[r].to = status[p]
       /\ standings[p] = Nil <=> Counted(p) = {}
       /\ standings[p] # Nil => standings[p].value = LedgerValue(p)
  /\ pc[r] = "lift" => status[p] = "suspended"
  /\ pc[r] = "enqueue" => entries[r].status = "review"
  /\ pc[r] \in Deciding => entries[mem[r].entry].status = "review"

(* An open job is of an entry that is held.                                *)
JobsHold == \A e \in Requests : jobs[e].state = "open" => entries[e].status = "review"

LedgerInv ==
  /\ InFlight = {} => \A q \in Players : Right(q)
  /\ \A r \in InFlight : mem[r].kind # "rebuild" => Stage(r)
  /\ "result" \in Kinds => JobsHold

-----------------------------------------------------------------------------
(* Control: one handler runs, and its locals are those of its call.        *)

(* A step is the first of its call, or it is of the handler that runs.     *)
LEMMA StepBegins ==
  ASSUME TypeInv, Serial, NEW r \in Requests, Step(r)
  PROVE  pc[r] # "done" /\ (pc[r] = "idle" => Cardinality(InFlight) < 1)
  BY DEF Serial, Step, Submission, Decision, Sync, Refresh, Moderation, Residence, Rebuilding,
         Submit, Lookup, ReadRegion, Insert, Hold, Enqueue, Review, Decide, Result, Verdict,
         Retry, GiveUp, ReadAggregate, ReadExam, Pass, Improve, ReadLedger, Drop, ReadStatus,
         ReadQualified, WriteStanding, Moderate, SetStatus, Sweep, Authenticate, LiftSuspension,
         ChooseRegion, LockRegion, Rebuild, ClearBoard, ReadPlayers, NextPlayer, Crash, Start

(* While r steps nothing else runs, before or after.                       *)
LEMMA OnlyOne ==
  ASSUME TypeInv, Serial, Alone, NEW r \in Requests, Step(r)
  PROVE  /\ InFlight \subseteq {r} /\ InFlight' \subseteq {r}
         /\ pc[r] = "idle" => InFlight = {}
<1>1. InFlight \subseteq {r} /\ (pc[r] = "idle" => InFlight = {})
  <2>1. CASE pc[r] = "idle"
    <3>1. Cardinality(InFlight) < 1
      BY <2>1, StepBegins
    <3>2. CASE InFlight = {}
      BY <3>2
    <3>3. CASE \E s \in InFlight : TRUE
      <4>1. PICK s \in InFlight : InFlight = {s}
        BY <3>3 DEF Alone
      <4>2. Cardinality(InFlight) = 1
        BY <4>1, FS_Singleton
      <4> QED
        BY <3>1, <4>2
    <3> QED
      BY <3>2, <3>3
  <2>2. CASE pc[r] # "idle"
    <3>1. r \in InFlight
      BY <2>2, StepBegins DEF InFlight
    <3> QED
      BY <2>2, <3>1 DEF Alone
  <2> QED
    BY <2>1, <2>2
<1>2. \A s \in Requests \ {r} : pc'[s] = pc[s]
  BY OthersStay
<1> QED
  BY <1>1, <1>2 DEF InFlight

(* A call goes on with the locals it has, but for what a statement reads.  *)
Onward(r) ==
  /\ mem'[r].kind = mem[r].kind /\ mem'[r].player = mem[r].player
  /\ mem'[r].todo = mem[r].todo /\ mem'[r].to = mem[r].to /\ mem'[r].entry = mem[r].entry
Begins(r) ==
  \/ Submit(r) \/ Review(r) \/ Result(r) \/ Moderate(r) \/ Authenticate(r) \/ ChooseRegion(r)
  \/ Rebuild(r)

LEMMA OnwardOrEnd ==
  ASSUME TypeInv, NEW r \in Requests, Step(r)
  PROVE  \/ Begins(r) \/ NextPlayer(r) \/ ReadPlayers(r)
         \/ pc'[r] = "done" /\ mem'[r] = Blank
         \/ Onward(r)
<1>a. TypeOK /\ mem[r] \in Locals
  BY DEF TypeInv, TypeOK
<1>1. \/ Begins(r) \/ NextPlayer(r) \/ ReadPlayers(r)
      \/ Finish(r)
      \/ UNCHANGED mem
      \/ \E x : \/ mem' = [mem EXCEPT ![r].region = x]
                \/ mem' = [mem EXCEPT ![r].agg = x]
                \/ mem' = [mem EXCEPT ![r].exam = x]
                \/ mem' = [mem EXCEPT ![r].eligible = x]
  BY DEF Begins, Step, Submission, Decision, Sync, Refresh, Moderation, Residence, Rebuilding,
         Lookup, ReadRegion, Insert, Hold, Enqueue, Decide, Verdict,
         Retry, GiveUp, ReadAggregate, ReadExam, Pass, Improve, ReadLedger, Drop, ReadStatus,
         ReadQualified, WriteStanding, SetStatus, Sweep, LiftSuspension,
         LockRegion, ClearBoard, Crash, Return
<1>2. CASE Finish(r)
  BY <1>a, <1>2, Finished
<1>3. CASE UNCHANGED mem
  BY <1>3 DEF Onward
<1>4. ASSUME NEW x, \/ mem' = [mem EXCEPT ![r].region = x]
                    \/ mem' = [mem EXCEPT ![r].agg = x]
                    \/ mem' = [mem EXCEPT ![r].exam = x]
                    \/ mem' = [mem EXCEPT ![r].eligible = x]
      PROVE  Onward(r)
  <2>1. \/ mem'[r] = [mem[r] EXCEPT !.region = x] \/ mem'[r] = [mem[r] EXCEPT !.agg = x]
        \/ mem'[r] = [mem[r] EXCEPT !.exam = x] \/ mem'[r] = [mem[r] EXCEPT !.eligible = x]
    BY <1>a, <1>4 DEF TypeOK
  <2> QED
    BY <1>a, <2>1 DEF Onward, Locals
<1> QED
  BY <1>1, <1>2, <1>3, <1>4

(* The first statement of every call, and the locals it starts with.       *)
Opening(r) ==
  \/ pc'[r] = "clear" /\ mem'[r].kind = "rebuild"
  \/ pc'[r] \in {"region", "lookup"} /\ mem'[r].kind \in {"submit", "submit_untraced"}
  \/ /\ pc'[r] = "decide" /\ mem'[r].kind = "review"
     /\ entries[mem'[r].entry].player = mem'[r].player
  \/ /\ pc'[r] \in {"verdict", "retry"} /\ mem'[r].kind = "result"
     /\ entries[mem'[r].entry].player = mem'[r].player
     /\ mem'[r].entry \in Requests /\ jobs[mem'[r].entry].state = "open"
  \/ pc'[r] = "status" /\ mem'[r].kind \in {"status", "resolve"}
  \/ pc'[r] = "lift" /\ mem'[r].kind = "read" /\ status[mem'[r].player] = "suspended"
  \/ pc'[r] = "lock" /\ mem'[r].kind = "region"

LEMMA Begun ==
  ASSUME TypeInv, NEW r \in Requests, Begins(r)
  PROVE  /\ UNCHANGED <<ledger, derived, people, answers>>
         /\ pc[r] = "idle" /\ mem'[r].kind \in Kinds /\ mem'[r].todo = {}
         /\ Opening(r)
<1>a. TypeOK
  BY DEF TypeInv
<1>0. ASSUME NEW m \in Locals, NEW kind, NEW label \in Labels, Start(r, kind, label, m), m.todo = {}
      PROVE  /\ pc[r] = "idle" /\ mem'[r].kind \in Kinds /\ mem'[r].todo = {} /\ pc'[r] = label
             /\ mem'[r].kind = kind /\ mem'[r].player = m.player /\ mem'[r].entry = m.entry
  <2>1. mem'[r] = [m EXCEPT !.kind = kind] /\ kind \in Kinds /\ pc[r] = "idle" /\ pc'[r] = label
    BY <1>a, <1>0 DEF Start, TypeOK
  <2> QED
    BY <1>0, <2>1 DEF Locals
<1>1. CASE Submit(r)
  <2>1. PICK p \in Players, v \in Values, d \in Days, k \in Or(Keys),
             kind \in {"submit", "submit_untraced"} :
          Start(r, kind, IF k = Nil THEN "region" ELSE "lookup",
                [Blank EXCEPT !.player = p, !.value = v, !.day = d, !.key = k])
    BY <1>1 DEF Submit
  <2> DEFINE m == [Blank EXCEPT !.player = p, !.value = v, !.day = d, !.key = k]
             label == IF k = Nil THEN "region" ELSE "lookup"
  <2>2. m \in Locals /\ m.todo = {} /\ label \in Labels /\ label \in {"region", "lookup"}
    BY SubmitLocals DEF Blank, Labels
  <2>3. Start(r, kind, label, m)
    BY <2>1
  <2> HIDE DEF m, label
  <2>4. /\ pc[r] = "idle" /\ mem'[r].kind \in Kinds /\ mem'[r].todo = {} /\ pc'[r] = label
        /\ mem'[r].kind = kind
    BY <1>0, <2>2, <2>3
  <2> QED
    BY <1>1, <2>2, <2>4 DEF Submit, Opening
<1>2. CASE Review(r)
  <2>1. PICK e \in Requests, to \in {"counted", "rejected"} :
          /\ entries[e] # Nil
          /\ Start(r, "review", "decide",
                   [Blank EXCEPT !.entry = e, !.to = to, !.player = entries[e].player,
                                 !.region = entries[e].region])
    BY <1>2 DEF Review
  <2> DEFINE m == [Blank EXCEPT !.entry = e, !.to = to, !.player = entries[e].player,
                                !.region = entries[e].region]
  <2>2. m \in Locals /\ m.todo = {} /\ m.entry = e /\ m.player = entries[e].player
    BY <1>a, <2>1, DecisionLocals DEF Targets, TypeOK, Entry, Blank
  <2>3. Start(r, "review", "decide", m) /\ "decide" \in Labels
    BY <2>1 DEF Labels
  <2> HIDE DEF m
  <2>4. /\ pc[r] = "idle" /\ mem'[r].kind \in Kinds /\ mem'[r].todo = {} /\ pc'[r] = "decide"
        /\ mem'[r].kind = "review" /\ mem'[r].player = m.player /\ mem'[r].entry = m.entry
    BY <1>0, <2>2, <2>3
  <2> QED
    BY <1>2, <2>2, <2>4 DEF Review, Opening
<1>3. CASE Result(r)
  <2>1. PICK e \in Requests, to \in {"counted", "rejected", "requeue", "giveup"} :
          /\ jobs[e].state = "open"
          /\ Start(r, "result", IF to \in {"requeue", "giveup"} THEN "retry" ELSE "verdict",
                   [Blank EXCEPT !.entry = e, !.to = to, !.player = entries[e].player,
                                 !.region = entries[e].region])
    BY <1>3 DEF Result
  <2> DEFINE m == [Blank EXCEPT !.entry = e, !.to = to, !.player = entries[e].player,
                                !.region = entries[e].region]
             label == IF to \in {"requeue", "giveup"} THEN "retry" ELSE "verdict"
  <2>0. entries[e] # Nil
    BY <2>1 DEF TypeInv, JobsHaveEntries
  <2>2. m \in Locals /\ m.todo = {} /\ m.entry = e /\ m.player = entries[e].player
    BY <1>a, <2>0, DecisionLocals DEF Targets, TypeOK, Entry, Blank
  <2>3. Start(r, "result", label, m) /\ label \in Labels /\ label \in {"verdict", "retry"}
    BY <2>1 DEF Labels
  <2> HIDE DEF m, label
  <2>4. /\ pc[r] = "idle" /\ mem'[r].kind \in Kinds /\ mem'[r].todo = {} /\ pc'[r] = label
        /\ mem'[r].kind = "result" /\ mem'[r].player = m.player /\ mem'[r].entry = m.entry
    BY <1>0, <2>2, <2>3
  <2> QED
    BY <1>3, <2>1, <2>2, <2>3, <2>4 DEF Result, Opening
<1>4. CASE Moderate(r)
  <2>1. PICK p \in Players, to \in Statuses, kind \in {"status", "resolve"} :
          Start(r, kind, "status", [Blank EXCEPT !.player = p, !.to = to])
    BY <1>4 DEF Moderate
  <2> DEFINE m == [Blank EXCEPT !.player = p, !.to = to]
  <2>2. m \in Locals /\ m.todo = {} /\ "status" \in Labels /\ Start(r, kind, "status", m)
    BY <2>1, ModerationLocals DEF Blank, Labels, Targets
  <2> HIDE DEF m
  <2>3. /\ pc[r] = "idle" /\ mem'[r].kind \in Kinds /\ mem'[r].todo = {} /\ pc'[r] = "status"
        /\ mem'[r].kind = kind
    BY <1>0, <2>2
  <2> QED
    BY <1>4, <2>3 DEF Moderate, Opening
<1>5. CASE Authenticate(r)
  <2>1. PICK p \in Players :
          status[p] = "suspended" /\ Start(r, "read", "lift", [Blank EXCEPT !.player = p])
    BY <1>5 DEF Authenticate
  <2> DEFINE m == [Blank EXCEPT !.player = p]
  <2>2. m \in Locals /\ m.todo = {} /\ m.player = p /\ "lift" \in Labels /\ Start(r, "read", "lift", m)
    BY <2>1, ReadLocals DEF Blank, Labels
  <2> HIDE DEF m
  <2>3. /\ pc[r] = "idle" /\ mem'[r].kind \in Kinds /\ mem'[r].todo = {} /\ pc'[r] = "lift"
        /\ mem'[r].kind = "read" /\ mem'[r].player = p
    BY <1>0, <2>2
  <2> QED
    BY <1>5, <2>1, <2>3 DEF Authenticate, Opening
<1>6. CASE ChooseRegion(r)
  <2>1. PICK p \in Players, g \in Regions :
          Start(r, "region", "lock", [Blank EXCEPT !.player = p, !.region = g])
    BY <1>6 DEF ChooseRegion
  <2> DEFINE m == [Blank EXCEPT !.player = p, !.region = g]
  <2>2. m \in Locals /\ m.todo = {} /\ "lock" \in Labels /\ Start(r, "region", "lock", m)
    BY <2>1, ResidenceLocals DEF Blank, Labels
  <2> HIDE DEF m
  <2>3. /\ pc[r] = "idle" /\ mem'[r].kind \in Kinds /\ mem'[r].todo = {} /\ pc'[r] = "lock"
        /\ mem'[r].kind = "region"
    BY <1>0, <2>2
  <2> QED
    BY <1>6, <2>3 DEF ChooseRegion, Opening
<1>7. CASE Rebuild(r)
  <2>1. Blank \in Locals /\ Blank.todo = {} /\ "clear" \in Labels /\ Start(r, "rebuild", "clear", Blank)
    BY <1>7, BlankIsLocals DEF Blank, Labels, Rebuild
  <2>2. /\ pc[r] = "idle" /\ mem'[r].kind \in Kinds /\ mem'[r].todo = {} /\ pc'[r] = "clear"
        /\ mem'[r].kind = "rebuild"
    BY <1>0, <2>1
  <2> QED
    BY <1>7, <2>2 DEF Rebuild, Opening
<1> QED
  BY <1>1, <1>2, <1>3, <1>4, <1>5, <1>6, <1>7 DEF Begins

(* Where a call can be after a statement that is not its first.            *)
LEMMA Transitions ==
  ASSUME TypeInv, NEW r \in Requests, Step(r), ~Begins(r)
  PROVE  /\ pc[r] \notin {"idle", "done"}
         /\ pc'[r] \in {"players", "next"} =>
              pc[r] \in Sweeping \/ (pc[r] \in {"drop", "write"} /\ mem[r].kind = "rebuild")
         /\ pc'[r] # "clear"
         /\ pc'[r] \in Deciding => pc[r] \in Deciding
         /\ pc'[r] # "decide"
         /\ pc[r] \in Sweeping \cup Refreshing => pc'[r] \in Sweeping \cup Refreshing \cup {"done"}
  BY DEF TypeInv, TypeOK, Begins, Sweeping, Refreshing, Deciding,
         Step, Submission, Decision, Sync, Refresh, Moderation, Residence, Rebuilding,
         Lookup, ReadRegion, Insert, Hold, Enqueue, Decide, Verdict,
         Retry, GiveUp, ReadAggregate, ReadExam, Pass, Improve, ReadLedger, Drop, ReadStatus,
         ReadQualified, WriteStanding, SetStatus, Sweep, LiftSuspension,
         LockRegion, ClearBoard, ReadPlayers, NextPlayer, Crash, Return, Goto, Finish, InFlight

(* A call that has ended has no locals.                                    *)
LEMMA Ended ==
  ASSUME TypeInv, NEW r \in Requests, Step(r), pc'[r] = "done"
  PROVE  Finish(r)
<1>1. ~Begins(r)
  BY Begun DEF Opening
<1> QED
  BY <1>1 DEF TypeInv, TypeOK, Begins,
         Step, Submission, Decision, Sync, Refresh, Moderation, Residence, Rebuilding,
         Lookup, ReadRegion, Insert, Hold, Enqueue, Decide, Verdict,
         Retry, GiveUp, ReadAggregate, ReadExam, Pass, Improve, ReadLedger, Drop, ReadStatus,
         ReadQualified, WriteStanding, SetStatus, Sweep, LiftSuspension,
         LockRegion, ClearBoard, ReadPlayers, NextPlayer, Crash, Return, Goto

(* The two statements of a rebuild that change what it has still to do.    *)
LEMMA RebuildLocals ==
  ASSUME TypeInv, NEW r \in Requests
  PROVE  /\ ReadPlayers(r) =>
              /\ pc[r] = "players" /\ pc'[r] = "next" /\ mem'[r].kind = mem[r].kind
              /\ mem'[r].todo =
                   {[player |-> p, region |-> home[p]] : p \in {q \in Players : Counted(q) # {}}}
         /\ NextPlayer(r) =>
              /\ pc[r] = "next"
              /\ \/ mem[r].todo = {} /\ pc'[r] = "done" /\ mem'[r] = Blank
                 \/ /\ pc'[r] = "ledger" /\ mem'[r].kind = mem[r].kind
                    /\ \E t \in mem[r].todo :
                         /\ mem'[r].player = t.player /\ mem'[r].region = t.region
                         /\ mem'[r].todo = mem[r].todo \ {t}
<1>a. TypeOK /\ mem[r] \in Locals
  BY DEF TypeInv, TypeOK
<1>1. ASSUME ReadPlayers(r)
      PROVE  /\ pc[r] = "players" /\ pc'[r] = "next" /\ mem'[r].kind = mem[r].kind
             /\ mem'[r].todo =
                  {[player |-> p, region |-> home[p]] : p \in {q \in Players : Counted(q) # {}}}
  <2> DEFINE T == {[player |-> p, region |-> home[p]] : p \in {q \in Players : Counted(q) # {}}}
  <2>1. mem'[r] = [mem[r] EXCEPT !.todo = T] /\ pc[r] = "players" /\ pc'[r] = "next"
    BY <1>a, <1>1 DEF ReadPlayers, Goto, TypeOK
  <2> HIDE DEF T
  <2>2. mem'[r].todo = T /\ mem'[r].kind = mem[r].kind
    BY <1>a, <2>1 DEF Locals
  <2> QED
    BY <2>1, <2>2 DEF T
<1>2. ASSUME NextPlayer(r)
      PROVE  /\ pc[r] = "next"
             /\ \/ mem[r].todo = {} /\ pc'[r] = "done" /\ mem'[r] = Blank
                \/ /\ pc'[r] = "ledger" /\ mem'[r].kind = mem[r].kind
                   /\ \E t \in mem[r].todo :
                        /\ mem'[r].player = t.player /\ mem'[r].region = t.region
                        /\ mem'[r].todo = mem[r].todo \ {t}
  <2>1. CASE mem[r].todo = {} /\ Finish(r)
    BY <1>a, <1>2, <2>1, Finished DEF NextPlayer
  <2>2. ASSUME NEW t \in mem[r].todo, Goto(r, "ledger"),
               mem' = [mem EXCEPT ![r].player = t.player, ![r].region = t.region,
                                  ![r].todo = @ \ {t}]
        PROVE  /\ pc'[r] = "ledger" /\ mem'[r].kind = mem[r].kind
               /\ mem'[r].player = t.player /\ mem'[r].region = t.region
               /\ mem'[r].todo = mem[r].todo \ {t}
    <3>1. mem'[r] = [mem[r] EXCEPT !.player = t.player, !.region = t.region, !.todo = @ \ {t}]
      BY <1>a, <2>2 DEF TypeOK
    <3>2. pc'[r] = "ledger"
      BY <1>a, <2>2 DEF Goto, TypeOK
    <3> QED
      BY <1>a, <3>1, <3>2 DEF Locals
  <2> QED
    BY <1>2, <2>1, <2>2 DEF NextPlayer
<1> QED
  BY <1>1, <1>2

LEMMA KeptStep ==
  ASSUME TypeInv, NEW r \in Requests, Step(r), Kept(r)
  PROVE  Kept(r)'
<1>a. Keeps(r) /\ Ready(r)
  BY StepKeeps DEF Step, TypeInv
<1>b. Blank.kind = "" /\ Blank.todo = {}
  BY DEF Blank
<1>1. CASE Begins(r)
  <2>1. mem'[r].kind \in Kinds /\ mem'[r].todo = {} /\ Opening(r) /\ entries' = entries
    BY <1>1, Begun DEF ledger
  <2> QED
    BY <2>1 DEF Opening, Kept, Sweeping, Refreshing, Deciding
<1>2. CASE pc'[r] = "done"
  <2>1. mem'[r] = Blank
    BY <1>2, Ended, Finished DEF TypeInv
  <2> QED
    BY <1>b, <1>2, <2>1 DEF Kept, Sweeping, Refreshing, Deciding, InFlight
<1>3. CASE ~Begins(r) /\ NextPlayer(r) /\ pc'[r] # "done"
  <2>1. pc[r] = "next" /\ pc'[r] = "ledger" /\ mem'[r].kind = mem[r].kind
    BY <1>3, RebuildLocals
  <2> QED
    BY <2>1 DEF Kept, Sweeping, Refreshing, Deciding, InFlight
<1>4. CASE ~Begins(r) /\ ReadPlayers(r)
  <2>1. pc[r] = "players" /\ pc'[r] = "next" /\ mem'[r].kind = mem[r].kind
    BY <1>4, RebuildLocals
  <2> QED
    BY <2>1 DEF Kept, Sweeping, Refreshing, Deciding, InFlight
<1>5. CASE ~Begins(r) /\ Onward(r) /\ pc'[r] # "done"
  <2>1. r \in InFlight
    BY <1>5, Transitions DEF InFlight
  <2>2. pc'[r] \in Deciding => entries'[mem[r].entry].player = entries[mem[r].entry].player
    BY <1>a, <1>5, Transitions DEF Keeps, Grows, Ready, Deciding
  <2> QED
    BY <1>5, <2>1, <2>2, Transitions DEF Kept, Onward, Sweeping, Refreshing, Deciding
<1> QED
  BY <1>1, <1>2, <1>3, <1>4, <1>5, OnwardOrEnd

-----------------------------------------------------------------------------
(* What a refresh reads.                                                   *)

Reading == {"drop", "eligible", "qualified", "write"}

LEMMA RefreshPrepared ==
  ASSUME TypeInv, NEW r \in Requests, Step(r), pc'[r] \in Reading
  PROVE  ReadLedger(r) \/ ReadStatus(r) \/ ReadQualified(r)
  BY DEF TypeInv, TypeOK, Reading, Step, Submission, Decision, Sync, Refresh, Moderation, Residence,
         Rebuilding, Start, Goto, Finish, Return,
         Submit, Lookup, ReadRegion, Insert, Hold, Enqueue, Review, Decide, Result, Verdict,
         Retry, GiveUp, ReadAggregate, ReadExam, Pass, Improve, Drop,
         WriteStanding, Moderate, SetStatus, Sweep, Authenticate, LiftSuspension, ChooseRegion,
         LockRegion, Rebuild, ClearBoard, ReadPlayers, NextPlayer, Crash

(* A statement that leaves the tables alone leaves what they say.          *)
LEMMA TablesSay ==
  ASSUME UNCHANGED <<ledger, derived, people>>
  PROVE  /\ \A q : Counted(q)' = Counted(q) /\ LedgerValue(q)' = LedgerValue(q)
                   /\ (Deserves(q)' <=> Deserves(q)) /\ Derived(q)' = Derived(q)
         /\ \A q, E : Fits(q, E) => Fits(q, E)'
         /\ \A q : Right(q) => Right(q)'
  BY DEF ledger, derived, people, Counted, EntriesOf, LedgerValue, RunsOf, Deserves, Qualified,
         Derived, Fits, Right

LEMMA FreshStep ==
  ASSUME TypeInv, NEW r \in Requests, Step(r), Fresh(r)
  PROVE  Fresh(r)'
<1>a. TypeOK /\ Ready(r) /\ mem[r] \in Locals
  BY DEF TypeInv, TypeOK
<1>0. PICK p : p = mem[r].player
  OBVIOUS
<1>1. CASE pc'[r] \notin Reading
  BY <1>1 DEF Fresh, Reading
<1>2. CASE ReadLedger(r)
  <2> DEFINE v == LedgerValue(p)
  <2>1. UNCHANGED <<ledger, derived, people>>
    BY <1>2 DEF ReadLedger
  <2>2. CASE Counted(p) = {}
    <3>1. pc'[r] = "drop" /\ mem'[r] = mem[r]
      BY <1>a, <1>0, <1>2, <2>2 DEF ReadLedger, Goto, TypeOK
    <3> QED
      BY <1>0, <2>1, <2>2, <3>1, TablesSay DEF Fresh
  <2>3. CASE Counted(p) # {}
    <3>1. pc'[r] = "eligible" /\ mem' = [mem EXCEPT ![r].agg = v]
      BY <1>a, <1>0, <1>2, <2>3 DEF ReadLedger, Goto, TypeOK
    <3>2. mem'[r] = [mem[r] EXCEPT !.agg = v]
      BY <1>a, <3>1 DEF TypeOK
    <3> HIDE DEF v
    <3>3. mem'[r].agg = v /\ mem'[r].player = mem[r].player
      BY <1>a, <3>2 DEF Locals
    <3> QED
      BY <1>0, <2>1, <2>3, <3>1, <3>3, TablesSay DEF Fresh, v
  <2> QED
    BY <2>2, <2>3
<1>3. CASE ReadStatus(r)
  <2> DEFINE x == status[p] # "banned" /\ Bar = Nil
  <2>1. UNCHANGED <<ledger, derived, people>> /\ pc[r] = "eligible"
    BY <1>3 DEF ReadStatus
  <2>2. pc'[r] = IF status[p] = "banned" \/ Bar = Nil THEN "write" ELSE "qualified"
    BY <1>a, <1>0, <1>3 DEF ReadStatus, Goto, TypeOK
  <2>3. mem'[r] = [mem[r] EXCEPT !.eligible = x]
    BY <1>a, <1>0, <1>3 DEF ReadStatus, TypeOK
  <2>4. x \in BOOLEAN /\ (pc'[r] = "write" => x = Deserves(p))
    BY <2>2 DEF Deserves, Qualified
  <2>5. pc'[r] = "qualified" => status'[p] # "banned" /\ Bar # Nil
    BY <2>1, <2>2 DEF people
  <2> HIDE DEF x
  <2>6. mem'[r].eligible = x /\ mem'[r].agg = mem[r].agg /\ mem'[r].player = mem[r].player
    BY <1>a, <2>3 DEF Locals
  <2>7. Counted(p)' = Counted(p) /\ LedgerValue(p)' = LedgerValue(p) /\ (Deserves(p)' <=> Deserves(p))
    BY <2>1, TablesSay
  <2>8. pc'[r] \in {"write", "qualified"} /\ Deserves(p) \in BOOLEAN /\ Deserves(p)' \in BOOLEAN
    BY <2>2 DEF Deserves
  <2> QED
    BY <1>0, <2>1, <2>4, <2>5, <2>6, <2>7, <2>8 DEF Fresh
<1>4. CASE ReadQualified(r)
  <2> DEFINE x == quals[p] # Nil
  <2>1. UNCHANGED <<ledger, derived, people>> /\ pc[r] = "qualified" /\ pc'[r] = "write"
    BY <1>a, <1>4 DEF ReadQualified, Goto, TypeOK
  <2>3. mem'[r] = [mem[r] EXCEPT !.eligible = x]
    BY <1>a, <1>0, <1>4 DEF ReadQualified, TypeOK
  <2>2. status[p] # "banned" /\ Bar # Nil
    BY <1>0, <2>1 DEF Fresh
  <2>4. x \in BOOLEAN /\ x = Deserves(p)
    BY <2>2 DEF Deserves, Qualified
  <2> HIDE DEF x
  <2>6. mem'[r].eligible = x /\ mem'[r].agg = mem[r].agg /\ mem'[r].player = mem[r].player
    BY <1>a, <2>3 DEF Locals
  <2>7. Counted(p)' = Counted(p) /\ LedgerValue(p)' = LedgerValue(p) /\ (Deserves(p)' <=> Deserves(p))
    BY <2>1, TablesSay
  <2>8. Deserves(p) \in BOOLEAN /\ Deserves(p)' \in BOOLEAN
    BY DEF Deserves
  <2> QED
    BY <1>0, <2>1, <2>4, <2>6, <2>7, <2>8 DEF Fresh
<1> QED
  BY <1>1, <1>2, <1>3, <1>4, RefreshPrepared

LEMMA SerialStep ==
  ASSUME TypeInv, Serial, SerialInv, NEW r \in Requests, Step(r)
  PROVE  SerialInv'
<1>1. InFlight' \subseteq {r}
  BY OnlyOne DEF SerialInv
<1>2. Kept(r)' /\ Fresh(r)'
  BY KeptStep, FreshStep DEF SerialInv
<1>3. ASSUME NEW s \in Requests \ {r}  PROVE Kept(s)' /\ Fresh(s)'
  <2>1. pc'[s] = pc[s] /\ mem'[s] = mem[s] /\ pc'[s] \in {"idle", "done"}
    BY <1>1, OthersStay DEF InFlight, TypeInv, TypeOK
  <2> QED
    BY <2>1 DEF SerialInv, Kept, Fresh, InFlight, Sweeping, Refreshing, Deciding
<1> QED
  BY <1>1, <1>2, <1>3 DEF SerialInv, Alone

LEMMA SerialInit == Init => SerialInv
<1> SUFFICES ASSUME Init  PROVE SerialInv
  OBVIOUS
<1>1. \A r \in Requests : pc[r] = "idle" /\ mem[r].kind = "" /\ mem[r].todo = {}
  BY DEF Init, Blank
<1> QED
  BY <1>1 DEF SerialInv, Alone, Kept, Fresh, InFlight, Sweeping, Refreshing, Deciding

LEMMA SerialStutter == SerialInv /\ UNCHANGED vars => SerialInv'
<1> SUFFICES ASSUME SerialInv, UNCHANGED vars  PROVE SerialInv'
  OBVIOUS
<1>1. UNCHANGED <<ledger, derived, people>> /\ UNCHANGED <<entries, status, pc, mem>>
  BY DEF vars, ledger, derived, people
<1>2. ASSUME NEW r \in Requests  PROVE Fresh(r)'
  <2>1. PICK p : p = mem[r].player
    OBVIOUS
  <2>2. Counted(p)' = Counted(p) /\ LedgerValue(p)' = LedgerValue(p) /\ (Deserves(p)' <=> Deserves(p))
    BY <1>1, TablesSay
  <2>3. Deserves(p) \in BOOLEAN /\ Deserves(p)' \in BOOLEAN
    BY DEF Deserves
  <2>4. Fresh(r)
    BY DEF SerialInv
  <2> QED
    BY <1>1, <2>1, <2>2, <2>3, <2>4 DEF Fresh
<1> QED
  BY <1>1, <1>2 DEF SerialInv, Alone, Kept, InFlight

LEMMA Serially == Serial => (Spec => []SerialInv)
<1> SUFFICES ASSUME Serial  PROVE Spec => []SerialInv
  OBVIOUS
<1>1. TypeInv /\ SerialInv /\ [Next]_vars => SerialInv'
  BY SerialStep, SerialStutter DEF Next, Step
<1> QED
  BY <1>1, SerialInit, TypeInvariant, PTL DEF Spec

-----------------------------------------------------------------------------
(* A rebuild.                                                              *)

RebuildActs(r) ==
  \/ ClearBoard(r) \/ ReadPlayers(r) \/ NextPlayer(r)
  \/ ReadLedger(r) \/ ReadStatus(r) \/ ReadQualified(r)
  \/ Drop(r) \/ WriteStanding(r)

LEMMA RebuildGoesOn ==
  ASSUME TypeInv, NEW r \in Requests, Step(r), pc[r] \in Sweeping \cup Refreshing, pc'[r] # "done"
  PROVE  RebuildActs(r)
<1>1. ~Crash(r)
  BY Finished DEF Crash, TypeInv
<1> QED
  BY <1>1 DEF RebuildActs, Sweeping, Refreshing,
         Step, Submission, Decision, Sync, Refresh, Moderation, Residence, Rebuilding, Start,
         Submit, Lookup, ReadRegion, Insert, Hold, Enqueue, Review, Decide, Result, Verdict,
         Retry, GiveUp, ReadAggregate, ReadExam, Pass, Improve, Moderate, SetStatus, Sweep,
         Authenticate, LiftSuspension, ChooseRegion, LockRegion, Rebuild

(* What a refresh does to its locals and to the board.                     *)
LEMMA RefreshLocals ==
  ASSUME TypeInv, NEW r \in Requests, ReadLedger(r) \/ ReadStatus(r) \/ ReadQualified(r)
  PROVE  /\ UNCHANGED <<ledger, derived, people>>
         /\ pc[r] \in Refreshing /\ pc'[r] \in Refreshing
         /\ mem'[r].kind = mem[r].kind /\ mem'[r].player = mem[r].player
         /\ mem'[r].region = mem[r].region /\ mem'[r].todo = mem[r].todo
<1>a. TypeOK /\ mem[r] \in Locals
  BY DEF TypeInv, TypeOK
<1>1. /\ UNCHANGED <<ledger, derived, people>>
      /\ pc[r] \in Refreshing /\ pc'[r] \in Refreshing
  BY <1>a DEF ReadLedger, ReadStatus, ReadQualified, Goto, TypeOK, Refreshing
<1>2. \/ mem' = mem
      \/ \E x : mem' = [mem EXCEPT ![r].agg = x] \/ mem' = [mem EXCEPT ![r].eligible = x]
  BY DEF ReadLedger, ReadStatus, ReadQualified
<1>3. ASSUME NEW x, mem' = [mem EXCEPT ![r].agg = x] \/ mem' = [mem EXCEPT ![r].eligible = x]
      PROVE  /\ mem'[r].kind = mem[r].kind /\ mem'[r].player = mem[r].player
             /\ mem'[r].region = mem[r].region /\ mem'[r].todo = mem[r].todo
  <2>1. mem'[r] = [mem[r] EXCEPT !.agg = x] \/ mem'[r] = [mem[r] EXCEPT !.eligible = x]
    BY <1>a, <1>3 DEF TypeOK
  <2> QED
    BY <1>a, <2>1 DEF Locals
<1> QED
  BY <1>1, <1>2, <1>3

(* The two statements that end a refresh write the row it has read.        *)
LEMMA RefreshWrites ==
  ASSUME TypeInv, NEW r \in Requests, Fresh(r), Drop(r) \/ WriteStanding(r)
  PROVE  /\ UNCHANGED <<ledger, quals, people>>
         /\ mem[r].player \in Players
         /\ pc[r] \in Refreshing
         /\ \/ pc'[r] = "done" /\ mem[r].kind # "rebuild"
            \/ pc'[r] = "next" /\ mem[r].kind = "rebuild" /\ mem' = mem
         /\ standings' = [standings EXCEPT ![mem[r].player] =
              IF Counted(mem[r].player) = {} THEN Nil
              ELSE [value |-> LedgerValue(mem[r].player), eligible |-> Deserves(mem[r].player),
                    region |-> mem[r].region]]
<1>a. TypeOK /\ Ready(r)
  BY DEF TypeInv
<1>1. UNCHANGED <<ledger, quals, people>> /\ pc[r] \in Refreshing /\ mem[r].player \in Players
  BY <1>a DEF Drop, WriteStanding, Refreshing, Ready, HasSubject, Labels
<1>2. Return(r)
  BY DEF Drop, WriteStanding
<1>3. \/ pc'[r] = "done" /\ mem[r].kind # "rebuild"
      \/ pc'[r] = "next" /\ mem[r].kind = "rebuild" /\ mem' = mem
  BY <1>a, <1>2 DEF Return, Goto, Finish, TypeOK
<1>4. standings' = [standings EXCEPT ![mem[r].player] =
        IF Counted(mem[r].player) = {} THEN Nil
        ELSE [value |-> LedgerValue(mem[r].player), eligible |-> Deserves(mem[r].player),
              region |-> mem[r].region]]
  BY DEF Drop, WriteStanding, Fresh
<1> QED
  BY <1>1, <1>3, <1>4

LEMMA RebuiltStep ==
  ASSUME TypeInv, SerialInv, NEW r \in Requests, Step(r), ~Begins(r),
         mem[r].kind = "rebuild", Rebuilt(r), pc'[r] # "done"
  PROVE  Rebuilt(r)'
<1>a. TypeOK /\ Kept(r) /\ Fresh(r) /\ mem[r] \in Locals
  BY DEF TypeInv, TypeOK, SerialInv
<1>b. mem[r].todo \subseteq [player : Players, region : Or(Regions)]
  BY <1>a DEF Locals
<1>1. CASE ClearBoard(r)
  <2>1. /\ pc'[r] = "players" /\ mem' = mem /\ home' = home
        /\ \A q \in Players : standings'[q] = Nil
    BY <1>a, <1>1 DEF ClearBoard, Goto, TypeOK, people
  <2> QED
    BY <2>1 DEF Rebuilt, Refreshing
<1>2. CASE ReadPlayers(r)
  <2>1. /\ pc[r] = "players" /\ pc'[r] = "next"
        /\ mem'[r].todo =
             {[player |-> p, region |-> home[p]] : p \in {q \in Players : Counted(q) # {}}}
    BY <1>2, RebuildLocals
  <2>2. UNCHANGED <<ledger, derived, people>> /\ UNCHANGED <<home, standings>>
    BY <1>2 DEF ReadPlayers, derived, people
  <2>3. ASSUME NEW q \in Players \ Pending(r)'  PROVE (standings[q] = Derived(q))'
    <3>1. Counted(q) = {}
      <4>1. ASSUME Counted(q) # {}  PROVE FALSE
        <5>1. [player |-> q, region |-> home[q]] \in mem'[r].todo
          BY <2>1, <4>1
        <5>2. [player |-> q, region |-> home[q]].player \in Pending(r)'
          BY <5>1 DEF Pending
        <5> QED
          BY <5>2
      <4> QED
        BY <4>1
    <3>2. standings[q] = Nil /\ Derived(q) = Nil
      BY <2>1, <3>1 DEF Rebuilt, Derived
    <3>3. Derived(q)' = Derived(q)
      BY <2>2, TablesSay
    <3> QED
      BY <2>2, <3>2, <3>3
  <2>4. \A t \in mem'[r].todo : t.region = home'[t.player]
    BY <2>1, <2>2
  <2> QED
    BY <2>1, <2>3, <2>4 DEF Rebuilt, Refreshing
<1>3. CASE NextPlayer(r)
  <2>1. PICK t \in mem[r].todo :
          /\ mem'[r].player = t.player /\ mem'[r].region = t.region
          /\ mem'[r].todo = mem[r].todo \ {t}
    BY <1>3, RebuildLocals
  <2>2. pc[r] = "next" /\ pc'[r] = "ledger"
    BY <1>3, RebuildLocals
  <2>3. UNCHANGED <<ledger, derived, people>> /\ UNCHANGED <<home, standings>>
    BY <1>3 DEF NextPlayer, derived, people
  <2>4. ASSUME NEW q \in Players \ (Pending(r)' \cup {t.player})
        PROVE  (standings[q] = Derived(q))'
    <3>1. q \notin Pending(r)
      BY <2>1 DEF Pending
    <3>2. standings[q] = Derived(q)
      BY <2>2, <3>1 DEF Rebuilt
    <3>3. Derived(q)' = Derived(q)
      BY <2>3, TablesSay
    <3> QED
      BY <2>3, <3>2, <3>3
  <2>5. t.region = home'[t.player] /\ \A u \in mem'[r].todo : u.region = home'[u.player]
    BY <2>1, <2>3 DEF Rebuilt
  <2> QED
    BY <2>1, <2>2, <2>4, <2>5 DEF Rebuilt, Refreshing
<1>4. CASE ReadLedger(r) \/ ReadStatus(r) \/ ReadQualified(r)
  <2>1. /\ UNCHANGED <<ledger, derived, people>>
        /\ pc[r] \in Refreshing /\ pc'[r] \in Refreshing
        /\ mem'[r].player = mem[r].player
        /\ mem'[r].region = mem[r].region /\ mem'[r].todo = mem[r].todo
    BY <1>4, RefreshLocals
  <2>2. UNCHANGED <<home, standings>> /\ Pending(r)' = Pending(r)
    BY <2>1 DEF derived, people, Pending
  <2>3. \A q : Derived(q)' = Derived(q)
    BY <2>1, TablesSay
  <2> QED
    BY <2>1, <2>2, <2>3 DEF Rebuilt, Refreshing
<1>5. CASE Drop(r) \/ WriteStanding(r)
  <2>0. PICK p : p = mem[r].player
    OBVIOUS
  <2>1. /\ UNCHANGED <<ledger, quals, people>> /\ home' = home
        /\ p \in Players /\ pc[r] \in Refreshing
        /\ pc'[r] = "next" /\ mem' = mem
        /\ standings' = [standings EXCEPT ![p] =
             IF Counted(p) = {} THEN Nil
             ELSE [value |-> LedgerValue(p), eligible |-> Deserves(p), region |-> mem[r].region]]
    BY <1>a, <1>5, <2>0, RefreshWrites DEF people
  <2>2. standings'[p] = Derived(p)
    BY <1>a, <2>0, <2>1 DEF Rebuilt, Derived, TypeOK
  <2>3. \A q : Derived(q)' = Derived(q)
    BY <2>1 DEF ledger, people, Derived, Counted, EntriesOf, LedgerValue, RunsOf, Deserves, Qualified
  <2>4. ASSUME NEW q \in Players \ Pending(r), q # p
        PROVE  standings'[q] = Derived(q)
    BY <1>a, <2>0, <2>1, <2>4 DEF Rebuilt, TypeOK
  <2>5. \A q \in Players \ Pending(r)' : (standings[q] = Derived(q))'
    BY <2>1, <2>2, <2>3, <2>4 DEF Pending
  <2> QED
    BY <2>1, <2>5 DEF Rebuilt, Refreshing
<1>6. RebuildActs(r)
  BY <1>a, RebuildGoesOn DEF Kept
<1> QED
  BY <1>1, <1>2, <1>3, <1>4, <1>5, <1>6 DEF RebuildActs

LEMMA RebuildStep ==
  ASSUME TypeInv, Serial, SerialInv, RebuildInv, NEW r \in Requests, Step(r)
  PROVE  RebuildInv'
<1>1. InFlight' \subseteq {r}
  BY OnlyOne DEF SerialInv
<1>2. ASSUME NEW s \in Requests \ {r}, mem'[s].kind = "rebuild"  PROVE FALSE
  <2>1. pc'[s] \in {"idle", "done"} /\ pc'[s] = pc[s] /\ mem'[s] = mem[s]
    BY <1>1, OthersStay DEF InFlight, TypeInv, TypeOK
  <2>2. Kept(s)
    BY DEF SerialInv
  <2> QED
    BY <1>2, <2>1, <2>2 DEF Kept, Sweeping, Refreshing
<1>3. ASSUME mem'[r].kind = "rebuild"  PROVE Rebuilt(r)'
  <2>1. CASE Begins(r)
    <3>1. pc'[r] = "clear" /\ mem'[r].todo = {}
      BY <1>3, <2>1, Begun DEF Opening
    <3> QED
      BY <3>1 DEF Rebuilt, Refreshing
  <2>2. CASE ~Begins(r)
    <3>1. pc'[r] # "done"
      <4>1. Blank.kind # "rebuild"
        BY DEF Blank
      <4> QED
        BY <1>3, <4>1, Ended, Finished DEF TypeInv
    <3>2. mem[r].kind = "rebuild"
      BY <1>3, <2>2, <3>1, OnwardOrEnd, RebuildLocals DEF Onward
    <3> QED
      BY <2>2, <3>1, <3>2, RebuiltStep DEF RebuildInv
  <2> QED
    BY <2>1, <2>2
<1> QED
  BY <1>2, <1>3 DEF RebuildInv

(* When the last player has been visited every row is the derived one.     *)
LEMMA RebuildEnds ==
  ASSUME TypeInv, Serial, SerialInv, RebuildInv, NEW r \in Requests, Step(r),
         mem[r].kind = "rebuild", pc'[r] = "done"
  PROVE  UNCHANGED <<ledger, derived, people>> /\ \A q \in Players : standings[q] = Derived(q)
<1>1. Kept(r) /\ Fresh(r) /\ Rebuilt(r) /\ pc[r] \in Sweeping \cup Refreshing
  BY DEF SerialInv, RebuildInv, Kept
<1>2. NextPlayer(r)
  <2>1. ~(Drop(r) \/ WriteStanding(r))
    BY <1>1, RefreshWrites
  <2>2. ~(ReadLedger(r) \/ ReadStatus(r) \/ ReadQualified(r))
    BY RefreshLocals DEF Refreshing
  <2>3. ~ClearBoard(r) /\ ~ReadPlayers(r)
    BY DEF ClearBoard, ReadPlayers, Goto, TypeInv, TypeOK
  <2>4. RebuildActs(r)
    BY <1>1 DEF RebuildActs, Sweeping, Refreshing, Serial,
         Step, Submission, Decision, Sync, Refresh, Moderation, Residence, Rebuilding, Start,
         Submit, Lookup, ReadRegion, Insert, Hold, Enqueue, Review, Decide, Result, Verdict,
         Retry, GiveUp, ReadAggregate, ReadExam, Pass, Improve, Moderate, SetStatus, Sweep,
         Authenticate, LiftSuspension, ChooseRegion, LockRegion, Rebuild, Crash
  <2> QED
    BY <2>1, <2>2, <2>3, <2>4 DEF RebuildActs
<1>3. pc[r] = "next" /\ mem[r].todo = {}
  BY <1>2, RebuildLocals
<1>4. Pending(r) = {}
  BY <1>3 DEF Pending
<1> QED
  BY <1>1, <1>2, <1>3, <1>4 DEF NextPlayer, Rebuilt

LEMMA Rebuilds == Serial => (Spec => []RebuildInv)
<1> SUFFICES ASSUME Serial  PROVE Spec => []RebuildInv
  OBVIOUS
<1>1. Init => RebuildInv
  <2>1. Blank.kind # "rebuild"
    BY DEF Blank
  <2> QED
    BY <2>1 DEF Init, RebuildInv
<1>2. RebuildInv /\ UNCHANGED vars => RebuildInv'
  <2> SUFFICES ASSUME RebuildInv, UNCHANGED vars  PROVE RebuildInv'
    OBVIOUS
  <2>1. UNCHANGED <<ledger, derived, people>> /\ UNCHANGED <<standings, home, pc, mem>>
    BY DEF vars, ledger, derived, people
  <2>2. \A q : Derived(q)' = Derived(q)
    BY <2>1, TablesSay
  <2> QED
    BY <2>1, <2>2 DEF RebuildInv, Rebuilt, Pending
<1>3. TypeInv /\ SerialInv /\ RebuildInv /\ [Next]_vars => RebuildInv'
  BY <1>2, RebuildStep DEF Next, Step
<1>4. Spec => []SerialInv
  BY Serially
<1> QED
  BY <1>1, <1>3, <1>4, TypeInvariant, PTL DEF Spec

(* A rebuild that runs alone leaves every row as the ledger, the exams,    *)
(* the moderation and the home regions make it: it visits every player     *)
(* with a counted run, and the others have no row.                         *)
THEOREM RebuildRestores ==
  ASSUME MaxInFlight = 1, "crash" \notin Kinds
  PROVE  Spec => RebuildRestoresTheBoard
<1>1. Serial
  BY DEF Serial
<1>2. Spec => []SerialInv /\ []RebuildInv
  BY <1>1, Serially, Rebuilds
<1>3. ASSUME TypeInv, SerialInv, RebuildInv, NEW s \in Requests, Step(s),
             NEW r \in Requests, pc[r] = "next", pc'[r] = "done"
      PROVE  \A p \in Players : standings[p] = Derived(p)
  <2>1. r = s
    BY <1>3, OthersStay
  <2>2. mem[r].kind = "rebuild"
    BY <1>3 DEF SerialInv, Kept, Sweeping
  <2> QED
    BY <1>1, <1>3, <2>1, <2>2, RebuildEnds
<1>4. TypeInv /\ SerialInv /\ RebuildInv /\ [Next]_vars =>
        [\A r \in Requests :
           pc[r] = "next" /\ pc'[r] = "done" => \A p \in Players : standings[p] = Derived(p)]_vars
  BY <1>3 DEF Next, Step
<1> QED
  BY <1>2, <1>4, TypeInvariant, PTL DEF Spec, RebuildRestoresTheBoard

-----------------------------------------------------------------------------
(* The board between calls.  First, what a statement on one entry does to  *)
(* the counted runs of a player.                                           *)

LEMMA OtherRuns ==
  ASSUME NEW e, NEW q, \A x \in Requests \ {e} : entries'[x] = entries[x],
         entries[e] = Nil \/ entries[e].player # q, entries'[e] = Nil \/ entries'[e].player # q
  PROVE  \A E : E = Counted(q) => Counted(q)' = E /\ RunsOf(E)' = RunsOf(E)
<1> SUFFICES ASSUME NEW E, E = Counted(q)  PROVE Counted(q)' = E /\ RunsOf(E)' = RunsOf(E)
  OBVIOUS
<1>1. \A x \in E : x \in Requests \ {e}
  BY DEF Counted, EntriesOf
<1>2. Counted(q)' = E
  BY DEF Counted, EntriesOf
<1>3. RunsOf(E)' = RunsOf(E)
  BY <1>1 DEF RunsOf
<1> QED
  BY <1>2, <1>3

LEMMA AllButOneRun ==
  ASSUME NEW e, NEW q, \A x \in Requests \ {e} : entries'[x] = entries[x]
  PROVE  \A E : E = Counted(q) \ {e} => Counted(q)' \ {e} = E /\ RunsOf(E)' = RunsOf(E)
<1> SUFFICES ASSUME NEW E, E = Counted(q) \ {e}
             PROVE  Counted(q)' \ {e} = E /\ RunsOf(E)' = RunsOf(E)
  OBVIOUS
<1>1. \A x \in E : x \in Requests \ {e}
  BY DEF Counted, EntriesOf
<1>2. Counted(q)' \ {e} = E
  BY DEF Counted, EntriesOf
<1>3. RunsOf(E)' = RunsOf(E)
  BY <1>1 DEF RunsOf
<1> QED
  BY <1>2, <1>3

LEMMA HeldRuns ==
  ASSUME NEW e, NEW q, \A x \in Requests \ {e} : entries'[x] = entries[x],
         entries'[e].status # "counted"
  PROVE  \A E : E = Counted(q) \ {e} => Counted(q)' = E /\ RunsOf(E)' = RunsOf(E)
<1>1. e \notin Counted(q)'
  BY DEF Counted, EntriesOf
<1> QED
  BY <1>1, AllButOneRun

LEMMA FitsStays ==
  ASSUME NEW q, NEW E, Fits(q, E), standings'[q] = standings[q],
         Deserves(q)' <=> Deserves(q), RunsOf(E)' = RunsOf(E)
  PROVE  Fits(q, E)'
<1>1. Deserves(q)' \in BOOLEAN /\ Deserves(q) \in BOOLEAN
  BY DEF Deserves
<1>2. Deserves(q)' = Deserves(q)
  BY <1>1
<1> QED
  BY <1>2 DEF Fits

LEMMA RightStays ==
  ASSUME NEW q, NEW E, Fits(q, E), standings'[q] = standings[q],
         Deserves(q)' <=> Deserves(q), Counted(q)' = E, RunsOf(E)' = RunsOf(E)
  PROVE  Right(q)'
<1>1. Fits(q, E)'
  BY FitsStays
<1> QED
  BY <1>1 DEF Fits, Right

LEMMA SameRuns ==
  ASSUME entries' = entries, NEW q
  PROVE  \A E : E = Counted(q) => Counted(q)' = E /\ RunsOf(E)' = RunsOf(E)
  BY DEF Counted, EntriesOf, RunsOf

(* The row of a player whose runs, row and standing a step leaves alone.   *)
LEMMA RightAsBefore ==
  ASSUME NEW q, Right(q), standings'[q] = standings[q], Deserves(q)' <=> Deserves(q),
         \A E : E = Counted(q) => Counted(q)' = E /\ RunsOf(E)' = RunsOf(E)
  PROVE  Right(q)'
<1>1. PICK E : E = Counted(q)
  OBVIOUS
<1> QED
  BY <1>1, RightStays DEF Right

LEMMA SameDeserts ==
  ASSUME NEW q, status'[q] = status[q], quals'[q] = quals[q]
  PROVE  Deserves(q)' <=> Deserves(q)
  BY DEF Deserves, Qualified

LEMMA EntryAssigned ==
  ASSUME TypeOK, NEW e \in Requests, entries[e] # Nil, NEW s,
         entries' = [entries EXCEPT ![e].status = s]
  PROVE  /\ \A x \in Requests \ {e} : entries'[x] = entries[x]
         /\ entries'[e].status = s /\ entries'[e].player = entries[e].player
<1>1. entries[e] \in Entry
  BY DEF TypeOK
<1>2. entries'[e] = [entries[e] EXCEPT !.status = s]
  BY DEF TypeOK
<1> QED
  BY <1>1, <1>2 DEF Entry, TypeOK

-----------------------------------------------------------------------------
(* One lemma for each group of statements of a call that is not a rebuild. *)

Caught(r) == IF pc'[r] = "done" THEN \A q \in Players : Right(q)' ELSE Stage(r)'

LEMMA SubmissionStage ==
  ASSUME TypeInv, Orderly, NEW r \in Requests, r \in InFlight, Kept(r), Stage(r),
         Lookup(r) \/ ReadRegion(r) \/ Insert(r) \/ Hold(r) \/ Enqueue(r)
  PROVE  Caught(r)
<1>a. TypeOK /\ Ready(r) /\ mem[r] \in Locals
  BY DEF TypeInv, TypeOK
<1>b. UNCHANGED <<standings, quals, status>>
  BY DEF Lookup, ReadRegion, Insert, Hold, Enqueue, derived, people
<1>c. \A q : Deserves(q)' <=> Deserves(q)
  BY <1>b, SameDeserts
<1>d. ASSUME entries' = entries, \A q \in Players : Right(q)
      PROVE  \A q \in Players : Right(q)'
  BY <1>b, <1>c, <1>d, SameRuns, RightAsBefore
<1>1. CASE Lookup(r) \/ ReadRegion(r)
  <2>1. entries' = entries /\ pc[r] \in Calm
    BY <1>1 DEF Lookup, ReadRegion, ledger, Calm
  <2>2. pc'[r] \in {"region", "insert", "done"}
    BY <1>a, <1>1 DEF Lookup, ReadRegion, Goto, Finish, TypeOK
  <2>3. \A q \in Players : Right(q)'
    BY <1>d, <2>1 DEF Stage
  <2> QED
    BY <2>2, <2>3 DEF Caught, Stage, Calm, Syncing, Refreshing, Deciding
<1>2. CASE Insert(r) /\ entries' = entries
  <2>1. pc[r] = "insert" /\ entries[r] = Nil
    BY <1>a, <1>2 DEF Insert, Ready, BeforeRow
  <2>2. Finish(r)
    <3>1. entries' # [entries EXCEPT ![r] =
             [player |-> mem[r].player, value |-> mem[r].value, day |-> mem[r].day,
              key |-> mem[r].key, region |-> mem[r].region,
              status |-> IF Suspicious(mem[r].value) THEN "review" ELSE "counted"]]
      <4> DEFINE row == [player |-> mem[r].player, value |-> mem[r].value, day |-> mem[r].day,
                         key |-> mem[r].key, region |-> mem[r].region,
                         status |-> IF Suspicious(mem[r].value) THEN "review" ELSE "counted"]
      <4>1. row \in Entry
        BY <1>a, <2>1 DEF Ready, HasSubject, Labels, Entry, Locals
      <4> HIDE DEF row
      <4>2. [entries EXCEPT ![r] = row][r] # Nil
        BY <1>a, <4>1, NilAssumption DEF TypeOK
      <4> QED
        BY <1>2, <2>1, <4>2 DEF row
    <3> QED
      BY <1>2, <3>1 DEF Insert
  <2>3. pc'[r] = "done"
    BY <1>a, <2>2, Finished
  <2> QED
    BY <1>d, <1>2, <2>1, <2>3 DEF Stage, Caught, Calm
<1>3. CASE Insert(r) /\ entries' # entries
  <2> DEFINE p   == mem[r].player
             row == [player |-> mem[r].player, value |-> mem[r].value, day |-> mem[r].day,
                     key |-> mem[r].key, region |-> mem[r].region,
                     status |-> IF Suspicious(mem[r].value) THEN "review" ELSE "counted"]
  <2>1. pc[r] = "insert" /\ entries[r] = Nil
    BY <1>a, <1>3 DEF Insert, Ready, BeforeRow
  <2>2. entries' = [entries EXCEPT ![r] = row]
    BY <1>3 DEF Insert
  <2>3. /\ \A x \in Requests \ {r} : entries'[x] = entries[x]
        /\ entries'[r].player = p
        /\ entries'[r].status = IF Suspicious(mem[r].value) THEN "review" ELSE "counted"
    <3>1. entries'[r] = row /\ \A x \in Requests \ {r} : entries'[x] = entries[x]
      BY <1>a, <2>2 DEF TypeOK
    <3> QED
      BY <3>1
  <2> HIDE DEF row
  <2>4. \A q \in Players : Right(q)
    BY <2>1 DEF Stage, Calm
  <2>5. \A q : Counted(q) \ {r} = Counted(q)
    BY <2>1 DEF Counted, EntriesOf
  <2>6. CASE Suspicious(mem[r].value)
    <3>1. pc'[r] = "done"
      BY <1>a, <1>3, <2>6, Finished DEF Insert
    <3>2. ASSUME NEW q \in Players  PROVE Right(q)'
      <4>1. PICK E : E = Counted(q)
        OBVIOUS
      <4>2. Counted(q)' = E /\ RunsOf(E)' = RunsOf(E)
        BY <2>3, <2>5, <2>6, <4>1, HeldRuns
      <4> QED
        BY <1>b, <1>c, <2>4, <4>1, <4>2, RightStays DEF Right
    <3> QED
      BY <3>1, <3>2 DEF Caught
  <2>7. CASE ~Suspicious(mem[r].value) /\ HasModule
    <3>1. mem[r].kind # "submit_untraced"
      BY <2>7 DEF Kept, Orderly
    <3>2. pc'[r] = "hold"
      BY <1>a, <1>3, <2>7, <3>1 DEF Insert, Goto, TypeOK
    <3>3. ASSUME NEW q \in Players  PROVE Fits(q, Counted(q) \ {r})'
      <4>1. PICK E : E = Counted(q)
        OBVIOUS
      <4>2. Counted(q)' \ {r} = E /\ RunsOf(E)' = RunsOf(E)
        BY <2>3, <2>5, <4>1, AllButOneRun
      <4>3. Fits(q, E)'
        BY <1>b, <1>c, <2>4, <4>1, <4>2, FitsStays DEF Right
      <4> QED
        BY <4>2, <4>3 DEF Fits
    <3> QED
      BY <3>2, <3>3 DEF Caught, Stage, Calm, Syncing, Refreshing, Deciding
  <2>8. CASE ~Suspicious(mem[r].value) /\ ~HasModule
    <3>1. Goto(r, "aggregate") /\ UNCHANGED mem
      <4>1. ~(\E e \in Conflicts(mem[r].player, mem[r].key) :
                Tell(r, e) /\ Finish(r) /\ UNCHANGED entries)
        BY <1>3
      <4> QED
        BY <1>3, <2>8, <4>1 DEF Insert
    <3>2. pc'[r] = "aggregate" /\ mem'[r] = mem[r]
      BY <1>a, <3>1, Stepped DEF Labels
    <3>3. ASSUME NEW q \in Players, q # mem[r].player  PROVE Right(q)'
      BY <1>b, <1>c, <2>1, <2>3, <2>4, <3>3, OtherRuns, RightAsBefore
    <3> QED
      BY <3>2, <3>3 DEF Caught, Stage, Calm, Syncing, Refreshing, Deciding
  <2> QED
    BY <2>6, <2>7, <2>8
<1>4. CASE Hold(r)
  <2>1. pc[r] = "hold" /\ entries[r] # Nil
    BY <1>a, <1>4 DEF Hold, Ready
  <2>2. pc'[r] = "enqueue"
    BY <1>a, <1>4 DEF Hold, Goto, TypeOK
  <2>3. /\ \A x \in Requests \ {r} : entries'[x] = entries[x]
        /\ entries'[r].status = "review"
    BY <1>a, <1>4, <2>1, EntryAssigned DEF Hold
  <2>4. ASSUME NEW q \in Players  PROVE Right(q)'
    <3>1. PICK E : E = Counted(q) \ {r}
      OBVIOUS
    <3>2. Counted(q)' = E /\ RunsOf(E)' = RunsOf(E)
      BY <2>3, <3>1, HeldRuns
    <3> QED
      BY <1>b, <1>c, <2>1, <3>1, <3>2, RightStays DEF Stage
  <2> QED
    BY <2>2, <2>3, <2>4 DEF Caught, Stage, Calm, Syncing, Refreshing, Deciding
<1>5. CASE Enqueue(r)
  <2>1. pc[r] \in Calm /\ entries' = entries
    BY <1>5 DEF Enqueue, Calm
  <2>2. pc'[r] = "done"
    BY <1>a, <1>5, Finished DEF Enqueue
  <2> QED
    BY <1>d, <2>1, <2>2 DEF Stage, Caught
<1> QED
  BY <1>1, <1>2, <1>3, <1>4, <1>5

LEMMA DecisionStage ==
  ASSUME TypeInv, Orderly, NEW r \in Requests, Kept(r), Stage(r),
         Decide(r) \/ Verdict(r) \/ Retry(r) \/ GiveUp(r)
  PROVE  Caught(r)
<1>a. TypeOK /\ Ready(r) /\ mem[r] \in Locals
  BY DEF TypeInv, TypeOK
<1>b. UNCHANGED <<standings, quals, status>>
  BY DEF Decide, Verdict, Retry, GiveUp, derived, people
<1>c. \A q : Deserves(q)' <=> Deserves(q)
  BY <1>b, SameDeserts
<1>d. \A q \in Players : Right(q)
  BY DEF Stage, Calm, Decide, Verdict, Retry, GiveUp
<1>1. CASE Decide(r) \/ Verdict(r)
  <2>1. pc[r] \in {"decide", "verdict"}
    BY <1>1 DEF Decide, Verdict
  <2>2. mem[r].entry \in Requests /\ entries[mem[r].entry] # Nil
    BY <1>a, <2>1 DEF Ready
  <2>3. entries[mem[r].entry].player = mem[r].player
    BY <2>1 DEF Kept, Deciding
  <2>4. pc'[r] = "aggregate" /\ mem'[r] = mem[r]
    BY <1>a, <1>1, Stepped DEF Decide, Verdict, Labels
  <2>5. entries' = [entries EXCEPT ![mem[r].entry].status = mem[r].to]
    BY <1>1 DEF Decide, Verdict
  <2>6. /\ \A x \in Requests \ {mem[r].entry} : entries'[x] = entries[x]
        /\ entries'[mem[r].entry].player = mem[r].player
    BY <1>a, <2>2, <2>3, <2>5, EntryAssigned
  <2>7. ASSUME NEW q \in Players, q # mem[r].player  PROVE Right(q)'
    BY <1>b, <1>c, <1>d, <2>3, <2>6, <2>7, OtherRuns, RightAsBefore
  <2> QED
    BY <2>4, <2>7 DEF Caught, Stage, Calm, Syncing, Refreshing, Deciding
<1>2. CASE Retry(r)
  <2>1. entries' = entries /\ pc[r] = "retry"
    BY <1>2 DEF Retry
  <2>2. \/ pc'[r] = "done"
        \/ pc'[r] = "giveup" /\ mem'[r] = mem[r]
    <3>1. CASE mem[r].to = "giveup"
      BY <1>a, <1>2, <3>1, Stepped DEF Retry, Labels
    <3>2. CASE mem[r].to # "giveup"
      <4>1. Finish(r)
        BY <1>2, <3>2 DEF Retry
      <4> QED
        BY <1>a, <4>1, Finished
    <3> QED
      BY <3>1, <3>2
  <2>3. \A q \in Players : Right(q)'
    BY <1>b, <1>c, <1>d, <2>1, SameRuns, RightAsBefore
  <2>4. entries[mem[r].entry].status = "review"
    BY <2>1 DEF Stage, Deciding
  <2> QED
    BY <2>1, <2>2, <2>3, <2>4 DEF Caught, Stage, Calm, Syncing, Refreshing, Deciding
<1>3. CASE GiveUp(r)
  <2>1. pc[r] = "giveup" /\ mem[r].entry \in Requests /\ entries[mem[r].entry] # Nil
    BY <1>a, <1>3 DEF GiveUp, Ready
  <2>2. pc'[r] = "done"
    BY <1>a, <1>3, Finished DEF GiveUp
  <2>3. entries[mem[r].entry].status = "review"
    BY <2>1 DEF Stage, Deciding
  <2>4. /\ \A x \in Requests \ {mem[r].entry} : entries'[x] = entries[x]
        /\ entries'[mem[r].entry].status = "review"
    BY <1>a, <1>3, <2>1, EntryAssigned DEF GiveUp
  <2>5. ASSUME NEW q \in Players  PROVE Right(q)'
    <3>1. PICK E : E = Counted(q)
      OBVIOUS
    <3>2. Counted(q) \ {mem[r].entry} = Counted(q)
      BY <2>3 DEF Counted, EntriesOf
    <3>3. Counted(q)' = E /\ RunsOf(E)' = RunsOf(E)
      BY <2>4, <3>1, <3>2, HeldRuns
    <3> QED
      BY <1>b, <1>c, <1>d, <3>1, <3>3, RightStays DEF Right
  <2> QED
    BY <2>2, <2>5 DEF Caught
<1> QED
  BY <1>1, <1>2, <1>3

LEMMA SyncStage ==
  ASSUME TypeInv, NEW r \in Requests, Stage(r),
         \/ ReadAggregate(r) \/ ReadExam(r) \/ Pass(r) \/ Improve(r)
         \/ ReadLedger(r) \/ ReadStatus(r) \/ ReadQualified(r)
  PROVE  Caught(r)
<1>a. TypeOK /\ Ready(r) /\ mem[r] \in Locals
  BY DEF TypeInv, TypeOK
<1>1. /\ UNCHANGED <<entries, standings, status>>
      /\ pc[r] \in Syncing \cup Refreshing /\ pc'[r] \in Syncing \cup Refreshing
  BY <1>a DEF ReadAggregate, ReadExam, Pass, Improve, ReadLedger, ReadStatus, ReadQualified,
              Goto, TypeOK, ledger, derived, people, Syncing, Refreshing
<1>2. mem'[r].player = mem[r].player
  <2>1. \/ mem' = mem
        \/ \E x : \/ mem' = [mem EXCEPT ![r].agg = x] \/ mem' = [mem EXCEPT ![r].exam = x]
                  \/ mem' = [mem EXCEPT ![r].eligible = x]
    BY DEF ReadAggregate, ReadExam, Pass, Improve, ReadLedger, ReadStatus, ReadQualified
  <2>2. ASSUME NEW x, \/ mem' = [mem EXCEPT ![r].agg = x] \/ mem' = [mem EXCEPT ![r].exam = x]
                      \/ mem' = [mem EXCEPT ![r].eligible = x]
        PROVE  mem'[r].player = mem[r].player
    <3>1. \/ mem'[r] = [mem[r] EXCEPT !.agg = x] \/ mem'[r] = [mem[r] EXCEPT !.exam = x]
          \/ mem'[r] = [mem[r] EXCEPT !.eligible = x]
      BY <1>a, <2>2 DEF TypeOK
    <3> QED
      BY <1>a, <3>1 DEF Locals
  <2> QED
    BY <2>1, <2>2
<1>3. ASSUME NEW q \in Players, q # mem[r].player  PROVE quals'[q] = quals[q]
  BY <1>a, <1>3 DEF ReadAggregate, ReadExam, Pass, Improve, ReadLedger, ReadStatus, ReadQualified,
                    TypeOK, derived
<1>4. ASSUME NEW q \in Players, q # mem[r].player  PROVE Right(q)'
  <2>1. Right(q)
    BY <1>1, <1>4 DEF Stage
  <2>2. Deserves(q)' <=> Deserves(q)
    BY <1>1, <1>3, <1>4, SameDeserts
  <2> QED
    BY <1>1, <2>1, <2>2, SameRuns, RightAsBefore
<1> QED
  BY <1>1, <1>2, <1>4 DEF Caught, Stage, Calm, Syncing, Refreshing, Deciding

(* The row a refresh writes is right, and the others are what they were.   *)
LEMMA RefreshStage ==
  ASSUME TypeInv, NEW r \in Requests, Stage(r), Fresh(r), Drop(r) \/ WriteStanding(r),
         mem[r].kind # "rebuild"
  PROVE  Caught(r)
<1>a. TypeOK /\ Ready(r)
  BY DEF TypeInv
<1>0. PICK p : p = mem[r].player
  OBVIOUS
<1>1. /\ UNCHANGED <<ledger, quals, people>> /\ UNCHANGED <<entries, status>>
      /\ p \in Players /\ pc[r] \in Refreshing /\ pc'[r] = "done"
      /\ standings' = [standings EXCEPT ![p] =
           IF Counted(p) = {} THEN Nil
           ELSE [value |-> LedgerValue(p), eligible |-> Deserves(p), region |-> mem[r].region]]
  BY <1>0, RefreshWrites DEF ledger, people
<1>2. \A q : Deserves(q)' <=> Deserves(q)
  BY <1>1, SameDeserts
<1>3. ASSUME NEW q \in Players, q # p  PROVE Right(q)'
  <2>1. Right(q)
    BY <1>0, <1>1, <1>3 DEF Stage
  <2>2. standings'[q] = standings[q]
    BY <1>a, <1>1, <1>3 DEF TypeOK
  <2> QED
    BY <1>1, <1>2, <2>1, <2>2, SameRuns, RightAsBefore
<1>4. Right(p)'
  <2>0. PICK E : E = Counted(p)
    OBVIOUS
  <2>1. Counted(p)' = E /\ RunsOf(E)' = RunsOf(E)
    BY <1>1, <2>0, SameRuns
  <2>2. standings'[p] = IF E = {} THEN Nil
                        ELSE [value |-> LedgerValue(p), eligible |-> Deserves(p),
                              region |-> mem[r].region]
    BY <1>a, <1>1, <2>0 DEF TypeOK
  <2>3. CASE E = {}
    BY <2>1, <2>2, <2>3 DEF Right, Fits
  <2>4. CASE E # {}
    <3>1. LedgerValue(p) \in Int /\ LedgerValue(p) = Aggregate(RunsOf(E))
      BY <1>a, <1>1, <2>0, <2>4, LedgerValueIsInt DEF LedgerValue
    <3>2. Deserves(p) \in BOOLEAN /\ Deserves(p)' \in BOOLEAN
      BY DEF Deserves
    <3>3. standings'[p] \in Standing
      <4>1. mem[r].region \in Or(Regions)
        BY <1>a DEF TypeOK, Locals
      <4> QED
        BY <2>2, <2>4, <3>1, <3>2, <4>1 DEF Standing
    <3>4. standings'[p] # Nil
      BY <3>3, NilAssumption
    <3>5. standings'[p].value = LedgerValue(p) /\ standings'[p].eligible = Deserves(p)
      BY <2>2, <2>4
    <3>6. Deserves(p)' = Deserves(p)
      BY <1>2, <3>2
    <3> QED
      BY <2>1, <2>4, <3>1, <3>4, <3>5, <3>6 DEF Right, Fits
  <2> QED
    BY <2>3, <2>4
<1> QED
  BY <1>1, <1>3, <1>4 DEF Caught

LEMMA ModerationStage ==
  ASSUME TypeInv, Orderly, NEW r \in Requests, r \in InFlight, Kept(r), Stage(r),
         SetStatus(r) \/ Sweep(r) \/ LiftSuspension(r) \/ LockRegion(r)
  PROVE  Caught(r)
<1>a. TypeOK /\ Ready(r) /\ mem[r] \in Locals
  BY DEF TypeInv, TypeOK
<1>0. PICK p : p = mem[r].player
  OBVIOUS
<1>b. entries' = entries /\ quals' = quals
  BY DEF SetStatus, Sweep, LiftSuspension, LockRegion, ledger, derived
<1>1. CASE SetStatus(r)
  <2>1. /\ pc[r] = "status" /\ mem[r].kind # "resolve" /\ p \in Players
        /\ status' = [status EXCEPT ![p] = mem[r].to] /\ standings' = standings
    BY <1>a, <1>0, <1>1 DEF SetStatus, Kept, Orderly, Ready, HasSubject, Labels, derived
  <2>2. pc'[r] = "sweep" /\ mem'[r] = mem[r]
    BY <1>a, <1>1, <2>1, Stepped DEF SetStatus, Labels
  <2>3. \A q \in Players : Right(q)
    BY <2>1 DEF Stage, Calm
  <2>4. ASSUME NEW q \in Players, q # p  PROVE Right(q)'
    <3>1. Deserves(q)' <=> Deserves(q)
      BY <1>a, <1>b, <2>1, <2>4, SameDeserts DEF TypeOK
    <3> QED
      BY <1>b, <2>1, <2>3, <3>1, SameRuns, RightAsBefore
  <2>5. /\ mem[r].to = status'[p]
        /\ standings'[p] = Nil <=> Counted(p)' = {}
        /\ standings'[p] # Nil => standings'[p].value = LedgerValue(p)'
    <3>1. Counted(p)' = Counted(p) /\ LedgerValue(p)' = LedgerValue(p)
      BY <1>b DEF LedgerValue, Counted, EntriesOf, RunsOf
    <3>2. status'[p] = mem[r].to /\ standings'[p] = standings[p]
      BY <1>a, <2>1 DEF TypeOK
    <3>3. /\ standings[p] = Nil <=> Counted(p) = {}
          /\ standings[p] # Nil => standings[p].value = LedgerValue(p)
      BY <2>1, <2>3 DEF Right, Fits, LedgerValue
    <3> QED
      BY <3>1, <3>2, <3>3
  <2> QED
    BY <1>0, <2>2, <2>4, <2>5 DEF Caught, Stage, Calm, Syncing, Refreshing, Deciding
<1>2. CASE Sweep(r)
  <2> DEFINE x == mem[r].to # "banned" /\ Qualified(p)
  <2>1. /\ pc[r] = "sweep" /\ p \in Players /\ status' = status
        /\ standings' = [standings EXCEPT ![p] =
             IF @ = Nil THEN Nil ELSE [@ EXCEPT !.eligible = x]]
    BY <1>a, <1>0, <1>2 DEF Sweep, Ready, HasSubject, Labels, people
  <2>2. pc'[r] = "done"
    BY <1>a, <1>2, Finished DEF Sweep
  <2>3. x \in BOOLEAN /\ x = Deserves(p)
    BY <1>0, <2>1 DEF Stage, Deserves
  <2> HIDE DEF x
  <2>4. \A q : Deserves(q)' <=> Deserves(q)
    BY <1>b, <2>1, SameDeserts
  <2>5. ASSUME NEW q \in Players, q # p  PROVE Right(q)'
    <3>1. standings'[q] = standings[q] /\ Right(q)
      BY <1>0, <1>a, <2>1, <2>5 DEF TypeOK, Stage
    <3> QED
      BY <1>b, <2>4, <3>1, SameRuns, RightAsBefore
  <2>6. Right(p)'
    <3>1. /\ standings[p] = Nil <=> Counted(p) = {}
          /\ standings[p] # Nil => standings[p].value = LedgerValue(p)
      BY <1>0, <2>1 DEF Stage
    <3>2. Counted(p)' = Counted(p) /\ LedgerValue(p)' = LedgerValue(p)
      BY <1>b DEF LedgerValue, Counted, EntriesOf, RunsOf
    <3>3. CASE standings[p] = Nil
      <4>1. standings'[p] = Nil
        BY <1>a, <2>1, <3>3 DEF TypeOK
      <4> QED
        BY <3>1, <3>2, <3>3, <4>1 DEF Right, Fits
    <3>4. CASE standings[p] # Nil
      <4>1. standings[p] \in Standing
        BY <1>a, <2>1, <3>4 DEF TypeOK
      <4>2. standings'[p] = [standings[p] EXCEPT !.eligible = x]
        BY <1>a, <2>1, <3>4 DEF TypeOK
      <4>3. /\ standings'[p] \in Standing
            /\ standings'[p].value = standings[p].value /\ standings'[p].eligible = x
        BY <2>3, <4>1, <4>2 DEF Standing
      <4>4. standings'[p] # Nil
        BY <4>3, NilAssumption
      <4>5. Deserves(p)' = Deserves(p)
        <5>1. Deserves(p) \in BOOLEAN /\ Deserves(p)' \in BOOLEAN
          BY DEF Deserves
        <5> QED
          BY <2>4, <5>1
      <4> QED
        BY <2>3, <3>1, <3>2, <3>4, <4>3, <4>4, <4>5 DEF Right, Fits, LedgerValue
    <3> QED
      BY <3>3, <3>4
  <2> QED
    BY <2>2, <2>5, <2>6 DEF Caught
<1>3. CASE LiftSuspension(r) \/ LockRegion(r)
  <2>1. pc[r] \in {"lift", "lock"} /\ standings' = standings
    BY <1>3 DEF LiftSuspension, LockRegion, derived
  <2>2. pc'[r] = "done"
    BY <1>a, <1>3, Finished DEF LiftSuspension, LockRegion
  <2>3. \A q \in Players : Right(q)
    BY <2>1 DEF Stage, Calm
  <2>4. ASSUME NEW q \in Players  PROVE Deserves(q)' <=> Deserves(q)
    <3>1. CASE LiftSuspension(r)
      <4>1. status[p] = "suspended" /\ status' = [status EXCEPT ![p] = "active"]
        BY <1>0, <3>1 DEF LiftSuspension, Stage
      <4> QED
        BY <1>a, <1>b, <4>1 DEF Deserves, Qualified, TypeOK
    <3>2. CASE LockRegion(r)
      BY <1>b, <3>2, SameDeserts DEF LockRegion
    <3> QED
      BY <1>3, <3>1, <3>2
  <2>5. \A q \in Players : Right(q)'
    BY <1>b, <2>1, <2>3, <2>4, SameRuns, RightAsBefore
  <2> QED
    BY <2>2, <2>5 DEF Caught
<1> QED
  BY <1>1, <1>2, <1>3

LEMMA StageStep ==
  ASSUME TypeInv, Orderly, NEW r \in Requests, Step(r), ~Begins(r), Kept(r), Fresh(r), Stage(r),
         mem[r].kind # "rebuild"
  PROVE  Caught(r)
<1>1. pc[r] \notin Sweeping /\ r \in InFlight
  BY Transitions DEF Kept, InFlight
<1>2. ~ClearBoard(r) /\ ~ReadPlayers(r) /\ ~NextPlayer(r) /\ ~Crash(r)
  BY <1>1 DEF ClearBoard, ReadPlayers, NextPlayer, Crash, Sweeping, Orderly, Serial
<1>3. \/ Lookup(r) \/ ReadRegion(r) \/ Insert(r) \/ Hold(r) \/ Enqueue(r)
      \/ Decide(r) \/ Verdict(r) \/ Retry(r) \/ GiveUp(r)
      \/ ReadAggregate(r) \/ ReadExam(r) \/ Pass(r) \/ Improve(r)
      \/ ReadLedger(r) \/ ReadStatus(r) \/ ReadQualified(r)
      \/ Drop(r) \/ WriteStanding(r)
      \/ SetStatus(r) \/ Sweep(r) \/ LiftSuspension(r) \/ LockRegion(r)
  BY <1>2 DEF Begins, Step, Submission, Decision, Sync, Refresh, Moderation, Residence, Rebuilding
<1>4. CASE Lookup(r) \/ ReadRegion(r) \/ Insert(r) \/ Hold(r) \/ Enqueue(r)
  BY <1>1, <1>4, SubmissionStage
<1>5. CASE Decide(r) \/ Verdict(r) \/ Retry(r) \/ GiveUp(r)
  BY <1>5, DecisionStage
<1>6. CASE \/ ReadAggregate(r) \/ ReadExam(r) \/ Pass(r) \/ Improve(r)
           \/ ReadLedger(r) \/ ReadStatus(r) \/ ReadQualified(r)
  BY <1>6, SyncStage
<1>7. CASE Drop(r) \/ WriteStanding(r)
  BY <1>7, RefreshStage
<1>8. CASE SetStatus(r) \/ Sweep(r) \/ LiftSuspension(r) \/ LockRegion(r)
  BY <1>1, <1>8, ModerationStage
<1> QED
  BY <1>3, <1>4, <1>5, <1>6, <1>7, <1>8

LEMMA JobsHoldStep ==
  ASSUME TypeInv, Orderly, NEW r \in Requests, Step(r), Kept(r), "result" \in Kinds, JobsHold,
         r \in InFlight /\ mem[r].kind # "rebuild" => Stage(r)
  PROVE  JobsHold'
<1>a. TypeOK /\ Ready(r) /\ JobsHaveEntries
  BY DEF TypeInv
<1>b. ~Decide(r)
  BY DEF Decide, Kept, InFlight, Orderly
<1>c. pc[r] \in Deciding \cup {"enqueue"} => Stage(r)
  BY DEF Kept, InFlight, Deciding, Sweeping, Refreshing
<1>1. CASE Insert(r)
  <2>1. entries[r] = Nil /\ jobs' = jobs /\ \A e \in Requests \ {r} : entries'[e] = entries[e]
    BY <1>a, <1>1 DEF Insert, Ready, BeforeRow, TypeOK
  <2>2. jobs[r].state # "open"
    BY <1>a, <2>1 DEF JobsHaveEntries
  <2> QED
    BY <2>1, <2>2 DEF JobsHold
<1>2. CASE Hold(r)
  <2>1. /\ jobs' = jobs /\ entries'[r].status = "review"
        /\ \A e \in Requests \ {r} : entries'[e] = entries[e]
    BY <1>a, <1>2, EntryAssigned DEF Hold, Ready
  <2> QED
    BY <2>1 DEF JobsHold
<1>3. CASE Enqueue(r)
  <2>1. pc[r] = "enqueue" /\ entries' = entries /\ \A e \in Requests \ {r} : jobs'[e] = jobs[e]
    BY <1>a, <1>3 DEF Enqueue, TypeOK
  <2>2. entries[r].status = "review"
    BY <1>c, <2>1 DEF Stage
  <2> QED
    BY <2>1, <2>2 DEF JobsHold
<1>4. CASE Verdict(r)
  <2>1. mem[r].entry \in Requests /\ entries[mem[r].entry] # Nil
    BY <1>a, <1>4 DEF Verdict, Ready
  <2>2. \A e \in Requests \ {mem[r].entry} : entries'[e] = entries[e] /\ jobs'[e] = jobs[e]
    BY <1>a, <1>4, <2>1, EntryAssigned DEF Verdict, TypeOK
  <2>3. jobs'[mem[r].entry].state # "open"
    BY <1>a, <1>4, <2>1 DEF Verdict, TypeOK
  <2> QED
    BY <2>2, <2>3 DEF JobsHold
<1>5. CASE Retry(r)
  <2>1. /\ mem[r].entry \in Requests /\ entries' = entries /\ pc[r] = "retry"
        /\ \A e \in Requests \ {mem[r].entry} : jobs'[e] = jobs[e]
    BY <1>a, <1>5 DEF Retry, Ready, TypeOK
  <2>2. entries[mem[r].entry].status = "review"
    BY <1>c, <2>1 DEF Stage, Deciding
  <2> QED
    BY <2>1, <2>2 DEF JobsHold
<1>6. CASE GiveUp(r)
  <2>1. mem[r].entry \in Requests /\ entries[mem[r].entry] # Nil
    BY <1>a, <1>6 DEF GiveUp, Ready
  <2>2. /\ jobs' = jobs /\ entries'[mem[r].entry].status = "review"
        /\ \A e \in Requests \ {mem[r].entry} : entries'[e] = entries[e]
    BY <1>a, <1>6, <2>1, EntryAssigned DEF GiveUp
  <2> QED
    BY <2>2 DEF JobsHold
<1>7. CASE UNCHANGED entries /\ UNCHANGED jobs
  BY <1>7 DEF JobsHold
<1> QED
  BY <1>b, <1>1, <1>2, <1>3, <1>4, <1>5, <1>6, <1>7, EntryWriters, JobWriters

LEMMA LedgerStep ==
  ASSUME TypeInv, Orderly, SerialInv, RebuildInv, LedgerInv, NEW r \in Requests, Step(r)
  PROVE  LedgerInv'
<1>a. Serial /\ Kept(r) /\ Fresh(r) /\ TypeOK /\ TypeInv'
  BY TypeStep DEF Orderly, SerialInv, TypeInv, Next, Step
<1>b. /\ InFlight \subseteq {r} /\ InFlight' \subseteq {r}
      /\ pc[r] = "idle" => InFlight = {}
  BY <1>a, OnlyOne DEF SerialInv
<1>c. SerialInv'
  BY <1>a, SerialStep
<1>1. CASE Begins(r)
  <2>1. /\ UNCHANGED <<ledger, derived, people, answers>>
        /\ pc[r] = "idle" /\ Opening(r)
    BY <1>1, Begun
  <2>2. \A q \in Players : Right(q)
    BY <1>b, <2>1 DEF LedgerInv
  <2>3. \A q \in Players : Right(q)'
    BY <2>1, <2>2, TablesSay
  <2>4. mem'[r].kind # "rebuild" => Stage(r)'
    <3>1. ASSUME pc'[r] \in {"verdict", "retry"}  PROVE entries'[mem'[r].entry].status = "review"
      <4>1. /\ mem'[r].kind = "result" /\ mem'[r].entry \in Requests
            /\ jobs[mem'[r].entry].state = "open" /\ "result" \in Kinds
        BY <1>1, <2>1, <3>1, Begun DEF Opening
      <4> QED
        BY <2>1, <4>1 DEF LedgerInv, JobsHold, ledger
    <3>2. pc'[r] = "lift" => status'[mem'[r].player] = "suspended"
      BY <2>1 DEF Opening, people
    <3> QED
      BY <2>1, <2>3, <3>1, <3>2 DEF Opening, Stage, Calm, Syncing, Refreshing, Deciding
  <2>5. UNCHANGED <<entries, jobs>>
    BY <2>1 DEF ledger
  <2> QED
    BY <1>b, <2>3, <2>4, <2>5 DEF LedgerInv, JobsHold
<1>2. CASE ~Begins(r)
  <2>1. r \in InFlight
    BY <1>2, Transitions DEF InFlight
  <2>2. "result" \in Kinds => JobsHold'
    BY <1>a, <2>1, JobsHoldStep DEF LedgerInv, JobsHold
  <2>3. pc'[r] # "idle"
    BY <1>2, <1>a DEF TypeInv, TypeOK, Begins,
         Step, Submission, Decision, Sync, Refresh, Moderation, Residence, Rebuilding,
         Lookup, ReadRegion, Insert, Hold, Enqueue, Decide, Verdict,
         Retry, GiveUp, ReadAggregate, ReadExam, Pass, Improve, ReadLedger, Drop, ReadStatus,
         ReadQualified, WriteStanding, SetStatus, Sweep, LiftSuspension,
         LockRegion, ClearBoard, ReadPlayers, NextPlayer, Crash, Return, Goto, Finish
  <2>4. CASE mem[r].kind # "rebuild"
    <3>1. Caught(r)
      BY <1>2, <1>a, <2>1, <2>4, StageStep DEF LedgerInv
    <3> QED
      BY <1>b, <2>2, <2>3, <3>1 DEF LedgerInv, Caught, InFlight, JobsHold
  <2>5. CASE mem[r].kind = "rebuild" /\ pc'[r] = "done"
    <3>1. /\ UNCHANGED <<ledger, derived, people>>
          /\ \A q \in Players : standings[q] = Derived(q)
      BY <1>a, <2>5, RebuildEnds
    <3>2. ASSUME NEW q \in Players  PROVE Right(q)
      <4>1. CASE Counted(q) = {}
        BY <3>1, <4>1 DEF Right, Fits, Derived
      <4>2. CASE Counted(q) # {}
        <5>1. standings[q] = [value |-> LedgerValue(q), eligible |-> Deserves(q), region |-> home[q]]
          BY <3>1, <4>2 DEF Derived
        <5>2. standings[q] \in Standing
          <6>1. LedgerValue(q) \in Int /\ Deserves(q) \in BOOLEAN /\ home[q] \in Or(Regions)
            BY <1>a, <4>2, LedgerValueIsInt DEF Deserves, TypeOK
          <6> QED
            BY <5>1, <6>1 DEF Standing
        <5>3. standings[q] # Nil /\ standings[q].value = LedgerValue(q)
              /\ standings[q].eligible = Deserves(q)
          BY <5>1, <5>2, NilAssumption
        <5> QED
          BY <4>2, <5>3 DEF Right, Fits, LedgerValue
      <4> QED
        BY <4>1, <4>2
    <3>3. \A q \in Players : Right(q)'
      BY <3>1, <3>2, TablesSay
    <3> QED
      BY <1>b, <2>2, <2>5, <3>3 DEF LedgerInv, InFlight, JobsHold
  <2>6. CASE mem[r].kind = "rebuild" /\ pc'[r] # "done"
    <3>1. mem'[r].kind = "rebuild"
      BY <1>2, <2>6, OnwardOrEnd, RebuildLocals DEF Onward
    <3>2. r \in InFlight'
      BY <2>3, <2>6 DEF InFlight
    <3> QED
      BY <1>b, <2>2, <3>1, <3>2 DEF LedgerInv, JobsHold
  <2> QED
    BY <2>4, <2>5, <2>6
<1> QED
  BY <1>1, <1>2

LEMMA LedgerInit == Init => LedgerInv
<1> SUFFICES ASSUME Init  PROVE LedgerInv
  OBVIOUS
<1>1. \A q \in Players : standings[q] = Nil /\ Counted(q) = {}
  BY DEF Init, Counted, EntriesOf
<1>2. \A e \in Requests : jobs[e].state # "open"
  BY DEF Init, NoJob
<1>3. InFlight = {}
  BY DEF Init, InFlight
<1> QED
  BY <1>1, <1>2, <1>3 DEF LedgerInv, JobsHold, Right, Fits

LEMMA LedgerStutter == LedgerInv /\ UNCHANGED vars => LedgerInv'
<1> SUFFICES ASSUME LedgerInv, UNCHANGED vars  PROVE LedgerInv'
  OBVIOUS
<1>1. /\ UNCHANGED <<ledger, derived, people>>
      /\ UNCHANGED <<entries, jobs, standings, status, pc, mem>>
  BY DEF vars, ledger, derived, people
<1>2. \A q : Right(q) => Right(q)'
  BY <1>1, TablesSay
<1>3. ASSUME NEW r, NEW q, Fits(q, Counted(q) \ {r})  PROVE Fits(q, Counted(q) \ {r})'
  <2>1. PICK E : E = Counted(q) \ {r}
    OBVIOUS
  <2>2. Fits(q, E)' /\ Counted(q)' = Counted(q)
    BY <1>1, <1>3, <2>1, TablesSay
  <2> QED
    BY <2>1, <2>2 DEF Fits
<1>4. \A q : Counted(q)' = Counted(q) /\ LedgerValue(q)' = LedgerValue(q)
  BY <1>1, TablesSay
<1>5. ASSUME NEW r, Stage(r)  PROVE Stage(r)'
  BY <1>1, <1>2, <1>3, <1>4, <1>5 DEF Stage
<1> QED
  BY <1>1, <1>2, <1>5 DEF LedgerInv, JobsHold, InFlight

(* The board between calls is the ledger's.  Every counted run is in its   *)
(* player's value, whoever counted it; a player without one has no row;    *)
(* and a row is eligible exactly when the player is not banned and has     *)
(* passed the exam.  The calls come one after the other, and are none of   *)
(* the three that leave the board behind without any overlap.              *)
THEOREM BoardFollowsLedger ==
  ASSUME MaxInFlight = 1,
         Kinds \cap {"crash", "resolve"} = {},
         HasModule => "submit_untraced" \notin Kinds,
         ~({"review", "result"} \subseteq Kinds)
  PROVE  Spec => []BoardIsLedger
<1>1. Orderly /\ Serial
  BY DEF Orderly, Serial
<1>2. Spec => []SerialInv /\ []RebuildInv
  BY <1>1, Serially, Rebuilds
<1>3. TypeInv /\ SerialInv /\ RebuildInv /\ LedgerInv /\ [Next]_vars => LedgerInv'
  BY <1>1, LedgerStep, LedgerStutter DEF Next, Step
<1>4. LedgerInv => BoardIsLedger
  BY DEF LedgerInv, BoardIsLedger, Right, Fits, LedgerValue
<1> QED
  BY <1>2, <1>3, <1>4, LedgerInit, TypeInvariant, PTL DEF Spec
=============================================================================
