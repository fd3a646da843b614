-------------------------- MODULE VerificationProofs --------------------------
(***************************************************************************)
(* The verification queue, for any number of verifiers, jobs and faults,   *)
(* and any limit of a claim.                                               *)
(***************************************************************************)
EXTENDS Verification, SequenceTheorems, FiniteSetTheorems, TLAPS

(* A claim counts an attempt, an error verdict gives it back: a job that   *)
(* waits has failed every attempt, and any other all but one.              *)
JobOK(j) ==
  /\ jobs[j].attempts =< jobs[j].failures + 1
  /\ jobs[j].state = "queued" => jobs[j].attempts =< jobs[j].failures
  /\ jobs[j].state = "error" => jobs[j].failures >= 3

(* The attempts a report has read may be old by now, but never too many.   *)
ReadOK(w) == pc[w] = "decide" => mem[w].attempts =< jobs[mem[w].job].attempts

Attempts == (\A j \in DOMAIN jobs : JobOK(j)) /\ \A w \in Workers : ReadOK(w)

Inv == TypeOK /\ Attempts

(* A verifier that holds jobs there are. *)
Holds(label, locals) ==
  /\ label \in Labels /\ locals \in Locals
  /\ locals.batch \subseteq DOMAIN jobs
  /\ label \in {"report", "decide", "giveup"} => locals.job \in DOMAIN jobs /\ locals.says # "none"

-----------------------------------------------------------------------------
(* Where a verifier goes on. *)

(* What a sequence of jobs has at a place of it is a job. *)
LEMMA RowsAreJobs ==
  ASSUME NEW s \in Seq(Job), NEW j \in DOMAIN s
  PROVE  s[j] \in Job
OBVIOUS

(* A verifier that goes on with jobs there are keeps the types of all.     *)
LEMMA GotoTypes ==
  ASSUME TypeOK, NEW w \in Workers, NEW label, NEW locals, Goto(w, label, locals),
         Holds(label, locals), DOMAIN jobs' = DOMAIN jobs
  PROVE  /\ pc' \in [Workers -> Labels] /\ mem' \in [Workers -> Locals]
         /\ \A v \in Workers : /\ mem'[v].batch \subseteq DOMAIN jobs'
                               /\ pc'[v] \in {"report", "decide", "giveup"} =>
                                    mem'[v].job \in DOMAIN jobs' /\ mem'[v].says # "none"
<1>1. pc' \in [Workers -> Labels] /\ mem' \in [Workers -> Locals]
  BY DEF TypeOK, Goto, Holds
<1>2. ASSUME NEW v \in Workers
      PROVE  /\ mem'[v].batch \subseteq DOMAIN jobs'
             /\ pc'[v] \in {"report", "decide", "giveup"} =>
                  mem'[v].job \in DOMAIN jobs' /\ mem'[v].says # "none"
  <2>1. CASE v = w
    <3>1. pc'[v] = label /\ mem'[v] = locals
      BY <2>1 DEF TypeOK, Goto
    <3> QED BY <3>1 DEF Holds
  <2>2. CASE v # w
    <3>1. pc'[v] = pc[v] /\ mem'[v] = mem[v]
      BY <2>2 DEF TypeOK, Goto
    <3> QED BY <3>1 DEF TypeOK
  <2> QED BY <2>1, <2>2
<1> QED BY <1>1, <1>2

(* Whoever goes on anywhere but to decide keeps what was read, as long as  *)
(* attempts are never taken back.                                          *)
LEMMA GotoReads ==
  ASSUME Inv, NEW w \in Workers, NEW label, NEW locals, Goto(w, label, locals),
         label = "decide" => locals.attempts =< jobs[locals.job].attempts,
         label = "decide" => locals.job \in DOMAIN jobs /\ locals.attempts \in Nat,
         jobs' \in Seq(Job), DOMAIN jobs' = DOMAIN jobs,
         \A j \in DOMAIN jobs : jobs[j].attempts =< jobs'[j].attempts
  PROVE  \A v \in Workers : ReadOK(v)'
<1> SUFFICES ASSUME NEW v \in Workers, pc'[v] = "decide"
             PROVE  mem'[v].attempts =< jobs'[mem'[v].job].attempts
  BY DEF ReadOK
<1>0. \A j \in DOMAIN jobs : jobs[j].attempts \in Nat /\ jobs'[j].attempts \in Nat
  BY RowsAreJobs DEF Inv, TypeOK, Job
<1>1. CASE v = w
  <2>1. mem'[v] = locals /\ label = "decide"
    BY <1>1 DEF Inv, TypeOK, Goto
  <2> QED BY <2>1, <1>0
<1>2. CASE v # w
  <2>1. mem'[v] = mem[v] /\ pc[v] = "decide"
    BY <1>2 DEF Inv, TypeOK, Goto
  <2>2. mem[v].job \in DOMAIN jobs /\ mem[v].attempts \in Nat
    BY <2>1 DEF Inv, TypeOK, Locals
  <2>3. mem[v].attempts =< jobs[mem[v].job].attempts
    BY <2>1 DEF Inv, Attempts, ReadOK
  <2> QED BY <2>1, <2>2, <2>3, <1>0
<1> QED BY <1>1, <1>2

(* A report that throws leaves a verifier with jobs there are. *)
LEMMA ThrowHolds ==
  ASSUME TypeOK, NEW w \in Workers, pc[w] \in {"report", "decide", "giveup"}, Throw(w)
  PROVE  \E label, locals : Goto(w, label, locals) /\ Holds(label, locals) /\ label # "decide"
<1>1. CASE mem[w].again
  <2>1. Goto(w, "idle", Blank) BY <1>1 DEF Throw
  <2>2. Holds("idle", Blank) BY DEF Holds, Labels, Locals, Blank
  <2> QED BY <2>1, <2>2
<1>2. CASE ~mem[w].again
  <2> DEFINE locals == [mem[w] EXCEPT !.says = "error", !.again = TRUE, !.attempts = 0]
  <2>1. Goto(w, "report", locals) BY <1>2 DEF Throw
  <2>2. mem[w] \in Locals /\ mem[w].batch \subseteq DOMAIN jobs /\ mem[w].job \in DOMAIN jobs
    BY DEF TypeOK
  <2>3. Holds("report", locals)
    BY <2>2 DEF Holds, Labels, Locals
  <2> QED BY <2>1, <2>3
<1> QED BY <1>1, <1>2

(* So does a call that returns, or whose answer is lost. *)
LEMMA ReturnHolds ==
  ASSUME TypeOK, NEW w \in Workers, pc[w] \in {"report", "decide", "giveup"}, Return(w)
  PROVE  /\ \E label, locals : Goto(w, label, locals) /\ Holds(label, locals) /\ label # "decide"
         /\ faults' \in Nat
<1>1. CASE Goto(w, "work", [Blank EXCEPT !.batch = mem[w].batch]) /\ UNCHANGED faults
  <2>1. mem[w].batch \subseteq DOMAIN jobs /\ mem[w].batch \in SUBSET (Nat \ {0})
    BY DEF TypeOK, Locals
  <2>2. Holds("work", [Blank EXCEPT !.batch = mem[w].batch])
    BY <2>1 DEF Holds, Labels, Locals, Blank
  <2> QED BY <1>1, <2>2 DEF TypeOK
<1>2. CASE Fail /\ Throw(w)
  BY <1>2, ThrowHolds DEF Fail, TypeOK
<1> QED BY <1>1, <1>2 DEF Return

-----------------------------------------------------------------------------
(* The actions that leave the jobs alone. *)

(* A verifier that goes on with jobs there are, and has read no more       *)
(* attempts than there are, keeps the invariant.                           *)
LEMMA GoesOnKeeps ==
  ASSUME Inv, NEW w \in Workers, NEW label, NEW locals, Goto(w, label, locals),
         Holds(label, locals), label = "decide" => locals.attempts =< jobs[locals.job].attempts,
         UNCHANGED <<module, pointed, jobs, billed>>,
         entries' \in Seq(Entry), Len(entries') = Len(entries),
         faults' \in Nat, shared' \in BOOLEAN
  PROVE  Inv'
<1>1. TypeOK'
  BY GotoTypes DEF Inv, TypeOK
<1>2. \A v \in Workers : ReadOK(v)'
  <2>1. ASSUME NEW j \in DOMAIN jobs
        PROVE  jobs[j].attempts =< jobs[j].attempts
    <3>1. jobs[j] \in Job
      BY RowsAreJobs DEF Inv, TypeOK
    <3> QED BY <3>1 DEF Job
  <2>2. locals.attempts \in Nat /\ (label = "decide" => locals.job \in DOMAIN jobs)
    BY DEF Holds, Locals
  <2>3. jobs' \in Seq(Job) /\ jobs' = jobs
    BY DEF Inv, TypeOK
  <2> QED BY <2>1, <2>2, <2>3, GotoReads
<1>3. \A j \in DOMAIN jobs' : JobOK(j)'
  BY DEF Inv, Attempts, JobOK
<1> QED BY <1>1, <1>2, <1>3 DEF Inv, Attempts

LEMMA ClaimKeeps ==
  ASSUME Inv, NEW w \in Workers, Claim(w)
  PROVE  Inv'
<1> DEFINE batch == {j \in Queued : Cardinality({i \in Queued : i < j}) < Limit}
           locals == [Blank EXCEPT !.batch = batch]
<1>1. batch \subseteq DOMAIN jobs /\ batch \in SUBSET (Nat \ {0})
  BY DEF Queued, Inv, TypeOK
<1>2. Holds("take", locals)
  <2> HIDE DEF batch
  <2> QED BY <1>1 DEF Holds, Labels, Locals, Blank
<1>3. Goto(w, "take", locals)
  BY DEF Claim
<1> HIDE DEF locals
<1> QED BY <1>2, <1>3, GoesOnKeeps DEF Claim, Inv, TypeOK

LEMMA FetchKeeps ==
  ASSUME Inv, NEW w \in Workers, Fetch(w)
  PROVE  Inv'
<1> DEFINE got == {j \in mem[w].batch : jobs[j].state = "claimed" /\ jobs[j].module = "row"}
           locals == [mem[w] EXCEPT !.batch = got]
<1>1. got \subseteq DOMAIN jobs /\ got \in SUBSET (Nat \ {0}) /\ mem[w] \in Locals
  BY DEF Inv, TypeOK, Locals
<1>2. Holds("work", locals)
  <2> HIDE DEF got
  <2> QED BY <1>1 DEF Holds, Labels, Locals
<1>3. Goto(w, "work", locals) /\ UNCHANGED <<module, pointed, jobs, entries, billed, faults>>
      /\ shared' \in BOOLEAN
  BY DEF Fetch, Inv, TypeOK
<1> HIDE DEF locals
<1> QED BY <1>2, <1>3, GoesOnKeeps DEF Inv, TypeOK

LEMMA WorkKeeps ==
  ASSUME Inv, NEW w \in Workers, Work(w)
  PROVE  Inv'
<1>1. CASE Goto(w, "idle", Blank)
  <2>1. Holds("idle", Blank) BY DEF Holds, Labels, Locals, Blank
  <2> QED BY <1>1, <2>1, GoesOnKeeps DEF Work, Inv, TypeOK
<1>2. ASSUME NEW j \in mem[w].batch, NEW says \in {"verified", "failed", "error"},
             Goto(w, "report", [batch |-> mem[w].batch \ {j}, job |-> j, says |-> says,
                                attempts |-> 0, again |-> says = "error"])
      PROVE  Inv'
  <2> DEFINE locals == [batch |-> mem[w].batch \ {j}, job |-> j, says |-> says,
                        attempts |-> 0, again |-> says = "error"]
  <2>1. mem[w].batch \subseteq DOMAIN jobs /\ mem[w].batch \in SUBSET (Nat \ {0})
    BY DEF Inv, TypeOK, Locals
  <2>2. (says = "error") \in BOOLEAN
    OBVIOUS
  <2>3. Holds("report", locals)
    BY <2>1, <2>2 DEF Holds, Labels, Locals
  <2>4. Goto(w, "report", locals)
    BY <1>2
  <2> HIDE DEF locals
  <2> QED BY <2>3, <2>4, GoesOnKeeps DEF Work, Inv, TypeOK
<1> QED BY <1>1, <1>2 DEF Work
(* 409 makes the verifier throw; otherwise it has read the attempts there  *)
(* are.                                                                    *)
LEMMA ReadKeeps ==
  ASSUME Inv, NEW w \in Workers, Read(w)
  PROVE  Inv'
<1>1. CASE Throw(w)
  <2>1. PICK label, locals : Goto(w, label, locals) /\ Holds(label, locals) /\ label # "decide"
    BY <1>1, ThrowHolds DEF Read, Inv
  <2> QED BY <2>1, GoesOnKeeps DEF Read, Inv, TypeOK
<1>2. CASE Goto(w, "decide", [mem[w] EXCEPT !.attempts = jobs[mem[w].job].attempts])
  <2> DEFINE read   == jobs[mem[w].job].attempts
             locals == [mem[w] EXCEPT !.attempts = read]
  <2>1. /\ mem[w] \in Locals /\ mem[w].batch \subseteq DOMAIN jobs
        /\ mem[w].job \in DOMAIN jobs /\ mem[w].says # "none"
    BY DEF Read, Inv, TypeOK
  <2>2. read \in Nat
    BY <2>1, RowsAreJobs DEF Inv, TypeOK, Job
  <2> HIDE DEF read
  <2>3. Holds("decide", locals) /\ locals.job = mem[w].job /\ locals.attempts = read
    BY <2>1, <2>2 DEF Holds, Labels, Locals
  <2>4. Goto(w, "decide", locals)
    BY <1>2 DEF read
  <2>5. locals.attempts =< jobs[locals.job].attempts
    BY <2>2, <2>3 DEF read
  <2> HIDE DEF locals
  <2> QED BY <2>3, <2>4, <2>5, GoesOnKeeps DEF Read, Inv, TypeOK
<1> QED BY <1>1, <1>2 DEF Read

LEMMA GiveUpKeeps ==
  ASSUME Inv, NEW w \in Workers, GiveUp(w)
  PROVE  Inv'
<1>1. PICK label, locals : Goto(w, label, locals) /\ Holds(label, locals) /\ label # "decide"
  BY ReturnHolds DEF GiveUp, Inv
<1>2. faults' \in Nat
  BY ReturnHolds DEF GiveUp, Inv
<1>3. entries' \in Seq(Entry) /\ Len(entries') = Len(entries)
  <2> DEFINE row == [status |-> "review", verification |-> "failed"]
  <2>1. row \in Entry
    BY DEF Entry
  <2>2. entries' = [entries EXCEPT ![mem[w].job] = row]
    BY DEF GiveUp
  <2>3. mem[w].job \in 1..Len(entries) /\ entries \in Seq(Entry)
    BY DEF GiveUp, Inv, TypeOK
  <2> HIDE DEF row
  <2> QED BY <2>1, <2>2, <2>3, ExceptSeq
<1> QED BY <1>1, <1>2, <1>3, GoesOnKeeps DEF GiveUp, Inv, TypeOK

(* A call that fails, and a verifier that dies. *)
LEMMA FaultKeeps ==
  ASSUME Inv, NEW w \in Workers, Lose(w) \/ Die(w)
  PROVE  Inv'
<1>1. faults' \in Nat /\ UNCHANGED <<module, pointed, jobs, entries, billed, shared>>
  BY DEF Lose, Die, Fail, Inv, TypeOK
<1>2. \E label, locals : Goto(w, label, locals) /\ Holds(label, locals) /\ label # "decide"
  <2>1. Holds("idle", Blank)
    BY DEF Holds, Labels, Locals, Blank
  <2> QED BY <2>1, ThrowHolds DEF Lose, Die, Inv
<1> QED BY <1>1, <1>2, GoesOnKeeps DEF Inv, TypeOK

-----------------------------------------------------------------------------
(* The actions that change jobs. *)

(* Rows that keep the types and the attempts keep the invariant. *)
LEMMA JobsKeep ==
  ASSUME Inv, NEW w \in Workers, NEW label, NEW locals, Goto(w, label, locals),
         Holds(label, locals), label # "decide",
         UNCHANGED <<module, pointed, shared>>,
         jobs' \in Seq(Job), Len(jobs') = Len(jobs),
         entries' \in Seq(Entry), Len(entries') = Len(entries),
         billed' \in Nat, faults' \in Nat,
         \A j \in DOMAIN jobs : JobOK(j)' /\ jobs[j].attempts =< jobs'[j].attempts
  PROVE  Inv'
<1>0. DOMAIN jobs' = DOMAIN jobs
  BY DEF Inv, TypeOK
<1>1. TypeOK'
  BY <1>0, GotoTypes DEF Inv, TypeOK
<1>2. \A v \in Workers : ReadOK(v)'
  BY <1>0, GotoReads
<1> QED BY <1>0, <1>1, <1>2 DEF Inv, Attempts

LEMMA TakeKeeps ==
  ASSUME Inv, NEW w \in Workers, Take(w)
  PROVE  Inv'
<1>1. /\ mem[w] \in Locals /\ mem[w].batch \subseteq DOMAIN jobs
      /\ Goto(w, "fetch", mem[w])
  BY DEF Take, Inv, TypeOK
<1>2. Holds("fetch", mem[w])
  BY <1>1 DEF Holds, Labels
<1>3. ASSUME NEW j \in DOMAIN jobs
      PROVE  jobs'[j] \in Job /\ JobOK(j)' /\ jobs[j].attempts =< jobs'[j].attempts
  <2>1. jobs[j] \in Job /\ JobOK(j)
    BY RowsAreJobs DEF Inv, TypeOK, Attempts
  <2>2. CASE j \in mem[w].batch \cap Queued
    <3>1. jobs'[j] = [jobs[j] EXCEPT !.state = "claimed", !.attempts = @ + 1] /\ jobs[j].state = "queued"
      BY <2>2 DEF Take, Queued
    <3> DEFINE more == jobs[j].attempts + 1
    <3>2. more \in Nat
      BY <2>1 DEF Job
    <3>3. jobs'[j] = [jobs[j] EXCEPT !.state = "claimed", !.attempts = more]
      BY <3>1
    <3> HIDE DEF more
    <3>4. /\ jobs'[j] \in Job /\ jobs'[j].state = "claimed" /\ jobs'[j].attempts = more
          /\ jobs'[j].failures = jobs[j].failures
      BY <2>1, <3>2, <3>3 DEF Job
    <3> QED BY <2>1, <3>1, <3>4 DEF Job, JobOK, more
  <2>3. CASE j \notin mem[w].batch \cap Queued
    <3>1. jobs'[j] = jobs[j]
      BY <2>3 DEF Take
    <3> QED BY <2>1, <3>1 DEF Job, JobOK
  <2> QED BY <2>2, <2>3
<1>4. jobs' \in Seq(Job) /\ Len(jobs') = Len(jobs)
  <2>1. Len(jobs) \in Nat /\ DOMAIN jobs = 1..Len(jobs)
    BY DEF Inv, TypeOK
  <2>2. jobs' \in [1..Len(jobs) -> Job]
    <3>1. jobs' = [j \in DOMAIN jobs |->
                    IF j \in mem[w].batch \cap Queued
                    THEN [jobs[j] EXCEPT !.state = "claimed", !.attempts = @ + 1]
                    ELSE jobs[j]]
      BY DEF Take
    <3>2. DOMAIN jobs' = DOMAIN jobs
      BY <3>1
    <3> QED BY <1>3, <2>1, <3>1, <3>2
  <2> QED BY <2>1, <2>2
<1> QED BY <1>1, <1>2, <1>3, <1>4, JobsKeep DEF Take, Inv, TypeOK

LEMMA RequeueKeeps ==
  ASSUME Inv, NEW w \in Workers, Requeue(w)
  PROVE  Inv'
<1> DEFINE n     == mem[w].job
           given == TooOften(mem[w].attempts)
           row   == [jobs[n] EXCEPT !.state = IF given THEN "error" ELSE "queued", !.failures = @ + 1]
<1>1. /\ n \in DOMAIN jobs /\ mem[w] \in Locals /\ mem[w].says # "none"
      /\ mem[w].batch \subseteq DOMAIN jobs /\ mem[w].attempts \in Nat
      /\ mem[w].attempts =< jobs[n].attempts
  BY DEF Requeue, Inv, Attempts, ReadOK, TypeOK, Locals
<1>2. jobs[n] \in Job /\ JobOK(n)
  BY <1>1, RowsAreJobs DEF Inv, TypeOK, Attempts
<1>3. /\ row \in Job /\ row.attempts = jobs[n].attempts /\ row.failures = jobs[n].failures + 1
      /\ row.state = IF given THEN "error" ELSE "queued"
  <2> DEFINE more == jobs[n].failures + 1
             state == IF given THEN "error" ELSE "queued"
  <2>1. more \in Nat /\ state \in {"error", "queued"}
    BY <1>2 DEF Job
  <2>2. row = [jobs[n] EXCEPT !.state = state, !.failures = more]
    OBVIOUS
  <2> HIDE DEF more, state, row, given
  <2>3. /\ row \in Job /\ row.attempts = jobs[n].attempts /\ row.failures = more
        /\ row.state = state
    BY <1>2, <2>1, <2>2 DEF Job
  <2> QED BY <2>3 DEF more, state
<1>4. jobs' = [jobs EXCEPT ![n] = row]
  BY DEF Requeue
<1>5. jobs' \in Seq(Job) /\ Len(jobs') = Len(jobs)
  <2>1. n \in 1..Len(jobs) /\ jobs \in Seq(Job)
    BY <1>1 DEF Inv, TypeOK
  <2> HIDE DEF row, n
  <2> QED BY <1>3, <1>4, <2>1, ExceptSeq
<1>6. ASSUME NEW j \in DOMAIN jobs
      PROVE  JobOK(j)' /\ jobs[j].attempts =< jobs'[j].attempts
  <2>1. jobs[j] \in Job /\ JobOK(j)
    BY RowsAreJobs DEF Inv, TypeOK, Attempts
  <2>2. CASE j = n
    <3>1. jobs'[j] = row
      <4> HIDE DEF row
      <4> QED BY <1>1, <1>4, <2>2 DEF Inv, TypeOK
    <3>2. given => mem[w].attempts >= 3
      BY DEF TooOften
    <3> HIDE DEF row, given
    <3> QED BY <1>1, <1>2, <1>3, <2>2, <3>1, <3>2 DEF Job, JobOK
  <2>3. CASE j # n
    <3>1. jobs'[j] = jobs[j]
      <4> HIDE DEF row
      <4> QED BY <1>4, <2>3 DEF Inv, TypeOK
    <3> QED BY <2>1, <3>1 DEF Job, JobOK
  <2> QED BY <2>2, <2>3
<1>7. /\ \E label, locals : Goto(w, label, locals) /\ Holds(label, locals) /\ label # "decide"
      /\ faults' \in Nat
  <2>1. CASE Goto(w, "giveup", mem[w]) /\ UNCHANGED faults
    <3>1. Holds("giveup", mem[w])
      BY <1>1 DEF Holds, Labels
    <3> QED BY <2>1, <3>1 DEF Inv, TypeOK
  <2>2. CASE Return(w)
    BY <2>2, ReturnHolds DEF Requeue, Inv
  <2> QED BY <2>1, <2>2 DEF Requeue
<1> HIDE DEF row, given, n
<1> QED BY <1>5, <1>6, <1>7, JobsKeep DEF Requeue, Inv, TypeOK

LEMMA DecideKeeps ==
  ASSUME Inv, NEW w \in Workers, Decide(w)
  PROVE  Inv'
<1> DEFINE says == mem[w].says
           n    == mem[w].job
           row  == [jobs[n] EXCEPT !.state = "done", !.verdict = says]
           run  == [status |-> IF says = "verified" THEN "counted" ELSE "rejected",
                    verification |-> says]
<1>1. n \in DOMAIN jobs /\ says \in {"verified", "failed"}
  BY DEF Decide, Inv, TypeOK, Locals
<1>2. jobs[n] \in Job /\ JobOK(n)
  BY <1>1, RowsAreJobs DEF Inv, TypeOK, Attempts
<1>3. /\ row \in Job /\ row.attempts = jobs[n].attempts /\ row.failures = jobs[n].failures
      /\ row.state = "done"
  <2> HIDE DEF says
  <2> QED BY <1>1, <1>2 DEF Job
<1>4. run \in Entry
  <2> HIDE DEF says
  <2> QED BY <1>1 DEF Entry
<1>5. jobs' = [jobs EXCEPT ![n] = row] /\ entries' = [entries EXCEPT ![n] = run]
  BY DEF Decide
<1>6. /\ jobs' \in Seq(Job) /\ Len(jobs') = Len(jobs)
      /\ entries' \in Seq(Entry) /\ Len(entries') = Len(entries)
  <2>1. /\ n \in 1..Len(jobs) /\ jobs \in Seq(Job)
        /\ n \in 1..Len(entries) /\ entries \in Seq(Entry)
    BY <1>1 DEF Inv, TypeOK
  <2> HIDE DEF row, run, n
  <2> QED BY <1>3, <1>4, <1>5, <2>1, ExceptSeq
<1>7. ASSUME NEW j \in DOMAIN jobs
      PROVE  JobOK(j)' /\ jobs[j].attempts =< jobs'[j].attempts
  <2>1. jobs[j] \in Job /\ JobOK(j)
    BY RowsAreJobs DEF Inv, TypeOK, Attempts
  <2>2. CASE j = n
    <3>1. jobs'[j] = row
      <4> HIDE DEF row
      <4> QED BY <1>1, <1>5, <2>2 DEF Inv, TypeOK
    <3> HIDE DEF row
    <3> QED BY <1>2, <1>3, <2>2, <3>1 DEF Job, JobOK
  <2>3. CASE j # n
    <3>1. jobs'[j] = jobs[j]
      <4> HIDE DEF row
      <4> QED BY <1>5, <2>3 DEF Inv, TypeOK
    <3> QED BY <2>1, <3>1 DEF Job, JobOK
  <2> QED BY <2>2, <2>3
<1>8. /\ \E label, locals : Goto(w, label, locals) /\ Holds(label, locals) /\ label # "decide"
      /\ faults' \in Nat
  BY ReturnHolds DEF Decide, Inv
<1>9. billed' \in Nat /\ UNCHANGED <<module, pointed, shared>>
  BY DEF Decide, Inv, TypeOK
<1> HIDE DEF row, run, n, says
<1> QED BY <1>6, <1>7, <1>8, <1>9, JobsKeep

-----------------------------------------------------------------------------
(* The app, and a new job. *)

LEMMA UploadKeeps ==
  ASSUME Inv, Upload
  PROVE  Inv'
<1> DEFINE Replaced(ref) == IF ref = "row" THEN "replaced" ELSE ref
<1>1. jobs' = [j \in DOMAIN jobs |-> [jobs[j] EXCEPT !.module = Replaced(@)]]
      /\ pointed' = Replaced(pointed)
  BY DEF Upload
<1>2. pointed' \in Reference
  BY <1>1 DEF Inv, TypeOK, Reference
<1>3. Len(jobs) \in Nat /\ DOMAIN jobs = 1..Len(jobs)
  BY DEF Inv, TypeOK
<1>4. ASSUME NEW j \in DOMAIN jobs
      PROVE  /\ jobs'[j] \in Job /\ jobs'[j].state = jobs[j].state
             /\ jobs'[j].attempts = jobs[j].attempts /\ jobs'[j].failures = jobs[j].failures
  <2>1. jobs[j] \in Job
    BY RowsAreJobs DEF Inv, TypeOK
  <2>2. jobs'[j] = [jobs[j] EXCEPT !.module = Replaced(jobs[j].module)]
    BY <1>1
  <2>3. Replaced(jobs[j].module) \in Reference
    BY <2>1 DEF Job, Reference
  <2> HIDE DEF Replaced
  <2> QED BY <2>1, <2>2, <2>3 DEF Job
<1>5. jobs' \in Seq(Job) /\ Len(jobs') = Len(jobs) /\ DOMAIN jobs' = DOMAIN jobs
  <2>1. DOMAIN jobs' = DOMAIN jobs
    BY <1>1
  <2>2. jobs' \in [1..Len(jobs) -> Job]
    <3>1. \A j \in 1..Len(jobs) : jobs'[j] \in Job
      BY <1>3, <1>4
    <3> HIDE DEF Replaced
    <3> QED BY <1>1, <1>3, <2>1, <3>1
  <2> QED BY <1>3, <2>1, <2>2
<1>6. TypeOK'
  BY <1>2, <1>5 DEF Upload, Inv, TypeOK
<1>7. \A j \in DOMAIN jobs' : JobOK(j)'
  BY <1>4, <1>5 DEF Inv, Attempts, JobOK
<1>8. \A w \in Workers : ReadOK(w)'
  BY <1>4 DEF Upload, Inv, TypeOK, Attempts, ReadOK
<1> QED BY <1>6, <1>7, <1>8 DEF Inv, Attempts

LEMMA PointKeeps ==
  ASSUME Inv, Point
  PROVE  Inv'
<1>1. TypeOK'
  BY DEF Point, Inv, TypeOK, Reference
<1>2. Attempts'
  BY DEF Point, Inv, Attempts, JobOK, ReadOK
<1> QED BY <1>1, <1>2 DEF Inv

LEMMA QueueKeeps ==
  ASSUME Inv, Queue
  PROVE  Inv'
<1> DEFINE job == [state |-> "queued", attempts |-> 0, module |-> pointed,
                   verdict |-> "none", failures |-> 0]
           run == [status |-> "review", verification |-> "pending"]
<1>1. job \in Job /\ job.attempts = 0 /\ job.failures = 0 /\ job.state = "queued" /\ run \in Entry
  BY DEF Inv, TypeOK, Job, Entry
<1>2. jobs' = Append(jobs, job) /\ entries' = Append(entries, run)
      /\ UNCHANGED <<module, pointed, billed, pc, mem, faults, shared>>
  BY DEF Queue
<1> HIDE DEF job, run
<1>3. /\ jobs' \in Seq(Job) /\ entries' \in Seq(Entry) /\ Len(entries') = Len(jobs')
      /\ DOMAIN jobs \subseteq DOMAIN jobs' /\ DOMAIN jobs' = DOMAIN jobs \cup {Len(jobs) + 1}
      /\ \A j \in DOMAIN jobs : jobs'[j] = jobs[j]
      /\ jobs'[Len(jobs) + 1] = job
  BY <1>1, <1>2 DEF Inv, TypeOK
<1>4. TypeOK'
  BY <1>2, <1>3 DEF Inv, TypeOK
<1>5. \A j \in DOMAIN jobs' : JobOK(j)'
  BY <1>1, <1>3 DEF Inv, Attempts, JobOK
<1>6. \A w \in Workers : ReadOK(w)'
  BY <1>2, <1>3 DEF Inv, TypeOK, Attempts, ReadOK
<1> QED BY <1>4, <1>5, <1>6 DEF Inv, Attempts

-----------------------------------------------------------------------------
LEMMA InitInv == Init => Inv
<1> SUFFICES ASSUME Init PROVE Inv
  OBVIOUS
<1>1. TypeOK
  <2>1. jobs \in Seq(Job) /\ entries \in Seq(Entry) /\ Len(entries) = Len(jobs)
    BY DEF Init
  <2>2. Blank \in Locals /\ Blank.batch = {}
    BY DEF Blank, Locals
  <2>3. pc \in [Workers -> Labels] /\ mem \in [Workers -> Locals]
    BY <2>2 DEF Init, Labels
  <2> QED BY <2>1, <2>2, <2>3 DEF Init, TypeOK, Reference
<1> QED BY <1>1 DEF Init, Inv, Attempts, ReadOK

LEMMA NextInv == Inv /\ [Next]_vars => Inv'
<1> SUFFICES ASSUME Inv, [Next]_vars PROVE Inv'
  OBVIOUS
<1>1. CASE Upload \/ Point \/ Queue
  BY <1>1, UploadKeeps, PointKeeps, QueueKeeps
<1>2. ASSUME NEW w \in Workers, GoesOn(w) \/ Lose(w) \/ Die(w)
      PROVE  Inv'
  BY <1>2, ClaimKeeps, TakeKeeps, FetchKeeps, WorkKeeps, ReadKeeps, RequeueKeeps, GiveUpKeeps,
     DecideKeeps, FaultKeeps DEF GoesOn
<1>3. CASE UNCHANGED vars
  BY <1>3 DEF vars, Inv, TypeOK, Attempts, JobOK, ReadOK
<1> QED BY <1>1, <1>2, <1>3 DEF Next

LEMMA Invariance == Spec => []Inv
BY InitInv, NextInv, PTL DEF Spec

(* Jobs, entries and what the verifiers hold keep their types, and name    *)
(* rows that exist.                                                        *)
THEOREM TypeCorrect == Spec => []TypeOK
<1>1. Inv => TypeOK
  BY DEF Inv
<1> QED BY <1>1, Invariance, PTL

(* A job is given up only after three error verdicts, for any number of    *)
(* verifiers that hold it at the same time, calls that fail and verifiers  *)
(* that die.                                                               *)
THEOREM GivenUpAfterThree == Spec => []NoEarlyGiveUp
<1>1. Inv => NoEarlyGiveUp
  BY DEF Inv, Attempts, JobOK, NoEarlyGiveUp
<1> QED BY <1>1, Invariance, PTL

-----------------------------------------------------------------------------
(* Verdicts.  The invariant says nothing once two verifiers held the same  *)
(* job: from then on `shared` is true for good.                            *)

(* What a verifier has in hand, by its label and its local variables. *)
Hand(label, locals) ==
  CASE label \in {"idle", "take", "fetch"} -> {}
    [] label = "work" -> locals.batch
    [] OTHER -> locals.batch \cup {locals.job}

(* No job is in the hands of two verifiers. *)
Apart == \A w, v \in Workers : w # v => InHand(w) \cap InHand(v) = {}

(* A report that has read its job, or gives it up, is of an undecided one. *)
Open == \A w \in Workers : pc[w] \in {"decide", "giveup"} => jobs[mem[w].job].state # "done"

(* A run is as the verdict on its job has it, or waits. *)
RuledJob(j) ==
  IF jobs[j].state = "done"
  THEN \/ jobs[j].verdict = "verified" /\ entries[j].status = "counted"
       \/ jobs[j].verdict = "failed" /\ entries[j].status = "rejected"
  ELSE jobs[j].verdict = "none" /\ entries[j].status = "review"

Ruled == \A j \in DOMAIN jobs : RuledJob(j)

Done == {j \in DOMAIN jobs : jobs[j].state = "done"}
Once == billed = Cardinality(Done)

Settled == Apart /\ Open /\ Ruled /\ Once

SInv == Inv /\ (~shared => Settled)

-----------------------------------------------------------------------------
(* What is in hand. *)

(* Where a verifier goes says what it has in hand next.                    *)
LEMMA GotoHand ==
  ASSUME Inv, NEW w \in Workers, NEW label, NEW locals, Goto(w, label, locals)
  PROVE  /\ pc'[w] = label /\ mem'[w] = locals
         /\ InHand(w)' = Hand(label, locals)
         /\ \A v \in Workers \ {w} : /\ pc'[v] = pc[v] /\ mem'[v] = mem[v]
                                     /\ InHand(v)' = InHand(v)
<1>1. pc'[w] = label /\ mem'[w] = locals
  BY DEF Inv, TypeOK, Goto
<1>2. \A v \in Workers \ {w} : pc'[v] = pc[v] /\ mem'[v] = mem[v]
  BY DEF Inv, TypeOK, Goto
<1> QED BY <1>1, <1>2 DEF InHand, Hand

(* Hands stay apart when no other one has what a verifier goes on with.    *)
LEMMA GotoApart ==
  ASSUME Inv, Apart, NEW w \in Workers, NEW label, NEW locals, Goto(w, label, locals),
         \A v \in Workers \ {w} : InHand(v) \cap Hand(label, locals) = {}
  PROVE  Apart'
<1> SUFFICES ASSUME NEW u \in Workers, NEW v \in Workers, u # v
             PROVE  InHand(u)' \cap InHand(v)' = {}
  BY DEF Apart
<1>1. CASE u = w
  BY <1>1, GotoHand
<1>2. CASE v = w
  BY <1>2, GotoHand
<1>3. CASE u # w /\ v # w
  BY <1>3, GotoHand DEF Apart
<1> QED BY <1>1, <1>2, <1>3

(* A verifier that goes on with less than it had takes nothing from        *)
(* another.                                                                *)
LEMMA LessInHand ==
  ASSUME Apart, NEW w \in Workers, NEW hand, hand \subseteq InHand(w)
  PROVE  \A v \in Workers \ {w} : InHand(v) \cap hand = {}
BY DEF Apart

(* Throwing leaves a verifier with no more than it had, and before the     *)
(* reading of the job.                                                     *)
LEMMA ThrowHand ==
  ASSUME Inv, NEW w \in Workers, pc[w] \in {"report", "decide", "giveup"}, Throw(w)
  PROVE  \E label, locals : /\ Goto(w, label, locals) /\ Hand(label, locals) \subseteq InHand(w)
                            /\ label \notin {"decide", "giveup"}
<1>1. CASE mem[w].again
  <2>1. Goto(w, "idle", Blank) BY <1>1 DEF Throw
  <2>2. Hand("idle", Blank) = {} BY DEF Hand
  <2> QED BY <2>1, <2>2
<1>2. CASE ~mem[w].again
  <2> DEFINE locals == [mem[w] EXCEPT !.says = "error", !.again = TRUE, !.attempts = 0]
  <2>1. Goto(w, "report", locals) BY <1>2 DEF Throw
  <2>2. mem[w] \in Locals
    BY DEF Inv, TypeOK
  <2>3. locals.batch = mem[w].batch /\ locals.job = mem[w].job
    BY <2>2 DEF Locals
  <2> HIDE DEF locals
  <2>4. Hand("report", locals) = mem[w].batch \cup {mem[w].job}
    BY <2>3 DEF Hand
  <2>5. InHand(w) = mem[w].batch \cup {mem[w].job}
    BY DEF InHand
  <2> QED BY <2>1, <2>4, <2>5
<1> QED BY <1>1, <1>2

(* So does returning. *)
LEMMA ReturnHand ==
  ASSUME Inv, NEW w \in Workers, pc[w] \in {"report", "decide", "giveup"}, Return(w)
  PROVE  \E label, locals : /\ Goto(w, label, locals) /\ Hand(label, locals) \subseteq InHand(w)
                            /\ label \notin {"decide", "giveup"}
<1>1. CASE Goto(w, "work", [Blank EXCEPT !.batch = mem[w].batch])
  <2> DEFINE locals == [Blank EXCEPT !.batch = mem[w].batch]
  <2>1. locals.batch = mem[w].batch
    BY DEF Blank
  <2>2. Goto(w, "work", locals)
    BY <1>1
  <2> HIDE DEF locals
  <2>3. Hand("work", locals) = mem[w].batch
    BY <2>1 DEF Hand
  <2>4. InHand(w) = mem[w].batch \cup {mem[w].job}
    BY DEF InHand
  <2> QED BY <2>2, <2>3, <2>4
<1>2. CASE Throw(w)
  BY <1>2, ThrowHand
<1> QED BY <1>1, <1>2 DEF Return

-----------------------------------------------------------------------------
(* The actions that decide no job. *)

(* Rows that are as decided as before are as ruled as before.              *)
LEMMA SameRulings ==
  ASSUME Ruled, Once, DOMAIN jobs' = DOMAIN jobs, billed' = billed,
         \A j \in DOMAIN jobs :
           /\ jobs'[j].state = "done" <=> jobs[j].state = "done"
           /\ jobs'[j].verdict = jobs[j].verdict
           /\ entries'[j].status = entries[j].status
  PROVE  Ruled' /\ Once'
<1>1. Done' = Done
  BY DEF Done
<1>2. Ruled'
  BY DEF Ruled, RuledJob
<1> QED BY <1>1, <1>2 DEF Once

(* A verifier that goes on, takes nothing from another, decides nothing,   *)
(* and comes to the writing of a report only with an undecided job.        *)
LEMMA GoesOnSettled ==
  ASSUME Inv, Settled, NEW w \in Workers, NEW label, NEW locals, Goto(w, label, locals),
         \A v \in Workers \ {w} : InHand(v) \cap Hand(label, locals) = {},
         label \in {"decide", "giveup"} =>
           locals.job \in DOMAIN jobs /\ jobs[locals.job].state # "done",
         DOMAIN jobs' = DOMAIN jobs, billed' = billed,
         \A j \in DOMAIN jobs :
           /\ jobs'[j].state = "done" <=> jobs[j].state = "done"
           /\ jobs'[j].verdict = jobs[j].verdict
           /\ entries'[j].status = entries[j].status
  PROVE  Settled'
<1>1. Apart'
  BY GotoApart DEF Settled
<1>2. Open'
  <2> SUFFICES ASSUME NEW v \in Workers, pc'[v] \in {"decide", "giveup"}
               PROVE  jobs'[mem'[v].job].state # "done"
    BY DEF Open
  <2>1. CASE v = w
    BY <2>1, GotoHand
  <2>2. CASE v # w
    <3>1. pc[v] \in {"decide", "giveup"} /\ mem'[v] = mem[v]
      BY <2>2, GotoHand
    <3>2. mem[v].job \in DOMAIN jobs /\ jobs[mem[v].job].state # "done"
      BY <3>1 DEF Inv, TypeOK, Settled, Open
    <3> QED BY <3>1, <3>2
  <2> QED BY <2>1, <2>2
<1>3. Ruled' /\ Once'
  BY SameRulings DEF Settled
<1> QED BY <1>1, <1>2, <1>3 DEF Settled

(* The same, of a verifier that goes on with no more than it had.          *)
LEMMA LessSettled ==
  ASSUME Inv, Settled, NEW w \in Workers,
         \E label, locals : /\ Goto(w, label, locals) /\ Hand(label, locals) \subseteq InHand(w)
                            /\ label \in {"decide", "giveup"} =>
                                 locals.job \in DOMAIN jobs /\ jobs[locals.job].state # "done",
         DOMAIN jobs' = DOMAIN jobs, billed' = billed,
         \A j \in DOMAIN jobs :
           /\ jobs'[j].state = "done" <=> jobs[j].state = "done"
           /\ jobs'[j].verdict = jobs[j].verdict
           /\ entries'[j].status = entries[j].status
  PROVE  Settled'
<1>1. PICK label, locals : /\ Goto(w, label, locals) /\ Hand(label, locals) \subseteq InHand(w)
                           /\ label \in {"decide", "giveup"} =>
                                locals.job \in DOMAIN jobs /\ jobs[locals.job].state # "done"
  OBVIOUS
<1>2. \A v \in Workers \ {w} : InHand(v) \cap Hand(label, locals) = {}
  BY <1>1, LessInHand DEF Settled
<1> QED BY <1>1, <1>2, GoesOnSettled

LEMMA ClaimSettled ==
  ASSUME Inv, Settled, NEW w \in Workers, Claim(w)
  PROVE  Settled'
<1>1. \E locals : Goto(w, "take", locals)
  BY DEF Claim
<1>2. \A locals : Hand("take", locals) = {}
  BY DEF Hand
<1>3. DOMAIN jobs' = DOMAIN jobs /\ UNCHANGED <<jobs, entries, billed>>
  BY DEF Claim
<1> QED BY <1>1, <1>2, <1>3, LessSettled

LEMMA TakeSettled ==
  ASSUME Inv, Settled, NEW w \in Workers, Take(w)
  PROVE  Settled'
<1>1. Goto(w, "fetch", mem[w]) /\ Hand("fetch", mem[w]) = {}
  BY DEF Take, Hand
<1>2. DOMAIN jobs' = DOMAIN jobs /\ UNCHANGED <<entries, billed>>
  BY DEF Take
<1>3. ASSUME NEW j \in DOMAIN jobs
      PROVE  /\ jobs'[j].state = "done" <=> jobs[j].state = "done"
             /\ jobs'[j].verdict = jobs[j].verdict
  <2>1. jobs[j] \in Job
    BY RowsAreJobs DEF Inv, TypeOK
  <2>2. CASE j \in mem[w].batch \cap Queued
    <3> DEFINE more == jobs[j].attempts + 1
    <3>1. jobs'[j] = [jobs[j] EXCEPT !.state = "claimed", !.attempts = more]
      BY <2>2 DEF Take
    <3> HIDE DEF more
    <3>2. jobs'[j].state = "claimed" /\ jobs'[j].verdict = jobs[j].verdict
      BY <2>1, <3>1 DEF Job
    <3> QED BY <2>2, <3>2 DEF Queued
  <2>3. CASE j \notin mem[w].batch \cap Queued
    BY <2>3 DEF Take
  <2> QED BY <2>2, <2>3
<1> QED BY <1>1, <1>2, <1>3, LessSettled

(* What is fetched was nobody's, or the job is shared from now on.         *)
LEMMA FetchSettled ==
  ASSUME Inv, Settled, NEW w \in Workers, Fetch(w), ~shared'
  PROVE  Settled'
<1> DEFINE got == {j \in mem[w].batch : jobs[j].state = "claimed" /\ jobs[j].module = "row"}
           locals == [mem[w] EXCEPT !.batch = got]
<1>1. \A v \in Workers \ {w} : InHand(v) \cap got = {}
  BY DEF Fetch
<1>2. Goto(w, "work", locals) /\ UNCHANGED <<jobs, entries, billed>>
  BY DEF Fetch
<1>3. Hand("work", locals) = got
  <2>1. mem[w] \in Locals
    BY DEF Inv, TypeOK
  <2> HIDE DEF got
  <2> QED BY <2>1 DEF Hand, Locals
<1> HIDE DEF got, locals
<1> QED BY <1>1, <1>2, <1>3, GoesOnSettled

LEMMA WorkSettled ==
  ASSUME Inv, Settled, NEW w \in Workers, Work(w)
  PROVE  Settled'
<1>0. UNCHANGED <<jobs, entries, billed>> /\ InHand(w) = mem[w].batch
  BY DEF Work, InHand
<1>1. CASE Goto(w, "idle", Blank)
  <2>1. Hand("idle", Blank) = {}
    BY DEF Hand
  <2> QED BY <1>0, <1>1, <2>1, LessSettled
<1>2. ASSUME NEW j \in mem[w].batch, NEW says,
             Goto(w, "report", [batch |-> mem[w].batch \ {j}, job |-> j, says |-> says,
                                attempts |-> 0, again |-> says = "error"])
      PROVE  Settled'
  <2>1. Hand("report", [batch |-> mem[w].batch \ {j}, job |-> j, says |-> says,
                        attempts |-> 0, again |-> says = "error"]) = mem[w].batch
    BY DEF Hand
  <2> QED BY <1>0, <1>2, <2>1, LessSettled
<1> QED BY <1>1, <1>2 DEF Work

(* A report goes on only with a job it has found undecided.                *)
LEMMA ReadSettled ==
  ASSUME Inv, Settled, NEW w \in Workers, Read(w)
  PROVE  Settled'
<1>0. UNCHANGED <<jobs, entries, billed>> /\ pc[w] = "report"
  BY DEF Read
<1>1. CASE Throw(w)
  BY <1>0, <1>1, ThrowHand, LessSettled
<1>2. CASE /\ jobs[mem[w].job].state # "done"
           /\ Goto(w, "decide", [mem[w] EXCEPT !.attempts = jobs[mem[w].job].attempts])
  <2> DEFINE locals == [mem[w] EXCEPT !.attempts = jobs[mem[w].job].attempts]
  <2>1. mem[w] \in Locals /\ mem[w].job \in DOMAIN jobs
    BY <1>0 DEF Inv, TypeOK
  <2>2. locals.batch = mem[w].batch /\ locals.job = mem[w].job
    BY <2>1 DEF Locals
  <2>3. Goto(w, "decide", locals)
    BY <1>2
  <2> HIDE DEF locals
  <2>4. Hand("decide", locals) \subseteq InHand(w)
    BY <1>0, <2>2 DEF Hand, InHand
  <2> QED BY <1>0, <1>2, <2>1, <2>2, <2>3, <2>4, LessSettled
<1> QED BY <1>1, <1>2 DEF Read

(* An error is put back only on an undecided job.                          *)
LEMMA RequeueSettled ==
  ASSUME Inv, Settled, NEW w \in Workers, Requeue(w)
  PROVE  Settled'
<1> DEFINE n     == mem[w].job
           given == TooOften(mem[w].attempts)
<1>0. UNCHANGED <<entries, billed>> /\ pc[w] = "decide"
  BY DEF Requeue
<1>1. n \in DOMAIN jobs /\ jobs[n].state # "done" /\ jobs \in Seq(Job)
  BY <1>0 DEF Inv, TypeOK, Settled, Open
<1>2. jobs' = [jobs EXCEPT ![n].state = IF given THEN "error" ELSE "queued",
                           ![n].failures = @ + 1]
  BY DEF Requeue
<1>3. ASSUME NEW j \in DOMAIN jobs
      PROVE  /\ jobs'[j].state = "done" <=> jobs[j].state = "done"
             /\ jobs'[j].verdict = jobs[j].verdict
  <2>1. jobs[j] \in Job
    BY RowsAreJobs DEF Inv, TypeOK
  <2>2. CASE j = n
    <3> DEFINE more  == jobs[n].failures + 1
               state == IF given THEN "error" ELSE "queued"
    <3>1. jobs'[j] = [jobs[j] EXCEPT !.state = state, !.failures = more]
      BY <1>1, <1>2, <2>2
    <3>2. state # "done"
      OBVIOUS
    <3> HIDE DEF more, state
    <3> QED BY <1>1, <2>1, <2>2, <3>1, <3>2 DEF Job
  <2>3. CASE j # n
    BY <1>1, <1>2, <2>3
  <2> QED BY <2>2, <2>3
<1>4. DOMAIN jobs' = DOMAIN jobs
  BY <1>2
<1>5. CASE Goto(w, "giveup", mem[w])
  <2>1. Hand("giveup", mem[w]) \subseteq InHand(w)
    BY <1>0 DEF Hand, InHand
  <2> QED BY <1>0, <1>1, <1>3, <1>4, <1>5, <2>1, LessSettled
<1>6. CASE Return(w)
  <2>1. \E label, locals : /\ Goto(w, label, locals) /\ Hand(label, locals) \subseteq InHand(w)
                           /\ label \notin {"decide", "giveup"}
    BY <1>0, <1>6, ReturnHand
  <2> QED BY <1>0, <1>3, <1>4, <2>1, LessSettled
<1> QED BY <1>5, <1>6 DEF Requeue

(* The run of a job that is given up waited, and waits.                    *)
LEMMA GiveUpSettled ==
  ASSUME Inv, Settled, NEW w \in Workers, GiveUp(w)
  PROVE  Settled'
<1>0. UNCHANGED <<jobs, billed>> /\ pc[w] = "giveup" /\ Return(w)
  BY DEF GiveUp
<1>1. /\ mem[w].job \in DOMAIN jobs /\ jobs[mem[w].job].state # "done"
      /\ DOMAIN entries = DOMAIN jobs /\ entries \in Seq(Entry)
  BY <1>0 DEF Inv, TypeOK, Settled, Open
<1>2. entries[mem[w].job].status = "review"
  BY <1>1 DEF Settled, Ruled, RuledJob
<1>3. ASSUME NEW j \in DOMAIN jobs
      PROVE  entries'[j].status = entries[j].status
  <2>1. entries' = [entries EXCEPT ![mem[w].job] = [status |-> "review", verification |-> "failed"]]
    BY DEF GiveUp
  <2>2. CASE j = mem[w].job
    BY <1>1, <1>2, <2>1, <2>2
  <2>3. CASE j # mem[w].job
    BY <1>1, <2>1, <2>3
  <2> QED BY <2>2, <2>3
<1>4. \E label, locals : /\ Goto(w, label, locals) /\ Hand(label, locals) \subseteq InHand(w)
                         /\ label \notin {"decide", "giveup"}
  BY <1>0, ReturnHand
<1> QED BY <1>0, <1>3, <1>4, LessSettled

(* A call that fails, and a verifier that dies.                            *)
LEMMA FaultSettled ==
  ASSUME Inv, Settled, NEW w \in Workers, Lose(w) \/ Die(w)
  PROVE  Settled'
<1>1. UNCHANGED <<jobs, entries, billed>>
  BY DEF Lose, Die
<1>2. CASE Goto(w, "idle", Blank)
  <2>1. Hand("idle", Blank) = {}
    BY DEF Hand
  <2> QED BY <1>1, <1>2, <2>1, LessSettled
<1>3. CASE pc[w] \in {"report", "decide", "giveup"} /\ Throw(w)
  BY <1>1, <1>3, ThrowHand, LessSettled
<1> QED BY <1>2, <1>3 DEF Lose, Die

-----------------------------------------------------------------------------
(* A verdict: its job is in no other hand, so no other report is of it.    *)
LEMMA DecideSettled ==
  ASSUME Inv, Settled, NEW w \in Workers, Decide(w)
  PROVE  Settled'
<1> DEFINE says == mem[w].says
           n    == mem[w].job
           run  == [status |-> IF says = "verified" THEN "counted" ELSE "rejected",
                    verification |-> says]
<1>0. pc[w] = "decide" /\ Return(w) /\ billed' = billed + 1
  BY DEF Decide
<1>1. /\ n \in DOMAIN jobs /\ jobs[n].state # "done" /\ says \in {"verified", "failed"}
      /\ jobs \in Seq(Job) /\ entries \in Seq(Entry) /\ DOMAIN entries = DOMAIN jobs
  BY <1>0 DEF Decide, Inv, TypeOK, Locals, Settled, Open
<1>2. /\ jobs' = [jobs EXCEPT ![n].state = "done", ![n].verdict = says]
      /\ entries' = [entries EXCEPT ![n] = run]
  BY DEF Decide
<1>3. DOMAIN jobs' = DOMAIN jobs /\ DOMAIN entries' = DOMAIN entries
  BY <1>2
<1>4. /\ jobs'[n].state = "done" /\ jobs'[n].verdict = says
      /\ entries'[n].status = IF says = "verified" THEN "counted" ELSE "rejected"
  <2>1. jobs[n] \in Job
    BY <1>1, RowsAreJobs
  <2>2. jobs'[n] = [jobs[n] EXCEPT !.state = "done", !.verdict = says]
    BY <1>1, <1>2
  <2>3. entries'[n] = run
    <3> HIDE DEF run
    <3> QED BY <1>1, <1>2
  <2> HIDE DEF says
  <2> QED BY <2>1, <2>2, <2>3 DEF Job
<1>5. \A j \in DOMAIN jobs \ {n} : jobs'[j] = jobs[j] /\ entries'[j] = entries[j]
  <2> HIDE DEF run
  <2> QED BY <1>1, <1>2
<1> HIDE DEF says, run
<1>6. PICK label, locals : /\ Goto(w, label, locals) /\ Hand(label, locals) \subseteq InHand(w)
                           /\ label \notin {"decide", "giveup"}
  BY <1>0, ReturnHand
<1>7. Apart'
  <2>1. \A v \in Workers \ {w} : InHand(v) \cap Hand(label, locals) = {}
    BY <1>6, LessInHand DEF Settled
  <2> QED BY <1>6, <2>1, GotoApart DEF Settled
<1>8. Open'
  <2> SUFFICES ASSUME NEW v \in Workers, pc'[v] \in {"decide", "giveup"}
               PROVE  jobs'[mem'[v].job].state # "done"
    BY DEF Open
  <2>1. v # w /\ pc'[v] = pc[v] /\ mem'[v] = mem[v]
    BY <1>6, GotoHand
  <2>2. mem[v].job \in DOMAIN jobs /\ jobs[mem[v].job].state # "done"
    BY <2>1 DEF Inv, TypeOK, Settled, Open
  <2>3. mem[v].job # n
    <3>1. mem[v].job \in InHand(v)
      BY <2>1 DEF InHand
    <3>2. n \in InHand(w)
      BY <1>0 DEF InHand
    <3> QED BY <2>1, <3>1, <3>2 DEF Settled, Apart
  <2> QED BY <1>5, <2>1, <2>2, <2>3
<1>9. Ruled'
  <2> SUFFICES ASSUME NEW j \in DOMAIN jobs
               PROVE  RuledJob(j)'
    BY <1>3 DEF Ruled
  <2>1. CASE j = n
    <3>1. /\ jobs'[j].state = "done" /\ jobs'[j].verdict = says
          /\ entries'[j].status = IF says = "verified" THEN "counted" ELSE "rejected"
      BY <1>4, <2>1
    <3> QED BY <1>1, <3>1 DEF RuledJob
  <2>2. CASE j # n
    <3>1. jobs'[j] = jobs[j] /\ entries'[j] = entries[j] /\ RuledJob(j)
      BY <1>5, <2>2 DEF Settled, Ruled
    <3> QED BY <3>1 DEF RuledJob
  <2> QED BY <2>1, <2>2
<1>10. Once'
  <2>1. Done' = Done \cup {n} /\ n \notin Done
    BY <1>1, <1>3, <1>4, <1>5 DEF Done
  <2>2. IsFiniteSet(Done)
    <3>1. DOMAIN jobs = 1..Len(jobs) /\ Len(jobs) \in Nat
      BY <1>1
    <3>2. IsFiniteSet(DOMAIN jobs)
      BY <3>1, FS_Interval
    <3> QED BY <3>2, FS_Subset DEF Done
  <2>3. Cardinality(Done \cup {n}) = Cardinality(Done) + 1
    BY <2>1, <2>2, FS_AddElement
  <2> QED BY <1>0, <2>1, <2>3 DEF Settled, Once
<1> QED BY <1>7, <1>8, <1>9, <1>10 DEF Settled

-----------------------------------------------------------------------------
(* The app, and a new job.                                                 *)

(* What no verifier does leaves what is in hand.                           *)
LEMMA AppSettled ==
  ASSUME Inv, Settled, UNCHANGED <<pc, mem>>,
         \A j \in DOMAIN jobs : jobs'[j].state = "done" <=> jobs[j].state = "done"
  PROVE  Apart' /\ Open'
<1>1. Apart'
  BY DEF Settled, Apart, InHand
<1>2. Open'
  <2> SUFFICES ASSUME NEW v \in Workers, pc[v] \in {"decide", "giveup"}
               PROVE  jobs'[mem[v].job].state # "done"
    BY DEF Open
  <2> QED BY DEF Inv, TypeOK, Settled, Open
<1> QED BY <1>1, <1>2

LEMMA UploadSettled ==
  ASSUME Inv, Settled, Upload
  PROVE  Settled'
<1> DEFINE Replaced(ref) == IF ref = "row" THEN "replaced" ELSE ref
<1>1. /\ jobs' = [j \in DOMAIN jobs |-> [jobs[j] EXCEPT !.module = Replaced(@)]]
      /\ UNCHANGED <<entries, billed, pc, mem>>
  BY DEF Upload
<1>2. DOMAIN jobs' = DOMAIN jobs
  BY <1>1
<1>3. ASSUME NEW j \in DOMAIN jobs
      PROVE  jobs'[j].state = jobs[j].state /\ jobs'[j].verdict = jobs[j].verdict
  <2>1. jobs[j] \in Job
    BY RowsAreJobs DEF Inv, TypeOK
  <2>2. jobs'[j] = [jobs[j] EXCEPT !.module = Replaced(jobs[j].module)]
    BY <1>1
  <2> HIDE DEF Replaced
  <2> QED BY <2>1, <2>2 DEF Job
<1> HIDE DEF Replaced
<1>4. Apart' /\ Open'
  BY <1>1, <1>3, AppSettled
<1>5. Ruled' /\ Once'
  BY <1>1, <1>2, <1>3, SameRulings DEF Settled
<1> QED BY <1>4, <1>5 DEF Settled

LEMMA QueueSettled ==
  ASSUME Inv, Settled, Queue
  PROVE  Settled'
<1> DEFINE job == [state |-> "queued", attempts |-> 0, module |-> pointed,
                   verdict |-> "none", failures |-> 0]
           run == [status |-> "review", verification |-> "pending"]
           n   == Len(jobs) + 1
<1>1. /\ jobs' = Append(jobs, job) /\ entries' = Append(entries, run)
      /\ UNCHANGED <<billed, pc, mem>>
  BY DEF Queue
<1>2. job.state = "queued" /\ job.verdict = "none" /\ run.status = "review"
  OBVIOUS
<1> HIDE DEF job, run
<1>3. /\ DOMAIN jobs' = DOMAIN jobs \cup {n} /\ n \notin DOMAIN jobs
      /\ \A j \in DOMAIN jobs : jobs'[j] = jobs[j] /\ entries'[j] = entries[j]
      /\ jobs'[n] = job /\ entries'[n] = run
  BY <1>1 DEF Inv, TypeOK
<1> HIDE DEF n
<1>4. Apart' /\ Open'
  BY <1>1, <1>3, AppSettled
<1>5. Ruled'
  BY <1>2, <1>3 DEF Settled, Ruled, RuledJob
<1>6. Done' = Done
  BY <1>2, <1>3 DEF Done
<1> QED BY <1>1, <1>4, <1>5, <1>6 DEF Settled, Once

-----------------------------------------------------------------------------
LEMMA Settling == Spec => []SInv
<1>1. Init => SInv
  <2> SUFFICES ASSUME Init PROVE SInv
    OBVIOUS
  <2>1. Inv
    BY InitInv
  <2>2. Apart /\ Open
    BY DEF Init, Apart, Open, InHand
  <2>3. Ruled /\ Once
    <3>1. Done = {}
      BY DEF Init, Done
    <3>2. Cardinality({}) = 0
      BY FS_EmptySet
    <3> QED BY <3>1, <3>2 DEF Init, Ruled, Once
  <2> QED BY <2>1, <2>2, <2>3 DEF SInv, Settled
<1>2. SInv /\ [Next]_vars => SInv'
  <2> SUFFICES ASSUME SInv, [Next]_vars PROVE SInv'
    OBVIOUS
  <2>0. Inv /\ Inv'
    BY NextInv DEF SInv
  <2> SUFFICES ASSUME ~shared' PROVE Settled'
    BY <2>0 DEF SInv
  <2>1. ~shared
    BY DEF Next, vars, Upload, Point, Queue, GoesOn, Claim, Take, Fetch, Work, Read, Requeue, GiveUp,
       Decide, Lose, Die
  <2>2. Settled
    BY <2>1 DEF SInv
  <2>3. CASE Upload \/ Queue
    BY <2>0, <2>2, <2>3, UploadSettled, QueueSettled
  <2>4. CASE Point \/ UNCHANGED vars
    BY <2>2, <2>4 DEF Point, vars, Settled, Apart, InHand, Open, Ruled, RuledJob, Once, Done
  <2>5. ASSUME NEW w \in Workers, GoesOn(w) \/ Lose(w) \/ Die(w)
        PROVE  Settled'
    BY <2>0, <2>2, <2>5, ClaimSettled, TakeSettled, FetchSettled, WorkSettled, ReadSettled,
       RequeueSettled, GiveUpSettled, DecideSettled, FaultSettled DEF GoesOn
  <2> QED BY <2>3, <2>4, <2>5 DEF Next
<1> QED BY <1>1, <1>2, PTL DEF Spec

(* A verdict is never taken back and never billed again: while no job is   *)
(* in two hands, a run is decided by the verdict on its job alone, and     *)
(* billed once, whatever answers are lost and verifiers die.               *)
THEOREM VerdictsHold == Spec => []VerdictsStand
<1>1. SInv => VerdictsStand
  <2> SUFFICES ASSUME SInv, ~shared
               PROVE  /\ billed = Cardinality(Done)
                      /\ \A j \in DOMAIN jobs :
                           entries[j].status = CASE jobs[j].state # "done" -> "review"
                                                 [] jobs[j].verdict = "verified" -> "counted"
                                                 [] jobs[j].verdict = "failed" -> "rejected"
    BY DEF VerdictsStand, Done
  <2>1. billed = Cardinality(Done)
    BY DEF SInv, Settled, Once
  <2>2. ASSUME NEW j \in DOMAIN jobs
        PROVE  entries[j].status = CASE jobs[j].state # "done" -> "review"
                                     [] jobs[j].verdict = "verified" -> "counted"
                                     [] jobs[j].verdict = "failed" -> "rejected"
    <3>1. RuledJob(j)
      BY DEF SInv, Settled, Ruled
    <3>2. CASE jobs[j].state # "done"
      <4>1. jobs[j].verdict = "none" /\ entries[j].status = "review"
        BY <3>1, <3>2 DEF RuledJob
      <4> QED BY <3>2, <4>1
    <3>3. CASE jobs[j].state = "done" /\ jobs[j].verdict = "verified"
      <4>1. entries[j].status = "counted"
        BY <3>1, <3>3 DEF RuledJob
      <4> QED BY <3>3, <4>1
    <3>4. CASE jobs[j].state = "done" /\ jobs[j].verdict = "failed"
      <4>1. entries[j].status = "rejected"
        BY <3>1, <3>4 DEF RuledJob
      <4> QED BY <3>4, <4>1
    <3> QED BY <3>1, <3>2, <3>3, <3>4 DEF RuledJob
  <2> QED BY <2>1, <2>2
<1> QED BY <1>1, Settling, PTL
=============================================================================
