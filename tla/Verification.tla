---------------------------- MODULE Verification ----------------------------
(***************************************************************************)
(* verify.ts, the queue of runs that a module can prove, and the verifier  *)
(* of packages/verifier, which claims a batch, re-simulates one job after  *)
(* the other and reports each.                                             *)
(*                                                                         *)
(* Every statement or batch is an action.  A call fails before or after    *)
(* any of its statements, and a verifier dies anywhere.  There is one      *)
(* discipline and one module name; what a verdict does to the board, and   *)
(* an operator's review, are in Standings.                                 *)
(***************************************************************************)
EXTENDS Integers, Sequences, FiniteSets

CONSTANTS
  Workers,     \* verifier processes
  Limit,       \* how many jobs a claim takes
  MaxJobs,     \* bound on verification_jobs
  MaxFaults,   \* bound on failed calls and deaths
  MaxAttempts, \* bound on attempts, which pass 3 only when two hold a job
  MaxBilled    \* bound on verdicts, which pass MaxJobs only when two hold a job

VARIABLES
  module,   \* whether verifier_modules has the row
  pointed,  \* disciplines.module_id
  jobs,     \* verification_jobs by age
  entries,  \* entries.status and entries.verification, of the job's entry
  billed,   \* usage_counters.count of metric 'verification'
  pc,       \* what each verifier is at
  mem,      \* its local variables, and those of the call it makes
  faults,   \* history: how many calls have failed and verifiers died
  shared    \* history: one job was in the hands of two verifiers

vars == <<module, pointed, jobs, entries, billed, pc, mem, faults, shared>>

(* A reference to a module names the row, or one that was replaced. *)
Reference == {"none", "row", "replaced"}

(* `failures` is history: how many error verdicts the job was given. *)
Job    == [state : {"queued", "claimed", "done", "error"}, attempts : Nat, module : Reference,
           verdict : {"none", "verified", "failed"}, failures : Nat]
Entry  == [status : {"review", "counted", "rejected"},
           verification : {"pending", "verified", "failed"}]
Labels == {"idle", "take", "fetch", "work", "report", "decide", "giveup"}
Locals == [batch : SUBSET (Nat \ {0}), job : Nat, says : {"none", "verified", "failed", "error"},
           attempts : Nat, again : BOOLEAN]
Blank  == [batch |-> {}, job |-> 0, says |-> "none", attempts |-> 0, again |-> FALSE]

(* Rows and local variables keep their types, and point at rows. *)
TypeOK ==
  /\ module \in BOOLEAN /\ pointed \in Reference
  /\ jobs \in Seq(Job)
  /\ entries \in Seq(Entry) /\ Len(entries) = Len(jobs)
  /\ billed \in Nat
  /\ pc \in [Workers -> Labels]
  /\ mem \in [Workers -> Locals]
  /\ \A w \in Workers : /\ mem[w].batch \subseteq DOMAIN jobs
                        /\ pc[w] \in {"report", "decide", "giveup"} =>
                             mem[w].job \in DOMAIN jobs /\ mem[w].says # "none"
  /\ faults \in Nat /\ shared \in BOOLEAN

Init ==
  /\ module = FALSE /\ pointed = "none"
  /\ jobs = <<>> /\ entries = <<>> /\ billed = 0
  /\ pc = [w \in Workers |-> "idle"]
  /\ mem = [w \in Workers |-> Blank]
  /\ faults = 0 /\ shared = FALSE

Queued == {j \in DOMAIN jobs : jobs[j].state = "queued"}

Goto(w, label, locals) ==
  /\ pc' = [pc EXCEPT ![w] = label]
  /\ mem' = [mem EXCEPT ![w] = locals]

-----------------------------------------------------------------------------
(* The app: modules, and the discipline that points at one.                *)

(* Mutant: what points at the row does not hold it. *)
HeldByNothing(ref) == FALSE

(* The foreign keys of disciplines and verification_jobs. *)
Held(ref) == pointed = ref \/ \E j \in DOMAIN jobs : jobs[j].module = ref

(* POST /v1/verifier/modules: an upload of that name replaces the row,     *)
(* with a new id, unless something points at it.                           *)
Upload ==
  LET Replaced(ref) == IF ref = "row" THEN "replaced" ELSE ref
  IN /\ ~Held("row")
     /\ module' = TRUE
     /\ pointed' = Replaced(pointed)
     /\ jobs' = [j \in DOMAIN jobs |-> [jobs[j] EXCEPT !.module = Replaced(@)]]
     /\ UNCHANGED <<entries, billed, pc, mem, faults, shared>>

(* POST /v1/disciplines/:slug/verifier *)
Point ==
  /\ \/ module /\ pointed' = "row"
     \/ pointed' = "none"
  /\ UNCHANGED <<module, jobs, entries, billed, pc, mem, faults, shared>>

(* queueVerification(), for a run that was inserted and held.  A handler   *)
(* that has read the discipline before it pointed elsewhere queues as if   *)
(* it had come before; a module that is gone refuses the job.              *)
Queue ==
  /\ pointed # "none" /\ Len(jobs) < MaxJobs
  /\ jobs' = Append(jobs, [state |-> "queued", attempts |-> 0, module |-> pointed,
                           verdict |-> "none", failures |-> 0])
  /\ entries' = Append(entries, [status |-> "review", verification |-> "pending"])
  /\ UNCHANGED <<module, pointed, billed, pc, mem, faults, shared>>

-----------------------------------------------------------------------------
(* POST /v1/verifier/claim, of drain(): the oldest that are queued, *)
Claim(w) ==
  /\ pc[w] = "idle" /\ Queued # {}
  /\ Goto(w, "take", [Blank EXCEPT !.batch =
                        {j \in Queued : Cardinality({i \in Queued : i < j}) < Limit}])
  /\ UNCHANGED <<module, pointed, jobs, entries, billed, faults, shared>>

(* those that still are become claimed, *)
Take(w) ==
  /\ pc[w] = "take" /\ \A j \in mem[w].batch : jobs[j].attempts < MaxAttempts
  /\ jobs' = [j \in DOMAIN jobs |->
                IF j \in mem[w].batch \cap Queued
                THEN [jobs[j] EXCEPT !.state = "claimed", !.attempts = @ + 1]
                ELSE jobs[j]]
  /\ Goto(w, "fetch", mem[w])
  /\ UNCHANGED <<module, pointed, entries, billed, faults, shared>>

(* What a verifier has been given and has not yet finished. *)
InHand(w) ==
  CASE pc[w] \in {"idle", "take", "fetch"} -> {}
    [] pc[w] = "work" -> mem[w].batch
    [] OTHER -> mem[w].batch \cup {mem[w].job}

(* and those that are claimed by now are answered, by whomever they are    *)
(* claimed, with the module they were queued for.                          *)
Fetch(w) ==
  LET got == {j \in mem[w].batch : jobs[j].state = "claimed" /\ jobs[j].module = "row"}
  IN /\ pc[w] = "fetch"
     /\ Goto(w, "work", [mem[w] EXCEPT !.batch = got])
     /\ shared' = (shared \/ \E v \in Workers \ {w} : InHand(v) \cap got # {})
     /\ UNCHANGED <<module, pointed, jobs, entries, billed, faults>>

(* handle() of one job after the other: the re-simulation agrees, or it    *)
(* does not, or runs into its limits; or a blob cannot be fetched.         *)
Work(w) ==
  /\ pc[w] = "work"
  /\ \/ mem[w].batch = {} /\ Goto(w, "idle", Blank)
     \/ \E j \in mem[w].batch, says \in {"verified", "failed", "error"} :
          Goto(w, "report", [batch |-> mem[w].batch \ {j}, job |-> j, says |-> says,
                             attempts |-> 0, again |-> says = "error"])
  /\ UNCHANGED <<module, pointed, jobs, entries, billed, faults, shared>>

(* A report that throws is reported as an error, and an error that throws  *)
(* ends the drain: what is left of the batch is not looked at again.       *)
Throw(w) ==
  IF mem[w].again THEN Goto(w, "idle", Blank)
  ELSE Goto(w, "report", [mem[w] EXCEPT !.says = "error", !.again = TRUE, !.attempts = 0])

Fail == faults < MaxFaults /\ faults' = faults + 1

(* The call returns, or its answer is lost. *)
Return(w) ==
  \/ Goto(w, "work", [Blank EXCEPT !.batch = mem[w].batch]) /\ UNCHANGED faults
  \/ Fail /\ Throw(w)

-----------------------------------------------------------------------------
(* POST /v1/verifier/jobs/:id/result                                       *)

(* Mutant: a job that is decided is decided again. *)
ReadAny(w) ==
  /\ pc[w] = "report"
  /\ Goto(w, "decide", [mem[w] EXCEPT !.attempts = jobs[mem[w].job].attempts])
  /\ UNCHANGED <<module, pointed, jobs, entries, billed, faults, shared>>

(* The job, or 409. *)
Read(w) ==
  /\ pc[w] = "report"
  /\ IF jobs[mem[w].job].state = "done" THEN Throw(w)
     ELSE Goto(w, "decide", [mem[w] EXCEPT !.attempts = jobs[mem[w].job].attempts])
  /\ UNCHANGED <<module, pointed, jobs, entries, billed, faults, shared>>

(* Mutant: the second failure is one too many. *)
TooOftenEarly(attempts) == attempts >= 2
TooOften(attempts)      == attempts >= 3

(* Mutant: the job is not put back. *)
RequeueNothing(w) ==
  /\ pc[w] = "decide" /\ mem[w].says = "error"
  /\ jobs' = [jobs EXCEPT ![mem[w].job].failures = @ + 1]
  /\ Return(w)
  /\ UNCHANGED <<module, pointed, entries, billed, shared>>

(* An error puts the job back, unless it has failed too often, *)
Requeue(w) ==
  LET given == TooOften(mem[w].attempts)
  IN /\ pc[w] = "decide" /\ mem[w].says = "error"
     /\ jobs' = [jobs EXCEPT ![mem[w].job].state = IF given THEN "error" ELSE "queued",
                             ![mem[w].job].failures = @ + 1]
     /\ IF given THEN Goto(w, "giveup", mem[w]) /\ UNCHANGED faults ELSE Return(w)
     /\ UNCHANGED <<module, pointed, entries, billed, shared>>

(* when the run becomes the operator's; *)
GiveUp(w) ==
  /\ pc[w] = "giveup"
  /\ entries' = [entries EXCEPT ![mem[w].job] = [status |-> "review", verification |-> "failed"]]
  /\ Return(w)
  /\ UNCHANGED <<module, pointed, jobs, billed, shared>>

(* a verdict decides job and run, and is billed, in one batch. *)
Decide(w) ==
  LET says == mem[w].says
      j    == mem[w].job
  IN /\ pc[w] = "decide" /\ says # "error" /\ billed < MaxBilled
     /\ jobs' = [jobs EXCEPT ![j].state = "done", ![j].verdict = says]
     /\ entries' = [entries EXCEPT ![j] =
          [status |-> IF says = "verified" THEN "counted" ELSE "rejected", verification |-> says]]
     /\ billed' = billed + 1
     /\ Return(w)
     /\ UNCHANGED <<module, pointed, shared>>

-----------------------------------------------------------------------------
(* A call that fails throws in the verifier; claiming throws out of drain. *)
Lose(w) ==
  /\ \/ pc[w] \in {"take", "fetch"} /\ Goto(w, "idle", Blank)
     \/ pc[w] \in {"report", "decide", "giveup"} /\ Throw(w)
  /\ Fail
  /\ UNCHANGED <<module, pointed, jobs, entries, billed, shared>>

(* A verifier that dies is started again. *)
Die(w) ==
  /\ pc[w] # "idle" /\ Goto(w, "idle", Blank)
  /\ Fail
  /\ UNCHANGED <<module, pointed, jobs, entries, billed, shared>>

GoesOn(w) ==
  \/ Claim(w) \/ Take(w) \/ Fetch(w) \/ Work(w)
  \/ Read(w) \/ Requeue(w) \/ GiveUp(w) \/ Decide(w)

Next == Upload \/ Point \/ Queue \/ \E w \in Workers : GoesOn(w) \/ Lose(w) \/ Die(w)

Spec == Init /\ [][Next]_vars

(* A verifier drains the queue again and again. *)
Fairness == \A w \in Workers : WF_vars(GoesOn(w))

FairSpec == Spec /\ Fairness

-----------------------------------------------------------------------------
(* "The job goes back into the queue unless it has failed too often": a    *)
(* job is given up only after three error verdicts, also when two          *)
(* verifiers hold it and read its attempts before the other one writes.    *)
NoEarlyGiveUp ==
  \A j \in DOMAIN jobs : jobs[j].state = "error" => jobs[j].failures >= 3

(* "Our problem, not the player's": while no job is in two hands, a run is *)
(* decided by its verdict alone, once, and billed once, also when the      *)
(* answer is lost and the verifier reports an error after the verdict.     *)
VerdictsStand ==
  ~shared =>
    /\ billed = Cardinality({j \in DOMAIN jobs : jobs[j].state = "done"})
    /\ \A j \in DOMAIN jobs :
         entries[j].status = CASE jobs[j].state # "done" -> "review"
                               [] jobs[j].verdict = "verified" -> "counted"
                               [] jobs[j].verdict = "failed" -> "rejected"

(* Every job that is queued comes to a verdict or is given up, unless a    *)
(* call failed, a verifier died or two held the same job: nothing ever     *)
(* takes up a job that was left claimed.                                   *)
EveryJobEnds ==
  \A j \in 1..MaxJobs :
    j \in DOMAIN jobs ~>
      \/ j \in DOMAIN jobs /\ jobs[j].state \in {"done", "error"}
      \/ faults > 0 \/ shared
=============================================================================
