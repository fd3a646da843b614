------------------------------ MODULE Scheduled ------------------------------
(***************************************************************************)
(* index.ts scheduled(): once a day the cron sweeps retention, which       *)
(* touches none of these tables, retries the deliveries that are due and   *)
(* then freezes usage, in one handler.  Requests go on meanwhile: events   *)
(* are delivered, an operator retries too, entries come and go.            *)
(***************************************************************************)
EXTENDS Integers

CONSTANTS
  Deliveries, Requests, Cron, MAX_ATTEMPTS, LastDay, MaxEntries, Nil,
  MaxDeaths   \* bound: how many handlers die

ASSUME AttemptsAssumption == MAX_ATTEMPTS \in Nat \ {0}
ASSUME BoundAssumption    == LastDay \in Nat \ {0} /\ MaxEntries \in Nat /\ MaxDeaths \in Nat
ASSUME CronAssumption     == Cron \notin Requests

VARIABLES
  active, delivery, sent, pc, mem,                      \* webhooks
  today, entries, counter, frozen, step, day, already, count,   \* usage
  stage,    \* what the cron is at
  deaths

W == INSTANCE Webhooks WITH Handlers <- Requests \cup {Cron}
U == INSTANCE Usage

ASSUME NilAssumption == Nil \notin W!Delivery \cup W!Read \cup Int

hooks == <<active, delivery, sent, pc, mem>>
usage == <<today, entries, counter, frozen, step, day, already, count>>
vars  == <<hooks, usage, stage, deaths>>

(* Both parts keep their types, and the cron is at one of them at a time.  *)
TypeOK ==
  /\ W!TypeOK /\ U!TypeOK
  /\ stage \in {"idle", "retry", "freeze"}
  /\ deaths \in 0..MaxDeaths
  /\ pc[Cron] # "idle" => stage = "retry"
  /\ step # "idle" => stage = "freeze"

Init ==
  /\ W!Init /\ U!Init
  /\ stage = "idle"
  /\ deaths = 0

Trigger ==
  /\ stage = "idle"
  /\ stage' = "retry"
  /\ W!RetryDue(Cron)
  /\ UNCHANGED <<usage, deaths>>

Retry ==
  /\ stage = "retry"
  /\ W!Proceed(Cron)
  /\ UNCHANGED <<usage, stage, deaths>>

GoOn ==
  /\ stage = "retry" /\ pc[Cron] = "idle"
  /\ stage' = "freeze"
  /\ U!Freeze
  /\ UNCHANGED <<hooks, deaths>>

FreezeOn ==
  /\ stage = "freeze"
  /\ U!Proceed
  /\ UNCHANGED <<hooks, stage, deaths>>

End ==
  /\ stage = "freeze" /\ step = "idle"
  /\ stage' = "idle"
  /\ UNCHANGED <<hooks, usage, deaths>>

CronDies ==
  /\ stage # "idle" /\ deaths < MaxDeaths
  /\ deaths' = deaths + 1
  /\ stage' = "idle"
  /\ IF pc[Cron] # "idle" THEN W!Die(Cron) ELSE UNCHANGED hooks
  /\ IF step # "idle" THEN U!Die ELSE UNCHANGED usage

Request(h) ==
  /\ W!Event(h) \/ W!RetryDue(h) \/ W!Proceed(h)
  /\ UNCHANGED <<usage, stage, deaths>>

RequestDies(h) ==
  /\ deaths < MaxDeaths
  /\ deaths' = deaths + 1
  /\ W!Die(h)
  /\ UNCHANGED <<usage, stage>>

Hooks ==
  /\ W!Deactivate \/ \E d \in Deliveries : W!ComeDue(d)
  /\ UNCHANGED <<usage, stage, deaths>>

Ledger ==
  /\ U!Midnight \/ \E d \in U!Days : U!Submit(d) \/ U!Erase(d)
  /\ UNCHANGED <<hooks, stage, deaths>>

CronGoesOn == Retry \/ GoOn \/ FreezeOn \/ End

Next ==
  \/ Trigger \/ CronGoesOn \/ CronDies \/ Hooks \/ Ledger
  \/ \E h \in Requests : Request(h) \/ RequestDies(h)

Spec == Init /\ [][Next]_vars

(* The cron is called again and again and goes on while it lives; so does  *)
(* a request; and time passes.                                             *)
Fairness ==
  /\ WF_vars(Trigger) /\ WF_vars(CronGoesOn)
  /\ \A h \in Requests : WF_vars(W!Proceed(h) /\ UNCHANGED <<usage, stage, deaths>>)
  /\ \A d \in Deliveries : WF_vars(W!ComeDue(d) /\ UNCHANGED <<usage, stage, deaths>>)

FairSpec == Spec /\ Fairness

-----------------------------------------------------------------------------
(* See Webhooks. *)
GivingUpIsEarned  == W!GivingUpIsEarned
EveryDeliveryEnds == W!EveryDeliveryEnds

(* See Usage. *)
FrozenStays      == U!FrozenStays
EveryDayIsFrozen == U!EveryDayIsFrozen

(* A counter without its marker would make that day count twice; freezing  *)
(* leaves none behind unless the cron has died on the way.                 *)
CounterHasMarker ==
  stage = "idle" /\ deaths = 0 => \A d \in U!Days : counter[d] # Nil => d \in frozen
=============================================================================
