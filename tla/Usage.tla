-------------------------------- MODULE Usage --------------------------------
(***************************************************************************)
(* usage.ts: the entries of one app, by day, and the counters the cron     *)
(* freezes them into.  The day of an entry is that of occurred_at, which   *)
(* may lie in the past, or one day ahead.                                  *)
(***************************************************************************)
EXTENDS Integers

CONSTANTS
  LastDay,     \* bound: the days are 1..LastDay
  MaxEntries,  \* bound on the entries of a day
  Nil

VARIABLES
  today,
  entries,   \* how many entries of each day the ledger holds
  counter,   \* usage_counters.count of each day, or Nil
  frozen,    \* the days in usage_frozen
  step,      \* the next statement of freezeUsage()
  day,       \* the day it is at, yesterday first
  already,   \* the days it has read from usage_frozen
  count      \* the number it has read

vars == <<today, entries, counter, frozen, step, day, already, count>>

Days == 1..LastDay

(* Tables and local variables keep their types. *)
TypeOK ==
  /\ today \in Days
  /\ entries \in [Days -> 0..MaxEntries]
  /\ counter \in [Days -> 1..MaxEntries \cup {Nil}]
  /\ frozen \subseteq Days
  /\ step \in {"idle", "read", "day", "counter", "mark"}
  /\ day \in 0..LastDay /\ (step \in {"counter", "mark"} => day > 0)
  /\ already \subseteq Days
  /\ count \in 0..MaxEntries

Init ==
  /\ today = 1
  /\ entries = [d \in Days |-> 0]
  /\ counter = [d \in Days |-> Nil]
  /\ frozen = {}
  /\ step = "idle" /\ day = 0 /\ already = {} /\ count = 0

tables == <<today, entries, counter, frozen>>
locals == <<step, day, already, count>>

(* What is added to the ledger, deleted with an account, and time. *)
Submit(d) ==
  /\ d <= today + 1 /\ entries[d] < MaxEntries
  /\ entries' = [entries EXCEPT ![d] = @ + 1]
  /\ UNCHANGED <<today, counter, frozen, locals>>

Erase(d) ==
  /\ entries[d] > 0
  /\ entries' = [entries EXCEPT ![d] = @ - 1]
  /\ UNCHANGED <<today, counter, frozen, locals>>

Midnight ==
  /\ today < LastDay
  /\ today' = today + 1
  /\ UNCHANGED <<entries, counter, frozen, locals>>

(* freezeUsage() is called: from yesterday back, the whole window. *)
Freeze ==
  /\ step = "idle"
  /\ step' = "read" /\ day' = today - 1
  /\ UNCHANGED <<tables, already, count>>

(* Mutant: no day is skipped. *)
ReadNothing ==
  /\ step = "read"
  /\ step' = "day" /\ already' = {}
  /\ UNCHANGED <<tables, day, count>>

(* SELECT the days in usage_frozen. *)
ReadFrozen ==
  /\ step = "read"
  /\ step' = "day" /\ already' = frozen
  /\ UNCHANGED <<tables, day, count>>

(* They are skipped, not recomputed. *)
Skip ==
  /\ step = "day" /\ day \in already
  /\ day' = day - 1
  /\ UNCHANGED <<tables, step, already, count>>

CountDay ==
  /\ step = "day" /\ day > 0 /\ day \notin already
  /\ count' = entries[day]
  /\ step' = IF count' > 0 THEN "counter" ELSE "mark"
  /\ UNCHANGED <<tables, day, already>>

WriteCounter ==
  /\ step = "counter"
  /\ counter' = [counter EXCEPT ![day] = count]
  /\ step' = "mark"
  /\ UNCHANGED <<today, entries, frozen, day, already, count>>

(* Mutant: a day without entries gets no marker. *)
MarkCounted ==
  /\ step = "mark"
  /\ frozen' = IF counter[day] = Nil THEN frozen ELSE frozen \cup {day}
  /\ step' = "day" /\ day' = day - 1
  /\ UNCHANGED <<today, entries, counter, already, count>>

(* INSERT INTO usage_frozen; then the day before. *)
Mark ==
  /\ step = "mark"
  /\ frozen' = frozen \cup {day}
  /\ step' = "day" /\ day' = day - 1
  /\ UNCHANGED <<today, entries, counter, already, count>>

Finish ==
  /\ step' = "idle" /\ day' = 0 /\ already' = {} /\ count' = 0
  /\ UNCHANGED tables

Return == step = "day" /\ day = 0 /\ Finish
Die    == step # "idle" /\ Finish

Proceed == ReadFrozen \/ Skip \/ CountDay \/ WriteCounter \/ Mark \/ Return

(* usageForMonth(): the counters, and the ledger for days without marker. *)
Reported(d) ==
  (IF counter[d] = Nil THEN 0 ELSE counter[d]) + (IF d \in frozen THEN 0 ELSE entries[d])

-----------------------------------------------------------------------------
(* A frozen day stays as it was reported, whatever is erased, submitted or *)
(* run again afterwards, also by a cron that died and left a counter.      *)
FrozenStays == [][\A d \in frozen : d \in frozen' /\ Reported(d)' = Reported(d)]_vars

(* Every day that is over is frozen in the end. *)
EveryDayIsFrozen == \A d \in Days : d < today ~> d \in frozen
=============================================================================
