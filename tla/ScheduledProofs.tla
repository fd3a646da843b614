--------------------------- MODULE ScheduledProofs ---------------------------
(***************************************************************************)
(* Webhooks and usage under the cron, for any number of deliveries,        *)
(* requests, days and deaths.                                              *)
(***************************************************************************)
EXTENDS Scheduled, TLAPS

Handlers == Requests \cup {Cron}

(* A row that has been read and not posted yet, and one that has.  Its     *)
(* number of attempts may be old by now, but never more than the posts.    *)
Fresh(row)  == row \in W!Read /\ row.attempts < MAX_ATTEMPTS /\ row.attempts =< sent[row.id]
Posted(row) == row \in W!Read /\ row.attempts < MAX_ATTEMPTS /\ row.attempts < sent[row.id]

HandlerOK(h) ==
  /\ \A row \in mem[h].todo : Fresh(row)
  /\ pc[h] = "send" => Fresh(mem[h].row)
  /\ pc[h] = "write" => Posted(mem[h].row)

DeliveryOK(d) ==
  delivery[d] # Nil =>
    /\ delivery[d].attempts =< sent[d]
    /\ delivery[d].state = "pending" => delivery[d].attempts < MAX_ATTEMPTS
    /\ delivery[d].state = "failed" => sent[d] >= MAX_ATTEMPTS

HooksInv ==
  /\ W!TypeOK
  /\ delivery \in [Deliveries -> W!Delivery \cup {Nil}]
  /\ \A h \in Handlers : HandlerOK(h)
  /\ \A d \in Deliveries : DeliveryOK(d)

(* Of the days still to come, the frozen ones are those the cron has read  *)
(* as frozen: the day it writes is not one of them.                        *)
UsageInv ==
  /\ U!TypeOK
  /\ step \in {"day", "counter", "mark"} => \A d \in frozen : d =< day => d \in already
  /\ step \in {"counter", "mark"} => day \notin already
  /\ step = "counter" => count > 0

(* A counter that lacks its marker is the one being written. *)
MarkerInv ==
  deaths = 0 =>
    \A d \in U!Days : counter[d] # Nil => d \in frozen \/ (step = "mark" /\ d = day)

Inv == HooksInv /\ UsageInv /\ MarkerInv /\ TypeOK

-----------------------------------------------------------------------------
(* The deliveries: one lemma per action of a handler.                      *)

LEMMA InsertKeeps ==
  ASSUME HooksInv, NEW h \in Handlers, W!Insert(h)
  PROVE  HooksInv'
<1> USE AttemptsAssumption, NilAssumption DEF Handlers
<1>1. CASE Deliveries = W!Queued /\ W!Goto(h, "idle", W!Blank) /\ UNCHANGED <<active, delivery, sent>>
  BY <1>1 DEF HooksInv, HandlerOK, Fresh, Posted, DeliveryOK, W!TypeOK, W!Read, W!Locals, W!Blank, W!Goto
<1>2. ASSUME NEW d \in Deliveries \ W!Queued,
             delivery' = [delivery EXCEPT ![d] = [state |-> "pending", attempts |-> 0, due |-> TRUE]],
             W!Goto(h, "send", [W!Blank EXCEPT !.row = [id |-> d, attempts |-> 0]]),
             UNCHANGED <<active, sent>>
      PROVE  HooksInv'
  <2> DEFINE new == [state |-> "pending", attempts |-> 0, due |-> TRUE]
             loc == [W!Blank EXCEPT !.row = [id |-> d, attempts |-> 0]]
  <2>1. new \in W!Delivery /\ new.state = "pending" /\ new.attempts = 0
    BY DEF W!Delivery
  <2>2. loc \in W!Locals /\ loc.todo = {} /\ loc.row \in W!Read /\ loc.row.id = d /\ loc.row.attempts = 0
    <3> DEFINE row == [id |-> d, attempts |-> 0]
    <3>1. row \in W!Read /\ row.id = d /\ row.attempts = 0
      BY DEF W!Read
    <3> HIDE DEF row
    <3>2. [W!Blank EXCEPT !.row = row] \in W!Locals /\ [W!Blank EXCEPT !.row = row].todo = {}
          /\ [W!Blank EXCEPT !.row = row].row = row
      BY <3>1 DEF W!Locals, W!Blank
    <3> QED BY <3>1, <3>2 DEF row
  <2> HIDE DEF new, loc
  <2>3. delivery' = [delivery EXCEPT ![d] = new] /\ pc' = [pc EXCEPT ![h] = "send"] /\ mem' = [mem EXCEPT ![h] = loc]
    BY <1>2 DEF new, loc, W!Goto
  <2>4. W!TypeOK' /\ delivery' \in [Deliveries -> W!Delivery \cup {Nil}]
    BY <1>2, <2>1, <2>2, <2>3 DEF HooksInv, W!TypeOK
  <2>5. \A g \in Handlers : HandlerOK(g)'
    BY <1>2, <2>2, <2>3 DEF HooksInv, HandlerOK, Fresh, Posted, W!TypeOK
  <2>6. \A e \in Deliveries : DeliveryOK(e)'
    BY <1>2, <2>1, <2>3 DEF HooksInv, DeliveryOK, W!TypeOK
  <2> QED BY <2>4, <2>5, <2>6 DEF HooksInv
<1> QED BY <1>1, <1>2 DEF W!Insert

LEMMA RetryDueKeeps ==
  ASSUME HooksInv, NEW h \in Handlers, W!RetryDue(h)
  PROVE  HooksInv'
<1> USE AttemptsAssumption, NilAssumption DEF Handlers
<1> DEFINE rows == {[id |-> d, attempts |-> delivery[d].attempts] : d \in IF active THEN W!Due ELSE {}}
           loc  == [W!Blank EXCEPT !.todo = rows]
<1>1. \A row \in rows : Fresh(row)
  BY DEF HooksInv, DeliveryOK, Fresh, W!Due, W!Queued, W!Read, W!Delivery, W!TypeOK
<1>2. loc \in W!Locals /\ loc.todo = rows
  BY <1>1 DEF W!Locals, W!Blank, Fresh
<1>3. pc' = [pc EXCEPT ![h] = "next"] /\ mem' = [mem EXCEPT ![h] = loc] /\ UNCHANGED <<active, delivery, sent>>
  BY DEF W!RetryDue, W!Goto
<1> HIDE DEF rows, loc
<1>4. W!TypeOK'
  BY <1>2, <1>3 DEF HooksInv, W!TypeOK
<1>5. \A g \in Handlers : HandlerOK(g)'
  BY <1>1, <1>2, <1>3 DEF HooksInv, HandlerOK, Fresh, Posted, W!TypeOK
<1> QED BY <1>3, <1>4, <1>5 DEF HooksInv, DeliveryOK

LEMMA NextRowKeeps ==
  ASSUME HooksInv, NEW h \in Handlers, W!NextRow(h)
  PROVE  HooksInv'
<1> USE NilAssumption DEF Handlers
<1>1. CASE mem[h].todo = {} /\ W!Goto(h, "idle", W!Blank)
  BY <1>1 DEF HooksInv, HandlerOK, Fresh, Posted, DeliveryOK, W!TypeOK, W!Read, W!Locals, W!Blank, W!Goto, W!NextRow
<1>2. ASSUME NEW row \in mem[h].todo,
             W!Goto(h, "send", [mem[h] EXCEPT !.row = row, !.todo = @ \ {row}])
      PROVE  HooksInv'
  <2> DEFINE loc == [mem[h] EXCEPT !.row = row, !.todo = @ \ {row}]
  <2>1. mem[h] \in W!Locals /\ Fresh(row)
    BY DEF HooksInv, HandlerOK, W!TypeOK
  <2>2. loc \in W!Locals /\ loc.todo \subseteq mem[h].todo /\ loc.row = row
    BY <2>1 DEF W!Locals, Fresh
  <2>3. pc' = [pc EXCEPT ![h] = "send"] /\ mem' = [mem EXCEPT ![h] = loc] /\ UNCHANGED <<active, delivery, sent>>
    BY <1>2 DEF W!NextRow, W!Goto
  <2> HIDE DEF loc
  <2>4. W!TypeOK'
    BY <2>2, <2>3 DEF HooksInv, W!TypeOK
  <2>5. \A g \in Handlers : HandlerOK(g)'
    BY <2>1, <2>2, <2>3 DEF HooksInv, HandlerOK, Fresh, Posted, W!TypeOK
  <2> QED BY <2>3, <2>4, <2>5 DEF HooksInv, DeliveryOK
<1> QED BY <1>1, <1>2 DEF W!NextRow

(* A post adds to what has been sent; the cap is above what is compared.   *)
LEMMA SendKeeps ==
  ASSUME HooksInv, NEW h \in Handlers, W!Send(h)
  PROVE  HooksInv'
<1> USE AttemptsAssumption, NilAssumption DEF Handlers
<1>1. PICK row \in W!Read : row = mem[h].row /\ Fresh(row) /\ mem[h] \in W!Locals
  BY DEF HooksInv, HandlerOK, W!Send, W!TypeOK, Fresh
<1>2. PICK ok \in BOOLEAN : W!Goto(h, "write", [mem[h] EXCEPT !.ok = ok])
  BY DEF W!Send
<1> DEFINE loc == [mem[h] EXCEPT !.ok = ok]
<1>3. loc \in W!Locals /\ loc.todo = mem[h].todo /\ loc.row = row
  BY <1>1 DEF W!Locals
<1>4. /\ pc' = [pc EXCEPT ![h] = "write"] /\ mem' = [mem EXCEPT ![h] = loc] /\ UNCHANGED <<active, delivery>>
      /\ sent' = [sent EXCEPT ![row.id] = IF @ > MAX_ATTEMPTS THEN @ ELSE @ + 1]
  BY <1>1, <1>2 DEF W!Send, W!Goto
<1> HIDE DEF loc
<1>5. /\ sent' \in [Deliveries -> 0..(MAX_ATTEMPTS + 1)]
      /\ \A d \in Deliveries : sent[d] =< sent'[d]
      /\ row.attempts < sent'[row.id]
  BY <1>1, <1>4 DEF HooksInv, W!TypeOK, Fresh, W!Read
<1>6. W!TypeOK'
  BY <1>3, <1>4, <1>5 DEF HooksInv, W!TypeOK
<1>7. \A g \in Handlers : HandlerOK(g)'
  <2> TAKE g \in Handlers
  <2>1. \A r \in W!Read : Fresh(r) => Fresh(r)'
    BY <1>5 DEF HooksInv, W!TypeOK, Fresh, W!Read
  <2>2. \A r \in W!Read : Posted(r) => Posted(r)'
    BY <1>5 DEF HooksInv, W!TypeOK, Posted, W!Read
  <2>3. CASE g = h
    <3>1. mem'[h] = loc /\ pc'[h] = "write"
      BY <1>4 DEF HooksInv, W!TypeOK
    <3>2. Posted(row)'
      BY <1>1, <1>5 DEF Fresh, Posted
    <3> QED BY <2>1, <2>3, <3>1, <3>2, <1>3 DEF HooksInv, HandlerOK, Fresh, Posted
  <2>4. CASE g # h
    BY <2>1, <2>2, <2>4, <1>4 DEF HooksInv, HandlerOK, Fresh, Posted, W!TypeOK
  <2> QED BY <2>3, <2>4
<1>8. \A d \in Deliveries : DeliveryOK(d)'
  BY <1>4, <1>5 DEF HooksInv, DeliveryOK, W!TypeOK, W!Delivery
<1> QED BY <1>4, <1>6, <1>7, <1>8 DEF HooksInv

(* The outcome is written over whatever the row has become.                *)
LEMMA WriteKeeps ==
  ASSUME HooksInv, NEW h \in Handlers, W!Write(h)
  PROVE  HooksInv'
<1> USE AttemptsAssumption, NilAssumption DEF Handlers
<1>1. PICK row \in W!Read : row = mem[h].row /\ Posted(row) /\ mem[h] \in W!Locals
  BY DEF HooksInv, HandlerOK, W!Write, W!TypeOK, Posted
<1> DEFINE state == IF mem[h].ok THEN "delivered"
                    ELSE IF W!Exhausted(row.attempts + 1) THEN "failed" ELSE "pending"
           new == [state |-> state, attempts |-> row.attempts + 1,
                   due |-> mem[h].ok /\ delivery[row.id].due]
           loc == [mem[h] EXCEPT !.row = Nil, !.ok = FALSE]
<1>2. state \in {"pending", "delivered", "failed"} /\ row.attempts + 1 \in 0..MAX_ATTEMPTS
  BY <1>1 DEF Posted, W!Read
<1>3. (mem[h].ok /\ delivery[row.id].due) \in BOOLEAN
  OBVIOUS
<1>4. /\ new \in W!Delivery /\ new.attempts = row.attempts + 1
      /\ new.state = "pending" => row.attempts + 1 < MAX_ATTEMPTS
      /\ new.state = "failed" => row.attempts + 1 >= MAX_ATTEMPTS
  BY <1>1, <1>2, <1>3 DEF W!Delivery, W!Read, W!Exhausted
<1>5. loc \in W!Locals /\ loc.todo = mem[h].todo
  BY <1>1 DEF W!Locals
<1>6. /\ pc' = [pc EXCEPT ![h] = "next"] /\ mem' = [mem EXCEPT ![h] = loc] /\ UNCHANGED <<active, sent>>
      /\ delivery' = [delivery EXCEPT ![row.id] = new]
  BY <1>1 DEF W!Write, W!Goto
<1> HIDE DEF new, loc
<1>7. W!TypeOK' /\ delivery' \in [Deliveries -> W!Delivery \cup {Nil}]
  BY <1>4, <1>5, <1>6 DEF HooksInv, W!TypeOK
<1>8. \A g \in Handlers : HandlerOK(g)'
  BY <1>5, <1>6 DEF HooksInv, HandlerOK, Fresh, Posted, W!TypeOK
<1>9. \A d \in Deliveries : DeliveryOK(d)'
  BY <1>1, <1>4, <1>6 DEF HooksInv, DeliveryOK, W!TypeOK, Posted, W!Read
<1> QED BY <1>7, <1>8, <1>9 DEF HooksInv

LEMMA CallsAndTimeKeep ==
  ASSUME HooksInv
  PROVE  /\ W!Deactivate => HooksInv'
         /\ \A d \in Deliveries : W!ComeDue(d) => HooksInv'
         /\ \A h \in Handlers : W!Event(h) \/ W!Die(h) => HooksInv'
         /\ UNCHANGED hooks => HooksInv'
<1> USE AttemptsAssumption, NilAssumption DEF Handlers
<1>1. W!Deactivate => HooksInv'
  BY DEF HooksInv, HandlerOK, Fresh, Posted, DeliveryOK, W!TypeOK, W!Deactivate
<1>2. ASSUME NEW d \in Deliveries, W!ComeDue(d) PROVE HooksInv'
  <2>1. PICK k \in W!Delivery : k = delivery[d]
    BY <1>2 DEF W!ComeDue, W!Queued, HooksInv
  <2> DEFINE new == [k EXCEPT !.due = TRUE]
  <2>2. new \in W!Delivery /\ new.state = k.state /\ new.attempts = k.attempts
    BY <2>1 DEF W!Delivery
  <2>3. delivery' = [delivery EXCEPT ![d] = new] /\ UNCHANGED <<active, sent, pc, mem>>
    BY <1>2, <2>1 DEF W!ComeDue
  <2> HIDE DEF new
  <2>4. delivery[d] # Nil
    BY <1>2 DEF W!ComeDue, W!Queued
  <2>5. W!TypeOK' /\ delivery' \in [Deliveries -> W!Delivery \cup {Nil}]
    BY <2>2, <2>3 DEF HooksInv, W!TypeOK
  <2>6. \A e \in Deliveries : DeliveryOK(e)'
    BY <2>1, <2>2, <2>3, <2>4 DEF HooksInv, DeliveryOK
  <2> QED BY <2>3, <2>5, <2>6 DEF HooksInv, HandlerOK, Fresh, Posted
<1>3. ASSUME NEW h \in Handlers, W!Event(h) \/ W!Die(h) PROVE HooksInv'
  <2>1. W!Blank \in W!Locals /\ W!Blank.todo = {}
    BY DEF W!Blank, W!Locals
  <2>2. /\ pc' \in [Handlers -> {"idle", "insert", "next", "send", "write"}]
        /\ pc'[h] \in {"idle", "insert"} /\ mem' = [mem EXCEPT ![h] = W!Blank]
        /\ \A g \in Handlers \ {h} : pc'[g] = pc[g]
        /\ UNCHANGED <<active, delivery, sent>>
    BY <1>3 DEF HooksInv, W!TypeOK, W!Event, W!Die, W!Goto
  <2>3. W!TypeOK'
    BY <2>1, <2>2 DEF HooksInv, W!TypeOK
  <2>4. \A g \in Handlers : HandlerOK(g)'
    BY <2>1, <2>2 DEF HooksInv, HandlerOK, Fresh, Posted, W!TypeOK
  <2> QED BY <2>2, <2>3, <2>4 DEF HooksInv, DeliveryOK
<1>4. UNCHANGED hooks => HooksInv'
  BY DEF hooks, HooksInv, HandlerOK, Fresh, Posted, DeliveryOK, W!TypeOK
<1> QED BY <1>1, <1>2, <1>3, <1>4

(* Every step of Webhooks keeps what is known of the deliveries.           *)
LEMMA HooksKeep ==
  ASSUME HooksInv, NEW h \in Handlers,
         W!Event(h) \/ W!RetryDue(h) \/ W!Proceed(h) \/ W!Die(h) \/ UNCHANGED hooks
  PROVE  HooksInv'
  BY InsertKeeps, RetryDueKeeps, NextRowKeeps, SendKeeps, WriteKeeps, CallsAndTimeKeep DEF W!Proceed

-----------------------------------------------------------------------------
(* The days.                                                               *)

LEMMA UsageKeeps ==
  ASSUME UsageInv, U!Freeze \/ U!Proceed \/ U!Die \/ UNCHANGED usage
  PROVE  UsageInv'
<1> USE BoundAssumption, NilAssumption DEF UsageInv, U!TypeOK, U!Days, U!locals, U!tables
<1>1. CASE U!Freeze       BY <1>1 DEF U!Freeze
<1>2. CASE U!ReadFrozen   BY <1>2 DEF U!ReadFrozen
<1>3. CASE U!Skip         BY <1>3 DEF U!Skip
<1>4. CASE U!CountDay     BY <1>4 DEF U!CountDay
<1>5. CASE U!WriteCounter BY <1>5 DEF U!WriteCounter
<1>6. CASE U!Mark         BY <1>6 DEF U!Mark
<1>7. CASE U!Return       BY <1>7 DEF U!Return, U!Finish
<1>8. CASE U!Die          BY <1>8 DEF U!Die, U!Finish
<1>9. CASE UNCHANGED usage BY <1>9 DEF usage
<1> QED BY <1>1, <1>2, <1>3, <1>4, <1>5, <1>6, <1>7, <1>8, <1>9 DEF U!Proceed

LEMMA LedgerKeeps ==
  ASSUME UsageInv, U!Midnight \/ \E d \in U!Days : U!Submit(d) \/ U!Erase(d)
  PROVE  UsageInv' /\ UNCHANGED <<counter, frozen, step, day>>
<1> USE BoundAssumption DEF UsageInv, U!TypeOK, U!Days, U!locals
<1>1. CASE U!Midnight BY <1>1 DEF U!Midnight
<1>2. ASSUME NEW d \in U!Days, U!Submit(d) \/ U!Erase(d)
      PROVE  UsageInv' /\ UNCHANGED <<counter, frozen, step, day>>
  <2>1. entries' \in [U!Days -> 0..MaxEntries]
    BY <1>2 DEF U!Submit, U!Erase
  <2> QED BY <1>2, <2>1 DEF U!Submit, U!Erase
<1> QED BY <1>1, <1>2

(* Writing a counter leaves it to the marker; only a death comes between.  *)
LEMMA MarkerKept ==
  ASSUME UsageInv, MarkerInv, UNCHANGED deaths, U!Freeze \/ U!Proceed \/ UNCHANGED usage
  PROVE  MarkerInv'
<1> USE BoundAssumption DEF MarkerInv, UsageInv, U!TypeOK, U!Days, U!tables, U!locals
<1>1. CASE U!Freeze       BY <1>1 DEF U!Freeze
<1>2. CASE U!ReadFrozen   BY <1>2 DEF U!ReadFrozen
<1>3. CASE U!Skip         BY <1>3 DEF U!Skip
<1>4. CASE U!CountDay     BY <1>4 DEF U!CountDay
<1>5. CASE U!WriteCounter BY <1>5 DEF U!WriteCounter
<1>6. CASE U!Mark         BY <1>6 DEF U!Mark
<1>7. CASE U!Return       BY <1>7 DEF U!Return, U!Finish
<1>8. CASE UNCHANGED usage BY <1>8 DEF usage
<1> QED BY <1>1, <1>2, <1>3, <1>4, <1>5, <1>6, <1>7, <1>8 DEF U!Proceed

(* A frozen day is not among the days to write: its counter stays.         *)
LEMMA CounterStays ==
  ASSUME UsageInv, U!Freeze \/ U!Proceed \/ U!Die \/ UNCHANGED usage, NEW d \in frozen
  PROVE  d \in frozen' /\ counter'[d] = counter[d]
<1> USE BoundAssumption DEF UsageInv, U!TypeOK, U!Days, U!tables, U!locals
<1>1. CASE U!Proceed
  BY <1>1 DEF U!Proceed, U!ReadFrozen, U!Skip, U!CountDay, U!WriteCounter, U!Mark, U!Return, U!Finish
<1>2. CASE U!Freeze \/ U!Die \/ UNCHANGED usage
  BY <1>2 DEF U!Freeze, U!Die, U!Finish, usage
<1> QED BY <1>1, <1>2

-----------------------------------------------------------------------------
(* Composed.                                                               *)

StageOK ==
  /\ stage \in {"idle", "retry", "freeze"}
  /\ deaths \in 0..MaxDeaths
  /\ pc[Cron] # "idle" => stage = "retry"
  /\ step # "idle" => stage = "freeze"

LEMMA InitInv == Init => Inv
<1> SUFFICES ASSUME Init PROVE Inv
  OBVIOUS
<1> USE AttemptsAssumption, BoundAssumption, NilAssumption DEF Init, W!Init, U!Init
<1>1. HooksInv
  <2>1. W!Blank \in W!Locals /\ W!Blank.todo = {}
    BY DEF W!Blank, W!Locals
  <2> QED BY <2>1 DEF HooksInv, W!TypeOK, HandlerOK, DeliveryOK, Handlers
<1>2. UsageInv /\ MarkerInv
  BY DEF UsageInv, MarkerInv, U!TypeOK, U!Days
<1> QED BY <1>1, <1>2 DEF Inv, TypeOK, HooksInv, UsageInv

(* What a step does to the two halves: who moves, and who stands still.    *)
LEMMA StepOfHalves ==
  ASSUME Inv, [Next]_vars
  PROVE  /\ \/ \E h \in Handlers : W!Event(h) \/ W!RetryDue(h) \/ W!Proceed(h) \/ W!Die(h)
            \/ W!Deactivate \/ \E d \in Deliveries : W!ComeDue(d)
            \/ UNCHANGED hooks
         /\ \/ U!Freeze \/ U!Proceed \/ U!Die \/ UNCHANGED usage
            \/ U!Midnight \/ \E d \in U!Days : U!Submit(d) \/ U!Erase(d)
  BY DEF Next, Trigger, CronGoesOn, Retry, GoOn, FreezeOn, End, CronDies, Request, RequestDies,
         Hooks, Ledger, vars, Handlers

LEMMA StageKept ==
  ASSUME Inv, [Next]_vars
  PROVE  StageOK'
<1> USE BoundAssumption, CronAssumption DEF Inv, TypeOK, StageOK
<1>1. CASE Trigger  BY <1>1 DEF Trigger, W!RetryDue, W!Goto, usage, HooksInv, W!TypeOK
<1>2. CASE Retry    BY <1>2 DEF Retry, usage
<1>3. CASE GoOn     BY <1>3 DEF GoOn, U!Freeze, hooks
<1>4. CASE FreezeOn BY <1>4 DEF FreezeOn, hooks
<1>5. CASE End      BY <1>5 DEF End, hooks, usage
<1>6. CASE CronDies
  <2>1. pc'[Cron] = "idle"
    BY <1>6 DEF CronDies, W!Die, W!Goto, hooks, HooksInv, W!TypeOK
  <2>2. step' = "idle"
    BY <1>6 DEF CronDies, U!Die, U!Finish, usage
  <2> QED BY <1>6, <2>1, <2>2 DEF CronDies
<1>7. ASSUME NEW h \in Requests, Request(h) \/ RequestDies(h) PROVE StageOK'
  <2>1. pc'[Cron] = pc[Cron]
    BY <1>7 DEF Request, RequestDies, W!Event, W!RetryDue, W!Proceed, W!Insert, W!NextRow, W!Send, W!Write,
                W!Die, W!Goto, HooksInv, W!TypeOK
  <2> QED BY <1>7, <2>1 DEF Request, RequestDies, usage
<1>8. CASE Hooks    BY <1>8 DEF Hooks, W!Deactivate, W!ComeDue, usage
<1>9. CASE Ledger   BY <1>9 DEF Ledger, U!Midnight, U!Submit, U!Erase, U!locals, hooks
<1>10. CASE UNCHANGED vars BY <1>10 DEF vars, hooks, usage
<1> QED BY <1>1, <1>2, <1>3, <1>4, <1>5, <1>6, <1>7, <1>8, <1>9, <1>10 DEF Next, CronGoesOn

(* A death costs the right to speak of markers, and nothing else does.     *)
LEMMA MarkerStep ==
  ASSUME Inv, [Next]_vars
  PROVE  MarkerInv'
<1>1. deaths \in Nat
  BY BoundAssumption DEF Inv, TypeOK
<1>2. CASE deaths' # deaths
  BY <1>1, <1>2 DEF Next, Trigger, CronGoesOn, Retry, GoOn, FreezeOn, End, CronDies, Request, RequestDies,
                    Hooks, Ledger, vars, MarkerInv
<1>3. CASE deaths' = deaths /\ (U!Freeze \/ U!Proceed \/ UNCHANGED usage)
  BY <1>3, MarkerKept DEF Inv
<1>4. CASE deaths' = deaths /\ (U!Midnight \/ \E d \in U!Days : U!Submit(d) \/ U!Erase(d))
  BY <1>4, LedgerKeeps DEF Inv, MarkerInv
<1>5. CASE deaths' = deaths /\ U!Die /\ ~ UNCHANGED usage
  <2>1. ~CronDies
    BY <1>1, <1>5 DEF CronDies
  <2>2. U!Proceed \/ U!Freeze \/ U!Midnight \/ \E d \in U!Days : U!Submit(d) \/ U!Erase(d)
    BY <1>5, <2>1 DEF Next, Trigger, CronGoesOn, Retry, GoOn, FreezeOn, End, Request, RequestDies,
                    Hooks, Ledger, vars
  <2> QED BY <1>5, <2>2, MarkerKept, <1>4, <1>3
<1> QED BY <1>2, <1>3, <1>4, <1>5, StepOfHalves

LEMMA StepInv == Inv /\ [Next]_vars => Inv'
<1> SUFFICES ASSUME Inv, [Next]_vars PROVE Inv'
  OBVIOUS
<1>1. HooksInv'
  BY StepOfHalves, HooksKeep, CallsAndTimeKeep DEF Inv
<1>2. UsageInv'
  BY StepOfHalves, UsageKeeps, LedgerKeeps DEF Inv
<1> QED BY <1>1, <1>2, StageKept, MarkerStep DEF Inv, TypeOK, StageOK, HooksInv, UsageInv

LEMMA Invariant == Spec => []Inv
  BY InitInv, StepInv, PTL DEF Spec

(* Both parts and the cron keep their types.                               *)
THEOREM TypeCorrect == Spec => []TypeOK
<1>1. Inv => TypeOK
  BY DEF Inv
<1> QED BY <1>1, Invariant, PTL

(* A delivery is given up only after MAX_ATTEMPTS posts of it (webhooks.ts *)
(* 89-95), however many handlers work at it at once.                       *)
THEOREM GivenUpAfterAll == Spec => []GivingUpIsEarned
<1>1. Inv => GivingUpIsEarned
  BY DEF Inv, HooksInv, DeliveryOK, GivingUpIsEarned, W!GivingUpIsEarned, W!Queued
<1> QED BY <1>1, Invariant, PTL

(* Between runs of a cron that never dies, no counter lacks its marker     *)
(* (usage.ts 60-72).                                                       *)
THEOREM CountersAreMarked == Spec => []CounterHasMarker
<1>1. Inv => CounterHasMarker
  BY DEF Inv, TypeOK, MarkerInv, CounterHasMarker
<1> QED BY <1>1, Invariant, PTL

(* What has been frozen is reported unchanged for ever, whatever becomes   *)
(* of the ledger and of the cron (usage.ts 43-50, 78-147).                 *)
THEOREM FrozenForGood == Spec => FrozenStays
<1> DEFINE Stays == \A d \in frozen : d \in frozen' /\ U!Reported(d)' = U!Reported(d)
<1>1. Inv /\ [Next]_vars => [Stays]_(U!vars)
  <2> SUFFICES ASSUME Inv, [Next]_vars, NEW d \in frozen
               PROVE  d \in frozen' /\ counter'[d] = counter[d]
    BY DEF U!Reported
  <2> QED BY StepOfHalves, CounterStays, LedgerKeeps DEF Inv
<1> QED BY <1>1, Invariant, PTL DEF Spec, FrozenStays, U!FrozenStays
=============================================================================
