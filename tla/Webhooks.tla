------------------------------ MODULE Webhooks ------------------------------
(***************************************************************************)
(* webhooks.ts: the deliveries of one endpoint.  An event is tried at      *)
(* once; what failed is tried again by whoever calls retryDue(), the cron  *)
(* or an operator, and two of them may be at the same delivery.            *)
(***************************************************************************)
EXTENDS Integers

CONSTANTS
  Deliveries,    \* webhook_deliveries(id)
  Handlers,      \* deliver() or retryDue(), under way
  MAX_ATTEMPTS,
  Nil

VARIABLES
  active,    \* webhooks.active
  delivery,  \* the rows, Nil for one that is not there
  sent,      \* how often each was posted, counted up to MAX_ATTEMPTS + 1
  pc,        \* the next step of each handler
  mem        \* the local variables of each handler

vars == <<active, delivery, sent, pc, mem>>

(* `due` says that next_try_at has passed. *)
Delivery == [state : {"pending", "delivered", "failed"}, attempts : 0..MAX_ATTEMPTS, due : BOOLEAN]

(* A row as retryDue() has read it. *)
Read  == [id : Deliveries, attempts : 0..MAX_ATTEMPTS]
Blank == [todo |-> {}, row |-> Nil, ok |-> FALSE]

Locals == [todo : SUBSET Read, row : Read \cup {Nil}, ok : BOOLEAN]

(* Rows and local variables keep their types, also when handlers that have *)
(* read different numbers of attempts write the same row.                  *)
TypeOK ==
  /\ active \in BOOLEAN
  /\ \A d \in Deliveries : delivery[d] # Nil => delivery[d] \in Delivery
  /\ sent \in [Deliveries -> 0..(MAX_ATTEMPTS + 1)]
  /\ pc \in [Handlers -> {"idle", "insert", "next", "send", "write"}]
  /\ mem \in [Handlers -> Locals]

Init ==
  /\ active = TRUE
  /\ delivery = [d \in Deliveries |-> Nil]
  /\ sent = [d \in Deliveries |-> 0]
  /\ pc = [h \in Handlers |-> "idle"]
  /\ mem = [h \in Handlers |-> Blank]

Queued == {d \in Deliveries : delivery[d] # Nil}
Due    == {d \in Queued : delivery[d].state = "pending" /\ delivery[d].due}
Ended(d) == d \in Queued /\ delivery[d].state \in {"delivered", "failed"}

Goto(h, label, locals) ==
  /\ pc' = [pc EXCEPT ![h] = label]
  /\ mem' = [mem EXCEPT ![h] = locals]

(* deliver(): an active endpoint that wants the event gets a row, due now. *)
Event(h) ==
  /\ pc[h] = "idle" /\ active /\ Deliveries # Queued
  /\ Goto(h, "insert", Blank)
  /\ UNCHANGED <<active, delivery, sent>>

Insert(h) ==
  /\ pc[h] = "insert"
  /\ \/ Deliveries = Queued /\ Goto(h, "idle", Blank) /\ UNCHANGED delivery
     \/ \E d \in Deliveries \ Queued :
          /\ delivery' = [delivery EXCEPT ![d] = [state |-> "pending", attempts |-> 0, due |-> TRUE]]
          /\ Goto(h, "send", [Blank EXCEPT !.row = [id |-> d, attempts |-> 0]])
  /\ UNCHANGED <<active, sent>>

(* retryDue(): the rows as they are now, worked off one after the other.   *)
RetryDue(h) ==
  /\ pc[h] = "idle"
  /\ Goto(h, "next", [Blank EXCEPT !.todo =
       {[id |-> d, attempts |-> delivery[d].attempts] : d \in IF active THEN Due ELSE {}}])
  /\ UNCHANGED <<active, delivery, sent>>

NextRow(h) ==
  /\ pc[h] = "next"
  /\ \/ mem[h].todo = {} /\ Goto(h, "idle", Blank)
     \/ \E row \in mem[h].todo :
          Goto(h, "send", [mem[h] EXCEPT !.row = row, !.todo = @ \ {row}])
  /\ UNCHANGED <<active, delivery, sent>>

(* fetch(): the endpoint answers 2xx, or something else, or not at all. *)
Send(h) ==
  /\ pc[h] = "send"
  /\ sent' = [sent EXCEPT ![mem[h].row.id] = IF @ > MAX_ATTEMPTS THEN @ ELSE @ + 1]
  /\ \E ok \in BOOLEAN : Goto(h, "write", [mem[h] EXCEPT !.ok = ok])
  /\ UNCHANGED <<active, delivery>>

(* Mutant: one attempt too early. *)
ExhaustedEarly(attempts) == attempts + 1 >= MAX_ATTEMPTS
Exhausted(attempts)      == attempts >= MAX_ATTEMPTS

(* Mutant: a failure does not count. *)
WriteUncounted(h) ==
  LET row == mem[h].row IN
  /\ pc[h] = "write"
  /\ delivery' = [delivery EXCEPT ![row.id] =
       [state    |-> IF mem[h].ok THEN "delivered"
                     ELSE IF Exhausted(row.attempts + 1) THEN "failed" ELSE "pending",
        attempts |-> IF mem[h].ok THEN row.attempts + 1 ELSE row.attempts,
        due      |-> mem[h].ok /\ delivery[row.id].due]]
  /\ Goto(h, "next", [mem[h] EXCEPT !.row = Nil, !.ok = FALSE])
  /\ UNCHANGED <<active, sent>>

(* The batch that ends attempt(): by id, from the attempts once read. *)
Write(h) ==
  LET row      == mem[h].row
      attempts == row.attempts + 1
  IN
  /\ pc[h] = "write"
  /\ delivery' = [delivery EXCEPT ![row.id] =
       [state    |-> IF mem[h].ok THEN "delivered"
                     ELSE IF Exhausted(attempts) THEN "failed" ELSE "pending",
        attempts |-> attempts,
        due      |-> mem[h].ok /\ delivery[row.id].due]]
  /\ Goto(h, "next", [mem[h] EXCEPT !.row = Nil, !.ok = FALSE])
  /\ UNCHANGED <<active, sent>>

(* DELETE /v1/webhooks/:id *)
Deactivate ==
  /\ active' = FALSE
  /\ UNCHANGED <<delivery, sent, pc, mem>>

(* The time of next_try_at comes. *)
ComeDue(d) ==
  /\ d \in Queued /\ ~delivery[d].due
  /\ delivery' = [delivery EXCEPT ![d].due = TRUE]
  /\ UNCHANGED <<active, sent, pc, mem>>

(* The Worker ends a handler between two steps. *)
Die(h) ==
  /\ pc[h] # "idle"
  /\ Goto(h, "idle", Blank)
  /\ UNCHANGED <<active, delivery, sent>>

Proceed(h) == Insert(h) \/ NextRow(h) \/ Send(h) \/ Write(h)

-----------------------------------------------------------------------------
(* Giving up is earned: a delivery is marked failed only after             *)
(* MAX_ATTEMPTS posts of it, however cron, operator and first attempt      *)
(* overwrite each other's count.                                           *)
GivingUpIsEarned ==
  \A d \in Queued : delivery[d].state = "failed" => sent[d] >= MAX_ATTEMPTS

(* A delivery survives an outage, a handler that dies included: one that   *)
(* is pending is delivered or failed in the end, or its endpoint is gone.  *)
EveryDeliveryEnds == \A d \in Deliveries : d \in Queued ~> Ended(d) \/ ~active
=============================================================================
