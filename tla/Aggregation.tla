----------------------------- MODULE Aggregation -----------------------------
(***************************************************************************)
(* standings.ts: the four ways a discipline makes one number of a player's *)
(* counted runs.  A run is a record with a value, a day and an id.         *)
(***************************************************************************)
EXTENDS Integers, FiniteSetsExt

ValuesOf(runs) == {x.value : x \in runs}
DaysOf(runs)   == {x.day : x \in runs}

BestHigh(runs) == Max(ValuesOf(runs))
BestLow(runs)  == Min(ValuesOf(runs))
SumUp(runs)    == MapThenSumSet(LAMBDA x : x.value, runs)
CountRuns(runs) == Cardinality(runs)

(* Mutant: one row for each run, not for each day. *)
EveryRun(runs) == {[day |-> x.day, id |-> x.id] : x \in runs}
EachDay(runs)  == {[day |-> x.day, id |-> 0] : x \in runs}

(* ROW_NUMBER() OVER (ORDER BY day): how many rows come up to this one. *)
RowNumber(rows, x) ==
  Cardinality({y \in rows : y.day < x.day \/ (y.day = x.day /\ y.id <= x.id)})

(* Day minus row number: constant over consecutive days, so it names the   *)
(* block a day belongs to.                                                 *)
Group(rows, x) == x.day - RowNumber(rows, x)

(* The length of the longest block. *)
Streak(runs) ==
  LET rows == EachDay(runs)
  IN Max({Cardinality({y \in rows : Group(rows, y) = Group(rows, x)}) : x \in rows})

(* Mutant: only a streak that ends today is alive. *)
EndsToday(last, today) == last = today

(* A streak that ends yesterday is still alive. *)
Alive(last, today) == today - last <= 1

(* currentStreak(): walk back from the latest day while days are adjacent. *)
CurrentStreak(runs, today) ==
  LET days == DaysOf(runs)
      last == Max(days)
      walk[d \in Int] == IF d - 1 \in days THEN 1 + walk[d - 1] ELSE 1
  IN IF days = {} \/ ~Alive(last, today) THEN 0 ELSE walk[last]
=============================================================================
