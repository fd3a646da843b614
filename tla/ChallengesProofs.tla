-------------------------- MODULE ChallengesProofs --------------------------
(***************************************************************************)
(* A challenge is won by what was done after accepting it, for any number  *)
(* of players, challenges and handlers, and any aggregation.               *)
(***************************************************************************)
EXTENDS Challenges, TLAPS

(* The tables as functions of their keys. *)
Tables ==
  /\ TypeOK
  /\ runs \in Seq(Run) /\ Len(runs) =< MaxRuns
  /\ challenges \in [ChallengeIds -> Or(Challenge)]
  /\ entered \in [ChallengeIds -> [Players -> Or(Entered)]]

(* A value that p has reached by runs made after a given place. *)
WonBy(p, since, value) == \E ns \in SUBSET RunsOf(p, since) : ns # {} /\ Sum(ns) = value

(* Who has entered is not the challenger of a challenge that is there. *)
Opponent(c, p) == challenges[c] # Nil /\ challenges[c].challenger # p
EntriesOK      == \A c \in ChallengeIds, p \in Players : entered[c][p] # Nil => Opponent(c, p)

(* A value that decides challenge c for p. *)
Earned(c, p, value) ==
  /\ entered[c][p] # Nil
  /\ Beats(value, challenges[c].target)
  /\ WonBy(p, entered[c][p].at, value)

Settled(c) ==
  challenges[c] # Nil /\ challenges[c].state = "settled" =>
    LET p == challenges[c].winner IN p \in Players /\ Earned(c, p, entered[c][p].value)

Creating(h) == pc[h] \in {"target", "barrier", "create"}

(* What a handler knows, by the statement it is at. *)
HandlerOK(h) ==
  LET l == mem[h] IN
  /\ pc[h] # "idle" => l.player \in Players
  /\ Creating(h) =>
       /\ l.chl \in ChallengeIds /\ challenges[l.chl] = Nil
       /\ \A g \in Handlers \ {h} : Creating(g) => mem[g].chl # l.chl
       /\ l.other # l.player
  /\ pc[h] \in {"barrier", "create"} => l.value \in Int
  /\ pc[h] = "enter" => l.chl \in ChallengeIds /\ Opponent(l.chl, l.player)
  /\ pc[h] \in {"weigh", "settle"} => \A c \in l.todo : entered[c][l.player] # Nil
  /\ pc[h] = "settle" => l.chl \in ChallengeIds /\ l.value \in Int /\ Earned(l.chl, l.player, l.value)

Inv ==
  /\ Tables /\ EntriesOK
  /\ \A c \in ChallengeIds : Settled(c)
  /\ \A h \in Handlers : HandlerOK(h)

-----------------------------------------------------------------------------
(* What no step takes back: runs are added and decided, not changed; a     *)
(* challenge keeps its challenger and its target, an entry its time.       *)

RunsGrow ==
  /\ DOMAIN runs \subseteq DOMAIN runs'
  /\ \A n \in DOMAIN runs : runs'[n].by = runs[n].by /\ runs'[n].value = runs[n].value

RowsStay ==
  /\ \A c \in ChallengeIds : challenges[c] # Nil =>
       /\ challenges'[c] # Nil
       /\ challenges'[c].challenger = challenges[c].challenger
       /\ challenges'[c].target = challenges[c].target
  /\ \A c \in ChallengeIds, p \in Players : entered[c][p] # Nil =>
       entered'[c][p] # Nil /\ entered'[c][p].at = entered[c][p].at

LEMMA WonLasts ==
  ASSUME RunsGrow, NEW p, NEW since, NEW value, WonBy(p, since, value)
  PROVE  WonBy(p, since, value)'
<1>1. PICK ns \in SUBSET RunsOf(p, since) : ns # {} /\ Sum(ns) = value
  BY DEF WonBy
<1>2. ns \in SUBSET RunsOf(p, since)'
  BY <1>1 DEF RunsGrow, RunsOf
<1>3. {[id |-> n, value |-> runs'[n].value] : n \in ns} = {[id |-> n, value |-> runs[n].value] : n \in ns}
  BY <1>1 DEF RunsGrow, RunsOf
<1>4. Sum(ns)' = value
  BY <1>1, <1>3 DEF Sum
<1> QED BY <1>1, <1>2, <1>4 DEF WonBy

LEMMA EarnedLasts ==
  ASSUME RunsGrow, RowsStay, NEW c \in ChallengeIds, NEW p \in Players, NEW value,
         Earned(c, p, value), challenges[c] # Nil
  PROVE  Earned(c, p, value)'
<1>1. PICK since : since = entered[c][p].at
  OBVIOUS
<1>2. WonBy(p, since, value)'
  BY <1>1, WonLasts DEF Earned
<1>3. entered'[c][p] # Nil /\ entered'[c][p].at = since /\ challenges'[c].target = challenges[c].target
  BY <1>1 DEF RowsStay, Earned
<1>4. WonBy(p, entered[c][p].at, value)'
  BY <1>2, <1>3
<1>5. Beats(value, challenges[c].target)'
  BY <1>3 DEF Earned, Beats
<1> QED BY <1>3, <1>4, <1>5 DEF Earned

(* The handlers that do not move.                                          *)
LEMMA OthersKeep ==
  ASSUME Inv, RunsGrow, RowsStay, NEW g \in Handlers, pc'[g] = pc[g], mem'[g] = mem[g],
         Creating(g) =>
           /\ challenges'[mem[g].chl] = Nil
           /\ \A h \in Handlers \ {g} : Creating(h)' => mem'[h].chl # mem[g].chl
  PROVE  HandlerOK(g)'
<1> DEFINE l == mem[g]
<1>1. HandlerOK(g) /\ mem[g] \in Locals
  BY DEF Inv, Tables, TypeOK
<1>2. pc[g] = "settle" => Earned(l.chl, l.player, l.value)'
  <2> SUFFICES ASSUME pc[g] = "settle" PROVE Earned(l.chl, l.player, l.value)'
    OBVIOUS
  <2>1. PICK c \in ChallengeIds, p \in Players, value \in Int :
          c = l.chl /\ p = l.player /\ value = l.value
    BY <1>1 DEF HandlerOK
  <2>2. Earned(c, p, value) /\ challenges[c] # Nil
    BY <1>1, <2>1 DEF HandlerOK, Earned, Inv, EntriesOK, Opponent
  <2>3. Earned(c, p, value)'
    BY <2>2, EarnedLasts
  <2> QED BY <2>1, <2>3
<1>3. pc[g] = "enter" => Opponent(l.chl, l.player)'
  BY <1>1 DEF HandlerOK, Opponent, RowsStay
<1>4. pc[g] \in {"weigh", "settle"} => \A c \in l.todo : entered'[c][l.player] # Nil
  BY <1>1 DEF HandlerOK, RowsStay, Locals
<1>5. Creating(g)' = Creating(g)
  BY DEF Creating
<1> QED BY <1>1, <1>2, <1>3, <1>4, <1>5 DEF HandlerOK

(* A step that touches no challenge keeps what has been decided.           *)
LEMMA DecidedKept ==
  ASSUME Inv, RunsGrow, UNCHANGED <<challenges, entered>>
  PROVE  RowsStay /\ EntriesOK' /\ \A c \in ChallengeIds : Settled(c)'
<1>1. RowsStay
  BY DEF RowsStay
<1>2. EntriesOK'
  BY DEF Inv, EntriesOK, Opponent
<1>3. ASSUME NEW c \in ChallengeIds PROVE Settled(c)'
  <2> SUFFICES ASSUME challenges[c] # Nil, challenges[c].state = "settled"
               PROVE  challenges[c].winner \in Players /\ Earned(c, challenges[c].winner, entered[c][challenges[c].winner].value)'
    BY DEF Settled
  <2>1. PICK p, value : p \in Players /\ p = challenges[c].winner /\ value = entered[c][p].value /\ Earned(c, p, value)
    BY DEF Inv, Settled
  <2>2. Earned(c, p, value)'
    BY <1>1, <2>1, EarnedLasts
  <2> QED BY <2>1, <2>2
<1> QED BY <1>1, <1>2, <1>3

(* A step that only moves handler h.                                       *)
LEMMA MoveKeeps ==
  ASSUME Inv, UNCHANGED tables, NEW h \in Handlers, NEW label \in Labels, NEW l \in Locals,
         Goto(h, label, l), overlap' \in BOOLEAN, HandlerOK(h)',
         Creating(h)' => \A g \in Handlers \ {h} : Creating(g) => mem[g].chl # l.chl
  PROVE  Inv'
<1>1. RunsGrow /\ UNCHANGED <<challenges, entered>>
  BY DEF RunsGrow, tables
<1>2. Tables'
  BY DEF Inv, Tables, TypeOK, tables, Goto
<1>3. EntriesOK' /\ RowsStay /\ \A c \in ChallengeIds : Settled(c)'
  BY <1>1, DecidedKept
<1>4. ASSUME NEW g \in Handlers \ {h} PROVE HandlerOK(g)'
  <2>1. pc'[g] = pc[g] /\ mem'[g] = mem[g] /\ mem'[h] = l
    BY DEF Inv, Tables, TypeOK, Goto
  <2>2. ASSUME NEW k \in Handlers \ {g}, Creating(g), Creating(k)' PROVE mem'[k].chl # mem[g].chl
    <3>1. CASE k = h
      BY <2>1, <2>2, <3>1
    <3>2. CASE k # h
      <4>1. pc'[k] = pc[k] /\ mem'[k] = mem[k]
        BY <3>2 DEF Inv, Tables, TypeOK, Goto
      <4> QED BY <2>2, <4>1 DEF Inv, HandlerOK, Creating
    <3> QED BY <3>1, <3>2
  <2>3. Creating(g) => challenges'[mem[g].chl] = Nil
    BY <1>1 DEF Inv, HandlerOK
  <2> QED BY <1>1, <1>3, <2>1, <2>2, <2>3, OthersKeep
<1> QED BY <1>2, <1>3, <1>4 DEF Inv

LEMMA BlankIsLocal == Blank \in Locals
  BY BoundAssumption DEF Blank, Locals, Or, Places

LEMMA FinishKeeps ==
  ASSUME Inv, UNCHANGED <<tables, overlap>>, NEW h \in Handlers, Finish(h)
  PROVE  Inv'
<1>1. Goto(h, "idle", Blank)
  BY DEF Goto, Finish
<1>2. pc'[h] = "idle"
  BY <1>1 DEF Goto, Inv, Tables, TypeOK
<1>3. HandlerOK(h)' /\ ~Creating(h)'
  BY <1>2 DEF HandlerOK, Creating
<1>4. "idle" \in Labels /\ overlap' \in BOOLEAN
  BY DEF Labels, Inv, Tables, TypeOK
<1> QED BY <1>1, <1>3, <1>4, BlankIsLocal, MoveKeeps

(* The aggregate of what counts since a place is won by runs since then.   *)
LEMMA AchievedIsWon ==
  ASSUME Tables, NEW p \in Players, NEW since \in Or(Places), Achieved(p, since) # Nil
  PROVE  Achieved(p, since) \in Int /\ WonBy(p, since, Achieved(p, since))
<1> DEFINE ns == {n \in RunsOf(p, since) : runs[n].status = "counted"}
           S  == {[id |-> n, value |-> runs[n].value] : n \in ns}
<1>1. ns # {} /\ Achieved(p, since) = Sum(ns)
  BY DEF Achieved
<1>2. ASSUME NEW n \in ns PROVE n \in 1..MaxRuns /\ runs[n].value \in Values
  <2>1. n \in 1..Len(runs) /\ Len(runs) \in Nat /\ Len(runs) =< MaxRuns
    BY DEF Tables, RunsOf
  <2>2. runs[n] \in Run
    BY <2>1 DEF Tables
  <2> QED BY <2>1, <2>2, BoundAssumption DEF Run
<1> HIDE DEF ns
<1>3. S \in (SUBSET [id : 1..MaxRuns, value : Values]) \ {{}}
  <2>1. \A n \in ns : [id |-> n, value |-> runs[n].value] \in [id : 1..MaxRuns, value : Values]
    BY <1>2
  <2>2. PICK n \in ns : TRUE
    BY <1>1
  <2>3. [id |-> n, value |-> runs[n].value] \in S
    OBVIOUS
  <2> QED BY <2>1, <2>3
<1>4. Sum(ns) \in Int
  BY <1>3, AggregateAssumption DEF Sum
<1> QED BY <1>1, <1>4 DEF WonBy, ns

-----------------------------------------------------------------------------
(* The statements that read.                                               *)

LEMMA InviteKeeps ==
  ASSUME Inv, NEW h \in Handlers, Invite(h)
  PROVE  Inv'
<1> USE DEF Or
<1>1. PICK p \in Players, o \in Or(Players), c \in ChallengeIds \ Created :
        /\ p # o /\ \A g \in InFlight : mem[g].chl # c
        /\ Start(h, "target", [Blank EXCEPT !.player = p, !.other = o, !.chl = c])
  BY DEF Invite
<1> DEFINE l == [Blank EXCEPT !.player = p, !.other = o, !.chl = c]
<1>2. l \in Locals /\ l.player = p /\ l.other = o /\ l.chl = c
  BY BlankIsLocal DEF Blank, Locals
<1>3. /\ Goto(h, "target", l) /\ UNCHANGED tables /\ overlap' \in BOOLEAN /\ "target" \in Labels
      /\ pc'[h] = "target" /\ mem'[h] = l
  BY <1>1 DEF Start, Call, Goto, Labels, Invite, Inv, Tables, TypeOK
<1> HIDE DEF l
<1>4. \A g \in Handlers \ {h} : pc'[g] = pc[g] /\ mem'[g] = mem[g] /\ (Creating(g) => mem[g].chl # c)
  BY <1>1, <1>3 DEF Goto, Creating, InFlight, Inv, Tables, TypeOK
<1>5. HandlerOK(h)'
  BY <1>1, <1>2, <1>3, <1>4 DEF HandlerOK, Creating, Created, tables
<1> QED BY <1>2, <1>3, <1>4, <1>5, MoveKeeps

LEMMA TargetKeeps ==
  ASSUME Inv, NEW h \in Handlers, Target(h)
  PROVE  Inv'
<1> USE DEF Or
<1> DEFINE value == Achieved(mem[h].player, Nil)
           label == IF mem[h].other = Nil THEN "create" ELSE "barrier"
           l     == [mem[h] EXCEPT !.value = value]
<1>1. CASE value = Nil
  BY <1>1, FinishKeeps DEF Target
<1>2. CASE value # Nil
  <2>1. HandlerOK(h) /\ mem[h] \in Locals /\ mem[h].player \in Players /\ pc[h] = "target" /\ Tables
    BY DEF Target, HandlerOK, Inv, Tables, TypeOK
  <2>2. value \in Int
    BY <1>2, <2>1, AchievedIsWon
  <2> HIDE DEF value
  <2>3. /\ l \in Locals /\ l.value = value /\ l.player = mem[h].player /\ l.other = mem[h].other
        /\ l.chl = mem[h].chl
    BY <2>1, <2>2 DEF Locals
  <2>4. Goto(h, label, l) /\ UNCHANGED <<tables, overlap>>
    BY <1>2 DEF Target, value
  <2>5. label \in Labels /\ label \in {"create", "barrier"}
    BY DEF Labels
  <2> HIDE DEF l, label
  <2>6. pc'[h] = label /\ mem'[h] = l /\ \A g \in Handlers \ {h} : pc'[g] = pc[g] /\ mem'[g] = mem[g]
    BY <2>4 DEF Goto, Inv, Tables, TypeOK
  <2>7. \A g \in Handlers \ {h} : Creating(g) => mem[g].chl # l.chl
    BY <2>1, <2>3 DEF HandlerOK, Creating
  <2>8. HandlerOK(h)'
    BY <2>1, <2>2, <2>3, <2>4, <2>5, <2>6, <2>7 DEF HandlerOK, Creating, tables
  <2> QED BY <2>3, <2>4, <2>5, <2>7, <2>8, MoveKeeps DEF Inv, Tables, TypeOK
<1> QED BY <1>1, <1>2

LEMMA BarrierKeeps ==
  ASSUME Inv, NEW h \in Handlers, Barrier(h)
  PROVE  Inv'
<1>1. CASE Finish(h)
  BY <1>1, FinishKeeps DEF Barrier
<1>2. CASE Goto(h, "create", mem[h])
  <2>1. HandlerOK(h) /\ mem[h] \in Locals /\ pc[h] = "barrier" /\ UNCHANGED <<tables, overlap>>
    BY DEF Barrier, Inv, Tables, TypeOK
  <2>2. pc'[h] = "create" /\ mem'[h] = mem[h] /\ \A g \in Handlers \ {h} : pc'[g] = pc[g] /\ mem'[g] = mem[g]
    BY <1>2 DEF Goto, Inv, Tables, TypeOK
  <2>3. \A g \in Handlers \ {h} : Creating(g) => mem[g].chl # mem[h].chl
    BY <2>1 DEF HandlerOK, Creating
  <2>4. HandlerOK(h)'
    BY <2>1, <2>2, <2>3 DEF HandlerOK, Creating, tables
  <2> QED BY <1>2, <2>1, <2>3, <2>4, MoveKeeps DEF Inv, Tables, TypeOK, Labels
<1> QED BY <1>1, <1>2 DEF Barrier

LEMMA AcceptKeeps ==
  ASSUME Inv, NEW h \in Handlers, Accept(h)
  PROVE  Inv'
<1> USE DEF Or
<1>1. PICK c \in Created, p \in Players :
        /\ challenges[c].challenger # p
        /\ Start(h, "enter", [Blank EXCEPT !.player = p, !.chl = c, !.asked = Len(runs)])
  BY DEF Accept
<1> DEFINE l == [Blank EXCEPT !.player = p, !.chl = c, !.asked = Len(runs)]
<1>2. Len(runs) \in Places
  BY BoundAssumption DEF Inv, Tables, Places
<1>3. l \in Locals /\ l.player = p /\ l.chl = c
  BY <1>2, BlankIsLocal DEF Blank, Locals, Created
<1>4. Goto(h, "enter", l) /\ UNCHANGED tables /\ overlap' \in BOOLEAN /\ pc'[h] = "enter" /\ mem'[h] = l
  BY <1>1 DEF Start, Call, Goto, Accept, Inv, Tables, TypeOK
<1> HIDE DEF l
<1>5. HandlerOK(h)' /\ ~Creating(h)'
  BY <1>1, <1>3, <1>4 DEF HandlerOK, Creating, Created, Opponent, tables
<1> QED BY <1>3, <1>4, <1>5, MoveKeeps DEF Labels

LEMMA FindKeeps ==
  ASSUME Inv, NEW h \in Handlers, Find(h)
  PROVE  Inv'
<1> DEFINE todo == {c \in Created : /\ challenges[c].state = "accepted" /\ challenges[c].opponent = mem[h].player
                                    /\ entered[c][mem[h].player] # Nil /\ left[c] > 0}
           l == [mem[h] EXCEPT !.todo = todo]
<1>1. HandlerOK(h) /\ mem[h] \in Locals /\ pc[h] = "find" /\ UNCHANGED <<tables, overlap>> /\ Goto(h, "weigh", l)
  BY DEF Find, Inv, Tables, TypeOK
<1>2. l \in Locals /\ l.todo = todo /\ l.player = mem[h].player
  BY <1>1 DEF Locals, Created
<1> HIDE DEF l
<1>3. pc'[h] = "weigh" /\ mem'[h] = l
  BY <1>1 DEF Goto, Inv, Tables, TypeOK
<1>4. HandlerOK(h)' /\ ~Creating(h)'
  BY <1>1, <1>2, <1>3 DEF HandlerOK, Creating, tables
<1> QED BY <1>1, <1>2, <1>4, MoveKeeps DEF Inv, Tables, TypeOK, Labels

LEMMA WeighKeeps ==
  ASSUME Inv, NEW h \in Handlers, Weigh(h)
  PROVE  Inv'
<1> USE DEF Or
<1>1. CASE Finish(h)
  BY <1>1, FinishKeeps DEF Weigh
<1>2. ASSUME NEW c \in mem[h].todo,
             Goto(h, "weigh", [mem[h] EXCEPT !.todo = @ \ {c}])
      PROVE  Inv'
  <2> DEFINE l == [mem[h] EXCEPT !.todo = @ \ {c}]
  <2>1. HandlerOK(h) /\ mem[h] \in Locals /\ pc[h] = "weigh" /\ UNCHANGED <<tables, overlap>>
    BY DEF Weigh, Inv, Tables, TypeOK
  <2>2. l \in Locals /\ l.todo \subseteq mem[h].todo /\ l.player = mem[h].player
    BY <2>1 DEF Locals
  <2>3. Goto(h, "weigh", l)
    BY <1>2
  <2> HIDE DEF l
  <2>4. pc'[h] = "weigh" /\ mem'[h] = l
    BY <2>3 DEF Goto, Inv, Tables, TypeOK
  <2>5. HandlerOK(h)' /\ ~Creating(h)'
    BY <2>1, <2>2, <2>4 DEF HandlerOK, Creating, tables
  <2> QED BY <2>1, <2>2, <2>3, <2>5, MoveKeeps DEF Inv, Tables, TypeOK, Labels
<1>3. ASSUME NEW c \in mem[h].todo, NEW value, value = Achieved(mem[h].player, entered[c][mem[h].player].at),
             value # Nil, Beats(value, challenges[c].target),
             Goto(h, "settle", [mem[h] EXCEPT !.chl = c, !.value = value])
      PROVE  Inv'
  <2> DEFINE l == [mem[h] EXCEPT !.chl = c, !.value = value]
  <2>1. /\ HandlerOK(h) /\ mem[h] \in Locals /\ pc[h] = "weigh" /\ UNCHANGED <<tables, overlap>>
        /\ mem[h].player \in Players /\ c \in ChallengeIds /\ entered[c][mem[h].player] # Nil
    BY DEF Weigh, Inv, Tables, TypeOK, HandlerOK, Locals
  <2>2. entered[c][mem[h].player].at \in Places
    BY <2>1 DEF Inv, Tables, Entered
  <2>3. value \in Int /\ WonBy(mem[h].player, entered[c][mem[h].player].at, value)
    BY <1>3, <2>1, <2>2, AchievedIsWon DEF Inv
  <2>4. Earned(c, mem[h].player, value)
    BY <1>3, <2>1, <2>3 DEF Earned
  <2>5. l \in Locals /\ l.todo = mem[h].todo /\ l.player = mem[h].player /\ l.chl = c /\ l.value = value
    BY <2>1, <2>3 DEF Locals
  <2>6. Goto(h, "settle", l)
    BY <1>3
  <2> HIDE DEF l
  <2>7. pc'[h] = "settle" /\ mem'[h] = l
    BY <2>6 DEF Goto, Inv, Tables, TypeOK
  <2>8. PICK p \in Players : p = mem[h].player
    BY <2>1
  <2>9. Earned(c, p, value)'
    BY <2>1, <2>4, <2>8, EarnedLasts DEF RunsGrow, RowsStay, tables, Inv, EntriesOK, Opponent
  <2>10. HandlerOK(h)' /\ ~Creating(h)'
    <3>1. mem'[h].player = p /\ mem'[h].chl = c /\ mem'[h].value = value /\ mem'[h].todo = mem[h].todo
      BY <2>5, <2>7, <2>8
    <3> QED BY <2>1, <2>3, <2>7, <2>8, <2>9, <3>1 DEF HandlerOK, Creating, tables
  <2> QED BY <2>1, <2>5, <2>6, <2>10, MoveKeeps DEF Inv, Tables, TypeOK, Labels
<1> QED BY <1>1, <1>2, <1>3 DEF Weigh

-----------------------------------------------------------------------------
(* The statements that write.                                              *)

(* Handler h writes, and is not about to create a challenge.               *)
LEMMA WriterLeavesOthers ==
  ASSUME Inv, RunsGrow, RowsStay, NEW h \in Handlers, ~Creating(h)',
         \A g \in Handlers \ {h} : pc'[g] = pc[g] /\ mem'[g] = mem[g],
         \A g \in Handlers \ {h} : Creating(g) => challenges'[mem[g].chl] = Nil,
         NEW g \in Handlers \ {h}
  PROVE  HandlerOK(g)'
<1>1. ASSUME NEW k \in Handlers \ {g}, Creating(g), Creating(k)' PROVE mem'[k].chl # mem[g].chl
  <2>1. pc'[k] = pc[k] /\ mem'[k] = mem[k]
    BY <1>1
  <2> QED BY <1>1, <2>1 DEF Inv, HandlerOK, Creating
<1> QED BY <1>1, OthersKeep

(* A decision that the step does not make is one that was made before.     *)
LEMMA DecisionKept ==
  ASSUME Inv, RunsGrow, RowsStay, NEW c \in ChallengeIds,
         challenges'[c] # Nil /\ challenges'[c].state = "settled" =>
           /\ challenges[c] # Nil /\ challenges[c].state = "settled"
           /\ challenges'[c].winner = challenges[c].winner
           /\ entered'[c][challenges[c].winner].value = entered[c][challenges[c].winner].value
  PROVE  Settled(c)'
<1> SUFFICES ASSUME challenges'[c] # Nil, challenges'[c].state = "settled"
             PROVE  challenges'[c].winner \in Players
                    /\ Earned(c, challenges[c].winner, entered[c][challenges[c].winner].value)'
  BY DEF Settled
<1>1. PICK p, value : p \in Players /\ p = challenges[c].winner /\ value = entered[c][p].value /\ Earned(c, p, value)
  BY DEF Inv, Settled
<1>2. Earned(c, p, value)'
  BY <1>1, EarnedLasts
<1> QED BY <1>1, <1>2

LEMMA EntriesKept ==
  ASSUME Inv, RowsStay, UNCHANGED entered
  PROVE  EntriesOK'
  BY DEF Inv, EntriesOK, Opponent, RowsStay

LEMMA CreateKeeps ==
  ASSUME Inv, NEW h \in Handlers, Create(h)
  PROVE  Inv'
<1> USE DEF Or
<1> DEFINE c == mem[h].chl
           new == [state |-> IF mem[h].other = Nil THEN "accepted" ELSE "open",
                   challenger |-> mem[h].player, opponent |-> mem[h].other, winner |-> Nil,
                   target |-> mem[h].value]
<1>1. /\ HandlerOK(h) /\ mem[h] \in Locals /\ pc[h] = "create" /\ Creating(h)
      /\ UNCHANGED <<runs, entered, blocks, overlap>> /\ Finish(h)
      /\ challenges' = [challenges EXCEPT ![c] = new]
  BY DEF Create, Inv, Tables, TypeOK, Creating
<1>2. PICK id \in ChallengeIds : id = c /\ challenges[id] = Nil
  BY <1>1 DEF HandlerOK, Creating
<1>3. new \in Challenge /\ new.state # "settled"
  BY <1>1 DEF HandlerOK, Challenge, Locals
<1>4. challenges' = [challenges EXCEPT ![id] = new] /\ left' \in [ChallengeIds -> -1..1]
  BY <1>1, <1>2 DEF Create, Inv, Tables, TypeOK
<1>5. \A g \in Handlers \ {h} : Creating(g) => mem[g].chl # id
  BY <1>1, <1>2 DEF HandlerOK
<1> HIDE DEF c, new
<1>6. RunsGrow /\ RowsStay
  BY <1>1, <1>2, <1>4 DEF RunsGrow, RowsStay, Inv, Tables
<1>7. pc' = [pc EXCEPT ![h] = "idle"] /\ mem' = [mem EXCEPT ![h] = Blank]
  BY <1>1 DEF Finish
<1>8. Tables'
  BY <1>1, <1>3, <1>4, <1>7, BlankIsLocal DEF Inv, Tables, TypeOK, Labels
<1>9. HandlerOK(h)' /\ ~Creating(h)' /\ \A g \in Handlers \ {h} : pc'[g] = pc[g] /\ mem'[g] = mem[g]
  BY <1>7 DEF HandlerOK, Creating, Inv, Tables, TypeOK
<1>10. \A g \in Handlers \ {h} : Creating(g) => challenges'[mem[g].chl] = Nil
  BY <1>4, <1>5 DEF Inv, HandlerOK, Tables
<1>11. \A d \in ChallengeIds : Settled(d)'
  BY <1>1, <1>3, <1>4, <1>6, DecisionKept DEF Inv, Tables
<1> QED BY <1>1, <1>6, <1>8, <1>9, <1>10, <1>11, WriterLeavesOthers, EntriesKept DEF Inv

LEMMA EnterKeeps ==
  ASSUME Inv, NEW h \in Handlers, Enter(h)
  PROVE  Inv'
<1> USE DEF Or
<1>1. /\ HandlerOK(h) /\ mem[h] \in Locals /\ pc[h] = "enter"
      /\ UNCHANGED <<runs, left, blocks, overlap>> /\ Finish(h)
  BY DEF Enter, Inv, Tables, TypeOK
<1>2. PICK c \in ChallengeIds, p \in Players : c = mem[h].chl /\ p = mem[h].player /\ Opponent(c, p)
  BY <1>1 DEF HandlerOK
<1>3. PICK k \in Challenge : k = challenges[c]
  BY <1>2 DEF Opponent, Inv, Tables
<1> DEFINE new == [k EXCEPT !.state = "accepted", !.opponent = p]
<1>4. new \in Challenge /\ new.challenger = k.challenger /\ new.target = k.target /\ new.state = "accepted"
  BY DEF Challenge
<1>5. challenges' = [challenges EXCEPT ![c] = new]
  BY <1>2, <1>3 DEF Enter, Inv, Tables
<1> HIDE DEF new
<1>6. /\ entered' \in [ChallengeIds -> [Players -> Or(Entered)]]
      /\ \A d \in ChallengeIds, q \in Players :
           entered'[d][q] = entered[d][q] \/ (d = c /\ q = p /\ entered[d][q] = Nil)
  <2>1. CASE UNCHANGED entered
    BY <2>1 DEF Inv, Tables
  <2>2. ASSUME entered[c][p] = Nil, NEW at \in mem[h].asked..Len(runs),
               entered' = [entered EXCEPT ![c][p] = [at |-> at, value |-> Nil]]
        PROVE  <1>6
    <3>1. at \in Places
      BY <1>1, BoundAssumption DEF Locals, Places, Inv, Tables
    <3>2. [at |-> at, value |-> Nil] \in Entered
      BY <3>1 DEF Entered
    <3> HIDE DEF Or
    <3> QED BY <2>2, <3>2 DEF Inv, Tables, Or
  <2> QED BY <1>2, <2>1, <2>2 DEF Enter
<1>7. RunsGrow /\ RowsStay
  BY <1>1, <1>3, <1>4, <1>5, <1>6, NilAssumption DEF RunsGrow, RowsStay, Inv, Tables
<1>8. pc' = [pc EXCEPT ![h] = "idle"] /\ mem' = [mem EXCEPT ![h] = Blank]
  BY <1>1 DEF Finish
<1>9. Tables'
  <2>1. challenges' \in [ChallengeIds -> Or(Challenge)]
    BY <1>4, <1>5 DEF Inv, Tables
  <2>2. pc' \in [Handlers -> Labels] /\ mem' \in [Handlers -> Locals]
    BY <1>8, BlankIsLocal DEF Inv, Tables, TypeOK, Labels
  <2> HIDE DEF Or
  <2>3. \A d \in ChallengeIds : challenges'[d] \in Or(Challenge) /\ \A q \in Players : entered'[d][q] \in Or(Entered)
    BY <2>1, <1>6
  <2> QED BY <1>1, <1>6, <2>1, <2>2, <2>3 DEF Inv, Tables, TypeOK, Or
<1>10. HandlerOK(h)' /\ ~Creating(h)' /\ \A g \in Handlers \ {h} : pc'[g] = pc[g] /\ mem'[g] = mem[g]
  BY <1>8 DEF HandlerOK, Creating, Inv, Tables, TypeOK
<1>11. \A g \in Handlers \ {h} : Creating(g) => challenges'[mem[g].chl] = Nil
  BY <1>2, <1>5 DEF Inv, HandlerOK, Tables, Opponent
<1>12. \A d \in ChallengeIds : Settled(d)'
  <2> TAKE d \in ChallengeIds
  <2>1. CASE d = c
    BY <2>1, <1>4, <1>5 DEF Settled, Inv, Tables
  <2>2. CASE d # c
    <3>1. challenges'[d] = challenges[d] /\ \A q \in Players : entered'[d][q] = entered[d][q]
      BY <2>2, <1>5, <1>6 DEF Inv, Tables
    <3>2. challenges[d] # Nil /\ challenges[d].state = "settled" => challenges[d].winner \in Players
      BY DEF Inv, Settled
    <3> QED BY <3>1, <3>2, <1>7, DecisionKept
  <2> QED BY <2>1, <2>2
<1>13. EntriesOK'
  <2> SUFFICES ASSUME NEW d \in ChallengeIds, NEW q \in Players, entered'[d][q] # Nil
               PROVE  Opponent(d, q)'
    BY DEF EntriesOK
  <2>1. Opponent(d, q)
    BY <1>2, <1>6 DEF Inv, EntriesOK
  <2> QED BY <2>1, <1>7 DEF Opponent, RowsStay
<1> QED BY <1>7, <1>9, <1>10, <1>11, <1>12, <1>13, WriterLeavesOthers DEF Inv

LEMMA SettleKeeps ==
  ASSUME Inv, NEW h \in Handlers, Settle(h)
  PROVE  Inv'
<1> USE DEF Or
<1> DEFINE l == [mem[h] EXCEPT !.todo = @ \ {mem[h].chl}, !.chl = Nil, !.value = Nil]
<1>1. /\ HandlerOK(h) /\ mem[h] \in Locals /\ pc[h] = "settle"
      /\ UNCHANGED <<runs, left, blocks, overlap>> /\ Goto(h, "weigh", l)
  BY DEF Settle, Inv, Tables, TypeOK
<1>2. PICK c \in ChallengeIds, p \in Players, value \in Int :
        c = mem[h].chl /\ p = mem[h].player /\ value = mem[h].value /\ Earned(c, p, value)
  BY <1>1 DEF HandlerOK
<1>3. PICK k \in Challenge, e \in Entered : k = challenges[c] /\ e = entered[c][p]
  BY <1>2 DEF Earned, Inv, Tables, EntriesOK, Opponent
<1> DEFINE new   == [k EXCEPT !.state = "settled", !.winner = p]
           entry == [e EXCEPT !.value = value]
<1>4. /\ new \in Challenge /\ new.challenger = k.challenger /\ new.target = k.target /\ new.winner = p
      /\ entry \in Entered /\ entry.at = e.at /\ entry.value = value
  BY DEF Challenge, Entered
<1>5. challenges' = [challenges EXCEPT ![c] = new]
  BY <1>2, <1>3 DEF Settle, Inv, Tables
<1>6. entered' = [entered EXCEPT ![c][p] = entry]
  BY <1>2, <1>3 DEF Settle, Inv, Tables
<1>7. l \in Locals /\ l.todo \subseteq mem[h].todo /\ l.player = p
  BY <1>1, <1>2 DEF Locals
<1> HIDE DEF new, entry, l, Or
<1>8. /\ challenges' \in [ChallengeIds -> Or(Challenge)]
      /\ entered' \in [ChallengeIds -> [Players -> Or(Entered)]]
      /\ entered'[c][p] = entry /\ challenges'[c] = new
      /\ \A d \in ChallengeIds, q \in Players : d # c \/ q # p => entered'[d][q] = entered[d][q]
      /\ \A d \in ChallengeIds \ {c} : challenges'[d] = challenges[d]
  BY <1>4, <1>5, <1>6 DEF Inv, Tables, Or
<1>9. new # Nil /\ entry # Nil
  BY <1>4, NilAssumption
<1>10. RunsGrow /\ RowsStay
  BY <1>1, <1>3, <1>4, <1>8, <1>9 DEF RunsGrow, RowsStay
<1>11. pc' = [pc EXCEPT ![h] = "weigh"] /\ mem' = [mem EXCEPT ![h] = l]
  BY <1>1 DEF Goto
<1>12. Tables'
  <2>1. pc' \in [Handlers -> Labels] /\ mem' \in [Handlers -> Locals]
    BY <1>7, <1>11 DEF Inv, Tables, TypeOK, Labels
  <2>2. \A d \in ChallengeIds : challenges'[d] \in Or(Challenge) /\ \A q \in Players : entered'[d][q] \in Or(Entered)
    BY <1>8
  <2> QED BY <1>1, <1>8, <2>1, <2>2 DEF Inv, Tables, TypeOK, Or
<1>13. HandlerOK(h)' /\ ~Creating(h)' /\ \A g \in Handlers \ {h} : pc'[g] = pc[g] /\ mem'[g] = mem[g]
  <2>1. pc'[h] = "weigh" /\ mem'[h] = l /\ \A g \in Handlers \ {h} : pc'[g] = pc[g] /\ mem'[g] = mem[g]
    BY <1>11 DEF Inv, Tables, TypeOK
  <2>2. \A d \in l.todo : entered'[d][p] # Nil
    BY <1>1, <1>2, <1>7, <1>10 DEF HandlerOK, RowsStay, Locals
  <2> QED BY <2>1, <2>2, <1>7 DEF HandlerOK, Creating
<1>14. \A g \in Handlers \ {h} : Creating(g) => challenges'[mem[g].chl] = Nil
  BY <1>3, <1>8, NilAssumption DEF Inv, HandlerOK
<1>15. \A d \in ChallengeIds : Settled(d)'
  <2> TAKE d \in ChallengeIds
  <2>1. CASE d = c
    <3>1. Earned(c, p, value)'
      BY <1>2, <1>3, <1>10, EarnedLasts, NilAssumption
    <3> QED BY <2>1, <3>1, <1>4, <1>8 DEF Settled
  <2>2. CASE d # c
    BY <2>2, <1>8, <1>10, DecisionKept DEF Inv, Settled
  <2> QED BY <2>1, <2>2
<1>16. EntriesOK'
  <2> SUFFICES ASSUME NEW d \in ChallengeIds, NEW q \in Players, entered'[d][q] # Nil
               PROVE  Opponent(d, q)'
    BY DEF EntriesOK
  <2>1. Opponent(d, q)
    BY <1>2, <1>8 DEF Inv, EntriesOK, Earned
  <2> QED BY <2>1, <1>10 DEF Opponent, RowsStay
<1> QED BY <1>10, <1>12, <1>13, <1>14, <1>15, <1>16, WriterLeavesOthers DEF Inv

LEMMA SubmitKeeps ==
  ASSUME Inv, NEW h \in Handlers, Submit(h)
  PROVE  Inv'
<1>1. PICK p \in Players, value \in Values :
        /\ runs' = Append(runs, [by |-> p, value |-> value,
                                 status |-> IF value > MaxValue THEN "review" ELSE "counted"])
        /\ Start(h, "find", [Blank EXCEPT !.player = p])
  BY DEF Submit
<1> DEFINE run == [by |-> p, value |-> value, status |-> IF value > MaxValue THEN "review" ELSE "counted"]
           l   == [Blank EXCEPT !.player = p]
<1>2. run \in Run /\ runs \in Seq(Run) /\ Len(runs) < MaxRuns /\ runs' = Append(runs, run)
  BY <1>1 DEF Run, Inv, Tables, Submit
<1>3. l \in Locals /\ l.player = p
  BY BlankIsLocal DEF Locals, Blank, Or
<1>4. UNCHANGED <<challenges, entered, left, blocks>> /\ pc[h] = "idle" /\ Goto(h, "find", l) /\ overlap' \in BOOLEAN
  BY <1>1 DEF Submit, Start, Call, Inv, Tables, TypeOK
<1> HIDE DEF run, l
<1>5. /\ runs' \in Seq(Run) /\ Len(runs') =< MaxRuns /\ RunsGrow
      /\ \A n \in DOMAIN runs' : runs'[n] \in Run
  BY <1>2, BoundAssumption DEF RunsGrow
<1>6. RowsStay /\ EntriesOK' /\ \A c \in ChallengeIds : Settled(c)'
  BY <1>4, <1>5, DecidedKept
<1>7. pc' = [pc EXCEPT ![h] = "find"] /\ mem' = [mem EXCEPT ![h] = l]
  BY <1>4 DEF Goto
<1>8. Tables'
  BY <1>3, <1>4, <1>5, <1>7 DEF Inv, Tables, TypeOK, Labels
<1>9. HandlerOK(h)' /\ ~Creating(h)' /\ \A g \in Handlers \ {h} : pc'[g] = pc[g] /\ mem'[g] = mem[g]
  BY <1>3, <1>7 DEF HandlerOK, Creating, Inv, Tables, TypeOK
<1>10. \A g \in Handlers \ {h} : Creating(g) => challenges'[mem[g].chl] = Nil
  BY <1>4 DEF Inv, HandlerOK
<1> QED BY <1>5, <1>6, <1>8, <1>9, <1>10, WriterLeavesOthers DEF Inv

-----------------------------------------------------------------------------
(* What is one statement, and time.                                        *)

LEMMA NobodyMoves ==
  ASSUME Inv, RunsGrow, RowsStay, Tables', UNCHANGED <<pc, mem, entered>>,
         \A c \in ChallengeIds : challenges[c] = Nil => challenges'[c] = Nil,
         \A c \in Created : challenges'[c].state = "settled" =>
           challenges[c].state = "settled" /\ challenges'[c].winner = challenges[c].winner
  PROVE  Inv'
<1>1. EntriesOK'
  BY EntriesKept
<1>2. ASSUME NEW c \in ChallengeIds PROVE Settled(c)'
  BY DecisionKept DEF Created
<1>3. ASSUME NEW g \in Handlers PROVE HandlerOK(g)'
  <2>1. Creating(g) =>
          /\ challenges'[mem[g].chl] = Nil
          /\ \A h \in Handlers \ {g} : Creating(h)' => mem'[h].chl # mem[g].chl
    BY DEF Inv, HandlerOK, Creating
  <2> QED BY <2>1, OthersKeep
<1> QED BY <1>1, <1>2, <1>3 DEF Inv

(* Expiring and blocking: a row at most changes its state and its winner,  *)
(* and is not settled by it.                                               *)
LEMMA EndingKeeps ==
  ASSUME Inv, UNCHANGED <<runs, entered, left, pc, mem>>, overlap' \in BOOLEAN,
         blocks' \subseteq Players \X Players,
         NEW S \in SUBSET Created,
         challenges' = [c \in ChallengeIds |-> challenges'[c]],
         \A c \in ChallengeIds \ S : challenges'[c] = challenges[c],
         \A c \in S : /\ challenges'[c] \in Challenge /\ challenges'[c].state = "expired"
                      /\ challenges'[c].challenger = challenges[c].challenger
                      /\ challenges'[c].target = challenges[c].target
  PROVE  Inv'
<1> HIDE DEF Or
<1>1. \A c \in ChallengeIds : challenges'[c] \in Or(Challenge)
  BY DEF Inv, Tables, Or
<1>2. Tables'
  BY <1>1 DEF Inv, Tables, TypeOK, Or
<1>3. RunsGrow /\ RowsStay
  BY NilAssumption DEF RunsGrow, RowsStay, Created
<1> QED BY <1>2, <1>3, NobodyMoves DEF Created

LEMMA ExpireKeeps ==
  ASSUME Inv, Expire
  PROVE  Inv'
<1> DEFINE S    == {c \in Created : challenges[c].state \in {"open", "accepted"} /\ left[c] < 0}
           F(c) == [challenges[c] EXCEPT !.state = "expired", !.winner = challenges[c].challenger]
<1>1. ASSUME NEW c \in Created
      PROVE  /\ F(c) \in Challenge /\ F(c).state = "expired"
             /\ F(c).challenger = challenges[c].challenger /\ F(c).target = challenges[c].target
  <2>1. PICK k \in Challenge : k = challenges[c]
    BY DEF Created, Inv, Tables, Or
  <2> QED BY <2>1 DEF Challenge, Or
<1>2. /\ challenges' = [c \in ChallengeIds |-> challenges'[c]]
      /\ \A c \in S : c \in Created /\ challenges'[c] = F(c)
      /\ \A c \in ChallengeIds \ S : challenges'[c] = challenges[c]
  BY DEF Expire, Created
<1>3. /\ UNCHANGED <<runs, entered, left, pc, mem>> /\ overlap' \in BOOLEAN
      /\ blocks' \subseteq Players \X Players /\ S \in SUBSET Created
  BY DEF Expire, Call, Inv, Tables, TypeOK
<1> HIDE DEF S, F
<1> QED BY <1>1, <1>2, <1>3, EndingKeeps

LEMMA BlockKeeps ==
  ASSUME Inv, Block
  PROVE  Inv'
<1>1. PICK p \in Players, q \in Players :
        /\ blocks' = blocks \cup {<<p, q>>}
        /\ challenges' = [c \in ChallengeIds |->
             IF c \in Created /\ challenges[c].state \in {"open", "accepted"}
                  /\ {challenges[c].challenger, challenges[c].opponent} = {p, q}
               THEN [challenges[c] EXCEPT !.state = "expired"]
               ELSE challenges[c]]
  BY DEF Block
<1> DEFINE S    == {c \in Created : /\ challenges[c].state \in {"open", "accepted"}
                                    /\ {challenges[c].challenger, challenges[c].opponent} = {p, q}}
           F(c) == [challenges[c] EXCEPT !.state = "expired"]
<1>2. ASSUME NEW c \in Created
      PROVE  /\ F(c) \in Challenge /\ F(c).state = "expired"
             /\ F(c).challenger = challenges[c].challenger /\ F(c).target = challenges[c].target
  <2>1. PICK k \in Challenge : k = challenges[c]
    BY DEF Created, Inv, Tables, Or
  <2> QED BY <2>1 DEF Challenge
<1>3. /\ challenges' = [c \in ChallengeIds |-> challenges'[c]]
      /\ \A c \in S : c \in Created /\ challenges'[c] = F(c)
      /\ \A c \in ChallengeIds \ S : challenges'[c] = challenges[c]
  BY <1>1 DEF Created
<1>4. /\ UNCHANGED <<runs, entered, left, pc, mem>> /\ overlap' \in BOOLEAN
      /\ blocks' \subseteq Players \X Players /\ S \in SUBSET Created
  BY <1>1 DEF Block, Call, Inv, Tables, TypeOK
<1> HIDE DEF S, F
<1> QED BY <1>2, <1>3, <1>4, EndingKeeps

LEMMA ReviewKeeps ==
  ASSUME Inv, Review
  PROVE  Inv'
<1>1. PICK n \in DOMAIN runs, decision \in {"counted", "rejected"} :
        runs' = [runs EXCEPT ![n].status = decision]
  BY DEF Review
<1> DEFINE run == [runs[n] EXCEPT !.status = decision]
<1>2. run \in Run /\ run.by = runs[n].by /\ run.value = runs[n].value
  <2>1. runs[n] \in Run
    BY DEF Inv, Tables
  <2> QED BY <2>1 DEF Run
<1>3. runs' = [runs EXCEPT ![n] = run]
  BY <1>1
<1> HIDE DEF run
<1>4. runs' \in Seq(Run) /\ Len(runs') = Len(runs) /\ RunsGrow /\ \A k \in DOMAIN runs' : runs'[k] \in Run
  BY <1>2, <1>3 DEF Inv, Tables, RunsGrow
<1>5. UNCHANGED <<challenges, entered, left, blocks, pc, mem>> /\ overlap' \in BOOLEAN
  BY DEF Review, Call, Inv, Tables, TypeOK
<1>6. Tables'
  BY <1>4, <1>5 DEF Inv, Tables, TypeOK
<1>7. RowsStay
  BY <1>5 DEF RowsStay
<1> QED BY <1>4, <1>5, <1>6, <1>7, NobodyMoves

LEMMA TimeAndUnblockKeep ==
  ASSUME Inv, Unblock \/ Tick \/ UNCHANGED vars
  PROVE  Inv'
<1>1. /\ UNCHANGED <<runs, challenges, entered, pc, mem>> /\ overlap' \in BOOLEAN
      /\ left' \in [ChallengeIds -> -1..1] /\ blocks' \subseteq Players \X Players
  <2>1. CASE Unblock BY <2>1 DEF Unblock, Call, Inv, Tables, TypeOK
  <2>2. CASE Tick    BY <2>2 DEF Tick, Created, Inv, Tables, TypeOK
  <2>3. CASE UNCHANGED vars BY <2>3 DEF vars, Inv, Tables, TypeOK
  <2> QED BY <2>1, <2>2, <2>3
<1>2. Tables'
  BY <1>1 DEF Inv, Tables, TypeOK
<1>3. RunsGrow /\ RowsStay
  BY <1>1 DEF RunsGrow, RowsStay
<1> QED BY <1>1, <1>2, <1>3, NobodyMoves

-----------------------------------------------------------------------------
LEMMA InitInv == Init => Inv
<1> SUFFICES ASSUME Init PROVE Inv
  OBVIOUS
<1> USE BoundAssumption DEF Init, Or
<1>1. runs \in Seq(Run) /\ Len(runs) =< MaxRuns /\ \A n \in DOMAIN runs : runs[n] \in Run
  OBVIOUS
<1>3. mem \in [Handlers -> Locals] /\ pc \in [Handlers -> Labels]
  BY BlankIsLocal DEF Labels
<1>4. /\ challenges \in [ChallengeIds -> Or(Challenge)]
      /\ entered \in [ChallengeIds -> [Players -> Or(Entered)]]
      /\ left \in [ChallengeIds -> -1..1] /\ blocks \subseteq Players \X Players /\ overlap \in BOOLEAN
  <2>1. challenges \in [ChallengeIds -> Or(Challenge)]
    OBVIOUS
  <2>2. [p \in Players |-> Nil] \in [Players -> Or(Entered)]
    OBVIOUS
  <2>3. entered \in [ChallengeIds -> [Players -> Or(Entered)]]
    BY <2>2
  <2>4. left \in [ChallengeIds -> -1..1]
    OBVIOUS
  <2>5. blocks \subseteq Players \X Players
    OBVIOUS
  <2> QED BY <2>1, <2>3, <2>4, <2>5
<1>5. \A c \in ChallengeIds : challenges[c] = Nil /\ \A p \in Players : entered[c][p] = Nil
  OBVIOUS
<1>6. Tables
  BY <1>1, <1>3, <1>4, <1>5 DEF Tables, TypeOK
<1>2. EntriesOK /\ (\A c \in ChallengeIds : Settled(c)) /\ \A h \in Handlers : HandlerOK(h)
  BY DEF EntriesOK, Settled, HandlerOK, Creating
<1> QED BY <1>2, <1>6 DEF Inv

LEMMA StepInv == Inv /\ [Next]_vars => Inv'
<1> SUFFICES ASSUME Inv, [Next]_vars PROVE Inv'
  OBVIOUS
<1>1. ASSUME NEW h \in Handlers, Inviting(h) \/ Accepting(h) \/ Submitting(h) PROVE Inv'
  BY <1>1, InviteKeeps, TargetKeeps, BarrierKeeps, CreateKeeps, AcceptKeeps, EnterKeeps,
     SubmitKeeps, FindKeeps, WeighKeeps, SettleKeeps DEF Inviting, Accepting, Submitting
<1> QED BY <1>1, ExpireKeeps, ReviewKeeps, BlockKeeps, TimeAndUnblockKeep DEF Next

LEMMA Invariant == Spec => []Inv
  BY InitInv, StepInv, PTL DEF Spec

(* Every table and local variable keeps its type.                          *)
THEOREM TypeCorrect == Spec => []TypeOK
<1>1. Inv => TypeOK
  BY DEF Inv, Tables
<1> QED BY <1>1, Invariant, PTL

(* A challenge is decided only by performance after acceptance             *)
(* (compete.ts 556-600), whatever is accepted, submitted, reviewed,        *)
(* expired or blocked at the same time.                                    *)
THEOREM DecidedByPerformance == Spec => []WonAfterAcceptance
<1>1. Inv => WonAfterAcceptance
  <2> SUFFICES ASSUME Inv, NEW c \in Created, challenges[c].state = "settled"
               PROVE  LET ch == challenges[c]
                          e  == entered[c][ch.winner]
                      IN /\ ch.winner # ch.challenger /\ e # Nil /\ Beats(e.value, ch.target)
                         /\ \E ns \in SUBSET RunsOf(ch.winner, e.at) : ns # {} /\ Sum(ns) = e.value
    BY DEF WonAfterAcceptance
  <2>1. challenges[c].winner \in Players /\ Earned(c, challenges[c].winner, entered[c][challenges[c].winner].value)
    BY DEF Inv, Settled, Created
  <2>2. Opponent(c, challenges[c].winner)
    BY <2>1 DEF Inv, EntriesOK, Earned, Created
  <2> QED BY <2>1, <2>2 DEF Earned, WonBy, Opponent
<1> QED BY <1>1, Invariant, PTL

-----------------------------------------------------------------------------
(* A decision stands.  Call after call nobody else is under way while a    *)
(* handler holds a challenge it found undecided, so it still is when the   *)
(* handler writes; and a challenge with a winner is in a state that no     *)
(* call accepts, expires, blocks or looks for.                             *)

(* What has a winner is settled, or has expired and stays so. *)
Final ==
  \A c \in Created : challenges[c].winner # Nil =>
    challenges[c].state = "settled" \/ (challenges[c].state = "expired" /\ left[c] < 0)

Alone == \A g, h \in Handlers : pc[g] # "idle" /\ pc[h] # "idle" => g = h

(* A challenge that p may still win. *)
Running(c, p) ==
  /\ challenges[c] # Nil /\ challenges[c].state = "accepted"
  /\ challenges[c].opponent = p /\ challenges[c].winner = Nil

Undecided(h) ==
  LET l == mem[h] IN
  /\ pc[h] = "enter" =>
       challenges[l.chl].winner = Nil /\ challenges[l.chl].opponent \in {Nil, l.player}
  /\ pc[h] \in {"weigh", "settle"} => \A c \in l.todo : Running(c, l.player)
  /\ pc[h] = "settle" => l.chl \in l.todo

Serial == Final /\ Alone /\ \A h \in Handlers : Undecided(h)

(* What the property says of a step. *)
Stand ==
  \A c \in Created :
    LET old == challenges[c]
        new == challenges'[c]
    IN /\ old.winner # Nil => new.winner = old.winner /\ new.state = old.state
       /\ old.opponent # Nil => new.opponent = old.opponent

Step(h) == Inviting(h) \/ Accepting(h) \/ Submitting(h)

(* Whoever takes a step is alone with it.                                  *)
LEMMA StaysAlone ==
  ASSUME Inv, Serial, NEW h \in Handlers, Step(h), ~overlap'
  PROVE  /\ Alone'
         /\ \A g \in Handlers \ {h} : pc[g] = "idle" /\ pc'[g] = "idle"
<1>a. pc \in [Handlers -> Labels]
  BY DEF Inv, Tables, TypeOK
<1>1. \A g \in Handlers \ {h} : pc[g] = "idle"
  <2>1. CASE pc[h] = "idle"
    <3>1. InFlight = {}
      BY <2>1 DEF Step, Inviting, Accepting, Submitting, Invite, Target, Barrier, Create, Accept,
                  Enter, Submit, Find, Weigh, Settle, Start, Call
    <3> QED BY <3>1 DEF InFlight
  <2>2. CASE pc[h] # "idle"
    BY <2>2 DEF Serial, Alone
  <2> QED BY <2>1, <2>2
<1>2. \A g \in Handlers \ {h} : pc'[g] = pc[g]
  BY <1>a DEF Step, Inviting, Accepting, Submitting, Invite, Target, Barrier, Create, Accept,
              Enter, Submit, Find, Weigh, Settle, Start, Goto, Finish
<1> QED BY <1>1, <1>2 DEF Alone

(* So of what the handlers know only its own part is to be shown.          *)
LEMMA OwnPart ==
  ASSUME Inv, Serial, NEW h \in Handlers, Step(h), ~overlap', Final', Undecided(h)'
  PROVE  Serial'
  BY StaysAlone DEF Serial, Undecided

(* A call that writes no challenge.                                        *)
LEMMA Unwritten ==
  ASSUME UNCHANGED <<challenges, left>>, Final
  PROVE  Final' /\ Stand
  BY DEF Final, Stand, Created

LEMMA InvitingStands ==
  ASSUME Inv, Serial, NEW h \in Handlers, Inviting(h), ~overlap'
  PROVE  Serial' /\ Stand
<1>a. pc \in [Handlers -> Labels] /\ mem \in [Handlers -> Locals]
  BY DEF Inv, Tables, TypeOK
<1>1. pc'[h] \notin {"enter", "weigh", "settle"}
  BY <1>a DEF Inviting, Invite, Target, Barrier, Create, Start, Goto, Finish
<1>2. Final' /\ Stand
  <2>1. CASE Create(h)
    <3> DEFINE d == mem[h].chl
    <3>1. d \in ChallengeIds /\ challenges[d] = Nil
      BY <2>1 DEF Create, Inv, HandlerOK, Creating
    <3>2. /\ \A c \in ChallengeIds \ {d} : challenges'[c] = challenges[c] /\ left'[c] = left[c]
          /\ challenges'[d].winner = Nil
      BY <2>1, <3>1 DEF Create, Inv, Tables, TypeOK
    <3> QED BY <3>1, <3>2 DEF Serial, Final, Stand, Created
  <2>2. CASE Invite(h) \/ Target(h) \/ Barrier(h)
    BY <2>2, Unwritten DEF Serial, Invite, Target, Barrier, tables
  <2> QED BY <2>1, <2>2 DEF Inviting
<1>3. Undecided(h)'
  BY <1>1 DEF Undecided
<1> QED BY <1>2, <1>3, OwnPart DEF Step

LEMMA AcceptingStands ==
  ASSUME Inv, Serial, NEW h \in Handlers, Accepting(h), ~overlap'
  PROVE  Serial' /\ Stand
<1>a. pc \in [Handlers -> Labels] /\ mem \in [Handlers -> Locals]
      /\ challenges \in [ChallengeIds -> Or(Challenge)] /\ left \in [ChallengeIds -> -1..1]
  BY DEF Inv, Tables, TypeOK
<1>1. CASE Accept(h)
  <2>1. PICK c \in Created, p \in Players :
          /\ left[c] >= 0 /\ challenges[c].opponent \in {Nil, p} /\ challenges[c].state # "settled"
          /\ pc' = [pc EXCEPT ![h] = "enter"]
          /\ mem' = [mem EXCEPT ![h] = [Blank EXCEPT !.player = p, !.chl = c, !.asked = Len(runs)]]
    BY <1>1 DEF Accept, Start, Goto
  <2>2. pc'[h] = "enter" /\ mem'[h].player = p /\ mem'[h].chl = c
    BY <1>a, <2>1 DEF Blank
  <2>3. challenges[c].winner = Nil
    BY <1>a, <2>1 DEF Serial, Final, Created
  <2>4. UNCHANGED <<challenges, left>>
    BY <1>1 DEF Accept, tables
  <2>5. Undecided(h)'
    BY <2>1, <2>2, <2>3, <2>4 DEF Undecided
  <2> QED BY <1>1, <2>4, <2>5, OwnPart, Unwritten DEF Step, Accepting, Serial
<1>2. CASE Enter(h)
  <2> DEFINE d == mem[h].chl
             p == mem[h].player
  <2>1. d \in ChallengeIds /\ challenges[d] # Nil /\ p \in Players
    BY <1>2 DEF Enter, Inv, HandlerOK, Opponent
  <2>2. challenges[d].winner = Nil /\ challenges[d].opponent \in {Nil, p}
    BY <1>2 DEF Serial, Undecided, Enter
  <2>3. /\ \A c \in ChallengeIds \ {d} : challenges'[c] = challenges[c]
        /\ challenges'[d].winner = Nil /\ challenges'[d].opponent = p /\ left' = left
    <3>1. challenges[d] \in Challenge
      BY <1>a, <2>1 DEF Or
    <3>2. challenges'[d] = [challenges[d] EXCEPT !.state = "accepted", !.opponent = p]
      BY <1>a, <1>2, <2>1 DEF Enter
    <3>3. challenges'[d].winner = challenges[d].winner /\ challenges'[d].opponent = p
      BY <3>1, <3>2 DEF Challenge
    <3> QED BY <1>a, <1>2, <2>2, <3>3 DEF Enter
  <2>4. Final' /\ Stand
    BY <2>1, <2>2, <2>3 DEF Serial, Final, Stand, Created
  <2>5. Undecided(h)'
    BY <1>a, <1>2 DEF Undecided, Enter, Finish
  <2> QED BY <1>2, <2>4, <2>5, OwnPart DEF Step, Accepting
<1> QED BY <1>1, <1>2 DEF Accepting

LEMMA SubmittingStands ==
  ASSUME Inv, Serial, NEW h \in Handlers, Submitting(h), ~overlap'
  PROVE  Serial' /\ Stand
<1>a. pc \in [Handlers -> Labels] /\ mem \in [Handlers -> Locals]
      /\ challenges \in [ChallengeIds -> Or(Challenge)] /\ mem[h] \in Locals
  BY DEF Inv, Tables, TypeOK
<1>1. CASE Submit(h)
  <2>1. pc'[h] = "find" /\ UNCHANGED <<challenges, left>>
    BY <1>a, <1>1 DEF Submit, Start, Goto
  <2>2. Undecided(h)'
    BY <2>1 DEF Undecided
  <2> QED BY <1>1, <2>1, <2>2, OwnPart, Unwritten DEF Step, Submitting, Serial
<1>2. CASE Find(h)
  <2> DEFINE found == {c \in Created : /\ challenges[c].state = "accepted"
                                       /\ challenges[c].opponent = mem[h].player
                                       /\ entered[c][mem[h].player] # Nil /\ left[c] > 0}
  <2>1. pc'[h] = "weigh" /\ mem'[h] = [mem[h] EXCEPT !.todo = found] /\ UNCHANGED <<challenges, left>>
    BY <1>a, <1>2 DEF Find, Goto, tables
  <2>2. \A c \in found : Running(c, mem[h].player)
    BY DEF Running, Serial, Final, Created
  <2> HIDE DEF found
  <2>3. mem'[h].todo = found /\ mem'[h].player = mem[h].player
    BY <1>a, <2>1 DEF Locals
  <2>4. Undecided(h)'
    BY <2>1, <2>2, <2>3 DEF Undecided, Running
  <2> QED BY <1>2, <2>1, <2>4, OwnPart, Unwritten DEF Step, Submitting, Serial
<1>3. CASE Weigh(h)
  <2>1. /\ pc[h] = "weigh" /\ UNCHANGED <<challenges, left>>
        /\ \/ pc'[h] = "idle"
           \/ \E c \in mem[h].todo : pc'[h] = "weigh" /\ mem'[h] = [mem[h] EXCEPT !.todo = @ \ {c}]
           \/ \E c \in mem[h].todo : \E v :
                pc'[h] = "settle" /\ mem'[h] = [mem[h] EXCEPT !.chl = c, !.value = v]
    BY <1>a, <1>3 DEF Weigh, Goto, Finish, tables
  <2>2. \A c \in mem[h].todo : Running(c, mem[h].player)
    BY <2>1 DEF Serial, Undecided
  <2>3. pc'[h] = "idle" => Undecided(h)'
    BY DEF Undecided
  <2>4. ASSUME NEW c \in mem[h].todo, pc'[h] = "weigh", mem'[h] = [mem[h] EXCEPT !.todo = @ \ {c}]
        PROVE  Undecided(h)'
    <3>1. mem'[h].todo = mem[h].todo \ {c} /\ mem'[h].player = mem[h].player
      BY <1>a, <2>4 DEF Locals
    <3> QED BY <2>1, <2>2, <2>4, <3>1 DEF Undecided, Running
  <2>5. ASSUME NEW c \in mem[h].todo, NEW v, pc'[h] = "settle",
               mem'[h] = [mem[h] EXCEPT !.chl = c, !.value = v]
        PROVE  Undecided(h)'
    <3>1. mem'[h].todo = mem[h].todo /\ mem'[h].player = mem[h].player /\ mem'[h].chl = c
      BY <1>a, <2>5 DEF Locals
    <3> QED BY <2>1, <2>2, <2>5, <3>1 DEF Undecided, Running
  <2>6. Undecided(h)'
    BY <2>1, <2>3, <2>4, <2>5 DEF Undecided
  <2> QED BY <1>3, <2>1, <2>6, OwnPart, Unwritten DEF Step, Submitting, Serial
<1>4. CASE Settle(h)
  <2> DEFINE d == mem[h].chl
             p == mem[h].player
  <2>1. d \in mem[h].todo /\ d \in ChallengeIds /\ \A c \in mem[h].todo : Running(c, p)
    BY <1>a, <1>4 DEF Serial, Undecided, Settle, Inv, HandlerOK
  <2>2. /\ \A c \in ChallengeIds \ {d} : challenges'[c] = challenges[c]
        /\ challenges'[d].state = "settled" /\ challenges'[d].opponent = challenges[d].opponent
        /\ left' = left
    <3>1. challenges[d] \in Challenge
      BY <1>a, <2>1 DEF Or, Running
    <3>2. challenges'[d] = [challenges[d] EXCEPT !.state = "settled", !.winner = p]
      BY <1>a, <1>4, <2>1 DEF Settle
    <3>3. challenges'[d].state = "settled" /\ challenges'[d].opponent = challenges[d].opponent
      BY <3>1, <3>2 DEF Challenge
    <3> QED BY <1>a, <1>4, <3>3 DEF Settle
  <2>3. challenges[d] # Nil /\ challenges[d].winner = Nil
    BY <2>1 DEF Running
  <2>4. Final' /\ Stand
    BY <2>1, <2>2, <2>3 DEF Serial, Final, Stand, Created
  <2>5. pc'[h] = "weigh" /\ mem'[h].todo = mem[h].todo \ {d} /\ mem'[h].player = p
    BY <1>a, <1>4 DEF Settle, Goto, Locals
  <2>6. Undecided(h)'
    <3>1. \A c \in mem'[h].todo : c \in ChallengeIds \ {d} /\ Running(c, p)
      BY <1>a, <2>1, <2>5 DEF Locals
    <3> QED BY <2>2, <2>5, <3>1 DEF Undecided, Running
  <2> QED BY <1>4, <2>4, <2>6, OwnPart DEF Step, Submitting
<1> QED BY <1>1, <1>2, <1>3, <1>4 DEF Submitting

(* An expiry, a review, a block or its end: nobody else is under way.      *)
LEMMA CallsStand ==
  ASSUME Inv, Serial, Expire \/ Review \/ Block \/ Unblock, ~overlap'
  PROVE  Serial' /\ Stand
<1>a. challenges \in [ChallengeIds -> Or(Challenge)]
  BY DEF Inv, Tables
<1>1. InFlight = {} /\ UNCHANGED <<left, pc>>
  BY DEF Expire, Review, Block, Unblock, Call
<1>2. Alone' /\ \A h \in Handlers : Undecided(h)'
  BY <1>1 DEF InFlight, Alone, Undecided
<1>3. Final' /\ Stand
  <2>1. CASE Review \/ Unblock
    BY <1>1, <2>1, Unwritten DEF Review, Unblock, Serial
  <2>2. ASSUME NEW c \in Created, Expire \/ Block
        PROVE  \/ challenges'[c] = challenges[c]
               \/ /\ challenges[c].state \in {"open", "accepted"}
                  /\ challenges'[c].opponent = challenges[c].opponent
                  /\ challenges'[c].state = "expired"
                  /\ left[c] < 0 \/ challenges'[c].winner = challenges[c].winner
    <3>1. challenges[c] \in Challenge
      BY <1>a DEF Created, Or
    <3>2. CASE Expire
      <4>1. \/ challenges'[c] = challenges[c]
            \/ /\ challenges[c].state \in {"open", "accepted"} /\ left[c] < 0
               /\ challenges'[c] = [challenges[c] EXCEPT !.state = "expired", !.winner = challenges[c].challenger]
        BY <3>2 DEF Expire, Created
      <4> QED BY <3>1, <4>1 DEF Challenge
    <3>3. CASE Block
      <4>1. \/ challenges'[c] = challenges[c]
            \/ /\ challenges[c].state \in {"open", "accepted"}
               /\ challenges'[c] = [challenges[c] EXCEPT !.state = "expired"]
        BY <3>3 DEF Block, Created
      <4> QED BY <3>1, <4>1 DEF Challenge
    <3> QED BY <2>2, <3>2, <3>3
  <2>3. CASE Expire \/ Block
    <3>1. \A c \in Created : challenges[c].winner # Nil => challenges[c].state \notin {"open", "accepted"}
      BY DEF Serial, Final
    <3>2. Created' \subseteq Created
      BY <2>3 DEF Expire, Block, Created
    <3>3. Stand
      BY <2>2, <2>3, <3>1 DEF Stand
    <3> QED BY <1>1, <2>2, <2>3, <3>1, <3>2, <3>3 DEF Serial, Final
  <2> QED BY <2>1, <2>3
<1> QED BY <1>2, <1>3 DEF Serial

(* Time passes, or nothing happens.                                        *)
LEMMA TimeStands ==
  ASSUME Inv, Serial, Tick \/ UNCHANGED vars
  PROVE  Serial' /\ Stand
<1>1. UNCHANGED <<challenges, pc, mem>> /\ \A c \in ChallengeIds : left[c] < 0 => left'[c] < 0
  <2>1. CASE Tick
    BY <2>1 DEF Tick, Inv, Tables, TypeOK
  <2>2. CASE UNCHANGED vars
    BY <2>2 DEF vars
  <2> QED BY <2>1, <2>2
<1> QED BY <1>1 DEF Serial, Final, Alone, Undecided, Running, Stand, Created

LEMMA SerialStep == Inv /\ (~overlap => Serial) /\ [Next]_vars /\ ~overlap' => Serial' /\ Stand
<1> SUFFICES ASSUME Inv, ~overlap => Serial, [Next]_vars, ~overlap'
             PROVE  Serial' /\ Stand
  OBVIOUS
<1>1. ~overlap
  BY DEF Next, vars, Inviting, Accepting, Submitting, Invite, Target, Barrier, Create, Accept, Enter,
         Submit, Find, Weigh, Settle, Expire, Review, Block, Unblock, Tick, Start, Call
<1> QED BY <1>1, InvitingStands, AcceptingStands, SubmittingStands, CallsStand, TimeStands DEF Next

(* Call after call, who has won is not replaced by an expiry, a later      *)
(* acceptance or another run, nor is the opponent (compete.ts 556-600).    *)
THEOREM WinnersStand == Spec => DecisionStands
<1>1. Init => (~overlap => Serial)
  BY DEF Init, Serial, Final, Alone, Undecided, Created
<1>2. Inv /\ (~overlap => Serial) /\ [Next]_vars => (~overlap => Serial)'
  BY SerialStep
<1>3. Inv /\ (~overlap => Serial) /\ [Next]_vars =>
        [~overlap' =>
           \A c \in Created :
             LET old == challenges[c]
                 new == challenges'[c]
             IN /\ old.winner # Nil => new.winner = old.winner /\ new.state = old.state
                /\ old.opponent # Nil => new.opponent = old.opponent]_vars
  BY SerialStep DEF Stand
<1> QED BY <1>1, <1>2, <1>3, Invariant, PTL DEF Spec, DecisionStands

-----------------------------------------------------------------------------
(* Whoever beats the target wins.  Nobody is the opponent of an accepted   *)
(* challenge without having entered it, so a submission finds all of its   *)
(* player's; and while it weighs them alone, those it has put aside are    *)
(* not beaten, since no run is added or decided meanwhile.                 *)

OpponentsEntered ==
  \A c \in Created : challenges[c].state = "accepted" /\ challenges[c].opponent # Nil =>
    entered[c][challenges[c].opponent] # Nil

(* A challenge of which p, at the time, has beaten the target. *)
Winnable(c, p) ==
  LET value == Achieved(p, entered[c][p].at)
  IN /\ challenges[c].state = "accepted" /\ challenges[c].opponent = p /\ left[c] > 0
     /\ value # Nil /\ Beats(value, challenges[c].target)

Weighed(h) ==
  pc[h] \in {"weigh", "settle"} =>
    \A c \in Created \ mem[h].todo : ~Winnable(c, mem[h].player)

LEMMA OpponentsStep == Inv /\ OpponentsEntered /\ [Next]_vars => OpponentsEntered'
<1> SUFFICES ASSUME Inv, OpponentsEntered, [Next]_vars PROVE OpponentsEntered'
  OBVIOUS
<1>a. /\ challenges \in [ChallengeIds -> Or(Challenge)]
      /\ entered \in [ChallengeIds -> [Players -> Or(Entered)]]
  BY DEF Inv, Tables
<1>1. CASE UNCHANGED <<challenges, entered>>
  BY <1>1 DEF OpponentsEntered, Created
<1>2. ASSUME NEW h \in Handlers, Create(h) PROVE OpponentsEntered'
  <2> DEFINE d == mem[h].chl
  <2>1. d \in ChallengeIds /\ entered' = entered
    BY <1>2 DEF Create, Inv, HandlerOK, Creating
  <2>2. \A c \in ChallengeIds \ {d} : challenges'[c] = challenges[c]
    BY <1>a, <1>2 DEF Create
  <2>3. challenges'[d].state = "accepted" => challenges'[d].opponent = Nil
    BY <1>a, <1>2, <2>1 DEF Create
  <2> QED BY <2>1, <2>2, <2>3 DEF OpponentsEntered, Created
<1>3. ASSUME NEW h \in Handlers, Enter(h) PROVE OpponentsEntered'
  <2> DEFINE d == mem[h].chl
             p == mem[h].player
  <2>1. d \in ChallengeIds /\ challenges[d] # Nil /\ p \in Players
    BY <1>3 DEF Enter, Inv, HandlerOK, Opponent
  <2>2. (\A c \in ChallengeIds \ {d} : challenges'[c] = challenges[c]) /\ challenges'[d].opponent = p
    <3>1. challenges[d] \in Challenge /\ challenges'[d] = [challenges[d] EXCEPT !.state = "accepted", !.opponent = p]
      BY <1>a, <1>3, <2>1 DEF Enter, Or
    <3>2. challenges'[d].opponent = p
      BY <3>1 DEF Challenge
    <3> QED BY <1>a, <1>3, <3>2 DEF Enter
  <2>3. (\A c \in ChallengeIds \ {d} : entered'[c] = entered[c]) /\ entered'[d][p] # Nil
    <3>1. CASE entered[d][p] = Nil
      <4>1. PICK at : at \in mem[h].asked..Len(runs) /\ entered' = [entered EXCEPT ![d][p] = [at |-> at, value |-> Nil]]
        BY <1>3, <3>1 DEF Enter
      <4>2. mem[h].asked \in Nat /\ Len(runs) \in Nat /\ Len(runs) =< MaxRuns
        <5>1. mem[h] \in Locals /\ runs \in Seq(Run) /\ Len(runs) =< MaxRuns
          BY DEF Inv, Tables, TypeOK
        <5> QED BY <5>1, BoundAssumption DEF Locals, Places
      <4>3. [at |-> at, value |-> Nil] \in Entered
        BY <4>1, <4>2, BoundAssumption DEF Entered, Places, Or
      <4> QED BY <1>a, <2>1, <4>1, <4>3, NilAssumption
    <3>2. CASE entered[d][p] # Nil
      BY <1>3, <3>2 DEF Enter
    <3> QED BY <3>1, <3>2
  <2> QED BY <2>1, <2>2, <2>3 DEF OpponentsEntered, Created
<1>4. ASSUME NEW h \in Handlers, Settle(h) PROVE OpponentsEntered'
  <2> DEFINE d == mem[h].chl
             p == mem[h].player
  <2>1. d \in ChallengeIds /\ challenges[d] # Nil /\ p \in Players /\ entered[d][p] # Nil
    BY <1>4 DEF Settle, Inv, HandlerOK, Earned, EntriesOK, Opponent
  <2>2. (\A c \in ChallengeIds \ {d} : challenges'[c] = challenges[c]) /\ challenges'[d].state = "settled"
    <3>1. challenges[d] \in Challenge
          /\ challenges'[d] = [challenges[d] EXCEPT !.state = "settled", !.winner = p]
      BY <1>a, <1>4, <2>1 DEF Settle, Or
    <3>2. challenges'[d].state = "settled"
      BY <3>1 DEF Challenge
    <3> QED BY <1>a, <1>4, <3>2 DEF Settle
  <2>3. \A c \in ChallengeIds \ {d} : entered'[c] = entered[c]
    BY <1>a, <1>4 DEF Settle
  <2> QED BY <2>1, <2>2, <2>3 DEF OpponentsEntered, Created
<1>5. CASE Expire \/ Block
  <2>1. entered' = entered /\ Created' \subseteq Created
    BY <1>5 DEF Expire, Block, Created
  <2>2. ASSUME NEW c \in Created
        PROVE  challenges'[c] = challenges[c] \/ challenges'[c].state = "expired"
    <3>1. challenges[c] \in Challenge
      BY <1>a DEF Created, Or
    <3>2. CASE Expire
      <4>1. \/ challenges'[c] = challenges[c]
            \/ challenges'[c] = [challenges[c] EXCEPT !.state = "expired", !.winner = challenges[c].challenger]
        BY <3>2 DEF Expire, Created
      <4> QED BY <3>1, <4>1 DEF Challenge
    <3>3. CASE Block
      <4>1. \/ challenges'[c] = challenges[c]
            \/ challenges'[c] = [challenges[c] EXCEPT !.state = "expired"]
        BY <3>3 DEF Block, Created
      <4> QED BY <3>1, <4>1 DEF Challenge
    <3> QED BY <1>5, <3>2, <3>3
  <2> QED BY <2>1, <2>2 DEF OpponentsEntered
<1>6. \/ UNCHANGED <<challenges, entered>>
      \/ \E h \in Handlers : Create(h) \/ Enter(h) \/ Settle(h)
      \/ Expire \/ Block
  BY DEF Next, vars, tables, Inviting, Accepting, Submitting, Invite, Target, Barrier, Accept, Submit,
         Find, Weigh, Review, Unblock, Tick
<1> QED BY <1>1, <1>2, <1>3, <1>4, <1>5, <1>6

(* What is not written is as winnable as before.                           *)
LEMMA SameWinnable ==
  ASSUME NEW c, NEW q, runs' = runs, challenges'[c] = challenges[c], entered'[c] = entered[c],
         left'[c] = left[c], ~Winnable(c, q)
  PROVE  ~Winnable(c, q)'
<1>1. Achieved(q, entered[c][q].at)' = Achieved(q, entered[c][q].at)
  BY DEF Achieved, RunsOf, Sum
<1> QED BY <1>1 DEF Winnable

(* A submission goes on weighing.                                          *)
LEMMA WeighingStep ==
  ASSUME Inv, Serial, OpponentsEntered, NEW h \in Handlers, Step(h), ~overlap', Weighed(h)
  PROVE  Weighed(h)'
<1>a. pc \in [Handlers -> Labels] /\ mem[h] \in Locals
      /\ mem \in [Handlers -> Locals] /\ challenges \in [ChallengeIds -> Or(Challenge)]
  BY DEF Inv, Tables, TypeOK
<1>1. CASE Find(h)
  <2> DEFINE p == mem[h].player
             found == {c \in Created : /\ challenges[c].state = "accepted" /\ challenges[c].opponent = p
                                       /\ entered[c][p] # Nil /\ left[c] > 0}
  <2>1. mem'[h] = [mem[h] EXCEPT !.todo = found] /\ UNCHANGED tables
    BY <1>a, <1>1 DEF Find, Goto
  <2>2. p \in Players /\ p # Nil
    BY <1>1, NilAssumption DEF Find, Inv, HandlerOK
  <2>3. \A c \in Created \ found : ~Winnable(c, p)
    BY <2>2 DEF Winnable, OpponentsEntered
  <2> HIDE DEF found
  <2>4. mem'[h].todo = found /\ mem'[h].player = p
    BY <1>a, <2>1 DEF Locals
  <2> QED BY <2>1, <2>3, <2>4 DEF Weighed, Winnable, Achieved, RunsOf, Sum, Created, tables
<1>2. CASE Weigh(h)
  <2> DEFINE p == mem[h].player
  <2>1. /\ pc[h] = "weigh" /\ UNCHANGED tables
        /\ \/ pc'[h] = "idle"
           \/ \E c \in mem[h].todo :
                ~Winnable(c, p) /\ mem'[h] = [mem[h] EXCEPT !.todo = @ \ {c}]
           \/ \E c \in mem[h].todo : \E v : mem'[h] = [mem[h] EXCEPT !.chl = c, !.value = v]
    BY <1>a, <1>2 DEF Weigh, Goto, Finish, Winnable
  <2>2. \A c \in Created \ mem[h].todo : ~Winnable(c, p)
    BY <2>1 DEF Weighed
  <2>3. \/ pc'[h] = "idle"
        \/ mem'[h].player = p /\ \A c \in Created \ mem'[h].todo : ~Winnable(c, p)
    <3>1. ASSUME NEW c \in mem[h].todo, ~Winnable(c, p), mem'[h] = [mem[h] EXCEPT !.todo = @ \ {c}]
          PROVE  mem'[h].player = p /\ mem'[h].todo = mem[h].todo \ {c}
      BY <1>a, <3>1 DEF Locals
    <3>2. ASSUME NEW c \in mem[h].todo, NEW v, mem'[h] = [mem[h] EXCEPT !.chl = c, !.value = v]
          PROVE  mem'[h].player = p /\ mem'[h].todo = mem[h].todo
      BY <1>a, <3>2 DEF Locals
    <3> QED BY <2>1, <2>2, <3>1, <3>2
  <2> SUFFICES ASSUME pc'[h] # "idle", NEW c \in Created' \ mem'[h].todo
               PROVE  ~Winnable(c, mem[h].player)'
    BY DEF Weighed
  <2>4. PICK q : q = mem[h].player
    OBVIOUS
  <2>5. ~Winnable(c, q) /\ mem'[h].player = q
    BY <2>1, <2>3, <2>4 DEF Created, tables
  <2>6. ~Winnable(c, q)'
    BY <2>1, <2>5, SameWinnable DEF tables
  <2> QED BY <2>5, <2>6 DEF Winnable
<1>3. CASE Settle(h)
  <2> DEFINE d == mem[h].chl
             p == mem[h].player
  <2>1. pc[h] = "settle" /\ d \in ChallengeIds /\ challenges[d] # Nil
    BY <1>3 DEF Settle, Inv, HandlerOK, Earned, EntriesOK, Opponent, Serial, Undecided, Running
  <2>2. mem'[h].todo = mem[h].todo \ {d} /\ mem'[h].player = p
    BY <1>a, <1>3 DEF Settle, Goto, Locals
  <2>3. challenges'[d].state = "settled"
    <3>1. challenges[d] \in Challenge
          /\ challenges'[d] = [challenges[d] EXCEPT !.state = "settled", !.winner = p]
      BY <1>a, <1>3, <2>1 DEF Settle, Or
    <3> QED BY <3>1 DEF Challenge
  <2>4. ASSUME NEW c \in Created' \ (mem[h].todo \ {d}), c # d
        PROVE  ~Winnable(c, p)'
    <3>1. c \in Created \ mem[h].todo /\ challenges'[c] = challenges[c] /\ entered'[c] = entered[c]
          /\ UNCHANGED <<runs, left>>
      BY <1>a, <1>3, <2>4 DEF Settle, Created, Inv, Tables
    <3>2. PICK q : q = p
      OBVIOUS
    <3>3. ~Winnable(c, q)
      BY <2>1, <3>1, <3>2 DEF Weighed
    <3>4. ~Winnable(c, q)'
      BY <3>1, <3>3, SameWinnable
    <3> QED BY <2>2, <3>2, <3>4 DEF Winnable
  <2> QED BY <2>2, <2>3, <2>4 DEF Weighed, Winnable
<1>4. CASE ~(Find(h) \/ Weigh(h) \/ Settle(h))
  <2>1. pc'[h] \notin {"weigh", "settle"}
    BY <1>a, <1>4 DEF Step, Inviting, Accepting, Submitting, Invite, Target, Barrier, Create, Accept,
                      Enter, Submit, Start, Goto, Finish
  <2> QED BY <2>1 DEF Weighed
<1> QED BY <1>1, <1>2, <1>3, <1>4

(* Who ends a submission has nothing left to weigh.                        *)
LEMMA WeighedStep ==
  ASSUME Inv, Serial, OpponentsEntered, [Next]_vars, ~overlap', \A h \in Handlers : Weighed(h)
  PROVE  /\ \A h \in Handlers : Weighed(h)'
         /\ \A h \in Handlers : pc[h] = "weigh" /\ pc'[h] = "idle" =>
              \A c \in Created : ~Winnable(c, mem[h].player)
<1>a. pc \in [Handlers -> Labels]
  BY DEF Inv, Tables, TypeOK
<1>1. ASSUME NEW g \in Handlers, Step(g)
      PROVE  /\ \A h \in Handlers : Weighed(h)'
             /\ \A h \in Handlers : pc[h] = "weigh" /\ pc'[h] = "idle" => mem[h].todo = {}
  <2>1. \A h \in Handlers \ {g} : pc[h] = "idle" /\ pc'[h] = "idle"
    BY <1>1, StaysAlone
  <2>2. Weighed(g)'
    BY <1>1, WeighingStep
  <2>3. pc[g] = "weigh" /\ pc'[g] = "idle" => mem[g].todo = {}
    BY <1>a, <1>1 DEF Step, Inviting, Accepting, Submitting, Invite, Target, Barrier, Create, Accept,
                      Enter, Submit, Find, Weigh, Settle, Start, Goto, Finish
  <2> QED BY <2>1, <2>2, <2>3 DEF Weighed
<1>2. CASE Expire \/ Review \/ Block \/ Unblock
  <2>1. \A h \in Handlers : pc[h] = "idle" /\ pc'[h] = "idle"
    BY <1>2 DEF Expire, Review, Block, Unblock, Call, InFlight
  <2> QED BY <2>1 DEF Weighed
<1>3. CASE Tick \/ UNCHANGED vars
  <2>1. UNCHANGED <<runs, challenges, entered, pc, mem>> /\ \A c \in ChallengeIds : left'[c] > 0 => left[c] > 0
    <3>1. CASE Tick
      BY <3>1 DEF Tick, Inv, Tables, TypeOK
    <3>2. CASE UNCHANGED vars
      BY <3>2 DEF vars
    <3> QED BY <1>3, <3>1, <3>2
  <2> QED BY <2>1 DEF Weighed, Winnable, Achieved, RunsOf, Sum, Created
<1>4. (\E g \in Handlers : Step(g)) \/ Expire \/ Review \/ Block \/ Unblock \/ Tick \/ UNCHANGED vars
  BY DEF Next, Step
<1>5. ASSUME NEW h \in Handlers, pc[h] = "weigh", mem[h].todo = {}
      PROVE  \A c \in Created : ~Winnable(c, mem[h].player)
  BY <1>5 DEF Weighed
<1>6. CASE \E g \in Handlers : Step(g)
  BY <1>1, <1>5, <1>6
<1>7. CASE ~\E g \in Handlers : Step(g)
  <2>1. pc' = pc
    BY <1>4, <1>7 DEF Expire, Review, Block, Unblock, Tick, vars
  <2> QED BY <1>2, <1>3, <1>4, <1>7, <2>1
<1> QED BY <1>6, <1>7

(* Call after call, whoever beats the target in time wins (compete.ts,     *)
(* settleChallenges): a submission that ends leaves its player no          *)
(* challenge that what counts since the acceptance would win.              *)
THEOREM BeatenAreSettled == Spec => BeatenIsSettled
<1> DEFINE I == OpponentsEntered /\ (~overlap => Serial /\ \A h \in Handlers : Weighed(h))
<1>1. Init => I
  BY DEF Init, Serial, Final, Alone, Undecided, Weighed, OpponentsEntered, Created
<1>2. Inv /\ I /\ [Next]_vars /\ ~overlap' => ~overlap
  BY DEF Next, vars, Inviting, Accepting, Submitting, Invite, Target, Barrier, Create, Accept, Enter,
         Submit, Find, Weigh, Settle, Expire, Review, Block, Unblock, Tick, Start, Call
<1>3. Inv /\ I /\ [Next]_vars => I'
  BY <1>2, OpponentsStep, SerialStep, WeighedStep
<1>4. Inv /\ I /\ [Next]_vars =>
        [~overlap' =>
           \A h \in Handlers : pc[h] = "weigh" /\ pc'[h] = "idle" =>
             \A c \in Created :
               LET ch    == challenges[c]
                   p     == mem[h].player
                   value == Achieved(p, entered[c][p].at)
               IN ch.state = "accepted" /\ ch.opponent = p /\ left[c] > 0 /\ value # Nil =>
                    ~Beats(value, ch.target)]_vars
  <2> SUFFICES ASSUME Inv, I, [Next]_vars, ~overlap', NEW h \in Handlers, pc[h] = "weigh", pc'[h] = "idle",
                      NEW c \in Created
               PROVE  ~Winnable(c, mem[h].player)
    BY DEF Winnable
  <2> QED BY <1>2, WeighedStep
<1> HIDE DEF I
<1> QED BY <1>1, <1>3, <1>4, Invariant, PTL DEF Spec, BeatenIsSettled
=============================================================================
