----------------------------- MODULE SeasonProofs -----------------------------
(***************************************************************************)
(* Season, for any number of players, regions, handlers and calls, any     *)
(* thresholds, levels and directions of a discipline; Rewards, for any     *)
(* rules, badges, disciplines and days; and Streaks, for any days and runs.*)
(***************************************************************************)
EXTENDS MCSeason, Aggregation, FiniteSetTheorems, TLAPS

USE DEF Or

(* What the locals of a handler are at its statement.                      *)
OfPlayer == {"locked", "move", "join", "field", "award", "tell"}
OfRegion == OfPlayer \cup {"count", "unlock", "who", "notify", "mark"}
OfLevel  == {"region", "field", "award", "tell"}
InEarnest == {"award", "tell", "close", "next"}

Fits(label, locals) ==
  /\ label \in OfPlayer => locals.player \in Players
  /\ label \in OfRegion => locals.region \in Regions
  /\ label = "regions" => locals.level >= 1
  /\ label \in OfLevel => locals.level \in 1..MaxTitleLevel
  /\ label \in InEarnest => locals.dry = FALSE

TypeInv == TypeOK /\ \A h \in Handlers : Fits(pc[h], mem[h])

Step(h) == Settling(h) \/ Closing(h) \/ Opening(h)

Goes(h, label, locals) ==
  /\ pc' = [pc EXCEPT ![h] = label]
  /\ mem' = [mem EXCEPT ![h] = locals]

(* Where a handler may go.                                                 *)
Fitting(h) == \E label \in Labels, locals \in Locals : Fits(label, locals) /\ Goes(h, label, locals)

-----------------------------------------------------------------------------
(* Updates of the local variables keep their types.                        *)
LEMMA BlankFits == Blank \in Locals /\ Fits("idle", Blank)
<1>1. Blank \in Locals
  <2>1. 0 \in 0..MaxTitleLevel + 1
    BY LevelAssumption
  <2>2. FALSE \in BOOLEAN
    OBVIOUS
  <2> QED BY <2>1, <2>2, Zenon DEF Blank, Locals
<1>2. Fits("idle", Blank)
  BY DEF Fits, OfPlayer, OfRegion, OfLevel, InEarnest
<1> QED BY <1>1, <1>2

LEMMA Updates ==
  ASSUME NEW m \in Locals
  PROVE  /\ \A p \in Or(Players) : [m EXCEPT !.player = p] \in Locals
         /\ \A r \in Or(Regions) : [m EXCEPT !.region = r] \in Locals
         /\ \A n \in 0..MaxTitleLevel + 1 : [m EXCEPT !.level = n] \in Locals
         /\ \A b \in BOOLEAN : [m EXCEPT !.dry = b] \in Locals
         /\ \A b \in BOOLEAN : [m EXCEPT !.tied = b] \in Locals
         /\ \A S \in SUBSET Regions : [m EXCEPT !.todo = S] \in Locals
         /\ \A S \in SUBSET Players : [m EXCEPT !.people = S] \in Locals
  BY Zenon DEF Locals

LEMMA Fields ==
  ASSUME NEW m \in Locals
  PROVE  /\ m.player \in Or(Players) /\ m.region \in Or(Regions) /\ m.level \in 0..MaxTitleLevel + 1
         /\ m.dry \in BOOLEAN /\ m.tied \in BOOLEAN
         /\ m.todo \in SUBSET Regions /\ m.people \in SUBSET Players
  BY Zenon DEF Locals

LEMMA FitsSteps ==
  ASSUME TypeInv, NEW h \in Handlers, Fitting(h)
  PROVE  /\ pc' \in [Handlers -> Labels] /\ mem' \in [Handlers -> Locals]
         /\ \A g \in Handlers : Fits(pc'[g], mem'[g])
<1>1. PICK label \in Labels, locals \in Locals : Fits(label, locals) /\ Goes(h, label, locals)
  BY DEF Fitting
<1>2. pc \in [Handlers -> Labels] /\ mem \in [Handlers -> Locals]
  BY DEF TypeInv, TypeOK
<1>3. pc' \in [Handlers -> Labels] /\ mem' \in [Handlers -> Locals]
  BY <1>1, <1>2, Zenon DEF Goes
<1>4. ASSUME NEW g \in Handlers  PROVE Fits(pc'[g], mem'[g])
  <2>1. CASE g = h
    BY <1>1, <1>2, <2>1, Zenon DEF Goes
  <2>2. CASE g # h
    <3>1. pc'[g] = pc[g] /\ mem'[g] = mem[g]
      BY <1>1, <1>2, <2>2, Zenon DEF Goes
    <3> QED BY <3>1 DEF TypeInv
  <2> QED BY <2>1, <2>2
<1> QED BY <1>3, <1>4

LEMMA Finished ==
  ASSUME NEW h \in Handlers, Finish(h)  PROVE Fitting(h)
<1>1. Goes(h, "idle", Blank)
  BY DEF Finish, Goto, Goes
<1> QED BY <1>1, BlankFits DEF Fitting, Labels

LEMMA Gone ==
  ASSUME NEW h \in Handlers, NEW label \in Labels, NEW locals \in Locals,
         Goto(h, label, locals) \/ Start(h, label, locals), Fits(label, locals)
  PROVE  Fitting(h)
<1>1. Goes(h, label, locals)
  BY DEF Goto, Start, Goes
<1> QED BY <1>1 DEF Fitting

LEMMA SettlingFits ==
  ASSUME TypeInv, NEW h \in Handlers, Settling(h)  PROVE Fitting(h)
<1> DEFINE m == mem[h]
<1>0. m \in Locals /\ Fits(pc[h], m) /\ active \subseteq Regions
  BY DEF TypeInv, TypeOK
<1>1. CASE Settle(h)
  <2>1. PICK p \in Players, r \in active : Start(h, "locked", [Blank EXCEPT !.player = p, !.region = r])
    BY <1>1 DEF Settle
  <2>2. /\ [Blank EXCEPT !.player = p, !.region = r] \in Locals
        /\ Fits("locked", [Blank EXCEPT !.player = p, !.region = r])
    <3>1. [Blank EXCEPT !.player = p, !.region = r] \in Locals
      BY <1>0, BlankFits, Zenon DEF Locals
    <3>2. /\ [Blank EXCEPT !.player = p, !.region = r].player = p
          /\ [Blank EXCEPT !.player = p, !.region = r].region = r
      BY DEF Blank
    <3> QED BY <1>0, <3>1, <3>2 DEF Fits, OfPlayer, OfRegion, OfLevel, InEarnest
  <2> QED BY <2>1, <2>2, Gone DEF Labels
<1>2. CASE Finer(h)
  <2>1. CASE Finish(h)
    BY <2>1, Finished
  <2>2. CASE Goto(h, "move", m)
    BY <1>0, <1>2, <2>2, Gone DEF Finer, Labels, Fits, OfPlayer, OfRegion, OfLevel, InEarnest
  <2> QED BY <1>2, <2>1, <2>2 DEF Finer
<1>3. CASE MoveIn(h)
  BY <1>3, Finished DEF MoveIn
<1> QED BY <1>1, <1>2, <1>3 DEF Settling

LEMMA ClosingFits ==
  ASSUME TypeInv, NEW h \in Handlers, Closing(h)  PROVE Fitting(h)
<1> DEFINE m == mem[h]
<1>0. m \in Locals /\ Fits(pc[h], m) /\ active \subseteq Regions
  BY DEF TypeInv, TypeOK
<1> USE DEF Labels
<1>1. CASE Close(h)
  <2>1. PICK dry \in BOOLEAN : Start(h, "regions", [Blank EXCEPT !.level = 1, !.dry = dry])
    BY <1>1 DEF Close
  <2> DEFINE e == [Blank EXCEPT !.level = 1, !.dry = dry]
  <2>2. 1 \in 0..MaxTitleLevel + 1
    BY LevelAssumption
  <2>3. e \in Locals
    BY <2>2, BlankFits, Zenon DEF Locals
  <2>4. e.level = 1
    BY Zenon DEF Blank
  <2> HIDE DEF e
  <2>5. Fits("regions", e)
    BY <2>4 DEF Fits, OfPlayer, OfRegion, OfLevel, InEarnest
  <2> QED BY <2>1, <2>3, <2>5, Gone DEF e
<1>2. CASE ListRegions(h)
  <2>1. CASE Finish(h)
    BY <2>1, Finished
  <2>2. CASE m.level > MaxTitleLevel /\ ~m.dry /\ Goto(h, "close", m)
    <3>1. m.dry = FALSE
      BY <1>0, <2>2, Fields
    <3>2. Fits("close", m)
      BY <3>1 DEF Fits, OfPlayer, OfRegion, OfLevel, InEarnest
    <3> QED BY <1>0, <2>2, <3>2, Gone
  <2>3. CASE m.level <= MaxTitleLevel /\ Goto(h, "region", [m EXCEPT !.todo = {r \in active : Level[r] = m.level}])
    <3> DEFINE e == [m EXCEPT !.todo = {r \in active : Level[r] = m.level}]
    <3>1. {r \in active : Level[r] = m.level} \in SUBSET Regions
      BY <1>0
    <3>2. e \in Locals
      BY <1>0, <3>1, Updates
    <3>3. e.level = m.level
      BY <1>0, Zenon DEF Locals
    <3>4. pc[h] = "regions"
      BY <1>2 DEF ListRegions
    <3>5. m.level \in 1..MaxTitleLevel
      BY <1>0, <2>3, <3>4, Fields, LevelAssumption DEF Fits
    <3>6. Goto(h, "region", e)
      BY <2>3
    <3> HIDE DEF e
    <3>7. Fits("region", e)
      BY <3>3, <3>5 DEF Fits, OfPlayer, OfRegion, OfLevel, InEarnest
    <3> QED BY <3>2, <3>6, <3>7, Gone
  <2> QED BY <1>2, <2>1, <2>2, <2>3 DEF ListRegions
<1>3. CASE Top(h)
  <2>0. pc[h] = "region" /\ m.level \in 1..MaxTitleLevel /\ m.todo \in SUBSET Regions
    BY <1>0, <1>3, Fields DEF Top, Fits, OfLevel
  <2>1. CASE Goto(h, "regions", [m EXCEPT !.level = @ + 1])
    <3> DEFINE e == [m EXCEPT !.level = @ + 1]
    <3>1. m.level + 1 \in 0..MaxTitleLevel + 1 /\ m.level + 1 >= 1
      BY <2>0, LevelAssumption
    <3>2. e \in Locals /\ e = [m EXCEPT !.level = m.level + 1]
      BY <1>0, <3>1, Updates
    <3>3. e.level = m.level + 1
      BY <1>0, <3>2, Zenon DEF Locals
    <3>4. Goto(h, "regions", e)
      BY <2>1
    <3> HIDE DEF e
    <3>5. Fits("regions", e)
      BY <3>1, <3>3 DEF Fits, OfPlayer, OfRegion, OfLevel, InEarnest
    <3> QED BY <3>2, <3>4, <3>5, Gone
  <2>2. ASSUME NEW r \in m.todo, Goto(h, "region", [m EXCEPT !.todo = @ \ {r}])  PROVE Fitting(h)
    <3> DEFINE e == [m EXCEPT !.todo = @ \ {r}]
    <3>1. e \in Locals
      BY <1>0, <2>0, Zenon DEF Locals
    <3>2. e.level = m.level
      BY <1>0, Zenon DEF Locals
    <3>3. Goto(h, "region", e)
      BY <2>2
    <3> HIDE DEF e
    <3>4. Fits("region", e)
      BY <2>0, <3>2 DEF Fits, OfPlayer, OfRegion, OfLevel, InEarnest
    <3> QED BY <3>1, <3>3, <3>4, Gone
  <2>3. ASSUME NEW r \in m.todo, NEW p \in Leaders(r),
               Goto(h, "field", [m EXCEPT !.todo = @ \ {r}, !.region = r, !.player = p,
                                          !.tied = Leaders(r) # {p}])
        PROVE  Fitting(h)
    <3> DEFINE e == [m EXCEPT !.todo = @ \ {r}, !.region = r, !.player = p, !.tied = Leaders(r) # {p}]
    <3>1. p \in Players /\ r \in Regions
      BY <2>0 DEF Leaders, Field
    <3>2. (Leaders(r) # {p}) \in BOOLEAN
      OBVIOUS
    <3>3. e \in Locals
      BY <1>0, <2>0, <3>1, <3>2, Zenon DEF Locals
    <3>4. e.level = m.level /\ e.player = p /\ e.region = r
      BY <1>0, Zenon DEF Locals
    <3>5. Goto(h, "field", e)
      BY <2>3
    <3> HIDE DEF e
    <3>6. Fits("field", e)
      BY <2>0, <3>1, <3>4 DEF Fits, OfPlayer, OfRegion, OfLevel, InEarnest
    <3> QED BY <3>3, <3>5, <3>6, Gone
  <2> QED BY <1>3, <2>1, <2>2, <2>3 DEF Top
<1>4. CASE Total(h)
  <2>0. pc[h] = "field" /\ m.level \in 1..MaxTitleLevel
    BY <1>0, <1>4 DEF Total, Fits, OfLevel
  <2>1. CASE Goto(h, "region", m)
    BY <1>0, <2>0, <2>1, Gone DEF Fits, OfPlayer, OfRegion, OfLevel, InEarnest
  <2>2. CASE ~m.dry /\ Goto(h, "award", m)
    <3>1. m.dry = FALSE
      BY <1>0, <2>2, Fields
    <3> QED BY <1>0, <2>0, <2>2, <3>1, Gone DEF Fits, OfPlayer, OfRegion, OfLevel, InEarnest
  <2> QED BY <1>4, <2>1, <2>2 DEF Total
<1>5. CASE Award(h) \/ TellTitle(h)
  <2>0. pc[h] \in {"award", "tell"}
    BY <1>5 DEF Award, TellTitle
  <2>1. CASE Goto(h, "region", m)
    BY <1>0, <2>0, <2>1, Gone DEF Fits, OfPlayer, OfRegion, OfLevel, InEarnest
  <2>2. CASE Goto(h, "tell", m)
    BY <1>0, <2>0, <2>2, Gone DEF Fits, OfPlayer, OfRegion, OfLevel, InEarnest
  <2> QED BY <1>5, <2>1, <2>2 DEF Award, TellTitle
<1>6. CASE CloseSeason(h)
  <2>1. CASE Goto(h, "next", m)
    BY <1>0, <1>6, <2>1, Gone DEF CloseSeason, Fits, OfPlayer, OfRegion, OfLevel, InEarnest
  <2> QED BY <1>6, <2>1, Finished DEF CloseSeason
<1>7. CASE OpenNext(h)
  BY <1>7, Finished DEF OpenNext
<1> QED BY <1>1, <1>2, <1>3, <1>4, <1>5, <1>6, <1>7 DEF Closing

LEMMA OpeningFits ==
  ASSUME TypeInv, NEW h \in Handlers, Opening(h)  PROVE Fitting(h)
<1> DEFINE m == mem[h]
<1>0. m \in Locals /\ Fits(pc[h], m)
  BY DEF TypeInv, TypeOK
<1> USE DEF Labels
<1>1. CASE Wait(h)
  <2>1. PICK p \in Players, r \in Regions \ active : Start(h, "join", [Blank EXCEPT !.player = p, !.region = r])
    BY <1>1 DEF Wait
  <2>2. [Blank EXCEPT !.player = p, !.region = r] \in Locals
    BY BlankFits, Zenon DEF Locals
  <2>3. /\ [Blank EXCEPT !.player = p, !.region = r].player = p
        /\ [Blank EXCEPT !.player = p, !.region = r].region = r
    BY DEF Blank
  <2>4. Fits("join", [Blank EXCEPT !.player = p, !.region = r])
    BY <2>3 DEF Fits, OfPlayer, OfRegion, OfLevel, InEarnest
  <2> QED BY <2>1, <2>2, <2>4, Gone
<1>2. CASE AskUnlock(h)
  <2>1. PICK r \in Regions \ active : Start(h, "unlock", [Blank EXCEPT !.region = r])
    BY <1>2 DEF AskUnlock
  <2>2. [Blank EXCEPT !.region = r] \in Locals
    BY BlankFits, Updates
  <2>3. [Blank EXCEPT !.region = r].region = r
    BY DEF Blank
  <2>4. Fits("unlock", [Blank EXCEPT !.region = r])
    BY <2>3 DEF Fits, OfPlayer, OfRegion, OfLevel, InEarnest
  <2> QED BY <2>1, <2>2, <2>4, Gone
<1>3. CASE Join(h) \/ Count(h) \/ Unlock(h)
  <2>1. pc[h] \in {"join", "count", "unlock"}
    BY <1>3 DEF Join, Count, Unlock
  <2>2. Finish(h) \/ \E label \in {"count", "unlock", "who"} : Goto(h, label, m)
    BY <1>3 DEF Join, Count, Unlock
  <2> QED BY <1>0, <2>1, <2>2, Gone, Finished DEF Fits, OfPlayer, OfRegion, OfLevel, InEarnest
<1>4. ASSUME NEW S \in SUBSET Players, NEW label \in {"notify", "mark"}, pc[h] \in {"who", "notify"},
             Goto(h, label, [m EXCEPT !.people = S])
      PROVE  Fitting(h)
  <2>1. [m EXCEPT !.people = S] \in Locals
    BY <1>0, Updates
  <2>2. [m EXCEPT !.people = S].region = m.region
    BY <1>0, Zenon DEF Locals
  <2>3. Fits(label, [m EXCEPT !.people = S])
    BY <1>0, <1>4, <2>2 DEF Fits, OfPlayer, OfRegion, OfLevel, InEarnest
  <2> QED BY <1>4, <2>1, <2>3, Gone
<1>5. CASE Who(h)
  BY <1>4, <1>5 DEF Who
<1>6. CASE Notify(h)
  <2>1. pc[h] = "notify" /\ m.people \in SUBSET Players
    BY <1>0, <1>6, Fields DEF Notify
  <2>2. CASE Goto(h, "mark", m)
    BY <1>0, <2>1, <2>2, Gone DEF Fits, OfPlayer, OfRegion, OfLevel, InEarnest
  <2>3. ASSUME NEW p \in m.people, Goto(h, "notify", [m EXCEPT !.people = @ \ {p}])  PROVE Fitting(h)
    <3>1. [m EXCEPT !.people = @ \ {p}] = [m EXCEPT !.people = m.people \ {p}]
      OBVIOUS
    <3> QED BY <1>4, <2>1, <2>3, <3>1
  <2> QED BY <1>6, <2>2, <2>3 DEF Notify
<1>7. CASE Mark(h)
  BY <1>7, Finished DEF Mark
<1> QED BY <1>1, <1>2, <1>3, <1>5, <1>6, <1>7 DEF Opening

LEMMA StepFits ==
  ASSUME TypeInv, NEW h \in Handlers, Step(h)  PROVE Fitting(h)
  BY SettlingFits, ClosingFits, OpeningFits DEF Step

-----------------------------------------------------------------------------
(* Rows keep their types.                                                  *)
RowsOK ==
  /\ active \subseteq Regions
  /\ home \in [Players -> Or(Regions)] /\ board \in [Players -> Or(Rows)]
  /\ closed \in BOOLEAN /\ next \in BOOLEAN
  /\ titles \in [Regions -> Or(Players)] /\ awarded \in [Regions -> Nat]
  /\ waiting \in [Regions -> [Players -> {"no", "yes", "notified"}]]
  /\ opened \in [Regions -> [Players -> Nat]]

CountsOK == calls \in 0..MaxCalls /\ overlap \in BOOLEAN /\ since \in {"before", "still", "moved"}

LEMMA StepCounts ==
  ASSUME TypeInv, NEW h \in Handlers, Step(h)  PROVE CountsOK'
<1>1. calls \in 0..MaxCalls /\ overlap \in BOOLEAN /\ since \in {"before", "still", "moved"}
  BY DEF TypeInv, TypeOK
<1>2. \/ UNCHANGED <<calls, overlap>>
      \/ calls < MaxCalls /\ calls' = calls + 1 /\ overlap' = (overlap \/ InFlight # {})
  BY DEF Step, Settling, Closing, Opening, Settle, Finer, MoveIn, Close, ListRegions, Top, Total,
         Award, TellTitle, CloseSeason, OpenNext, Wait, Join, Count, AskUnlock, Unlock, Who, Notify,
         Mark, Goto, Finish, Start
<1>3. calls' \in 0..MaxCalls
  BY <1>1, <1>2, LimitsAssumption
<1>4. overlap' \in BOOLEAN
  BY <1>1, <1>2, Zenon
<1>5. UNCHANGED since \/ since' \in {"still", "moved"}
  BY DEF Step, Settling, Closing, Opening, Settle, Finer, MoveIn, Close, ListRegions, Top, Total,
         Award, TellTitle, CloseSeason, OpenNext, Wait, Join, Count, AskUnlock, Unlock, Who, Notify,
         Mark, Moves, Goto, Finish, Start
<1> QED BY <1>1, <1>3, <1>4, <1>5 DEF CountsOK

LEMMA StepRows ==
  ASSUME TypeInv, NEW h \in Handlers, Step(h)  PROVE RowsOK'
<1> DEFINE m == mem[h]
<1>0. RowsOK /\ m \in Locals /\ Fits(pc[h], m)
  BY DEF TypeInv, TypeOK, RowsOK
<1>1. CASE UNCHANGED tables
  BY <1>0, <1>1 DEF tables, RowsOK
<1>2. CASE MoveIn(h)
  <2>1. m.region \in Regions
    BY <1>0, <1>2 DEF MoveIn, Fits, OfRegion, OfPlayer
  <2>2. home' \in [Players -> Or(Regions)]
    BY <1>0, <1>2, <2>1 DEF MoveIn, RowsOK
  <2> QED BY <1>0, <1>2, <2>2 DEF MoveIn, RowsOK
<1>3. CASE Award(h)
  <2>1. m.player \in Players
    BY <1>0, <1>3 DEF Award, Fits, OfPlayer
  <2>2. titles' \in [Regions -> Or(Players)]
    BY <1>0, <1>3, <2>1 DEF Award, RowsOK
  <2> QED BY <1>0, <1>3, <2>2 DEF Award, RowsOK
<1>4. CASE TellTitle(h)
  <2>0. awarded \in [Regions -> Nat] /\ awarded' = [awarded EXCEPT ![m.region] = @ + 1]
    BY <1>0, <1>4 DEF TellTitle, RowsOK
  <2>1. \A r \in Regions : awarded'[r] \in Nat
    BY <2>0
  <2>2. awarded' = [r \in Regions |-> awarded'[r]]
    BY <2>0
  <2>3. awarded' \in [Regions -> Nat]
    BY <2>1, <2>2
  <2> QED BY <1>0, <1>4, <2>3 DEF TellTitle, RowsOK
<1>5. CASE CloseSeason(h) \/ OpenNext(h)
  <2>1. closed' \in BOOLEAN /\ next' \in BOOLEAN
    BY <1>0, <1>5, Zenon DEF CloseSeason, OpenNext, RowsOK
  <2> QED BY <1>0, <1>5, <2>1 DEF CloseSeason, OpenNext, RowsOK
<1>6. CASE Join(h)
  <2>1. m.region \in Regions /\ m.player \in Players
    BY <1>0, <1>6 DEF Join, Fits, OfPlayer, OfRegion
  <2>2. waiting' \in [Regions -> [Players -> {"no", "yes", "notified"}]]
    BY <1>0, <1>6, <2>1 DEF Join, RowsOK
  <2> QED BY <1>0, <1>6, <2>2 DEF Join, RowsOK
<1>7. CASE Unlock(h)
  <2>1. m.region \in Regions
    BY <1>0, <1>7 DEF Unlock, Fits, OfPlayer, OfRegion
  <2> QED BY <1>0, <1>7, <2>1 DEF Unlock, RowsOK
<1>8. CASE Notify(h)
  <2>1. m.region \in Regions /\ m.people \subseteq Players
    BY <1>0, <1>8, Fields DEF Notify, Fits, OfPlayer, OfRegion
  <2>2. UNCHANGED opened \/ \E p \in m.people : opened' = [opened EXCEPT ![m.region][p] = @ + 1]
    BY <1>8 DEF Notify
  <2>3. opened \in [Regions -> [Players -> Nat]]
    BY <1>0 DEF RowsOK
  <2>5. ASSUME UNCHANGED opened  PROVE opened' \in [Regions -> [Players -> Nat]]
    BY <2>3, <2>5
  <2>6. ASSUME NEW p \in m.people, opened' = [opened EXCEPT ![m.region][p] = @ + 1]
        PROVE  opened' \in [Regions -> [Players -> Nat]]
    <3> DEFINE row == [opened[m.region] EXCEPT ![p] = @ + 1]
    <3>1. opened[m.region] \in [Players -> Nat] /\ p \in Players
      BY <2>1, <2>3, <2>6
    <3>2. row \in [Players -> Nat]
      BY <3>1
    <3>3. opened' = [opened EXCEPT ![m.region] = row]
      BY <2>6
    <3> HIDE DEF row
    <3> QED BY <2>1, <2>3, <3>2, <3>3
  <2>7. opened' \in [Regions -> [Players -> Nat]]
    BY <2>2, <2>5, <2>6
  <2> QED BY <1>0, <1>8, <2>7 DEF Notify, RowsOK
<1>9. CASE Mark(h)
  <2>1. m.region \in Regions
    BY <1>0, <1>9 DEF Mark, Fits, OfPlayer, OfRegion
  <2>2. waiting' \in [Regions -> [Players -> {"no", "yes", "notified"}]]
    BY <1>0, <1>9, <2>1 DEF Mark, RowsOK
  <2> QED BY <1>0, <1>9, <2>2 DEF Mark, RowsOK
<1> QED
  BY <1>1, <1>2, <1>3, <1>4, <1>5, <1>6, <1>7, <1>8, <1>9
     DEF Step, Settling, Closing, Opening, Settle, Finer, Close, ListRegions, Top, Total, Wait,
         Count, AskUnlock, Who

LEMMA RefreshTypes == TypeInv /\ Refresh => TypeInv'
<1> SUFFICES ASSUME TypeInv, Refresh  PROVE TypeInv'
  OBVIOUS
<1>1. board' \in [Players -> Or(Rows)]
  <2>1. PICK p \in Players : \E row \in Or([value : Values, district : {home[p]}]) :
          board' = [board EXCEPT ![p] = row]
    BY DEF Refresh
  <2>2. PICK row \in Or([value : Values, district : {home[p]}]) : board' = [board EXCEPT ![p] = row]
    BY <2>1
  <2>3. row \in Or(Rows)
    BY DEF TypeInv, TypeOK, Rows
  <2> QED BY <2>2, <2>3 DEF TypeInv, TypeOK
<1>2. calls' \in 0..MaxCalls
  BY LimitsAssumption DEF Refresh, TypeInv, TypeOK
<1>3. since' \in {"before", "still", "moved"}
  BY DEF Refresh, Moves, TypeInv, TypeOK
<1> QED BY <1>1, <1>2, <1>3 DEF Refresh, TypeInv, TypeOK

LEMMA InitTypes == Init => TypeInv
<1> SUFFICES ASSUME Init  PROVE TypeInv
  OBVIOUS
<1>1. RowsOK
  <2>1. active \subseteq Regions /\ board \in [Players -> Or(Rows)]
    BY DEF Init
  <2>2. home \in [Players -> Or(Regions)]
    BY DEF Init
  <2>3. closed \in BOOLEAN /\ next \in BOOLEAN
    BY Zenon DEF Init
  <2> QED BY <2>1, <2>2, <2>3 DEF Init, RowsOK
<1>2. pc \in [Handlers -> Labels] /\ mem \in [Handlers -> Locals]
  BY BlankFits, Zenon DEF Init, Labels
<1>3. calls \in 0..MaxCalls
  BY LimitsAssumption DEF Init
<1>4. overlap \in BOOLEAN /\ since \in {"before", "still", "moved"}
  BY Zenon DEF Init
<1>5. ASSUME NEW h \in Handlers  PROVE Fits(pc[h], mem[h])
  BY BlankFits DEF Init
<1> QED BY <1>1, <1>2, <1>3, <1>4, <1>5, Zenon DEF RowsOK, TypeInv, TypeOK

(* Every step is one of a handler, or a new row of the board.              *)
LEMMA StepOrRefresh == Next => Refresh \/ \E h \in Handlers : Step(h)
  BY DEF Next, Step

LEMMA TypeInvariant == Spec => []TypeInv
<1>1. TypeInv /\ [Next]_vars => TypeInv'
  <2> SUFFICES ASSUME TypeInv, [Next]_vars  PROVE TypeInv'
    OBVIOUS
  <2>1. CASE UNCHANGED vars
    BY <2>1 DEF vars, TypeInv, TypeOK
  <2>2. ASSUME NEW h \in Handlers, Step(h)  PROVE TypeInv'
    <3>1. RowsOK' /\ CountsOK'
      BY <2>2, StepRows, StepCounts
    <3>2. /\ pc' \in [Handlers -> Labels] /\ mem' \in [Handlers -> Locals]
          /\ \A g \in Handlers : Fits(pc'[g], mem'[g])
      BY <2>2, StepFits, FitsSteps
    <3> QED BY <3>1, <3>2, Zenon DEF TypeInv, TypeOK, RowsOK, CountsOK
  <2> QED BY <2>1, <2>2, RefreshTypes, StepOrRefresh
<1> QED BY <1>1, InitTypes, PTL DEF Spec

(* Regions, boards, titles, waitlists and the local variables of every     *)
(* handler keep their types.                                               *)
THEOREM TypeCorrect == Spec => []TypeOK
<1>1. TypeInv => TypeOK
  BY DEF TypeInv
<1> QED BY <1>1, TypeInvariant, PTL

-----------------------------------------------------------------------------
(* A step is its handler's alone.                                          *)
LEMMA OthersStay ==
  ASSUME TypeInv, NEW h \in Handlers, Step(h), NEW g \in Handlers, g # h
  PROVE  pc'[g] = pc[g] /\ mem'[g] = mem[g]
<1>1. PICK label \in Labels, locals \in Locals : Goes(h, label, locals)
  BY StepFits DEF Fitting
<1> QED BY <1>1 DEF Goes, TypeInv, TypeOK

LEMMA OwnStep ==
  ASSUME TypeInv, NEW h \in Handlers, NEW label, NEW locals,
         Goto(h, label, locals) \/ Start(h, label, locals)
  PROVE  pc'[h] = label /\ mem'[h] = locals
  BY DEF Goto, Start, TypeInv, TypeOK

-----------------------------------------------------------------------------
(* Every title is announced once: by an event that is there, or by the     *)
(* call that has just inserted it.                                         *)
Tellers(r) == {h \in Handlers : pc[h] = "tell" /\ mem[h].region = r}

TellInv ==
  \A r \in Regions :
    \/ titles[r] = Nil /\ awarded[r] = 0 /\ Tellers(r) = {}
    \/ titles[r] # Nil /\ awarded[r] = 1 /\ Tellers(r) = {}
    \/ titles[r] # Nil /\ awarded[r] = 0 /\ \E h \in Handlers : Tellers(r) = {h}

LEMMA TellStep ==
  ASSUME TypeInv, TellInv, NEW h \in Handlers, Step(h)  PROVE TellInv'
<1> DEFINE m == mem[h]
<1>0. /\ titles \in [Regions -> Or(Players)] /\ awarded \in [Regions -> Nat]
      /\ pc \in [Handlers -> Labels] /\ Fits(pc[h], m)
  BY DEF TypeInv, TypeOK
<1>1. CASE Award(h) /\ titles[m.region] = Nil
  <2>0. PICK r \in Regions, p \in Players : r = m.region /\ p = m.player
    BY <1>0, <1>1 DEF Award, Fits, OfPlayer, OfRegion
  <2>1. pc[h] = "award" /\ titles[r] = Nil /\ titles' = [titles EXCEPT ![r] = p] /\ UNCHANGED awarded
    BY <1>1, <2>0 DEF Award
  <2>2. pc'[h] = "tell" /\ mem'[h] = m
    BY <1>1, OwnStep DEF Award
  <2>3. ASSUME NEW q \in Regions, q # r
        PROVE  titles'[q] = titles[q] /\ awarded'[q] = awarded[q] /\ Tellers(q)' = Tellers(q)
    <3>1. Tellers(q)' = Tellers(q)
      BY <2>0, <2>1, <2>2, <2>3, OthersStay DEF Tellers
    <3> QED BY <1>0, <2>1, <2>3, <3>1
  <2>4. Tellers(r) = {} /\ awarded[r] = 0
    BY <2>1 DEF TellInv
  <2>5. Tellers(r)' = {h}
    BY <2>0, <2>2, <2>4, OthersStay DEF Tellers
  <2>6. titles'[r] # Nil /\ awarded'[r] = 0
    BY <1>0, <2>1, <2>4, PlayersAssumption
  <2> QED BY <2>3, <2>5, <2>6 DEF TellInv
<1>2. CASE TellTitle(h)
  <2>0. PICK r \in Regions : r = m.region
    BY <1>0, <1>2 DEF TellTitle, Fits, OfPlayer, OfRegion
  <2>1. pc[h] = "tell" /\ UNCHANGED titles /\ awarded' = [awarded EXCEPT ![r] = @ + 1]
    BY <1>2, <2>0 DEF TellTitle
  <2>2. pc'[h] = "region"
    BY <1>2, OwnStep DEF TellTitle
  <2>3. ASSUME NEW q \in Regions, q # r
        PROVE  titles'[q] = titles[q] /\ awarded'[q] = awarded[q] /\ Tellers(q)' = Tellers(q)
    <3>1. Tellers(q)' = Tellers(q)
      BY <2>0, <2>1, <2>2, <2>3, OthersStay DEF Tellers
    <3> QED BY <1>0, <2>1, <2>3, <3>1
  <2>4. h \in Tellers(r)
    BY <2>0, <2>1 DEF Tellers
  <2>5. titles[r] # Nil /\ awarded[r] = 0 /\ Tellers(r) = {h}
    BY <2>4 DEF TellInv
  <2>6. Tellers(r)' = {}
    <3>1. ASSUME NEW g \in Handlers, pc'[g] = "tell", mem'[g].region = r  PROVE FALSE
      <4>1. g # h
        BY <2>2, <3>1
      <4>2. g \in Tellers(r)
        BY <3>1, <4>1, OthersStay DEF Tellers
      <4> QED BY <2>5, <4>1, <4>2
    <3> QED BY <3>1 DEF Tellers
  <2>7. titles'[r] # Nil /\ awarded'[r] = 1
    BY <1>0, <2>1, <2>5
  <2> QED BY <2>3, <2>6, <2>7 DEF TellInv
<1>3. CASE ~TellTitle(h) /\ ~(Award(h) /\ titles[m.region] = Nil)
  <2>1. UNCHANGED <<titles, awarded>> /\ pc[h] # "tell"
    BY <1>3 DEF Step, Settling, Closing, Opening, Settle, Finer, MoveIn, Close, ListRegions, Top, Total,
         Award, TellTitle, CloseSeason, OpenNext, Wait, Join, Count, AskUnlock, Unlock, Who, Notify,
         Mark, tables, Start
  <2>2. \E label \in Labels \ {"tell"} : \E locals : Goto(h, label, locals) \/ Start(h, label, locals)
    BY <1>3 DEF Step, Settling, Closing, Opening, Settle, Finer, MoveIn, Close, ListRegions, Top, Total,
         Award, TellTitle, CloseSeason, OpenNext, Wait, Join, Count, AskUnlock, Unlock, Who, Notify,
         Mark, Finish, Labels
  <2>3. pc'[h] # "tell"
    BY <2>2, OwnStep
  <2>4. ASSUME NEW r \in Regions  PROVE Tellers(r)' = Tellers(r)
    BY <2>1, <2>3, OthersStay DEF Tellers
  <2> QED BY <2>1, <2>4 DEF TellInv
<1> QED BY <1>1, <1>2, <1>3

LEMMA TellOnce == Spec => []TellInv
<1>1. Init => TellInv
  BY DEF Init, TellInv, Tellers
<1>2. TypeInv /\ TellInv /\ [Next]_vars => TellInv'
  <2> SUFFICES ASSUME TypeInv, TellInv, [Next]_vars  PROVE TellInv'
    OBVIOUS
  <2>1. CASE UNCHANGED vars \/ Refresh
    BY <2>1 DEF vars, Refresh, TellInv, Tellers
  <2> QED BY <2>1, TellStep, StepOrRefresh
<1> QED BY <1>1, <1>2, TypeInvariant, PTL DEF Spec

-----------------------------------------------------------------------------
(* The titles of a close that nothing moves under.                         *)

(* Who holds the title of a region when it is awarded from the board.      *)
Worthy(r) ==
  /\ r \in active /\ Level[r] <= MaxTitleLevel
  /\ Cardinality(Field(r)) >= MinPlayers /\ Cardinality(Leaders(r)) = 1

Due(r) == IF Worthy(r) THEN CHOOSE p \in Players : Leaders(r) = {p} ELSE Nil

AtClosing == {"regions", "region", "field", "award", "tell", "close", "next"}

(* A close that is not a dry run.                                          *)
Serious(h) == pc[h] \in AtClosing /\ mem[h].dry = FALSE

(* The region may still get its title from a call at this statement.       *)
Ahead(label, locals, r) ==
  /\ r \in active /\ Level[r] <= MaxTitleLevel
  /\ \/ label = "regions" /\ Level[r] >= locals.level
     \/ label \in OfLevel /\ (Level[r] > locals.level \/ r \in locals.todo)
     \/ label \in {"field", "award"} /\ r = locals.region

(* What such a call has done, and what it has read.                        *)
Pursues(label, locals) ==
  /\ \A r \in Regions : titles[r] = Due(r) \/ Ahead(label, locals, r)
  /\ label \in OfLevel => \A r \in locals.todo : r \in active /\ Level[r] <= MaxTitleLevel
  /\ label = "field" =>
       /\ locals.region \in active /\ Level[locals.region] <= MaxTitleLevel
       /\ locals.player \in Leaders(locals.region)
       /\ locals.tied = (Leaders(locals.region) # {locals.player})
  /\ label = "award" => locals.player = Due(locals.region)

CloseInv ==
  /\ since = "before" =>
       ~closed /\ (\A r \in Regions : titles[r] = Nil) /\ \A h \in Handlers : ~Serious(h)
  /\ since = "still" =>
       /\ \A r \in Regions : titles[r] \in {Nil, Due(r)}
       /\ \A h \in Handlers : Serious(h) => Pursues(pc[h], mem[h])
       /\ closed => \A r \in Regions : titles[r] = Due(r)

LEMMA DueStays ==
  ASSUME UNCHANGED <<active, board>>, NEW r
  PROVE  Due(r)' = Due(r) /\ Leaders(r)' = Leaders(r) /\ Worthy(r)' = Worthy(r)
<1>1. Field(r)' = Field(r)
  BY DEF Field
<1>2. Leaders(r)' = Leaders(r)
  BY <1>1 DEF Leaders
<1>3. Worthy(r)' = Worthy(r)
  BY <1>1, <1>2 DEF Worthy
<1> QED BY <1>2, <1>3 DEF Due

LEMMA LeadersFinite == ASSUME NEW r  PROVE IsFiniteSet(Leaders(r)) /\ Leaders(r) \subseteq Players
<1>1. Leaders(r) \subseteq Players
  BY DEF Leaders, Field
<1> QED BY <1>1, FS_Subset, PlayersAssumption

LEMMA SoleLeader ==
  ASSUME NEW r, NEW p, Leaders(r) = {p}, r \in active, Level[r] <= MaxTitleLevel,
         Cardinality(Field(r)) >= MinPlayers
  PROVE  Due(r) = p
<1>1. Cardinality(Leaders(r)) = 1
  BY FS_Singleton
<1>2. p \in Players
  BY LeadersFinite
<1>3. \A q \in Players : Leaders(r) = {q} => q = p
  OBVIOUS
<1> QED BY <1>1, <1>2, <1>3 DEF Due, Worthy

LEMMA NoSoleLeader ==
  ASSUME NEW r, NEW p \in Leaders(r), Leaders(r) # {p}
  PROVE  Due(r) = Nil
<1>1. Cardinality(Leaders(r)) # 1
  BY LeadersFinite, FS_Singleton
<1> QED BY <1>1 DEF Due, Worthy

LEMMA NoLeader ==
  ASSUME NEW r, Field(r) = {}
  PROVE  Due(r) = Nil
<1>1. Leaders(r) = {}
  BY DEF Leaders
<1>2. Cardinality(Leaders(r)) = 0
  BY <1>1, FS_EmptySet
<1> QED BY <1>2 DEF Due, Worthy

LEMMA FieldShort ==
  ASSUME NEW r, Cardinality(Field(r)) < MinPlayers
  PROVE  Due(r) = Nil
<1>1. IsFiniteSet(Field(r))
  BY FS_Subset, PlayersAssumption DEF Field
<1>2. Cardinality(Field(r)) \in Nat
  BY <1>1, FS_CardinalityType
<1> QED BY <1>2, LimitsAssumption DEF Due, Worthy

LEMMA StillPursued ==
  ASSUME UNCHANGED <<active, board>>, NEW label, NEW locals, Pursues(label, locals),
         \A r \in Regions : titles'[r] = titles[r] \/ titles'[r] = Due(r)
  PROVE  Pursues(label, locals)'
<1>1. /\ \A r : Due(r)' = Due(r) /\ Leaders(r)' = Leaders(r)
      /\ \A r : Ahead(label, locals, r)' <=> Ahead(label, locals, r)
  BY DueStays DEF Ahead
<1> QED BY <1>1 DEF Pursues

LEMMA FinerPursued ==
  ASSUME TypeInv, NEW m \in Locals, m.level \in 1..MaxTitleLevel + 1, Pursues("regions", m)
  PROVE  /\ m.level > MaxTitleLevel => Pursues("close", m) /\ \A r \in Regions : titles[r] = Due(r)
         /\ m.level <= MaxTitleLevel =>
              Pursues("region", [m EXCEPT !.todo = {r \in active : Level[r] = m.level}])
<1>0. \A r \in Regions : Level[r] \in Nat
  BY LevelAssumption
<1>1. ASSUME m.level > MaxTitleLevel, NEW r \in Regions  PROVE titles[r] = Due(r)
  BY <1>0, <1>1, LevelAssumption DEF Pursues, Ahead, OfLevel
<1>2. m.level > MaxTitleLevel => Pursues("close", m)
  BY <1>1 DEF Pursues, OfLevel
<1>3. ASSUME m.level <= MaxTitleLevel
      PROVE  Pursues("region", [m EXCEPT !.todo = {r \in active : Level[r] = m.level}])
  <2> DEFINE e == [m EXCEPT !.todo = {r \in active : Level[r] = m.level}]
  <2>1. e.level = m.level /\ e.todo = {r \in active : Level[r] = m.level}
    BY Zenon DEF Locals
  <2> HIDE DEF e
  <2>2. ASSUME NEW r \in Regions, Ahead("regions", m, r)  PROVE Ahead("region", e, r)
    BY <1>0, <2>1, <2>2 DEF Ahead, OfLevel
  <2>3. \A r \in e.todo : r \in active /\ Level[r] <= MaxTitleLevel
    BY <1>3, <2>1
  <2>4. Pursues("region", e)
    BY <2>2, <2>3 DEF Pursues
  <2> QED BY <2>4 DEF e
<1> QED BY <1>1, <1>2, <1>3

LEMMA NextLevelPursued ==
  ASSUME TypeInv, NEW m \in Locals, m.level \in 1..MaxTitleLevel, m.todo = {}, Pursues("region", m)
  PROVE  Pursues("regions", [m EXCEPT !.level = @ + 1])
<1> DEFINE e == [m EXCEPT !.level = @ + 1]
<1>0. \A r \in Regions : Level[r] \in Nat
  BY LevelAssumption
<1>1. e.level = m.level + 1
  BY Zenon DEF Locals
<1> HIDE DEF e
<1>2. ASSUME NEW r \in Regions, Ahead("region", m, r)  PROVE Ahead("regions", e, r)
  BY <1>0, <1>1, <1>2 DEF Ahead, OfLevel
<1>3. Pursues("regions", e)
  BY <1>2 DEF Pursues, OfLevel
<1> QED BY <1>3 DEF e

LEMMA EmptyPursued ==
  ASSUME TypeInv, NEW m \in Locals, NEW r \in m.todo, Field(r) = {}, Pursues("region", m),
         titles[r] \in {Nil, Due(r)}
  PROVE  Pursues("region", [m EXCEPT !.todo = @ \ {r}])
<1> DEFINE e == [m EXCEPT !.todo = @ \ {r}]
<1>1. e.level = m.level /\ e.todo = m.todo \ {r}
  BY Zenon DEF Locals
<1> HIDE DEF e
<1>2. titles[r] = Due(r)
  BY NoLeader
<1>3. ASSUME NEW q \in Regions, Ahead("region", m, q), q # r  PROVE Ahead("region", e, q)
  BY <1>1, <1>3 DEF Ahead, OfLevel
<1>4. Pursues("region", e)
  BY <1>1, <1>2, <1>3 DEF Pursues, OfLevel
<1> QED BY <1>4 DEF e

LEMMA TopPursued ==
  ASSUME TypeInv, NEW m \in Locals, NEW r \in m.todo, NEW p \in Leaders(r), Pursues("region", m)
  PROVE  Pursues("field", [m EXCEPT !.todo = @ \ {r}, !.region = r, !.player = p,
                                     !.tied = Leaders(r) # {p}])
<1> DEFINE e == [m EXCEPT !.todo = @ \ {r}, !.region = r, !.player = p, !.tied = Leaders(r) # {p}]
<1>1. e.level = m.level /\ e.todo = m.todo \ {r} /\ e.region = r /\ e.player = p
  BY Zenon DEF Locals
<1>2. e.tied = (Leaders(r) # {p})
  BY Zenon DEF Locals
<1> HIDE DEF e
<1>3. ASSUME NEW q \in Regions, Ahead("region", m, q)  PROVE Ahead("field", e, q)
  BY <1>1, <1>3 DEF Ahead, OfLevel
<1>4. r \in active /\ Level[r] <= MaxTitleLevel /\ \A q \in e.todo : q \in active /\ Level[q] <= MaxTitleLevel
  BY <1>1 DEF Pursues, OfLevel
<1>5. e.tied = (Leaders(e.region) # {e.player})
  BY <1>1, <1>2, Zenon
<1>6. \A q \in Regions : titles[q] = Due(q) \/ Ahead("field", e, q)
  BY <1>3 DEF Pursues
<1>7. e.region \in active /\ Level[e.region] <= MaxTitleLevel /\ e.player \in Leaders(e.region)
  BY <1>1, <1>4
<1>8. Pursues("field", e)
  BY <1>4, <1>5, <1>6, <1>7, Zenon DEF Pursues
<1> QED BY <1>8 DEF e

LEMMA TotalPursued ==
  ASSUME TypeInv, NEW m \in Locals, Pursues("field", m), titles[m.region] \in {Nil, Due(m.region)}
  PROVE  /\ (Cardinality(Field(m.region)) < MinPlayers \/ m.tied) => Pursues("region", m)
         /\ ~(Cardinality(Field(m.region)) < MinPlayers \/ m.tied) => Pursues("award", m)
<1> DEFINE r == m.region
<1>0. m.tied \in BOOLEAN /\ m.player \in Leaders(r) /\ m.tied = (Leaders(r) # {m.player})
  BY Fields, Zenon DEF Pursues
<1>1. ASSUME Cardinality(Field(r)) < MinPlayers \/ m.tied  PROVE Pursues("region", m)
  <2>1. Due(r) = Nil
    <3>1. CASE Cardinality(Field(r)) < MinPlayers
      BY <3>1, FieldShort
    <3>2. CASE m.tied
      <4>1. Leaders(r) # {m.player}
        BY <1>0, <3>2, Zenon
      <4> QED BY <1>0, <4>1, NoSoleLeader
    <3> QED BY <1>1, <3>1, <3>2
  <2>2. \A q \in Regions : Ahead("field", m, q) => q = r \/ Ahead("region", m, q)
    BY DEF Ahead, OfLevel
  <2> QED BY <2>1, <2>2 DEF Pursues, OfLevel
<1>2. ASSUME ~(Cardinality(Field(r)) < MinPlayers \/ m.tied)  PROVE Pursues("award", m)
  <2>1. Leaders(r) = {m.player}
    BY <1>0, <1>2, Zenon
  <2>2. IsFiniteSet(Field(r))
    BY FS_Subset, PlayersAssumption DEF Field
  <2>3. Cardinality(Field(r)) \in Nat
    BY <2>2, FS_CardinalityType
  <2>4. Cardinality(Field(r)) >= MinPlayers
    BY <1>2, <2>3, LimitsAssumption
  <2>5. r \in active /\ Level[r] <= MaxTitleLevel
    BY DEF Pursues
  <2>6. Due(r) = m.player
    BY <2>1, <2>4, <2>5, SoleLeader
  <2>7. \A q \in Regions : Ahead("field", m, q) => Ahead("award", m, q)
    BY DEF Ahead, OfLevel
  <2> QED BY <2>6, <2>7 DEF Pursues, OfLevel
<1> QED BY <1>1, <1>2

(* What becomes of the board while a close goes on, and who comes to one.  *)
LEMMA StillMeansStill ==
  ASSUME NEW h \in Handlers, Step(h), since' = "still"
  PROVE  \/ since = "still" /\ UNCHANGED <<active, board>>
         \/ since = "before" /\ UNCHANGED <<active, board, titles, closed>> /\ Close(h)
  BY DEF Step, Settling, Closing, Opening, Settle, Finer, MoveIn, Close, ListRegions, Top, Total,
         Award, TellTitle, CloseSeason, OpenNext, Wait, Join, Count, AskUnlock, Unlock, Who, Notify,
         Mark, Moves, tables

LEMMA BeforeMeansBefore ==
  ASSUME NEW h \in Handlers, Step(h), since' = "before"
  PROVE  since = "before"
  BY DEF Step, Settling, Closing, Opening, Settle, Finer, MoveIn, Close, ListRegions, Top, Total,
         Award, TellTitle, CloseSeason, OpenNext, Wait, Join, Count, AskUnlock, Unlock, Who, Notify,
         Mark, Moves, tables

LEMMA OnlyByClosing ==
  ASSUME TypeInv, NEW h \in Handlers, Step(h), ~Closing(h)
  PROVE  pc'[h] \notin AtClosing /\ UNCHANGED <<titles, closed>>
<1>1. \E label \in Labels \ AtClosing : \E locals : Goto(h, label, locals) \/ Start(h, label, locals)
  BY DEF Step, Settling, Closing, Opening, Settle, Finer, MoveIn, Close, ListRegions, Top, Total,
         Award, TellTitle, CloseSeason, OpenNext, Wait, Join, Count, AskUnlock, Unlock, Who, Notify,
         Mark, Finish, Labels, AtClosing
<1>2. UNCHANGED <<titles, closed>>
  BY DEF Step, Settling, Closing, Opening, Settle, Finer, MoveIn, Close, ListRegions, Top, Total,
         Award, TellTitle, CloseSeason, OpenNext, Wait, Join, Count, AskUnlock, Unlock, Who, Notify,
         Mark, tables
<1> QED BY <1>1, <1>2, OwnStep

LEMMA DryStaysDry ==
  ASSUME TypeInv, NEW h \in Handlers, Closing(h), pc'[h] \in AtClosing, ~Close(h)
  PROVE  pc[h] \in AtClosing /\ mem'[h].dry = mem[h].dry
<1>0. mem[h] \in Locals
  BY DEF TypeInv, TypeOK
<1>1. pc[h] \in AtClosing
  BY DEF Closing, ListRegions, Top, Total, Award, TellTitle, CloseSeason, OpenNext, AtClosing
<1>2. ~Finish(h)
  BY OwnStep DEF Finish, AtClosing
<1>3. \E label : \E locals : Goto(h, label, locals) /\ locals.dry = mem[h].dry
  <2>1. \A S : [mem[h] EXCEPT !.todo = S].dry = mem[h].dry
    BY <1>0, Zenon DEF Locals
  <2>2. [mem[h] EXCEPT !.level = @ + 1].dry = mem[h].dry
    BY <1>0, Zenon DEF Locals
  <2>3. \A S, r, p, b : [mem[h] EXCEPT !.todo = S, !.region = r, !.player = p, !.tied = b].dry = mem[h].dry
    BY <1>0, Zenon DEF Locals
  <2>4. CASE ListRegions(h)
    BY <1>2, <2>1, <2>4, Zenon DEF ListRegions
  <2>5. CASE Top(h)
    <3>1. \/ Goto(h, "regions", [mem[h] EXCEPT !.level = @ + 1])
          \/ \E S : Goto(h, "region", [mem[h] EXCEPT !.todo = S])
          \/ \E S, r, p, b :
               Goto(h, "field", [mem[h] EXCEPT !.todo = S, !.region = r, !.player = p, !.tied = b])
      BY <2>5, Zenon DEF Top
    <3>2. ASSUME NEW S, NEW r, NEW p, NEW b,
                 Goto(h, "field", [mem[h] EXCEPT !.todo = S, !.region = r, !.player = p, !.tied = b])
          PROVE  \E label : \E locals : Goto(h, label, locals) /\ locals.dry = mem[h].dry
      <4>1. PICK e : e = [mem[h] EXCEPT !.todo = S, !.region = r, !.player = p, !.tied = b]
        OBVIOUS
      <4>2. Goto(h, "field", e) /\ e.dry = mem[h].dry
        BY <2>3, <3>2, <4>1
      <4> QED BY <4>2
    <3> QED BY <2>1, <2>2, <3>1, <3>2, Zenon
  <2>6. CASE Total(h) \/ Award(h) \/ TellTitle(h) \/ CloseSeason(h) \/ OpenNext(h)
    BY <1>2, <2>6, Zenon DEF Total, Award, TellTitle, CloseSeason, OpenNext
  <2> QED BY <2>4, <2>5, <2>6 DEF Closing
<1> QED BY <1>1, <1>3, OwnStep

(* What a close that goes on leaves of the titles, and of itself.          *)
Right(h) ==
  /\ \A r \in Regions : titles'[r] = titles[r] \/ titles'[r] = Due(r)
  /\ pc'[h] \in AtClosing =>
       \E label : \E locals : pc'[h] = label /\ mem'[h] = locals /\ Pursues(label, locals)'
  /\ closed' # closed => \A r \in Regions : titles'[r] = Due(r)

LEMMA LeftRight ==
  ASSUME UNCHANGED <<active, board, titles, closed>>, NEW h \in Handlers, NEW label, NEW locals,
         pc'[h] = label, mem'[h] = locals, Pursues(label, locals)
  PROVE  Right(h)
<1>1. Pursues(label, locals)'
  BY StillPursued
<1> QED BY <1>1 DEF Right

LEMMA ClosingRight ==
  ASSUME TypeInv, NEW h \in Handlers, Closing(h), ~Close(h), UNCHANGED <<active, board>>,
         Serious(h), Pursues(pc[h], mem[h]), \A r \in Regions : titles[r] \in {Nil, Due(r)}
  PROVE  Right(h)
<1>0. PICK m : m = mem[h]
  OBVIOUS
<1>1. m \in Locals /\ Fits(pc[h], m) /\ m.dry = FALSE /\ Pursues(pc[h], m)
  BY <1>0 DEF TypeInv, TypeOK, Serious
<1>2. ASSUME NEW label, NEW locals, Goto(h, label, locals), UNCHANGED <<titles, closed>>, Pursues(label, locals)
      PROVE  Right(h)
  BY <1>2, OwnStep, LeftRight
<1>3. ASSUME Finish(h), UNCHANGED <<titles, closed>>  PROVE Right(h)
  <2>1. pc'[h] = "idle"
    BY <1>3, OwnStep DEF Finish
  <2> QED BY <1>3, <2>1 DEF Right, AtClosing
<1>4. CASE ListRegions(h)
  <2>1. pc[h] = "regions" /\ UNCHANGED <<titles, closed>> /\ m.level \in 1..MaxTitleLevel + 1
    BY <1>0, <1>1, <1>4, Fields, LevelAssumption DEF ListRegions, tables, Fits
  <2>2. m.level > MaxTitleLevel => Pursues("close", m)
    BY <1>1, <2>1, FinerPursued
  <2>3. m.level <= MaxTitleLevel => Pursues("region", [m EXCEPT !.todo = {r \in active : Level[r] = m.level}])
    BY <1>1, <2>1, FinerPursued
  <2> QED BY <1>0, <1>2, <1>3, <1>4, <2>1, <2>2, <2>3 DEF ListRegions
<1>5. CASE Top(h)
  <2>1. pc[h] = "region" /\ UNCHANGED <<titles, closed>> /\ m.level \in 1..MaxTitleLevel /\ m.todo \subseteq Regions
    BY <1>0, <1>1, <1>5, Fields DEF Top, tables, Fits, OfLevel
  <2>2. ASSUME m.todo = {}, Goto(h, "regions", [m EXCEPT !.level = @ + 1])  PROVE Right(h)
    <3>1. Pursues("regions", [m EXCEPT !.level = @ + 1])
      BY <1>1, <2>1, <2>2, NextLevelPursued
    <3> QED BY <1>2, <2>1, <2>2, <3>1
  <2>3. ASSUME NEW r \in m.todo, Field(r) = {}, Goto(h, "region", [m EXCEPT !.todo = @ \ {r}])  PROVE Right(h)
    <3>1. Pursues("region", [m EXCEPT !.todo = @ \ {r}])
      BY <1>1, <2>1, <2>3, EmptyPursued
    <3> QED BY <1>2, <2>1, <2>3, <3>1
  <2>4. ASSUME NEW r \in m.todo, NEW p \in Leaders(r),
               Goto(h, "field", [m EXCEPT !.todo = @ \ {r}, !.region = r, !.player = p,
                                          !.tied = Leaders(r) # {p}])
        PROVE  Right(h)
    <3>0. Pursues("region", m)
      BY <1>1, <2>1
    <3>1. Pursues("field", [m EXCEPT !.todo = @ \ {r}, !.region = r, !.player = p, !.tied = Leaders(r) # {p}])
      BY <1>1, <2>4, <3>0, TopPursued, Zenon
    <3> QED BY <1>2, <2>1, <2>4, <3>1
  <2> QED BY <1>0, <1>5, <2>2, <2>3, <2>4, Zenon DEF Top
<1>6. CASE Total(h)
  <2>1. pc[h] = "field" /\ UNCHANGED <<titles, closed>> /\ m.region \in Regions
    BY <1>0, <1>1, <1>6 DEF Total, tables, Fits, OfRegion, OfPlayer
  <2>2. Pursues("field", m) /\ titles[m.region] \in {Nil, Due(m.region)}
    BY <1>1, <2>1
  <2>3. CASE Cardinality(Field(m.region)) < MinPlayers \/ m.tied
    <3>1. Goto(h, "region", m)
      BY <1>0, <1>6, <2>3 DEF Total
    <3> QED BY <1>1, <1>2, <2>1, <2>2, <2>3, <3>1, TotalPursued
  <2>4. CASE ~(Cardinality(Field(m.region)) < MinPlayers \/ m.tied)
    <3>1. Goto(h, "award", m)
      BY <1>0, <1>1, <1>6, <2>4, Zenon DEF Total
    <3> QED BY <1>1, <1>2, <2>1, <2>2, <2>4, <3>1, TotalPursued
  <2> QED BY <2>3, <2>4
<1>7. CASE Award(h)
  <2>1. pc[h] = "award" /\ UNCHANGED closed
    BY <1>7 DEF Award
  <2>2. PICK r \in Regions : r = m.region
    BY <1>1, <2>1 DEF Fits, OfRegion, OfPlayer
  <2>3. m.player = Due(r) /\ m.player \in Players /\ Due(r) # Nil
    BY <1>1, <2>1, <2>2, PlayersAssumption DEF Pursues, Fits, OfPlayer
  <2>4. ASSUME NEW label \in {"tell", "region"}, Goto(h, label, m), titles'[r] = Due(r),
               \A q \in Regions : titles'[q] = titles[q] \/ titles'[q] = Due(q)
        PROVE  Right(h)
    <3>1. /\ \A q : Due(q)' = Due(q)
          /\ \A q : Ahead(label, m, q)' <=> Ahead(label, m, q)
      BY DueStays DEF Ahead
    <3>2. \A q \in Regions : titles'[q] = Due(q) \/ Ahead(label, m, q)
      BY <1>1, <2>1, <2>2, <2>4 DEF Pursues, Ahead, OfLevel
    <3>3. \A q \in m.todo : q \in active /\ Level[q] <= MaxTitleLevel
      BY <1>1, <2>1 DEF Pursues, OfLevel
    <3>4. Pursues(label, m)'
      BY <2>4, <3>1, <3>2, <3>3 DEF Pursues
    <3>5. pc'[h] = label /\ mem'[h] = m
      BY <2>4, OwnStep
    <3> QED BY <2>1, <2>4, <3>4, <3>5 DEF Right
  <2>5. CASE titles[r] = Nil
    <3>1. titles' = [titles EXCEPT ![r] = m.player] /\ Goto(h, "tell", m)
      BY <1>0, <1>7, <2>2, <2>5 DEF Award
    <3>2. titles'[r] = Due(r) /\ \A q \in Regions : titles'[q] = titles[q] \/ titles'[q] = Due(q)
      BY <2>3, <3>1 DEF TypeInv, TypeOK
    <3> QED BY <2>4, <3>1, <3>2
  <2>6. CASE titles[r] # Nil
    <3>1. UNCHANGED titles /\ Goto(h, "region", m)
      BY <1>0, <1>7, <2>2, <2>6 DEF Award
    <3>2. titles'[r] = Due(r)
      BY <2>2, <2>6, <3>1
    <3> QED BY <2>4, <3>1, <3>2
  <2> QED BY <2>5, <2>6
<1>8. CASE TellTitle(h)
  <2>1. pc[h] = "tell" /\ UNCHANGED <<titles, closed>> /\ Goto(h, "region", m)
    BY <1>0, <1>8 DEF TellTitle
  <2>2. Pursues("region", m)
    BY <1>1, <2>1 DEF Pursues, Ahead, OfLevel
  <2> QED BY <1>2, <2>1, <2>2
<1>9. CASE CloseSeason(h)
  <2>1. pc[h] = "close" /\ UNCHANGED titles /\ closed' = TRUE
    BY <1>9 DEF CloseSeason
  <2>2. \A r \in Regions : titles[r] = Due(r)
    BY <1>1, <2>1 DEF Pursues, Ahead, OfLevel
  <2>3. Pursues("next", m)'
    <3>1. Pursues("next", m)
      BY <2>2 DEF Pursues, OfLevel
    <3> QED BY <2>1, <3>1, StillPursued
  <2>4. (pc'[h] = "next" /\ mem'[h] = m) \/ pc'[h] = "idle"
    BY <1>0, <1>9, OwnStep DEF CloseSeason, Finish
  <2> QED BY <2>1, <2>2, <2>3, <2>4 DEF Right, AtClosing
<1>10. CASE OpenNext(h)
  BY <1>3, <1>10 DEF OpenNext
<1> QED BY <1>4, <1>5, <1>6, <1>7, <1>8, <1>9, <1>10 DEF Closing

LEMMA CloseBegins ==
  ASSUME TypeInv, NEW h \in Handlers, Close(h), pc'[h] \in AtClosing, mem'[h].dry = FALSE,
         \A r \in Regions : titles[r] \in {Nil, Due(r)}
  PROVE  Right(h)
<1>1. PICK dry \in BOOLEAN : Start(h, "regions", [Blank EXCEPT !.level = 1, !.dry = dry])
  BY DEF Close
<1> DEFINE e == [Blank EXCEPT !.level = 1, !.dry = dry]
<1>2. e.level = 1
  BY Zenon DEF Blank
<1>3. pc'[h] = "regions" /\ mem'[h] = e
  BY <1>1, OwnStep
<1> HIDE DEF e
<1>4. Pursues("regions", e)
  <2>1. ASSUME NEW r \in Regions, titles[r] # Due(r)  PROVE Ahead("regions", e, r)
    <3>1. r \in active /\ Level[r] <= MaxTitleLevel
      BY <2>1 DEF Due, Worthy
    <3> QED BY <1>2, <3>1, LevelAssumption DEF Ahead
  <2> QED BY <2>1 DEF Pursues, OfLevel
<1>5. UNCHANGED <<active, board, titles, closed>>
  BY DEF Close, tables
<1> QED BY <1>3, <1>4, <1>5, LeftRight

LEMMA CloseStep ==
  ASSUME TypeInv, CloseInv, NEW h \in Handlers, Step(h)
  PROVE  CloseInv'
<1>0. ASSUME NEW g \in Handlers, g # h  PROVE pc'[g] = pc[g] /\ mem'[g] = mem[g]
  BY <1>0, OthersStay
<1>1. ASSUME since' = "before"
      PROVE  ~closed' /\ (\A r \in Regions : titles'[r] = Nil) /\ \A g \in Handlers : ~Serious(g)'
  <2>1. ~closed /\ (\A r \in Regions : titles[r] = Nil) /\ \A g \in Handlers : ~Serious(g)
    BY <1>1, BeforeMeansBefore DEF CloseInv
  <2>2. ~Award(h) /\ ~CloseSeason(h)
    <3>1. Award(h) \/ CloseSeason(h) => pc[h] \in AtClosing /\ mem[h].dry = FALSE
      BY DEF Award, CloseSeason, AtClosing, TypeInv, Fits, InEarnest
    <3> QED BY <2>1, <3>1 DEF Serious
  <2>3. UNCHANGED <<titles, closed>>
    BY <2>2, OnlyByClosing DEF Closing, Close, ListRegions, Top, Total, TellTitle, OpenNext, tables
  <2>4. ~Serious(h)'
    <3>1. CASE Close(h)
      <4>1. PICK dry \in BOOLEAN : /\ Start(h, "regions", [Blank EXCEPT !.level = 1, !.dry = dry])
                                  /\ since' = IF since = "before" /\ ~dry THEN "still" ELSE since
        BY <3>1 DEF Close
      <4>2. dry = TRUE
        BY <1>1, <4>1, BeforeMeansBefore, Zenon
      <4>3. mem'[h] = [Blank EXCEPT !.level = 1, !.dry = dry]
        BY <4>1, OwnStep
      <4>4. mem'[h].dry = TRUE
        BY <4>2, <4>3, Zenon DEF Blank
      <4> QED BY <4>4 DEF Serious
    <3>2. CASE ~Close(h)
      BY <2>1, <3>2, OnlyByClosing, DryStaysDry DEF Serious
    <3> QED BY <3>1, <3>2
  <2>5. ASSUME NEW g \in Handlers, g # h  PROVE ~Serious(g)'
    BY <1>0, <2>1, <2>5 DEF Serious
  <2> QED BY <2>1, <2>3, <2>4, <2>5
<1>2. ASSUME since' = "still"
      PROVE  /\ \A r \in Regions : titles'[r] \in {Nil, Due(r)'}
             /\ \A g \in Handlers : Serious(g)' => Pursues(pc[g], mem[g])'
             /\ closed' => \A r \in Regions : titles'[r] = Due(r)'
  <2>1. UNCHANGED <<active, board>>
    BY <1>2, StillMeansStill
  <2>2. \A r : Due(r)' = Due(r)
    BY <2>1, DueStays
  <2>3. /\ \A r \in Regions : titles[r] \in {Nil, Due(r)}
        /\ \A g \in Handlers : Serious(g) => Pursues(pc[g], mem[g])
        /\ closed => \A r \in Regions : titles[r] = Due(r)
    BY <1>2, StillMeansStill DEF CloseInv
  <2>4. /\ \A r \in Regions : titles'[r] = titles[r] \/ titles'[r] = Due(r)
        /\ Serious(h)' => \E label : \E locals : pc'[h] = label /\ mem'[h] = locals /\ Pursues(label, locals)'
        /\ closed' # closed => \A r \in Regions : titles'[r] = Due(r)
    <3>1. CASE ~Closing(h)
      BY <3>1, OnlyByClosing DEF Serious
    <3>2. CASE Closing(h) /\ ~Close(h) /\ Serious(h)
      <4>1. Right(h)
        BY <2>1, <2>3, <3>2, ClosingRight
      <4> QED BY <4>1 DEF Right, Serious
    <3>3. CASE Closing(h) /\ ~Close(h) /\ ~Serious(h)
      <4>1. ~Award(h) /\ ~CloseSeason(h)
        BY <3>3 DEF Award, CloseSeason, AtClosing, TypeInv, Fits, InEarnest, Serious
      <4>2. UNCHANGED <<titles, closed>>
        BY <3>3, <4>1 DEF Closing, ListRegions, Top, Total, TellTitle, OpenNext, tables
      <4>3. ~Serious(h)'
        BY <3>3, DryStaysDry DEF Serious
      <4> QED BY <4>2, <4>3
    <3>4. CASE Close(h)
      <4>1. UNCHANGED <<titles, closed>>
        BY <3>4 DEF Close, tables
      <4>2. ASSUME Serious(h)'  PROVE Right(h)
        BY <2>3, <3>4, <4>2, CloseBegins DEF Serious
      <4> QED BY <4>1, <4>2 DEF Right, Serious
    <3> QED BY <3>1, <3>2, <3>3, <3>4 DEF Closing
  <2>5. ASSUME NEW g \in Handlers, Serious(g)'  PROVE Pursues(pc[g], mem[g])'
    <3>1. CASE g = h
      BY <2>4, <2>5, <3>1 DEF Pursues
    <3>2. CASE g # h
      <4>1. PICK label, locals : label = pc[g] /\ locals = mem[g]
        OBVIOUS
      <4>2. pc'[g] = label /\ mem'[g] = locals
        BY <1>0, <3>2, <4>1
      <4>3. Pursues(label, locals)
        BY <2>3, <2>5, <4>1, <4>2 DEF Serious
      <4>4. Pursues(label, locals)'
        BY <2>1, <2>4, <4>3, StillPursued
      <4> QED BY <4>2, <4>4 DEF Pursues
    <3> QED BY <3>1, <3>2
  <2> QED BY <2>2, <2>3, <2>4, <2>5
<1> QED BY <1>1, <1>2 DEF CloseInv

LEMMA CloseInvariant == Spec => []CloseInv
<1>1. Init => CloseInv
  BY DEF Init, CloseInv, Serious, AtClosing
<1>2. TypeInv /\ CloseInv /\ [Next]_vars => CloseInv'
  <2> SUFFICES ASSUME TypeInv, CloseInv, [Next]_vars  PROVE CloseInv'
    OBVIOUS
  <2>1. CASE UNCHANGED vars
    <3>1. UNCHANGED <<active, board, titles, closed, pc, mem, since>>
      BY <2>1 DEF vars
    <3>2. \A r : Due(r)' = Due(r) /\ Leaders(r)' = Leaders(r)
      BY <3>1, DueStays
    <3>3. ASSUME NEW g \in Handlers, Pursues(pc[g], mem[g])  PROVE Pursues(pc[g], mem[g])'
      <4>1. PICK label, locals : label = pc[g] /\ locals = mem[g]
        OBVIOUS
      <4>2. Pursues(label, locals)'
        BY <3>1, <3>3, <4>1, StillPursued
      <4> QED BY <3>1, <4>1, <4>2 DEF Pursues
    <3> QED BY <3>1, <3>2, <3>3 DEF CloseInv, Serious
  <2>2. CASE Refresh
    <3>1. since' # "still" /\ (since' = "before" => since = "before")
      BY <2>2 DEF Refresh, Moves
    <3> QED BY <2>2, <3>1 DEF Refresh, CloseInv, Serious
  <2> QED BY <2>1, <2>2, CloseStep, StepOrRefresh
<1> QED BY <1>1, <1>2, TypeInvariant, PTL DEF Spec

(* "A title only exists if the region had enough contenders and there is a *)
(* unique winner": when nothing moved since the close began, the season is *)
(* closed with these titles and no others, however many calls close it at  *)
(* the same time, dry runs among them; and every title is announced once,  *)
(* whatever moved.                                                         *)
THEOREM TitlesFollow == Spec => []TitlesFollowTheBoard
<1>1. TypeInv /\ TellInv /\ CloseInv => TitlesFollowTheBoard
  <2> SUFFICES ASSUME TypeInv, TellInv, CloseInv  PROVE TitlesFollowTheBoard
    OBVIOUS
  <2>1. ASSUME closed, since = "still", NEW r \in Regions
        PROVE  titles[r] = IF /\ r \in active /\ Level[r] <= MaxTitleLevel
                              /\ Cardinality(Field(r)) >= MinPlayers /\ Cardinality(Leaders(r)) = 1
                             THEN CHOOSE p \in Players : Leaders(r) = {p} ELSE Nil
    BY <2>1 DEF CloseInv, Due, Worthy
  <2>2. ASSUME NEW r \in Regions
        PROVE  awarded[r] + Cardinality(Tellers(r)) = IF titles[r] = Nil THEN 0 ELSE 1
    <3>1. CASE Tellers(r) = {}
      <4>1. Cardinality(Tellers(r)) = 0
        BY <3>1, FS_EmptySet
      <4> QED BY <3>1, <4>1 DEF TellInv
    <3>2. CASE titles[r] # Nil /\ awarded[r] = 0 /\ \E h \in Handlers : Tellers(r) = {h}
      <4>1. Cardinality(Tellers(r)) = 1
        BY <3>2, FS_Singleton
      <4> QED BY <3>2, <4>1
    <3> QED BY <3>1, <3>2 DEF TellInv
  <2> QED BY <2>1, <2>2 DEF TitlesFollowTheBoard, Tellers
<1> QED BY <1>1, TypeInvariant, TellOnce, CloseInvariant, PTL

-----------------------------------------------------------------------------
(* Waitlists.  A list that is long enough is counted, or its region about  *)
(* to be opened, by a call that is under way.                              *)
FullInv ==
  \A r \in Regions : Full(r) =>
    r \in active \/ \E h \in Handlers : pc[h] \in {"count", "unlock"} /\ mem[h].region = r

LEMMA FullStep ==
  ASSUME TypeInv, FullInv, NEW h \in Handlers, Step(h)  PROVE FullInv'
<1>1. PICK m : m = mem[h]
  OBVIOUS
<1>2. Fits(pc[h], m)
  BY <1>1 DEF TypeInv
<1>3. CASE Join(h)
  <2>1. pc'[h] = "count" /\ mem'[h] = m /\ UNCHANGED active /\ pc[h] = "join"
    BY <1>1, <1>3, OwnStep DEF Join
  <2>2. ASSUME NEW r \in Regions, r # m.region  PROVE Full(r)' <=> Full(r)
    BY <1>1, <1>3, <2>2 DEF Join, Full, OnList, TypeInv, TypeOK
  <2> QED BY <1>1, <2>1, <2>2, OthersStay DEF FullInv
<1>4. CASE Count(h)
  <2>1. pc[h] = "count" /\ UNCHANGED <<active, waiting>>
    BY <1>4 DEF Count, tables
  <2>2. \A r : Full(r)' <=> Full(r)
    BY <2>1 DEF Full, OnList
  <2>3. CASE Full(m.region)
    <3>1. pc'[h] = "unlock" /\ mem'[h] = m
      BY <1>1, <1>4, <2>3, OwnStep DEF Count
    <3> QED BY <1>1, <2>1, <2>2, <3>1, OthersStay DEF FullInv
  <2>4. CASE ~Full(m.region)
    BY <1>1, <2>1, <2>2, <2>4, OthersStay DEF FullInv
  <2> QED BY <2>3, <2>4
<1>5. CASE Unlock(h)
  <2>1. pc[h] = "unlock" /\ active' = active \cup {m.region} /\ UNCHANGED waiting
    BY <1>1, <1>5 DEF Unlock
  <2>2. \A r : Full(r)' <=> Full(r)
    BY <2>1 DEF Full, OnList
  <2> QED BY <1>1, <2>1, <2>2, OthersStay DEF FullInv
<1>6. CASE Mark(h)
  <2>1. pc[h] = "mark" /\ UNCHANGED active /\ m.region \in Regions
    BY <1>2, <1>6 DEF Mark, Fits, OfRegion
  <2>2. ASSUME NEW r \in Regions, NEW p \in Players  PROVE waiting'[r][p] # "no" <=> waiting[r][p] # "no"
    BY <1>1, <1>6, <2>1 DEF Mark, TypeInv, TypeOK
  <2>3. \A r \in Regions : OnList(r)' = OnList(r)
    BY <2>2 DEF OnList
  <2>4. \A r \in Regions : Full(r)' <=> Full(r)
    BY <2>3 DEF Full
  <2> QED BY <2>1, <2>4, OthersStay DEF FullInv
<1>7. CASE ~Join(h) /\ ~Count(h) /\ ~Unlock(h) /\ ~Mark(h)
  <2>1. UNCHANGED <<active, waiting>> /\ pc[h] \notin {"count", "unlock"}
    BY <1>7 DEF Step, Settling, Closing, Opening, Settle, Finer, MoveIn, Close, ListRegions, Top, Total,
         Award, TellTitle, CloseSeason, OpenNext, Wait, Join, Count, AskUnlock, Unlock, Who, Notify,
         Mark, tables, Start
  <2>2. \A r : Full(r)' <=> Full(r)
    BY <2>1 DEF Full, OnList
  <2> QED BY <2>1, <2>2, OthersStay DEF FullInv
<1> QED BY <1>3, <1>4, <1>5, <1>6, <1>7

LEMMA FullInvariant == Spec => []FullInv
<1>1. TypeInv /\ Init => FullInv
  <2> SUFFICES ASSUME Init, NEW r \in Regions  PROVE ~Full(r)
    BY DEF FullInv
  <2>1. OnList(r) = {}
    BY DEF Init, OnList
  <2>2. Cardinality(OnList(r)) = 0
    BY <2>1, FS_EmptySet
  <2> QED BY <2>2, LimitsAssumption DEF Full
<1>2. TypeInv /\ FullInv /\ [Next]_vars => FullInv'
  <2> SUFFICES ASSUME TypeInv, FullInv, [Next]_vars  PROVE FullInv'
    OBVIOUS
  <2>1. CASE UNCHANGED vars \/ Refresh
    <3>1. UNCHANGED <<active, waiting, pc, mem>>
      BY <2>1 DEF vars, Refresh
    <3> QED BY <3>1 DEF FullInv, Full, OnList
  <2> QED BY <2>1, FullStep, StepOrRefresh
<1> QED BY <1>1, <1>2, InitTypes, TypeInvariant, PTL DEF Spec

(* Call after call: who is told of what.                                   *)
OnTheWay == {"who", "notify", "mark"}

Told(label, locals) ==
  \A p \in Players :
    LET state == waiting[locals.region][p]
        count == opened[locals.region][p]
    IN /\ label = "who" => state = "no" \/ (state = "yes" /\ count = 0)
       /\ label = "notify" =>
            \/ state = "no" /\ p \notin locals.people
            \/ state = "yes" /\ count = IF p \in locals.people THEN 0 ELSE 1
       /\ label = "mark" => state = "no" \/ (state = "yes" /\ count = 1)

SerialInv ==
  ~overlap =>
    /\ \A g, h \in InFlight : g = h
    /\ \A r \in Regions \ active : \A p \in Players :
         opened[r][p] = 0 /\ waiting[r][p] \in {"no", "yes"}
    /\ \A r \in Regions \cap active :
         \/ \A p \in Players : waiting[r][p] = "no" \/ (waiting[r][p] = "notified" /\ opened[r][p] = 1)
         \/ \E h \in Handlers : pc[h] \in OnTheWay /\ mem[h].region = r
    /\ \A h \in Handlers :
         /\ pc[h] \in {"join", "count", "unlock"} => mem[h].region \notin active
         /\ pc[h] \in OnTheWay => mem[h].region \in active /\ Told(pc[h], mem[h])

LEMMA SerialStart ==
  ASSUME TypeInv, SerialInv, NEW h \in Handlers, Step(h), ~overlap'
  PROVE  /\ ~overlap /\ \A g, k \in InFlight' : g = k
         /\ \A g \in Handlers : g # h => pc[g] = "idle"
<1>1. \/ pc[h] # "idle" /\ UNCHANGED overlap
      \/ overlap' = (overlap \/ InFlight # {})
  BY DEF Step, Settling, Closing, Opening, Settle, Finer, MoveIn, Close, ListRegions, Top, Total,
         Award, TellTitle, CloseSeason, OpenNext, Wait, Join, Count, AskUnlock, Unlock, Who, Notify,
         Mark, Goto, Finish, Start
<1>2. ~overlap
  BY <1>1
<1>3. \A g \in Handlers : g # h => pc[g] = "idle"
  BY <1>1, <1>2 DEF SerialInv, InFlight
<1>4. \A g \in Handlers : g # h => pc'[g] = "idle"
  BY <1>3, OthersStay
<1> QED BY <1>2, <1>3, <1>4 DEF InFlight

LEMMA SerialStep ==
  ASSUME TypeInv, SerialInv, NEW h \in Handlers, Step(h), ~overlap'
  PROVE  SerialInv'
<1>0. /\ \A g, k \in InFlight' : g = k
      /\ \A g \in Handlers : g # h => pc[g] = "idle" /\ pc'[g] = "idle"
  BY SerialStart, OthersStay
<1>1. PICK m : m = mem[h]
  OBVIOUS
<1>2. Fits(pc[h], m) /\ m \in Locals
  BY <1>1 DEF TypeInv, TypeOK
<1>3. /\ \A r \in Regions \ active : \A p \in Players : opened[r][p] = 0 /\ waiting[r][p] \in {"no", "yes"}
      /\ \A r \in Regions \cap active :
           \/ \A p \in Players : waiting[r][p] = "no" \/ (waiting[r][p] = "notified" /\ opened[r][p] = 1)
           \/ pc[h] \in OnTheWay /\ m.region = r
      /\ pc[h] \in {"join", "count", "unlock"} => m.region \notin active
      /\ pc[h] \in OnTheWay => m.region \in active /\ Told(pc[h], m)
  BY <1>0, <1>1, SerialStart DEF SerialInv, OnTheWay
(* What the step has to leave behind: the rest stands still.               *)
<1>4. ASSUME NEW label, NEW e, pc'[h] = label, mem'[h] = e,
             \A r \in Regions \ active' : \A p \in Players :
               opened'[r][p] = 0 /\ waiting'[r][p] \in {"no", "yes"},
             \A r \in Regions \cap active' :
               \/ \A p \in Players : waiting'[r][p] = "no" \/ (waiting'[r][p] = "notified" /\ opened'[r][p] = 1)
               \/ label \in OnTheWay /\ e.region = r,
             label \in {"join", "count", "unlock"} => e.region \notin active',
             label \in OnTheWay => e.region \in active' /\ Told(label, e)'
      PROVE  SerialInv'
  <2>1. label \in OnTheWay => mem'[h].region \in active' /\ Told(pc[h], mem[h])'
    BY <1>4 DEF Told
  <2> QED BY <1>0, <1>4, <2>1 DEF SerialInv, OnTheWay
<1>5. ASSUME NEW label \in Labels \ OnTheWay, NEW e, pc'[h] = label, mem'[h] = e, pc[h] \notin OnTheWay,
             UNCHANGED <<active, waiting, opened>>,
             label \in {"join", "count", "unlock"} => e.region \notin active
      PROVE  SerialInv'
  BY <1>3, <1>4, <1>5
<1>6. CASE Settling(h) \/ Closing(h)
  <2>1. UNCHANGED <<active, waiting, opened>> /\ pc[h] \notin OnTheWay
    BY <1>6 DEF Settling, Closing, Settle, Finer, MoveIn, Close, ListRegions, Top, Total, Award,
                TellTitle, CloseSeason, OpenNext, tables, OnTheWay, Start
  <2>2. \E label \in Labels \ (OnTheWay \cup {"join", "count", "unlock"}) : \E e :
          Goto(h, label, e) \/ Start(h, label, e)
    BY <1>6 DEF Settling, Closing, Settle, Finer, MoveIn, Close, ListRegions, Top, Total, Award,
                TellTitle, CloseSeason, OpenNext, OnTheWay, Finish, Labels
  <2> QED BY <1>5, <2>1, <2>2, OwnStep
<1>7. CASE Wait(h) \/ AskUnlock(h)
  <2>1. UNCHANGED <<active, waiting, opened>> /\ pc[h] = "idle"
    BY <1>7 DEF Wait, AskUnlock, tables, Start
  <2>2. \E label \in {"join", "unlock"} : \E e : Start(h, label, e) /\ e.region \notin active
    <3>1. CASE Wait(h)
      <4>1. PICK p \in Players, r \in Regions \ active : Start(h, "join", [Blank EXCEPT !.player = p, !.region = r])
        BY <3>1 DEF Wait
      <4>2. [Blank EXCEPT !.player = p, !.region = r].region = r
        BY DEF Blank
      <4> QED BY <4>1, <4>2
    <3>2. CASE AskUnlock(h)
      <4>1. PICK r \in Regions \ active : Start(h, "unlock", [Blank EXCEPT !.region = r])
        BY <3>2 DEF AskUnlock
      <4>2. [Blank EXCEPT !.region = r].region = r
        BY DEF Blank
      <4> QED BY <4>1, <4>2
    <3> QED BY <1>7, <3>1, <3>2
  <2> QED BY <1>5, <2>1, <2>2, OwnStep DEF Labels, OnTheWay
<1>8. CASE Count(h)
  <2>1. UNCHANGED <<active, waiting, opened>> /\ pc[h] = "count"
    BY <1>8 DEF Count, tables
  <2>2. (pc'[h] = "unlock" /\ mem'[h] = m) \/ (pc'[h] = "idle" /\ mem'[h] = Blank)
    BY <1>1, <1>8, OwnStep DEF Count, Finish
  <2> QED BY <1>3, <1>5, <2>1, <2>2 DEF Labels, OnTheWay
<1>9. CASE Join(h)
  <2>1. UNCHANGED <<active, opened>> /\ pc[h] = "join" /\ pc'[h] = "count" /\ mem'[h] = m
    BY <1>1, <1>9, OwnStep DEF Join
  <2>2. PICK r \in Regions, p \in Players : r = m.region /\ p = m.player
    BY <1>2, <2>1 DEF Fits, OfRegion, OfPlayer
  <2>3. waiting' = [waiting EXCEPT ![r][p] = IF @ = "no" THEN "yes" ELSE @]
    BY <1>1, <1>9, <2>2 DEF Join
  <2>4. r \notin active
    BY <1>3, <2>1, <2>2
  <2>5. ASSUME NEW q \in Regions, NEW x \in Players
        PROVE  \/ waiting'[q][x] = waiting[q][x]
               \/ q = r /\ waiting'[q][x] = "yes"
    BY <2>3 DEF TypeInv, TypeOK
  <2>6. \A q \in Regions \ active' : \A x \in Players : opened'[q][x] = 0 /\ waiting'[q][x] \in {"no", "yes"}
    BY <1>3, <2>1, <2>5
  <2>7. \A q \in Regions \cap active' : \A x \in Players : waiting'[q][x] = waiting[q][x]
    BY <2>1, <2>4, <2>5
  <2> QED BY <1>3, <1>4, <2>1, <2>2, <2>4, <2>6, <2>7 DEF OnTheWay
<1>10. CASE Unlock(h)
  <2>1. /\ UNCHANGED <<waiting, opened>> /\ pc[h] = "unlock" /\ pc'[h] = "who" /\ mem'[h] = m
        /\ active' = active \cup {m.region}
    BY <1>1, <1>10, OwnStep DEF Unlock
  <2>2. m.region \in Regions \ active
    BY <1>2, <1>3, <2>1 DEF Fits, OfRegion
  <2>3. \A p \in Players : opened[m.region][p] = 0 /\ waiting[m.region][p] \in {"no", "yes"}
    BY <1>3, <2>2
  <2>4. Told("who", m)'
    BY <2>1, <2>3 DEF Told
  <2> QED BY <1>3, <1>4, <2>1, <2>2, <2>4 DEF OnTheWay
<1>11. CASE Who(h)
  <2> DEFINE e == [m EXCEPT !.people = {p \in Players : waiting[m.region][p] = "yes"}]
  <2>1. /\ UNCHANGED <<active, waiting, opened>> /\ pc[h] = "who" /\ pc'[h] = "notify" /\ mem'[h] = e
    BY <1>1, <1>11, OwnStep DEF Who, tables
  <2>2. e.region = m.region /\ e.people = {p \in Players : waiting[m.region][p] = "yes"}
    BY <1>2, Zenon DEF Locals
  <2> HIDE DEF e
  <2>3. PICK f : f = e
    OBVIOUS
  <2>4. Told("who", m) /\ m.region \in active
    BY <1>3, <2>1 DEF OnTheWay
  <2>5. Told("notify", f)'
    BY <2>1, <2>2, <2>3, <2>4 DEF Told
  <2> QED BY <1>3, <1>4, <2>1, <2>2, <2>3, <2>4, <2>5 DEF OnTheWay
<1>12. CASE Notify(h)
  <2>1. pc[h] = "notify" /\ UNCHANGED <<active, waiting>> /\ m.region \in Regions /\ m.people \subseteq Players
    BY <1>2, <1>12, Fields DEF Notify, Fits, OfRegion
  <2>2. Told("notify", m) /\ m.region \in active
    BY <1>3, <2>1 DEF OnTheWay
  <2>3. CASE m.people = {} /\ Goto(h, "mark", m) /\ UNCHANGED opened
    <3>1. pc'[h] = "mark" /\ mem'[h] = m
      BY <2>3, OwnStep
    <3>2. Told("mark", m)'
      BY <2>1, <2>2, <2>3 DEF Told
    <3> QED BY <1>3, <1>4, <2>1, <2>2, <2>3, <3>1, <3>2 DEF OnTheWay
  <2>4. ASSUME NEW p \in m.people, opened' = [opened EXCEPT ![m.region][p] = @ + 1],
               Goto(h, "notify", [m EXCEPT !.people = @ \ {p}])
        PROVE  SerialInv'
    <3> DEFINE e == [m EXCEPT !.people = @ \ {p}]
    <3>1. pc'[h] = "notify" /\ mem'[h] = e
      BY <2>4, OwnStep
    <3>2. e.region = m.region /\ e.people = m.people \ {p}
      BY <1>2, Zenon DEF Locals
    <3> HIDE DEF e
    <3>3. PICK r \in Regions : r = m.region
      BY <2>1
    <3>4. opened' = [opened EXCEPT ![r][p] = @ + 1]
      BY <2>4, <3>3
    <3>5. \A q \in Regions, x \in Players :
            opened'[q][x] = IF q = r /\ x = p THEN opened[q][x] + 1 ELSE opened[q][x]
      <4>1. opened \in [Regions -> [Players -> Nat]]
        BY DEF TypeInv, TypeOK
      <4> QED BY <3>4, <4>1
    <3>6. Told("notify", e)'
      <4>1. ASSUME NEW x \in Players
            PROVE  \/ waiting'[r][x] = "no" /\ x \notin e.people
                   \/ waiting'[r][x] = "yes" /\ opened'[r][x] = IF x \in e.people THEN 0 ELSE 1
        <5>1. \/ waiting[r][x] = "no" /\ x \notin m.people
              \/ waiting[r][x] = "yes" /\ opened[r][x] = IF x \in m.people THEN 0 ELSE 1
          BY <2>2, <3>3 DEF Told
        <5> QED BY <2>1, <2>4, <3>2, <3>5, <5>1
      <4> QED BY <3>2, <3>3, <4>1 DEF Told
    <3>7. \A q \in Regions \ active' : \A x \in Players : opened'[q][x] = 0 /\ waiting'[q][x] \in {"no", "yes"}
      BY <1>3, <2>1, <2>2, <3>3, <3>5
    <3>8. \A q \in Regions \cap active' :
            \/ \A x \in Players : waiting'[q][x] = "no" \/ (waiting'[q][x] = "notified" /\ opened'[q][x] = 1)
            \/ e.region = q
      BY <1>3, <2>1, <3>2, <3>3, <3>5
    <3> QED BY <1>4, <2>1, <2>2, <3>1, <3>2, <3>6, <3>7, <3>8 DEF OnTheWay
  <2> QED BY <1>1, <1>12, <2>3, <2>4 DEF Notify
<1>13. CASE Mark(h)
  <2>1. pc[h] = "mark" /\ UNCHANGED <<active, opened>> /\ pc'[h] = "idle" /\ mem'[h] = Blank
    BY <1>13, OwnStep DEF Mark, Finish
  <2>2. PICK r \in Regions : r = m.region
    BY <1>2, <2>1 DEF Fits, OfRegion
  <2>3. waiting' = [waiting EXCEPT ![r] = [p \in Players |-> IF @[p] = "yes" THEN "notified" ELSE @[p]]]
    BY <1>1, <1>13, <2>2 DEF Mark
  <2>4. ASSUME NEW q \in Regions, NEW x \in Players
        PROVE  waiting'[q][x] = IF q = r /\ waiting[q][x] = "yes" THEN "notified" ELSE waiting[q][x]
    BY <2>3 DEF TypeInv, TypeOK
  <2>5. r \in active /\ \A x \in Players : waiting[r][x] = "no" \/ (waiting[r][x] = "yes" /\ opened[r][x] = 1)
    BY <1>3, <2>1, <2>2 DEF OnTheWay, Told
  <2>6. \A q \in Regions \ active' : \A x \in Players : opened'[q][x] = 0 /\ waiting'[q][x] \in {"no", "yes"}
    BY <1>3, <2>1, <2>4, <2>5
  <2>7. \A q \in Regions \cap active' : \A x \in Players :
          waiting'[q][x] = "no" \/ (waiting'[q][x] = "notified" /\ opened'[q][x] = 1)
    BY <1>3, <2>1, <2>2, <2>4, <2>5
  <2> QED BY <1>4, <2>1, <2>6, <2>7 DEF OnTheWay
<1> QED
  BY <1>6, <1>7, <1>8, <1>9, <1>10, <1>11, <1>12, <1>13 DEF Step, Opening

LEMMA SerialInvariant == Spec => []SerialInv
<1>1. Init => SerialInv
  BY DEF Init, SerialInv, InFlight, OnTheWay
<1>2. TypeInv /\ SerialInv /\ [Next]_vars => SerialInv'
  <2> SUFFICES ASSUME TypeInv, SerialInv, [Next]_vars  PROVE SerialInv'
    OBVIOUS
  <2>1. CASE UNCHANGED vars \/ Refresh
    <3>1. UNCHANGED <<active, waiting, opened, pc, mem, overlap>>
      BY <2>1 DEF vars, Refresh
    <3> QED BY <3>1 DEF SerialInv, InFlight, Told
  <2>2. ASSUME NEW h \in Handlers, Step(h)  PROVE SerialInv'
    <3>1. CASE overlap'
      BY <3>1 DEF SerialInv
    <3> QED BY <2>2, <3>1, SerialStep
  <2> QED BY <2>1, <2>2, StepOrRefresh
<1> QED BY <1>1, <1>2, TypeInvariant, PTL DEF Spec

(* "The region opens itself once enough people are waiting": when no call  *)
(* is under way, no list is long enough and its region closed, whatever    *)
(* calls overlapped; and call after call everybody on the list of an open  *)
(* region was told once.                                                   *)
THEOREM FullOnesOpen == Spec => []FullRegionsOpen
<1>1. TypeInv /\ FullInv /\ SerialInv => FullRegionsOpen
  <2> SUFFICES ASSUME TypeInv, FullInv, SerialInv, InFlight = {}, NEW r \in Regions
               PROVE  /\ Full(r) => r \in active
                      /\ ~overlap => \A p \in OnList(r) : opened[r][p] = IF r \in active THEN 1 ELSE 0
    BY DEF FullRegionsOpen
  <2>1. \A h \in Handlers : pc[h] = "idle"
    BY DEF InFlight
  <2>2. Full(r) => r \in active
    BY <2>1 DEF FullInv
  <2>3. ASSUME ~overlap, NEW p \in OnList(r)  PROVE opened[r][p] = IF r \in active THEN 1 ELSE 0
    BY <2>1, <2>3 DEF SerialInv, OnTheWay, OnList
  <2> QED BY <2>2, <2>3
<1> QED BY <1>1, TypeInvariant, FullInvariant, SerialInvariant, PTL
-----------------------------------------------------------------------------
(* Finite sets of integers.                                                *)
Less == {xy \in Nat \X Nat : xy[1] < xy[2]}

LEMMA Least ==
  ASSUME NEW T \in SUBSET Nat, T # {}
  PROVE  \E x \in T : \A y \in T : x <= y
<1>1. IsWellFoundedOn(Less, Nat)
  BY NatLessThanWellFounded DEF OpToRel, Less
<1>2. PICK x \in T : \A y \in T : <<y, x>> \notin Less
  BY <1>1, WFMin
<1>3. ASSUME NEW y \in T  PROVE x <= y
  <2>1. <<y, x>> \notin Less /\ x \in Nat /\ y \in Nat
    BY <1>2
  <2>2. <<y, x>> \in Nat \X Nat /\ <<y, x>>[1] = y /\ <<y, x>>[2] = x
    BY <2>1
  <2> QED BY <2>1, <2>2 DEF Less
<1> QED BY <1>3

(* Every set of n integers has a last one.                                 *)
HaveLast(n) ==
  \A T \in SUBSET Int : IsFiniteSet(T) /\ Cardinality(T) = n /\ T # {} => \E x \in T : \A y \in T : y <= x

LEMMA LastOf ==
  ASSUME NEW T \in SUBSET Int, IsFiniteSet(T), T # {}
  PROVE  \E x \in T : \A y \in T : y <= x
<1>1. ASSUME NEW n \in Nat, HaveLast(n)  PROVE HaveLast(n + 1)
  <2> SUFFICES ASSUME NEW U \in SUBSET Int, IsFiniteSet(U), Cardinality(U) = n + 1, U # {}
               PROVE  \E x \in U : \A y \in U : y <= x
    BY DEF HaveLast
  <2>1. PICK u : u \in U
    OBVIOUS
  <2>2. IsFiniteSet(U \ {u}) /\ Cardinality(U \ {u}) = n
    <3>1. IsFiniteSet(U \ {u}) /\ Cardinality(U \ {u}) = Cardinality(U) - 1
      BY <2>1, FS_RemoveElement
    <3> QED BY <3>1
  <2>3. CASE U \ {u} = {}
    <3>1. \A y \in U : y = u
      BY <2>3
    <3> QED BY <2>1, <3>1
  <2>4. CASE U \ {u} # {}
    <3>1. PICK x \in U \ {u} : \A y \in U \ {u} : y <= x
      BY <1>1, <2>2, <2>4 DEF HaveLast
    <3>2. CASE u <= x
      BY <3>1, <3>2
    <3>3. CASE x < u
      BY <2>1, <3>1, <3>3
    <3> QED BY <2>1, <3>1, <3>2, <3>3
  <2> QED BY <2>3, <2>4
<1>2. HaveLast(0)
  BY FS_EmptySet DEF HaveLast
<1>3. PICK N : N = {n \in Nat : ~HaveLast(n)}
  OBVIOUS
<1>4. CASE N # {}
  <2>1. PICK n \in N : \A m \in N : n <= m
    BY <1>3, <1>4, Least
  <2>2. n \in Nat /\ n # 0 /\ n - 1 \in Nat /\ n - 1 + 1 = n /\ ~(n <= n - 1)
    BY <1>2, <1>3, <2>1
  <2>3. HaveLast(n - 1)
    BY <1>3, <2>1, <2>2
  <2>4. HaveLast(n)
    BY <1>1, <2>2, <2>3
  <2> QED BY <1>3, <2>1, <2>4
<1>5. CASE N = {}
  <2>1. Cardinality(T) \in Nat
    BY FS_CardinalityType
  <2>2. HaveLast(Cardinality(T))
    BY <1>3, <1>5, <2>1
  <2> QED BY <2>2 DEF HaveLast
<1> QED BY <1>4, <1>5

LEMMA FirstOf ==
  ASSUME NEW T \in SUBSET Int, IsFiniteSet(T), T # {}
  PROVE  \E x \in T : \A y \in T : x <= y
<1> DEFINE f == [x \in T |-> 0 - x]
           U == {0 - x : x \in T}
<1>1. f \in Surjection(T, U)
  <2>1. f \in [T -> U]
    OBVIOUS
  <2>2. \A u \in U : \E x \in T : f[x] = u
    OBVIOUS
  <2> QED BY <2>1, <2>2 DEF Surjection
<1>2. IsFiniteSet(U) /\ U \in SUBSET Int /\ U # {}
  <2>1. IsFiniteSet(U)
    BY <1>1, FS_Surjection
  <2>2. U \in SUBSET Int
    OBVIOUS
  <2>3. PICK t : t \in T
    OBVIOUS
  <2>4. 0 - t \in U
    BY <2>3
  <2> QED BY <2>1, <2>2, <2>4
<1>3. PICK u \in U : \A v \in U : v <= u
  BY <1>2, LastOf
<1>4. PICK x \in T : u = 0 - x
  OBVIOUS
<1>5. ASSUME NEW y \in T  PROVE x <= y
  <2>1. 0 - y <= 0 - x
    BY <1>3, <1>4
  <2>2. x \in Int /\ y \in Int
    OBVIOUS
  <2> QED BY <2>1, <2>2
<1> QED BY <1>5

LEMMA MaxIs ==
  ASSUME NEW T \in SUBSET Int, IsFiniteSet(T), T # {}
  PROVE  Max(T) \in T /\ \A y \in T : y <= Max(T)
<1>1. PICK x \in T : \A y \in T : y <= x
  BY LastOf
<1>2. \A y \in T : x >= y
  BY <1>1
<1>3. Max(T) \in T /\ \A y \in T : Max(T) >= y
  BY <1>2 DEF Max
<1> QED BY <1>3

-----------------------------------------------------------------------------
(* Streaks.  The days of some runs, in order: how many come up to a day,   *)
(* and the days whose distance from their number is the same.              *)
Upto(D, d)  == {e \in D : e <= d}
Place(D, d) == d - Cardinality(Upto(D, d))
Block(D, d) == {e \in D : Place(D, e) = Place(D, d)}

LEMMA UptoTypes ==
  ASSUME NEW D \in SUBSET Int, IsFiniteSet(D), NEW d \in Int
  PROVE  IsFiniteSet(Upto(D, d)) /\ Cardinality(Upto(D, d)) \in Nat /\ Place(D, d) \in Int
<1>1. IsFiniteSet(Upto(D, d))
  BY FS_Subset DEF Upto
<1>2. Cardinality(Upto(D, d)) \in Nat
  BY <1>1, FS_CardinalityType
<1> QED BY <1>1, <1>2 DEF Place

(* Two days have the same place if no day between them is missing.         *)
LEMMA SamePlace ==
  ASSUME NEW D \in SUBSET Int, IsFiniteSet(D), NEW d \in D, NEW e \in D, d <= e
  PROVE  Place(D, d) = Place(D, e) <=> d..e \subseteq D
<1> DEFINE M == {z \in D : d < z /\ z <= e}
<1>0. d \in Int /\ e \in Int
  OBVIOUS
<1>1. /\ IsFiniteSet(Upto(D, d)) /\ Cardinality(Upto(D, d)) \in Nat
      /\ IsFiniteSet(Upto(D, e)) /\ Cardinality(Upto(D, e)) \in Nat
  BY <1>0, UptoTypes
<1>2. IsFiniteSet(M) /\ Cardinality(M) \in Nat
  BY FS_Subset, FS_CardinalityType
<1>3. Upto(D, e) = Upto(D, d) \cup M /\ Upto(D, d) \cap M = {}
  <2>1. ASSUME NEW z \in D  PROVE (z <= e <=> z <= d \/ (d < z /\ z <= e)) /\ ~(z <= d /\ d < z)
    <3>1. z \in Int
      OBVIOUS
    <3> QED BY <1>0, <3>1
  <2> QED BY <2>1 DEF Upto
<1>4. Cardinality(Upto(D, e)) = Cardinality(Upto(D, d)) + Cardinality(M)
  <2>1. Cardinality(Upto(D, d) \cap M) = 0
    BY <1>3, FS_EmptySet
  <2> QED BY <1>1, <1>2, <1>3, <2>1, FS_Union
<1>5. IsFiniteSet((d + 1)..e) /\ Cardinality((d + 1)..e) = e - d /\ M \subseteq (d + 1)..e
  <2>1. IsFiniteSet((d + 1)..e) /\ Cardinality((d + 1)..e) = IF d + 1 > e THEN 0 ELSE e - (d + 1) + 1
    BY <1>0, FS_Interval
  <2>2. (IF d + 1 > e THEN 0 ELSE e - (d + 1) + 1) = e - d
    BY <1>0
  <2>3. ASSUME NEW z \in D, d < z, z <= e  PROVE z \in (d + 1)..e
    <3>1. z \in Int
      OBVIOUS
    <3>2. d + 1 <= z
      BY <1>0, <2>3, <3>1
    <3> QED BY <1>0, <2>3, <3>1, <3>2
  <2>4. M \subseteq (d + 1)..e
    BY <2>3
  <2>5. Cardinality((d + 1)..e) = e - d
    BY <2>1, <2>2
  <2> HIDE DEF M
  <2> QED BY <2>1, <2>4, <2>5
<1>6. Cardinality(M) = e - d <=> M = (d + 1)..e
  BY <1>5, FS_Subset
<1>7. M = (d + 1)..e <=> d..e \subseteq D
  <2>1. ASSUME NEW z  PROVE z \in (d + 1)..e <=> z \in d..e /\ z # d
    BY <1>0
  <2>2. ASSUME NEW z \in (d + 1)..e  PROVE d < z /\ z <= e
    BY <1>0
  <2>3. d..e \subseteq D <=> (d + 1)..e \subseteq D
    BY <2>1
  <2>4. (d + 1)..e \subseteq D <=> (d + 1)..e \subseteq M
    BY <2>2
  <2> QED BY <1>5, <2>3, <2>4
<1>8. Place(D, d) = Place(D, e) <=> Cardinality(M) = e - d
  <2>1. PICK a \in Nat : a = Cardinality(Upto(D, d))
    BY <1>1
  <2>2. PICK b \in Nat : b = Cardinality(Upto(D, e))
    BY <1>1
  <2>3. PICK m \in Nat : m = Cardinality(M)
    BY <1>2
  <2>4. b = a + m
    BY <1>4, <2>1, <2>2, <2>3
  <2>5. d - a = e - b <=> m = e - d
    BY <1>0, <2>4
  <2> QED BY <2>1, <2>2, <2>3, <2>5 DEF Place
<1> QED BY <1>6, <1>7, <1>8

(* A block is an interval, *)
LEMMA BlockIs ==
  ASSUME NEW D \in SUBSET Int, IsFiniteSet(D), NEW d \in D
  PROVE  \E lo, hi \in D : lo <= hi /\ Block(D, d) = lo..hi
<1>1. d \in Block(D, d) /\ Block(D, d) \in SUBSET Int /\ IsFiniteSet(Block(D, d))
  BY FS_Subset DEF Block
<1>2. PICK lo \in Block(D, d) : \A y \in Block(D, d) : lo <= y
  BY <1>1, FirstOf
<1>3. PICK hi \in Block(D, d) : \A y \in Block(D, d) : y <= hi
  BY <1>1, LastOf
<1>4. lo \in D /\ hi \in D /\ lo <= hi /\ Place(D, lo) = Place(D, hi)
  BY <1>2, <1>3 DEF Block
<1>5. lo..hi \subseteq D
  BY <1>4, SamePlace
<1>6. ASSUME NEW z \in lo..hi  PROVE z \in Block(D, d)
  <2>1. z \in D /\ lo <= z /\ lo..z \subseteq D
    BY <1>4, <1>5
  <2>2. Place(D, lo) = Place(D, z)
    BY <1>4, <2>1, SamePlace
  <2> QED BY <1>2, <2>1, <2>2 DEF Block
<1>7. Block(D, d) \subseteq lo..hi
  BY <1>1, <1>2, <1>3
<1> QED BY <1>4, <1>6, <1>7

(* and consecutive days are in one.                                        *)
LEMMA BlockHolds ==
  ASSUME NEW D \in SUBSET Int, IsFiniteSet(D), NEW lo \in Int, NEW d \in Int, lo <= d, lo..d \subseteq D
  PROVE  d \in D /\ lo..d \subseteq Block(D, d)
<1>1. d \in D
  OBVIOUS
<1>2. ASSUME NEW z \in lo..d  PROVE z \in Block(D, d)
  <2>1. z \in D /\ z <= d /\ z..d \subseteq D
    BY <1>1
  <2>2. Place(D, z) = Place(D, d)
    BY <1>1, <2>1, SamePlace
  <2> QED BY <2>1, <2>2 DEF Block
<1> QED BY <1>1, <1>2

(* Rows for days, as the query of a streak has them.                       *)
Row(d)    == [day |-> d, id |-> 0]
RowsOf(T) == {Row(d) : d \in T}

LEMMA RowCount ==
  ASSUME NEW T, IsFiniteSet(T)
  PROVE  Cardinality(RowsOf(T)) = Cardinality(T)
<1> DEFINE f == [d \in T |-> Row(d)]
<1>1. f \in Bijection(T, RowsOf(T))
  <2>1. \A d, e \in T : f[d] = f[e] => d = e
    BY DEF Row
  <2>2. f \in [T -> RowsOf(T)] /\ \A t \in RowsOf(T) : \E s \in T : f[s] = t
    BY DEF RowsOf
  <2> QED BY <2>1, <2>2 DEF Bijection, Injection, IsInjective, Surjection
<1>2. ExistsBijection(T, RowsOf(T))
  BY <1>1 DEF ExistsBijection
<1> QED BY <1>2, FS_Bijection

LEMMA GroupIs ==
  ASSUME NEW D \in SUBSET Int, IsFiniteSet(D), NEW d \in D
  PROVE  Group(RowsOf(D), Row(d)) = Place(D, d)
<1>1. Row(d).day = d /\ Row(d).id = 0
  BY DEF Row
<1>2. ASSUME NEW e \in D
      PROVE  Row(e).day < d \/ (Row(e).day = d /\ Row(e).id <= 0) <=> e <= d
  <2>1. Row(e).day = e /\ Row(e).id = 0 /\ e \in Int /\ d \in Int
    BY DEF Row
  <2> QED BY <2>1
<1>3. {y \in RowsOf(D) : y.day < Row(d).day \/ (y.day = Row(d).day /\ y.id <= Row(d).id)} = RowsOf(Upto(D, d))
  BY <1>1, <1>2 DEF RowsOf, Upto
<1>4. Cardinality(RowsOf(Upto(D, d))) = Cardinality(Upto(D, d))
  BY UptoTypes, RowCount
<1> QED BY <1>1, <1>3, <1>4 DEF Group, RowNumber, Place

LEMMA BlockSize ==
  ASSUME NEW D \in SUBSET Int, IsFiniteSet(D), NEW d \in D
  PROVE  Cardinality({y \in RowsOf(D) : Group(RowsOf(D), y) = Group(RowsOf(D), Row(d))}) = Cardinality(Block(D, d))
<1>1. {y \in RowsOf(D) : Group(RowsOf(D), y) = Group(RowsOf(D), Row(d))} = RowsOf(Block(D, d))
  <2>1. \A e \in D : Group(RowsOf(D), Row(e)) = Place(D, e)
    BY GroupIs
  <2>2. Group(RowsOf(D), Row(d)) = Place(D, d)
    BY GroupIs
  <2>3. ASSUME NEW y
        PROVE  y \in RowsOf(Block(D, d)) <=> y \in RowsOf(D) /\ Group(RowsOf(D), y) = Place(D, d)
    <3>1. CASE y \in RowsOf(D)
      <4>1. PICK e \in D : y = Row(e)
        BY <3>1 DEF RowsOf
      <4>2. Group(RowsOf(D), y) = Place(D, e)
        BY <2>1, <4>1
      <4>3. y \in RowsOf(Block(D, d)) <=> e \in Block(D, d)
        BY <4>1 DEF RowsOf, Row
      <4> QED BY <3>1, <4>2, <4>3 DEF Block
    <3>2. CASE y \notin RowsOf(D)
      <4>1. Block(D, d) \subseteq D
        BY DEF Block
      <4> QED BY <3>2, <4>1 DEF RowsOf
    <3> QED BY <3>1, <3>2
  <2> QED BY <2>2, <2>3
<1>2. IsFiniteSet(Block(D, d))
  BY FS_Subset DEF Block
<1> QED BY <1>1, <1>2, RowCount

LEMMA StreakIsMax ==
  ASSUME NEW R, DaysOf(R) \in SUBSET Int, IsFiniteSet(DaysOf(R))
  PROVE  Streak(R) = Max({Cardinality(Block(DaysOf(R), d)) : d \in DaysOf(R)})
<1> DEFINE D == DaysOf(R)
           rows == EachDay(R)
<1>1. rows = RowsOf(D)
  BY DEF EachDay, DaysOf, RowsOf, Row
<1>2. {Cardinality({y \in rows : Group(rows, y) = Group(rows, x)}) : x \in rows}
        = {Cardinality({y \in RowsOf(D) : Group(RowsOf(D), y) = Group(RowsOf(D), Row(d))}) : d \in D}
  BY <1>1 DEF RowsOf
<1>3. {Cardinality({y \in RowsOf(D) : Group(RowsOf(D), y) = Group(RowsOf(D), Row(d))}) : d \in D}
        = {Cardinality(Block(D, d)) : d \in D}
  BY BlockSize
<1> QED BY <1>2, <1>3 DEF Streak

(* "The longest run of consecutive days."                                  *)
Longest(D, n) ==
  /\ n \in Nat \ {0}
  /\ \E d \in D : (d - n + 1)..d \subseteq D
  /\ \A d \in Int : ~((d - n)..d \subseteq D)

LEMMA StreakIsLongest ==
  ASSUME NEW R, DaysOf(R) \in SUBSET Int, IsFiniteSet(DaysOf(R)), DaysOf(R) # {}
  PROVE  Longest(DaysOf(R), Streak(R))
<1>0. PICK D \in SUBSET Int : D = DaysOf(R) /\ IsFiniteSet(D) /\ D # {}
  OBVIOUS
<1> DEFINE Sizes == {Cardinality(Block(D, d)) : d \in D}
           n     == Max(Sizes)
<1>1. ASSUME NEW d \in D  PROVE Cardinality(Block(D, d)) \in 0..Cardinality(D)
  <2>1. Block(D, d) \in SUBSET D
    BY DEF Block
  <2>2. IsFiniteSet(Block(D, d)) /\ Cardinality(Block(D, d)) <= Cardinality(D)
    BY <1>0, <2>1, FS_Subset
  <2> QED BY <1>0, <2>2, FS_CardinalityType
<1>2. n \in Sizes /\ \A y \in Sizes : y <= n
  <2>1. IsFiniteSet(0..Cardinality(D)) /\ Cardinality(D) \in Nat
    BY <1>0, FS_CardinalityType, FS_Interval
  <2>2. Sizes \in SUBSET (0..Cardinality(D)) /\ Sizes # {}
    BY <1>0, <1>1
  <2> HIDE DEF Sizes
  <2>3. IsFiniteSet(Sizes) /\ Sizes \in SUBSET Int
    <3>1. IsFiniteSet(Sizes)
      BY <2>1, <2>2, FS_Subset
    <3>2. Sizes \in SUBSET Int
      BY <2>1, <2>2
    <3> QED BY <3>1, <3>2
  <2> QED BY <2>2, <2>3, MaxIs
<1>3. PICK d \in D : n = Cardinality(Block(D, d))
  BY <1>2
<1>4. PICK lo, hi \in D : lo <= hi /\ Block(D, d) = lo..hi
  BY <1>0, BlockIs
<1>5. lo \in Int /\ hi \in Int /\ n = hi - lo + 1 /\ n \in Nat \ {0} /\ hi - n + 1 = lo
  <2>1. lo \in Int /\ hi \in Int /\ ~(lo > hi)
    BY <1>4
  <2>2. Cardinality(lo..hi) = hi - lo + 1
    BY <2>1, FS_Interval
  <2>3. n = hi - lo + 1
    BY <1>3, <1>4, <2>2
  <2> HIDE DEF n
  <2> QED BY <1>4, <2>1, <2>3
<1>6. lo..hi \subseteq D
  BY <1>4 DEF Block
<1>7. ASSUME NEW e \in Int, (e - n)..e \subseteq D  PROVE FALSE
  <2>1. PICK b \in Int : b = e - n
    <3> HIDE DEF n
    <3>1. e - n \in Int
      BY <1>5
    <3> QED BY <3>1
  <2>2. b <= e /\ e - b + 1 = n + 1
    <3> HIDE DEF n
    <3> QED BY <1>5, <2>1
  <2>3. e \in D /\ b..e \subseteq Block(D, e)
    BY <1>0, <1>7, <2>1, <2>2, BlockHolds
  <2>4. Cardinality(b..e) = n + 1
    <3>1. Cardinality(b..e) = IF b > e THEN 0 ELSE e - b + 1
      BY FS_Interval
    <3> HIDE DEF n
    <3> QED BY <2>2, <3>1
  <2>5. IsFiniteSet(Block(D, e))
    BY <1>0, FS_Subset DEF Block
  <2>6. n + 1 <= Cardinality(Block(D, e))
    <3>1. Cardinality(b..e) <= Cardinality(Block(D, e))
      BY <2>3, <2>5, FS_Subset
    <3> QED BY <2>4, <3>1
  <2>7. Cardinality(Block(D, e)) <= n /\ Cardinality(Block(D, e)) \in Int
    BY <1>1, <1>2, <2>3
  <2> HIDE DEF n
  <2> QED BY <1>5, <2>6, <2>7
<1>8. Longest(D, n)
  <2> HIDE DEF n
  <2> QED BY <1>5, <1>6, <1>7 DEF Longest
<1>9. Streak(R) = n
  BY <1>0, StreakIsMax
<1> HIDE DEF n
<1> QED BY <1>0, <1>8, <1>9

(* The more days, the longer.                                              *)
LEMMA LongerStreaks ==
  ASSUME NEW D, NEW E, D \subseteq E, NEW m, NEW n, Longest(D, m), Longest(E, n), D \subseteq Int
  PROVE  m <= n
<1>1. m \in Nat /\ n \in Nat
  BY DEF Longest
<1>2. PICK d \in D : (d - m + 1)..d \subseteq D
  BY DEF Longest
<1>3. d \in Int /\ ~((d - n)..d \subseteq E)
  BY <1>2 DEF Longest
<1>4. ASSUME m > n  PROVE FALSE
  <2>1. (d - n)..d \subseteq (d - m + 1)..d
    BY <1>1, <1>3, <1>4
  <2> QED BY <1>2, <1>3, <2>1
<1> QED BY <1>1, <1>4

(* The walk back from a day ends at the first that is missing.             *)
Missing(D, d)  == {j \in Nat : d - 1 - j \notin D}
Reach(D, d, j) == j \in Missing(D, d) /\ \A i \in Missing(D, d) : j <= i

(* What a walk says of each day. *)
Walks(D, w) == w = [d \in Int |-> IF d - 1 \in D THEN 1 + w[d - 1] ELSE 1]

LEMMA ReachIs ==
  ASSUME NEW D \in SUBSET Int, IsFiniteSet(D), NEW d \in Int
  PROVE  \E j \in Nat : Reach(D, d, j)
<1>1. Missing(D, d) # {}
  <2>1. CASE D = {}
    <3>1. 0 \in Missing(D, d)
      BY <2>1 DEF Missing
    <3> QED BY <3>1
  <2>2. CASE D # {}
    <3>1. PICK lo \in D : \A y \in D : lo <= y
      BY <2>2, FirstOf
    <3>2. lo \in Int
      OBVIOUS
    <3>3. CASE d <= lo
      <4>1. ~(lo <= d - 1 - 0)
        BY <3>2, <3>3
      <4>2. 0 \in Missing(D, d)
        BY <3>1, <4>1 DEF Missing
      <4> QED BY <4>2
    <3>4. CASE d > lo
      <4>1. d - lo \in Nat /\ ~(lo <= d - 1 - (d - lo))
        BY <3>2, <3>4
      <4>2. d - lo \in Missing(D, d)
        BY <3>1, <4>1 DEF Missing
      <4> QED BY <4>2
    <3> QED BY <3>2, <3>3, <3>4
  <2> QED BY <2>1, <2>2
<1>2. Missing(D, d) \in SUBSET Nat
  BY DEF Missing
<1>3. PICK j \in Missing(D, d) : \A i \in Missing(D, d) : j <= i
  BY <1>1, <1>2, Least
<1> QED BY <1>2, <1>3 DEF Reach

LEMMA ReachOne ==
  ASSUME NEW D, NEW d, NEW i \in Nat, NEW j \in Nat, Reach(D, d, i), Reach(D, d, j)
  PROVE  i = j
<1>1. i <= j /\ j <= i
  BY DEF Reach
<1> QED BY <1>1

LEMMA ReachBack ==
  ASSUME NEW D \in SUBSET Int, IsFiniteSet(D), NEW d \in Int, NEW j \in Nat, Reach(D, d, j)
  PROVE  IF d - 1 \in D THEN j # 0 /\ Reach(D, d - 1, j - 1) ELSE j = 0
<1>1. CASE d - 1 \notin D
  <2>1. 0 \in Missing(D, d)
    BY <1>1 DEF Missing
  <2> QED BY <1>1, <2>1 DEF Reach
<1>2. CASE d - 1 \in D
  <2>1. j # 0
    BY <1>2 DEF Reach, Missing
  <2>2. ASSUME NEW i \in Nat  PROVE i \in Missing(D, d - 1) <=> i + 1 \in Missing(D, d)
    <3>1. d - 1 - 1 - i = d - 1 - (i + 1) /\ i + 1 \in Nat
      OBVIOUS
    <3> QED BY <3>1 DEF Missing
  <2>3. j - 1 \in Nat /\ j - 1 + 1 = j
    BY <2>1
  <2>4. j - 1 \in Missing(D, d - 1)
    BY <2>2, <2>3 DEF Reach
  <2>5. ASSUME NEW i \in Missing(D, d - 1)  PROVE j - 1 <= i
    <3>1. i \in Nat
      BY DEF Missing
    <3>2. j <= i + 1
      BY <2>2, <3>1 DEF Reach
    <3> QED BY <3>1, <3>2
  <2> QED BY <1>2, <2>1, <2>4, <2>5 DEF Reach
<1> QED BY <1>1, <1>2

LEMMA WalkExists ==
  ASSUME NEW D \in SUBSET Int, IsFiniteSet(D)
  PROVE  \E w : Walks(D, w)
<1> DEFINE far(d) == CHOOSE j \in Nat : Reach(D, d, j)
           w      == [d \in Int |-> 1 + far(d)]
<1>1. ASSUME NEW d \in Int  PROVE far(d) \in Nat /\ Reach(D, d, far(d))
  BY ReachIs
<1>2. ASSUME NEW d \in Int  PROVE w[d] = IF d - 1 \in D THEN 1 + w[d - 1] ELSE 1
  <2>1. PICK j \in Nat : j = far(d) /\ Reach(D, d, j)
    BY <1>1
  <2>2. PICK i \in Nat : i = far(d - 1) /\ Reach(D, d - 1, i)
    BY <1>1
  <2>3. w[d] = 1 + j /\ w[d - 1] = 1 + i
    BY <2>1, <2>2
  <2>4. IF d - 1 \in D THEN j - 1 \in Nat /\ Reach(D, d - 1, j - 1) ELSE j = 0
    BY <2>1, ReachBack
  <2>5. d - 1 \in D => i = j - 1
    BY <2>2, <2>4, ReachOne
  <2> HIDE DEF w
  <2> QED BY <2>3, <2>4, <2>5
<1>3. w = [d \in Int |-> w[d]]
  OBVIOUS
<1>4. Walks(D, w)
  BY <1>2, <1>3 DEF Walks
<1> QED BY <1>4

LEMMA WalkReaches ==
  ASSUME NEW D \in SUBSET Int, IsFiniteSet(D), NEW w, Walks(D, w), NEW d \in Int, NEW j \in Nat, Reach(D, d, j)
  PROVE  w[d] = 1 + j
<1> DEFINE Good(n) == \A e \in Int : Reach(D, e, n) => w[e] = 1 + n
<1>1. ASSUME NEW e \in Int  PROVE w[e] = IF e - 1 \in D THEN 1 + w[e - 1] ELSE 1
  BY DEF Walks
<1>2. ASSUME NEW n \in Nat, n = 0 \/ Good(n - 1)  PROVE Good(n)
  <2> SUFFICES ASSUME NEW e \in Int, Reach(D, e, n)  PROVE w[e] = 1 + n
    OBVIOUS
  <2>1. IF e - 1 \in D THEN n # 0 /\ Reach(D, e - 1, n - 1) ELSE n = 0
    BY ReachBack
  <2>2. CASE e - 1 \in D
    <3>1. w[e - 1] = 1 + (n - 1)
      BY <1>2, <2>1, <2>2
    <3> QED BY <1>1, <2>2, <3>1
  <2>3. CASE e - 1 \notin D
    BY <1>1, <2>1, <2>3
  <2> QED BY <2>2, <2>3
<1>3. PICK N : N = {n \in Nat : ~Good(n)}
  OBVIOUS
<1> HIDE DEF Good
<1>4. ASSUME N # {}  PROVE FALSE
  <2>1. PICK n \in N : \A m \in N : n <= m
    BY <1>3, <1>4, Least
  <2>2. n \in Nat /\ (n = 0 \/ (n - 1 \in Nat /\ ~(n <= n - 1)))
    BY <1>3
  <2> QED BY <1>2, <1>3, <2>1, <2>2
<1>5. Good(j)
  BY <1>3, <1>4
<1> QED BY <1>5 DEF Good

LEMMA CurrentIs ==
  ASSUME NEW R, NEW today
  PROVE  CurrentStreak(R, today) =
           IF DaysOf(R) = {} \/ ~Alive(Max(DaysOf(R)), today) THEN 0
             ELSE (CHOOSE w : Walks(DaysOf(R), w))[Max(DaysOf(R))]
BY DEF CurrentStreak, Walks

(* The live streak ends on the last day, and is there in full.             *)
LEMMA CurrentStreakIs ==
  ASSUME NEW R, DaysOf(R) \in SUBSET Int, IsFiniteSet(DaysOf(R)), DaysOf(R) # {},
         NEW today, Alive(Max(DaysOf(R)), today)
  PROVE  LET last == Max(DaysOf(R))
             n    == CurrentStreak(R, today)
         IN n \in Nat \ {0} /\ (last - n + 1)..last \subseteq DaysOf(R) /\ last - n \notin DaysOf(R)
<1>0. PICK D \in SUBSET Int : D = DaysOf(R) /\ IsFiniteSet(D) /\ D # {}
  OBVIOUS
<1>1. PICK last : last = Max(D)
  OBVIOUS
<1>2. last \in D /\ last \in Int
  BY <1>0, <1>1, MaxIs
<1>3. PICK w : w = CHOOSE v : Walks(D, v)
  OBVIOUS
<1>4. Walks(D, w)
  BY <1>0, <1>3, WalkExists
<1>5. CurrentStreak(R, today) = w[last]
  BY <1>0, <1>1, <1>3, CurrentIs
<1>6. PICK j \in Nat : Reach(D, last, j)
  BY <1>0, <1>2, ReachIs
<1>7. w[last] = 1 + j
  BY <1>0, <1>2, <1>4, <1>6, WalkReaches
<1>8. last - (1 + j) \notin D
  <2>1. last - 1 - j \notin D
    BY <1>6 DEF Reach, Missing
  <2>2. last - 1 - j = last - (1 + j)
    BY <1>2
  <2> QED BY <2>1, <2>2
<1>9. ASSUME NEW z \in (last - (1 + j) + 1)..last  PROVE z \in D
  <2>1. CASE z = last
    BY <1>2, <2>1
  <2>2. CASE z # last
    <3>1. last - 1 - z \in Nat /\ ~(j <= last - 1 - z) /\ last - 1 - (last - 1 - z) = z
      BY <1>2, <2>2
    <3>2. last - 1 - z \notin Missing(D, last)
      BY <1>6, <3>1 DEF Reach
    <3> QED BY <3>1, <3>2 DEF Missing
  <2> QED BY <2>1, <2>2
<1> QED BY <1>0, <1>1, <1>5, <1>7, <1>8, <1>9

-----------------------------------------------------------------------------
(* The streaks of the runs that are counted and rejected.                  *)
StreakInv == DaysOf(streak) \subseteq 1..LastDay

(* Aggregation, as Streaks has it. *)
LEMMA ChainSame ==
  ASSUME NEW R, NEW today
  PROVE  /\ Chain!Streak(R) = Streak(R) /\ Chain!DaysOf(R) = DaysOf(R)
         /\ Chain!CurrentStreak(R, today) = CurrentStreak(R, today)
<1>1. Chain!Streak(R) = Streak(R)
  BY DEF Chain!Streak, Streak, Chain!EachDay, EachDay, Chain!Group, Group, Chain!RowNumber, RowNumber,
         Chain!Max, Max, Chain!Cardinality, Cardinality, Chain!IsFiniteSet, IsFiniteSet
<1>2. Chain!DaysOf(R) = DaysOf(R)
  BY DEF Chain!DaysOf, DaysOf
<1>3. Chain!CurrentStreak(R, today) = CurrentStreak(R, today)
  BY DEF Chain!CurrentStreak, CurrentStreak, Chain!DaysOf, DaysOf, Chain!Max, Max, Chain!Alive, Alive
<1> QED BY <1>1, <1>2, <1>3

LEMMA StreaksHold ==
  ASSUME StreakInv
  PROVE  Chain!StreaksAreRuns
<1> DEFINE L == Streak(streak)
           n(today) == CurrentStreak(streak, today)
<1>0. PICK D \in SUBSET Int : D = DaysOf(streak)
  BY DEF StreakInv
<1>1. IsFiniteSet(D) /\ D \subseteq 1..LastDay
  <2>1. IsFiniteSet(1..LastDay)
    BY LastDayAssumption, FS_Interval
  <2> QED BY <1>0, <2>1, FS_Subset DEF StreakInv
<1>2. streak # {} <=> D # {}
  BY <1>0 DEF DaysOf
<1>3. \A x \in streak : x.day \in D
  BY <1>0 DEF DaysOf
<1>4. \A k, d : Chain!Consecutive(k, d) <=> (d - k + 1)..d \subseteq D
  BY <1>0, ChainSame DEF Chain!Consecutive
<1>5. ASSUME D # {}
      PROVE  /\ L \in Nat
             /\ \E d \in 1..LastDay : Chain!Consecutive(L, d)
             /\ ~\E d \in 1..LastDay : Chain!Consecutive(L + 1, d)
  <2>1. Longest(D, L)
    BY <1>0, <1>1, <1>5, StreakIsLongest
  <2>2. L \in Nat /\ \A d \in 1..LastDay : d - (L + 1) + 1 = d - L
    <3>1. L \in Nat
      BY <2>1 DEF Longest
    <3> HIDE DEF L
    <3> QED BY <3>1
  <2> HIDE DEF L
  <2>3. PICK d \in D : (d - L + 1)..d \subseteq D
    BY <2>1 DEF Longest
  <2>4. d \in 1..LastDay /\ Chain!Consecutive(L, d)
    BY <1>1, <1>4, <2>3
  <2>5. ASSUME NEW e \in 1..LastDay  PROVE ~Chain!Consecutive(L + 1, e)
    <3>0. e \in Int
      OBVIOUS
    <3>1. ~((e - L)..e \subseteq D)
      BY <2>1, <3>0 DEF Longest
    <3> QED BY <1>4, <2>2, <3>1
  <2> QED BY <2>2, <2>4, <2>5
<1>6. ASSUME NEW today \in 1..LastDay + 2, \A x \in streak : x.day <= today
      PROVE  /\ n(today) > 0 <=> \E x \in streak : x.day \in {today - 1, today}
             /\ n(today) > 0 => \E d \in {today - 1, today} :
                           /\ Chain!Consecutive(n(today), d) /\ ~Chain!Consecutive(n(today) + 1, d)
                           /\ d = today \/ today \notin D
             /\ streak # {} => n(today) <= L
  <2> PICK last : last = Max(D)
    OBVIOUS
  <2>1. CASE D = {}
    <3>1. n(today) = 0
      BY <1>0, <2>1, CurrentIs
    <3> QED BY <1>2, <2>1, <3>1
  <2>2. CASE D # {} /\ ~Alive(last, today)
    <3>1. n(today) = 0
      BY <1>0, <2>2, CurrentIs
    <3>2. last \in D /\ last \in Int /\ \A d \in D : d <= last
      BY <1>1, <2>2, MaxIs
    <3>3. ASSUME NEW d \in D  PROVE d \notin {today - 1, today}
      <4>1. d \in Int /\ d <= last /\ today \in Int
        BY <3>2, LastDayAssumption
      <4> QED BY <2>2, <3>2, <4>1 DEF Alive
    <3>4. L \in Nat
      BY <1>5, <2>2
    <3> HIDE DEF L, n
    <3> QED BY <1>3, <3>1, <3>3, <3>4
  <2>3. CASE D # {} /\ Alive(last, today)
    <3>1. /\ n(today) \in Nat \ {0}
          /\ (last - n(today) + 1)..last \subseteq D /\ last - n(today) \notin D
      BY <1>0, <1>1, <2>3, CurrentStreakIs
    <3>2. last \in D /\ last \in Int /\ \A d \in D : d <= last
      BY <1>1, <2>3, MaxIs
    <3>3. PICK x \in streak : x.day = last
      BY <1>0, <3>2 DEF DaysOf
    <3>4. today \in Int /\ last <= today /\ last \in {today - 1, today}
      <4>1. today \in Int
        BY LastDayAssumption
      <4>2. last <= today
        BY <1>6, <3>3
      <4> QED BY <2>3, <3>2, <4>1, <4>2 DEF Alive
    <3>5. last = today \/ today \notin D
      BY <3>2, <3>4
    <3>6. L \in Nat /\ Longest(D, L)
      <4>1. Longest(D, L)
        BY <1>0, <1>1, <2>3, StreakIsLongest
      <4> QED BY <4>1 DEF Longest
    <3> HIDE DEF L, n
    <3>7. Chain!Consecutive(n(today), last)
      BY <1>4, <3>1
    <3>8. ~Chain!Consecutive(n(today) + 1, last)
      <4>1. last - n(today) \in (last - (n(today) + 1) + 1)..last
        BY <3>1, <3>2
      <4> QED BY <1>4, <3>1, <4>1
    <3>9. n(today) <= L
      <4>1. ASSUME n(today) > L  PROVE (last - L)..last \subseteq D
        <5>1. (last - L)..last \subseteq (last - n(today) + 1)..last
          BY <3>1, <3>2, <3>6, <4>1
        <5> QED BY <3>1, <5>1
      <4>2. ~((last - L)..last \subseteq D)
        BY <3>2, <3>6 DEF Longest
      <4> QED BY <3>1, <3>6, <4>1, <4>2
    <3>10. n(today) > 0
      BY <3>1
    <3> QED BY <3>3, <3>4, <3>5, <3>7, <3>8, <3>9, <3>10
  <2> QED BY <2>1, <2>2, <2>3
<1>7. L = Chain!Streak(streak) /\ D = Chain!DaysOf(streak)
      /\ \A today : n(today) = Chain!CurrentStreak(streak, today)
  BY <1>0, ChainSame
<1> HIDE DEF L, n
<1> QED BY <1>2, <1>5, <1>6, <1>7 DEF Chain!StreaksAreRuns

LEMMA StreakStep ==
  ASSUME StreakInv, Chain!Next
  PROVE  StreakInv'
<1>1. ASSUME NEW i \in 1..MaxRuns, NEW d \in 1..LastDay, Chain!Count(i, d)
      PROVE  StreakInv'
  <2>1. streak' = streak \cup {[id |-> i, day |-> d, value |-> 1]}
    BY <1>1 DEF Chain!Count
  <2>2. [id |-> i, day |-> d, value |-> 1].day = d
    OBVIOUS
  <2>3. ASSUME NEW x \in streak'  PROVE x.day \in 1..LastDay
    BY <2>1, <2>2 DEF StreakInv, DaysOf
  <2> QED BY <2>3 DEF StreakInv, DaysOf
<1>2. ASSUME NEW x \in streak, Chain!Reject(x)
      PROVE  StreakInv'
  BY <1>2 DEF Chain!Reject, StreakInv, DaysOf
<1> QED BY <1>1, <1>2 DEF Chain!Next

-----------------------------------------------------------------------------
(* Rules.                                                                  *)

(* Aggregation and FiniteSets, as Rewards has them. *)
LEMMA RewardsSame ==
  ASSUME NEW R
  PROVE  /\ B!Streak(R) = Streak(R)
         /\ B!Cardinality(R) = Cardinality(R) /\ (B!IsFiniteSet(R) <=> IsFiniteSet(R))
<1>1. B!Streak(R) = Streak(R)
  BY DEF B!Streak, Streak, B!EachDay, EachDay, B!Group, Group, B!RowNumber, RowNumber,
         B!Max, Max, B!Cardinality, Cardinality, B!IsFiniteSet, IsFiniteSet
<1>2. B!Cardinality(R) = Cardinality(R)
  BY DEF B!Cardinality, Cardinality, B!IsFiniteSet, IsFiniteSet
<1>3. B!IsFiniteSet(R) <=> IsFiniteSet(R)
  BY DEF B!IsFiniteSet, IsFiniteSet
<1> QED BY <1>1, <1>2, <1>3

LEMMA FewDays ==
  ASSUME NEW T \in SUBSET Days
  PROVE  IsFiniteSet(T) /\ T \in SUBSET Int /\ Cardinality(T) \in Nat /\ B!Cardinality(T) = Cardinality(T)
<1>1. IsFiniteSet(Days) /\ Days \subseteq Int
  BY RewardsParameters, RewardsSame DEF B!Parameters
<1>2. IsFiniteSet(T)
  BY <1>1, FS_Subset
<1> QED BY <1>1, <1>2, FS_CardinalityType, RewardsSame

(* The facts that a rule looks at, and more of them.                       *)
IsFacts(f) ==
  /\ f.passed \in [Disciplines -> 0..2] /\ f.titles \in 0..2

NoLess(f, g) ==
  /\ f.runs \subseteq g.runs /\ f.owned \subseteq g.owned /\ f.listed = g.listed
  /\ f.titles <= g.titles /\ \A d \in Disciplines : f.passed[d] <= g.passed[d]

LEMMA DaysGrow ==
  ASSUME NEW f, NEW g, NoLess(f, g), NEW d
  PROVE  B!DaysOn(f, d) \subseteq B!DaysOn(g, d) /\ B!DaysOn(g, d) \subseteq Days
BY DEF NoLess, B!DaysOn

LEMMA PassedGrow ==
  ASSUME NEW f, NEW g, IsFacts(f), IsFacts(g), NoLess(f, g), NEW ds \in SUBSET Disciplines
  PROVE  B!PassedIn(f, ds) \subseteq B!PassedIn(g, ds)
<1>1. ASSUME NEW d \in ds, f.passed[d] > 0  PROVE g.passed[d] > 0
  <2>1. f.passed[d] \in Int /\ g.passed[d] \in Int /\ f.passed[d] <= g.passed[d]
    BY DEF IsFacts, NoLess
  <2> QED BY <1>1, <2>1
<1> QED BY <1>1 DEF B!PassedIn

LEMMA LongestOf ==
  ASSUME NEW f, NEW d, B!DaysOn(f, d) # {}
  PROVE  Longest(B!DaysOn(f, d), B!LongestStreak(f, d))
<1> DEFINE R == B!ActiveOn(f, d)
<1>1. DaysOf(R) = B!DaysOn(f, d)
  <2>1. \A n : [id |-> n, day |-> n, value |-> 1].day = n
    OBVIOUS
  <2> QED BY <2>1 DEF DaysOf, B!ActiveOn
<1>2. B!DaysOn(f, d) \in SUBSET Days
  BY DEF B!DaysOn
<1>3. Longest(DaysOf(R), Streak(R))
  BY <1>1, <1>2, FewDays, StreakIsLongest
<1> QED BY <1>1, <1>3, RewardsSame DEF B!LongestStreak

LEMMA StreakGrows ==
  ASSUME NEW f, NEW g, NoLess(f, g), NEW d
  PROVE  /\ B!LongestStreak(f, d) \in Nat /\ B!LongestStreak(g, d) \in Nat
         /\ B!LongestStreak(f, d) <= B!LongestStreak(g, d)
<1>1. /\ B!DaysOn(f, d) \subseteq B!DaysOn(g, d)
      /\ B!DaysOn(f, d) \subseteq Int
  BY DaysGrow, FewDays
<1>2. ASSUME NEW e \in {f, g}  PROVE B!LongestStreak(e, d) \in Nat
  <2>1. CASE B!DaysOn(e, d) = {}
    BY <2>1 DEF B!LongestStreak
  <2>2. CASE B!DaysOn(e, d) # {}
    BY <2>2, LongestOf DEF Longest
  <2> QED BY <2>1, <2>2
<1>3. CASE B!DaysOn(f, d) = {}
  <2>1. B!LongestStreak(f, d) = 0
    BY <1>3 DEF B!LongestStreak
  <2> QED BY <1>2, <2>1
<1>4. CASE B!DaysOn(f, d) # {}
  <2>1. B!DaysOn(g, d) # {}
    BY <1>1, <1>4
  <2> QED BY <1>1, <1>2, <1>4, <2>1, LongestOf, LongerStreaks
<1> QED BY <1>3, <1>4

(* Whatever a rule counts is still there when there is more.               *)
LEMMA MoreIsReached ==
  ASSUME NEW f, NEW g, IsFacts(f), IsFacts(g), NoLess(f, g),
         NEW r \in B!Rules, r.type \notin {"all_of", "any_of"}, B!Reached(f, r)
  PROVE  B!Reached(g, r)
<1>0. /\ r.type \in B!RuleTypes /\ (r.type \in B!Numbered => r.n \in Int)
      /\ IsFiniteSet(Disciplines)
  BY RewardsParameters, RewardsSame DEF B!Parameters
<1>1. CASE r.type = "qualified_in_n_apps"
  <2> DEFINE Of(e) == {AppOf[d] : d \in B!PassedIn(e, Disciplines)}
  <2>1. Of(f) \subseteq Of(g)
    BY PassedGrow
  <2>2. IsFiniteSet(Of(g))
    <3> DEFINE s == [d \in B!PassedIn(g, Disciplines) |-> AppOf[d]]
    <3>1. IsFiniteSet(B!PassedIn(g, Disciplines))
      BY <1>0, FS_Subset DEF B!PassedIn
    <3>2. s \in Surjection(B!PassedIn(g, Disciplines), Of(g))
      BY DEF Surjection
    <3> QED BY <3>1, <3>2, FS_Surjection
  <2>3. Cardinality(Of(f)) <= Cardinality(Of(g)) /\ Cardinality(Of(f)) \in Nat /\ Cardinality(Of(g)) \in Nat
    BY <2>1, <2>2, FS_Subset, FS_CardinalityType
  <2>4. \A e : B!Reached(e, r) <=> Cardinality(Of(e)) >= r.n
    BY <1>1, RewardsSame DEF B!Reached
  <2>5. r.n \in Int
    BY <1>0, <1>1 DEF B!Numbered
  <2> HIDE DEF Of
  <2>6. Cardinality(Of(f)) >= r.n
    BY <2>4
  <2>7. Cardinality(Of(g)) >= r.n
    BY <2>3, <2>5, <2>6
  <2> QED BY <2>4, <2>7
<1>2. CASE r.type = "qualified_in_category"
  <2> DEFINE members == {d \in Disciplines : CategoryOf[d] = r.category}
  <2>1. \A e : B!Reached(e, r) <=> members # {} /\ B!PassedIn(e, members) = members
    BY <1>2 DEF B!Reached
  <2>2. B!PassedIn(f, members) \subseteq B!PassedIn(g, members)
    BY PassedGrow
  <2>3. B!PassedIn(g, members) \subseteq members
    BY DEF B!PassedIn
  <2> QED BY <2>1, <2>2, <2>3
<1>3. CASE r.type = "discipline_mastery"
  <2>1. \A e : B!Reached(e, r) <=> \E d \in Disciplines : e.passed[d] >= r.n
    BY <1>3 DEF B!Reached
  <2>2. PICK d \in Disciplines : f.passed[d] >= r.n
    BY <2>1
  <2>3. r.n \in Int /\ f.passed[d] \in Int /\ g.passed[d] \in Int /\ f.passed[d] <= g.passed[d]
    BY <1>0, <1>3 DEF B!Numbered, IsFacts, NoLess
  <2>4. g.passed[d] >= r.n
    BY <2>2, <2>3
  <2> QED BY <2>1, <2>4
<1>4. CASE r.type = "titles_in_n_regions"
  <2>1. \A e : B!Reached(e, r) <=> e.titles >= r.n
    BY <1>4 DEF B!Reached
  <2>2. r.n \in Int /\ f.titles \in Int /\ g.titles \in Int /\ f.titles <= g.titles
    BY <1>0, <1>4 DEF B!Numbered, IsFacts, NoLess
  <2>3. f.titles >= r.n
    BY <2>1
  <2>4. g.titles >= r.n
    BY <2>2, <2>3
  <2> QED BY <2>1, <2>4
<1>5. CASE r.type = "active_on_n_days"
  <2> DEFINE Seen(e) == UNION {B!DaysOn(e, d) : d \in B!Covered(r)}
  <2>1. \A e : B!Reached(e, r) <=> B!Cardinality(Seen(e)) >= r.n
    BY <1>5 DEF B!Reached
  <2>2. Seen(f) \subseteq Seen(g) /\ Seen(g) \in SUBSET Days
    BY DaysGrow
  <2>3. /\ B!Cardinality(Seen(f)) \in Nat /\ B!Cardinality(Seen(g)) \in Nat
        /\ B!Cardinality(Seen(f)) <= B!Cardinality(Seen(g))
    BY <2>2, FewDays, FS_Subset
  <2>4. r.n \in Int
    BY <1>0, <1>5 DEF B!Numbered
  <2> HIDE DEF Seen
  <2>5. B!Cardinality(Seen(f)) >= r.n
    BY <2>1
  <2>6. B!Cardinality(Seen(g)) >= r.n
    BY <2>3, <2>4, <2>5
  <2> QED BY <2>1, <2>6
<1>6. CASE r.type = "streak_days"
  <2>1. \A e : B!Reached(e, r) <=> \E d \in B!Covered(r) : B!LongestStreak(e, d) >= r.n
    BY <1>6 DEF B!Reached
  <2>2. PICK d \in B!Covered(r) : B!LongestStreak(f, d) >= r.n
    BY <2>1
  <2>3. r.n \in Int
    BY <1>0, <1>6 DEF B!Numbered
  <2>4. /\ B!LongestStreak(f, d) \in Nat /\ B!LongestStreak(g, d) \in Nat
        /\ B!LongestStreak(f, d) <= B!LongestStreak(g, d)
    BY StreakGrows
  <2>5. B!LongestStreak(g, d) >= r.n
    BY <2>2, <2>3, <2>4
  <2> QED BY <2>1, <2>5
<1>7. CASE r.type = "total_at_least"
  <2> DEFINE Seen(e) == B!DaysOn(e, r.discipline)
  <2>1. \A e : B!Reached(e, r) <=> B!Cardinality(Seen(e)) >= r.n
    BY <1>7 DEF B!Reached
  <2>2. Seen(f) \subseteq Seen(g) /\ Seen(g) \in SUBSET Days
    BY DaysGrow
  <2>3. /\ B!Cardinality(Seen(f)) \in Nat /\ B!Cardinality(Seen(g)) \in Nat
        /\ B!Cardinality(Seen(f)) <= B!Cardinality(Seen(g))
    BY <2>2, FewDays, FS_Subset
  <2>4. r.n \in Int
    BY <1>0, <1>7 DEF B!Numbered
  <2> HIDE DEF Seen
  <2>5. B!Cardinality(Seen(f)) >= r.n
    BY <2>1
  <2>6. B!Cardinality(Seen(g)) >= r.n
    BY <2>3, <2>4, <2>5
  <2> QED BY <2>1, <2>6
<1>8. CASE r.type = "collection_complete"
  <2>1. \A e : B!Reached(e, r) <=> B!Complete(e, r.collection)
    BY <1>8 DEF B!Reached
  <2> QED BY <2>1 DEF B!Complete, NoLess
<1> QED BY <1>0, <1>1, <1>2, <1>3, <1>4, <1>5, <1>6, <1>7, <1>8 DEF B!RuleTypes, B!Numbered

(* Rules that are made of others.                                          *)
One(f, t, r) ==
  CASE r.type = "all_of" -> \A q \in r.rules : t[q]
    [] r.type = "any_of" -> \E q \in r.rules : t[q]
    [] OTHER -> B!Reached(f, r)

Judges(f, t) == t = [r \in B!Rules |-> One(f, t, r)]

LEMMA SatisfiesIs ==
  ASSUME NEW f, NEW rule
  PROVE  B!Satisfies(f, rule) = (CHOOSE t : Judges(f, t))[rule]
BY DEF B!Satisfies, Judges, One

LEMMA DepthIs ==
  /\ Depth \in [B!Rules -> 0..B!Cardinality(B!Rules)] /\ B!Cardinality(B!Rules) \in Nat
  /\ \A r \in B!Rules : Depth[r] \in Nat
  /\ \A r \in B!Rules : r.type \in {"all_of", "any_of"} =>
       \A q \in r.rules : q \in B!Rules /\ Depth[q] < Depth[r]
<1>1. Depth \in [B!Rules -> 0..B!Cardinality(B!Rules)] /\ B!Cardinality(B!Rules) \in Nat
  BY RewardsParameters DEF B!Parameters
<1>2. \A r \in B!Rules : r.type \in {"all_of", "any_of"} =>
       \A q \in r.rules : q \in B!Rules /\ Depth[q] < Depth[r]
  BY RewardsParameters DEF B!Parameters
<1>3. \A r \in B!Rules : Depth[r] \in 0..B!Cardinality(B!Rules)
  BY <1>1
<1> QED BY <1>1, <1>2, <1>3

(* Only what a rule is made of matters.                                    *)
LEMMA OneSame ==
  ASSUME NEW f, NEW s, NEW t, NEW r \in B!Rules, \A q \in B!Rules : Depth[q] < Depth[r] => s[q] = t[q]
  PROVE  One(f, s, r) = One(f, t, r)
<1>1. CASE r.type = "all_of"
  <2>1. \A q \in r.rules : s[q] = t[q]
    BY <1>1, DepthIs
  <2>2. (\A q \in r.rules : s[q]) <=> (\A q \in r.rules : t[q])
    BY <2>1
  <2> QED BY <1>1, <2>2 DEF One
<1>2. CASE r.type = "any_of"
  <2>1. \A q \in r.rules : s[q] = t[q]
    BY <1>2, DepthIs
  <2>2. (\E q \in r.rules : s[q]) <=> (\E q \in r.rules : t[q])
    BY <2>1
  <2> QED BY <1>2, <2>2 DEF One
<1>3. CASE r.type \notin {"all_of", "any_of"}
  BY <1>3 DEF One
<1> QED BY <1>1, <1>2, <1>3

(* Right for the rules that nest less than n deep.                         *)
Upwards(f, t, n) == \A r \in B!Rules : Depth[r] < n => t[r] = One(f, t, r)

LEMMA UpwardsGo ==
  ASSUME NEW f, NEW n \in Nat, NEW t, Upwards(f, t, n)
  PROVE  \E s : Upwards(f, s, n + 1) /\ s = [r \in B!Rules |-> s[r]]
<1> DEFINE s == [r \in B!Rules |-> IF Depth[r] < n THEN t[r] ELSE One(f, t, r)]
<1>1. ASSUME NEW r \in B!Rules, Depth[r] < n + 1  PROVE s[r] = One(f, s, r)
  <2>0. Depth[r] \in Nat /\ Depth[r] <= n /\ \A q \in B!Rules : Depth[q] \in Nat
    BY <1>1, DepthIs
  <2>1. \A q \in B!Rules : Depth[q] < Depth[r] => s[q] = t[q]
    BY <2>0
  <2>2. s[r] = One(f, t, r)
    BY <2>0 DEF Upwards
  <2>3. One(f, s, r) = One(f, t, r)
    <3> HIDE DEF s
    <3> QED BY <2>1, OneSame
  <2> QED BY <2>2, <2>3
<1>2. s = [r \in B!Rules |-> s[r]]
  OBVIOUS
<1> HIDE DEF s
<1>3. Upwards(f, s, n + 1)
  BY <1>1 DEF Upwards
<1> QED BY <1>2, <1>3

LEMMA JudgesExist ==
  ASSUME NEW f
  PROVE  \E t : Judges(f, t)
<1> DEFINE Good(n) == \E t : Upwards(f, t, n) /\ t = [r \in B!Rules |-> t[r]]
<1>1. Good(0)
  <2> DEFINE t == [r \in B!Rules |-> 0]
  <2>1. t = [r \in B!Rules |-> t[r]]
    OBVIOUS
  <2>2. Upwards(f, t, 0)
    <3>1. \A r \in B!Rules : ~(Depth[r] < 0)
      BY DepthIs
    <3> QED BY <3>1 DEF Upwards
  <2> QED BY <2>1, <2>2
<1>2. ASSUME NEW n \in Nat, Good(n)  PROVE Good(n + 1)
  BY <1>2, UpwardsGo
<1>3. PICK N : N = {n \in Nat : ~Good(n)}
  OBVIOUS
<1> HIDE DEF Good
<1>4. ASSUME N # {}  PROVE FALSE
  <2>1. PICK n \in N : \A m \in N : n <= m
    BY <1>3, <1>4, Least
  <2>2. n \in Nat /\ n # 0 /\ n - 1 \in Nat /\ n - 1 + 1 = n /\ ~(n <= n - 1)
    BY <1>1, <1>3
  <2>3. Good(n - 1)
    BY <1>3, <2>1, <2>2
  <2>4. Good(n)
    BY <1>2, <2>2, <2>3
  <2> QED BY <1>3, <2>1, <2>4
<1>5. PICK n \in Nat : n = B!Cardinality(B!Rules) + 1
  BY DepthIs
<1>6. Good(n)
  BY <1>3, <1>4
<1>7. PICK t : Upwards(f, t, n) /\ t = [r \in B!Rules |-> t[r]]
  BY <1>6 DEF Good
<1>8. ASSUME NEW r \in B!Rules  PROVE t[r] = One(f, t, r)
  <2>1. Depth[r] \in 0..B!Cardinality(B!Rules)
    BY DepthIs
  <2>2. Depth[r] < n
    BY <1>5, <2>1, DepthIs
  <2> QED BY <1>7, <2>2 DEF Upwards
<1>9. [r \in B!Rules |-> t[r]] = [r \in B!Rules |-> One(f, t, r)]
  BY <1>8
<1> QED BY <1>7, <1>9 DEF Judges

LEMMA SatisfiesOne ==
  ASSUME NEW f, NEW r \in B!Rules
  PROVE  \E t : /\ Judges(f, t) /\ B!Satisfies(f, r) = One(f, t, r)
                /\ \A q \in B!Rules : B!Satisfies(f, q) = t[q]
<1>1. PICK t : t = CHOOSE s : Judges(f, s)
  OBVIOUS
<1>2. Judges(f, t)
  BY <1>1, JudgesExist
<1>3. \A q \in B!Rules : B!Satisfies(f, q) = t[q]
  BY <1>1, SatisfiesIs
<1>4. t[r] = One(f, t, r)
  BY <1>2 DEF Judges
<1> QED BY <1>2, <1>3, <1>4

(* Whoever has more satisfies what was satisfied.                          *)
LEMMA MoreSatisfies ==
  ASSUME NEW f, NEW g, IsFacts(f), IsFacts(g), NoLess(f, g), NEW rule \in B!Rules, B!Satisfies(f, rule)
  PROVE  B!Satisfies(g, rule)
<1> DEFINE Lost(n) == \E r \in B!Rules : Depth[r] = n /\ B!Satisfies(f, r) /\ ~B!Satisfies(g, r)
<1>1. PICK N : N = {n \in Nat : Lost(n)}
  OBVIOUS
<1>2. ASSUME N # {}  PROVE FALSE
  <2>1. PICK n \in N : \A m \in N : n <= m
    BY <1>1, <1>2, Least
  <2>2. PICK r \in B!Rules : Depth[r] = n /\ B!Satisfies(f, r) /\ ~B!Satisfies(g, r)
    BY <1>1, <2>1
  <2>3. ASSUME NEW q \in B!Rules, Depth[q] < Depth[r], B!Satisfies(f, q)  PROVE B!Satisfies(g, q)
    <3>1. Depth[q] \in Nat /\ ~(n <= Depth[q])
      BY <2>2, <2>3, DepthIs
    <3>2. Depth[q] \notin N
      BY <2>1, <3>1
    <3> QED BY <1>1, <2>3, <3>1, <3>2
  <2>4. PICK s : /\ B!Satisfies(f, r) = One(f, s, r)
                 /\ \A q \in B!Rules : B!Satisfies(f, q) = s[q]
    BY SatisfiesOne
  <2>5. PICK t : /\ B!Satisfies(g, r) = One(g, t, r)
                 /\ \A q \in B!Rules : B!Satisfies(g, q) = t[q]
    BY SatisfiesOne
  <2>6. One(f, s, r) /\ ~One(g, t, r)
    BY <2>2, <2>4, <2>5
  <2>7. \A q \in B!Rules : Depth[q] < Depth[r] /\ s[q] => t[q]
    BY <2>3, <2>4, <2>5
  <2>8. CASE r.type \in {"all_of", "any_of"}
    <3>1. \A q \in r.rules : s[q] => t[q]
      BY <2>7, <2>8, DepthIs
    <3>2. CASE r.type = "all_of"
      BY <2>6, <3>1, <3>2 DEF One
    <3>3. CASE r.type = "any_of"
      BY <2>6, <3>1, <3>3 DEF One
    <3> QED BY <2>8, <3>2, <3>3
  <2>9. CASE r.type \notin {"all_of", "any_of"}
    <3>1. B!Reached(f, r) /\ ~B!Reached(g, r)
      BY <2>6, <2>9 DEF One
    <3> QED BY <2>9, <3>1, MoreIsReached
  <2> QED BY <2>8, <2>9
<1>3. Depth[rule] \in Nat
  BY DepthIs
<1> QED BY <1>1, <1>2, <1>3

-----------------------------------------------------------------------------
(* The calls that determine badges.                                        *)
BadgeLocals == [app  : B!Or(B!Apps) \cup {HomeOf[CollectionOf[i]] : i \in Items}, todo : SUBSET Badges,
                badge : B!Or(Badges), run : B!Or(Disciplines \X Days)]

BadgeLabels == {"idle", "exam", "hold", "read", "weigh", "give", "tell"}

BadgeTypes ==
  /\ passed \in [Disciplines -> 0..2] /\ won \in 0..2
  /\ listed \subseteq Items /\ held \subseteq badges /\ badges \subseteq Badges
  /\ told \in [Badges -> Nat]
  /\ at \in [Handlers -> BadgeLabels] /\ local \in [Handlers -> BadgeLocals]
  /\ \A h \in Handlers :
       local[h].todo \subseteq badges /\ (at[h] \in {"give", "tell"} => local[h].badge \in badges)

(* One handler is somewhere else than before, with other badges to see to. *)
Went(h, label, todo, badge) ==
  /\ at' \in [Handlers -> BadgeLabels] /\ local' \in [Handlers -> BadgeLocals]
  /\ at'[h] = label /\ local'[h].todo = todo /\ local'[h].badge = badge
  /\ \A g \in Handlers \ {h} : at'[g] = at[g] /\ local'[g] = local[g]

LEMMA Arrived ==
  ASSUME BadgeTypes, NEW h \in Handlers, NEW label \in BadgeLabels, NEW m \in BadgeLocals,
         B!Goto(h, label, m)
  PROVE  Went(h, label, m.todo, m.badge)
BY Zenon DEF BadgeTypes, Went, B!Goto

LEMMA BlankIs ==
  /\ B!Blank \in BadgeLocals /\ B!Blank.todo = {} /\ B!Blank.badge = Nil
BY DEF B!Blank, BadgeLocals, B!Or

LEMMA Calling ==
  ASSUME BadgeTypes, NEW h \in Handlers,
         NEW label \in BadgeLabels, NEW app \in B!Or(B!Apps) \cup {HomeOf[CollectionOf[i]] : i \in Items},
         B!Start(h, label, app)
  PROVE  at[h] = "idle" /\ Went(h, label, {}, Nil) /\ crossed' = (crossed \/ B!InFlight # {})
<1> DEFINE m == [B!Blank EXCEPT !.app = app]
<1>1. m \in BadgeLocals /\ m.todo = {} /\ m.badge = Nil
  BY BlankIs, Zenon DEF BadgeLocals
<1>2. B!Goto(h, label, m) /\ at[h] = "idle" /\ crossed' = (crossed \/ B!InFlight # {})
  BY DEF B!Start, B!Call
<1> HIDE DEF m
<1> QED BY <1>1, <1>2, Arrived

LEMMA Finishing ==
  ASSUME BadgeTypes, NEW h \in Handlers, B!Finish(h)
  PROVE  Went(h, "idle", {}, Nil)
BY BlankIs, Arrived DEF B!Finish, BadgeLabels

(* What each statement does to the handler and to the badges.              *)
LEMMA OfEnter ==
  ASSUME BadgeTypes, NEW h \in Handlers, B!Enter(h)
  PROVE  at[h] = "idle" /\ Went(h, "exam", {}, Nil) /\ crossed' = (crossed \/ B!InFlight # {})
<1>1. PICK d \in Disciplines, n \in Days : B!Start(h, "exam", AppOf[d])
  BY DEF B!Enter
<1>2. AppOf[d] \in B!Or(B!Apps) /\ "exam" \in BadgeLabels
  BY DEF B!Or, B!Apps, BadgeLabels
<1> QED BY <1>1, <1>2, Calling

LEMMA OfPlay ==
  ASSUME BadgeTypes, NEW h \in Handlers, B!Play(h)
  PROVE  at[h] = "idle" /\ Went(h, "read", {}, Nil) /\ crossed' = (crossed \/ B!InFlight # {})
<1>1. PICK app \in B!Apps : B!Start(h, "read", app)
  BY DEF B!Play
<1>2. app \in B!Or(B!Apps) /\ "read" \in BadgeLabels
  BY DEF B!Or, BadgeLabels
<1> QED BY <1>1, <1>2, Calling

LEMMA OfGrant ==
  ASSUME BadgeTypes, NEW h \in Handlers, B!Grant(h)
  PROVE  at[h] = "idle" /\ Went(h, "read", {}, Nil) /\ crossed' = (crossed \/ B!InFlight # {})
<1>1. PICK i \in listed : B!Start(h, "read", HomeOf[CollectionOf[i]])
  BY DEF B!Grant
<1>2. i \in Items /\ "read" \in BadgeLabels
  BY DEF BadgeTypes, BadgeLabels
<1> QED BY <1>1, <1>2, Calling

LEMMA OfTrace ==
  ASSUME BadgeTypes, NEW h \in Handlers, B!Trace(h)
  PROVE  at[h] = "idle" /\ Went(h, "hold", {}, Nil) /\ crossed' = (crossed \/ B!InFlight # {})
<1>1. PICK d \in Disciplines, n \in Days :
        at[h] = "idle" /\ B!Call /\ B!Goto(h, "hold", [B!Blank EXCEPT !.app = AppOf[d], !.run = <<d, n>>])
  BY DEF B!Trace
<1> DEFINE m == [B!Blank EXCEPT !.app = AppOf[d], !.run = <<d, n>>]
<1>2. AppOf[d] \in B!Or(B!Apps) /\ <<d, n>> \in B!Or(Disciplines \X Days) /\ "hold" \in BadgeLabels
  BY DEF B!Or, B!Apps, BadgeLabels
<1>3. m \in BadgeLocals /\ m.todo = {} /\ m.badge = Nil
  BY <1>2, BlankIs, Zenon DEF BadgeLocals
<1>4. crossed' = (crossed \/ B!InFlight # {})
  BY <1>1 DEF B!Call
<1> HIDE DEF m
<1> QED BY <1>1, <1>2, <1>3, <1>4, Arrived DEF m

LEMMA OfExam ==
  ASSUME BadgeTypes, NEW h \in Handlers, B!Exam(h)
  PROVE  at[h] = "exam" /\ Went(h, "read", local[h].todo, local[h].badge)
<1>1. local[h] \in BadgeLocals
  BY DEF BadgeTypes
<1> QED BY <1>1, Arrived DEF B!Exam, BadgeLabels

LEMMA OfHold ==
  ASSUME BadgeTypes, NEW h \in Handlers, B!Hold(h)
  PROVE  at[h] = "hold" /\ Went(h, "idle", {}, Nil)
BY Finishing DEF B!Hold

LEMMA OfRead ==
  ASSUME BadgeTypes, NEW h \in Handlers, B!Read(h)
  PROVE  /\ at[h] = "read" /\ Went(h, "weigh", B!Candidates(local[h].app) \ held, local[h].badge)
         /\ B!Candidates(local[h].app) \subseteq badges
<1> DEFINE T == B!Candidates(local[h].app) \ held
           m == [local[h] EXCEPT !.todo = T]
<1>1. local[h] \in BadgeLocals /\ B!Candidates(local[h].app) \subseteq badges /\ badges \subseteq Badges
  BY DEF BadgeTypes, B!Candidates
<1>2. m \in BadgeLocals /\ m.todo = T /\ m.badge = local[h].badge
  BY <1>1, Zenon DEF BadgeLocals
<1>3. B!Goto(h, "weigh", m) /\ at[h] = "read"
  BY DEF B!Read
<1> HIDE DEF m
<1>4. Went(h, "weigh", T, local[h].badge)
  BY <1>2, <1>3, Arrived DEF BadgeLabels
<1> QED BY <1>1, <1>3, <1>4

LEMMA OfWeigh ==
  ASSUME BadgeTypes, NEW h \in Handlers, B!Weigh(h)
  PROVE  /\ at[h] = "weigh"
         /\ \/ local[h].todo = {} /\ Went(h, "idle", {}, Nil)
            \/ \E b \in local[h].todo :
                 \/ B!Satisfies(B!Facts(B!Counted), Rule[b]) /\ Went(h, "give", local[h].todo \ {b}, b)
                 \/ ~B!Satisfies(B!Facts(B!Counted), Rule[b]) /\ Went(h, "weigh", local[h].todo \ {b}, b)
<1>0. at[h] = "weigh" /\ local[h] \in BadgeLocals /\ local[h].todo \subseteq Badges
  BY DEF B!Weigh, BadgeTypes
<1>1. CASE local[h].todo = {} /\ B!Finish(h)
  BY <1>0, <1>1, Finishing
<1>2. ASSUME NEW b \in local[h].todo,
             B!Goto(h, IF B!Satisfies(B!Facts(B!Counted), Rule[b]) THEN "give" ELSE "weigh",
                    [local[h] EXCEPT !.todo = @ \ {b}, !.badge = b])
      PROVE  \/ B!Satisfies(B!Facts(B!Counted), Rule[b]) /\ Went(h, "give", local[h].todo \ {b}, b)
             \/ ~B!Satisfies(B!Facts(B!Counted), Rule[b]) /\ Went(h, "weigh", local[h].todo \ {b}, b)
  <2> DEFINE m == [local[h] EXCEPT !.todo = @ \ {b}, !.badge = b]
  <2>1. b \in B!Or(Badges) /\ local[h].todo \ {b} \in SUBSET Badges
    BY <1>0 DEF B!Or
  <2>2. m \in BadgeLocals /\ m.todo = local[h].todo \ {b} /\ m.badge = b
    BY <1>0, <2>1, Zenon DEF BadgeLocals
  <2>3. /\ B!Satisfies(B!Facts(B!Counted), Rule[b]) => B!Goto(h, "give", m)
        /\ ~B!Satisfies(B!Facts(B!Counted), Rule[b]) => B!Goto(h, "weigh", m)
    BY <1>2
  <2> HIDE DEF m
  <2>4. "give" \in BadgeLabels /\ "weigh" \in BadgeLabels
    BY DEF BadgeLabels
  <2> QED BY <2>2, <2>3, <2>4, Arrived
<1>3. \/ local[h].todo = {} /\ B!Finish(h)
      \/ \E b \in local[h].todo :
           B!Goto(h, IF B!Satisfies(B!Facts(B!Counted), Rule[b]) THEN "give" ELSE "weigh",
                  [local[h] EXCEPT !.todo = @ \ {b}, !.badge = b])
  BY DEF B!Weigh
<1> QED BY <1>0, <1>1, <1>2, <1>3

LEMMA OfGive ==
  ASSUME BadgeTypes, NEW h \in Handlers, B!Give(h)
  PROVE  /\ at[h] = "give" /\ Went(h, "tell", local[h].todo, local[h].badge)
         /\ held' = held \cup {local[h].badge}
<1>1. local[h] \in BadgeLocals
  BY DEF BadgeTypes
<1> QED BY <1>1, Arrived DEF B!Give, BadgeLabels

LEMMA OfTell ==
  ASSUME BadgeTypes, NEW h \in Handlers, B!Tell(h)
  PROVE  /\ at[h] = "tell" /\ Went(h, "weigh", local[h].todo, local[h].badge)
         /\ told' = [told EXCEPT ![local[h].badge] = @ + 1]
<1>1. local[h] \in BadgeLocals
  BY DEF BadgeTypes
<1> QED BY <1>1, Arrived DEF B!Tell, BadgeLabels

(* Badges keep their types, and what a handler sees to is there.           *)
Fitted(h) == local[h].todo \subseteq badges /\ (at[h] \in {"give", "tell"} => local[h].badge \in badges)

LEMMA WentTyped ==
  ASSUME BadgeTypes, NEW h \in Handlers, NEW label, NEW todo, NEW badge, Went(h, label, todo, badge),
         badges \subseteq badges', todo \subseteq badges, label \in {"give", "tell"} => badge \in badges
  PROVE  /\ at' \in [Handlers -> BadgeLabels] /\ local' \in [Handlers -> BadgeLocals]
         /\ \A g \in Handlers :
              local'[g].todo \subseteq badges' /\ (at'[g] \in {"give", "tell"} => local'[g].badge \in badges')
<1>1. at' \in [Handlers -> BadgeLabels] /\ local' \in [Handlers -> BadgeLocals]
  BY DEF Went
<1>2. ASSUME NEW g \in Handlers
      PROVE  local'[g].todo \subseteq badges' /\ (at'[g] \in {"give", "tell"} => local'[g].badge \in badges')
  <2>1. CASE g = h
    BY <2>1 DEF Went
  <2>2. CASE g # h
    <3>1. at'[g] = at[g] /\ local'[g] = local[g]
      BY <2>2 DEF Went
    <3> QED BY <3>1 DEF BadgeTypes
  <2> QED BY <2>1, <2>2
<1> QED BY <1>1, <1>2

(* The rest of the rows. *)
BadgeRows ==
  /\ passed \in [Disciplines -> 0..2] /\ won \in 0..2
  /\ listed \subseteq Items /\ held \subseteq badges /\ badges \subseteq Badges
  /\ told \in [Badges -> Nat]

LEMMA BadgeTypesStep ==
  ASSUME BadgeTypes, [B!Next]_rewards  PROVE BadgeTypes'
<1>0. BadgeRows /\ \A h \in Handlers : Fitted(h)
  BY DEF BadgeTypes, BadgeRows, Fitted
<1>1. ASSUME NEW h \in Handlers, NEW label, NEW todo, NEW badge, Went(h, label, todo, badge),
             badges \subseteq badges', todo \subseteq badges, label \in {"give", "tell"} => badge \in badges,
             BadgeRows'
      PROVE  BadgeTypes'
  <2>1. /\ at' \in [Handlers -> BadgeLabels] /\ local' \in [Handlers -> BadgeLocals]
        /\ \A g \in Handlers :
             local'[g].todo \subseteq badges' /\ (at'[g] \in {"give", "tell"} => local'[g].badge \in badges')
    BY <1>1, WentTyped
  <2> QED BY <1>1, <2>1 DEF BadgeTypes, BadgeRows
<1>2. ASSUME NEW h \in Handlers, B!Enter(h)  PROVE BadgeTypes'
  <2>1. BadgeRows' /\ badges \subseteq badges'
    BY <1>0, <1>2 DEF B!Enter, BadgeRows
  <2> QED BY <1>1, <1>2, <2>1, OfEnter
<1>3. ASSUME NEW h \in Handlers, B!Exam(h)  PROVE BadgeTypes'
  <2>1. passed' \in [Disciplines -> 0..2]
    <3>1. CASE passed' = passed
      BY <1>0, <3>1 DEF BadgeRows
    <3>2. ASSUME NEW d \in Disciplines, NEW much \in 1..2, passed' = [passed EXCEPT ![d] = much]
          PROVE  passed' \in [Disciplines -> 0..2]
      <4>1. much \in 0..2
        OBVIOUS
      <4> QED BY <1>0, <3>2, <4>1 DEF BadgeRows
    <3> QED BY <1>3, <3>1, <3>2 DEF B!Exam
  <2>2. BadgeRows' /\ badges \subseteq badges'
    BY <1>0, <1>3, <2>1 DEF B!Exam, BadgeRows
  <2> QED BY <1>0, <1>1, <1>3, <2>2, OfExam DEF Fitted
<1>4. ASSUME NEW h \in Handlers, B!Trace(h)  PROVE BadgeTypes'
  <2>1. BadgeRows' /\ badges \subseteq badges'
    BY <1>0, <1>4 DEF B!Trace, B!facts, BadgeRows
  <2> QED BY <1>1, <1>4, <2>1, OfTrace
<1>5. ASSUME NEW h \in Handlers, B!Hold(h)  PROVE BadgeTypes'
  <2>1. BadgeRows' /\ badges \subseteq badges'
    BY <1>0, <1>5 DEF B!Hold, B!facts, BadgeRows
  <2> QED BY <1>1, <1>5, <2>1, OfHold
<1>6. ASSUME NEW h \in Handlers, B!Play(h)  PROVE BadgeTypes'
  <2>1. BadgeRows' /\ badges \subseteq badges'
    BY <1>0, <1>6 DEF B!Play, B!facts, BadgeRows
  <2> QED BY <1>1, <1>6, <2>1, OfPlay
<1>7. ASSUME NEW h \in Handlers, B!Grant(h)  PROVE BadgeTypes'
  <2>1. BadgeRows' /\ badges \subseteq badges'
    BY <1>0, <1>7 DEF B!Grant, BadgeRows
  <2> QED BY <1>1, <1>7, <2>1, OfGrant
<1>8. ASSUME NEW h \in Handlers, B!Read(h)  PROVE BadgeTypes'
  <2>1. BadgeRows' /\ badges \subseteq badges'
    BY <1>0, <1>8 DEF B!Read, B!facts, BadgeRows
  <2>2. Went(h, "weigh", B!Candidates(local[h].app) \ held, local[h].badge)
    BY <1>8, OfRead
  <2>3. B!Candidates(local[h].app) \ held \subseteq badges
    BY <1>8, OfRead
  <2> QED BY <1>1, <2>1, <2>2, <2>3
<1>9. ASSUME NEW h \in Handlers, B!Weigh(h)  PROVE BadgeTypes'
  <2>1. BadgeRows' /\ badges \subseteq badges'
    BY <1>0, <1>9 DEF B!Weigh, B!facts, BadgeRows
  <2>2. CASE Went(h, "idle", {}, Nil)
    BY <1>1, <2>1, <2>2
  <2>3. ASSUME NEW b \in local[h].todo, NEW label, Went(h, label, local[h].todo \ {b}, b)  PROVE BadgeTypes'
    <3>1. b \in badges /\ local[h].todo \ {b} \subseteq badges
      BY <1>0 DEF Fitted
    <3> QED BY <1>1, <2>1, <2>3, <3>1
  <2> QED BY <1>9, <2>2, <2>3, OfWeigh
<1>10. ASSUME NEW h \in Handlers, B!Give(h)  PROVE BadgeTypes'
  <2>1. local[h].badge \in badges /\ local[h].todo \subseteq badges
    BY <1>0, <1>10, OfGive DEF Fitted
  <2>2. BadgeRows' /\ badges \subseteq badges'
    BY <1>0, <1>10, <2>1, OfGive DEF B!Give, B!facts, BadgeRows
  <2> QED BY <1>1, <1>10, <2>1, <2>2, OfGive
<1>11. ASSUME NEW h \in Handlers, B!Tell(h)  PROVE BadgeTypes'
  <2>1. local[h].badge \in badges /\ local[h].todo \subseteq badges
    BY <1>0, <1>11, OfTell DEF Fitted
  <2>2. told' \in [Badges -> Nat]
    <3>1. told \in [Badges -> Nat] /\ local[h].badge \in Badges /\ told' = [told EXCEPT ![local[h].badge] = @ + 1]
      BY <1>0, <1>11, <2>1, OfTell DEF BadgeRows
    <3> QED BY <3>1
  <2>3. BadgeRows' /\ badges \subseteq badges'
    BY <1>0, <1>11, <2>2 DEF B!Tell, B!facts, BadgeRows
  <2> QED BY <1>1, <1>11, <2>1, <2>3, OfTell
<1>12. CASE B!Elsewhere
  <2>0. passed' = passed /\ held' = held /\ told' = told /\ at' = at /\ local' = local
    BY <1>12 DEF B!Elsewhere
  <2>1. badges \subseteq badges' /\ badges' \subseteq Badges /\ listed' \subseteq Items
    BY <1>0, <1>12 DEF B!Elsewhere, BadgeRows
  <2>2. won' \in 0..2
    <3>1. won' = won \/ (won < 2 /\ won' = won + 1)
      BY <1>12 DEF B!Elsewhere
    <3>2. won \in 0..2
      BY <1>0 DEF BadgeRows
    <3> QED BY <3>1, <3>2
  <2>3. BadgeRows'
    BY <1>0, <2>0, <2>1, <2>2 DEF BadgeRows
  <2>4. ASSUME NEW h \in Handlers
        PROVE  local'[h].todo \subseteq badges' /\ (at'[h] \in {"give", "tell"} => local'[h].badge \in badges')
    BY <2>0, <2>1 DEF BadgeTypes
  <2> QED BY <2>0, <2>3, <2>4 DEF BadgeTypes, BadgeRows
<1>13. CASE UNCHANGED rewards
  BY <1>13 DEF rewards, BadgeTypes
<1> QED BY <1>2, <1>3, <1>4, <1>5, <1>6, <1>7, <1>8, <1>9, <1>10, <1>11, <1>12, <1>13
        DEF B!Next, B!Acting, B!Evaluating

(* Call after call, a badge is told once: while no two calls have been      *)
(* under way at the same time, whoever evaluates is the only one who gives. *)
AloneInv ==
  ~crossed =>
    /\ \A g, h \in Handlers : at[g] # "idle" /\ at[h] # "idle" => g = h
    /\ \A h \in Handlers : at[h] \in {"weigh", "give", "tell"} => local[h].todo \cap held = {}
    /\ \A h \in Handlers : at[h] = "give" => local[h].badge \notin held \cup local[h].todo
    /\ \A h \in Handlers : at[h] = "tell" => local[h].badge \in held

Telling(b) == \E h \in Handlers : at[h] = "tell" /\ local[h].badge = b

ToldInv == ~crossed => \A b \in Badges : told[b] = IF b \in held /\ ~Telling(b) THEN 1 ELSE 0

(* Only the handler that is under way takes a step.                        *)
LEMMA AloneStep ==
  ASSUME BadgeTypes, AloneInv, [B!Next]_rewards  PROVE AloneInv'
<1> SUFFICES ASSUME ~crossed'
             PROVE  /\ \A g, h \in Handlers : at'[g] # "idle" /\ at'[h] # "idle" => g = h
                    /\ \A h \in Handlers : at'[h] \in {"weigh", "give", "tell"} => local'[h].todo \cap held' = {}
                    /\ \A h \in Handlers : at'[h] = "give" => local'[h].badge \notin held' \cup local'[h].todo
                    /\ \A h \in Handlers : at'[h] = "tell" => local'[h].badge \in held'
  BY DEF AloneInv
<1> DEFINE Goal == /\ \A g, h \in Handlers : at'[g] # "idle" /\ at'[h] # "idle" => g = h
                   /\ \A h \in Handlers : at'[h] \in {"weigh", "give", "tell"} => local'[h].todo \cap held' = {}
                   /\ \A h \in Handlers : at'[h] = "give" => local'[h].badge \notin held' \cup local'[h].todo
                   /\ \A h \in Handlers : at'[h] = "tell" => local'[h].badge \in held'
<1>1. ASSUME NEW h \in Handlers, NEW label, NEW todo, NEW badge, Went(h, label, todo, badge),
             \A g \in Handlers \ {h} : at[g] = "idle",
             label \in {"weigh", "give", "tell"} => todo \cap held' = {},
             label = "give" => badge \notin held' \cup todo,
             label = "tell" => badge \in held'
      PROVE  Goal
  <2>1. \A g \in Handlers : g = h \/ at'[g] = "idle"
    BY <1>1 DEF Went
  <2>2. at'[h] = label /\ local'[h].todo = todo /\ local'[h].badge = badge
    BY <1>1 DEF Went
  <2> QED BY <1>1, <2>1, <2>2
<1>2. ASSUME NEW h \in Handlers, at[h] = "idle", crossed' = (crossed \/ B!InFlight # {}),
             NEW label \in {"exam", "read", "hold"}, Went(h, label, {}, Nil)
      PROVE  Goal
  <2>1. B!InFlight = {}
    BY <1>2
  <2>2. \A g \in Handlers : at[g] = "idle"
    BY <2>1 DEF B!InFlight
  <2> QED BY <1>1, <1>2, <2>2
<1>3. ASSUME NEW h \in Handlers, at[h] # "idle", crossed' = crossed
      PROVE  /\ \A g \in Handlers \ {h} : at[g] = "idle"
             /\ at[h] \in {"weigh", "give", "tell"} => local[h].todo \cap held = {}
             /\ at[h] = "give" => local[h].badge \notin held \cup local[h].todo
             /\ at[h] = "tell" => local[h].badge \in held
  BY <1>3 DEF AloneInv
<1>4. ASSUME NEW h \in Handlers, B!Enter(h) \/ B!Trace(h) \/ B!Play(h) \/ B!Grant(h)  PROVE Goal
  BY <1>2, <1>4, OfEnter, OfTrace, OfPlay, OfGrant
<1>5. ASSUME NEW h \in Handlers, B!Exam(h)  PROVE Goal
  <2>1. at[h] # "idle" /\ crossed' = crossed /\ Went(h, "read", local[h].todo, local[h].badge)
    BY <1>5, OfExam DEF B!Exam
  <2> QED BY <1>1, <1>3, <2>1
<1>6. ASSUME NEW h \in Handlers, B!Hold(h)  PROVE Goal
  <2>1. at[h] # "idle" /\ crossed' = crossed /\ Went(h, "idle", {}, Nil)
    BY <1>6, OfHold DEF B!Hold
  <2> QED BY <1>1, <1>3, <2>1
<1>7. ASSUME NEW h \in Handlers, B!Read(h)  PROVE Goal
  <2>1. /\ at[h] # "idle" /\ crossed' = crossed /\ held' = held
        /\ Went(h, "weigh", B!Candidates(local[h].app) \ held, local[h].badge)
    BY <1>7, OfRead DEF B!Read
  <2> QED BY <1>1, <1>3, <2>1
<1>8. ASSUME NEW h \in Handlers, B!Weigh(h)  PROVE Goal
  <2>1. at[h] = "weigh" /\ crossed' = crossed /\ held' = held
    BY <1>8 DEF B!Weigh
  <2>2. (\A g \in Handlers \ {h} : at[g] = "idle") /\ local[h].todo \cap held = {}
    BY <1>3, <2>1
  <2>3. CASE Went(h, "idle", {}, Nil)
    BY <1>1, <2>2, <2>3
  <2>4. ASSUME NEW b \in local[h].todo, NEW label \in {"give", "weigh"}, Went(h, label, local[h].todo \ {b}, b)
        PROVE  Goal
    <3>1. b \notin held' \cup (local[h].todo \ {b}) /\ (local[h].todo \ {b}) \cap held' = {}
      BY <2>1, <2>2
    <3> QED BY <1>1, <2>2, <2>4, <3>1
  <2> QED BY <1>8, <2>3, <2>4, OfWeigh
<1>9. ASSUME NEW h \in Handlers, B!Give(h)  PROVE Goal
  <2>1. /\ at[h] = "give" /\ crossed' = crossed /\ held' = held \cup {local[h].badge}
        /\ Went(h, "tell", local[h].todo, local[h].badge)
    BY <1>9, OfGive DEF B!Give
  <2>2. /\ \A g \in Handlers \ {h} : at[g] = "idle"
        /\ local[h].todo \cap held = {} /\ local[h].badge \notin held \cup local[h].todo
    BY <1>3, <2>1
  <2>3. local[h].todo \cap held' = {} /\ local[h].badge \in held'
    BY <2>1, <2>2
  <2> QED BY <1>1, <2>1, <2>2, <2>3
<1>10. ASSUME NEW h \in Handlers, B!Tell(h)  PROVE Goal
  <2>1. /\ at[h] = "tell" /\ crossed' = crossed /\ held' = held
        /\ Went(h, "weigh", local[h].todo, local[h].badge)
    BY <1>10, OfTell DEF B!Tell
  <2> QED BY <1>1, <1>3, <2>1
<1>11. CASE B!Elsewhere
  <2>1. at' = at /\ local' = local /\ held' = held /\ crossed' = (crossed \/ B!InFlight # {})
    BY <1>11 DEF B!Elsewhere, B!Call
  <2> QED BY <2>1 DEF AloneInv
<1>12. CASE UNCHANGED rewards
  BY <1>12 DEF rewards, AloneInv
<1> QED BY <1>4, <1>5, <1>6, <1>7, <1>8, <1>9, <1>10, <1>11, <1>12 DEF B!Next, B!Acting, B!Evaluating

LEMMA ToldStep ==
  ASSUME BadgeTypes, AloneInv, ToldInv, [B!Next]_rewards  PROVE ToldInv'
<1> SUFFICES ASSUME ~crossed', NEW b \in Badges
             PROVE  told'[b] = IF b \in held' /\ ~Telling(b)' THEN 1 ELSE 0
  BY DEF ToldInv
<1>0. ~crossed => told[b] = IF b \in held /\ ~Telling(b) THEN 1 ELSE 0
  BY DEF ToldInv
<1>1. ASSUME NEW h \in Handlers, NEW label, NEW todo, NEW badge, Went(h, label, todo, badge),
             at[h] # "tell", label # "tell"
      PROVE  Telling(b)' <=> Telling(b)
  <2>1. \A g \in Handlers : (at'[g] = "tell" <=> at[g] = "tell") /\ (at[g] = "tell" => local'[g] = local[g])
    BY <1>1 DEF Went
  <2> QED BY <2>1 DEF Telling
<1>2. ASSUME NEW h \in Handlers, NEW label, NEW todo, NEW badge, Went(h, label, todo, badge),
             at[h] # "tell", label # "tell", told' = told, held' = held, ~crossed' => ~crossed
      PROVE  told'[b] = IF b \in held' /\ ~Telling(b)' THEN 1 ELSE 0
  BY <1>0, <1>1, <1>2
<1>3. ASSUME NEW h \in Handlers, B!Enter(h) \/ B!Trace(h) \/ B!Play(h) \/ B!Grant(h)
      PROVE  told'[b] = IF b \in held' /\ ~Telling(b)' THEN 1 ELSE 0
  <2>1. told' = told /\ held' = held
    BY <1>3 DEF B!Enter, B!Trace, B!Play, B!Grant
  <2>2. \E label \in {"exam", "read", "hold"} : Went(h, label, {}, Nil)
    BY <1>3, OfEnter, OfTrace, OfPlay, OfGrant
  <2>3. at[h] = "idle" /\ (~crossed' => ~crossed)
    BY <1>3, OfEnter, OfTrace, OfPlay, OfGrant
  <2> QED BY <1>2, <2>1, <2>2, <2>3
<1>4. ASSUME NEW h \in Handlers, B!Exam(h) \/ B!Hold(h) \/ B!Read(h) \/ B!Weigh(h)
      PROVE  told'[b] = IF b \in held' /\ ~Telling(b)' THEN 1 ELSE 0
  <2>1. told' = told /\ held' = held /\ crossed' = crossed
    BY <1>4 DEF B!Exam, B!Hold, B!Read, B!Weigh
  <2>2. \E label \in {"read", "idle", "weigh", "give"} : \E todo, badge : Went(h, label, todo, badge)
    BY <1>4, OfExam, OfHold, OfRead, OfWeigh
  <2>3. at[h] # "tell"
    BY <1>4 DEF B!Exam, B!Hold, B!Read, B!Weigh
  <2> QED BY <1>2, <2>1, <2>2, <2>3
<1>5. ASSUME NEW h \in Handlers, B!Give(h)
      PROVE  told'[b] = IF b \in held' /\ ~Telling(b)' THEN 1 ELSE 0
  <2>1. /\ at[h] = "give" /\ crossed' = crossed /\ held' = held \cup {local[h].badge} /\ told' = told
        /\ Went(h, "tell", local[h].todo, local[h].badge)
    BY <1>5, OfGive DEF B!Give
  <2>2. (\A g \in Handlers \ {h} : at[g] = "idle") /\ local[h].badge \notin held
    BY <2>1 DEF AloneInv
  <2>3. Telling(b)' <=> b = local[h].badge
    BY <2>1, <2>2 DEF Telling, Went
  <2>4. ~Telling(b)
    BY <2>1, <2>2 DEF Telling
  <2> QED BY <1>0, <2>1, <2>2, <2>3, <2>4
<1>6. ASSUME NEW h \in Handlers, B!Tell(h)
      PROVE  told'[b] = IF b \in held' /\ ~Telling(b)' THEN 1 ELSE 0
  <2>1. /\ at[h] = "tell" /\ crossed' = crossed /\ held' = held /\ told' = [told EXCEPT ![local[h].badge] = @ + 1]
        /\ Went(h, "weigh", local[h].todo, local[h].badge)
    BY <1>6, OfTell DEF B!Tell
  <2>2. (\A g \in Handlers \ {h} : at[g] = "idle") /\ local[h].badge \in held
    BY <2>1 DEF AloneInv
  <2>3. ~Telling(b)'
    BY <2>1, <2>2 DEF Telling, Went
  <2>4. Telling(b) <=> b = local[h].badge
    BY <2>1, <2>2 DEF Telling
  <2>5. told \in [Badges -> Nat]
    BY DEF BadgeTypes
  <2>6. CASE b = local[h].badge
    <3>1. told[b] = 0
      BY <1>0, <2>1, <2>4, <2>6
    <3>2. told'[b] = told[b] + 1
      BY <2>1, <2>5, <2>6
    <3> QED BY <2>1, <2>2, <2>3, <2>6, <3>1, <3>2
  <2>7. CASE b # local[h].badge
    <3>1. told'[b] = told[b]
      BY <2>1, <2>5, <2>7
    <3> QED BY <1>0, <2>1, <2>3, <2>4, <2>7, <3>1
  <2> QED BY <2>6, <2>7
<1>7. CASE B!Elsewhere \/ UNCHANGED rewards
  <2>1. at' = at /\ local' = local /\ held' = held /\ told' = told /\ (~crossed' => ~crossed)
    <3>1. CASE B!Elsewhere
      BY <3>1 DEF B!Elsewhere, B!Call
    <3>2. CASE UNCHANGED rewards
      BY <3>2 DEF rewards
    <3> QED BY <1>7, <3>1, <3>2
  <2>2. Telling(b)' <=> Telling(b)
    BY <2>1 DEF Telling
  <2> QED BY <1>0, <2>1, <2>2
<1> QED BY <1>3, <1>4, <1>5, <1>6, <1>7 DEF B!Next, B!Acting, B!Evaluating

(* What a player has only grows, unless something is undone.               *)
LEMMA FactsGrow ==
  ASSUME BadgeTypes, [B!Next]_rewards, ~undone'
  PROVE  /\ ~undone /\ (crossed => crossed')
         /\ counted \subseteq counted' /\ (crossed => B!Counted \subseteq B!Counted')
         /\ listed' = listed /\ owned \subseteq owned'
         /\ won <= won' /\ \A d \in Disciplines : passed[d] <= passed'[d]
<1> DEFINE Holder(g) == at[g] = "hold" => at'[g] = "hold" /\ local'[g] = local[g]
           Rest == /\ ~undone /\ (crossed => crossed')
                   /\ counted \subseteq counted' /\ (crossed => \A g \in Handlers : Holder(g))
                   /\ listed' = listed /\ owned \subseteq owned'
           Same == won' = won /\ passed' = passed
           More == won <= won' /\ \A d \in Disciplines : passed[d] <= passed'[d]
<1>0. won \in Int /\ passed \in [Disciplines -> 0..2] /\ \A d \in Disciplines : passed[d] \in Int
  BY DEF BadgeTypes
<1>1. Same => More
  BY <1>0
<1>2. ASSUME NEW h \in Handlers, NEW label, NEW todo, NEW badge, Went(h, label, todo, badge), at[h] # "hold"
      PROVE  \A g \in Handlers : Holder(g)
  BY <1>2 DEF Went
<1>3. ASSUME NEW h \in Handlers, B!Enter(h) \/ B!Trace(h) \/ B!Play(h) \/ B!Grant(h)  PROVE Rest /\ Same
  <2>1. at[h] # "hold" /\ (crossed => crossed') /\ \E label \in {"exam", "read", "hold"} : Went(h, label, {}, Nil)
    BY <1>3, OfEnter, OfTrace, OfPlay, OfGrant
  <2>2. ~undone /\ counted \subseteq counted' /\ listed' = listed /\ owned \subseteq owned' /\ Same
    <3>1. CASE B!Enter(h)
      BY <3>1 DEF B!Enter
    <3>2. CASE B!Trace(h)
      BY <3>2 DEF B!Trace, B!facts
    <3>3. CASE B!Play(h)
      BY <3>3 DEF B!Play, B!facts
    <3>4. CASE B!Grant(h)
      BY <3>4 DEF B!Grant
    <3> QED BY <1>3, <3>1, <3>2, <3>3, <3>4
  <2>3. \A g \in Handlers : Holder(g)
    BY <1>2, <2>1
  <2> QED BY <2>1, <2>2, <2>3
<1>4. ASSUME NEW h \in Handlers, B!Exam(h)  PROVE Rest /\ More
  <2>1. at[h] # "hold" /\ Went(h, "read", local[h].todo, local[h].badge)
    BY <1>4, OfExam
  <2>2. ~undone /\ crossed' = crossed /\ counted' = counted /\ listed' = listed /\ owned' = owned /\ won' = won
    BY <1>4 DEF B!Exam
  <2>3. \A d \in Disciplines : passed[d] <= passed'[d]
    <3>1. CASE passed' = passed
      BY <1>1, <2>2, <3>1
    <3>2. ASSUME NEW d \in Disciplines, NEW much \in 1..2, passed[d] = 0, passed' = [passed EXCEPT ![d] = much]
          PROVE  \A e \in Disciplines : passed[e] <= passed'[e]
      <4>1. passed'[d] = much /\ \A e \in Disciplines \ {d} : passed'[e] = passed[e]
        BY <1>0, <3>2
      <4> QED BY <1>0, <3>2, <4>1
    <3> QED BY <1>4, <3>1, <3>2 DEF B!Exam
  <2>4. \A g \in Handlers : Holder(g)
    BY <1>2, <2>1
  <2>5. won <= won'
    BY <1>0, <2>2
  <2> QED BY <2>2, <2>3, <2>4, <2>5
<1>5. ASSUME NEW h \in Handlers, B!Hold(h)  PROVE Rest /\ Same
  <2>1. undone' = (undone \/ crossed) /\ crossed' = crossed /\ UNCHANGED B!facts
    BY <1>5 DEF B!Hold
  <2> QED BY <2>1 DEF B!facts
<1>6. ASSUME NEW h \in Handlers, B!Read(h) \/ B!Weigh(h) \/ B!Give(h) \/ B!Tell(h)  PROVE Rest /\ Same
  <2>1. at[h] # "hold" /\ crossed' = crossed /\ undone' = undone /\ UNCHANGED B!facts
    BY <1>6 DEF B!Read, B!Weigh, B!Give, B!Tell
  <2>2. \E label, todo, badge : Went(h, label, todo, badge)
    BY <1>6, OfRead, OfWeigh, OfGive, OfTell
  <2>3. \A g \in Handlers : Holder(g)
    BY <1>2, <2>1, <2>2
  <2> QED BY <2>1, <2>3 DEF B!facts
<1>7. ASSUME B!Elsewhere  PROVE Rest /\ More
  <2>1. at' = at /\ local' = local /\ (crossed => crossed') /\ owned' = owned /\ passed' = passed
    BY <1>7 DEF B!Elsewhere, B!Call
  <2>2. ~undone /\ listed' = listed /\ counted \subseteq counted'
    BY <1>7 DEF B!Elsewhere
  <2>3. won' = won \/ (won < 2 /\ won' = won + 1)
    BY <1>7 DEF B!Elsewhere
  <2>4. More
    BY <1>0, <2>1, <2>3
  <2>5. Rest
    BY <2>1, <2>2
  <2> HIDE DEF Rest, More
  <2> QED BY <2>4, <2>5
<1>8. ASSUME UNCHANGED rewards  PROVE Rest /\ Same
  <2>1. Rest
    BY <1>8 DEF rewards
  <2>2. Same
    BY <1>8 DEF rewards
  <2> HIDE DEF Rest, Same
  <2> QED BY <2>1, <2>2
<1>9. Rest /\ More
  <2> HIDE DEF Rest, More, Same
  <2> QED BY <1>1, <1>3, <1>4, <1>5, <1>6, <1>7, <1>8 DEF B!Next, B!Acting, B!Evaluating
<1>10. ASSUME \A g \in Handlers : Holder(g), counted \subseteq counted'  PROVE B!Counted \subseteq B!Counted'
  BY <1>10 DEF B!Counted
<1> QED BY <1>9, <1>10

(* Whoever holds a badge, or is about to, has what it is for.              *)
Judged == IF crossed THEN B!Facts(B!Counted) ELSE B!Facts(counted)

Granted(b) == b \in held \/ \E h \in Handlers : at[h] = "give" /\ local[h].badge = b

EarnedInv == ~undone => \A b \in Badges : Granted(b) => B!Satisfies(Judged, Rule[b])

LEMMA RuleIs ==
  ASSUME NEW b \in Badges  PROVE Rule[b] \in B!Rules
BY RewardsParameters DEF B!Parameters

LEMMA BadgeFacts ==
  ASSUME BadgeTypes, NEW ledger  PROVE IsFacts(B!Facts(ledger))
BY DEF BadgeTypes, IsFacts, B!Facts

(* By whom a badge can come to be granted.                                 *)
LEMMA GrantedBy ==
  ASSUME BadgeTypes, [B!Next]_rewards, NEW b \in Badges, Granted(b)', ~Granted(b)
  PROVE  /\ B!Satisfies(B!Facts(B!Counted), Rule[b]) /\ UNCHANGED B!facts
         /\ \E h \in Handlers : B!Weigh(h)
<1>1. ASSUME NEW h \in Handlers, NEW label, NEW todo, NEW badge, Went(h, label, todo, badge), held' = held,
             label # "give"
      PROVE  FALSE
  BY <1>1 DEF Went, Granted
<1>2. ASSUME NEW h \in Handlers, B!Enter(h) \/ B!Trace(h) \/ B!Play(h) \/ B!Grant(h)  PROVE FALSE
  <2>1. held' = held
    BY <1>2 DEF B!Enter, B!Trace, B!Play, B!Grant
  <2>2. \E label \in {"exam", "read", "hold"} : Went(h, label, {}, Nil)
    BY <1>2, OfEnter, OfTrace, OfPlay, OfGrant
  <2> QED BY <1>1, <2>1, <2>2
<1>3. ASSUME NEW h \in Handlers, B!Exam(h) \/ B!Hold(h) \/ B!Read(h) \/ B!Tell(h)  PROVE FALSE
  <2>1. held' = held
    BY <1>3 DEF B!Exam, B!Hold, B!Read, B!Tell
  <2>2. \E label \in {"read", "idle", "weigh"} : \E todo, badge : Went(h, label, todo, badge)
    BY <1>3, OfExam, OfHold, OfRead, OfTell
  <2> QED BY <1>1, <2>1, <2>2
<1>4. ASSUME NEW h \in Handlers, B!Give(h)  PROVE FALSE
  <2>1. at[h] = "give" /\ Went(h, "tell", local[h].todo, local[h].badge) /\ held' = held \cup {local[h].badge}
    BY <1>4, OfGive
  <2> QED BY <2>1 DEF Went, Granted
<1>5. ASSUME NEW h \in Handlers, B!Weigh(h)
      PROVE  B!Satisfies(B!Facts(B!Counted), Rule[b]) /\ UNCHANGED B!facts
  <2>1. held' = held /\ UNCHANGED B!facts
    BY <1>5 DEF B!Weigh
  <2>2. PICK c : B!Satisfies(B!Facts(B!Counted), Rule[c]) /\ Went(h, "give", local[h].todo \ {c}, c)
    BY <1>1, <1>5, <2>1, OfWeigh
  <2>3. b = c
    BY <2>1, <2>2 DEF Went, Granted
  <2> QED BY <2>1, <2>2, <2>3
<1>6. CASE B!Elsewhere
  BY <1>6 DEF B!Elsewhere, Granted
<1>7. CASE UNCHANGED rewards
  BY <1>7 DEF rewards, Granted
<1> QED BY <1>2, <1>3, <1>4, <1>5, <1>6, <1>7 DEF B!Next, B!Acting, B!Evaluating

LEMMA EarnedStep ==
  ASSUME BadgeTypes, BadgeTypes', AloneInv, EarnedInv, [B!Next]_rewards  PROVE EarnedInv'
<1> SUFFICES ASSUME ~undone', NEW b \in Badges, Granted(b)'  PROVE B!Satisfies(Judged, Rule[b])'
  BY DEF EarnedInv
<1>1. /\ ~undone /\ (crossed => crossed')
      /\ counted \subseteq counted' /\ (crossed => B!Counted \subseteq B!Counted')
      /\ listed' = listed /\ owned \subseteq owned'
      /\ won <= won' /\ \A d \in Disciplines : passed[d] <= passed'[d]
  BY FactsGrow
<1>2. PICK f : f = Judged
  OBVIOUS
<1>3. PICK g : g = Judged'
  OBVIOUS
<1>4. IsFacts(f) /\ IsFacts(g)
  <2>1. IsFacts(f)
    BY <1>2, BadgeFacts DEF Judged
  <2>2. IsFacts(g)
    BY <1>3, BadgeTypes' DEF BadgeTypes, IsFacts, Judged, B!Facts
  <2> QED BY <2>1, <2>2
<1>5. ASSUME NEW F, NEW G, F \subseteq G, f = B!Facts(F), g = B!Facts(G)'  PROVE NoLess(f, g)
  BY <1>1, <1>5 DEF NoLess, B!Facts
<1>6. NoLess(f, g)
  <2>1. PICK F : F = IF crossed THEN B!Counted ELSE counted
    OBVIOUS
  <2>2. PICK G : G = (IF crossed THEN B!Counted ELSE counted)'
    OBVIOUS
  <2>3. counted' \subseteq B!Counted'
    BY DEF B!Counted
  <2>4. F \subseteq G
    BY <1>1, <2>1, <2>2, <2>3
  <2>5. f.runs = F /\ g.runs = G
    BY <1>2, <1>3, <2>1, <2>2 DEF Judged, B!Facts
  <2>6. /\ f.passed = passed /\ f.titles = won /\ f.listed = listed /\ f.owned = owned
        /\ g.passed = passed' /\ g.titles = won' /\ g.listed = listed' /\ g.owned = owned'
    BY <1>2, <1>3 DEF Judged, B!Facts
  <2> QED BY <1>1, <2>4, <2>5, <2>6 DEF NoLess
<1>7. B!Satisfies(f, Rule[b])
  <2>1. CASE Granted(b)
    BY <1>1, <1>2, <2>1 DEF EarnedInv
  <2>2. CASE ~Granted(b)
    <3>1. PICK h \in Handlers : B!Weigh(h)
      BY <2>2, GrantedBy
    <3>2. B!Satisfies(B!Facts(B!Counted), Rule[b])
      BY <2>2, GrantedBy
    <3>3. ASSUME ~crossed  PROVE B!Counted = counted
      <4>1. at[h] = "weigh"
        BY <3>1 DEF B!Weigh
      <4>2. \A x \in Handlers : at[x] # "hold"
        BY <3>3, <4>1 DEF AloneInv
      <4> QED BY <4>2 DEF B!Counted
    <3>4. f = B!Facts(B!Counted)
      BY <1>2, <3>3 DEF Judged
    <3> QED BY <3>2, <3>4
  <2> QED BY <2>1, <2>2
<1>8. B!Satisfies(g, Rule[b])
  BY <1>4, <1>6, <1>7, RuleIs, MoreSatisfies
<1> QED BY <1>3, <1>8

(* Whatever a call has looked at since the last change, and is due, is held *)
(* or still in somebody's hands.                                           *)
InHand(b) ==
  \E h \in Handlers : \/ at[h] \in {"weigh", "give", "tell"} /\ b \in local[h].todo
                      \/ at[h] = "give" /\ local[h].badge = b

DueInv ==
  \A b \in badges \ behind : B!Satisfies(B!Facts(counted), Rule[b]) => b \in held \/ InHand(b)

LEMMA DueStep ==
  ASSUME BadgeTypes, DueInv, [B!Next]_rewards  PROVE DueInv'
<1> SUFFICES ASSUME NEW b \in badges', b \notin behind', B!Satisfies(B!Facts(counted), Rule[b])'
             PROVE  b \in held' \/ InHand(b)'
  BY DEF DueInv
<1>1. ASSUME UNCHANGED B!facts  PROVE b \in badges /\ B!Satisfies(B!Facts(counted), Rule[b])
  <2>1. b \in badges
    BY <1>1 DEF B!facts
  <2>2. PICK f : f = B!Facts(counted)
    OBVIOUS
  <2>3. f = B!Facts(counted)'
    BY <1>1, <2>2 DEF B!facts, B!Facts
  <2>4. B!Satisfies(f, Rule[b])
    BY <2>3
  <2> QED BY <2>1, <2>2, <2>4
<1>2. ASSUME UNCHANGED B!facts, b \notin behind  PROVE b \in held \/ InHand(b)
  BY <1>1, <1>2 DEF DueInv
<1>3. ASSUME NEW h \in Handlers, NEW label, NEW todo, NEW badge, Went(h, label, todo, badge),
             at[h] \notin {"weigh", "give", "tell"}, InHand(b)
      PROVE  InHand(b)'
  BY <1>3 DEF Went, InHand
<1>4. ASSUME NEW h \in Handlers, B!Enter(h) \/ B!Exam(h) \/ B!Grant(h)  PROVE FALSE
  BY <1>4 DEF B!Enter, B!Exam, B!Grant
<1>5. ASSUME NEW h \in Handlers, B!Trace(h) \/ B!Play(h) \/ B!Hold(h)  PROVE b \in held' \/ InHand(b)'
  <2>1. held' = held /\ behind' = behind /\ UNCHANGED B!facts /\ at[h] \notin {"weigh", "give", "tell"}
    <3>1. CASE B!Trace(h)
      BY <3>1 DEF B!Trace
    <3>2. CASE B!Play(h)
      BY <3>2 DEF B!Play, B!Start
    <3>3. CASE B!Hold(h)
      BY <3>3 DEF B!Hold
    <3> QED BY <1>5, <3>1, <3>2, <3>3
  <2>2. \E label : Went(h, label, {}, Nil)
    BY <1>5, OfTrace, OfPlay, OfHold
  <2> QED BY <1>2, <1>3, <2>1, <2>2
<1>6. ASSUME NEW h \in Handlers, B!Read(h)  PROVE b \in held' \/ InHand(b)'
  <2>1. /\ held' = held /\ UNCHANGED B!facts /\ behind' = behind \ B!Candidates(local[h].app)
        /\ at[h] = "read" /\ Went(h, "weigh", B!Candidates(local[h].app) \ held, local[h].badge)
    BY <1>6, OfRead DEF B!Read
  <2>2. CASE b \in B!Candidates(local[h].app)
    BY <2>1, <2>2 DEF Went, InHand
  <2>3. CASE b \notin B!Candidates(local[h].app)
    <3>1. b \notin behind
      BY <2>1, <2>3
    <3> QED BY <1>2, <1>3, <2>1, <3>1
  <2> QED BY <2>2, <2>3
<1>7. ASSUME NEW h \in Handlers, B!Weigh(h)  PROVE b \in held' \/ InHand(b)'
  <2>1. at[h] = "weigh" /\ held' = held /\ behind' = behind /\ UNCHANGED B!facts
    BY <1>7 DEF B!Weigh
  <2>2. b \in held \/ InHand(b)
    BY <1>2, <2>1
  <2>3. B!Satisfies(B!Facts(B!Counted), Rule[b])
    <3>1. B!Satisfies(B!Facts(counted), Rule[b]) /\ b \in Badges
      BY <1>1, <2>1 DEF BadgeTypes
    <3>2. counted \subseteq B!Counted
      BY DEF B!Counted
    <3>3. PICK f, g : f = B!Facts(counted) /\ g = B!Facts(B!Counted)
      OBVIOUS
    <3>4. IsFacts(f) /\ IsFacts(g)
      BY <3>3, BadgeFacts
    <3>5. NoLess(f, g)
      <4>1. /\ f.passed = g.passed /\ f.titles = g.titles /\ f.listed = g.listed /\ f.owned = g.owned
            /\ f.runs \subseteq g.runs
        BY <3>2, <3>3 DEF B!Facts
      <4>2. f.titles \in Int /\ \A d \in Disciplines : f.passed[d] \in Int
        BY <3>4 DEF IsFacts
      <4> QED BY <4>1, <4>2 DEF NoLess
    <3> QED BY <3>1, <3>3, <3>4, <3>5, RuleIs, MoreSatisfies
  <2>4. CASE local[h].todo = {} /\ Went(h, "idle", {}, Nil)
    BY <2>1, <2>2, <2>4 DEF Went, InHand
  <2>5. ASSUME NEW c \in local[h].todo, NEW label \in {"give", "weigh"}, Went(h, label, local[h].todo \ {c}, c),
               c = b => label = "give"
        PROVE  b \in held' \/ InHand(b)'
    BY <2>1, <2>2, <2>5 DEF Went, InHand
  <2> QED BY <1>7, <2>3, <2>4, <2>5, OfWeigh
<1>8. ASSUME NEW h \in Handlers, B!Give(h)  PROVE b \in held' \/ InHand(b)'
  <2>1. /\ held' = held \cup {local[h].badge} /\ behind' = behind /\ UNCHANGED B!facts
        /\ at[h] = "give" /\ Went(h, "tell", local[h].todo, local[h].badge)
    BY <1>8, OfGive DEF B!Give
  <2>2. b \in held \/ InHand(b)
    BY <1>2, <2>1
  <2> QED BY <2>1, <2>2 DEF Went, InHand
<1>9. ASSUME NEW h \in Handlers, B!Tell(h)  PROVE b \in held' \/ InHand(b)'
  <2>1. /\ held' = held /\ behind' = behind /\ UNCHANGED B!facts
        /\ at[h] = "tell" /\ Went(h, "weigh", local[h].todo, local[h].badge)
    BY <1>9, OfTell DEF B!Tell
  <2>2. b \in held \/ InHand(b)
    BY <1>2, <2>1
  <2> QED BY <2>1, <2>2 DEF Went, InHand
<1>10. CASE B!Elsewhere
  BY <1>10 DEF B!Elsewhere
<1>11. CASE UNCHANGED rewards
  <2>1. UNCHANGED B!facts /\ behind' = behind /\ held' = held /\ at' = at /\ local' = local
    BY <1>11 DEF rewards, B!facts
  <2> QED BY <1>2, <2>1 DEF InHand
<1> QED BY <1>4, <1>5, <1>6, <1>7, <1>8, <1>9, <1>10, <1>11 DEF B!Next, B!Acting, B!Evaluating

BadgeInv == BadgeTypes /\ AloneInv /\ ToldInv /\ EarnedInv /\ DueInv

LEMMA BadgeInvInit ==
  ASSUME B!Init  PROVE BadgeInv
<1>1. /\ at = [h \in Handlers |-> "idle"] /\ local = [h \in Handlers |-> B!Blank]
      /\ passed = [d \in Disciplines |-> 0] /\ won = 0 /\ listed \in SUBSET Items
      /\ badges \in {Badges, {}} /\ held = {} /\ told = [b \in Badges |-> 0] /\ crossed = FALSE /\ behind = badges
  BY DEF B!Init
<1>2. \A h \in Handlers : at[h] = "idle" /\ local[h].todo = {}
  BY <1>1, BlankIs
<1>3. BadgeTypes
  <2>1. passed \in [Disciplines -> 0..2] /\ won \in 0..2 /\ told \in [Badges -> Nat]
    BY <1>1
  <2>2. listed \subseteq Items /\ held \subseteq badges /\ badges \subseteq Badges
    BY <1>1
  <2>3. at \in [Handlers -> BadgeLabels] /\ local \in [Handlers -> BadgeLocals]
    BY <1>1, BlankIs DEF BadgeLabels
  <2> QED BY <1>2, <2>1, <2>2, <2>3 DEF BadgeTypes
<1>4. AloneInv /\ ToldInv
  BY <1>1, <1>2 DEF AloneInv, ToldInv
<1>5. EarnedInv
  BY <1>1, <1>2 DEF EarnedInv, Granted
<1>6. DueInv
  BY <1>1 DEF DueInv
<1> QED BY <1>3, <1>4, <1>5, <1>6 DEF BadgeInv

LEMMA BadgeInvStep ==
  ASSUME BadgeInv, [B!Next]_rewards  PROVE BadgeInv'
<1>1. BadgeTypes'
  BY BadgeTypesStep DEF BadgeInv
<1> QED BY <1>1, AloneStep, ToldStep, EarnedStep, DueStep DEF BadgeInv

(* When no call is under way, a badge that a call has looked at since the  *)
(* last change is held if its rule is satisfied, none is held whose rule   *)
(* is not unless something was undone, and call after call each is told    *)
(* once: evaluateBadges(), whatever the badges and their rules.            *)
THEOREM BadgesFollow == PartsSpec => []BadgesAreDue
<1>1. PartsInit => BadgeInv
  BY BadgeInvInit DEF PartsInit
<1>2. BadgeInv /\ [PartsNext]_all => BadgeInv'
  <2> SUFFICES ASSUME BadgeInv, [PartsNext]_all  PROVE BadgeInv'
    OBVIOUS
  <2>1. [B!Next]_rewards
    BY DEF PartsNext, all
  <2> QED BY <2>1, BadgeInvStep
<1>3. BadgeInv => BadgesAreDue
  <2> SUFFICES ASSUME BadgeInv, B!InFlight = {}, NEW b \in badges
               PROVE  /\ b \notin behind /\ B!Satisfies(B!Facts(B!Counted), Rule[b]) => b \in held
                      /\ b \in held /\ ~undone => B!Satisfies(B!Facts(B!Counted), Rule[b])
                      /\ ~crossed => told[b] = IF b \in held THEN 1 ELSE 0
    BY DEF BadgesAreDue, B!BadgesAreDue
  <2>1. \A h \in Handlers : at[h] = "idle"
    BY DEF B!InFlight
  <2>2. B!Counted = counted
    BY <2>1 DEF B!Counted
  <2>3. b \in Badges
    BY DEF BadgeInv, BadgeTypes
  <2>4. ASSUME b \notin behind, B!Satisfies(B!Facts(B!Counted), Rule[b])  PROVE b \in held
    BY <2>1, <2>2, <2>4 DEF BadgeInv, DueInv, InHand
  <2>5. ASSUME b \in held, ~undone  PROVE B!Satisfies(B!Facts(B!Counted), Rule[b])
    BY <2>2, <2>3, <2>5 DEF BadgeInv, EarnedInv, Granted, Judged
  <2>6. ASSUME ~crossed  PROVE told[b] = IF b \in held THEN 1 ELSE 0
    BY <2>1, <2>3, <2>6 DEF BadgeInv, ToldInv, Telling
  <2> QED BY <2>4, <2>5, <2>6
<1> QED BY <1>1, <1>2, <1>3, PTL DEF PartsSpec

(* The streak of the board and the live one are the longest and the last   *)
(* run of consecutive days, whatever the runs and in whatever order they   *)
(* were counted and rejected: aggregateCte() and currentStreak().          *)
THEOREM StreaksFollow == PartsSpec => []StreaksAreRuns
<1>1. PartsInit => StreakInv
  <2> SUFFICES ASSUME PartsInit  PROVE StreakInv
    OBVIOUS
  <2>1. streak = {}
    BY DEF PartsInit, Chain!Init
  <2> QED BY <2>1 DEF StreakInv, DaysOf
<1>2. StreakInv /\ [PartsNext]_all => StreakInv'
  <2> SUFFICES ASSUME StreakInv, [PartsNext]_all  PROVE StreakInv'
    OBVIOUS
  <2>1. Chain!Next \/ streak' = streak
    BY DEF PartsNext, all
  <2>2. CASE streak' = streak
    BY <2>2 DEF StreakInv
  <2> QED BY <2>1, <2>2, StreakStep
<1>3. StreakInv => StreaksAreRuns
  BY StreaksHold DEF StreaksAreRuns
<1> QED BY <1>1, <1>2, <1>3, PTL DEF PartsSpec

=============================================================================
