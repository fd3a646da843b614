------------------------------- MODULE Season -------------------------------
(***************************************************************************)
(* titles.ts and the close of a season in admin.ts, and the waitlists of   *)
(* access.ts by which the regions open that titles are awarded in.         *)
(*                                                                         *)
(* A handler is a process, one D1 statement an action.  There is one       *)
(* discipline; its board is the eligible rows of the projection, which     *)
(* Standings keeps and which here is free to change.  A request that dies  *)
(* takes no further step.                                                  *)
(***************************************************************************)
EXTENDS Integers, FiniteSets

CONSTANTS
  Players,
  Regions,
  Parent,          \* regions.parent_id by region, or Nil
  Level,           \* regions.level by region
  Handlers,        \* calls that run at the same time
  MaxTitleLevel,   \* disciplines.max_title_level
  MinPlayers,      \* disciplines.title_min_players
  Threshold,       \* regions.unlock_threshold by region
  Values,
  HigherIsBetter,  \* lib.ts higherIsBetter(d)
  MaxCalls,        \* bound on the calls and the changes of the board
  Nil

VARIABLES
  active,    \* the regions that are open
  home,      \* player_regions of the season, or Nil
  board,     \* the row of each player: value and district, or Nil
  closed,    \* seasons.status
  next,      \* the season that follows has been opened
  titles,    \* who holds the title of a region, or Nil
  awarded,   \* how many title.awarded events each region has
  waiting,   \* region_waitlist by region and player: "no", "yes", "notified"
  opened,    \* how many region.opened events there are, likewise
  pc,        \* the next statement of each handler
  mem,       \* the local variables of each handler
  calls,     \* how many calls and changes there have been
  overlap,   \* history: two calls have been under way at the same time
  since      \* history: what became of boards and regions since a close began

tables == <<active, home, board, closed, next, titles, awarded, waiting, opened>>
vars   == <<active, home, board, closed, next, titles, awarded, waiting, opened,
            pc, mem, calls, overlap, since>>

(* Levels count from 1, a district, as the schema has them; awardTitles()   *)
(* starts there.                                                           *)
ASSUME PlayersAssumption == IsFiniteSet(Players) /\ Nil \notin Players \cup Regions
ASSUME LevelAssumption   == Level \in [Regions -> Nat \ {0}] /\ MaxTitleLevel \in Nat
ASSUME LimitsAssumption  == MinPlayers \in Nat /\ Threshold \in [Regions -> Int] /\ MaxCalls \in Nat

Or(S) == S \cup {Nil}

Rows   == [value : Values, district : Or(Regions)]
Labels == {"idle", "locked", "move", "regions", "region", "field", "award", "tell", "close", "next",
           "join", "count", "unlock", "who", "notify", "mark"}
Blank  == [player |-> Nil, region |-> Nil, level |-> 0, dry |-> FALSE, tied |-> FALSE,
           todo |-> {}, people |-> {}]
Locals == [player : Or(Players), region : Or(Regions), level : 0..MaxTitleLevel + 1, dry : BOOLEAN,
           tied : BOOLEAN, todo : SUBSET Regions, people : SUBSET Players]

(* Rows and local variables keep their types. *)
TypeOK ==
  /\ active \subseteq Regions
  /\ home \in [Players -> Or(Regions)] /\ board \in [Players -> Or(Rows)]
  /\ closed \in BOOLEAN /\ next \in BOOLEAN
  /\ titles \in [Regions -> Or(Players)] /\ awarded \in [Regions -> Nat]
  /\ waiting \in [Regions -> [Players -> {"no", "yes", "notified"}]]
  /\ opened \in [Regions -> [Players -> Nat]]
  /\ pc \in [Handlers -> Labels] /\ mem \in [Handlers -> Locals]
  /\ calls \in 0..MaxCalls /\ overlap \in BOOLEAN
  /\ since \in {"before", "still", "moved"}

(* The finest region that is open at a place. *)
Finest(r, open) == r \in open /\ \A q \in open : Parent[q] # r

Init ==
  /\ active \in {open \in SUBSET Regions : \A r \in open : Parent[r] = Nil \/ Parent[r] \in open}
  /\ home \in [Players -> {r \in Regions : Finest(r, active)} \cup {Nil}]
  /\ board \in [Players -> Or(Rows)]
  /\ \A p \in Players : board[p] # Nil => board[p].district = home[p]
  /\ closed = FALSE /\ next = FALSE
  /\ titles = [r \in Regions |-> Nil] /\ awarded = [r \in Regions |-> 0]
  /\ waiting = [r \in Regions |-> [p \in Players |-> "no"]]
  /\ opened = [r \in Regions |-> [p \in Players |-> 0]]
  /\ pc = [h \in Handlers |-> "idle"] /\ mem = [h \in Handlers |-> Blank]
  /\ calls = 0 /\ overlap = FALSE /\ since = "before"

InFlight == {h \in Handlers : pc[h] # "idle"}

Goto(h, label, locals) ==
  /\ pc' = [pc EXCEPT ![h] = label]
  /\ mem' = [mem EXCEPT ![h] = locals]
  /\ UNCHANGED <<calls, overlap>>

Finish(h) == Goto(h, "idle", Blank)

Start(h, label, locals) ==
  /\ pc[h] = "idle"
  /\ pc' = [pc EXCEPT ![h] = label]
  /\ mem' = [mem EXCEPT ![h] = locals]
  /\ calls < MaxCalls /\ calls' = calls + 1
  /\ overlap' = (overlap \/ InFlight # {})

Moves == since' = IF since = "before" THEN since ELSE "moved"

-----------------------------------------------------------------------------
(* The regions whose board a row is on, and the board of a region.         *)

Covers(r, district) ==
  district # Nil /\ (r = district \/ r = Parent[district])

Field(r) == {p \in Players : board[p] # Nil /\ Covers(r, board[p].district)}

Beats(a, b) == IF HigherIsBetter THEN a > b ELSE a < b

Leaders(r) == {p \in Field(r) : \A q \in Field(r) : ~Beats(board[q].value, board[p].value)}

(* An entry, or the decision on one, which may come after the close: some  *)
(* row is written anew, or deleted.                                        *)
Refresh ==
  /\ \E p \in Players : \E row \in Or([value : Values, district : {home[p]}]) :
       board[p] # row /\ board' = [board EXCEPT ![p] = row]
  /\ Moves
  /\ calls < MaxCalls /\ calls' = calls + 1
  /\ UNCHANGED <<active, home, closed, next, titles, awarded, waiting, opened, pc, mem, overlap>>

(* PATCH /v1/me/region: the lock, then the region, the finest that is open *)
(* there; the INSERT is refused to who has one by now.                     *)
Settle(h) ==
  /\ ~closed
  /\ \E p \in Players, r \in active :
       home[p] = Nil /\ Start(h, "locked", [Blank EXCEPT !.player = p, !.region = r])
  /\ UNCHANGED <<tables, since>>

Finer(h) ==
  /\ pc[h] = "locked"
  /\ IF Finest(mem[h].region, active) THEN Goto(h, "move", mem[h]) ELSE Finish(h)
  /\ UNCHANGED <<tables, since>>

MoveIn(h) ==
  LET p == mem[h].player IN
  /\ pc[h] = "move"
  /\ home' = [home EXCEPT ![p] = IF @ = Nil THEN mem[h].region ELSE @]
  /\ Finish(h)
  /\ UNCHANGED <<active, board, closed, next, titles, awarded, waiting, opened, since>>

-----------------------------------------------------------------------------
(* POST /v1/admin/seasons/:id/close, and awardTitles(): level by level, *)
Close(h) ==
  /\ \E dry \in BOOLEAN :
       /\ Start(h, "regions", [Blank EXCEPT !.level = 1, !.dry = dry])
       /\ since' = IF since = "before" /\ ~dry THEN "still" ELSE since
  /\ UNCHANGED tables

(* the regions of the level that are open, *)
ListRegions(h) ==
  LET level == mem[h].level IN
  /\ pc[h] = "regions"
  /\ \/ level > MaxTitleLevel /\ mem[h].dry  /\ Finish(h)
     \/ level > MaxTitleLevel /\ ~mem[h].dry /\ Goto(h, "close", mem[h])
     \/ level <= MaxTitleLevel
          /\ Goto(h, "region", [mem[h] EXCEPT !.todo = {r \in active : Level[r] = level}])
  /\ UNCHANGED <<tables, since>>

(* projection.page(): the first two rows of one of them, *)
Top(h) ==
  /\ pc[h] = "region"
  /\ \/ mem[h].todo = {} /\ Goto(h, "regions", [mem[h] EXCEPT !.level = @ + 1])
     \/ \E r \in mem[h].todo : Field(r) = {} /\ Goto(h, "region", [mem[h] EXCEPT !.todo = @ \ {r}])
     \/ \E r \in mem[h].todo : \E p \in Leaders(r) :
          Goto(h, "field", [mem[h] EXCEPT !.todo = @ \ {r}, !.region = r, !.player = p,
                                          !.tied = Leaders(r) # {p}])
  /\ UNCHANGED <<tables, since>>

(* Mutant: a field that is short by one is enough. *)
TotalOffByOne(h) ==
  /\ pc[h] = "field"
  /\ IF Cardinality(Field(mem[h].region)) + 1 < MinPlayers \/ mem[h].tied \/ mem[h].dry
       THEN Goto(h, "region", mem[h]) ELSE Goto(h, "award", mem[h])
  /\ UNCHANGED <<tables, since>>

(* and how many there are: too few, or no unique winner, is no title.      *)
Total(h) ==
  /\ pc[h] = "field"
  /\ IF Cardinality(Field(mem[h].region)) < MinPlayers \/ mem[h].tied \/ mem[h].dry
       THEN Goto(h, "region", mem[h]) ELSE Goto(h, "award", mem[h])
  /\ UNCHANGED <<tables, since>>

(* The INSERT, which leaves a title that is there; only a fresh one is     *)
(* told.                                                                   *)
Award(h) ==
  LET r == mem[h].region IN
  /\ pc[h] = "award"
  /\ IF titles[r] = Nil
       THEN titles' = [titles EXCEPT ![r] = mem[h].player] /\ Goto(h, "tell", mem[h])
       ELSE UNCHANGED titles /\ Goto(h, "region", mem[h])
  /\ UNCHANGED <<active, home, board, closed, next, awarded, waiting, opened, since>>

TellTitle(h) ==
  /\ pc[h] = "tell"
  /\ awarded' = [awarded EXCEPT ![mem[h].region] = @ + 1]
  /\ Goto(h, "region", mem[h])
  /\ UNCHANGED <<active, home, board, closed, next, titles, waiting, opened, since>>

(* The season is closed, and the next one opened when the call names it;   *)
(* one that is there already refuses it.                                   *)
CloseSeason(h) ==
  /\ pc[h] = "close"
  /\ closed' = TRUE
  /\ Finish(h) \/ Goto(h, "next", mem[h])
  /\ UNCHANGED <<active, home, board, next, titles, awarded, waiting, opened, since>>

OpenNext(h) ==
  /\ pc[h] = "next"
  /\ next' = TRUE
  /\ Finish(h)
  /\ UNCHANGED <<active, home, board, closed, titles, awarded, waiting, opened, since>>

-----------------------------------------------------------------------------
(* POST /v1/waitlist/:region: a region that is not open, *)
Wait(h) ==
  /\ \E p \in Players, r \in Regions \ active : Start(h, "join", [Blank EXCEPT !.player = p, !.region = r])
  /\ UNCHANGED <<tables, since>>

(* the place on its list, *)
Join(h) ==
  /\ pc[h] = "join"
  /\ waiting' = [waiting EXCEPT ![mem[h].region][mem[h].player] = IF @ = "no" THEN "yes" ELSE @]
  /\ Goto(h, "count", mem[h])
  /\ UNCHANGED <<active, home, board, closed, next, titles, awarded, opened, since>>

OnList(r) == {p \in Players : waiting[r][p] # "no"}
Full(r)   == Threshold[r] > 0 /\ Cardinality(OnList(r)) >= Threshold[r]

(* Mutant: one more than the threshold. *)
CountOffByOne(h) ==
  LET r == mem[h].region IN
  /\ pc[h] = "count"
  /\ IF Threshold[r] > 0 /\ Cardinality(OnList(r)) > Threshold[r]
       THEN Goto(h, "unlock", mem[h]) ELSE Finish(h)
  /\ UNCHANGED <<tables, since>>

(* and whether it is long enough. *)
Count(h) ==
  /\ pc[h] = "count"
  /\ IF Full(mem[h].region) THEN Goto(h, "unlock", mem[h]) ELSE Finish(h)
  /\ UNCHANGED <<tables, since>>

(* POST /v1/admin/regions/:id/unlock *)
AskUnlock(h) ==
  /\ \E r \in Regions \ active : Start(h, "unlock", [Blank EXCEPT !.region = r])
  /\ UNCHANGED <<tables, since>>

(* unlockRegion(): the region, who waits for it and was not notified, an   *)
(* event for each, and the marks.                                          *)
Unlock(h) ==
  /\ pc[h] = "unlock"
  /\ active' = active \cup {mem[h].region}
  /\ Moves
  /\ Goto(h, "who", mem[h])
  /\ UNCHANGED <<home, board, closed, next, titles, awarded, waiting, opened>>

Who(h) ==
  /\ pc[h] = "who"
  /\ Goto(h, "notify", [mem[h] EXCEPT !.people = {p \in Players : waiting[mem[h].region][p] = "yes"}])
  /\ UNCHANGED <<tables, since>>

Notify(h) ==
  /\ pc[h] = "notify"
  /\ \/ /\ mem[h].people = {} /\ Goto(h, "mark", mem[h])
        /\ UNCHANGED opened
     \/ \E p \in mem[h].people :
          /\ opened' = [opened EXCEPT ![mem[h].region][p] = @ + 1]
          /\ Goto(h, "notify", [mem[h] EXCEPT !.people = @ \ {p}])
  /\ UNCHANGED <<active, home, board, closed, next, titles, awarded, waiting, since>>

Mark(h) ==
  /\ pc[h] = "mark"
  /\ waiting' = [waiting EXCEPT ![mem[h].region] =
       [p \in Players |-> IF @[p] = "yes" THEN "notified" ELSE @[p]]]
  /\ Finish(h)
  /\ UNCHANGED <<active, home, board, closed, next, titles, awarded, opened, since>>

Settling(h) == Settle(h) \/ Finer(h) \/ MoveIn(h)
Closing(h)  == Close(h) \/ ListRegions(h) \/ Top(h) \/ Total(h) \/ Award(h) \/ TellTitle(h)
               \/ CloseSeason(h) \/ OpenNext(h)
Opening(h)  == Wait(h) \/ Join(h) \/ Count(h) \/ AskUnlock(h) \/ Unlock(h) \/ Who(h) \/ Notify(h) \/ Mark(h)

Next == (\E h \in Handlers : Settling(h) \/ Closing(h) \/ Opening(h)) \/ Refresh

Spec == Init /\ [][Next]_vars

-----------------------------------------------------------------------------
(* "A title only exists if the region had enough contenders and there is a *)
(* unique winner": when nothing moved since the close began, the season is *)
(* closed with these titles and no others, however many calls closed it.   *)
(* And every title is announced once, whatever happened.                   *)
TitlesFollowTheBoard ==
  /\ closed /\ since = "still" =>
       \A r \in Regions : titles[r] =
         IF /\ r \in active /\ Level[r] <= MaxTitleLevel
            /\ Cardinality(Field(r)) >= MinPlayers /\ Cardinality(Leaders(r)) = 1
           THEN CHOOSE p \in Players : Leaders(r) = {p} ELSE Nil
  /\ \A r \in Regions :
       awarded[r] + Cardinality({h \in Handlers : pc[h] = "tell" /\ mem[h].region = r})
         = IF titles[r] = Nil THEN 0 ELSE 1

(* "The region opens itself once enough people are waiting": when no call  *)
(* is under way, no list is long enough and its region closed, and call    *)
(* after call everybody on the list of an open region was told once.       *)
FullRegionsOpen ==
  InFlight = {} =>
    \A r \in Regions :
      /\ Full(r) => r \in active
      /\ ~overlap => \A p \in OnList(r) : opened[r][p] = IF r \in active THEN 1 ELSE 0
=============================================================================
