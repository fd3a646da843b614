------------------------------ MODULE Rewards -------------------------------
(***************************************************************************)
(* badges.ts, and the collections of collect.ts: what a player earns from  *)
(* counted runs, passed exams, titles and items, as the calls that bring   *)
(* these about determine it at their end.                                  *)
(*                                                                         *)
(* A handler is a process, one D1 statement an action; the SELECTs of one  *)
(* rule are one read.  There is one player, in one season.  A request that *)
(* dies takes no further step.                                             *)
(***************************************************************************)
EXTENDS Aggregation

CONSTANTS
  Disciplines,
  AppOf,         \* disciplines.app_id
  CategoryOf,    \* disciplines.category
  Days,          \* bound: the days of entries
  Items,         \* collection_items, which are added to their collection
  CollectionOf,  \* collection_items.collection_id
  HomeOf,        \* collections.app_id by collection
  Badges,        \* badges.id
  Scope,         \* badges.app_id by badge, or Nil
  Rule,          \* badges.rule by badge
  Depth,         \* of each rule, and of those that it is made of: how deep they nest
  Handlers,      \* calls that run at the same time
  MaxCalls,      \* bound on the calls
  Nil

VARIABLES
  runs,    \* entries that count for good: <<discipline, day>>, one a day
  passed,  \* qualifications.value_at over the bar: 0, not passed, 1 or 2
  titles,  \* how many regions the player holds a title of
  listed,  \* the items that are in their collection
  owned,   \* player_items
  badges,  \* the badges that there are
  held,    \* player_badges
  told,    \* how many badge.earned events each badge has
  pc,      \* the next statement of each handler
  mem,     \* the local variables of each handler
  calls,   \* how many calls there have been
  overlap, \* history: two calls have been under way at the same time
  undone,  \* history: a collection grew, or a run that counted was taken back
  behind   \* history: the badges that no call has looked at since something changed

facts  == <<runs, passed, titles, listed, owned, badges>>
vars   == <<runs, passed, titles, listed, owned, badges, held, told,
            pc, mem, calls, overlap, undone, behind>>

Or(S) == S \cup {Nil}
Apps  == {AppOf[d] : d \in Disciplines}
Rules == DOMAIN Depth

RuleTypes == {"all_of", "any_of", "qualified_in_n_apps", "qualified_in_category", "discipline_mastery",
              "titles_in_n_regions", "active_on_n_days", "streak_days", "total_at_least",
              "collection_complete"}

Numbered == RuleTypes \ {"all_of", "any_of", "qualified_in_category", "collection_complete"}

(* Days are numbers in a row, and a rule is a finite tree. *)
Parameters ==
  /\ IsFiniteSet(Disciplines) /\ IsFiniteSet(Days) /\ Days \subseteq Int
  /\ Nil \notin Badges \cup (Disciplines \X Days)
  /\ Scope \in [Badges -> Or(Apps)] /\ Rule \in [Badges -> Rules]
  /\ Depth \in [Rules -> 0..Cardinality(Rules)] /\ Cardinality(Rules) \in Nat
  /\ \A r \in Rules :
       /\ r.type \in RuleTypes
       /\ r.type \in Numbered => r.n \in Int
       /\ r.type \in {"all_of", "any_of"} =>
            r.rules \subseteq Rules /\ \A q \in r.rules : Depth[q] < Depth[r]

Blank == [app |-> Nil, todo |-> {}, badge |-> Nil, run |-> Nil]

(* Rows and local variables keep their types. *)
TypeOK ==
  /\ runs \subseteq Disciplines \X Days
  /\ passed \in [Disciplines -> 0..2] /\ titles \in 0..2
  /\ owned \subseteq listed /\ listed \subseteq Items
  /\ held \subseteq badges /\ badges \subseteq Badges
  /\ told \in [Badges -> Nat]
  /\ pc \in [Handlers -> {"idle", "exam", "hold", "read", "weigh", "give", "tell"}]
  /\ mem \in [Handlers -> [app : Or(Apps), todo : SUBSET Badges, badge : Or(Badges),
                           run : Or(Disciplines \X Days)]]
  /\ calls \in 0..MaxCalls /\ overlap \in BOOLEAN /\ undone \in BOOLEAN /\ behind \subseteq Badges

Init ==
  /\ runs = {} /\ passed = [d \in Disciplines |-> 0] /\ titles = 0
  /\ listed \in SUBSET Items /\ owned = {}
  /\ badges \in {Badges, {}} /\ held = {} /\ told = [b \in Badges |-> 0]
  /\ pc = [h \in Handlers |-> "idle"] /\ mem = [h \in Handlers |-> Blank]
  /\ calls = 0 /\ overlap = FALSE /\ undone = FALSE /\ behind = badges

InFlight == {h \in Handlers : pc[h] # "idle"}

Goto(h, label, locals) ==
  /\ pc' = [pc EXCEPT ![h] = label]
  /\ mem' = [mem EXCEPT ![h] = locals]

Finish(h) == Goto(h, "idle", Blank)

Call == calls < MaxCalls /\ calls' = calls + 1 /\ overlap' = (overlap \/ InFlight # {})

Start(h, label, app) == pc[h] = "idle" /\ Call /\ Goto(h, label, [Blank EXCEPT !.app = app])

Candidates(app) == {b \in badges : Scope[b] \in {Nil, app}}

-----------------------------------------------------------------------------
(* satisfies(): the rules, by what each of them counts of what it finds.   *)

(* A run that has to be proved counts until it is held.                    *)
Counted == runs \cup {mem[h].run : h \in {g \in Handlers : pc[g] = "hold"}}

Facts(ledger) == [runs |-> ledger, passed |-> passed, titles |-> titles, listed |-> listed, owned |-> owned]

Covered(rule)  == IF rule.discipline = Nil THEN Disciplines ELSE {rule.discipline}
DaysOn(f, d)   == {n \in Days : <<d, n>> \in f.runs}
ActiveOn(f, d) == {[id |-> n, day |-> n, value |-> 1] : n \in DaysOn(f, d)}

LongestStreak(f, d) == IF DaysOn(f, d) = {} THEN 0 ELSE Streak(ActiveOn(f, d))

PassedIn(f, ds) == {d \in ds : f.passed[d] > 0}

(* An empty collection is not complete. *)
Complete(f, coll) ==
  LET all == {i \in f.listed : CollectionOf[i] = coll} IN all # {} /\ all \subseteq f.owned

(* What a rule that is not made of others counts. *)
Reached(f, r) ==
  CASE r.type = "qualified_in_n_apps" ->
         Cardinality({AppOf[d] : d \in PassedIn(f, Disciplines)}) >= r.n
    [] r.type = "qualified_in_category" ->
         LET all == {d \in Disciplines : CategoryOf[d] = r.category}
         IN all # {} /\ PassedIn(f, all) = all
    [] r.type = "discipline_mastery" -> \E d \in Disciplines : f.passed[d] >= r.n
    [] r.type = "titles_in_n_regions" -> f.titles >= r.n
    [] r.type = "active_on_n_days" -> Cardinality(UNION {DaysOn(f, d) : d \in Covered(r)}) >= r.n
    [] r.type = "streak_days" -> \E d \in Covered(r) : LongestStreak(f, d) >= r.n
    [] r.type = "total_at_least" -> Cardinality(DaysOn(f, r.discipline)) >= r.n
    [] r.type = "collection_complete" -> Complete(f, r.collection)

Satisfies(f, rule) ==
  LET good[r \in Rules] ==
        CASE r.type = "all_of" -> \A q \in r.rules : good[q]
          [] r.type = "any_of" -> \E q \in r.rules : good[q]
          [] OTHER -> Reached(f, r)
  IN good[rule]

-----------------------------------------------------------------------------
(* POST /v1/entries, of a run that counts: the run, the exam; what comes   *)
(* between them and the badges is in Standings.                            *)
Enter(h) ==
  /\ \E d \in Disciplines, n \in Days :
       /\ runs' = runs \cup {<<d, n>>}
       /\ Start(h, "exam", AppOf[d])
       /\ behind' = behind \cup badges
  /\ UNCHANGED <<passed, titles, listed, owned, badges, held, told, undone>>

Exam(h) ==
  /\ pc[h] = "exam"
  /\ \/ UNCHANGED passed
     \/ \E d \in Disciplines, much \in 1..2 :
          /\ AppOf[d] = mem[h].app /\ passed[d] = 0 /\ DaysOn(Facts(Counted), d) # {}
          /\ passed' = [passed EXCEPT ![d] = much]
  /\ behind' = behind \cup badges
  /\ Goto(h, "read", mem[h])
  /\ UNCHANGED <<runs, titles, listed, owned, badges, held, told, calls, overlap, undone>>

(* The same of a run that a module has to prove: counted by the INSERT,    *)
(* held by the next statement.                                             *)
Trace(h) ==
  /\ \E d \in Disciplines, n \in Days :
       /\ pc[h] = "idle" /\ Call
       /\ Goto(h, "hold", [Blank EXCEPT !.app = AppOf[d], !.run = <<d, n>>])
  /\ UNCHANGED <<facts, held, told, undone, behind>>

Hold(h) ==
  /\ pc[h] = "hold" /\ Finish(h)
  /\ undone' = (undone \/ overlap)
  /\ UNCHANGED <<facts, held, told, calls, overlap, behind>>

(* POST /v1/matches, for each of its players: a rating earns nothing.      *)
Play(h) ==
  /\ \E app \in Apps : Start(h, "read", app)
  /\ UNCHANGED <<facts, held, told, undone, behind>>

(* POST /v1/collections/:slug/grant *)
Grant(h) ==
  /\ \E i \in listed :
       /\ owned' = owned \cup {i}
       /\ Start(h, "read", HomeOf[CollectionOf[i]])
       /\ behind' = behind \cup badges
  /\ UNCHANGED <<runs, passed, titles, listed, badges, held, told, undone>>

(* evaluateBadges(): the candidates of the app, without those that are     *)
(* held, *)
Read(h) ==
  /\ pc[h] = "read"
  /\ Goto(h, "weigh", [mem[h] EXCEPT !.todo = Candidates(mem[h].app) \ held])
  /\ behind' = behind \ Candidates(mem[h].app)
  /\ UNCHANGED <<facts, held, told, calls, overlap, undone>>

(* the rule of one after the other, *)
Weigh(h) ==
  /\ pc[h] = "weigh"
  /\ \/ mem[h].todo = {} /\ Finish(h)
     \/ \E b \in mem[h].todo :
          Goto(h, IF Satisfies(Facts(Counted), Rule[b]) THEN "give" ELSE "weigh",
               [mem[h] EXCEPT !.todo = @ \ {b}, !.badge = b])
  /\ UNCHANGED <<facts, held, told, calls, overlap, undone, behind>>

(* Mutant: the first badge that is earned ends the evaluation. *)
GiveAndStop(h) ==
  /\ pc[h] = "give"
  /\ held' = held \cup {mem[h].badge}
  /\ Goto(h, "tell", [mem[h] EXCEPT !.todo = {}])
  /\ UNCHANGED <<facts, told, calls, overlap, undone, behind>>

(* the INSERT, which changes nothing when it is there by now, *)
Give(h) ==
  /\ pc[h] = "give"
  /\ held' = held \cup {mem[h].badge}
  /\ Goto(h, "tell", mem[h])
  /\ UNCHANGED <<facts, told, calls, overlap, undone, behind>>

(* and the event, in either case. *)
Tell(h) ==
  /\ pc[h] = "tell"
  /\ told' = [told EXCEPT ![mem[h].badge] = @ + 1]
  /\ Goto(h, "weigh", mem[h])
  /\ UNCHANGED <<facts, held, calls, overlap, undone, behind>>

-----------------------------------------------------------------------------
(* What no evaluation follows: a title at the close of the season, a run   *)
(* that an operator or a verdict counts, or a verdict takes back from the   *)
(* operator, a new item, a new badge.                                      *)
Elsewhere ==
  /\ Call
  /\ \/ titles < 2 /\ titles' = titles + 1 /\ UNCHANGED <<runs, listed, badges>>
     \/ \E d \in Disciplines, n \in Days :
          runs' \in {runs \cup {<<d, n>>}, runs \ {<<d, n>>}} /\ UNCHANGED <<titles, listed, badges>>
     \/ \E i \in Items \ listed : listed' = listed \cup {i} /\ UNCHANGED <<runs, titles, badges>>
     \/ \E b \in Badges \ badges : badges' = badges \cup {b} /\ UNCHANGED <<runs, titles, listed>>
  /\ undone' = (undone \/ listed' # listed \/ ~(runs \subseteq runs'))
  /\ behind' = behind \cup badges'
  /\ UNCHANGED <<passed, owned, held, told, pc, mem>>

Acting(h)     == Enter(h) \/ Exam(h) \/ Trace(h) \/ Hold(h) \/ Play(h) \/ Grant(h)
Evaluating(h) == Read(h) \/ Weigh(h) \/ Give(h) \/ Tell(h)

Next == (\E h \in Handlers : Acting(h) \/ Evaluating(h)) \/ Elsewhere

Spec == Init /\ [][Next]_vars

-----------------------------------------------------------------------------
(* "A badge is never submitted, it is determined": when no call is under   *)
(* way, a badge that a call has looked at since the last change is held if *)
(* its rule is satisfied, and no badge is held whose rule is not, however  *)
(* many calls gave it at the same time, unless a collection grew, a run    *)
(* was taken back, or one was held while other calls could count it; call  *)
(* after call it is told once.                                             *)
BadgesAreDue ==
  InFlight = {} =>
    \A b \in badges :
      /\ b \notin behind /\ Satisfies(Facts(Counted), Rule[b]) => b \in held
      /\ b \in held /\ ~undone => Satisfies(Facts(Counted), Rule[b])
      /\ ~overlap => told[b] = IF b \in held THEN 1 ELSE 0
=============================================================================
