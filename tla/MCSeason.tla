------------------------------ MODULE MCSeason -------------------------------
(***************************************************************************)
(* Small instances, for TLC, of what is left of a season: its titles, as   *)
(* in Season, the badges of one player, as in Rewards, or the streak of    *)
(* one, as in Streaks.  A behaviour is of one of the three parts.          *)
(***************************************************************************)
EXTENDS Season, TLC

CONSTANTS
  d1, d2, c1,      \* two districts of a city
  Disciplines, AppOf, CategoryOf, Days, Items, CollectionOf, HomeOf, Badges, Scope, Rule, Depth,
  run, read, a1, a2, i1, i2, b1, b2, b3,
  LastDay, MaxRuns

VARIABLES
  part,
  counted, passed, won, listed, owned, badges, held, told, at, local, asked, crossed, undone, behind,
  streak

(* A title of the first district takes two players, the second cannot open *)
(* by itself, the city opens for one.                                      *)
MCParent    == d1 :> c1 @@ d2 :> c1 @@ c1 :> Nil
MCLevel     == d1 :> 1 @@ d2 :> 1 @@ c1 :> 2
MCThreshold == d1 :> 2 @@ d2 :> 0 @@ c1 :> 1

(* Two apps with a discipline each, a collection of two items, and three   *)
(* badges: of everywhere, of the second app, of everywhere.                *)
MCAppOf        == run :> a1 @@ read :> a2
MCCategoryOf   == run :> "x" @@ read :> "x"
MCCollectionOf == i1 :> c1 @@ i2 :> c1
MCHomeOf       == c1 :> a1
MCScope        == b1 :> Nil @@ b2 :> a2 @@ b3 :> Nil

Is(type, n)       == [type |-> type, n |-> n]
On(type, n, d)    == [type |-> type, n |-> n, discipline |-> d]
AnyOf(r, s)       == [type |-> "any_of", rules |-> {r, s}]
AllOf(r, s)       == [type |-> "all_of", rules |-> {r, s}]

MCRule ==
  b1 :> AnyOf([type |-> "collection_complete", collection |-> c1],
              AllOf(Is("qualified_in_n_apps", 2), Is("titles_in_n_regions", 1))) @@
  b2 :> AnyOf(On("streak_days", 2, Nil), [type |-> "qualified_in_category", category |-> "x"]) @@
  b3 :> AnyOf(On("active_on_n_days", 2, Nil),
              AllOf(Is("discipline_mastery", 2), On("total_at_least", 1, run)))

(* The rules, and those that they are made of. *)
Parts(rules) == rules \cup UNION {r.rules : r \in {q \in rules : "rules" \in DOMAIN q}}
MCDepth ==
  LET tops == {MCRule[b] : b \in {b1, b2, b3}}
      mids == Parts(tops) \ tops
  IN [r \in Parts(Parts(tops)) |-> IF r \in tops THEN 2 ELSE IF r \in mids THEN 1 ELSE 0]

B == INSTANCE Rewards WITH
  runs <- counted, titles <- won, pc <- at, mem <- local, calls <- asked, overlap <- crossed

ASSUME RewardsParameters == B!Parameters
ASSUME LastDayAssumption == LastDay \in Nat

rewards == <<counted, passed, won, listed, owned, badges, held, told, at, local, asked, crossed,
             undone, behind>>
all     == <<part, vars, rewards, streak>>

Chain == INSTANCE Streaks WITH runs <- streak

(* Of the part that stands still, one initial state will do. *)
PartsInit ==
  /\ part \in {"season", "rewards", "streaks"} /\ Init /\ B!Init /\ Chain!Init
  /\ part # "season" => active = {} /\ board = [p \in Players |-> Nil]
  /\ part # "rewards" => listed = {} /\ badges = {}

PartsNext ==
  \/ part = "season" /\ Next /\ UNCHANGED <<part, rewards, streak>>
  \/ part = "rewards" /\ B!Next /\ UNCHANGED <<part, vars, streak>>
  \/ part = "streaks" /\ Chain!Next /\ UNCHANGED <<part, vars, rewards>>

PartsSpec == PartsInit /\ [][PartsNext]_all

(* See Rewards. *)
BadgesAreDue == B!BadgesAreDue

(* See Streaks: the streak and the live one are the longest and the last   *)
(* run of consecutive days.                                                *)
StreaksAreRuns == Chain!StreaksAreRuns

(* Calls and players are only compared with each other. *)
Symmetry == Permutations(Handlers) \cup Permutations(Players)
=============================================================================
