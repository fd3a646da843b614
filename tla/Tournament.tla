----------------------------- MODULE Tournament -----------------------------
(***************************************************************************)
(* tournaments.ts: one tournament, from its first entrant to its champion. *)
(*                                                                         *)
(* As in the other modules a handler is a process and one D1 statement, or *)
(* one D1.batch, is one action.  Handlers are used again: a member of      *)
(* Handlers is a place where a call may run, so the set bounds only how    *)
(* many run at the same time.  A handler that dies is one that takes no    *)
(* further step; nothing a statement wrote is undone.                      *)
(***************************************************************************)
EXTENDS Bracket, FiniteSets

CONSTANTS
  Players,        \* players(id), all of them qualified in the discipline
  Handlers,       \* calls that run at the same time
  MaxEntrants,    \* tournaments.max_entrants
  HigherIsBetter, \* lib.ts higherIsBetter(d)
  Standing        \* Standing[p]: projection.rank(...)?.value, or Nil

ASSUME PlayersAssumption == IsFiniteSet(Players)
ASSUME FieldAssumption == MaxEntrants \in Nat /\ HigherIsBetter \in BOOLEAN
ASSUME StandingAssumption == Standing \in [Players -> Int \cup {Nil}]

VARIABLES
  state,      \* tournaments.state
  champion,   \* tournaments.champion_id, or Nil
  entrants,   \* the players with a tournament_entrants row
  seed,       \* seed[p]: tournament_entrants.seed, or Nil
  out,        \* the entrants whose state is 'out'
  matches,    \* tournament_matches by <<round, slot>>; none before the start
  pc,         \* the next statement of each handler
  mem         \* the local variables of each handler

rows == <<state, champion, entrants, seed, out, matches>>
vars == <<state, champion, entrants, seed, out, matches, pc, mem>>

Or(S) == S \cup {Nil}

Match == [a : Or(Players), b : Or(Players), winner : Or(Players),
          state : {"pending", "ready", "bye", "done"}]

ASSUME NilAssumption == Nil \notin Players /\ Nil \notin Int

Labels == {"idle", "count", "enter", "field", "draw", "byes", "next",
           "look", "decide", "seat", "ready", "crown"}

(* `field` is the entrants a start has read, `todo` the byes it advances;  *)
(* `pos` the match a report is about, or the one whose winner advances.    *)
Blank == [call |-> "", player |-> Nil, loser |-> Nil, pos |-> Nil, field |-> {}, todo |-> {}]

AllPositions == UNION {Positions(n) : n \in 2..Cardinality(Players)}

Locals == [call : {"", "join", "start", "report"}, player : Or(Players), loser : Or(Players),
           pos : Or(AllPositions), field : SUBSET Players, todo : SUBSET AllPositions]

(* Every row and local variable keeps its type; whoever is seeded or out   *)
(* is an entrant, and a match is there with its whole bracket or not.      *)
TypeOK ==
  /\ state \in {"open", "running", "finished"}
  /\ champion \in Or(Players)
  /\ entrants \subseteq Players
  /\ seed \in [Players -> Or(1..Cardinality(Players))]
  /\ out \subseteq entrants /\ {p \in Players : seed[p] # Nil} \subseteq entrants
  /\ DOMAIN matches \in {{}} \cup {Positions(n) : n \in 2..Cardinality(Players)}
  /\ \A pos \in DOMAIN matches : matches[pos] \in Match
  /\ pc \in [Handlers -> Labels]
  /\ mem \in [Handlers -> Locals]

Init ==
  /\ state = "open"
  /\ champion = Nil
  /\ entrants = {}
  /\ seed = [p \in Players |-> Nil]
  /\ out = {}
  /\ matches = <<>>
  /\ pc = [h \in Handlers |-> "idle"]
  /\ mem = [h \in Handlers |-> Blank]

Seeded   == {p \in Players : seed[p] # Nil}
Field    == Cardinality(Seeded)
InFlight == {h \in Handlers : pc[h] # "idle"}

Start(h, label, locals) ==
  /\ pc[h] = "idle"
  /\ pc' = [pc EXCEPT ![h] = label]
  /\ mem' = [mem EXCEPT ![h] = locals]

Goto(h, label) == pc' = [pc EXCEPT ![h] = label]

Finish(h) ==
  /\ pc' = [pc EXCEPT ![h] = "idle"]
  /\ mem' = [mem EXCEPT ![h] = Blank]

-----------------------------------------------------------------------------
(* POST /v1/tournaments/:slug/join                                         *)

(* load(): the tournament must be open. *)
Join(h) ==
  /\ state = "open"
  /\ \E p \in Players : Start(h, "count", [Blank EXCEPT !.call = "join", !.player = p])
  /\ UNCHANGED rows

(* SELECT the number of entrants; a full tournament is refused. *)
Count(h) ==
  /\ pc[h] = "count"
  /\ IF Cardinality(entrants) >= MaxEntrants
       THEN Finish(h)
       ELSE Goto(h, "enter") /\ UNCHANGED mem
  /\ UNCHANGED rows

(* INSERT INTO tournament_entrants ... ON CONFLICT DO NOTHING *)
Enter(h) ==
  /\ pc[h] = "enter"
  /\ entrants' = entrants \cup {mem[h].player}
  /\ Finish(h)
  /\ UNCHANGED <<state, champion, seed, out, matches>>

-----------------------------------------------------------------------------
(* POST /v1/tournaments/:slug/start                                        *)

Begin(h) ==
  /\ state = "open"
  /\ Start(h, "field", [Blank EXCEPT !.call = "start"])
  /\ UNCHANGED rows

(* SELECT the entrants who are in; then one rank() for each of them. *)
ReadField(h) ==
  LET field == entrants \ out IN
  /\ pc[h] = "field"
  /\ IF Cardinality(field) < 2
       THEN Finish(h)
       ELSE mem' = [mem EXCEPT ![h].field = field] /\ Goto(h, "draw")
  /\ UNCHANGED rows

(* The sort: descending values, whatever the direction of the discipline,  *)
(* players without a standing last.                                        *)
Above(p, q) == Standing[p] # Nil /\ (Standing[q] = Nil \/ Standing[p] > Standing[q])

(* The ways the sort may number a field: equals come in any order. *)
Seedings(field) ==
  {s \in [field -> 1..Cardinality(field)] :
     \A p, q \in field : (p # q => s[p] # s[q]) /\ (Above(p, q) => s[p] < s[q])}

PlayerOf(s, number) ==
  IF number = Nil THEN Nil ELSE CHOOSE p \in DOMAIN s : s[p] = number

(* The match rows start inserts: the first round with its byes decided,    *)
(* and an empty row for every later match.                                 *)
Drawn(s) ==
  LET n     == Cardinality(DOMAIN s)
      first == FirstRound(n)
      Opening(pair) ==
        LET a == PlayerOf(s, pair.a)
            b == PlayerOf(s, pair.b)
        IN [a |-> a, b |-> b,
            winner |-> IF a # Nil /\ b # Nil THEN Nil ELSE IF a # Nil THEN a ELSE b,
            state  |-> IF a # Nil /\ b # Nil THEN "ready"
                       ELSE IF a # Nil \/ b # Nil THEN "bye" ELSE "pending"]
      Later == [a |-> Nil, b |-> Nil, winner |-> Nil, state |-> "pending"]
  IN [pos \in Positions(n) |-> IF pos[1] = 1 THEN Opening(first[pos[2]]) ELSE Later]

(* Mutant: statement by statement, so a second start still writes seeds. *)
DrawUnbatched(h) ==
  /\ pc[h] = "draw"
  /\ \E s \in Seedings(mem[h].field) :
       /\ seed' = [p \in Players |-> IF p \in mem[h].field THEN s[p] ELSE seed[p]]
       /\ IF DOMAIN matches # {}
            THEN Finish(h) /\ UNCHANGED <<matches, state>>
            ELSE matches' = Drawn(s) /\ state' = "running" /\ Goto(h, "byes") /\ UNCHANGED mem
  /\ UNCHANGED <<champion, entrants, out>>

(* The batch: seeds, matches, state.  UNIQUE (tournament_id, round, slot)  *)
(* refuses a second bracket and with it the whole batch.                   *)
Draw(h) ==
  /\ pc[h] = "draw"
  /\ \/ DOMAIN matches # {} /\ Finish(h) /\ UNCHANGED rows
     \/ /\ DOMAIN matches = {}
        /\ \E s \in Seedings(mem[h].field) :
             /\ seed' = [p \in Players |-> IF p \in mem[h].field THEN s[p] ELSE seed[p]]
             /\ matches' = Drawn(s)
        /\ state' = "running"
        /\ Goto(h, "byes")
        /\ UNCHANGED <<champion, entrants, out, mem>>

(* SELECT the matches in state 'bye'. *)
ReadByes(h) ==
  /\ pc[h] = "byes"
  /\ mem' = [mem EXCEPT ![h].todo = {pos \in DOMAIN matches : matches[pos].state = "bye"}]
  /\ Goto(h, "next")
  /\ UNCHANGED rows

NextBye(h) ==
  /\ pc[h] = "next"
  /\ \/ mem[h].todo = {} /\ Finish(h)
     \/ \E pos \in mem[h].todo :
          /\ mem' = [mem EXCEPT ![h].pos = pos, ![h].player = matches[pos].winner,
                                ![h].todo = @ \ {pos}]
          /\ Goto(h, "seat")
  /\ UNCHANGED rows

-----------------------------------------------------------------------------
(* advance(): the winner of a match moves on.                              *)

Return(h) ==
  IF mem[h].call = "start" THEN Goto(h, "next") /\ UNCHANGED mem ELSE Finish(h)

(* Mutant: nobody looks whether both chairs are filled now. *)
SeatOnly(h) ==
  /\ pc[h] = "seat"
  /\ matches' = [matches EXCEPT ![NextMatch(mem[h].pos)] =
                   [@ EXCEPT ![NextSide(mem[h].pos)] = mem[h].player]]
  /\ Return(h)
  /\ UNCHANGED <<state, champion, entrants, seed, out>>

(* UPDATE tournament_matches SET player_a (or player_b) = winner *)
Seat(h) ==
  /\ pc[h] = "seat"
  /\ matches' = [matches EXCEPT ![NextMatch(mem[h].pos)] =
                   [@ EXCEPT ![NextSide(mem[h].pos)] = mem[h].player]]
  /\ Goto(h, "ready")
  /\ UNCHANGED <<state, champion, entrants, seed, out, mem>>

(* UPDATE ... SET state = 'ready' if both chairs are filled and it is      *)
(* pending.                                                                *)
Open(h) ==
  LET pos == NextMatch(mem[h].pos)
      m   == matches[pos]
  IN
  /\ pc[h] = "ready"
  /\ matches' = IF m.a # Nil /\ m.b # Nil /\ m.state = "pending"
                  THEN [matches EXCEPT ![pos].state = "ready"] ELSE matches
  /\ Return(h)
  /\ UNCHANGED <<state, champion, entrants, seed, out>>

-----------------------------------------------------------------------------
(* POST /v1/tournaments/:slug/matches/:id/result                           *)

(* load(): running.  The app may report a match again, a retry or a        *)
(* duplicate, but it does not name another winner while a report of the    *)
(* match is under way.                                                     *)
Report(h) ==
  /\ state = "running"
  /\ \E pos \in DOMAIN matches, p \in Players :
       /\ \A g \in InFlight :
            mem[g].call = "report" /\ mem[g].pos = pos => mem[g].player = p
       /\ Start(h, "look", [Blank EXCEPT !.call = "report", !.pos = pos, !.player = p])
  /\ UNCHANGED rows

(* Mutant: a match whose chairs are not both filled may be decided. *)
LookUndecided(h) ==
  LET m == matches[mem[h].pos]
      p == mem[h].player
  IN
  /\ pc[h] = "look"
  /\ IF m.state \in {"ready", "pending"} /\ p \in {m.a, m.b}
       THEN /\ mem' = [mem EXCEPT ![h].loser = IF p = m.a THEN m.b ELSE m.a]
            /\ Goto(h, "decide")
       ELSE Finish(h)
  /\ UNCHANGED rows

(* SELECT the match: it must be ready, and the winner one of its two.      *)
Look(h) ==
  LET m == matches[mem[h].pos]
      p == mem[h].player
  IN
  /\ pc[h] = "look"
  /\ IF m.state = "ready" /\ p \in {m.a, m.b}
       THEN /\ mem' = [mem EXCEPT ![h].loser = IF p = m.a THEN m.b ELSE m.a]
            /\ Goto(h, "decide")
       ELSE Finish(h)
  /\ UNCHANGED rows

(* The batch: the match is done, its loser is out. *)
Decide(h) ==
  LET pos == mem[h].pos IN
  /\ pc[h] = "decide"
  /\ matches' = [matches EXCEPT ![pos].winner = mem[h].player, ![pos].state = "done"]
  /\ out' = out \cup ({mem[h].loser} \cap entrants)
  /\ Goto(h, IF IsFinal(pos, Field) THEN "crown" ELSE "seat")
  /\ UNCHANGED <<state, champion, entrants, seed, mem>>

(* UPDATE tournaments SET state = 'finished', champion_id = ? *)
Crown(h) ==
  /\ pc[h] = "crown"
  /\ state' = "finished"
  /\ champion' = mem[h].player
  /\ Finish(h)
  /\ UNCHANGED <<entrants, seed, out, matches>>

-----------------------------------------------------------------------------
Joining(h)   == Join(h) \/ Count(h) \/ Enter(h)
Starting(h)  == Begin(h) \/ ReadField(h) \/ Draw(h) \/ ReadByes(h) \/ NextBye(h)
Advancing(h) == Seat(h) \/ Open(h)
Reporting(h) == Report(h) \/ Look(h) \/ Decide(h) \/ Crown(h)

Next == \E h \in Handlers : Joining(h) \/ Starting(h) \/ Advancing(h) \/ Reporting(h)

Spec == Init /\ [][Next]_vars

(* A handler that is not killed goes on; nobody is made to call. *)
Proceed(h) ==
  \/ Count(h) \/ Enter(h) \/ ReadField(h) \/ Draw(h) \/ ReadByes(h) \/ NextBye(h)
  \/ Seat(h) \/ Open(h) \/ Look(h) \/ Decide(h) \/ Crown(h)

FairSpec == Spec /\ \A h \in Handlers : WF_vars(Proceed(h))

-----------------------------------------------------------------------------
Promise == INSTANCE Knockout WITH alive <- Seeded \ out

(* One after the other goes out and the one left is the champion: with     *)
(* matches of several rounds reported at once, twice, and while the byes   *)
(* are still advancing.                                                    *)
PlaysKnockout == Promise!Spec

(* The seeds are those of the bracket that was drawn: everybody in it is   *)
(* an entrant and has one, they are 1..n, and the first round pairs them   *)
(* as bracket.ts says, whoever joined or started at the same time.         *)
SeedsAreTheDraw ==
  LET first == FirstRound(Field)
      SeedOf(p) == IF p = Nil THEN Nil ELSE seed[p]
  IN DOMAIN matches # {} =>
       /\ Seeded \cup out \subseteq entrants
       /\ {seed[p] : p \in Seeded} = 1..Field
       /\ \A slot \in DOMAIN first :
            LET m == matches[<<1, slot>>]
            IN first[slot] = [a |-> SeedOf(m.a), b |-> SeedOf(m.b)]

(* The best meet late: of the best 2^k seeds no two play each other while  *)
(* there is room for 2^k matches in a round, so the two strongest can only *)
(* meet in the final; and when the field is not a power of two the byes    *)
(* go to the top seeds.                                                    *)
TopSeedsAreSpared ==
  /\ \A pos \in DOMAIN matches :
       LET m == matches[pos] IN
       m.a # Nil /\ m.b # Nil =>
         \E p \in {m.a, m.b} : seed[p] > 2^(RoundCount(Field) - pos[1])
  /\ DOMAIN matches # {} =>
       {seed[matches[pos].winner] : pos \in {q \in DOMAIN matches : matches[q].state = "bye"}}
         = 1..(2^RoundCount(Field) - Field)

(* A chair is only ever filled by the winner of the match before. *)
ChairsAreEarned ==
  \A pos \in DOMAIN matches :
    ~IsFinal(pos, Field) =>
      matches[NextMatch(pos)][NextSide(pos)] \in {Nil, matches[pos].winner}

(* Once both matches before it are decided, a match opens: of two winners  *)
(* who take their chairs at once, one sees both filled.                    *)
Feeders(pos) == {q \in DOMAIN matches : ~IsFinal(q, Field) /\ NextMatch(q) = pos}
Waits(pos) ==
  /\ pos \in DOMAIN matches /\ matches[pos].state = "pending"
  /\ \A q \in Feeders(pos) : matches[q].state \in {"bye", "done"}
EveryMatchOpens ==
  \A pos \in {q \in AllPositions : q[1] > 1} : Waits(pos) ~> ~Waits(pos)

(* Entrants are seeded from the standings: a better standing, as the       *)
(* discipline has it, is a better seed.                                    *)
SeededByStanding ==
  \A p, q \in Seeded :
    Standing[p] # Nil /\ Standing[q] # Nil /\ Standing[p] # Standing[q] =>
      (seed[p] < seed[q] <=>
         IF HigherIsBetter THEN Standing[p] > Standing[q] ELSE Standing[p] < Standing[q])
=============================================================================
