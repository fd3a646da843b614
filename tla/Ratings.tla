------------------------------ MODULE Ratings -------------------------------
(***************************************************************************)
(* compete.ts, POST /v1/matches: the result of a match of several players  *)
(* becomes a match, its placements and a new rating of each of them.       *)
(*                                                                         *)
(* A handler is a process, one D1 statement or batch an action.  What      *)
(* glicko.ts computes is left open: a rating is the set of the games it    *)
(* was computed from, each with the opponent, the score, and how many      *)
(* games the opponent's rating, as it was read, came from.  One season,    *)
(* one discipline.  A request that dies takes no further step.             *)
(***************************************************************************)
EXTENDS Integers, Sequences, FiniteSets

CONSTANTS
  Players,
  Handlers,  \* calls that run at the same time
  Keys,      \* idem_key
  MaxCalls,  \* bound on the calls
  Nil

VARIABLES
  matches,     \* idem_key of each, in the order of insertion, or Nil
  placements,  \* match_placements: for each match the placement of each player, or 0
  ratings,     \* the row of each player, or Nil
  pc,          \* the next statement of each handler
  mem,         \* the local variables of each handler
  calls,       \* how many calls there have been
  overlap      \* history: two calls have been under way at the same time

tables == <<matches, placements, ratings>>
vars   == <<matches, placements, ratings, pc, mem, calls, overlap>>

Or(S)   == S \cup {Nil}
Places  == [Players -> 0..2]  \* 0: not in the match
Unrated == [games |-> {}, matches |-> 0]

Blank == [key |-> Nil, field |-> [p \in Players |-> 0], twice |-> FALSE, match |-> 0,
          before |-> [p \in Players |-> Unrated], todo |-> {}]

Game   == [match : Nat, foe : Players, score : 0..2, knew : Nat]
Row    == [games : SUBSET Game, matches : Nat]
Locals == [key : Or(Keys), field : Places, twice : BOOLEAN, match : Nat,
           before : [Players -> Row], todo : SUBSET Players]

(* What the parameters are. *)
Parameters ==
  IsFiniteSet(Players) /\ IsFiniteSet(Handlers) /\ MaxCalls \in Nat /\ Nil \notin Row

(* Rows and local variables keep their types. *)
TypeOK ==
  /\ matches \in Seq(Or(Keys))
  /\ placements \in Seq(Places) /\ Len(placements) = Len(matches)
  /\ ratings \in [Players -> Or(Row)]
  /\ pc \in [Handlers -> {"idle", "insert", "place", "read", "write"}]
  /\ mem \in [Handlers -> Locals]
  /\ calls \in 0..MaxCalls /\ overlap \in BOOLEAN

Init ==
  /\ matches = <<>> /\ placements = <<>>
  /\ ratings = [p \in Players |-> Nil]
  /\ pc = [h \in Handlers |-> "idle"] /\ mem = [h \in Handlers |-> Blank]
  /\ calls = 0 /\ overlap = FALSE

InFlight == {h \in Handlers : pc[h] # "idle"}
In(field) == {p \in Players : field[p] > 0}

Goto(h, label, locals) ==
  /\ pc' = [pc EXCEPT ![h] = label]
  /\ mem' = [mem EXCEPT ![h] = locals]
  /\ UNCHANGED <<calls, overlap>>

Finish(h) == Goto(h, "idle", Blank)

Known(key) == key # Nil /\ \E m \in DOMAIN matches : matches[m] = key

(* What is called with a key that is known is answered with its match.  A  *)
(* body may name somebody twice.                                           *)
Report(h) ==
  /\ pc[h] = "idle" /\ calls < MaxCalls
  /\ \E key \in Or(Keys), field \in Places, twice \in BOOLEAN :
       /\ Cardinality(In(field)) + (IF twice THEN 1 ELSE 0) >= 2
       /\ In(field) # {} /\ ~Known(key)
       /\ pc' = [pc EXCEPT ![h] = "insert"]
       /\ mem' = [mem EXCEPT ![h] = [Blank EXCEPT !.key = key, !.field = field, !.twice = twice]]
  /\ calls' = calls + 1 /\ overlap' = (overlap \/ InFlight # {})
  /\ UNCHANGED tables

(* Mutant: the key is only looked at before. *)
InsertTwice(h) ==
  /\ pc[h] = "insert"
  /\ matches' = Append(matches, mem[h].key)
  /\ placements' = Append(placements, [p \in Players |-> 0])
  /\ Goto(h, "place", [mem[h] EXCEPT !.match = Len(matches) + 1])
  /\ UNCHANGED ratings

(* The INSERT against the unique key: who comes second is answered with    *)
(* the match of the first.                                                 *)
Insert(h) ==
  /\ pc[h] = "insert"
  /\ IF Known(mem[h].key)
       THEN Finish(h) /\ UNCHANGED tables
       ELSE /\ matches' = Append(matches, mem[h].key)
            /\ placements' = Append(placements, [p \in Players |-> 0])
            /\ Goto(h, "place", [mem[h] EXCEPT !.match = Len(matches) + 1])
            /\ UNCHANGED ratings

(* The batch; the primary key refuses somebody who is named twice, and the *)
(* match stays without placements.                                         *)
Place(h) ==
  /\ pc[h] = "place"
  /\ IF mem[h].twice
       THEN Finish(h) /\ UNCHANGED tables
       ELSE /\ placements' = [placements EXCEPT ![mem[h].match] = mem[h].field]
            /\ Goto(h, "read", [mem[h] EXCEPT !.todo = In(mem[h].field)])
            /\ UNCHANGED <<matches, ratings>>

RatingOf(p) == IF ratings[p] = Nil THEN Unrated ELSE ratings[p]

(* Every rating is read before any is written. *)
Read(h) ==
  /\ pc[h] = "read"
  /\ IF mem[h].todo = {}
       THEN Goto(h, "write", [mem[h] EXCEPT !.todo = In(mem[h].field)])
       ELSE \E p \in mem[h].todo :
              Goto(h, "read", [mem[h] EXCEPT !.before[p] = RatingOf(p), !.todo = @ \ {p}])
  /\ UNCHANGED tables

(* pairwiseScores() of glicko.ts: everyone against everyone, in halves.    *)
Score(field, p, q) ==
  IF field[p] < field[q] THEN 2 ELSE IF field[p] = field[q] THEN 1 ELSE 0

Games(h, p, before) ==
  {[match |-> mem[h].match, foe |-> q, score |-> Score(mem[h].field, p, q),
    knew |-> before[q].matches] : q \in In(mem[h].field) \ {p}}

(* Mutant: the ratings are read one by one, as they are written. *)
WriteAsYouGo(h) ==
  LET now == [q \in Players |-> RatingOf(q)] IN
  /\ pc[h] = "write"
  /\ \/ mem[h].todo = {} /\ Finish(h) /\ UNCHANGED ratings
     \/ \E p \in mem[h].todo :
          /\ ratings' = [ratings EXCEPT ![p] =
               [games |-> now[p].games \cup Games(h, p, now), matches |-> now[p].matches + 1]]
          /\ Goto(h, "write", [mem[h] EXCEPT !.todo = @ \ {p}])
  /\ UNCHANGED <<matches, placements>>

(* updateRating() of what was read, and the UPSERT: the rating is written  *)
(* as it was computed, the number of matches is counted up where it is.    *)
Write(h) ==
  /\ pc[h] = "write"
  /\ \/ mem[h].todo = {} /\ Finish(h) /\ UNCHANGED ratings
     \/ \E p \in mem[h].todo :
          /\ ratings' = [ratings EXCEPT ![p] =
               [games |-> mem[h].before[p].games \cup Games(h, p, mem[h].before),
                matches |-> RatingOf(p).matches + 1]]
          /\ Goto(h, "write", [mem[h] EXCEPT !.todo = @ \ {p}])
  /\ UNCHANGED <<matches, placements>>

Next == \E h \in Handlers : Report(h) \/ Insert(h) \/ Place(h) \/ Read(h) \/ Write(h)

Spec == Init /\ [][Next]_vars

-----------------------------------------------------------------------------
PlayedBy(p) == {m \in DOMAIN placements : placements[m][p] > 0}

(* When no call is under way, a player's matches are counted, no key has   *)
(* two of them, and call after call the rating comes from all of them and  *)
(* from what each opponent's rating came from before that match: neither   *)
(* the order of the players nor a repeated call can change the outcome.    *)
EveryMatchIsRated ==
  InFlight = {} =>
    /\ \A m, n \in DOMAIN matches : matches[m] = matches[n] /\ matches[m] # Nil => m = n
    /\ \A p \in Players :
         /\ RatingOf(p).matches = Cardinality(PlayedBy(p))
         /\ ~overlap =>
              RatingOf(p).games = UNION {
                {[match |-> m, foe |-> q, score |-> Score(placements[m], p, q),
                  knew |-> Cardinality({n \in PlayedBy(q) : n < m})]
                   : q \in In(placements[m]) \ {p}} : m \in PlayedBy(p)}
=============================================================================
