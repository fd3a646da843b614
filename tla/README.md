# Formal models of challenges-api

TLA+ models of the API's Worker (`src/`), model-checked with TLC and, for the
core, proved with TLAPS.  Paths and line numbers below refer to the repository.

## The system

A Cloudflare Worker (Hono routes) in front of a D1 database (SQLite).  There is
no other memory: **all state is in tables**, and every request is a handler that
reads and writes them.  One SQL statement, or one `DB.batch`, is atomic; a
handler awaits each of them, and any other handler may run in between.  There is
no transaction around a handler, nothing retries it, and it may die between two
statements.  This is the model of execution of all the modules: *a handler is a
process with a program counter and local variables, one statement is one action*.

### Components

| component | state it keeps | operations | talks to | correct if |
|---|---|---|---|---|
| **Ledger, exam, board** (`routes/compete.ts`, `qualify.ts`, `projection.ts`, parts of `admin`, `verify`, `social`, `identity`, `lib`) | `entries`, `qualifications`, `standings`, `players.status`, `player_regions` | submit, review, verdict, moderate, lift a suspension, choose a region, rebuild | everything that counts a run | the board is what the ledger says; only the qualified and not banned are on it; only decided, proven runs count |
| **Aggregation** (`standings.ts`) | none | best, sum, count, streak, live streak | board, exam, challenges | the streak is the longest run of consecutive days |
| **Matchmaking** (`routes/live.ts`) | `queue_tickets`, `pairings` | queue, pair, poll, expire, cancel | webhooks, events | nobody is paired twice, alone or with themselves |
| **Verification queue** (`routes/verify.ts`, `packages/verifier`) | `verifier_modules`, `verification_jobs`, `usage_counters` | upload, point, queue, claim, verdict, error | ledger | every held run is decided once, billed once, or given up after three failures |
| **Season close and titles** (`routes/admin.ts`, `titles.ts`) | `seasons`, `titles` | close, award | board | titles are those of the final board, told once |
| **Challenges** (`routes/compete.ts`, blocks in `social.ts`) | `challenges`, `challenge_entries` | create, accept, expire, settle, dissolve | submissions, blocks | decided once, by a run after acceptance |
| **Matches and ratings** (`routes/compete.ts`, `glicko.ts`) | `matches`, `match_placements`, `ratings` | report | matchmaking | a match is counted once, a rating comes from all matches |
| **Tournaments** (`routes/tournaments.ts`, `bracket.ts`) | `tournaments`, `tournament_entrants`, `tournament_matches` | create, join, start, report | board, webhooks | one bracket, one champion, byes to the top seeds |
| **Webhooks** (`webhooks.ts`) | `webhook_deliveries`, `webhooks` | deliver, retry | cron, operator | delivered or failed in the end, never given up early |
| **Access** (`routes/access.ts`) | `region_waitlist`, `regions.active`, `invites` | wait, unlock, invite | identity, titles | a list that is long enough opens its region; everybody on it is told |
| **Identity, recovery** (`routes/identity.ts`, `routes/recovery.ts`) | `players`, `sessions`, `link_codes`, `recovery_tokens`, `webauthn_challenges`, `passkeys` | sign up, link a device, recover, erase | invitations, moderation | a code opens one session; recovery ends the others |
| **Developers** (`routes/developers.ts`) | `developers`, `developer_sessions`, `login_tokens`, `apps`, `api_keys` | sign in, create an app, mint and revoke keys | everything a key lets in | an older mail is dead; an app keeps a live key |
| **Usage** (`usage.ts`) | `usage_counters`, `usage_frozen` | freeze, report | cron, ledger, verification | a frozen day stays as it was reported; every day is frozen |
| **Badges** (`badges.ts`, `routes/collect.ts`) | `player_badges`, `player_items` | evaluate, grant | ledger, exam, titles | held exactly if its rule says so, once it was looked at |
| Social, retention | follows, reports; - | single statements | - | - |
| Presence, signatures, catalogue, OpenAPI, console, clients, site | - | I/O, text, cryptography | - | not modelled |

The hard part is everywhere the same: **read, decide, write in three statements
with other handlers in between**, and a projection (`standings`) that is kept up
to date incrementally and must equal what a rebuild would write.  `PROJECT.json`
lists the hazards at their lines.

## Modules

| module | models |
|---|---|
| `Aggregation` | `aggregateCte()` and `currentStreak()` as operators over a set of runs |
| `Streaks` | a player's runs, counted and rejected one by one, to check them on |
| `Standings` | ledger, exam and board of one discipline in one season |
| `StandingsProofs` | its safety theorems under every interleaving, and for calls one after the other: the board is the ledger |
| `Pairing` | what matchmaking promises: tickets are paired off, for good |
| `Matchmaking` | the queue of one discipline; implements `Pairing` |
| `MatchmakingProofs` | its theorems, the refinement among them; what a join ticket is for; the theorems of `Ratings` |
| `Bracket` | `bracket.ts`: seed order, first round, where a winner goes |
| `Knockout` | what a tournament promises: one after the other goes out, the last is the champion |
| `Tournament` | one tournament with its handlers; implements `Knockout` |
| `TournamentProofs` | its theorems, the refinement among them, and what `Bracket` computes for any number of entrants |
| `Challenges` | challenges of one discipline, and what a block does to them |
| `ChallengesProofs` | its type invariant and who may win |
| `Webhooks` | the deliveries of one endpoint |
| `Usage` | the entries of one app by day, and the counters they are frozen into |
| `Scheduled` | composes the two: the cron, next to requests, time and the ledger |
| `ScheduledProofs` | its type invariant and three theorems |
| `Verification` | the queue of runs to be proved and its verifiers |
| `VerificationProofs` | its type invariant and when a job is given up; that a verdict stands |
| `Ratings` | matches and the games a rating comes from |
| `Season` | the close of a season and its titles, waitlists and the opening of regions |
| `SeasonProofs` | its type invariant; titles follow the board, full regions open; the theorems of `Rewards` and `Streaks` |
| `Rewards` | badges and collections of one player |
| `Accounts` | players: sign-up, invitations, devices, recovery, passkeys, erasure |
| `Console` | developers: sign-in, apps and their keys |
| `AccountsProofs` | the theorems of both |
| `MCStandings`, `MCMatchmaking`, `MCQueues`, `MCTournament`, `MCChallenges`, `MCScheduled`, `MCAccounts`, `MCSeason` | instances for TLC |

`MCMatchmaking`, `MCQueues`, `MCAccounts` and `MCSeason` hold several instances of modules that share no table.  Their
variable `part` is chosen in the initial state and never changes: a behaviour is
one of one instance while the others stand still, so a run explores the sum of
their states and not the product, and a property of one says of a behaviour of
another nothing but that its initial state is right.

### Standings

Variables are the tables (`entries`, `jobs`, `quals`, `standings`, `status`,
`home`) and, per call, `pc` (its next statement), `mem` (the handler's local
variables) and `answers`.  A call is identified by a member of `Requests`; the
entry it inserts bears its name, so ids are unique as `id('ent')` is.

| code | actions |
|---|---|
| `POST /v1/entries` (compete.ts:53-226) | `Submit`, `Lookup`, `ReadRegion`, `Insert`, `Hold`, `Enqueue`, then `Sync` and `Refresh` |
| `POST /v1/admin/entries/:id/review` (admin.ts:300-334) | `Review`, `Decide`, then `Sync` and `Refresh` |
| `POST /v1/verifier/jobs/:id/result` (verify.ts:272-350) | `Result`, `Verdict`, then `Sync` and `Refresh`; `Retry`, `GiveUp` |
| `syncQualification()` (qualify.ts) | `ReadAggregate`, `ReadExam`, `Pass`, `Improve` |
| `refresh()`, `eligibility()` (projection.ts:37-108) | `ReadLedger`, `Drop`, `ReadStatus`, `ReadQualified`, `WriteStanding` |
| moderation (social.ts:236-294), `setEligibility()` | `Moderate`, `SetStatus`, `Sweep` |
| a suspension that has run out (lib.ts:222-231) | `Authenticate`, `LiftSuspension` |
| `PATCH /v1/me/region` (identity.ts:229-271) | `ChooseRegion`, `LockRegion` |
| `rebuild()` (projection.ts:299-318) | `Rebuild`, `ClearBoard`, `ReadPlayers`, `NextPlayer`, with `Refresh` for each player |
| a handler that dies | `Crash` |

`Aggregate` is a constant operator: the proofs hold for every aggregation, the
runs take lowest and sum from `Aggregation`.  A verification job
is reduced to what a verdict depends on: open or done, and the last verdict.
That a suspension's time is up is a free choice.  The last reads of a handler,
ranks and page, are left out; so are settling challenges and badges, which touch
other tables.

### Verification

Variables are the module's row (`module`) and the discipline's reference to it
(`pointed`), `jobs` by age, of their `entries` what the queue writes, and the
counter `billed`.

| code | actions |
|---|---|
| `POST /v1/verifier/modules` (verify.ts:99-153), `POST /v1/disciplines/:slug/verifier` | `Upload`, `Point` |
| `queueVerification()` (verify.ts) | `Queue` |
| `POST /v1/verifier/claim` (verify.ts:229-270) | `Claim`, `Take`, `Fetch` |
| `drain()`, `handle()` (packages/verifier) | `Work`, `Return`, `Throw` |
| `POST /v1/verifier/jobs/:id/result` (verify.ts:272-350) | `Read`, `Decide` (one batch), or `Requeue` and `GiveUp` |
| a lost call, a verifier that dies | `Lose`, `Return`, `Die` |

The last SELECT of a claim asks for jobs that are claimed, not by whom: two
verifiers may get the same one.  `shared` is a history variable that says it
happened, `faults` counts what failed, and `failures` the error verdicts of a job.
What the re-simulation finds is a free choice of every one, so two that hold the
same job may disagree.  The verdict's way to the board is in `Standings`, where a
job is reduced to open or done.

### Matchmaking

`tickets[c]` is the ticket call `c` inserted, `pairings` the calls whose
`pairings` row exists, `issued` the join tickets handed out.  `POST /v1/queue`
is `Queue`, `Insert`, `Seek`, `Claim` and then `Record` or `Undo`
(live.ts:147-273); `GET` is `Poll` and then `Expire` or `Issue`; `DELETE` is
`Cancel`.  Each statement binds its own `now()` when it is sent: `valid` keeps
which tickets had not run out at that time, so that a claim may take a ticket
that runs out on the way, as the code may.

`Promise` maps it to `Pairing`: the owner of a ticket is its player, and the
pairs are the sets of two tickets that carry the same `pairing_id`, whatever
became of their state later.  A half claim is not a pair, so it and its undo are
stutters, and the claim that catches both is the step that pairs.

### Ratings

`matches`, `placements` and `ratings` are the tables.  `POST /v1/matches`
(compete.ts:604-740) is `Report`, `Insert`, `Place` (one batch), `Read` for each
player and then `Write` for each player.  A rating is the set of the games it was
computed from, with the score of each and how many games the opponent's rating
had behind it as it was read: whatever Glicko-2 computes is a function of that.
The number of matches is counted up in the UPSERT, the rating is written as it
was computed.

### Tournament

Variables are the `tournaments` row (`state`, `champion`), the entrants with
`seed` and `out`, and `matches` by `<<round, slot>>`.

| code | actions |
|---|---|
| join (tournaments.ts:80-114) | `Join`, `Count`, `Enter` |
| start (tournaments.ts:116-222) | `Begin`, `ReadField`, `Draw` (one batch), `ReadByes`, `NextBye`, then `Seat` and `Open` for each bye |
| report a match (tournaments.ts:255-316) | `Report`, `Look`, `Decide` (one batch), then `Crown`, or `Seat` and `Open` |
| `advance()` (tournaments.ts:225-253) | `Seat`, `Open` |

The cap on entrants is read before the insert and may be passed by joins at the
same time; the bracket is drawn for whoever was there when it was read.  Two
starts at once are told apart by the unique index on the matches, which refuses
the whole batch of the second.  A winner takes the chair in one statement and
the next match opens in another; of two winners at least one sees both chairs.

`Promise` maps it to `Knockout`: those still in are the seeded entrants that are
not `out`.  Joining, drawing byes, seating and opening are stutters.

Assumed: entrants are qualified (the check of the exam is that of `Standings`),
the board does not move while a start reads it, and reports of one match that are
under way at once name the same winner.  Retries and duplicates are in; two apps
that disagree at the same moment are not, and the code has no guard for them
(`UPDATE ... WHERE id = ?`): a hazard without a property.

### Challenges

Variables are the ledger as a sequence (`runs`: the index is the id and the
time), the `challenges` row, the opponent's `challenge_entries` row (`entered`),
`blocks`, and of `expires_at` the sign of what is left of it (`left`).

| code | actions |
|---|---|
| `POST /v1/challenges` (compete.ts:412-482) | `Invite`, `Target`, `Barrier`, `Create` (one batch) |
| `POST /v1/challenges/:id/accept` (compete.ts:500-529) | `Accept`, `Enter` (one batch) |
| `GET /v1/challenges` (compete.ts:531-541) | `Expire` |
| `settleChallenges()` (compete.ts:560-600), at the end of a submission | `Submit`, `Find`, `Weigh`, `Settle` |
| a held run is reviewed (admin.ts:300-334) | `Review`, reduced to what it does to the run |
| block, unblock (social.ts:139-174) | `Block`, `Unblock` |
| the clock | `Tick` |

Assumed: only the order of time matters.  Each statement's `now()` is the moment
of its effect, but for an acceptance, which may have bound it any time since it
read the challenge.  A handler that dies takes no further step, which safety
allows for anyway.  The challenger's own `challenge_entries` row and the
`ranked` flag are written and not read here, and are left out; so are the events
recorded on the way.

`overlap` is a history variable: it says that two calls have been under way at
once, and the properties that hold call after call are stated of the part of a
behaviour before it.

### Webhooks, Usage, Scheduled

`Webhooks` and `Usage` are each a set of actions over their own tables, without a
next-state relation; `Scheduled` instantiates both and says who takes which.

| code | actions |
|---|---|
| `deliver()` (webhooks.ts:20-48) | `Event`, `Insert`, then `Send` and `Write` |
| `attempt()` (webhooks.ts:53-98) | `Send` (the POST and its answer), `Write` (one batch, by id) |
| `retryDue()` (webhooks.ts:100-115) | `RetryDue`, `NextRow`, with `Send` and `Write` for each row |
| `DELETE /v1/webhooks/:id` | `Deactivate` |
| `next_try_at` has come | `ComeDue` |
| `freezeUsage()` (usage.ts:35-76) | `Freeze`, `ReadFrozen`, then for each day `Skip`, or `CountDay`, `WriteCounter`, `Mark`; `Return` |
| `usageForMonth()` (usage.ts:78-147) | `Reported(day)` |
| an entry, an account erased, midnight | `Submit`, `Erase`, `Midnight` |
| `scheduled()` (index.ts:111-128) | `Trigger`, `Retry`, `GoOn`, `FreezeOn`, `End`, `CronDies` |
| a request that queues an event or retries | `Request`, `RequestDies` |

The retention sweep, the first thing the cron does, touches none of these tables.
A post of a delivery may fail for ever: the model's endpoint answers as it likes.
`sent` is a history variable that counts the posts.

### Season

`active` are the open regions, `board` the row of each player, of which the board
of a region takes those whose district lies in it; it changes freely (`Refresh`).

| code | actions |
|---|---|
| `POST /v1/admin/seasons/:id/close` (admin.ts:94-117), `awardTitles()` | `Close`, then by level `ListRegions`, and by region `Top`, `Total`, `Award`, `TellTitle`; `CloseSeason`, `OpenNext` |
| `POST /v1/waitlist/:region` (access.ts) | `Wait`, `Join`, `Count`, then as an unlock |
| `POST /v1/admin/regions/:id/unlock`, `unlockRegion()` | `AskUnlock`, `Unlock`, `Who`, `Notify` for each, `Mark` |
| `PATCH /v1/me/region` (identity.ts:229-271) | `Settle`, `Finer`, `MoveIn` |

`since` is history: whether boards or regions moved since the first real close
began.  Who leads among equals is a free choice of `Top`, as the order of rows is.

### Rewards

What a player has (`runs`, `passed`, `titles`, `owned`) and what is `listed` and
awarded (`badges`, `held`, `told`).  `evaluateBadges()` is `Read`, and for each
candidate `Weigh`, `Give`, `Tell`; it follows an entry that counts (`Enter`,
`Exam`), a match (`Play`) and a grant (`Grant`).  A run that has to be proved
counts between its INSERT (`Trace`) and the statement that holds it (`Hold`), and
an evaluation of another call may see it.  What no evaluation follows, a title, a
verdict, a review, a new item or badge, is `Elsewhere`.  `satisfies()` is
`Reached` for the rules that count something, of the `Facts` they read, and
`Satisfies` for those made of others: a recursive function over all the `Rules`
there are, whose `Depth` says that they nest finitely, as JSON does.  A total over
values is reduced to the number of days with a run.
`behind` and `undone` are history: badges that no call has looked at since a
change, and whether something was taken back.

### Accounts and Console

`tickets` are the rows of `link_codes`, `recovery_tokens` and
`webauthn_challenges` by their kind; deleted rows are `Nil`.

| code | actions |
|---|---|
| `requirePlayer()` (lib.ts) | `Arrive`, `Lift` |
| `POST /v1/auth/anonymous` (identity.ts:20-107) | `SignUp`, `Code`, `Join` (one batch), `Redeem` |
| `POST /v1/me/invites`, `POST /v1/invites` (access.ts) | `Allowance`, `Give` (one batch); `AppInvite` |
| `POST /v1/auth/redeem` (identity.ts:126-159) | `Link`, `Device` (one batch) |
| a link code asked for (identity.ts:114-124); rescue address: set, confirm, delete (recovery.ts:328-401) | `Ask`, `Confirm`, `Adopt`, `Forget` |
| `POST /v1/auth/recover` and its callback (recovery.ts:403-487) | `AskRecovery`, `Mail`, `Recover`, `Restore` (one batch), `Open` |
| passkeys (recovery.ts:67-253) | `Ask`, `Register`, `AskAuthenticate`, `Authenticate`, `Challenge`, `Burn`, `Store`, `Open` |
| other sessions, `DELETE /v1/me` (one batch) | `RevokeOthers`, `Erase` |
| an operator, time | `Moderate`, `Lapse` |

`Console` has developers the same way: mails and GitHub (`AskMail`, `SendMail`,
`AskGitHub`, `Follow`, `Guess`, `Wrong`, `Use`, `Others`, `Abroad`, `Account`,
`CreateAccount`, `StartSession`), sessions (`Arrive`, `Revoke`), apps (`AskApp`,
`CreateApp`, `IssueKeyPair`) and keys (`AskKey`, `Mint`, `AskRevoke`, `Last`,
`Retire`).  The hour of the rate limits is the length of a behaviour.  In both
modules `overlap` is history: two calls have been under way at once.

## Runs

All runs finish within the bounds given; the bounds are constants named in the
modules (`Kinds`, `MaxInFlight`) or the sizes of the sets.  Deadlock is not
checked where every call has been used up in the end, which is the end of the
bounded run and not of the program, nor in `Tournament`, where a finished
tournament answers 409 to everything; nor in `Challenges` and `Scheduled`, whose
bounded ledger, deliveries and deaths are used up; nor in the instances of several
parts, whose calls are used up likewise.

| run | question | bounds |
|---|---|---|
| `MCStandingsRaces` | what holds under every interleaving: exam before board, qualifications earned, held runs stay out, own region only, one entry per key | three calls, all at once, two players, two regions, sum, bar 2, limit 2, crashes |
| `MCLedger` | call after call: is the board the ledger, does no run count without its proof, does a rebuild restore the board | five calls one after the other, two players, one region; a module, the lowest of the values 1 to 3 counts, bar 2, limit 2; verdicts, bans and rebuilds |
| `MCMatchmaking` | refinement of `Pairing`, join tickets, types; is every match counted, and rated by all before it | part `queue`: two players, four calls, two at once, expiry, cancellation, crashes; part `matches`: three players, two handlers, two calls, one key |
| `MCQueues` | liveness of both queues that claim; is a job given up too early; does a verdict stand | part `single`: a verifier with a batch of two, two jobs; `several`: two verifiers, one job; both two faults, four attempts, two verdicts billed; part `players`: three players, three calls at once, a party |
| `MCTournament` | refinement of `Knockout`; is the bracket the one drawn, and are the top seeds spared; chairs are earned; every match opens | five players, two handlers that take call after call, room for four |
| `MCChallenges` | is a win earned after acceptance; does a decision stand; is a beaten target settled | one challenge, three players, two handlers, three runs, sum, limit 2, one block |
| `MCScheduled` | are deliveries given up only when they may be; do they end; does a frozen day stay; is every day frozen | one delivery of two attempts, cron and one request, two days, two entries a day, one death |
| `MCAccounts` | do invitations add up; does a code open one session and recovery end the others; are older mails dead; is a last key kept | two calls at once, five calls; part `players`: two players, one of them new, an allowance of one; part `developers`: one app, two mails an hour, two attempts |
| `MCSeason` | are titles those of the board; do full regions open and tell everybody; are badges due; are streaks the longest runs of days | part `season`: two districts of a city, two players, two handlers, three calls; `rewards`: two apps, three badges of nested rules, three calls; `streaks`: every set of four runs on six days |
| `MCStandingsStale` | is the incremental board the rebuilt one when two handlers of one player overlap? **No** | two calls at once |
| `MCChallengesBlock` | does a block end what two players have running? **No** | one handler |
| `MCTournamentSeeding` | does a better standing make a better seed? **No** | four players, one handler, lower is better |

Two or three calls at once are enough for the races of interest: each is between
a reader and one or two writers of the same row, and a call goes through every
statement of its handler.  Two players show what one player's call does to the
other's row; the theorems lift the bound for what they state.

Some properties hold in every interleaving, others say what they promise of calls
that came one after the other, `~overlap => ...`, or while no job was in two hands
or nothing moved.  These are no weakening chosen for convenience: under races the
code does lag behind (`MCStandingsStale`), overdraw an allowance or lose a rating,
and what can be promised is that, call after call, it is right, for every order of
the endpoints and every outcome.  Calls overlap in these runs all the same, and
the parts of the properties without that condition are checked there.

A claim's batch of two and two verifiers with one job are enough for `MCQueues`:
what is claimed together is worked one after the other, and two can share any job
they can share at all.  Four attempts let a shared job pass the limit of three.
A season's two levels let a district and the city above it have titles that
differ, and one of them be opened on the way.

### What the violated properties say

* `MCStandingsStale`: `refresh()` reads the ledger, then status and exam, then
  writes all of it.  Two submissions of one player (or a ban and a submission)
  can leave the older value, or eligibility, until the player's next entry.
  docs/api.md:192-194 promises the incremental result equals the rebuilt one.
* `MCChallengesBlock`: compete.ts:516 refuses to accept a challenge only when it
  is settled, so one that a block set to `expired` runs again, and an open
  invitation is accepted across a block.  docs/architecture.md:114-115 says that
  challenges are dissolved.
* `MCTournamentSeeding`: tournaments.ts:150 sorts by descending value whatever
  the direction of the discipline; docs/api.md:259-262 promises seeds from the
  standings.

Seen on the way and left without a run:

* verify.ts:311-317 gives up on a job without a refresh: a run an operator had
  counted leaves the ledger and stays on the board until the player's next entry.
* verify.ts:249-262: two verifiers that claim at once get the same jobs; each may
  be decided twice, by verdicts that differ, and is billed twice.
* A claim has no lease: a verifier that dies, loses the answer to a report twice,
  or is told 409 leaves what is left of its batch claimed for ever.  A module
  can no longer be uploaded again once a discipline or job points at it: the
  upsert writes a new id (verify.ts:118-119), which the foreign keys refuse
  (migrations/0009_verification.sql:38,56).
* Two match results at once read the same ratings: one game is lost to each rating
  they share, though it is counted.  A match whose placements fail, because a body
  names somebody twice or the handler dies, stays, is never rated, and is the
  answer to every retry under its key.
* titles.ts:100 announces `contenders: rows.length`, which is at most 2; the title
  itself carries the total.  A close does not ask for the season's status, and two of them may
  each open a next season, under different ids.
* A player who joins a waitlist between the SELECT of who waits and the UPDATE
  that marks all (access.ts:223-234) is marked and never told.
* No evaluation of badges follows a title, a verdict, a review, a new badge or a
  new item; the next entry, match or grant does.  A badge stays when its
  collection grows or its run is taken back, and one can be earned by a run that
  another statement is about to hold.
* Two uses at once of one invitation, link code or allowance all succeed; a
  handler that dies between the account and the use leaves the use uncounted.
  A link code is redeemed for a banned player too.
* `DELETE /v1/me` (identity.ts:359) is final only for who has no invitation,
  follow, block, report, waitlist or presence row: D1 refuses the batch for the others.
* social.ts:267-271: of two reports of one player on another a second cannot be
  resolved the same way, `reports_once_idx` is unique over the state as well.
* developers.ts:649-680: revoking counts keys that have expired as live, and two
  revocations at once may leave none.  An app whose creation dies before its key
  pair has none.
* lib.ts:224 lifts a suspension by id: a ban set since the row was read is lifted
  with it.
* A run without its trace is refused with 400 (compete.ts:166-167) after its entry
  was inserted as counted; the hypothesis of `ProvenRunsCount` leaves it out.
* The check for a waiting ticket (live.ts:158) and the insert are two statements:
  two calls at once give a player two, where docs/api.md:207-208 says one.
* A region chosen after the first run is on the board after a rebuild, but
  incrementally only with the next entry.
* live.ts:294-300 expires by id a ticket that a claim may have matched in between.
* Two posts of one delivery at once write their outcome by id: a late failure sets
  a delivered one to pending, and it is sent again.
* An entry whose `occurred_at` lies on a day that is frozen already is in no
  report: usage.ts:82-83 says there is no gap.
* Between the counter and the marker of a day (usage.ts:60-72) that day counts
  twice, and if the cron dies there, until the next one (tests/usage.test.ts:119 calls that state one
  `freezeUsage` never writes; `CounterHasMarker` says where it does not).
* A submission repeated under its idempotency key answers early (compete.ts:97)
  and settles nothing; nor does a held run that is counted by review.  The next
  submission does.

### Fairness

`MCQueues` assumes, of players, weak fairness of `Proceed(c)` for every call: a
handler whose statement returned goes on.  That is what the runtime gives a
handler that is not killed (and that part has no crashes: after one, a half claim
does stay, which the code accepts).  Nothing is assumed of clients: nobody is
made to queue, poll or cancel, and time is not made to pass.  Of verifiers it
assumes that each drains the queue again and again, as a scheduled process does,
and that a call goes on; `EveryJobEnds` promises nothing once a call failed, a
verifier died or two held the same job, because then a job may stay claimed.

`MCTournament` assumes the same of its handlers (`Proceed(h)` leaves out `Join`,
`Begin` and `Report`, which are the clients').  Its safety properties hold for
the prefixes as well, and so for handlers that die anywhere.

`MCScheduled` assumes that the cron is called again and again (its schedule) and
goes on, that a request goes on, and that `next_try_at` comes.  Handlers may die
at any step, finitely often.  Nothing is assumed of the endpoint, which may never
answer, nor of events, submissions, erasures and midnight.  Without a cron that
goes on in the end neither liveness property would hold.

## Proofs

`tlapm` checks every theorem for all values of the constants, from the named
assumptions of the modules: values and bars are integers, an aggregate of a
non-empty set of runs is an integer, NULL is not a row, a player or a number,
players and regions are finitely many, limits and thresholds are numbers, levels
of regions are positive (migrations/0001_core.sql:81).  Modules that a theorem
reaches by INSTANCE state what they assume as a definition, `Parameters`:
`MCMatchmaking`, `MCAccounts` and `MCSeason` assume it of `Ratings`, `Console` and
`Rewards` (`RatingsParameters`, `ConsoleParameters`, `RewardsParameters`: finitely
many disciplines, days and rules, numbered days, rules that nest finitely), and TLC
evaluates it there.

* `StandingsProofs!TypeCorrect`: the type invariant.  It is not inductive as
  it stands: what a local variable holds depends on the statement the handler is
  at.  The strengthening says for each label which locals are set and of what
  type; a step of one call leaves the other calls' part alone, so most of the
  proof is one lemma per action about the call that takes it.
* `StandingsProofs!ExamFirst` (`ExamBeforeBoard`): the invariant adds that a
  handler about to write an eligible row, or one that read an exam as passed,
  has a qualified player; qualifications are never taken back, so the fact
  survives every other call's step.
* `StandingsProofs!QualifiedByTheBar`: a handler at `pass` holds an aggregate
  that passes, one at `improve` one that beats a value that passes.
* `StandingsProofs!RegionLocked` (`OwnRegionOnly`): every copy of a region
  (in an entry, in a handler, in a rebuild's list, in a row) is the locked one
  or none, because a lock is never changed.
* `StandingsProofs!ProvenRunsCount` (`UnprovenRunDoesNotCount`), under the
  hypothesis that there is a module and no untraced submission, operator review
  or crash: an entry counts only while its own submission is still on the way
  to hold it, or its job's last verdict is `counted`.  The hypothesis is the
  case of the missing trace (see above) turned round.
* `StandingsProofs!KeysNameOneEntry` (`OneEntryPerKey`): the unique index keeps
  two entries of a player and key apart, an answer names an entry of its own
  player and key, and no statement changes either in an entry that is there; so
  a call whose lookup found nothing and whose insert lost is told the winner's.
* `StandingsProofs!HeldRunsAreOff` (`HeldRunsStayOff`): without a module nothing
  holds an entry that is decided, an operator only counts or rejects it again.
  A value that a handler carries, or that is stored, was made of decided entries
  and is still made of decided ones, however long it was carried.
* `StandingsProofs!BoardFollowsLedger` (`BoardIsLedger`): the invariant, `LedgerInv`,
  says of a call on its way what it has still to do for the board.  A player with
  no such call has a row that fits: the value of the counted runs, eligible
  exactly if not banned and past the exam, or none.  While a call is before its
  refresh, its own player's row may be old, and what it carries must already be
  the ledger's (`Fresh`: a value read, a player found banned, a flag computed); an
  entry that is under way to be held is not yet in any row; a job that waits
  belongs to a run that is not counted, so a verdict that gives it up leaves
  the ledger alone.  Each is broken by one of the calls the
  hypotheses name, and each of those leaves the board old in the code as well: a
  report that suspends a banned player (its status changes without a refresh), a
  run without its trace, a give-up after an operator's count.
* `StandingsProofs!RebuildRestores` (`RebuildRestoresTheBoard`, an action property):
  once the board is cleared a rebuild has visited a player, has it under way, has
  it still to visit with the region it has now, or the player has no counted run;
  the rows of the visited are derived and those of the others are gone
  (`RebuildInv`).  Nothing is asked of the board it started from.
  Both theorems rest on `SerialInv`, that one call at a time is under way and
  what it has read is still so.  TLC has checked the three invariants on two
  instances, with a module, verdicts and rebuilds, and without one, with reviews.
* `MatchmakingProofs!TypesCorrect` (`TypesOK`), and `MatchmakingProofs!PairsOff`
  (`KeepsPromise`): every step of the queue is a step of `Pairing` or a stutter.
  The invariant says that a waiting ticket carries no pairing, that a pairing's
  tickets are the two its claim named, and that they have different players.
* `MatchmakingProofs!JoinTicketsForPairs` (`JoinTicketsAreForPairs`): a poll may
  read a ticket that half a claim has caught, and the claim may be undone before
  the poll goes on.  The invariant says of the pairing a poll has read that the
  ticket is still claimed for it, or that its call has ended without writing it;
  so a pairing that is written is the ticket's, and what a call that ended has
  claimed is never changed.  TLC has checked this invariant, `JInv`, with the
  constants of `MCMatchmaking`.
* `MatchmakingProofs!MatchesAreRated` (`EveryMatchIsRated`), of `Ratings`: a key
  names one match, whatever overlaps (`RKeysInv`), and the matches a rating has
  counted and the writes that are still to come add up to the matches played
  (`RCountInv`), because the count is taken up in the UPSERT and not in the
  handler.  What a rating was computed from is right call after call only: alone,
  a handler finds every rating made of all the matches before its own, and those
  it has written are made of its own as well (`RGamesInv`).
* `ChallengesProofs!DecidedByPerformance` (`WonAfterAcceptance`): a handler about
  to settle holds a value that runs since the acceptance have reached and that
  beats the target.  It stays so whatever the others do, because runs are added
  and reviewed but never changed, and a challenge keeps its challenger and target,
  an acceptance its time; two handlers that create never hold the same id.
  `TypeCorrect` comes from the same invariant.
* `ChallengesProofs!WinnersStand` (`DecisionStands`, an action property): while no
  two calls have overlapped, at most one handler is under way, and the challenges
  it has found undecided still are; one with a winner is settled, or expired with
  its time over, and no call accepts, expires, blocks or looks for such a one.
* `ChallengesProofs!BeatenAreSettled` (`BeatenIsSettled`, an action property): the
  opponent of an accepted challenge has entered it, so the submission's SELECT
  finds it; while the submission weighs alone no run is added or decided, so what
  it has put aside is still not beaten when it ends.
* `ScheduledProofs!GivenUpAfterAll` (`GivingUpIsEarned`): the number of attempts
  a handler has read may be old, but never exceeds the posts; one that is about to
  write has posted once more than it has read.  This bounds what the last writer
  leaves, whoever it is.
* `ScheduledProofs!FrozenForGood` (`FrozenStays`, an action property) and
  `CountersAreMarked` (`CounterHasMarker`): of the days the cron has still before
  it, the frozen ones are those it has read as frozen, so it never writes the
  counter of one; and a counter without a marker is the one being written, unless
  a handler has died.  `TypeCorrect` comes from the same invariant.
* `VerificationProofs!GivenUpAfterThree` (`NoEarlyGiveUp`): a claim counts an
  attempt, and only an error verdict makes a job wait again, so one that waits has
  at most as many attempts as error verdicts, and any other at most one more;
  what a report has read may be old but is never too many.  A job in two hands
  breaks none of this: of two claims that race only one finds it queued and
  counts.  `TypeCorrect` comes from the same invariant.
* `VerificationProofs!VerdictsHold` (`VerdictsStand`): while no job is in two hands,
  a report that has found its job undecided, or gives it up, still has an
  undecided one when it writes, since the only other writer of a verdict would
  have to hold the job too; so a verdict meets a run that waits, and is billed as
  one more decided job.  `Return` and `Throw` never add to what a verifier has
  in hand, also when an answer is lost; only `Fetch` does, and sets `shared` when
  that makes two.  TLC has checked this invariant, `SInv`, for two verifiers, two
  jobs and one fault.

* `TournamentProofs!TypeCorrect`, and, from one invariant, the four that follow.
  The invariant, `Inv`, says that the bracket comes with the seeds and leaves
  `open` with it, seeds differ, nobody sits on two chairs of a round, who sits in
  a round has won a match of every round before, those that are out are those who
  lost, and a champion won the final; and of every handler that what it has read
  still holds when it takes its next step (`Agrees`), for a loser stays a loser
  and a decided match is decided again only the same way.
  * `TheDrawStands` (`SeedsAreTheDraw`): a field that was read is still a set of
    entrants when it is drawn, and the unique index lets one draw through.
  * `EveryChairIsEarned` (`ChairsAreEarned`).
  * `TheBestMeetLate` (`TopSeedsAreSpared`): a chair k rounds before the end is for
    the seed at its place in the seed order of 2^k, or for one worse than all of
    these (`SeedsKeepTheirPart`).  Drawn so in the first round, it stays so as
    winners advance, because the order of 2^(k+1) puts beside every seed of the
    order of 2^k the one it must beat.  Of two chairs of a match the order holds
    one seed of the better half and one of the worse.
  * `TheKnockoutIsPlayed` (`PlaysKnockout`): every step is a step of `Knockout` or a
    stutter.  Who decides the final is the last who has not lost, because
    everybody seeded but the winner has been beaten in some round.

  `SeedOrder` is a recursive function of the number of rounds; that it is what
  its definition says is proved by a least counterexample, since the prover has no
  induction, and powers of two are known as the number of subsets.  TLC has
  checked `Inv` with the constants of `MCTournament`.
* `SeasonProofs!TitlesFollow` (`TitlesFollowTheBoard`): every title was announced by
  an event, or is about to be by the one call whose INSERT won (`TellInv`), however
  many closes run.  While nothing has moved since the first close began, a region
  has the title it is due or every close on its way has it still before it
  (`CloseInv`), so the call that closes the season leaves none behind; a dry run
  writes nothing.
* `SeasonProofs!FullOnesOpen` (`FullRegionsOpen`): a list that is long enough has its
  region open, or a call is under way that has counted it or is about to
  (`FullInv`): of two who join at once the later count sees both.  Call after
  call, an open region's list is told, or the one call under way has still to tell
  those it has not told yet (`SerialInv`).
* `AccountsProofs!InvitationsAddUp` (`InvitesAddUp`): every account that came by an
  invitation is a use of it, or of a handler about to count one; erasing an
  account takes none back.  Alone, an allowance or invitation that was read as
  not used up still is not when it is drawn on (`InviteInv`).
* `AccountsProofs!TicketsOpenOneSession` (`OneSessionPerTicket`) and
  `RecoveryIsAlone` (`RecoveryEndsTheOthers`, an action property): alone, a ticket
  that a handler has read has opened no session and is still of the kind it was
  read for, and from the batch that recovers an account until the session that
  follows nobody is signed in (`TicketInv`).  A ticket that opened one is used, and
  no statement makes it unused again.
* `AccountsProofs!OlderMailsDie` (`OlderMailsAreDead`) and `LastKeysAreKept`
  (`LastKeyIsKept`), of `Console`: who is signed in by a mail, or about to be, has
  marked it and the older ones (`CMailInv`), whatever runs at the same time.
  Alone, the next sign-in is by a newer mail and every wrong code is counted
  (`CNewerInv`), and the key about to be revoked is not the last of its kind
  (`CKeyInv`).  `TypesCorrect` is about both modules.
* `SeasonProofs!StreaksFollow` (`StreaksAreRuns`).  The row number of a day is how
  many days there are up to it, so of two days the later has the greater day minus
  row number exactly if one is missing between them (`SamePlace`): a group is an
  island without gaps that cannot be longer (`BlockIs`), and the largest one is
  the longest run.  `currentStreak()` walks back over a finite set: before every
  day there is a nearest one that is missing (`ReachIs`), and the walk ends there
  (`WalkExists`, `WalkReaches`).
* `SeasonProofs!BadgesFollow` (`BadgesAreDue`).  Rules only ask for enough, so who
  has more satisfies what was satisfied (`MoreSatisfies`): for each type of rule
  (`MoreIsReached`; of streaks because a run of days stays one among more days)
  and for those made of others by a least counterexample over their depth.  A badge
  that is looked at is weighed with what is there by then, never with less than
  what was there: if it is due it is held, or still in the hands of a handler
  (`DueInv`), however many evaluate.  Unless something is undone, what is held or
  about to be given stays earned (`EarnedInv`); while other calls are under way,
  by what they may still hold back as well.  Alone, a handler gives what nobody
  has, and tells it once (`AloneInv`, `ToldInv`).

`CountersAreMarked` and the type invariants of `Scheduled`, `Verification`, `Season`
and `Tournament` are stated by theorems alone.

Every safety property of a passing run is a theorem.  Only model-checked is
liveness (`NobodyStaysAlone`, `EveryJobEnds`, `EveryMatchOpens`,
`EveryDeliveryEnds`, `EveryDayIsFrozen`), which is out of the prover's reach.

## Not modelled

Reading endpoints (pages, ranks, neighbourhoods, ghosts), scopes and the rate
limits of the middleware, WebAuthn and signatures, server-sent events, generated
texts, the Glicko-2 arithmetic, the importer, the SDKs and the site: pure reads,
I/O, cryptography or floating point.  Follows, handles, profiles, presence and
the operator's creation of apps, regions and seasons are single statements.  The
rollup of a region into its ancestors is in `Season`; in `Standings` it is reduced
to the region itself.  The region an invitation may carry, which sets the home
region at sign-up without the check for the finest open one (identity.ts:94-100),
is left out of `Accounts`.  The retention sweep deletes by age rows that no longer
matter to any operation modelled.

## Plan

Done: ledger and board, matchmaking, verification, tournaments, challenges,
webhooks and usage, the season's close, waitlists, badges, ratings, accounts and
developers.  Worth adding:

1. Type invariants of `Rewards` and the parts that no run lists, as theorems.
2. Operator reviews and give-ups in one instance of `Standings`, once the code
   refreshes the board after giving up.
3. Reports and their resolution, with the unique index over the state.
4. An invitation's region, with `Accounts` and `Standings` composed.
