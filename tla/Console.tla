------------------------------ MODULE Console -------------------------------
(***************************************************************************)
(* developers.ts: how a developer signs in, by a mail or by GitHub, and    *)
(* what a session may do to apps and their keys; and which keys            *)
(* resolveApp() of lib.ts accepts.                                         *)
(*                                                                         *)
(* A handler is a process, one D1 statement or batch an action.  One       *)
(* person signs in, with one address and one GitHub account, which are two *)
(* developers to the code.  Mails, codes, cookies and keys are rows named  *)
(* by their place.  A request that dies takes no further step.             *)
(***************************************************************************)
EXTENDS Integers, Sequences, FiniteSets

CONSTANTS
  Handlers,      \* calls that run at the same time
  Apps,          \* the slugs
  AppQuota,      \* developers.app_quota
  LinksPerHour,  \* LINKS_PER_HOUR; what the model covers is one hour
  CodeAttempts,  \* CODE_ATTEMPTS
  MaxCalls,      \* bound on the calls
  Nil

VARIABLES
  listed,      \* DEV_ALLOWLIST names the person
  tokens,      \* login_tokens and oauth_states, in the order of insertion
  developers,  \* by provider: the row, or Nil
  sessions,
  owner,       \* apps.owner_id by slug, or Nil
  keys,
  pc,          \* the next statement of each handler
  mem,         \* the local variables of each handler
  calls,       \* how many calls there have been
  overlap      \* history: two calls have been under way at the same time

tables == <<listed, tokens, developers, sessions, owner, keys>>
vars   == <<listed, tokens, developers, sessions, owner, keys, pc, mem, calls, overlap>>

Or(S)     == S \cup {Nil}
Providers == {"email", "github"}
KeyKinds  == {"public", "secret"}

(* `wrong` is history: how many wrong codes were answered. *)
Token     == [by : Providers, used : BOOLEAN, live : BOOLEAN, attempts : Nat, wrong : Nat]
Developer == [twoFactor : BOOLEAN]
Session   == [of : Providers, via : Nat, fresh : BOOLEAN, live : BOOLEAN]
Key       == [app : Apps, kind : KeyKinds, revoked : BOOLEAN, ends : BOOLEAN, expired : BOOLEAN]

Labels == {"idle", "send", "use", "others", "abroad", "account", "create", "session",
           "in", "app", "pair", "mint", "last", "retire"}

Blank  == [of |-> Nil, token |-> 0, session |-> 0, attempts |-> 0, key |-> 0, app |-> Nil,
           fresh |-> FALSE, two |-> FALSE]
Locals == [of : Or(Providers), token : Nat, session : Nat, attempts : Nat, key : Nat,
           app : Or(Apps), fresh : BOOLEAN, two : BOOLEAN]

(* What the parameters are. *)
Parameters == CodeAttempts \in Nat \ {0} /\ MaxCalls \in Nat /\ Nil \notin Providers \cup Developer

(* Rows and local variables keep their types; a session has its developer. *)
TypeOK ==
  /\ listed \in BOOLEAN
  /\ tokens \in Seq(Token)
  /\ developers \in [Providers -> Or(Developer)]
  /\ sessions \in Seq(Session) /\ \A n \in DOMAIN sessions : developers[sessions[n].of] # Nil
  /\ owner \in [Apps -> Or(Providers)]
  /\ keys \in Seq(Key)
  /\ pc \in [Handlers -> Labels]
  /\ mem \in [Handlers -> Locals]
  /\ calls \in 0..MaxCalls /\ overlap \in BOOLEAN

Init ==
  /\ listed = TRUE
  /\ tokens = <<>> /\ sessions = <<>> /\ keys = <<>>
  /\ developers = [by \in Providers |-> Nil]
  /\ owner = [a \in Apps |-> Nil]
  /\ pc = [h \in Handlers |-> "idle"]
  /\ mem = [h \in Handlers |-> Blank]
  /\ calls = 0 /\ overlap = FALSE

Alive    == {n \in DOMAIN sessions : sessions[n].live}
Unused   == {n \in DOMAIN tokens : ~tokens[n].used}
Mails    == {n \in DOMAIN tokens : tokens[n].by = "email"}
InFlight == {h \in Handlers : pc[h] # "idle"}

Call ==
  /\ calls < MaxCalls /\ calls' = calls + 1
  /\ overlap' = (overlap \/ InFlight # {})

Goto(h, label, locals) ==
  /\ pc' = [pc EXCEPT ![h] = label]
  /\ mem' = [mem EXCEPT ![h] = locals]
  /\ UNCHANGED <<calls, overlap>>

Finish(h) == Goto(h, "idle", Blank)

Start(h, label, locals) ==
  /\ pc[h] = "idle" /\ Call
  /\ pc' = [pc EXCEPT ![h] = label]
  /\ mem' = [mem EXCEPT ![h] = locals]

NewToken(by) == [by |-> by, used |-> FALSE, live |-> TRUE, attempts |-> 0, wrong |-> 0]

-----------------------------------------------------------------------------
(* POST /v1/dev/auth/email: how many mails the address had this hour, and  *)
(* the row of the mail that is sent.                                       *)

AskMail(h) ==
  /\ Cardinality(Mails) < LinksPerHour /\ listed
  /\ Start(h, "send", Blank)
  /\ UNCHANGED tables

SendMail(h) ==
  /\ pc[h] = "send"
  /\ tokens' = Append(tokens, NewToken("email"))
  /\ Finish(h)
  /\ UNCHANGED <<listed, developers, sessions, owner, keys>>

(* GET /v1/dev/auth/github *)
AskGitHub ==
  /\ Call /\ tokens' = Append(tokens, NewToken("github"))
  /\ UNCHANGED <<listed, developers, sessions, owner, keys, pc, mem>>

(* The link of a mail, or the way back from GitHub. *)
Follow(h) ==
  /\ \E n \in Unused :
       /\ tokens[n].live
       /\ Start(h, "use", [Blank EXCEPT !.token = n, !.of = tokens[n].by])
  /\ UNCHANGED tables

(* POST /v1/dev/auth/email/verify: the newest mail that is unused; a wrong *)
(* code is counted with the number that was read.                          *)
Guess(h) ==
  LET mails == Unused \cap Mails IN
  /\ \E n \in mails :
       /\ \A m \in mails : m <= n
       /\ tokens[n].live
       /\ \E attempts \in {0, tokens[n].attempts + 1} :
            Start(h, "use", [Blank EXCEPT !.token = n, !.of = "email", !.attempts = attempts])
  /\ UNCHANGED tables

(* Mutant: one attempt too many. *)
WrongOffByOne(h) ==
  LET n == mem[h].token
      attempts == mem[h].attempts
  IN
  /\ pc[h] = "use" /\ attempts > 0
  /\ tokens' = [tokens EXCEPT ![n].attempts = attempts, ![n].wrong = @ + 1,
                              ![n].used = @ \/ attempts > CodeAttempts]
  /\ Finish(h)
  /\ UNCHANGED <<listed, developers, sessions, owner, keys>>

Wrong(h) ==
  LET n == mem[h].token
      attempts == mem[h].attempts
  IN
  /\ pc[h] = "use" /\ attempts > 0
  /\ tokens' = [tokens EXCEPT ![n].attempts = attempts, ![n].wrong = @ + 1,
                              ![n].used = @ \/ attempts >= CodeAttempts]
  /\ Finish(h)
  /\ UNCHANGED <<listed, developers, sessions, owner, keys>>

(* Both sign-ins burn what they came with first. *)
Use(h) ==
  /\ pc[h] = "use" /\ mem[h].attempts = 0
  /\ tokens' = [tokens EXCEPT ![mem[h].token].used = TRUE]
  /\ Goto(h, IF mem[h].of = "email" THEN "others" ELSE "abroad", mem[h])
  /\ UNCHANGED <<listed, developers, sessions, owner, keys>>

(* Mutant: the other mails stay good. *)
OthersLeft(h) ==
  /\ pc[h] = "others"
  /\ Goto(h, "account", mem[h])
  /\ UNCHANGED tables

(* completeEmailSignIn(): using one link invalidates the others. *)
Others(h) ==
  /\ pc[h] = "others"
  /\ tokens' = [n \in DOMAIN tokens |->
       IF n \in Mails THEN [tokens[n] EXCEPT !.used = TRUE] ELSE tokens[n]]
  /\ Goto(h, "account", mem[h])
  /\ UNCHANGED <<listed, developers, sessions, owner, keys>>

(* GitHub is asked for the profile, or refuses; the allowlist. *)
Abroad(h) ==
  /\ pc[h] = "abroad"
  /\ \/ Finish(h)
     \/ listed /\ \E two \in BOOLEAN : Goto(h, "account", [mem[h] EXCEPT !.two = two])
  /\ UNCHANGED tables

(* Mutant: who comes again is taken for granted. *)
AccountAssumed(h) ==
  /\ pc[h] = "account"
  /\ Goto(h, "session", mem[h])
  /\ UNCHANGED tables

(* SELECT the developer; one who is there is brought up to date. *)
Account(h) ==
  LET by == mem[h].of IN
  /\ pc[h] = "account"
  /\ IF developers[by] = Nil
       THEN Goto(h, "create", mem[h]) /\ UNCHANGED developers
       ELSE Goto(h, "session", mem[h]) /\ developers' = [developers EXCEPT ![by].twoFactor = mem[h].two]
  /\ UNCHANGED <<listed, tokens, sessions, owner, keys>>

(* INSERT, and the end of the call when somebody else has done it. *)
CreateAccount(h) ==
  LET by == mem[h].of IN
  /\ pc[h] = "create"
  /\ IF developers[by] # Nil
       THEN Finish(h) /\ UNCHANGED developers
       ELSE Goto(h, "session", mem[h]) /\ developers' = [developers EXCEPT ![by] = [twoFactor |-> mem[h].two]]
  /\ UNCHANGED <<listed, tokens, sessions, owner, keys>>

StartSession(h) ==
  /\ pc[h] = "session"
  /\ sessions' = Append(sessions, [of |-> mem[h].of, via |-> mem[h].token, fresh |-> TRUE, live |-> TRUE])
  /\ Finish(h)
  /\ UNCHANGED <<listed, tokens, developers, owner, keys>>

-----------------------------------------------------------------------------
(* requireDeveloper() *)
Arrive(h) ==
  /\ \E n \in Alive :
       LET s == sessions[n] IN
       Start(h, "in", [Blank EXCEPT !.of = s.of, !.session = n, !.fresh = s.fresh,
                                    !.two = developers[s.of].twoFactor])
  /\ UNCHANGED tables

(* POST /v1/dev/logout and /v1/dev/sessions/revoke-others *)
Revoke(h) ==
  /\ pc[h] = "in"
  /\ \E gone \in {{mem[h].session}, {n \in Alive : sessions[n].of = mem[h].of} \ {mem[h].session}} :
       sessions' = [n \in DOMAIN sessions |->
         IF n \in gone THEN [sessions[n] EXCEPT !.live = FALSE] ELSE sessions[n]]
  /\ Finish(h)
  /\ UNCHANGED <<listed, tokens, developers, owner, keys>>

(* POST /v1/dev/apps: quota and slug, *)
AskApp(h) ==
  /\ pc[h] = "in"
  /\ Cardinality({a \in Apps : owner[a] = mem[h].of}) < AppQuota
  /\ \E a \in Apps : owner[a] = Nil /\ Goto(h, "app", [mem[h] EXCEPT !.app = a])
  /\ UNCHANGED tables

(* the INSERT against the unique slug, *)
CreateApp(h) ==
  /\ pc[h] = "app"
  /\ IF owner[mem[h].app] # Nil
       THEN Finish(h) /\ UNCHANGED owner
       ELSE Goto(h, "pair", mem[h]) /\ owner' = [owner EXCEPT ![mem[h].app] = mem[h].of]
  /\ UNCHANGED <<listed, tokens, developers, sessions, keys>>

NewKey(a, kind, ends) ==
  [app |-> a, kind |-> kind, revoked |-> FALSE, ends |-> ends, expired |-> FALSE]

(* issueKeyPair() *)
IssueKeyPair(h) ==
  /\ pc[h] = "pair"
  /\ keys' = keys \o <<NewKey(mem[h].app, "public", FALSE), NewKey(mem[h].app, "secret", FALSE)>>
  /\ Finish(h)
  /\ UNCHANGED <<listed, tokens, developers, sessions, owner>>

(* POST /v1/dev/apps/:slug/keys: a secret key wants a recent proof. *)
AskKey(h) ==
  /\ pc[h] = "in"
  /\ \E a \in Apps : owner[a] = mem[h].of /\ Goto(h, "mint", [mem[h] EXCEPT !.app = a])
  /\ UNCHANGED tables

Mint(h) ==
  LET proven == IF mem[h].of = "email" THEN mem[h].fresh ELSE mem[h].two IN
  /\ pc[h] = "mint"
  /\ \E kind \in KeyKinds, ends \in BOOLEAN :
       /\ kind = "secret" => proven
       /\ keys' = Append(keys, NewKey(mem[h].app, kind, ends))
  /\ Finish(h)
  /\ UNCHANGED <<listed, tokens, developers, sessions, owner>>

(* POST /v1/dev/keys/:id/revoke: the key of an app of one's own, *)
AskRevoke(h) ==
  /\ pc[h] = "in"
  /\ \E k \in DOMAIN keys :
       /\ owner[keys[k].app] = mem[h].of /\ ~keys[k].revoked
       /\ Goto(h, "last", [mem[h] EXCEPT !.key = k])
  /\ UNCHANGED tables

Held(a, kind) == {k \in DOMAIN keys : keys[k].app = a /\ keys[k].kind = kind}

(* Mutant: the keys of both kinds are counted together. *)
LastOfAny(h) ==
  LET key == keys[mem[h].key] IN
  /\ pc[h] = "last"
  /\ IF Cardinality({k \in DOMAIN keys : keys[k].app = key.app /\ ~keys[k].revoked}) <= 1
       THEN Finish(h) ELSE Goto(h, "retire", mem[h])
  /\ UNCHANGED tables

(* how many of its kind are not revoked, expired or not, *)
Last(h) ==
  LET key == keys[mem[h].key] IN
  /\ pc[h] = "last"
  /\ IF Cardinality({k \in Held(key.app, key.kind) : ~keys[k].revoked}) <= 1
       THEN Finish(h) ELSE Goto(h, "retire", mem[h])
  /\ UNCHANGED tables

(* and the UPDATE by its id. *)
Retire(h) ==
  /\ pc[h] = "retire"
  /\ keys' = [keys EXCEPT ![mem[h].key].revoked = TRUE]
  /\ Finish(h)
  /\ UNCHANGED <<listed, tokens, developers, sessions, owner>>

(* What any of the reads above refuses: the request ends. *)
Refused(h) ==
  /\ pc[h] = "in" /\ Finish(h)
  /\ UNCHANGED tables

(* resolveApp() *)
Accepts(key, need) ==
  /\ ~key.revoked /\ ~key.expired
  /\ need = "secret" => key.kind = "secret"

-----------------------------------------------------------------------------
(* Time, and the person who runs the instance. *)
Lapse ==
  /\ \/ \E n \in Unused : tokens[n].live /\ tokens' = [tokens EXCEPT ![n].live = FALSE]
                                         /\ UNCHANGED <<listed, sessions, keys>>
     \/ \E n \in Alive : /\ IF sessions[n].fresh THEN sessions' = [sessions EXCEPT ![n].fresh = FALSE]
                                                 ELSE sessions' = [sessions EXCEPT ![n].live = FALSE]
                         /\ UNCHANGED <<listed, tokens, keys>>
     \/ \E k \in DOMAIN keys : /\ keys[k].ends /\ ~keys[k].expired
                               /\ keys' = [keys EXCEPT ![k].expired = TRUE]
                               /\ UNCHANGED <<listed, tokens, sessions>>
     \/ listed /\ listed' = FALSE /\ UNCHANGED <<tokens, sessions, keys>>
  /\ UNCHANGED <<developers, owner, pc, mem, calls, overlap>>

SigningIn(h) ==
  AskMail(h) \/ SendMail(h) \/ Follow(h) \/ Guess(h) \/ Wrong(h) \/ Use(h) \/ Others(h) \/ Abroad(h)
  \/ Account(h) \/ CreateAccount(h) \/ StartSession(h)
SignedIn(h) ==
  Arrive(h) \/ Revoke(h) \/ AskApp(h) \/ CreateApp(h) \/ IssueKeyPair(h) \/ AskKey(h) \/ Mint(h)
  \/ AskRevoke(h) \/ Last(h) \/ Retire(h) \/ Refused(h)

Next == (\E h \in Handlers : SigningIn(h) \/ SignedIn(h)) \/ AskGitHub \/ Lapse

Spec == Init /\ [][Next]_vars

-----------------------------------------------------------------------------
(* "A forwarded older mail is dead": whoever is signed in by a mail, it    *)
(* and the older ones are used up, whatever runs at the same time.  Call   *)
(* after call each sign-in came by a newer mail than the one before, and   *)
(* no mail answers more wrong codes than it may: then it is used up, also  *)
(* when its code comes right at last.                                      *)
OlderMailsAreDead ==
  /\ \A s \in DOMAIN sessions : sessions[s].of = "email" =>
       /\ \A n \in Mails : n <= sessions[s].via => tokens[n].used
       /\ ~overlap => \A t \in 1..s - 1 : sessions[t].of = "email" => sessions[t].via < sessions[s].via
  /\ ~overlap => \A n \in Mails : /\ tokens[n].wrong <= CodeAttempts
                                  /\ tokens[n].wrong = CodeAttempts => tokens[n].used

(* "The difference between rotating a key and taking a game offline": call *)
(* after call, an app that has had keys is let in with a key of each kind, *)
(* unless one has run out.                                                 *)
LastKeyIsKept ==
  ~overlap =>
    \A a \in Apps, kind \in KeyKinds :
      Held(a, kind) # {} /\ (\A k \in Held(a, kind) : ~keys[k].expired) =>
        \E k \in Held(a, kind) : Accepts(keys[k], kind)
=============================================================================
