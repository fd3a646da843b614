----------------------------- MODULE MCAccounts ------------------------------
(***************************************************************************)
(* Small instances, for TLC, of how somebody gets in: players, as in       *)
(* Accounts, or developers, as in Console.  The two have sessions, mails   *)
(* and limits of their own: a behaviour is of one or of the other part.    *)
(***************************************************************************)
EXTENDS Accounts, TLC

CONSTANTS Apps, AppQuota, LinksPerHour, CodeAttempts

VARIABLES part, listed, tokens, developers, logins, owner, keys, at, local, asked, crossed

C == INSTANCE Console WITH
  sessions <- logins, pc <- at, mem <- local, calls <- asked, overlap <- crossed

ASSUME ConsoleParameters == C!Parameters

console == <<listed, tokens, developers, logins, owner, keys, at, local, asked, crossed>>
all     == <<part, vars, console>>

PartsInit == part \in {"players", "developers"} /\ Init /\ C!Init
PartsNext ==
  \/ part = "players" /\ Next /\ UNCHANGED <<part, console>>
  \/ part = "developers" /\ C!Next /\ UNCHANGED <<part, vars>>

PartsSpec == PartsInit /\ [][PartsNext]_all

(* Rows and local variables of both parts keep their types; no developer   *)
(* is signed in without an account.                                        *)
TypesOK == TypeOK /\ C!TypeOK

(* See Console. *)
OlderMailsAreDead == C!OlderMailsAreDead
LastKeyIsKept     == C!LastKeyIsKept

(* Calls are only compared with each other. *)
Symmetry == Permutations(Handlers)
=============================================================================
