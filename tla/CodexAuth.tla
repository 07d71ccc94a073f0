----------------------------- MODULE CodexAuth -----------------------------
(***************************************************************************)
(* The token store of the Codex provider (codex_auth.py): a file with an   *)
(* access token and a refresh token, shared by every dikw process of a     *)
(* base, and copied once from the file of codex CLI.                       *)
(*                                                                         *)
(* Every LLM call resolves an access token.  One that is about to expire   *)
(* is refreshed at the OAuth endpoint, which takes the refresh token once  *)
(* and returns a new pair; a refresh token that comes a second time is     *)
(* refused and the user has to log in again.  So a refresh is done under   *)
(* a lock file, on the pair read after the lock was taken, and the new     *)
(* pair is written before the lock is released.  Readers take no lock: the *)
(* file is replaced as a whole.                                            *)
(*                                                                         *)
(* Abstractions: a token is the number in which it was minted, 0 for none. *)
(* A caller is a coroutine or a process; the lock does not tell them       *)
(* apart.  Taking the lock, reading and writing the file without waiting   *)
(* in between is one step.  An unreadable store counts as one without      *)
(* tokens.                                                                 *)
(***************************************************************************)
EXTENDS Naturals

CONSTANTS
    Caller,                 \* whoever resolves a token, imports, ...
    None,                   \* nobody
    MaxTokens               \* bound: pairs that are ever minted

ASSUME CodexAssumption == None \notin Caller /\ MaxTokens \in Nat

VARIABLES
    exists, tokens,         \* auth.json is there; its pair
    cli,                    \* the pair in codex CLI's own file
    lock,                   \* who has the lock file
    at, mine,               \* where each caller is, and the pair it has
    minted,                 \* the endpoint: pairs minted so far,
    expired,                \* access tokens that are about to expire,
    consumed,               \* refresh tokens it has taken
    refused,                \* refresh tokens it was sent once more
    lost,                   \* those whose answer never reached the store
    shared,                 \* those codex CLI has had as well
    out                     \* the user has logged out

files == <<exists, tokens, cli>>
world == <<minted, expired, consumed, refused, lost, shared>>
vars  == <<files, lock, at, mine, world, out>>

Token    == 0..minted
Pair     == [acc : Token, ref : Token]
NoTokens == [acc |-> 0, ref |-> 0]
Fresh    == [acc |-> minted + 1, ref |-> minted + 1]

(* _is_expiring.                                                           *)
Expiring(t) == t.acc \in expired

Init ==
    /\ exists = FALSE /\ tokens = NoTokens /\ cli = NoTokens
    /\ lock = None
    /\ at = [p \in Caller |-> "idle"] /\ mine = [p \in Caller |-> NoTokens]
    /\ minted = 0 /\ expired = {} /\ consumed = {} /\ refused = {}
    /\ lost = {} /\ shared = {} /\ out = FALSE

GoTo(p, a) == at' = [at EXCEPT ![p] = a]
Take(p, t) == mine' = [mine EXCEPT ![p] = t]

-----------------------------------------------------------------------------
(* resolve_access_token.                                                   *)

(* _maybe_migrate_from_codex_cli: only a store that is missing is filled,  *)
(* with a pair that is still good.                                         *)
Migrates == ~exists /\ cli # NoTokens /\ ~Expiring(cli)

Resolve(p) ==
    /\ at[p] = "idle"
    /\ GoTo(p, IF Migrates THEN "migrate" ELSE "read")
    /\ Take(p, IF Migrates THEN cli ELSE NoTokens)
    /\ UNCHANGED <<files, lock, world, out>>

(* save_codex_tokens, of a migration or an import: whatever the file says  *)
(* by the time the lock is free is overwritten.                            *)
Save(p) ==
    /\ at[p] \in {"migrate", "import"} /\ lock = None
    /\ exists' = TRUE /\ tokens' = mine[p]
    /\ out' = (out /\ at[p] = "migrate")
    /\ GoTo(p, IF at[p] = "migrate" THEN "read" ELSE "idle")
    /\ Take(p, NoTokens)
    /\ UNCHANGED <<cli, lock, world>>

(* The first look, without the lock; no tokens is an error.                *)
Read(p) ==
    /\ at[p] = "read"
    /\ IF tokens # NoTokens /\ Expiring(tokens)
         THEN GoTo(p, "lock") /\ Take(p, tokens)
         ELSE GoTo(p, "idle") /\ UNCHANGED mine
    /\ UNCHANGED <<files, lock, world, out>>

(* Mutant: the pair of the first look is refreshed.                        *)
Unchecked(p) == mine[p]

(* The pair to refresh is read again under the lock.                       *)
Rechecked(p) == tokens

Recheck(p) ==
    /\ at[p] = "lock" /\ lock = None
    /\ LET t == Rechecked(p)
       IN IF t # NoTokens /\ Expiring(t)
            THEN GoTo(p, "refresh") /\ Take(p, t) /\ lock' = p
            ELSE GoTo(p, "idle") /\ Take(p, NoTokens) /\ UNCHANGED lock
    /\ UNCHANGED <<files, world, out>>

(* The endpoint takes the refresh token and mints a pair; one that does    *)
(* not rotate leaves the refresh token good and does not return another.   *)
Refresh(p) ==
    /\ at[p] = "refresh" /\ mine[p].ref \notin consumed /\ minted < MaxTokens
    /\ GoTo(p, "write") /\ minted' = minted + 1
    /\ \/ Take(p, Fresh) /\ consumed' = consumed \cup {mine[p].ref}
       \/ Take(p, [acc |-> minted + 1, ref |-> mine[p].ref]) /\ UNCHANGED consumed
    /\ UNCHANGED <<files, lock, expired, refused, lost, shared, out>>

(* refresh_token_reused, invalid_grant: the user has to log in.            *)
Refuse(p) ==
    /\ at[p] = "refresh" /\ mine[p].ref \in consumed
    /\ refused' = refused \cup {mine[p].ref}
    /\ GoTo(p, "idle") /\ Take(p, NoTokens) /\ lock' = None
    /\ UNCHANGED <<files, minted, expired, consumed, lost, shared, out>>

(* Mutant: the old refresh token is kept.                                  *)
KeptOld(p) == [acc |-> mine[p].acc, ref |-> tokens.ref]

Refreshed(p) == mine[p]

(* _write_tokens_unlocked, and the lock is released.                       *)
Write(p) ==
    /\ at[p] = "write"
    /\ exists' = TRUE /\ tokens' = Refreshed(p)
    /\ GoTo(p, "idle") /\ Take(p, NoTokens) /\ lock' = None
    /\ UNCHANGED <<cli, world, out>>

(* A caller gives up: it is cancelled, dies, waited too long for the lock, *)
(* or the endpoint fails.  What the endpoint has minted by then is lost.   *)
GiveUp(p) ==
    /\ at[p] # "idle"
    /\ lost' = IF at[p] = "write" THEN lost \cup {tokens.ref} ELSE lost
    /\ lock' = IF lock = p THEN None ELSE lock
    /\ GoTo(p, "idle") /\ Take(p, NoTokens)
    /\ UNCHANGED <<files, minted, expired, consumed, refused, shared, out>>

-----------------------------------------------------------------------------
(* The auth commands, codex CLI, and time.                                 *)

(* import_from_codex_cli reads the other file, whose access token may have *)
(* expired with --force, and then saves.                                   *)
Import(p) ==
    /\ at[p] = "idle" /\ cli # NoTokens
    /\ GoTo(p, "import") /\ Take(p, cli)
    /\ UNCHANGED <<files, lock, world, out>>

(* device_code_login.                                                      *)
Login ==
    /\ lock = None /\ minted < MaxTokens
    /\ minted' = minted + 1 /\ exists' = TRUE /\ tokens' = Fresh /\ out' = FALSE
    /\ UNCHANGED <<cli, lock, at, mine, expired, consumed, refused, lost, shared>>

(* logout leaves a store without tokens, so that nothing is migrated.      *)
Logout ==
    /\ lock = None /\ exists
    /\ tokens' = NoTokens /\ out' = TRUE
    /\ UNCHANGED <<exists, cli, lock, at, mine, world>>

(* codex CLI logs in, or refreshes its pair if the endpoint still takes    *)
(* it.                                                                     *)
CodexCli ==
    /\ minted < MaxTokens /\ minted' = minted + 1
    /\ cli' = Fresh /\ shared' = shared \cup {minted + 1}
    /\ consumed' \in {consumed} \cup
         (IF cli # NoTokens /\ cli.ref \notin consumed THEN {consumed \cup {cli.ref}} ELSE {})
    /\ UNCHANGED <<exists, tokens, lock, at, mine, expired, refused, lost, out>>

Expire ==
    /\ \E t \in 1..minted : t \notin expired /\ expired' = expired \cup {t}
    /\ UNCHANGED <<files, lock, at, mine, minted, consumed, refused, lost, shared, out>>

Step(p) ==
    \/ Resolve(p) \/ Save(p) \/ Read(p) \/ Recheck(p) \/ Refresh(p) \/ Refuse(p)
    \/ Write(p) \/ GiveUp(p) \/ Import(p)

Next == (\E p \in Caller : Step(p)) \/ Login \/ Logout \/ CodexCli \/ Expire

Spec == Init /\ [][Next]_vars

-----------------------------------------------------------------------------
(* Properties.                                                             *)

(* The type invariant; the lock is with the caller that refreshes.         *)
TypeOK ==
    /\ exists \in BOOLEAN /\ out \in BOOLEAN
    /\ tokens \in Pair /\ cli \in Pair
    /\ lock \in Caller \cup {None}
    /\ at \in [Caller -> {"idle", "migrate", "import", "read", "lock", "refresh", "write"}]
    /\ mine \in [Caller -> Pair]
    /\ minted \in 0..MaxTokens
    /\ expired \subseteq Token /\ consumed \subseteq Token /\ refused \subseteq Token
    /\ lost \subseteq Token /\ shared \subseteq Token
    /\ \A p \in Caller : at[p] \in {"refresh", "write"} <=> lock = p

(* A refresh token is sent once: the endpoint refuses only tokens whose    *)
(* answer was lost and tokens codex CLI has had too, however many callers  *)
(* see the same token expire (the check under the lock in                  *)
(* resolve_access_token).                                                  *)
NeverReused == refused \subseteq lost \cup shared

(* Whenever the lock is free, the refresh token in the store is still      *)
(* good, unless the answer to it was lost or codex CLI has had it          *)
(* (_write_tokens_unlocked before the lock is released, _atomic_write_     *)
(* store).                                                                 *)
StoreUsable ==
    lock = None => tokens.ref \notin consumed \/ tokens.ref \in lost \cup shared

(* Migration "won't auto-undo a deliberate logout"                         *)
(* (codex_auth.py:733-736, 1190-1193).                                     *)
LogoutHolds == out => tokens = NoTokens
=============================================================================
