-------------------------- MODULE CodexAuth_proofs --------------------------
(***************************************************************************)
(* Proofs about CodexAuth, for any number of callers and tokens.           *)
(*                                                                         *)
(* The argument: only the holder of the lock gets to the endpoint, with    *)
(* the pair that is in the store (Holds), and nobody else writes the store *)
(* meanwhile; so a refresh token is taken only while its answer is either  *)
(* on the way to the store or lost.  What a migration or an import carries *)
(* has been codex CLI's (Carries).                                         *)
(***************************************************************************)
EXTENDS CodexAuth, TLAPS

(* A refresh token the endpoint would take, or that need not be good.      *)
Good(t) == t.ref \notin consumed \/ t.ref \in lost \cup shared

Whole(t) == t = NoTokens \/ t.ref # 0

(* The pair a caller refreshes is the store's, and the pair it has got is  *)
(* good.                                                                   *)
Holds(p) ==
    /\ at[p] = "refresh" => mine[p] = tokens /\ mine[p].ref # 0 /\ Good(tokens)
    /\ at[p] = "write" => mine[p].ref # 0 /\ Good(mine[p])

Carries(p) ==
    at[p] \in {"migrate", "import"} => mine[p].ref # 0 /\ mine[p].ref \in shared

Pairs ==
    /\ Whole(tokens) /\ Whole(cli) /\ 0 \notin consumed
    /\ cli # NoTokens => cli.ref \in shared

IInv ==
    /\ TypeOK /\ Pairs
    /\ NeverReused /\ StoreUsable
    /\ \A p \in Caller : Holds(p) /\ Carries(p)

-----------------------------------------------------------------------------
(* The pairs that are minted.                                              *)
LEMMA PairFacts ==
  ASSUME minted \in Nat
  PROVE  /\ NoTokens \in Pair /\ NoTokens.ref = 0
         /\ Fresh.ref = minted + 1 /\ Fresh \in [acc : 0..(minted + 1), ref : 0..(minted + 1)]
         /\ \A t \in Pair : t.ref \in Token /\ t \in [acc : 0..(minted + 1), ref : 0..(minted + 1)]
         /\ \A t \in Pair : [acc |-> minted + 1, ref |-> t.ref]
                              \in [acc : 0..(minted + 1), ref : 0..(minted + 1)]
  BY DEF NoTokens, Fresh, Pair, Token

(* IInv holds initially (an empty store).                                  *)
LEMMA InitInv == Init => IInv
<1> SUFFICES ASSUME Init PROVE IInv
  OBVIOUS
<1>1. minted = 0 /\ NoTokens \in Pair /\ NoTokens.ref = 0
  BY DEF Init, NoTokens, Pair, Token
<1>2. TypeOK
  <2>1. exists \in BOOLEAN /\ out \in BOOLEAN
    BY Zenon DEF Init
  <2>2. /\ tokens \in Pair /\ cli \in Pair /\ mine \in [Caller -> Pair]
        /\ lock \in Caller \cup {None} /\ minted \in 0..MaxTokens
        /\ at \in [Caller -> {"idle", "migrate", "import", "read", "lock", "refresh", "write"}]
    BY <1>1, CodexAssumption DEF Init
  <2>3. \A p \in Caller : at[p] \in {"refresh", "write"} <=> lock = p
    BY CodexAssumption DEF Init
  <2> QED
    BY <2>1, <2>2, <2>3 DEF TypeOK, Init
<1>3. Pairs /\ NeverReused /\ StoreUsable
  BY <1>1 DEF Init, Pairs, Whole, NeverReused, StoreUsable
<1>4. \A p \in Caller : Holds(p) /\ Carries(p)
  BY DEF Init, Holds, Carries
<1> QED
  BY <1>2, <1>3, <1>4 DEF IInv

-----------------------------------------------------------------------------
(* What a step of a caller does to where the callers are.                  *)
LEMMA Places ==
  ASSUME TypeOK, NEW p \in Caller, Step(p)
  PROVE  /\ at' \in [Caller -> {"idle", "migrate", "import", "read", "lock", "refresh", "write"}]
         /\ \A q \in Caller : q # p => at'[q] = at[q] /\ mine'[q] = mine[q]
  BY DEF TypeOK, Step, Resolve, Save, Read, Recheck, Refresh, Refuse, Write, GiveUp, Import,
         GoTo, Take

(* The flags stay flags.                                                   *)
LEMMA Flags ==
  ASSUME TypeOK, [Next]_vars
  PROVE  exists' \in BOOLEAN /\ out' \in BOOLEAN
<1>1. CASE \E p \in Caller : Step(p)
  <2> PICK p \in Caller : Step(p)
    BY <1>1
  <2>1. CASE Save(p)
    BY <2>1, Zenon DEF Save, TypeOK
  <2>2. CASE Write(p)
    BY <2>2, Zenon DEF Write, TypeOK
  <2>3. CASE ~Save(p) /\ ~Write(p)
    <3>1. exists' = exists /\ out' = out
      BY <2>3 DEF Step, Resolve, Read, Recheck, Refresh, Refuse, GiveUp, Import, files
    <3> QED
      BY <3>1, Zenon DEF TypeOK
  <2> QED
    BY <2>1, <2>2, <2>3
<1>2. CASE Login
  BY <1>2, Zenon DEF Login
<1>3. CASE Logout
  BY <1>3, Zenon DEF Logout, TypeOK
<1>4. CASE CodexCli \/ Expire \/ UNCHANGED vars
  <2>1. exists' = exists /\ out' = out
    BY <1>4 DEF CodexCli, Expire, vars, files
  <2> QED
    BY <2>1, Zenon DEF TypeOK
<1> QED
  BY <1>1, <1>2, <1>3, <1>4 DEF Next

-----------------------------------------------------------------------------
(* Every action preserves IInv.  First those of resolve_access_token.      *)

LEMMA ResolveInv ==
  ASSUME IInv, NEW p \in Caller, Resolve(p), exists' \in BOOLEAN, out' \in BOOLEAN
  PROVE  IInv'
<1>1. TypeOK'
  BY PairFacts DEF IInv, TypeOK, Resolve, GoTo, Take, files, world, Token, Pair
<1>2. Pairs' /\ NeverReused' /\ StoreUsable'
  BY DEF IInv, Resolve, files, world, Pairs, Whole, NeverReused, StoreUsable, NoTokens
<1>3. ASSUME NEW q \in Caller PROVE Holds(q)' /\ Carries(q)'
  BY DEF IInv, TypeOK, Resolve, Migrates, GoTo, Take, files, world, Pairs, Whole, Holds, Carries,
         Good, NoTokens
<1> QED
  BY <1>1, <1>2, <1>3 DEF IInv

LEMMA ImportInv ==
  ASSUME IInv, NEW p \in Caller, Import(p), exists' \in BOOLEAN, out' \in BOOLEAN
  PROVE  IInv'
<1>1. TypeOK'
  BY PairFacts DEF IInv, TypeOK, Import, GoTo, Take, files, world, Token, Pair
<1>2. Pairs' /\ NeverReused' /\ StoreUsable'
  BY DEF IInv, Import, files, world, Pairs, Whole, NeverReused, StoreUsable, NoTokens
<1>3. ASSUME NEW q \in Caller PROVE Holds(q)' /\ Carries(q)'
  BY DEF IInv, TypeOK, Import, GoTo, Take, files, world, Pairs, Whole, Holds, Carries,
         Good, NoTokens
<1> QED
  BY <1>1, <1>2, <1>3 DEF IInv

LEMMA ReadInv ==
  ASSUME IInv, NEW p \in Caller, Read(p), exists' \in BOOLEAN, out' \in BOOLEAN
  PROVE  IInv'
<1>1. TypeOK'
  BY DEF IInv, TypeOK, Read, GoTo, Take, files, world, Token, Pair
<1>2. Pairs' /\ NeverReused' /\ StoreUsable'
  BY DEF IInv, Read, files, world, Pairs, Whole, NeverReused, StoreUsable, NoTokens
<1>3. ASSUME NEW q \in Caller PROVE Holds(q)' /\ Carries(q)'
  BY DEF IInv, TypeOK, Read, GoTo, Take, files, world, Holds, Carries, Good
<1> QED
  BY <1>1, <1>2, <1>3 DEF IInv

(* The lock is free, so nobody is about to refresh or to write.            *)
LEMMA SaveInv ==
  ASSUME IInv, NEW p \in Caller, Save(p), exists' \in BOOLEAN, out' \in BOOLEAN
  PROVE  IInv'
<1>1. TypeOK'
  BY PairFacts, CodexAssumption DEF IInv, TypeOK, Save, GoTo, Take, world, Token, Pair
<1>2. mine[p].ref # 0 /\ mine[p].ref \in shared
  BY DEF IInv, Save, Carries
<1>3. Pairs' /\ NeverReused' /\ StoreUsable'
  BY <1>2 DEF IInv, Save, world, Pairs, Whole, NeverReused, StoreUsable, NoTokens
<1>4. ASSUME NEW q \in Caller PROVE Holds(q)' /\ Carries(q)'
  <2>1. at'[q] \notin {"refresh", "write"}
    BY <1>1, CodexAssumption DEF TypeOK, Save
  <2> QED
    BY <2>1 DEF IInv, TypeOK, Save, GoTo, Take, world, Holds, Carries
<1> QED
  BY <1>1, <1>3, <1>4 DEF IInv

LEMMA RecheckInv ==
  ASSUME IInv, NEW p \in Caller, Recheck(p), exists' \in BOOLEAN, out' \in BOOLEAN
  PROVE  IInv'
<1>1. TypeOK'
  BY PairFacts, CodexAssumption
  DEF IInv, TypeOK, Recheck, Rechecked, GoTo, Take, files, world, Token, Pair
<1>2. Pairs' /\ NeverReused' /\ StoreUsable'
  BY DEF IInv, Recheck, files, world, Pairs, Whole, NeverReused, StoreUsable, NoTokens
<1>3. ASSUME NEW q \in Caller PROVE Holds(q)' /\ Carries(q)'
  BY CodexAssumption DEF IInv, TypeOK, Recheck, Rechecked, GoTo, Take, files, world, Pairs,
     Whole, StoreUsable, Holds, Carries, Good, NoTokens
<1> QED
  BY <1>1, <1>2, <1>3 DEF IInv

LEMMA RefreshInv ==
  ASSUME IInv, NEW p \in Caller, Refresh(p), exists' \in BOOLEAN, out' \in BOOLEAN
  PROVE  IInv'
<1>1. lock = p /\ lock # None /\ mine[p] = tokens /\ mine[p].ref # 0 /\ mine[p].ref \in Token
  BY CodexAssumption, PairFacts DEF IInv, TypeOK, Refresh, Holds, Pair, Token
<1>2. minted \in Nat /\ minted' = minted + 1 /\ minted + 1 \in 0..MaxTokens /\ minted + 1 \notin consumed
  BY CodexAssumption DEF IInv, TypeOK, Refresh, Token
<1>3. TypeOK'
  <2>1. /\ mine' \in [Caller -> Pair'] /\ tokens' \in Pair' /\ cli' \in Pair'
    BY <1>1, <1>2, PairFacts DEF IInv, TypeOK, Refresh, Take, files, Token, Pair
  <2>2. /\ expired' \subseteq Token' /\ consumed' \subseteq Token' /\ refused' \subseteq Token'
        /\ lost' \subseteq Token' /\ shared' \subseteq Token'
    <3>1. Token \subseteq Token'
      BY <1>2 DEF Token
    <3>2. consumed' \subseteq consumed \cup {mine[p].ref}
      BY DEF Refresh
    <3> QED
      BY <1>1, <3>1, <3>2 DEF IInv, TypeOK, Refresh
  <2>3. /\ at' \in [Caller -> {"idle", "migrate", "import", "read", "lock", "refresh", "write"}]
        /\ \A q \in Caller : at'[q] \in {"refresh", "write"} <=> lock' = q
    BY DEF IInv, TypeOK, Refresh, GoTo
  <2> QED
    BY <1>2, <2>1, <2>2, <2>3 DEF IInv, TypeOK, Refresh
<1>4. Pairs' /\ NeverReused' /\ StoreUsable'
  BY <1>1 DEF IInv, Refresh, files, Pairs, Whole, NeverReused, StoreUsable, NoTokens
<1>5. ASSUME NEW q \in Caller PROVE Holds(q)' /\ Carries(q)'
  <2>1. CASE q = p
    <3>1. at'[p] = "write"
      BY DEF IInv, TypeOK, Refresh, GoTo
    <3>2. CASE Take(p, Fresh)
      <4>1. mine'[p].ref = minted + 1
        BY <1>2, <3>2, PairFacts DEF IInv, TypeOK, Take
      <4>2. minted + 1 # mine[p].ref
        BY <1>1, <1>2 DEF Token
      <4>3. mine'[p].ref \notin consumed'
        BY <1>2, <4>1, <4>2 DEF Refresh
      <4> QED
        BY <1>2, <2>1, <3>1, <4>1, <4>3 DEF Holds, Carries, Good
    <3>3. CASE consumed' = consumed /\ Take(p, [acc |-> minted + 1, ref |-> mine[p].ref])
      <4>1. mine'[p].ref = mine[p].ref
        BY <3>3 DEF IInv, TypeOK, Take
      <4> QED
        BY <1>1, <2>1, <3>1, <3>3, <4>1 DEF Refresh, Holds, Carries, Good
    <3> QED
      BY <3>2, <3>3 DEF Refresh
  <2>2. CASE q # p
    BY <1>1, <2>2 DEF IInv, TypeOK, Refresh, GoTo, Take, Holds, Carries
  <2> QED
    BY <2>1, <2>2
<1> QED
  BY <1>3, <1>4, <1>5 DEF IInv

LEMMA RefuseInv ==
  ASSUME IInv, NEW p \in Caller, Refuse(p), exists' \in BOOLEAN, out' \in BOOLEAN
  PROVE  IInv'
<1>1. lock = p /\ mine[p] = tokens /\ Good(tokens) /\ mine[p].ref \in Token
  BY PairFacts DEF IInv, TypeOK, Refuse, Holds, Pair, Token
<1>2. TypeOK'
  <2>1. /\ minted' = minted /\ minted' \in 0..MaxTokens /\ Pair' = Pair /\ Token' = Token
        /\ tokens' \in Pair' /\ cli' \in Pair' /\ refused' \subseteq Token'
    BY <1>1 DEF IInv, TypeOK, Refuse, files, Token, Pair
  <2>2. /\ mine' \in [Caller -> Pair'] /\ lock' = None
        /\ at' \in [Caller -> {"idle", "migrate", "import", "read", "lock", "refresh", "write"}]
        /\ \A q \in Caller : at'[q] \notin {"refresh", "write"}
    BY <1>1, <2>1, PairFacts, CodexAssumption DEF IInv, TypeOK, Refuse, GoTo, Take
  <2> QED
    BY <2>1, <2>2, CodexAssumption DEF IInv, TypeOK, Refuse
<1>3. Pairs' /\ NeverReused' /\ StoreUsable'
  BY <1>1 DEF IInv, Refuse, files, Pairs, Whole, NeverReused, StoreUsable, Good, NoTokens
<1>4. ASSUME NEW q \in Caller PROVE Holds(q)' /\ Carries(q)'
  BY <1>1 DEF IInv, TypeOK, Refuse, GoTo, Take, files, Holds, Carries, Good
<1> QED
  BY <1>2, <1>3, <1>4 DEF IInv

LEMMA WriteInv ==
  ASSUME IInv, NEW p \in Caller, Write(p), exists' \in BOOLEAN, out' \in BOOLEAN
  PROVE  IInv'
<1>1. lock = p /\ mine[p].ref # 0 /\ Good(mine[p])
  BY DEF IInv, TypeOK, Write, Holds
<1>2. TypeOK'
  BY <1>1, PairFacts, CodexAssumption
  DEF IInv, TypeOK, Write, Refreshed, GoTo, Take, world, Token, Pair
<1>3. Pairs' /\ NeverReused' /\ StoreUsable'
  BY <1>1 DEF IInv, Write, Refreshed, world, Pairs, Whole, NeverReused, StoreUsable, Good, NoTokens
<1>4. ASSUME NEW q \in Caller PROVE Holds(q)' /\ Carries(q)'
  BY <1>1 DEF IInv, TypeOK, Write, GoTo, Take, world, Holds, Carries, Good
<1> QED
  BY <1>2, <1>3, <1>4 DEF IInv

(* Whoever gives up with a pair in hand leaves the token it was got for    *)
(* among the lost ones.                                                    *)
LEMMA GiveUpInv ==
  ASSUME IInv, NEW p \in Caller, GiveUp(p), exists' \in BOOLEAN, out' \in BOOLEAN
  PROVE  IInv'
<1>1. TypeOK'
  <2>1. /\ minted' = minted /\ minted' \in 0..MaxTokens /\ Pair' = Pair /\ Token' = Token
        /\ tokens' \in Pair' /\ cli' \in Pair' /\ tokens.ref \in Token
    BY PairFacts DEF IInv, TypeOK, GiveUp, files, Token, Pair
  <2>2. lost' \subseteq Token'
    BY <2>1 DEF IInv, TypeOK, GiveUp
  <2>3. minted \in Nat
    BY CodexAssumption DEF IInv, TypeOK
  <2>4. /\ mine' \in [Caller -> Pair'] /\ lock' \in Caller \cup {None}
        /\ at' \in [Caller -> {"idle", "migrate", "import", "read", "lock", "refresh", "write"}]
    BY <2>1, <2>3, PairFacts DEF IInv, TypeOK, GiveUp, GoTo, Take
  <2>5. \A q \in Caller : at'[q] \in {"refresh", "write"} <=> lock' = q
    BY CodexAssumption DEF IInv, TypeOK, GiveUp, GoTo
  <2> QED
    BY <2>1, <2>2, <2>4, <2>5 DEF IInv, TypeOK, GiveUp
<1>2. lost \subseteq lost'
  BY DEF GiveUp
<1>3. Pairs' /\ NeverReused'
  BY <1>2 DEF IInv, GiveUp, files, Pairs, Whole, NeverReused, NoTokens
<1>4. StoreUsable'
  <2>1. CASE lock = p
    <3>1. at[p] = "refresh" => Good(tokens)
      BY DEF IInv, Holds
    <3>2. at[p] \in {"refresh", "write"}
      BY <2>1 DEF IInv, TypeOK
    <3> QED
      BY <3>1, <3>2 DEF GiveUp, files, StoreUsable, Good
  <2>2. CASE lock # p
    BY <1>2, <2>2 DEF IInv, GiveUp, files, StoreUsable
  <2> QED
    BY <2>1, <2>2
<1>5. ASSUME NEW q \in Caller PROVE Holds(q)' /\ Carries(q)'
  BY <1>2 DEF IInv, TypeOK, GiveUp, GoTo, Take, files, Holds, Carries, Good
<1> QED
  BY <1>1, <1>3, <1>4, <1>5 DEF IInv

-----------------------------------------------------------------------------
(* The commands, codex CLI, and time.                                      *)

LEMMA LoginInv ==
  ASSUME IInv, Login, exists' \in BOOLEAN, out' \in BOOLEAN
  PROVE  IInv'
<1>1. minted \in Nat /\ minted' = minted + 1 /\ minted + 1 \in 0..MaxTokens /\ minted + 1 \notin consumed
  BY CodexAssumption DEF IInv, TypeOK, Login, Token
<1>2. Token \subseteq Token' /\ Pair \subseteq Pair' /\ Fresh \in Pair' /\ Fresh.ref = minted + 1
  BY <1>1, PairFacts DEF Token, Pair
<1>3. TypeOK'
  BY <1>1, <1>2, CodexAssumption DEF IInv, TypeOK, Login
<1>4. Pairs' /\ NeverReused' /\ StoreUsable'
  BY <1>1, <1>2 DEF IInv, Login, Pairs, Whole, NeverReused, StoreUsable, NoTokens
<1>5. ASSUME NEW q \in Caller PROVE Holds(q)' /\ Carries(q)'
  <2>1. at[q] \notin {"refresh", "write"}
    BY CodexAssumption DEF IInv, TypeOK, Login
  <2> QED
    BY <2>1 DEF IInv, Login, Holds, Carries
<1> QED
  BY <1>3, <1>4, <1>5 DEF IInv

LEMMA LogoutInv ==
  ASSUME IInv, Logout, exists' \in BOOLEAN, out' \in BOOLEAN
  PROVE  IInv'
<1>1. minted \in Nat
  BY CodexAssumption DEF IInv, TypeOK
<1>2. TypeOK'
  BY <1>1, PairFacts, CodexAssumption DEF IInv, TypeOK, Logout, world, Token, Pair
<1>3. Pairs' /\ NeverReused' /\ StoreUsable'
  BY DEF IInv, Logout, world, Pairs, Whole, NeverReused, StoreUsable, NoTokens
<1>4. ASSUME NEW q \in Caller PROVE Holds(q)' /\ Carries(q)'
  <2>1. at[q] \notin {"refresh", "write"}
    BY CodexAssumption DEF IInv, TypeOK, Logout
  <2> QED
    BY <2>1 DEF IInv, Logout, world, Holds, Carries
<1> QED
  BY <1>2, <1>3, <1>4 DEF IInv

(* What codex CLI has the endpoint take has been its own.                  *)
LEMMA CodexCliInv ==
  ASSUME IInv, CodexCli, exists' \in BOOLEAN, out' \in BOOLEAN
  PROVE  IInv'
<1>1. minted \in Nat /\ minted' = minted + 1 /\ minted + 1 \in 0..MaxTokens
  BY CodexAssumption DEF IInv, TypeOK, CodexCli
<1>2. Token \subseteq Token' /\ Pair \subseteq Pair' /\ Fresh \in Pair' /\ Fresh.ref = minted + 1
  BY <1>1, PairFacts DEF Token, Pair
<1>3. \/ consumed' = consumed
      \/ cli # NoTokens /\ cli.ref \in shared /\ cli.ref # 0 /\ consumed' = consumed \cup {cli.ref}
  BY DEF IInv, CodexCli, Pairs, Whole
<1>4. TypeOK'
  <2>1. cli.ref \in Token /\ minted + 1 \in Token'
    BY <1>1, PairFacts DEF IInv, TypeOK, Token, Pair
  <2>2. consumed' \subseteq Token' /\ shared' \subseteq Token'
    BY <1>2, <1>3, <2>1 DEF IInv, TypeOK, CodexCli
  <2> QED
    BY <1>1, <1>2, <2>2 DEF IInv, TypeOK, CodexCli
<1>5. Pairs' /\ NeverReused' /\ StoreUsable'
  BY <1>1, <1>2, <1>3 DEF IInv, CodexCli, Pairs, Whole, NeverReused, StoreUsable, NoTokens
<1>6. ASSUME NEW q \in Caller PROVE Holds(q)' /\ Carries(q)'
  BY <1>3 DEF IInv, CodexCli, Holds, Carries, Good
<1> QED
  BY <1>4, <1>5, <1>6 DEF IInv

LEMMA ExpireInv ==
  ASSUME IInv, Expire, exists' \in BOOLEAN, out' \in BOOLEAN
  PROVE  IInv'
<1>1. TypeOK'
  BY DEF IInv, TypeOK, Expire, files, Token, Pair
<1>2. Pairs' /\ NeverReused' /\ StoreUsable'
  BY DEF IInv, Expire, files, Pairs, Whole, NeverReused, StoreUsable, NoTokens
<1>3. ASSUME NEW q \in Caller PROVE Holds(q)' /\ Carries(q)'
  BY DEF IInv, Expire, files, Holds, Carries, Good
<1> QED
  BY <1>1, <1>2, <1>3 DEF IInv

-----------------------------------------------------------------------------
(* IInv is inductive.                                                      *)
LEMMA NextInv == IInv /\ [Next]_vars => IInv'
<1> SUFFICES ASSUME IInv, [Next]_vars PROVE IInv'
  OBVIOUS
<1>1. exists' \in BOOLEAN /\ out' \in BOOLEAN
  BY Flags DEF IInv
<1>2. ASSUME NEW p \in Caller, Step(p) PROVE IInv'
  BY <1>1, <1>2, ResolveInv, ImportInv, ReadInv, SaveInv, RecheckInv, RefreshInv, RefuseInv,
     WriteInv, GiveUpInv DEF Step
<1>3. CASE Login \/ Logout \/ CodexCli \/ Expire
  BY <1>1, <1>3, LoginInv, LogoutInv, CodexCliInv, ExpireInv
<1>4. CASE UNCHANGED vars
  BY <1>4 DEF IInv, TypeOK, Pairs, Whole, NeverReused, StoreUsable, Holds, Carries, Good, vars,
     files, world, Token, Pair, NoTokens
<1> QED
  BY <1>2, <1>3, <1>4 DEF Next

(* The inductive invariant holds in every reachable state.                 *)
THEOREM Inductive == Spec => []IInv
  BY InitInv, NextInv, PTL DEF Spec

(* The store is well formed and the lock is with the caller that           *)
(* refreshes (_async_auth_file_lock).                                      *)
THEOREM TypeCorrect == Spec => []TypeOK
<1>1. IInv => TypeOK
  BY DEF IInv
<1> QED
  BY <1>1, Inductive, PTL

(* However many callers see a token expire, the endpoint is sent a refresh *)
(* token twice only if an answer was lost or codex CLI has had the token   *)
(* (resolve_access_token).                                                 *)
THEOREM RefreshedOnce == Spec => []NeverReused
<1>1. IInv => NeverReused
  BY DEF IInv
<1> QED
  BY <1>1, Inductive, PTL

(* Whenever the lock is free the refresh token in the store can be used,   *)
(* with the same two exceptions (_write_tokens_unlocked).                  *)
THEOREM StoreStaysUsable == Spec => []StoreUsable
<1>1. IInv => StoreUsable
  BY DEF IInv
<1> QED
  BY <1>1, Inductive, PTL
=============================================================================
