--------------------------- MODULE Routes_proofs ---------------------------
(***************************************************************************)
(* What TLAPS proves of two routes of the server and their clients.        *)
(*                                                                         *)
(* POST /import, for any packages, any number of requests, faults and      *)
(* crashes: a package is committed or undone as a whole, what it replaces  *)
(* survives until it is in place, and no later package takes its files     *)
(* away.                                                                   *)
(*                                                                         *)
(* GET /tasks/{id}/events, for any page size, any number of polls and a    *)
(* tape of any length: the client that follows a task renders every event  *)
(* once, misses at most a final that came too late, and returns how the    *)
(* row ended.  The task is nothing but its contract.                       *)
(***************************************************************************)
EXTENDS ImportCommit, TaskFollow, SequenceTheorems, TLAPS

-----------------------------------------------------------------------------
(* Imports.                                                                *)

Move == [path : Path, saved : BOOLEAN]

MovedPaths == {moved[k].path : k \in DOMAIN moved}

(* The files of the packages committed so far.                             *)
Kept == UNION {Files(i) : i \in committed}

(* A package is under way; a file of it is between two renames.            *)
Working  == at \in {"file", "swap", "putBack", "undo"}
InFlight == at \in {"swap", "putBack"}
Serving  == Working \/ at = "package"

-----------------------------------------------------------------------------
(* The inductive invariant.                                                *)

TypeInv ==
    /\ TypeOK
    /\ Working => pkg \in DOMAIN Packages
    /\ InFlight => todo # << >>

(* already_moved is what the committed packages brought and what this one  *)
(* has moved; all of it is in the tree.                                    *)
Booked ==
    /\ \A k, l \in DOMAIN moved : moved[k].path = moved[l].path => k = l
    /\ Kept \cup MovedPaths \subseteq already
    /\ Kept \cap MovedPaths = {}
    /\ \A p \in already : tree[p] = New
    /\ moved # << >> => Working
    /\ Working => MovedPaths \cup ToSet(todo) \subseteq Files(pkg)
    /\ at \in {"file", "swap", "putBack"} => Files(pkg) \ ToSet(todo) \subseteq already
    /\ InFlight => Head(todo) \notin already
    /\ at = "package" => already = Kept
    /\ Working => IF at = "file" /\ todo = << >> THEN already = Kept \cup Files(pkg)
                                                 ELSE already = Kept \cup MovedPaths

(* While no undo has failed: a file this package moved can be put back,    *)
(* and one that it has not is as the import found it.                      *)
Undoable ==
    Serving /\ mishap = "none" =>
        /\ \A k \in DOMAIN moved :
             LET m == moved[k] IN
             /\ m.saved <=> before[m.path] # 0
             /\ m.saved => backup[m.path] = before[m.path]
        /\ InFlight => LET p == Head(todo) IN
             /\ tree[p] = 0
             /\ saved <=> before[p] # 0
             /\ saved => backup[p] = before[p]
        /\ \A p \in Path \ already : (InFlight => p # Head(todo)) => tree[p] = before[p]

(* What a request leaves behind, and what a crash does.                    *)
Between ==
    /\ at = "idle" /\ mishap = "none" => PackageAtomic
    /\ at = "down" => mishap # "none"
    /\ mishap = "crash" => at \in {"down", "idle"}
    /\ at = "putBack" => saved

IInv == TypeInv /\ Booked /\ Undoable /\ Between /\ OriginalsSurvive

-----------------------------------------------------------------------------
(* Sequences.                                                              *)

LEMMA ElementsOfSeq ==
    ASSUME NEW S, NEW s \in Seq(S)
    PROVE  /\ ToSet(s) \subseteq S /\ Len(s) \in Nat /\ DOMAIN s = 1..Len(s)
           /\ \A k \in 1..Len(s) : s[k] \in S
           /\ \A x : x \in ToSet(s) <=> \E k \in 1..Len(s) : s[k] = x
BY LenProperties, ElementOfSeq DEF ToSet

LEMMA HeadAndTail ==
    ASSUME NEW S, NEW s \in Seq(S), s # << >>
    PROVE  /\ Head(s) \in S /\ Head(s) = s[1]
           /\ Tail(s) \in Seq(S) /\ DOMAIN Tail(s) = 1..Len(s) - 1
           /\ Len(s) \in Nat \ {0}
           /\ \A k \in 1..Len(s) - 1 : Tail(s)[k] = s[k + 1]
           /\ ToSet(s) = {Head(s)} \cup ToSet(Tail(s))
<1>1. Len(s) \in Nat \ {0}
    BY EmptySeq
<1>2. /\ Head(s) \in S /\ Tail(s) \in Seq(S) /\ Len(Tail(s)) = Len(s) - 1
      /\ \A k \in 1..Len(Tail(s)) : Tail(s)[k] = s[k + 1]
    BY HeadTailProperties
<1>3. Head(s) = s[1]
    OBVIOUS
<1>4. ASSUME NEW x \in ToSet(s) PROVE x = Head(s) \/ x \in ToSet(Tail(s))
    <2>1. PICK k \in 1..Len(s) : s[k] = x
        BY <1>4, ElementsOfSeq
    <2>2. CASE k = 1
        BY <1>3, <2>1, <2>2
    <2>3. CASE k # 1
        <3>1. k - 1 \in 1..Len(Tail(s)) /\ k - 1 + 1 = k
            BY <1>1, <1>2, <2>1, <2>3
        <3>2. Tail(s)[k - 1] = x
            BY <1>2, <2>1, <3>1
        <3>3. \E l \in 1..Len(Tail(s)) : Tail(s)[l] = x
            BY <3>1, <3>2
        <3>4. x \in ToSet(Tail(s))
            BY <1>2, <3>3, ElementsOfSeq
        <3> QED
            BY <3>4
    <2> QED
        BY <2>2, <2>3
<1>5. Head(s) \in ToSet(s)
    BY <1>1, <1>3, ElementsOfSeq
<1>6. ASSUME NEW x \in ToSet(Tail(s)) PROVE x \in ToSet(s)
    <2>1. PICK k \in 1..Len(Tail(s)) : Tail(s)[k] = x
        BY <1>2, <1>6, ElementsOfSeq
    <2>2. s[k + 1] = x /\ k + 1 \in 1..Len(s)
        BY <1>1, <1>2, <2>1
    <2> QED
        BY <2>2, ElementsOfSeq
<1>7. DOMAIN Tail(s) = 1..Len(s) - 1
    BY <1>2, ElementsOfSeq
<1> QED
    BY <1>1, <1>2, <1>3, <1>4, <1>5, <1>6, <1>7

LEMMA FrontAndLast ==
    ASSUME NEW S, NEW s \in Seq(S), s # << >>
    PROVE  /\ Last(s) = s[Len(s)] /\ Last(s) \in S /\ Len(s) \in DOMAIN s
           /\ Front(s) \in Seq(S) /\ DOMAIN Front(s) = 1..Len(s) - 1
           /\ Len(s) \in Nat \ {0} /\ DOMAIN s = 1..Len(s)
           /\ \A k \in 1..Len(s) - 1 : Front(s)[k] = s[k]
<1>1. Len(s) \in Nat \ {0}
    BY EmptySeq
<1>2. \A k \in 1..Len(s) : s[k] \in S
    BY ElementOfSeq
<1>3. Last(s) = s[Len(s)] /\ Last(s) \in S
    BY <1>1, <1>2 DEF Last
<1>4. Front(s) = SubSeq(s, 1, Len(s) - 1)
    BY DEF Front
<1>5. \A k \in 1..Len(s) - 1 : s[k] \in S
    BY <1>1, <1>2
<1>6. /\ Front(s) \in Seq(S)
      /\ Len(Front(s)) = IF 1 <= Len(s) - 1 THEN Len(s) - 1 - 1 + 1 ELSE 0
      /\ \A k \in 1..Len(s) - 1 - 1 + 1 : Front(s)[k] = s[1 + k - 1]
    BY <1>1, <1>4, <1>5, SubSeqProperties
<1>7. Len(Front(s)) = Len(s) - 1
    <2> DEFINE n == Len(s)
    <2>1. n \in Nat \ {0} /\ Len(Front(s)) = IF 1 <= n - 1 THEN n - 1 - 1 + 1 ELSE 0
        BY <1>1, <1>6
    <2> HIDE DEF n
    <2>2. Len(Front(s)) = n - 1
        BY <2>1
    <2> QED
        BY <2>2 DEF n
<1>8. \A k \in 1..Len(s) - 1 : Front(s)[k] = s[k]
    BY <1>1, <1>6
<1>9. DOMAIN Front(s) = 1..Len(s) - 1 /\ DOMAIN s = 1..Len(s) /\ Len(s) \in DOMAIN s
    BY <1>1, <1>6, <1>7, ElementsOfSeq
<1> QED
    BY <1>1, <1>3, <1>6, <1>8, <1>9

-----------------------------------------------------------------------------
(* Types.                                                                  *)

LEMMA PackageFiles ==
    /\ \A i \in DOMAIN Packages : /\ Packages[i] \in Seq(Path) /\ Packages[i] # << >>
                                  /\ Files(i) \subseteq Path
    /\ DOMAIN Packages = 1..Len(Packages) /\ Len(Packages) \in Nat
<1>1. Packages \in Seq(Seq(Path))
    BY PackagesAssumption
<1>2. DOMAIN Packages = 1..Len(Packages) /\ Len(Packages) \in Nat
    BY <1>1, LenProperties
<1>3. \A i \in DOMAIN Packages : Packages[i] \in Seq(Path) /\ Packages[i] # << >>
    BY <1>1, <1>2, ElementOfSeq, PackagesAssumption
<1> QED
    BY <1>2, <1>3, ElementsOfSeq DEF Files

(* The three parts of the type invariant.                                  *)
DiskTyped ==
    /\ tree \in [Path -> Content] /\ backup \in [Path -> Content]
    /\ before \in [Path -> Content]
    /\ staged \subseteq Path /\ already \subseteq Path
    /\ imports \in 0..MaxImports

SeqTyped == todo \in Seq(Path) /\ moved \in Seq(Move)

FlowTyped ==
    /\ at \in {"idle", "package", "file", "swap", "putBack", "undo", "down"}
    /\ pkg \in 1..(Len(Packages) + 1)
    /\ flawed \subseteq DOMAIN Packages
    /\ committed \cap rejected = {}
    /\ committed \cup rejected \subseteq 1..(pkg - 1)
    /\ saved \in BOOLEAN /\ mishap \in {"none", "crash", "undo"}
    /\ faults \in 0..MaxFaults /\ crashes \in 0..MaxCrashes
    /\ Working => pkg \in DOMAIN Packages
    /\ InFlight => todo # << >>

LEMMA TypeParts == TypeInv <=> DiskTyped /\ SeqTyped /\ FlowTyped
BY DEF TypeInv, TypeOK, DiskTyped, SeqTyped, FlowTyped, Move

LEMMA Bounds ==
    /\ {MaxImports, MaxFaults, MaxCrashes} \subseteq Nat
    /\ DiskTyped => {0, New} \subseteq Content /\ New = imports + 1
<1>1. {MaxImports, MaxFaults, MaxCrashes} \subseteq Nat
    BY PackagesAssumption
<1> QED
    BY <1>1 DEF DiskTyped, Content, New

LEMMA InitTypes == Init => TypeInv
<1> SUFFICES ASSUME Init PROVE TypeInv
    OBVIOUS
<1>1. DiskTyped
    BY Bounds DEF Init, DiskTyped, Content
<1>2. SeqTyped
    BY EmptySeq DEF Init, SeqTyped
<1>3. FlowTyped
    <2>1. 1 \in 1..Len(Packages) + 1 /\ 0 \in 0..MaxFaults /\ 0 \in 0..MaxCrashes
        BY Bounds, PackageFiles
    <2> QED
        BY <2>1 DEF Init, FlowTyped, Working, InFlight
<1> QED
    BY <1>1, <1>2, <1>3, TypeParts

LEMMA DiskKept ==
    ASSUME DiskTyped, SeqTyped, FlowTyped, [Next]_vars
    PROVE  DiskTyped'
<1> USE DEF DiskTyped
<1>0. {0, New} \subseteq Content
    BY Bounds
<1>c. Content' = Content
    BY DEF Content
<1>1. CASE Receive
    <2>1. staged' \subseteq Path
        BY <1>1, PackageFiles DEF Receive
    <2>2. imports' \in 0..MaxImports
        BY <1>1, Bounds DEF Receive
    <2> QED
        BY <1>1, <1>c, <2>1, <2>2 DEF Receive
<1>2. CASE BackUp
    <2>1. Head(todo) \in Path
        BY <1>2, HeadAndTail DEF BackUp, SeqTyped
    <2>2. tree' \in [Path -> Content]
        BY <1>0, <1>2, <2>1 DEF BackUp
    <2>3. backup' \in [Path -> Content]
        BY <1>0, <1>2, <2>1 DEF BackUp
    <2> QED
        BY <1>2, <1>c, <2>2, <2>3 DEF BackUp, ghost
<1>3. CASE Swap
    <2>1. Head(todo) \in Path
        BY <1>3, HeadAndTail DEF Swap, SeqTyped, FlowTyped, InFlight
    <2> QED
        BY <1>0, <1>3, <1>c, <2>1 DEF Swap, ghost
<1>4. CASE PutBack
    <2>1. Head(todo) \in Path
        BY <1>4, HeadAndTail DEF PutBack, SeqTyped, FlowTyped, InFlight
    <2>2. \/ UNCHANGED <<tree, backup>>
          \/ Restored(Head(todo))
        BY <1>4 DEF PutBack, BestEffort
    <2>3. tree' \in [Path -> Content] /\ backup' \in [Path -> Content]
        BY <1>0, <2>1, <2>2 DEF Restored
    <2> QED
        BY <1>4, <1>c, <2>3 DEF PutBack, local
<1>5. CASE Undo
    <2> DEFINE m == Last(moved)
    <2>1. m \in Move
        BY <1>5, FrontAndLast DEF Undo, SeqTyped
    <2>2. m.path \in Path
        BY <2>1 DEF Move
    <2>3. \/ UNCHANGED <<tree, backup>>
          \/ Restored(m.path)
          \/ tree' = [tree EXCEPT ![m.path] = 0] /\ UNCHANGED backup
        BY <1>5 DEF Undo, BestEffort
    <2>4. tree' \in [Path -> Content] /\ backup' \in [Path -> Content]
        BY <1>0, <2>2, <2>3 DEF Restored
    <2> QED
        BY <1>5, <1>c, <2>4 DEF Undo
<1>6. CASE Discard
    <2>1. \/ backup' = backup
          \/ backup' = [backup EXCEPT ![Head(moved).path] = 0]
        BY <1>6 DEF Discard
    <2>2. backup' \in [Path -> Content]
        BY <1>0, <2>1
    <2> QED
        BY <1>6, <1>c, <2>2 DEF Discard, ghost
<1>7. CASE \/ BeginPackage \/ Respond \/ SkipFile \/ BackUpFails \/ SwapFails
           \/ RejectPackage \/ CommitPackage \/ Crash \/ Boot \/ UNCHANGED vars
    <2>1. /\ UNCHANGED <<tree, backup, before, already, imports>>
          /\ staged' \in {staged, {}}
        BY <1>7 DEF BeginPackage, Respond, SkipFile, BackUpFails, SwapFails, RejectPackage,
                    CommitPackage, Crash, Boot, vars, disk, local, ghost
    <2> QED
        BY <1>c, <2>1
<1> QED
    BY <1>1, <1>2, <1>3, <1>4, <1>5, <1>6, <1>7 DEF Next, Idle

LEMMA SeqKept ==
    ASSUME SeqTyped, FlowTyped, [Next]_vars
    PROVE  SeqTyped'
<1> USE DEF SeqTyped
<1>1. CASE SkipFile
    BY <1>1, HeadAndTail DEF SkipFile
<1>2. CASE Swap
    <2>1. Head(todo) \in Path /\ Tail(todo) \in Seq(Path)
        BY <1>2, HeadAndTail DEF Swap, FlowTyped, InFlight
    <2>2. [path |-> Head(todo), saved |-> saved] \in Move
        BY <2>1 DEF Move, FlowTyped
    <2>3. Append(moved, [path |-> Head(todo), saved |-> saved]) \in Seq(Move)
        BY <2>2, AppendProperties
    <2> QED
        BY <1>2, <2>1, <2>3 DEF Swap
<1>3. CASE Undo
    BY <1>3, FrontAndLast DEF Undo
<1>4. CASE Discard
    BY <1>4, HeadAndTail DEF Discard
<1>5. CASE BeginPackage
    BY <1>5, PackageFiles DEF BeginPackage
<1>6. CASE Crash
    BY <1>6, EmptySeq DEF Crash
<1>7. CASE \/ Receive \/ Respond \/ BackUp \/ BackUpFails \/ SwapFails \/ PutBack
           \/ RejectPackage \/ CommitPackage \/ Boot \/ UNCHANGED vars
    <2>1. UNCHANGED <<todo, moved>>
        BY <1>7 DEF Receive, Respond, BackUp, BackUpFails, SwapFails, PutBack, RejectPackage,
                    CommitPackage, Boot, vars, local
    <2> QED
        BY <2>1
<1> QED
    BY <1>1, <1>2, <1>3, <1>4, <1>5, <1>6, <1>7 DEF Next, Idle

LEMMA FlowKept ==
    ASSUME FlowTyped, [Next]_vars
    PROVE  FlowTyped'
<1> USE Bounds, PackageFiles DEF FlowTyped, Working, InFlight
<1>1. CASE Receive
    <2>1. flawed' \subseteq DOMAIN Packages
        BY <1>1 DEF Receive
    <2> QED
        BY <1>1, <2>1 DEF Receive
<1>2. CASE BeginPackage
    BY <1>2 DEF BeginPackage, ghost
<1>3. CASE Respond
    BY <1>3 DEF Respond, local, ghost
<1>4. CASE SkipFile
    BY <1>4 DEF SkipFile, ghost
<1>5. CASE BackUp
    BY <1>5 DEF BackUp, ghost
<1>6. CASE BackUpFails
    BY <1>6 DEF BackUpFails, local, ghost
<1>7. CASE Swap
    BY <1>7 DEF Swap, ghost
<1>8. CASE SwapFails
    BY <1>8 DEF SwapFails, local, ghost
<1>9. CASE PutBack
    BY <1>9 DEF PutBack, BestEffort, local
<1>10. CASE Undo
    BY <1>10 DEF Undo, BestEffort
<1>11. CASE RejectPackage
    BY <1>11 DEF RejectPackage, ghost
<1>12. CASE Discard
    BY <1>12 DEF Discard, ghost
<1>13. CASE CommitPackage
    BY <1>13 DEF CommitPackage, ghost
<1>14. CASE Crash
    BY <1>14 DEF Crash
<1>15. CASE Boot
    BY <1>15 DEF Boot, local, ghost
<1>16. CASE UNCHANGED vars
    BY <1>16 DEF vars, local, ghost
<1> QED
    BY <1>1, <1>2, <1>3, <1>4, <1>5, <1>6, <1>7, <1>8, <1>9, <1>10, <1>11, <1>12, <1>13,
       <1>14, <1>15, <1>16 DEF Next, Idle

LEMMA TypesKept == TypeInv /\ [Next]_vars => TypeInv'
BY TypeParts, DiskKept, SeqKept, FlowKept, PTL

-----------------------------------------------------------------------------
(* already_moved keeps its books.                                          *)

LEMMA NothingMoved == moved = << >> => MovedPaths = {} /\ DOMAIN moved = {}
BY DEF MovedPaths

(* What leaves the queue of files.                                         *)
LEMMA QueueTail ==
    ASSUME TypeInv, todo # << >>
    PROVE  /\ Head(todo) \in Path /\ ToSet(todo) = {Head(todo)} \cup ToSet(Tail(todo))
           /\ Tail(todo) = << >> => ToSet(Tail(todo)) = {}
<1>1. todo \in Seq(Path)
    BY DEF TypeInv, TypeOK
<1>2. ToSet(<< >>) = {}
    BY DEF ToSet
<1> QED
    BY <1>1, <1>2, HeadAndTail

(* The file that is undone is none of the others this package moved.       *)
LEMMA MovedFront ==
    ASSUME TypeInv, Booked, moved # << >>, moved' = Front(moved)
    PROVE  /\ Last(moved) = moved[Len(moved)] /\ Len(moved) \in DOMAIN moved
           /\ Last(moved).path \in MovedPaths
           /\ MovedPaths' = MovedPaths \ {Last(moved).path}
           /\ DOMAIN moved' \subseteq DOMAIN moved
           /\ \A k \in DOMAIN moved' : moved'[k] = moved[k] /\ moved[k].path # Last(moved).path
<1>1. moved \in Seq(Move)
    BY DEF TypeInv, TypeOK, Move
<1>2. /\ Last(moved) = moved[Len(moved)] /\ Len(moved) \in DOMAIN moved
      /\ DOMAIN moved' = 1..Len(moved) - 1 /\ DOMAIN moved = 1..Len(moved)
      /\ Len(moved) \in Nat \ {0}
      /\ \A k \in 1..Len(moved) - 1 : moved'[k] = moved[k]
    BY <1>1, FrontAndLast
<1>3. DOMAIN moved' \subseteq DOMAIN moved /\ Len(moved) \notin DOMAIN moved'
    BY <1>2
<1>4. DOMAIN moved = DOMAIN moved' \cup {Len(moved)}
    BY <1>2
<1>5. \A k \in DOMAIN moved' : moved'[k] = moved[k] /\ moved[k].path # Last(moved).path
    BY <1>2, <1>3 DEF Booked
<1>6. MovedPaths' = {moved[k].path : k \in DOMAIN moved'}
    BY <1>5 DEF MovedPaths
<1>7. MovedPaths = {moved[k].path : k \in DOMAIN moved'} \cup {Last(moved).path}
    BY <1>2, <1>4 DEF MovedPaths
<1>8. Last(moved).path \notin {moved[k].path : k \in DOMAIN moved'}
    BY <1>5
<1> QED
    BY <1>2, <1>3, <1>5, <1>6, <1>7, <1>8

LEMMA MovedTail ==
    ASSUME TypeInv, Booked, moved # << >>, moved' = Tail(moved)
    PROVE  /\ Head(moved) = moved[1] /\ 1 \in DOMAIN moved
           /\ MovedPaths' \subseteq MovedPaths
           /\ \A k \in DOMAIN moved' : /\ k + 1 \in DOMAIN moved /\ k \in Nat
                                       /\ moved'[k] = moved[k + 1]
                                       /\ moved[k + 1].path # Head(moved).path
<1>1. moved \in Seq(Move)
    BY DEF TypeInv, TypeOK, Move
<1>2. /\ Head(moved) = moved[1] /\ DOMAIN moved = 1..Len(moved)
      /\ DOMAIN moved' = 1..Len(moved) - 1
      /\ Len(moved) \in Nat \ {0}
      /\ \A k \in 1..Len(moved) - 1 : moved'[k] = moved[k + 1]
    BY <1>1, HeadAndTail, ElementsOfSeq
<1>3. ASSUME NEW k \in DOMAIN moved'
      PROVE  /\ k + 1 \in DOMAIN moved /\ k \in Nat
             /\ moved'[k] = moved[k + 1]
             /\ moved[k + 1].path # Head(moved).path
    <2>1. k + 1 \in DOMAIN moved /\ 1 \in DOMAIN moved /\ k + 1 # 1 /\ k \in Nat
        BY <1>2, <1>3
    <2> QED
        BY <1>2, <1>3, <2>1 DEF Booked
<1>4. MovedPaths' \subseteq MovedPaths
    BY <1>3 DEF MovedPaths
<1>5. 1 \in DOMAIN moved
    BY <1>2
<1> QED
    BY <1>2, <1>3, <1>4, <1>5

LEMMA MovedAppend ==
    ASSUME TypeInv, NEW m \in Move, moved' = Append(moved, m)
    PROVE  /\ MovedPaths' = MovedPaths \cup {m.path}
           /\ DOMAIN moved' = DOMAIN moved \cup {Len(moved) + 1}
           /\ Len(moved) + 1 \notin DOMAIN moved
           /\ moved'[Len(moved) + 1] = m
           /\ \A k \in DOMAIN moved : moved'[k] = moved[k]
<1>1. moved \in Seq(Move)
    BY DEF TypeInv, TypeOK, Move
<1>2. Len(moved) \in Nat /\ DOMAIN moved = 1..Len(moved)
    BY <1>1, ElementsOfSeq
<1>3. /\ moved' \in Seq(Move) /\ Len(moved') = Len(moved) + 1
      /\ \A k \in 1..Len(moved) : moved'[k] = moved[k]
      /\ moved'[Len(moved) + 1] = m
    BY <1>1, AppendProperties
<1>4. DOMAIN moved' = 1..Len(moved) + 1
    BY <1>3, ElementsOfSeq
<1>5. DOMAIN moved' = DOMAIN moved \cup {Len(moved) + 1} /\ Len(moved) + 1 \notin DOMAIN moved
    BY <1>2, <1>4
<1>6. MovedPaths' = MovedPaths \cup {m.path}
    BY <1>2, <1>3, <1>5 DEF MovedPaths
<1> QED
    BY <1>2, <1>3, <1>5, <1>6

LEMMA BookedKept == TypeInv /\ Booked /\ [Next]_vars => Booked'
<1> SUFFICES ASSUME TypeInv, Booked, [Next]_vars PROVE Booked'
    OBVIOUS
<1>0. /\ \A k, l \in DOMAIN moved : moved[k].path = moved[l].path => k = l
      /\ Kept \cup MovedPaths \subseteq already /\ Kept \cap MovedPaths = {}
      /\ \A p \in already : tree[p] = New
      /\ moved # << >> => Working
      /\ Working => MovedPaths \cup ToSet(todo) \subseteq Files(pkg)
      /\ at \in {"file", "swap", "putBack"} => Files(pkg) \ ToSet(todo) \subseteq already
      /\ InFlight => Head(todo) \notin already
      /\ at = "package" => already = Kept
      /\ Working => IF at = "file" /\ todo = << >> THEN already = Kept \cup Files(pkg)
                                                   ELSE already = Kept \cup MovedPaths
    BY DEF Booked
<1>t. tree \in [Path -> Content] /\ already \subseteq Path
    BY DEF TypeInv, TypeOK
<1>k. committed' = committed => Kept' = Kept
    BY DEF Kept, Files
<1>m. moved' = moved => MovedPaths' = MovedPaths
    BY DEF MovedPaths
<1>f. pkg' = pkg => Files(pkg)' = Files(pkg)
    BY DEF Files
<1> USE DEF Working, InFlight
<1>1. CASE Receive
    <2>1. moved = << >> /\ moved' = moved /\ already' = {} /\ committed' = {} /\ at' = "package"
        BY <1>0, <1>1 DEF Receive
    <2>2. Kept' = {} /\ MovedPaths' = {}
        BY <2>1, <1>m, NothingMoved DEF Kept
    <2> QED
        BY <2>1, <2>2, NothingMoved DEF Booked
<1>2. CASE BeginPackage
    <2>1. /\ moved = << >> /\ already = Kept /\ MovedPaths = {} /\ DOMAIN moved = {}
          /\ UNCHANGED <<moved, already, committed, tree, imports>>
        BY <1>0, <1>2, NothingMoved DEF BeginPackage, disk
    <2>2. CASE pkg \in flawed
        <3>1. at' = "package"
            BY <1>2, <2>2 DEF BeginPackage
        <3> QED
            BY <1>0, <1>k, <1>m, <2>1, <3>1 DEF Booked, New
    <2>3. CASE pkg \notin flawed
        <3>1. at' = "file" /\ todo' = Packages[pkg] /\ pkg' = pkg
            BY <1>2, <2>3 DEF BeginPackage
        <3>2. ToSet(todo') = Files(pkg)' /\ todo' # << >>
            BY <1>2, <1>f, <3>1, PackageFiles DEF BeginPackage, Files
        <3> QED
            BY <1>0, <1>k, <1>m, <2>1, <3>1, <3>2 DEF Booked, New
    <2> QED
        BY <2>2, <2>3
<1>3. CASE Respond
    BY <1>0, <1>3, <1>k, <1>m, NothingMoved DEF Respond, local, Booked, New
<1>4. CASE SkipFile
    <2>1. /\ at = "file" /\ at' = "file" /\ todo # << >> /\ Head(todo) \in already
          /\ todo' = Tail(todo)
          /\ UNCHANGED <<moved, already, committed, tree, imports, pkg>>
        BY <1>4 DEF SkipFile, disk
    <2>2. /\ ToSet(todo) = {Head(todo)} \cup ToSet(todo')
          /\ todo' = << >> => ToSet(todo') = {}
        BY <2>1, QueueTail
    <2>3. Files(pkg) \ ToSet(todo') \subseteq already
        BY <1>0, <2>1, <2>2
    <2>4. MovedPaths \cup ToSet(todo') \subseteq Files(pkg)
        BY <1>0, <2>1, <2>2
    <2>5. todo' = << >> => already = Kept \cup Files(pkg)
        BY <1>0, <2>1, <2>2, <2>3, <2>4
    <2> QED
        BY <1>0, <1>k, <1>m, <1>f, <2>1, <2>3, <2>4, <2>5 DEF Booked, New
<1>5. CASE BackUp
    <2>1. /\ at = "file" /\ at' = "swap" /\ todo # << >> /\ Head(todo) \notin already
          /\ tree' = [tree EXCEPT ![Head(todo)] = 0]
          /\ UNCHANGED <<moved, already, committed, imports, pkg, todo>>
        BY <1>5 DEF BackUp
    <2>2. \A p \in already : tree'[p] = New
        BY <1>0, <1>t, <2>1
    <2> QED
        BY <1>0, <1>k, <1>m, <1>f, <2>1, <2>2 DEF Booked, New
<1>6. CASE BackUpFails \/ SwapFails
    <2>1. /\ at \in {"file", "swap"} /\ at' \in {"undo", "putBack"} /\ todo # << >>
          /\ at' = "putBack" => at = "swap"
          /\ UNCHANGED <<moved, already, committed, imports, pkg, todo, tree>>
        BY <1>6 DEF BackUpFails, SwapFails, disk, local, TypeInv
    <2> QED
        BY <1>0, <1>k, <1>m, <1>f, <2>1 DEF Booked, New
<1>7. CASE Swap
    <2> DEFINE p == Head(todo)
               m == [path |-> p, saved |-> saved]
    <2>1. /\ at = "swap" /\ at' = "file" /\ todo # << >> /\ p \notin already
          /\ tree' = [tree EXCEPT ![p] = New] /\ todo' = Tail(todo)
          /\ moved' = Append(moved, m) /\ already' = already \cup {p}
          /\ UNCHANGED <<committed, imports, pkg>>
        BY <1>0, <1>7 DEF Swap, TypeInv
    <2>2. /\ p \in Path /\ ToSet(todo) = {p} \cup ToSet(todo')
          /\ todo' = << >> => ToSet(todo') = {}
        BY <2>1, QueueTail
    <2>3. m \in Move
        BY <2>2 DEF Move, TypeInv, TypeOK
    <2>4. /\ MovedPaths' = MovedPaths \cup {p}
          /\ DOMAIN moved' = DOMAIN moved \cup {Len(moved) + 1}
          /\ Len(moved) + 1 \notin DOMAIN moved
          /\ moved'[Len(moved) + 1] = m
          /\ \A k \in DOMAIN moved : moved'[k] = moved[k]
        BY <2>1, <2>3, MovedAppend
    <2>5. p \notin MovedPaths /\ p \notin Kept
        BY <1>0, <2>1
    <2>6. \A k \in DOMAIN moved : moved[k].path # p
        BY <2>5 DEF MovedPaths
    <2>7. \A k, l \in DOMAIN moved' : moved'[k].path = moved'[l].path => k = l
        BY <1>0, <2>4, <2>6
    <2>8. \A q \in already' : tree'[q] = New
        BY <1>0, <1>t, <2>1, <2>2
    <2>9. /\ MovedPaths' \cup ToSet(todo') \subseteq Files(pkg)
          /\ Files(pkg) \ ToSet(todo') \subseteq already'
        BY <1>0, <2>1, <2>2, <2>4
    <2>10. already' = Kept \cup MovedPaths'
        BY <1>0, <2>1, <2>4
    <2>11. todo' = << >> => already' = Kept \cup Files(pkg)
        BY <2>2, <2>9, <2>10
    <2>12. Kept \cap MovedPaths' = {}
        BY <1>0, <2>4, <2>5
    <2> QED
        BY <1>k, <1>f, <2>1, <2>7, <2>8, <2>9, <2>10, <2>11, <2>12 DEF Booked, New
<1>8. CASE PutBack
    <2>1. /\ at = "putBack" /\ at' = "undo" /\ todo # << >> /\ Head(todo) \notin already
          /\ tree' = tree \/ tree' = [tree EXCEPT ![Head(todo)] = backup[Head(todo)]]
          /\ UNCHANGED <<moved, already, committed, imports, pkg, todo>>
        BY <1>0, <1>8 DEF PutBack, BestEffort, Restored, local, TypeInv
    <2>2. \A p \in already : tree'[p] = New
        BY <1>0, <1>t, <2>1
    <2> QED
        BY <1>0, <1>k, <1>m, <1>f, <2>1, <2>2 DEF Booked, New
<1>9. CASE Undo
    <2> DEFINE p == Last(moved).path
    <2>1. /\ at = "undo" /\ at' = "undo" /\ moved # << >> /\ moved' = Front(moved)
          /\ already' = already \ {p}
          /\ tree' = tree \/ tree' = [tree EXCEPT ![p] = backup[p]] \/ tree' = [tree EXCEPT ![p] = 0]
          /\ UNCHANGED <<committed, imports, pkg, todo>>
        BY <1>9 DEF Undo, BestEffort, Restored
    <2>2. /\ p \in MovedPaths /\ MovedPaths' = MovedPaths \ {p}
          /\ DOMAIN moved' \subseteq DOMAIN moved
          /\ \A k \in DOMAIN moved' : moved'[k] = moved[k]
        BY <2>1, MovedFront
    <2>3. \A q \in already' : tree'[q] = New
        BY <1>0, <1>t, <2>1
    <2>4. already' = Kept \cup MovedPaths' /\ Kept \cap MovedPaths' = {}
        BY <1>0, <2>1, <2>2
    <2>5. MovedPaths' \cup ToSet(todo) \subseteq Files(pkg)
        BY <1>0, <2>1, <2>2
    <2>6. \A k, l \in DOMAIN moved' : moved'[k].path = moved'[l].path => k = l
        BY <1>0, <2>2
    <2> QED
        BY <1>k, <1>f, <2>1, <2>3, <2>4, <2>5, <2>6 DEF Booked, New
<1>10. CASE RejectPackage
    <2>1. /\ at = "undo" /\ at' = "package" /\ moved = << >>
          /\ UNCHANGED <<moved, already, committed, imports, tree>>
        BY <1>10 DEF RejectPackage, disk
    <2> QED
        BY <1>0, <1>k, <1>m, <2>1, NothingMoved DEF Booked, New
<1>11. CASE Discard
    <2>1. /\ at = "file" /\ at' = "file" /\ todo = << >> /\ moved # << >> /\ moved' = Tail(moved)
          /\ UNCHANGED <<already, committed, imports, tree, pkg, todo>>
        BY <1>11 DEF Discard
    <2>2. /\ MovedPaths' \subseteq MovedPaths
          /\ \A k \in DOMAIN moved' : /\ k + 1 \in DOMAIN moved /\ k \in Nat
                                      /\ moved'[k] = moved[k + 1]
        BY <2>1, MovedTail
    <2>3. ASSUME NEW k \in DOMAIN moved', NEW l \in DOMAIN moved', moved'[k].path = moved'[l].path
          PROVE  k = l
        <3>1. k + 1 = l + 1
            BY <1>0, <2>2, <2>3
        <3> QED
            BY <2>2, <3>1
    <2> QED
        BY <1>0, <1>k, <1>f, <2>1, <2>2, <2>3 DEF Booked, New
<1>12. CASE CommitPackage
    <2>1. /\ at = "file" /\ at' = "package" /\ todo = << >> /\ moved = << >>
          /\ committed' = committed \cup {pkg}
          /\ UNCHANGED <<already, moved, imports, tree>>
        BY <1>12 DEF CommitPackage, disk
    <2>2. Kept' = Kept \cup Files(pkg)
        BY <2>1 DEF Kept, Files
    <2> QED
        BY <1>0, <1>m, <2>1, <2>2, NothingMoved DEF Booked, New
<1>13. CASE Crash
    <2>1. /\ at' = "down" /\ moved' = << >>
          /\ UNCHANGED <<already, committed, imports, tree>>
        BY <1>13 DEF Crash, disk
    <2>2. MovedPaths' = {} /\ DOMAIN moved' = {}
        BY <2>1 DEF MovedPaths
    <2> QED
        BY <1>0, <1>k, <2>1, <2>2 DEF Booked, New
<1>14. CASE Boot
    BY <1>0, <1>14, <1>k, <1>m DEF Boot, local, Booked, New
<1>15. CASE UNCHANGED vars
    BY <1>0, <1>15, <1>k, <1>m, <1>f DEF vars, disk, local, Booked, New
<1> QED
    BY <1>1, <1>2, <1>3, <1>4, <1>5, <1>6, <1>7, <1>8, <1>9, <1>10, <1>11, <1>12, <1>13,
       <1>14, <1>15 DEF Next, Idle

-----------------------------------------------------------------------------
(* A package can be undone until it is committed.                          *)

LEMMA UndoableKept ==
    TypeInv /\ Booked /\ Undoable /\ Between /\ [Next]_vars => Undoable'
<1> SUFFICES ASSUME TypeInv, Booked, Undoable, Between, [Next]_vars, Serving', mishap' = "none"
             PROVE  /\ \A k \in DOMAIN moved' :
                         LET m == moved'[k] IN
                         /\ m.saved <=> before'[m.path] # 0
                         /\ m.saved => backup'[m.path] = before'[m.path]
                    /\ InFlight' => LET p == Head(todo') IN
                         /\ tree'[p] = 0
                         /\ saved' <=> before'[p] # 0
                         /\ saved' => backup'[p] = before'[p]
                    /\ \A p \in Path \ already' :
                         (InFlight' => p # Head(todo')) => tree'[p] = before'[p]
    BY DEF Undoable
<1>t. /\ tree \in [Path -> Content] /\ backup \in [Path -> Content] /\ saved \in BOOLEAN
      /\ moved \in Seq(Move) /\ todo \in Seq(Path)
    BY DEF TypeInv, TypeOK, Move
<1>u. ASSUME Serving, mishap = "none"
      PROVE  /\ \A k \in DOMAIN moved :
                  /\ moved[k].saved <=> before[moved[k].path] # 0
                  /\ moved[k].saved => backup[moved[k].path] = before[moved[k].path]
             /\ InFlight => /\ tree[Head(todo)] = 0
                            /\ saved <=> before[Head(todo)] # 0
                            /\ saved => backup[Head(todo)] = before[Head(todo)]
             /\ \A p \in Path \ already : (InFlight => p # Head(todo)) => tree[p] = before[p]
    BY <1>u DEF Undoable
<1>b. \A k \in DOMAIN moved : moved[k].path \in MovedPaths /\ moved[k].path \in already
    BY DEF Booked, MovedPaths
<1>e. moved # << >> => Working
    BY DEF Booked
<1> USE DEF Working, InFlight, Serving
<1>1. CASE Receive
    <2>1. moved' = << >> /\ at' = "package" /\ before' = tree /\ tree' = tree
        BY <1>1, <1>e DEF Receive
    <2> QED
        BY <2>1
<1>2. CASE BeginPackage \/ SkipFile \/ BackUpFails \/ RejectPackage \/ CommitPackage
    <2>1. /\ at \in {"package", "file", "undo"} /\ at' \in {"package", "file", "undo"}
          /\ UNCHANGED <<tree, backup, before, moved, mishap, already>>
        BY <1>2 DEF BeginPackage, SkipFile, BackUpFails, RejectPackage, CommitPackage,
                    disk, ghost, local
    <2> QED
        BY <1>u, <2>1
<1>3. CASE BackUp
    <2> DEFINE p == Head(todo)
    <2>1. /\ at = "file" /\ at' = "swap" /\ todo # << >> /\ p \notin already
          /\ saved' = (tree[p] # 0)
          /\ backup' = IF tree[p] # 0 THEN [backup EXCEPT ![p] = tree[p]] ELSE backup
          /\ tree' = [tree EXCEPT ![p] = 0]
          /\ UNCHANGED <<before, moved, mishap, already, todo>>
        BY <1>3 DEF BackUp, ghost
    <2>2. p \in Path
        BY <2>1, QueueTail
    <2>3. tree[p] = before[p]
        BY <1>u, <2>1, <2>2
    <2>4. tree'[p] = 0 /\ (saved' <=> before[p] # 0) /\ (saved' => backup'[p] = before[p])
        BY <1>t, <2>1, <2>2, <2>3
    <2>5. \A q \in Path : q # p => tree'[q] = tree[q] /\ backup'[q] = backup[q]
        BY <1>t, <2>1, <2>2
    <2>6. \A k \in DOMAIN moved : moved[k].path \in Path /\ moved[k].path # p
        BY <1>b, <2>1 DEF TypeInv, TypeOK
    <2> QED
        BY <1>u, <2>1, <2>4, <2>5, <2>6
<1>4. CASE Swap
    <2> DEFINE p == Head(todo)
               m == [path |-> p, saved |-> saved]
    <2>1. /\ at = "swap" /\ at' = "file" /\ todo # << >>
          /\ tree' = [tree EXCEPT ![p] = New] /\ moved' = Append(moved, m)
          /\ already' = already \cup {p}
          /\ UNCHANGED <<before, backup, mishap>>
        BY <1>4 DEF Swap, ghost, TypeInv
    <2>2. p \in Path /\ m \in Move
        BY <1>t, <2>1, QueueTail DEF Move
    <2>3. /\ DOMAIN moved' = DOMAIN moved \cup {Len(moved) + 1}
          /\ moved'[Len(moved) + 1] = m
          /\ \A k \in DOMAIN moved : moved'[k] = moved[k]
        BY <2>1, <2>2, MovedAppend
    <2>4. (saved <=> before[p] # 0) /\ (saved => backup[p] = before[p])
        BY <1>u, <2>1
    <2>5. \A q \in Path \ already' : tree'[q] = before[q]
        BY <1>t, <1>u, <2>1, <2>2
    <2>6. ASSUME NEW k \in DOMAIN moved'
          PROVE  /\ moved'[k].saved <=> before[moved'[k].path] # 0
                 /\ moved'[k].saved => backup[moved'[k].path] = before[moved'[k].path]
        <3>1. CASE k = Len(moved) + 1
            BY <2>3, <2>4, <3>1
        <3>2. CASE k \in DOMAIN moved
            BY <1>u, <2>1, <2>3, <3>2
        <3> QED
            BY <2>3, <3>1, <3>2
    <2> QED
        BY <2>1, <2>5, <2>6
<1>5. CASE SwapFails
    <2>1. /\ at = "swap" /\ UNCHANGED <<tree, backup, before, moved, mishap, already, todo, saved>>
          /\ todo # << >> /\ at' = IF saved THEN "putBack" ELSE "undo"
        BY <1>5 DEF SwapFails, disk, local, ghost, TypeInv
    <2>2. ~saved => tree[Head(todo)] = before[Head(todo)]
        BY <1>u, <2>1
    <2>3. ASSUME ~saved, NEW p \in Path \ already PROVE tree[p] = before[p]
        BY <1>u, <2>1, <2>2, <2>3
    <2> QED
        BY <1>u, <2>1, <2>3
<1>6. CASE PutBack
    <2> DEFINE p == Head(todo)
    <2>1. /\ at = "putBack" /\ at' = "undo" /\ todo # << >> /\ Restored(p)
          /\ UNCHANGED <<before, moved, mishap, already, todo>>
        BY <1>6 DEF PutBack, BestEffort, local, TypeInv
    <2>2. p \in Path /\ p \notin already
        BY <2>1, QueueTail DEF Booked
    <2>3. (saved <=> before[p] # 0) /\ (saved => backup[p] = before[p])
        BY <1>u, <2>1
    <2>4. tree'[p] = before[p]
        BY <1>t, <2>1, <2>2, <2>3 DEF Restored, Between
    <2>5. \A q \in Path : q # p => tree'[q] = tree[q] /\ backup'[q] = backup[q]
        BY <1>t, <2>1, <2>2 DEF Restored
    <2>6. \A k \in DOMAIN moved : moved[k].path \in Path /\ moved[k].path # p
        BY <1>b, <2>2 DEF TypeInv, TypeOK
    <2>7. \A k \in DOMAIN moved :
            /\ moved[k].saved <=> before[moved[k].path] # 0
            /\ moved[k].saved => backup'[moved[k].path] = before[moved[k].path]
        BY <1>u, <2>1, <2>5, <2>6
    <2>8. \A q \in Path \ already : tree'[q] = before[q]
        BY <1>u, <2>1, <2>4, <2>5
    <2> QED
        BY <2>1, <2>7, <2>8
<1>7. CASE Undo
    <2> DEFINE m == Last(moved)
               p == m.path
    <2>1. /\ at = "undo" /\ at' = "undo" /\ moved # << >> /\ moved' = Front(moved)
          /\ already' = already \ {p}
          /\ IF m.saved THEN Restored(p)
             ELSE tree' = [tree EXCEPT ![p] = 0] /\ UNCHANGED backup
          /\ UNCHANGED <<before, mishap>>
        BY <1>7 DEF Undo, BestEffort
    <2>2. /\ m = moved[Len(moved)] /\ Len(moved) \in DOMAIN moved
          /\ DOMAIN moved' \subseteq DOMAIN moved
          /\ \A k \in DOMAIN moved' : moved'[k] = moved[k] /\ moved[k].path # p
        BY <2>1, MovedFront
    <2>3. p \in Path /\ \A k \in DOMAIN moved : moved[k].path \in Path
        BY <1>b, <2>2 DEF TypeInv, TypeOK
    <2>4. (m.saved <=> before[p] # 0) /\ (m.saved => backup[p] = before[p])
        BY <1>u, <2>1, <2>2
    <2>5. tree'[p] = before[p]
        BY <1>t, <2>1, <2>3, <2>4 DEF Restored
    <2>6. \A q \in Path : q # p => tree'[q] = tree[q] /\ backup'[q] = backup[q]
        BY <1>t, <2>1, <2>3 DEF Restored
    <2>7. \A k \in DOMAIN moved' :
            /\ moved'[k].saved <=> before[moved'[k].path] # 0
            /\ moved'[k].saved => backup'[moved'[k].path] = before[moved'[k].path]
        BY <1>u, <2>1, <2>2, <2>3, <2>6
    <2>8. \A q \in Path \ already' : tree'[q] = before[q]
        BY <1>u, <2>1, <2>5, <2>6
    <2> QED
        BY <2>1, <2>7, <2>8
<1>8. CASE Discard
    <2> DEFINE m == Head(moved)
    <2>1. /\ at = "file" /\ at' = "file" /\ moved # << >> /\ moved' = Tail(moved)
          /\ backup' = backup \/ backup' = [backup EXCEPT ![m.path] = 0]
          /\ UNCHANGED <<tree, before, mishap, already>>
        BY <1>8 DEF Discard, ghost
    <2>2. \A k \in DOMAIN moved' : /\ k + 1 \in DOMAIN moved
                                   /\ moved'[k] = moved[k + 1] /\ moved[k + 1].path # m.path
        BY <2>1, MovedTail
    <2>3. \A k \in DOMAIN moved : moved[k].path \in Path
        BY <1>b DEF TypeInv, TypeOK
    <2>4. \A q \in Path : q # m.path => backup'[q] = backup[q]
        BY <1>t, <2>1
    <2>5. \A k \in DOMAIN moved' :
            /\ moved'[k].saved <=> before[moved'[k].path] # 0
            /\ moved'[k].saved => backup'[moved'[k].path] = before[moved'[k].path]
        BY <1>u, <2>1, <2>2, <2>3, <2>4
    <2> QED
        BY <1>u, <2>1, <2>5
<1>9. CASE Respond \/ Crash \/ Boot
    BY <1>9 DEF Respond, Crash, Boot
<1>10. CASE UNCHANGED vars
    BY <1>10, <1>u DEF vars, disk, local, ghost
<1> QED
    BY <1>1, <1>2, <1>3, <1>4, <1>5, <1>6, <1>7, <1>8, <1>9, <1>10 DEF Next, Idle

-----------------------------------------------------------------------------
(* What the books say of the tree.                                         *)

LEMMA BooksAtomic ==
    TypeInv /\ Booked /\ Undoable /\ at = "package" => PackageAtomic
<1> SUFFICES ASSUME TypeInv, Booked, Undoable, at = "package", mishap = "none"
             PROVE  tree = [p \in Path |-> IF \E i \in committed : p \in Files(i)
                                             THEN New ELSE before[p]]
    BY DEF PackageAtomic
<1>1. tree \in [Path -> Content] /\ already = Kept
    BY DEF TypeInv, TypeOK, Booked
<1>2. \A p \in Path : tree[p] = IF \E i \in committed : p \in Files(i)
                                  THEN New ELSE before[p]
    BY <1>1 DEF Booked, Undoable, Serving, InFlight, Kept
<1> QED
    BY <1>1, <1>2

LEMMA BooksInPlace == Booked => CommittedInPlace
BY DEF Booked, CommittedInPlace, Kept

LEMMA BooksSurvive ==
    TypeInv /\ Booked /\ Undoable /\ Between /\ Serving => OriginalsSurvive
<1> SUFFICES ASSUME TypeInv, Booked, Undoable, Between, Serving, mishap # "undo",
                    NEW p \in Path, before[p] # 0
             PROVE  \/ before[p] \in {tree[p], backup[p]}
                    \/ \E i \in DOMAIN Packages :
                         p \in Files(i) /\ \A q \in Files(i) : tree[q] = New
    BY DEF OriginalsSurvive
<1>1. mishap = "none"
    BY DEF Between, Serving, Working, TypeInv, TypeOK
<1>2. CASE p \notin already
    BY <1>1, <1>2 DEF Undoable
<1>3. CASE p \in Kept
    <2>1. PICK i \in committed : p \in Files(i)
        BY <1>3 DEF Kept
    <2>2. \A q \in Files(i) : tree[q] = New
        BY DEF Booked, Kept
    <2>3. i \in DOMAIN Packages
        BY PackageFiles DEF TypeInv, TypeOK
    <2> QED
        BY <2>1, <2>2, <2>3
<1>4. CASE p \in MovedPaths
    BY <1>1, <1>4 DEF Undoable, MovedPaths
<1>5. CASE at = "file" /\ todo = << >> /\ p \in Files(pkg)
    <2>1. pkg \in DOMAIN Packages
        BY <1>5 DEF TypeInv, Working
    <2>2. \A q \in Files(pkg) : tree[q] = New
        BY <1>5 DEF Booked, Working
    <2> QED
        BY <1>5, <2>1, <2>2
<1> QED
    BY <1>2, <1>3, <1>4, <1>5 DEF Booked, Serving

LEMMA BetweenKept ==
    TypeInv /\ Booked /\ Undoable /\ Between /\ [Next]_vars => Between'
<1> SUFFICES ASSUME TypeInv, Booked, Undoable, Between, [Next]_vars PROVE Between'
    OBVIOUS
<1> USE DEF Between
<1>1. CASE Respond
    <2>1. PackageAtomic /\ at = "package"
        BY <1>1, BooksAtomic DEF Respond
    <2>2. UNCHANGED <<tree, before, mishap, committed, imports>> /\ at' = "idle"
        BY <1>1 DEF Respond, local, ghost
    <2> QED
        BY <2>1, <2>2 DEF PackageAtomic, New, Files
<1>2. CASE Boot
    BY <1>2 DEF Boot, ghost
<1>3. CASE Crash
    BY <1>3 DEF Crash
<1>4. CASE UNCHANGED vars
    BY <1>4 DEF vars, disk, local, ghost, PackageAtomic, New, Files
<1>5. CASE Receive \/ BeginPackage \/ SkipFile \/ BackUp \/ BackUpFails \/ Swap
           \/ RejectPackage \/ Discard \/ CommitPackage
    BY <1>5 DEF Receive, BeginPackage, SkipFile, BackUp, BackUpFails, Swap, RejectPackage,
                Discard, CommitPackage, ghost, local
<1>6. CASE SwapFails
    BY <1>6 DEF SwapFails, ghost, local
<1>7. CASE PutBack
    BY <1>7 DEF PutBack, BestEffort
<1>8. CASE Undo
    BY <1>8 DEF Undo, BestEffort
<1> QED
    BY <1>1, <1>2, <1>3, <1>4, <1>5, <1>6, <1>7, <1>8 DEF Next, Idle

LEMMA SurvivalKept ==
    /\ TypeInv /\ Booked /\ OriginalsSurvive /\ [Next]_vars
    /\ TypeInv' /\ Booked' /\ Undoable' /\ Between'
    => OriginalsSurvive'
<1> SUFFICES ASSUME TypeInv, OriginalsSurvive, [Next]_vars,
                    TypeInv', Booked', Undoable', Between'
             PROVE  OriginalsSurvive'
    OBVIOUS
<1>1. CASE Serving'
    BY <1>1, BooksSurvive, PTL
<1>2. CASE ~Serving'
    <2>1. CASE Respond \/ Crash \/ Boot \/ UNCHANGED vars
        <3>1. UNCHANGED <<tree, backup, before, imports>>
              /\ (mishap = "undo" => mishap' = "undo")
            BY <2>1 DEF Respond, Crash, Boot, vars, disk, local, ghost
        <3> QED
            BY <3>1 DEF OriginalsSurvive, New, Files
    <2>2. CASE ~(Respond \/ Crash \/ Boot \/ UNCHANGED vars)
        <3>1. at' \in {"package", "file", "swap", "putBack", "undo"}
            BY <2>2 DEF Next, Idle, Receive, BeginPackage, SkipFile, BackUp, BackUpFails, Swap,
                        SwapFails, PutBack, Undo, RejectPackage, Discard, CommitPackage
        <3> QED
            BY <1>2, <3>1 DEF Serving, Working
    <2> QED
        BY <2>1, <2>2
<1> QED
    BY <1>1, <1>2

-----------------------------------------------------------------------------
(* The theorems.                                                           *)

LEMMA InitInv == Init => IInv
<1> SUFFICES ASSUME Init PROVE IInv
    OBVIOUS
<1>1. TypeInv
    BY InitTypes
<1>2. MovedPaths = {} /\ DOMAIN moved = {} /\ Kept = {}
    BY NothingMoved DEF Init, Kept
<1>3. Booked
    BY <1>2 DEF Init, Booked, Working, InFlight
<1>4. Undoable
    BY DEF Init, Undoable, Serving, Working
<1>5. tree = [p \in Path |-> before[p]]
    BY DEF Init
<1>6. Between
    BY <1>5 DEF Init, Between, PackageAtomic
<1>7. OriginalsSurvive
    BY DEF Init, OriginalsSurvive
<1> QED
    BY <1>1, <1>3, <1>4, <1>6, <1>7 DEF IInv

LEMMA InvKept == IInv /\ [Next]_vars => IInv'
BY TypesKept, BookedKept, UndoableKept, BetweenKept, SurvivalKept DEF IInv

(* IInv holds from the start and every rename, fault, crash and cleanup    *)
(* keeps it.                                                               *)
LEMMA Inductive == Spec => []IInv
BY InitInv, InvKept, PTL DEF Spec

(* Between two packages and when the response is out, the tree is what the *)
(* import found but for the files of the committed packages, whatever      *)
(* rename failed, unless an undo failed or the process died                *)
(* (_commit_packages, _rollback_moved_files).                              *)
THEOREM AllOrNothing == Spec => []PackageAtomic
<1>1. IInv => PackageAtomic
    <2> SUFFICES ASSUME IInv PROVE PackageAtomic
        OBVIOUS
    <2>1. CASE at = "package"
        BY <2>1, BooksAtomic DEF IInv
    <2>2. CASE at # "package"
        BY <2>2 DEF IInv, Between, PackageAtomic
    <2> QED
        BY <2>1, <2>2
<1> QED
    BY <1>1, Inductive, PTL

(* What an import found is in the tree or in its backup until a package    *)
(* that replaces it is completely in place, wherever the process dies and  *)
(* whatever fails but the undo itself (_commit_one_file).                  *)
THEOREM NothingLost == Spec => []OriginalsSurvive
<1>1. IInv => OriginalsSurvive
    BY DEF IInv
<1> QED
    BY <1>1, Inductive, PTL

(* A committed package stays in the tree as it was sent: the undo of a     *)
(* later package that shares a file with it leaves the file alone          *)
(* (already_moved).                                                        *)
THEOREM CommitsStay == Spec => []CommittedInPlace
<1>1. IInv => CommittedInPlace
    BY BooksInPlace DEF IInv
<1> QED
    BY <1>1, Inductive, PTL

-----------------------------------------------------------------------------
(* Following a task.                                                       *)

Rows   == {"absent"} \cup Task!Live \cup Terminal
Events == Task!Progress \cup Terminal

-----------------------------------------------------------------------------
(* The task.                                                               *)

(* A final agrees with the row, but for a `failed' final on a SUCCEEDED    *)
(* row.                                                                    *)
Agrees(e) ==
    \/ e = status[id]
    \/ e = "failed" /\ status[id] = "succeeded"

(* The events from place n + 1 on are finals.                              *)
OnlyFinalsAfter(n) ==
    \A i \in 1..Len(tape[id]) : i > n => tape[id][i] \in Terminal

(* Nothing follows a final, which stands beside a terminal row.            *)
ContractInv ==
    /\ status \in [{id} -> Rows] /\ tape \in [{id} -> Seq(Events)]
    /\ \A i \in 1..Len(tape[id]) : tape[id][i] \in Terminal =>
           /\ i = Len(tape[id])
           /\ status[id] \in Terminal /\ Agrees(tape[id][i])

(* The tape has only grown, and from a terminal row on, which stays, only  *)
(* by a final.                                                             *)
Onward ==
    /\ Len(tape[id]) <= Len(tape'[id])
    /\ \A i \in 1..Len(tape[id]) : tape'[id][i] = tape[id][i]
    /\ status[id] \in Terminal =>
           /\ status'[id] = status[id]
           /\ \A i \in 1..Len(tape'[id]) :
                  i > Len(tape[id]) => tape'[id][i] \in Terminal

LEMMA ContractInit == FollowInit => ContractInv
<1> SUFFICES ASSUME FollowInit PROVE ContractInv
    OBVIOUS
<1>1. status \in [{id} -> Rows] /\ tape \in [{id} -> Seq(Events)]
    BY DEF FollowInit, Task!Init, Rows
<1>2. tape[id] = << >>
    BY DEF FollowInit, Task!Init
<1>3. Len(tape[id]) = 0
    BY <1>2
<1> QED
    BY <1>1, <1>3 DEF ContractInv

LEMMA RowMoves ==
    ASSUME ContractInv, NEW s \in Rows, status[id] \notin Terminal,
           status' = [status EXCEPT ![id] = s], tape' = tape
    PROVE  ContractInv' /\ Onward
BY DEF ContractInv, Onward, Rows

LEMMA TapeGrows ==
    ASSUME ContractInv, NEW e \in Events, status' = status,
           tape' = [tape EXCEPT ![id] = Append(@, e)],
           \A i \in 1..Len(tape[id]) : tape[id][i] \notin Terminal,
           e \in Terminal => status[id] \in Terminal /\ Agrees(e),
           e \notin Terminal => status[id] \notin Terminal
    PROVE  ContractInv' /\ Onward
<1> DEFINE s == tape[id]
<1>1. s \in Seq(Events) /\ Len(s) \in Nat /\ tape'[id] = Append(s, e)
    BY DEF ContractInv
<1>2. /\ Len(tape'[id]) = Len(s) + 1
      /\ tape'[id][Len(s) + 1] = e
      /\ \A i \in 1..Len(s) : tape'[id][i] = s[i]
      /\ tape'[id] \in Seq(Events)
    BY <1>1
<1>3. \A i \in 1..Len(s) + 1 : i \in 1..Len(s) \/ i = Len(s) + 1
    BY <1>1
<1>4. status'[id] = status[id] /\ (Agrees(e) => Agrees(e)')
    BY DEF Agrees
<1>5. Onward
    BY <1>1, <1>2, <1>3, <1>4 DEF Onward
<1>6. status' \in [{id} -> Rows] /\ tape' \in [{id} -> Seq(Events)]
    BY <1>2 DEF ContractInv
<1>7. \A i \in 1..Len(tape'[id]) : tape'[id][i] \in Terminal =>
           /\ i = Len(tape'[id])
           /\ status'[id] \in Terminal /\ Agrees(tape[id][i])'
    BY <1>1, <1>2, <1>3, <1>4 DEF Agrees
<1> QED
    BY <1>5, <1>6, <1>7 DEF ContractInv

LEMMA ContractKept ==
    ASSUME ContractInv, Task!Next PROVE ContractInv' /\ Onward
<1> USE DEF Task!HasFinal, Task!Live, Task!Terminal, Task!Progress, Terminal, Rows, Events
<1>1. CASE Task!Accept(id)
    BY <1>1, RowMoves DEF Task!Accept
<1>2. CASE Task!Start(id)
    BY <1>2, RowMoves DEF Task!Start
<1>3. ASSUME NEW s \in Terminal, Task!Settle(id, s) PROVE ContractInv' /\ Onward
    BY <1>3, RowMoves DEF Task!Settle
<1>4. ASSUME NEW e \in Task!Progress, Task!Record(id, e) PROVE ContractInv' /\ Onward
    <2>1. \A i \in 1..Len(tape[id]) : tape[id][i] \notin Terminal
        BY <1>4 DEF Task!Record, ContractInv
    <2> QED
        BY <1>4, <2>1, TapeGrows DEF Task!Record
<1>5. ASSUME NEW e \in Terminal, Task!Conclude(id, e) PROVE ContractInv' /\ Onward
    <2>1. \A i \in 1..Len(tape[id]) : tape[id][i] \notin Terminal
        BY <1>5 DEF Task!Conclude
    <2>2. e \in Events /\ status[id] \in Terminal /\ Agrees(e)
        BY <1>5 DEF Task!Conclude, Agrees
    <2> QED
        BY <1>5, <2>1, <2>2, TapeGrows DEF Task!Conclude
<1> QED
    BY <1>1, <1>2, <1>3, <1>4, <1>5 DEF Task!Next

-----------------------------------------------------------------------------
(* The follow.                                                             *)

(* The client's cursor is the place after what it has rendered.            *)
CursorInv ==
    /\ seen \in Seq(Nat) /\ RenderedOnce
    /\ stage # "done" => \/ cursor = 0 /\ Len(seen) = 0
                      \/ cursor = Len(seen) + 1

(* A page that was read continues what was rendered, and the tape has it.  *)
Continues ==
    /\ page \in Seq(Nat) /\ Len(seen) + Len(page) <= Len(tape[id])
    /\ \A i \in 1..Len(page) : page[i] = Len(seen) + i

PageInv ==
    /\ stage \in {"park", "reread", "latest", "maxSeq", "reply"} => Continues
    /\ stage \in {"park", "reread"} => page = << >>

(* A row read as terminal is what the row is, however long ago that was;   *)
(* so what max_seq did not count then is a final, and at the end of the    *)
(* follow nothing else is missing.                                         *)
QuietInv ==
    /\ row \in Terminal => status[id] = row
    /\ stage = "reply" =>
           /\ lastSeq \in Nat
           /\ row \in Terminal => OnlyFinalsAfter(lastSeq)
    /\ stage = "fallback" => row \in Terminal /\ OnlyFinalsAfter(Len(seen))
    /\ stage = "done" => status[id] \in Terminal /\ OnlyFinalsAfter(Len(seen))

FollowInv ==
    ContractInv /\ CursorInv /\ PageInv /\ QuietInv /\ ResultMatchesRow

LEMMA FollowBegins == FollowInit => FollowInv
<1> SUFFICES ASSUME FollowInit PROVE FollowInv
    OBVIOUS
<1>1. stage = "poll" /\ cursor = 0 /\ row = "absent" /\ Len(seen) = 0 /\ seen \in Seq(Nat)
    BY DEF FollowInit
<1>2. tape[id] \in Seq(Events)
    BY ContractInit DEF ContractInv
<1>3. RenderedOnce
    BY <1>1, <1>2 DEF RenderedOnce
<1> QED
    BY <1>1, <1>3, ContractInit
    DEF FollowInv, CursorInv, PageInv, QuietInv, ResultMatchesRow, Terminal, Task!Terminal

(* The page at the cursor is the next piece of the tape.                   *)
LEMMA PageRead ==
    ASSUME ContractInv, CursorInv, stage # "done", page' = PageAt(cursor),
           UNCHANGED <<storeVars, seen>>
    PROVE  Continues'
<1> DEFINE first == IF cursor = 0 THEN 1 ELSE cursor
           size  == IF Len(tape[id]) + 1 < first + Limit
                      THEN Len(tape[id]) + 1 - first ELSE Limit
<1>1. Len(seen) \in Nat /\ Len(tape[id]) \in Nat /\ Len(seen) <= Len(tape[id]) /\ Limit \in Nat
    BY FollowAssumption DEF ContractInv, CursorInv, RenderedOnce
<1>2. first = Len(seen) + 1
    BY <1>1 DEF CursorInv
<1>3. size \in Nat /\ Len(seen) + size <= Len(tape[id])
    BY <1>1, <1>2
<1>4. page' = [i \in 1..size |-> first + i - 1]
    BY DEF PageAt
<1> HIDE DEF size, first
<1>5. page' \in [1..size -> Nat] /\ \A i \in 1..size : page'[i] = Len(seen) + i
    BY <1>1, <1>2, <1>3, <1>4
<1>6. page' \in Seq(Nat) /\ Len(page') = size
    BY <1>3, <1>5, SeqDef, LenProperties
<1> QED
    BY <1>3, <1>5, <1>6 DEF Continues, storeVars

(* The task goes on behind the follower's back.                            *)
LEMMA WorksKeeps == FollowInv /\ Works => FollowInv'
<1> SUFFICES ASSUME FollowInv, Works PROVE FollowInv'
    OBVIOUS
<1>1. ContractInv' /\ Onward
    BY ContractKept DEF FollowInv, Works
<1>2. Len(tape[id]) \in Nat /\ Len(tape'[id]) \in Nat
    BY <1>1 DEF FollowInv, ContractInv
<1>3. UNCHANGED <<stage, cursor, row, page, lastSeq, polls, seen, result>>
    BY DEF Works
<1>4. CursorInv'
    BY <1>1, <1>2, <1>3 DEF FollowInv, CursorInv, RenderedOnce, Onward
<1>5. PageInv'
    BY <1>1, <1>2, <1>3 DEF FollowInv, PageInv, Continues, Onward
<1>6. ASSUME NEW n, status[id] \in Terminal, OnlyFinalsAfter(n)
      PROVE  OnlyFinalsAfter(n)'
    BY <1>1, <1>2, <1>6 DEF Onward, OnlyFinalsAfter
<1>7. QuietInv'
    BY <1>1, <1>3, <1>6 DEF FollowInv, QuietInv, Onward, Terminal
<1>8. ResultMatchesRow'
    BY <1>1, <1>2, <1>3 DEF FollowInv, QuietInv, ResultMatchesRow, Onward
<1> QED
    BY <1>1, <1>4, <1>5, <1>7, <1>8 DEF FollowInv

(* Where the tape, the page and what was rendered stay, so does most.      *)
LEMMA StoreKept ==
    ASSUME FollowInv, UNCHANGED storeVars
    PROVE  /\ ContractInv'
           /\ \A n : OnlyFinalsAfter(n)' <=> OnlyFinalsAfter(n)
BY DEF FollowInv, ContractInv, OnlyFinalsAfter, storeVars, Agrees

LEMMA RouteKeeps ==
    ASSUME FollowInv,
           Request \/ ReadRow \/ ReadPage \/ Woken \/ Reread \/ WaitOver
             \/ ReadLatest \/ ReadMaxSeq
    PROVE  FollowInv'
<1> USE DEF storeVars
<1>1. UNCHANGED <<storeVars, cursor, seen, polls, result>> /\ stage # "done" /\ stage' # "done"
    BY DEF Request, ReadRow, ReadPage, Woken, Reread, WaitOver, ReadLatest, ReadMaxSeq
<1>2. ContractInv' /\ \A n : OnlyFinalsAfter(n)' <=> OnlyFinalsAfter(n)
    BY <1>1, StoreKept
<1>3. CursorInv' /\ ResultMatchesRow'
    BY <1>1 DEF FollowInv, CursorInv, RenderedOnce, ResultMatchesRow
<1>4. CASE ReadPage \/ Woken
    <2>1. Continues'
        BY <1>1, <1>4, PageRead DEF FollowInv, ReadPage, Woken
    <2>2. PageInv'
        BY <1>4, <2>1 DEF PageInv, ReadPage, Woken
    <2>3. QuietInv'
        BY <1>1, <1>2, <1>4 DEF FollowInv, QuietInv, ReadPage, Woken
    <2> QED
        BY <1>2, <1>3, <2>2, <2>3 DEF FollowInv
<1>5. CASE Request \/ ReadRow \/ Reread \/ WaitOver \/ ReadLatest
    <2>1. PageInv'
        BY <1>1, <1>5
        DEF FollowInv, PageInv, Continues, Request, ReadRow, Reread, WaitOver, ReadLatest
    <2>2. row' = row \/ row' = status[id]
        BY <1>5 DEF Request, ReadRow, Reread, WaitOver, ReadLatest
    <2>3. stage' \in {"row", "list", "latest", "park", "maxSeq"}
        BY <1>5 DEF Request, ReadRow, Reread, WaitOver, ReadLatest
    <2>4. QuietInv'
        BY <1>1, <2>2, <2>3 DEF FollowInv, QuietInv
    <2> QED
        BY <1>2, <1>3, <2>1, <2>4 DEF FollowInv
<1>6. CASE ReadMaxSeq
    <2>1. lastSeq' = Len(tape[id]) /\ stage = "maxSeq" /\ stage' = "reply" /\ row' = row /\ page' = page
        BY <1>6 DEF ReadMaxSeq
    <2>2. Len(tape[id]) \in Nat
        BY DEF FollowInv, ContractInv
    <2>3. OnlyFinalsAfter(Len(tape[id]))
        BY <2>2 DEF OnlyFinalsAfter
    <2>4. PageInv'
        BY <1>1, <2>1 DEF FollowInv, PageInv, Continues
    <2>5. QuietInv'
        BY <1>1, <1>2, <2>1, <2>2, <2>3 DEF FollowInv, QuietInv
    <2> QED
        BY <1>2, <1>3, <2>4, <2>5 DEF FollowInv
<1> QED
    BY <1>4, <1>5, <1>6

(* The page is rendered: what was seen and the page are one stretch.       *)
LEMMA Rendered ==
    ASSUME FollowInv, Process
    PROVE  /\ seen' \in Seq(Nat) /\ Len(seen') = Len(seen) + Len(page)
           /\ RenderedOnce'
<1>1. /\ seen \in Seq(Nat) /\ page \in Seq(Nat) /\ seen' = seen \o page
      /\ Len(seen) + Len(page) <= Len(tape[id]) /\ tape' = tape
      /\ \A i \in 1..Len(page) : page[i] = Len(seen) + i
      /\ \A i \in 1..Len(seen) : seen[i] = i
    BY DEF FollowInv, CursorInv, PageInv, Continues, RenderedOnce, Process, storeVars
<1>2. Len(seen) \in Nat /\ Len(page) \in Nat
    BY <1>1
<1>3. /\ seen' \in Seq(Nat) /\ Len(seen') = Len(seen) + Len(page)
      /\ \A i \in 1..Len(seen) + Len(page) :
             seen'[i] = IF i <= Len(seen) THEN seen[i] ELSE page[i - Len(seen)]
    BY <1>1, ConcatProperties
<1>4. ASSUME NEW i \in 1..Len(seen') PROVE seen'[i] = i
    <2>1. CASE i <= Len(seen)
        BY <1>1, <1>2, <1>3, <2>1
    <2>2. CASE i > Len(seen)
        <3>1. i - Len(seen) \in 1..Len(page)
            BY <1>2, <1>3, <2>2
        <3>2. page[i - Len(seen)] = Len(seen) + (i - Len(seen))
            BY <1>1, <3>1
        <3> QED
            BY <1>2, <1>3, <2>2, <3>2
    <2> QED
        BY <1>2, <1>3, <2>1, <2>2
<1> QED
    BY <1>1, <1>3, <1>4 DEF RenderedOnce

(* A page with a final ends the follow, and the final ends the tape.       *)
LEMMA FinalSeen ==
    ASSUME FollowInv, Process, Finals # {}
    PROVE  FollowInv'
<1> DEFINE n == CHOOSE m \in Finals : TRUE
           e == tape[id][page[n]]
<1>1. /\ UNCHANGED <<status, tape>> /\ stage = "reply" /\ stage' = "done"
      /\ result' = e /\ row' = row
    BY DEF Process, storeVars
<1>2. n \in 1..Len(page) /\ e \in Terminal
    BY DEF Finals
<1>3. /\ Len(page) \in Nat /\ Len(seen) \in Nat /\ page[n] = Len(seen) + n
      /\ Len(seen) + Len(page) <= Len(tape[id]) /\ Len(tape[id]) \in Nat
    BY <1>1, <1>2 DEF FollowInv, PageInv, Continues, CursorInv, ContractInv
<1>4. page[n] \in 1..Len(tape[id])
    BY <1>2, <1>3
<1>5. page[n] = Len(tape[id]) /\ status[id] \in Terminal /\ Agrees(e)
    BY <1>2, <1>4 DEF FollowInv, ContractInv
<1>6. Len(seen') = Len(tape[id]) /\ CursorInv'
    BY <1>1, <1>2, <1>3, <1>5, Rendered DEF CursorInv
<1>7. QuietInv'
    BY <1>1, <1>3, <1>5, <1>6 DEF FollowInv, QuietInv, OnlyFinalsAfter
<1>8. ResultMatchesRow'
    BY <1>1, <1>4, <1>5 DEF ResultMatchesRow, Agrees
<1>9. PageInv' /\ ContractInv'
    BY <1>1, StoreKept DEF PageInv, storeVars
<1> QED
    BY <1>6, <1>7, <1>8, <1>9 DEF FollowInv

(* A page without one moves the cursor on; one that is quiet hides only a  *)
(* final.                                                                  *)
LEMMA PageSeen ==
    ASSUME FollowInv, Process, Finals = {}
    PROVE  FollowInv'
<1>1. /\ UNCHANGED <<status, tape>> /\ stage = "reply" /\ row' = row
      /\ cursor' = NextFromSeq
      /\ stage' \in {"poll", "fallback"}
      /\ stage' = "fallback" => Quiet
    <2>1. /\ UNCHANGED <<status, tape>> /\ stage = "reply" /\ row' = row
          /\ cursor' = NextFromSeq
          /\ polls' = IF Quiet THEN polls + 1 ELSE 0
          /\ stage' = IF polls' >= MaxPolls THEN "fallback" ELSE "poll"
        BY DEF Process, storeVars
    <2>2. ~(0 >= MaxPolls)
        BY FollowAssumption
    <2> QED
        BY <2>1, <2>2
<1>2. /\ Len(page) \in Nat /\ Len(seen) \in Nat /\ lastSeq \in Nat
      /\ \A i \in 1..Len(page) : page[i] = Len(seen) + i
      /\ page # << >> => Len(page) # 0
      /\ page = << >> => Len(page) = 0
    BY <1>1, EmptySeq DEF FollowInv, PageInv, Continues, CursorInv, QuietInv
<1>3. Len(seen') = Len(seen) + Len(page) /\ seen' \in Seq(Nat) /\ RenderedOnce'
    BY Rendered
<1>4. \/ NextFromSeq = 0 /\ Len(seen') = 0
      \/ NextFromSeq = Len(seen') + 1
    <2>1. CASE page = << >>
        BY <1>1, <1>2, <1>3, <2>1 DEF NextFromSeq, FollowInv, CursorInv
    <2>2. CASE page # << >>
        BY <1>2, <1>3, <2>2 DEF NextFromSeq
    <2> QED
        BY <2>1, <2>2
<1>5. CursorInv'
    BY <1>1, <1>3, <1>4 DEF CursorInv
<1>6. ASSUME Quiet PROVE row \in Terminal /\ OnlyFinalsAfter(Len(seen'))
    <2>1. row \in Terminal /\ OnlyFinalsAfter(lastSeq) /\ ~(lastSeq > 0 /\ NextFromSeq <= lastSeq)
        BY <1>1, <1>6 DEF Quiet, HasMore, FollowInv, QuietInv
    <2>2. lastSeq <= Len(seen')
        BY <1>2, <1>3, <1>4, <2>1
    <2>3. \A i \in 1..Len(tape[id]) : i > Len(seen') => i > lastSeq
        BY <1>2, <1>3, <2>2
    <2> QED
        BY <2>1, <2>3 DEF OnlyFinalsAfter
<1>7. QuietInv'
    BY <1>1, <1>6 DEF FollowInv, QuietInv, OnlyFinalsAfter
<1>8. PageInv' /\ ContractInv' /\ ResultMatchesRow'
    BY <1>1, StoreKept DEF PageInv, ResultMatchesRow, storeVars
<1> QED
    BY <1>5, <1>7, <1>8 DEF FollowInv

LEMMA EndKeeps ==
    ASSUME FollowInv, Fallback \/ TimesOut \/ TransportFails
    PROVE  FollowInv'
<1>1. UNCHANGED <<status, tape, cursor, row, page, lastSeq, polls, seen>> /\ stage # "done"
    BY DEF Fallback, TimesOut, TransportFails, storeVars, Handling
<1>2. ContractInv' /\ \A n : OnlyFinalsAfter(n)' <=> OnlyFinalsAfter(n)
    BY <1>1, StoreKept DEF storeVars
<1>3. CASE Fallback
    <2>1. status[id] \in Terminal /\ OnlyFinalsAfter(Len(seen))
        BY <1>3 DEF FollowInv, QuietInv, Fallback
    <2>2. result' = status[id] /\ stage' = "done"
        BY <1>3, <2>1 DEF Fallback
    <2>3. CursorInv' /\ PageInv'
        BY <1>1, <2>2 DEF FollowInv, CursorInv, PageInv, RenderedOnce
    <2>4. QuietInv' /\ ResultMatchesRow'
        BY <1>1, <1>2, <2>1, <2>2 DEF FollowInv, QuietInv, ResultMatchesRow
    <2> QED
        BY <1>2, <2>3, <2>4 DEF FollowInv
<1>4. CASE TimesOut \/ TransportFails
    <2>1. stage' \in {"timedOut", "raised"}
        BY <1>4 DEF TimesOut, TransportFails
    <2>2. CursorInv' /\ PageInv' /\ QuietInv' /\ ResultMatchesRow'
        BY <1>1, <2>1
        DEF FollowInv, CursorInv, PageInv, QuietInv, RenderedOnce, ResultMatchesRow
    <2> QED
        BY <1>2, <2>2 DEF FollowInv
<1> QED
    BY <1>3, <1>4

LEMMA FollowKept == FollowInv /\ [FollowNext]_followVars => FollowInv'
<1> SUFFICES ASSUME FollowInv, [FollowNext]_followVars PROVE FollowInv'
    OBVIOUS
<1>1. CASE UNCHANGED followVars
    <2>1. UNCHANGED <<status, tape, stage, cursor, row, page, lastSeq, seen, result>>
        BY <1>1 DEF followVars, storeVars
    <2>2. ContractInv' /\ \A n : OnlyFinalsAfter(n)' <=> OnlyFinalsAfter(n)
        BY <2>1, StoreKept DEF storeVars
    <2> QED
        BY <2>1, <2>2
        DEF FollowInv, CursorInv, PageInv, Continues, QuietInv, RenderedOnce, ResultMatchesRow
<1>2. CASE Works
    BY <1>2, WorksKeeps
<1>3. CASE Follow \/ WaitOver
    BY <1>3, RouteKeeps, FinalSeen, PageSeen, EndKeeps DEF Follow
<1>4. CASE TimesOut \/ TransportFails
    BY <1>4, EndKeeps
<1> QED
    BY <1>1, <1>2, <1>3, <1>4 DEF FollowNext, Over

THEOREM FollowInductive == FollowSpec => []FollowInv
BY FollowBegins, FollowKept, PTL DEF FollowSpec

-----------------------------------------------------------------------------
(* Every event is rendered once and in the order of the tape, over all     *)
(* pages, waits and polls.                                                 *)
THEOREM RendersOnce == FollowSpec => []RenderedOnce
<1>1. FollowInv => RenderedOnce
    BY DEF FollowInv, CursorInv
<1> QED
    BY <1>1, FollowInductive, PTL

(* A follow that returns misses nothing but a late final: the handler      *)
(* counts the events after it has read the row.                            *)
THEOREM MissesOnlyFinals == FollowSpec => []OnlyFinalMissed
<1>1. FollowInv => OnlyFinalMissed
    BY DEF FollowInv, QuietInv, OnlyFinalsAfter, OnlyFinalMissed
<1> QED
    BY <1>1, FollowInductive, PTL

(* The follow returns how the row ended, but for a `failed' final on a     *)
(* SUCCEEDED row, which it believes.                                       *)
THEOREM ReturnsTheEnd == FollowSpec => []ResultMatchesRow
<1>1. FollowInv => ResultMatchesRow
    BY DEF FollowInv
<1> QED
    BY <1>1, FollowInductive, PTL

NotRefused == stage # "refused"

(* The request for /result that three quiet pages lead to is never refused *)
(* with task_not_terminal: the row it asks about has ended.                *)
THEOREM NeverRefused == FollowSpec => []NotRefused
<1>1. FollowInit => NotRefused
    BY DEF FollowInit, NotRefused
<1>2. FollowInv /\ NotRefused /\ [FollowNext]_followVars => NotRefused'
    <2> SUFFICES ASSUME FollowInv, NotRefused, [FollowNext]_followVars PROVE NotRefused'
        OBVIOUS
    <2>1. CASE Fallback
        BY <2>1 DEF FollowInv, QuietInv, Fallback, NotRefused
    <2>2. CASE Works \/ TimesOut \/ TransportFails \/ WaitOver \/ UNCHANGED followVars
        BY <2>2 DEF Works, TimesOut, TransportFails, WaitOver, followVars, NotRefused
    <2>3. CASE Follow /\ ~Fallback
        BY <2>3 DEF Follow, Request, ReadRow, ReadPage, Woken, Reread, ReadLatest,
           ReadMaxSeq, Process, NotRefused
    <2> QED
        BY <2>1, <2>2, <2>3 DEF FollowNext, Over
<1> QED
    BY <1>1, <1>2, FollowInductive, PTL DEF FollowSpec
=============================================================================
