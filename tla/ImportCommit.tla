--------------------------- MODULE ImportCommit ---------------------------
(***************************************************************************)
(* POST /import (server/routes_import.py): packages, each a markdown file  *)
(* and its assets, are verified in a staging directory and moved one by    *)
(* one into <base>/sources.  A rename is atomic, a package is not: before  *)
(* a file is overwritten it is renamed to a backup, and when a later file  *)
(* of the package fails, what was moved is undone from the backups.        *)
(*                                                                         *)
(* One step is one rename or unlink.  Any of them may raise OSError and    *)
(* the process may die between any two.  The whole commit runs under       *)
(* ingest_lock and without an await, so nothing else moves in between;     *)
(* the next boot wipes the staging directories (_cleanup_orphan_staging in *)
(* server/runtime.py).                                                     *)
(*                                                                         *)
(* Abstractions: a file's content is a number, 0 for no file, 1 for what   *)
(* was there at first, k + 1 for what import k brings.  Every import       *)
(* brings the same packages.  Unpacking, the size limit and the schema     *)
(* checks, which refuse a request before anything is moved, are left out,  *)
(* but for what they ensure (PackagesAssumption).                          *)
(***************************************************************************)
EXTENDS Naturals, Sequences, SequencesExt

CONSTANTS
    Path,                   \* archive paths under sources/
    Packages,               \* Packages[i]: the md path, then the asset paths
    MaxImports,             \* bound: requests
    MaxFaults,              \* bound: renames and unlinks that raise
    MaxCrashes              \* bound: deaths of the process

(* No two packages have the same md path; assets may be shared.            *)
ASSUME PackagesAssumption ==
    /\ Packages \in Seq(Seq(Path))
    /\ \A i, j \in DOMAIN Packages :
         Packages[i] # << >> /\ (i # j => Packages[i][1] # Packages[j][1])
    /\ {MaxImports, MaxFaults, MaxCrashes} \subseteq Nat

VARIABLES
    tree,                   \* tree[p]: the content of sources/p
    backup,                 \* backup[p]: the content of p's .bak.import
    staged,                 \* the files in the staging directory
    at,                     \* where _commit_packages is
    flawed,                 \* packages the digest checks refuse
    pkg,                    \* the package being committed
    todo,                   \* the files it still has to move
    saved,                  \* the file being moved has a backup
    moved,                  \* the files it has moved: path and saved
    already,                \* already_moved
    committed, rejected,    \* the response
    before,                 \* history: the tree as the import found it
    mishap,                 \* history: a crash, or an undo that failed
    imports, faults, crashes

disk  == <<tree, backup, staged>>
local == <<flawed, pkg, todo, saved, moved, already, committed, rejected>>
ghost == <<before, mishap>>
vars  == <<disk, at, local, ghost, imports, faults, crashes>>

Files(i) == ToSet(Packages[i])
New      == imports + 1

Init ==
    /\ tree \in [Path -> {0, 1}] /\ before = tree
    /\ backup = [p \in Path |-> 0]
    /\ staged = {} /\ at = "idle"
    /\ flawed = {} /\ pkg = 1 /\ todo = << >> /\ saved = FALSE /\ moved = << >>
    /\ already = {} /\ committed = {} /\ rejected = {}
    /\ mishap = "none"
    /\ imports = 0 /\ faults = 0 /\ crashes = 0

-----------------------------------------------------------------------------
(* The request.                                                            *)

(* The payload is unpacked and verified: a file whose digest is wrong      *)
(* flaws every package that has it, a wrong package digest only its own.   *)
Receive ==
    /\ at = "idle" /\ imports < MaxImports
    /\ \E bad \in SUBSET Path, wrong \in SUBSET DOMAIN Packages :
         flawed' = {i \in DOMAIN Packages : i \in wrong \/ Files(i) \cap bad # {}}
    /\ staged' = UNION {Files(i) : i \in DOMAIN Packages}
    /\ imports' = imports + 1
    /\ pkg' = 1 /\ already' = {} /\ committed' = {} /\ rejected' = {}
    /\ before' = tree /\ mishap' = "none"
    /\ at' = "package"
    /\ UNCHANGED <<tree, backup, todo, saved, moved, faults, crashes>>

(* The next package, if its digests are right.                             *)
BeginPackage ==
    /\ at = "package" /\ pkg \in DOMAIN Packages
    /\ IF pkg \in flawed
         THEN /\ rejected' = rejected \cup {pkg}
              /\ pkg' = pkg + 1
              /\ UNCHANGED <<at, todo>>
         ELSE /\ todo' = Packages[pkg]
              /\ at' = "file"
              /\ UNCHANGED <<rejected, pkg>>
    /\ UNCHANGED <<disk, flawed, saved, moved, already, committed, ghost,
                   imports, faults, crashes>>

(* The response is sent and the staging directory removed.                 *)
Respond ==
    /\ at = "package" /\ pkg \notin DOMAIN Packages
    /\ staged' = {}
    /\ at' = "idle"
    /\ UNCHANGED <<tree, backup, local, ghost, imports, faults, crashes>>

-----------------------------------------------------------------------------
(* One file of a package: _commit_one_file.                                *)

SkipFile ==
    /\ at = "file" /\ todo # << >> /\ Head(todo) \in already
    /\ todo' = Tail(todo)
    /\ UNCHANGED <<disk, at, flawed, pkg, saved, moved, already, committed,
                   rejected, ghost, imports, faults, crashes>>

(* Mutant: a file an earlier package has moved is not skipped.             *)
BackUpAgain ==
    /\ at = "file" /\ todo # << >>
    /\ LET p == Head(todo) IN
         /\ saved'  = (tree[p] # 0)
         /\ backup' = IF tree[p] # 0 THEN [backup EXCEPT ![p] = tree[p]] ELSE backup
         /\ tree'   = [tree EXCEPT ![p] = 0]
    /\ at' = "swap"
    /\ UNCHANGED <<staged, flawed, pkg, todo, moved, already, committed,
                   rejected, ghost, imports, faults, crashes>>

(* What is there is renamed to the backup, over an older one.              *)
BackUp ==
    /\ at = "file" /\ todo # << >> /\ Head(todo) \notin already
    /\ LET p == Head(todo) IN
         /\ saved'  = (tree[p] # 0)
         /\ backup' = IF tree[p] # 0 THEN [backup EXCEPT ![p] = tree[p]] ELSE backup
         /\ tree'   = [tree EXCEPT ![p] = 0]
    /\ at' = "swap"
    /\ UNCHANGED <<staged, flawed, pkg, todo, moved, already, committed,
                   rejected, ghost, imports, faults, crashes>>

(* Making the directory or renaming to the backup raises.                  *)
BackUpFails ==
    /\ at = "file" /\ todo # << >> /\ Head(todo) \notin already
    /\ faults < MaxFaults /\ faults' = faults + 1
    /\ at' = "undo"
    /\ UNCHANGED <<disk, local, ghost, imports, crashes>>

(* Mutant: the backup goes as soon as its file is in place.                *)
SwapDropsBackup ==
    /\ at = "swap" /\ Head(todo) \in staged
    /\ LET p == Head(todo) IN
         /\ tree'    = [tree EXCEPT ![p] = New]
         /\ backup'  = [backup EXCEPT ![p] = 0]
         /\ staged'  = staged \ {p}
         /\ moved'   = Append(moved, [path |-> p, saved |-> saved])
         /\ already' = already \cup {p}
    /\ todo' = Tail(todo)
    /\ at' = "file"
    /\ UNCHANGED <<flawed, pkg, saved, committed, rejected, ghost,
                   imports, faults, crashes>>

(* The staged file takes the place.                                        *)
Swap ==
    /\ at = "swap" /\ Head(todo) \in staged
    /\ LET p == Head(todo) IN
         /\ tree'    = [tree EXCEPT ![p] = New]
         /\ staged'  = staged \ {p}
         /\ moved'   = Append(moved, [path |-> p, saved |-> saved])
         /\ already' = already \cup {p}
    /\ todo' = Tail(todo)
    /\ at' = "file"
    /\ UNCHANGED <<backup, flawed, pkg, saved, committed, rejected, ghost,
                   imports, faults, crashes>>

(* It raises, or there is no such file in staging any more.                *)
SwapFails ==
    /\ at = "swap"
    /\ IF Head(todo) \in staged
         THEN faults < MaxFaults /\ faults' = faults + 1
         ELSE UNCHANGED faults
    /\ at' = IF saved THEN "putBack" ELSE "undo"
    /\ UNCHANGED <<disk, local, ghost, imports, crashes>>

(* An undo whose OSError is suppressed: it succeeds with effect e, or      *)
(* fails without one.                                                      *)
BestEffort(e) ==
    \/ e /\ UNCHANGED <<faults, mishap>>
    \/ /\ faults < MaxFaults /\ faults' = faults + 1
       /\ mishap' = "undo"
       /\ UNCHANGED <<tree, backup>>

Restored(p) ==
    /\ tree'   = [tree EXCEPT ![p] = backup[p]]
    /\ backup' = [backup EXCEPT ![p] = 0]

PutBack ==
    /\ at = "putBack"
    /\ BestEffort(Restored(Head(todo)))
    /\ at' = "undo"
    /\ UNCHANGED <<staged, local, before, imports, crashes>>

-----------------------------------------------------------------------------
(* The end of a package.                                                   *)

(* Mutant: the files are unlinked, the backups stay where they are.        *)
UndoUnlinks ==
    /\ at = "undo" /\ moved # << >>
    /\ LET m == Last(moved) IN
         /\ BestEffort(tree' = [tree EXCEPT ![m.path] = 0] /\ UNCHANGED backup)
         /\ already' = already \ {m.path}
    /\ moved' = Front(moved)
    /\ UNCHANGED <<staged, at, flawed, pkg, todo, saved, committed, rejected,
                   before, imports, crashes>>

(* _rollback_moved_files, the last file first.                             *)
Undo ==
    /\ at = "undo" /\ moved # << >>
    /\ LET m == Last(moved) IN
         /\ BestEffort(IF m.saved THEN Restored(m.path)
                       ELSE tree' = [tree EXCEPT ![m.path] = 0] /\ UNCHANGED backup)
         /\ already' = already \ {m.path}
    /\ moved' = Front(moved)
    /\ UNCHANGED <<staged, at, flawed, pkg, todo, saved, committed, rejected,
                   before, imports, crashes>>

RejectPackage ==
    /\ at = "undo" /\ moved = << >>
    /\ rejected' = rejected \cup {pkg}
    /\ pkg' = pkg + 1
    /\ at' = "package"
    /\ UNCHANGED <<disk, flawed, todo, saved, moved, already, committed, ghost,
                   imports, faults, crashes>>

(* All files are in place: the backups are dropped.  One that cannot be    *)
(* unlinked stays.                                                         *)
Discard ==
    /\ at = "file" /\ todo = << >> /\ moved # << >>
    /\ LET m == Head(moved) IN
         \/ /\ backup' = IF m.saved THEN [backup EXCEPT ![m.path] = 0] ELSE backup
            /\ UNCHANGED faults
         \/ /\ m.saved /\ faults < MaxFaults /\ faults' = faults + 1
            /\ UNCHANGED backup
    /\ moved' = Tail(moved)
    /\ UNCHANGED <<tree, staged, at, flawed, pkg, todo, saved, already, committed,
                   rejected, ghost, imports, crashes>>

CommitPackage ==
    /\ at = "file" /\ todo = << >> /\ moved = << >>
    /\ committed' = committed \cup {pkg}
    /\ pkg' = pkg + 1
    /\ at' = "package"
    /\ UNCHANGED <<disk, flawed, todo, saved, moved, already, rejected, ghost,
                   imports, faults, crashes>>

-----------------------------------------------------------------------------
(* The process.                                                            *)

Crash ==
    /\ at # "down" /\ crashes < MaxCrashes
    /\ crashes' = crashes + 1
    /\ at' = "down"
    /\ mishap' = IF mishap = "undo" THEN "undo" ELSE "crash"
    /\ todo' = << >> /\ moved' = << >>
    /\ UNCHANGED <<disk, flawed, pkg, saved, already, committed, rejected,
                   before, imports, faults>>

(* _cleanup_orphan_staging.                                                *)
Boot ==
    /\ at = "down"
    /\ staged' = {}
    /\ at' = "idle"
    /\ UNCHANGED <<tree, backup, local, ghost, imports, faults, crashes>>

(* No further request.                                                     *)
Idle == at = "idle" /\ UNCHANGED vars

Next ==
    \/ Receive  \/ BeginPackage \/ Respond
    \/ SkipFile \/ BackUp \/ BackUpFails \/ Swap \/ SwapFails \/ PutBack
    \/ Undo \/ RejectPackage \/ Discard \/ CommitPackage
    \/ Crash \/ Boot \/ Idle

Spec == Init /\ [][Next]_vars

-----------------------------------------------------------------------------
(* Properties.                                                             *)

Content == 0..(MaxImports + 1)

TypeOK ==
    /\ tree \in [Path -> Content] /\ backup \in [Path -> Content]
    /\ before \in [Path -> Content]
    /\ staged \subseteq Path /\ already \subseteq Path
    /\ at \in {"idle", "package", "file", "swap", "putBack", "undo", "down"}
    /\ pkg \in 1..(Len(Packages) + 1)
    /\ flawed \subseteq DOMAIN Packages
    /\ committed \cap rejected = {}
    /\ committed \cup rejected \subseteq 1..(pkg - 1)
    /\ todo \in Seq(Path) /\ moved \in Seq([path : Path, saved : BOOLEAN])
    /\ saved \in BOOLEAN /\ mishap \in {"none", "crash", "undo"}
    /\ imports \in 0..MaxImports
    /\ faults \in 0..MaxFaults /\ crashes \in 0..MaxCrashes

(* A package is committed or rejected as a whole: between two packages the *)
(* tree is what the import found, but for the files of the committed       *)
(* packages.  Only a failing undo or a crash excuses the import.           *)
PackageAtomic ==
    at \in {"package", "idle"} /\ mishap = "none" =>
        tree = [p \in Path |-> IF \E i \in committed : p \in Files(i)
                                 THEN New ELSE before[p]]

(* What an import found is never lost: it is in the tree or in the backup  *)
(* until a package that replaces it is completely in place, whenever the   *)
(* process dies and whatever fails but the undo itself (an asset that an   *)
(* undo leaves behind is taken for the original by the next package that   *)
(* has it, and its backup overwrites the true one).                        *)
OriginalsSurvive ==
    mishap # "undo" => \A p \in Path : before[p] # 0 =>
        \/ before[p] \in {tree[p], backup[p]}
        \/ \E i \in DOMAIN Packages :
             p \in Files(i) /\ \A q \in Files(i) : tree[q] = New

(* Every committed package is in the tree as it was sent, to the end of    *)
(* the import: no later package that shares a file with it undoes it.      *)
CommittedInPlace ==
    \A i \in committed : \A p \in Files(i) : tree[p] = New

(* "safe because the second package references the same archive path which *)
(* is now already in the knowledge tree": each file of a package still to  *)
(* come is in staging or has been moved.  The code does not provide it.    *)
SharedFileAvailable ==
    at = "package" =>
        \A i \in DOMAIN Packages : i >= pkg => Files(i) \subseteq staged \cup already

(* "no commit happened": what a dead process leaves in staging belongs to  *)
(* an import that has not touched the tree.  The code does not provide it. *)
OrphanStagingUncommitted ==
    at = "down" /\ staged # {} => tree = before
=============================================================================
