--------------------------- MODULE MCTaskManager ---------------------------
(* Small instances of TaskManager for TLC.                                 *)
EXTENDS TaskManager, TLC

(* Tasks are interchangeable: the coroutines never look at a task id.      *)
Symmetry == Permutations(Task)
=============================================================================
