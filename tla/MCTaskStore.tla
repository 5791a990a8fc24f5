---------------------------- MODULE MCTaskStore ----------------------------
(* TLC instance of TaskStore: three task ids, so that a cancel or a failure *)
(* can cascade to a grandchild, and a key for each of the three.            *)
EXTENDS TaskStore, TLC

TaskSymmetry == Permutations(Task) \cup Permutations(Key)

=============================================================================
