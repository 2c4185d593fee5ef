------------------------------- MODULE MCMrapi -------------------------------
(***************************************************************************)
(* Instances of MrapiLocks for TLC: the kinds of locks that are created.   *)
(***************************************************************************)
EXTENDS MrapiLocks, TLC

Lock(type, limit, recursive, ext) ==
  [type |-> type, limit |-> limit, recursive |-> recursive, ext |-> ext]

AllKinds == {Lock("mutex", 1, FALSE, FALSE), Lock("mutex", 1, TRUE, FALSE),
             Lock("sem", 2, FALSE, TRUE), Lock("rwl", 2, FALSE, FALSE)}
MutexOnly == {Lock("mutex", 1, FALSE, FALSE)}

\* As built only the lock of the first entry is called; see MrapiSections.cfg.
FirstAsBuilt == [build \in BOOLEAN |-> IF build THEN Slot ELSE {0}]
AllCalled == [build \in BOOLEAN |-> Slot]

Symmetric == Permutations(Node) \union Permutations(Key)
=============================================================================
