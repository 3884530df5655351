---------------------------- MODULE MCSyncManager ---------------------------
(* Small instances of the delivery pipeline. *)
EXTENDS SyncManager, TLC

Event(k, at, data) == [key |-> k, at |-> at, data |-> data]

\* Two keys; the first may come again with other content.
TwoKeysChanged == {Event("k1", 1, "a"), Event("k1", 1, "b"), Event("k2", 2, "a")}

TwoKeys == {Event("k1", 1, "a"), Event("k2", 2, "a")}

ThreadSymmetry == Permutations(Threads)
=============================================================================
