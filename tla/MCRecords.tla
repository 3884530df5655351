------------------------------ MODULE MCRecords ------------------------------
(***************************************************************************)
(* Instance of Records: two devices, two threads and two sessions.         *)
(***************************************************************************)
EXTENDS Records, TLC

CONSTANTS d1, d2, c1, c2, s1, s2

\* Devices, threads and sessions are interchangeable.
Symmetry == Permutations({d1, d2}) \cup Permutations({c1, c2}) \cup Permutations({s1, s2})
=============================================================================
