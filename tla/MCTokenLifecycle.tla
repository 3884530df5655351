--------------------------- MODULE MCTokenLifecycle -------------------------
(***************************************************************************)
(* Instances of TokenLifecycle: one HMI that may only read, two keys.      *)
(***************************************************************************)
EXTENDS TokenLifecycle, TLC

CONSTANTS h1

ReadOnly == [h \in HMIs |-> {"read"}]

IdSymmetry == Permutations(Ids) \cup Permutations(Keys)
=============================================================================
