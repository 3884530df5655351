-------------------------- MODULE MCCustodyCallers --------------------------
(* Small instances of CustodyCallers. *)
EXTENDS CustodyCallers, TLC

\* For safety only: bundles, hashes and callers are alike.
Alike == Permutations(Bundles) \cup Permutations(Hashes) \cup Permutations(Callers)
=============================================================================
