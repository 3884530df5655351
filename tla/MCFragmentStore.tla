--------------------------- MODULE MCFragmentStore --------------------------
(***************************************************************************)
(* Instances of FragmentStore with bundles that share an id.               *)
(***************************************************************************)
EXTENDS FragmentStore

CONSTANTS b1, b2, b3

OneId == [b \in Bundles |-> 1]

\* Two bundles that can be taken for one another, and one that is complete as soon
\* as it is there.
TwoTwoOne == [b \in Bundles |-> IF b = b3 THEN 1 ELSE 2]
=============================================================================
