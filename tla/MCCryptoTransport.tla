------------------------- MODULE MCCryptoTransport --------------------------
(* One node with several sending threads; every frame counter is tiny.     *)
EXTENDS CryptoTransport, TLC

CONSTANTS n1, k1

OneNode == [t \in Senders |-> n1]
OwnKey == [n \in Nodes |-> k1]

ThreadSymmetry == Permutations(Senders) \cup Permutations(Importers)
=============================================================================
