------------------------------- MODULE Ledger -------------------------------
(***************************************************************************)
(* What a register with a hash chain promises, without transactions,       *)
(* snapshots or locks (core/device_registry.py:13, "Logging append-only    *)
(* con hash chain"): lines are only ever added at the end, each linked to  *)
(* the line before it, and a receipt names a line that is there.           *)
(***************************************************************************)
EXTENDS Naturals, Sequences

CONSTANT Holders

VARIABLES lines, receipts

vars == <<lines, receipts>>

Init == lines = <<>> /\ receipts = {}

Record(h) == /\ lines' = Append(lines, [device |-> h, previous |-> Len(lines)])
             /\ UNCHANGED receipts

Certify(h, n) == /\ n \in DOMAIN lines
                 /\ lines[n].device = h
                 /\ receipts' = receipts \cup {<<h, n>>}
                 /\ UNCHANGED lines

Next == \E h \in Holders : Record(h) \/ \E n \in DOMAIN lines : Certify(h, n)

Spec == Init /\ [][Next]_vars
=============================================================================
