------------------------------- MODULE Records -------------------------------
(***************************************************************************)
(* The two records an auditor is shown: the register of devices and the    *)
(* audit log.  They are files of their own and share no state.             *)
(***************************************************************************)
EXTENDS DeviceRegistry, AuditLog

vars == <<registryVars, auditVars>>

Init == RegistryInit /\ AuditInit

Next == \/ RegistryStep /\ UNCHANGED auditVars
        \/ AuditStep /\ UNCHANGED registryVars

Spec == Init /\ [][Next]_vars

\* What holds of each file by itself: see RegistryInv and AuditInv.
RecordsInv == RegistryInv /\ AuditInv
=============================================================================
