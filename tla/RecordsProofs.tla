---------------------------- MODULE RecordsProofs ---------------------------
(***************************************************************************)
(* Proofs about the records, for any number of devices, threads, sessions  *)
(* and failures: the hash chain never forks and implements Ledger, a       *)
(* session ends once in the log, and a package of evidence agrees with     *)
(* itself.                                                                 *)
(***************************************************************************)
EXTENDS Records, TLAPS

-----------------------------------------------------------------------------
(* The register.                                                           *)

LEMMA RegistryInitInv == RegistryInit => RegistryInv
BY DEF RegistryInit, RegistryInv, RegistryTypeOK, LockIsCurrent, OneLock, CommittedIsThere,
       ChainIntact, Verifies, Registered

\* A step that leaves entries and printed alone keeps the parts of the invariant that
\* speak of them only.
LEMMA ChainFrame ==
  ASSUME RegistryInv, UNCHANGED <<entries, printed>>
  PROVE  ChainIntact'
BY DEF RegistryInv, RegistryTypeOK, ChainIntact, Verifies, Registered

\* A command that ends takes part in nothing any more.
LEMMA EndsKeepsInv ==
  ASSUME RegistryInv, NEW d \in Devices, Ends(d), ChainIntact',
         printed' \subseteq Devices \X Nat
  PROVE  RegistryInv'
BY DEF RegistryInv, RegistryTypeOK, LockIsCurrent, OneLock, CommittedIsThere, SnapshotCurrent,
       Registered, Ends

\* Commit: no command but d has the lock, and the snapshot of d is the chain.
LEMMA CommitKeepsInv ==
  ASSUME RegistryInv, NEW d \in Devices, Commit(d)
  PROVE  RegistryInv'
<1>1. /\ entries \in Seq(Entry) /\ seen[d] = Len(entries) /\ seen[d] \in Nat
      /\ entries' = Append(entries, [device |-> d, previous |-> seen[d]])
      /\ command' = [command EXCEPT ![d] = "committed"]
      /\ UNCHANGED <<seen, printed>>
  BY DEF Commit, RegistryInv, RegistryTypeOK, LockIsCurrent, SnapshotCurrent
<1>2. /\ Len(entries') = Len(entries) + 1
      /\ \A n \in DOMAIN entries : n \in DOMAIN entries' /\ entries'[n] = entries[n]
      /\ entries'[Len(entries) + 1] = [device |-> d, previous |-> seen[d]]
      /\ DOMAIN entries' = 1 .. Len(entries) + 1 /\ DOMAIN entries = 1 .. Len(entries)
      /\ entries' \in Seq(Entry)
  BY <1>1 DEF Entry
<1>3. \A e \in Devices : \A n : Registered(e, n) => Registered(e, n)'
  BY <1>2 DEF Registered
<1>4. RegistryTypeOK'
  BY <1>1, <1>2 DEF RegistryInv, RegistryTypeOK
<1>5. LockIsCurrent' /\ OneLock'
  <2>1. \A e \in Devices : command'[e] # "locked"
    BY <1>1 DEF Commit, RegistryInv, RegistryTypeOK, OneLock
  <2>2. QED
    BY <2>1 DEF LockIsCurrent, OneLock
<1>6. CommittedIsThere'
  <2>1. Registered(d, seen[d] + 1)'
    BY <1>1, <1>2 DEF Registered
  <2>2. QED
    BY <1>1, <1>3, <2>1 DEF RegistryInv, RegistryTypeOK, CommittedIsThere
<1>7. Verifies'
  BY <1>1, <1>2 DEF RegistryInv, ChainIntact, Verifies
<1>8. \A c \in printed' : Registered(c[1], c[2])'
  BY <1>1, <1>3 DEF RegistryInv, RegistryTypeOK, ChainIntact
<1>9. QED
  BY <1>4, <1>5, <1>6, <1>7, <1>8 DEF RegistryInv, ChainIntact

LEMMA RegistryNextInv ==
  ASSUME RegistryInv, RegistryStep \/ UNCHANGED registryVars
  PROVE  RegistryInv'
<1>1. CASE UNCHANGED registryVars
  BY <1>1 DEF registryVars, RegistryInv, RegistryTypeOK, LockIsCurrent, OneLock,
              CommittedIsThere, SnapshotCurrent, Registered, ChainIntact, Verifies
<1>2. CASE RegistryStep
  <2>1. PICK d \in Devices : \/ Begin(d) \/ ReadLast(d) \/ Insert(d) \/ InsertRefused(d)
                             \/ Commit(d) \/ PrintCertificate(d) \/ Killed(d)
    BY <1>2 DEF RegistryStep
  <2>2. CASE Begin(d)
    <3>1. ChainIntact'
      BY <2>2, ChainFrame DEF Begin
    <3>2. QED
      BY <2>2, <3>1 DEF Begin, RegistryInv, RegistryTypeOK, LockIsCurrent, OneLock,
                        CommittedIsThere, SnapshotCurrent, Registered
  <2>3. CASE ReadLast(d)
    <3>1. ChainIntact'
      BY <2>3, ChainFrame DEF ReadLast
    <3>2. QED
      BY <2>3, <3>1 DEF ReadLast, RegistryInv, RegistryTypeOK, LockIsCurrent, OneLock,
                        CommittedIsThere, SnapshotCurrent, Registered
  <2>4. CASE Insert(d)
    <3>1. ChainIntact'
      BY <2>4, ChainFrame DEF Insert
    <3>2. QED
      BY <2>4, <3>1 DEF Insert, Unlocked, RegistryInv, RegistryTypeOK, LockIsCurrent, OneLock,
                        CommittedIsThere, SnapshotCurrent, Registered
  <2>5. CASE InsertRefused(d)
    <3>1. Ends(d) /\ ChainIntact' /\ printed' \subseteq Devices \X Nat
      BY <2>5, ChainFrame DEF InsertRefused, Ends, RegistryInv, RegistryTypeOK
    <3>2. QED
      BY <3>1, EndsKeepsInv
  <2>6. CASE Commit(d)
    BY <2>6, CommitKeepsInv
  <2>7. CASE PrintCertificate(d)
    <3>1. Registered(d, seen[d] + 1) /\ UNCHANGED entries
          /\ printed' = printed \cup {<<d, seen[d] + 1>>}
      BY <2>7 DEF PrintCertificate, Ends, RegistryInv, CommittedIsThere
    <3>2. ChainIntact' /\ printed' \subseteq Devices \X Nat
      BY <3>1 DEF RegistryInv, RegistryTypeOK, ChainIntact, Verifies, Registered
    <3>3. QED
      BY <2>7, <3>2, EndsKeepsInv DEF PrintCertificate
  <2>8. CASE Killed(d)
    <3>1. Ends(d) /\ ChainIntact' /\ printed' \subseteq Devices \X Nat
      BY <2>8, ChainFrame DEF Killed, Ends, RegistryInv, RegistryTypeOK
    <3>2. QED
      BY <3>1, EndsKeepsInv
  <2>9. QED
    BY <2>1, <2>2, <2>3, <2>4, <2>5, <2>6, <2>7, <2>8
<1>3. QED
  BY <1>1, <1>2

-----------------------------------------------------------------------------
(* The audit log.                                                          *)

USE AuditAssumption

LEMMA AuditInitInv == AuditInit => AuditInv
BY DEF AuditInit, AuditInv, AuditTypeOK, ClosingIsAlone, LogFollowsRows,
       OpeningHasRow, ReadIsLogged, EvidenceAgrees, Entries, Packages, NoPackage, NotRead

\* The invariant without the types, which the steps treat alike.
AuditParts == /\ ClosingIsAlone /\ LogFollowsRows /\ OpeningHasRow
              /\ ReadIsLogged /\ EvidenceAgrees

LEMMA AuditTypes ==
  ASSUME AuditTypeOK, AuditStep \/ UNCHANGED auditVars
  PROVE  AuditTypeOK'
<1> USE DEF AuditTypeOK, Goes, Entries
<1>1. CASE UNCHANGED auditVars
  BY <1>1 DEF auditVars
<1>2. ASSUME NEW c \in Callers, NEW s \in Sessions, OpenSession(c, s)
      PROVE  AuditTypeOK'
  BY <1>2 DEF OpenSession
<1>3. ASSUME NEW c \in Callers, NEW s \in Sessions, LogOpened(c, s)
      PROVE  AuditTypeOK'
  BY <1>3 DEF LogOpened
<1>4. ASSUME NEW c \in Callers, NEW s \in Sessions, CloseSession(c, s)
      PROVE  AuditTypeOK'
  BY <1>4 DEF CloseSession
<1>5. ASSUME NEW c \in Callers, NEW s \in Sessions, LogClosed(c, s)
      PROVE  AuditTypeOK'
  BY <1>5 DEF LogClosed
<1>6. Table("audit_log") \in SUBSET Entries
      /\ Table("sessions") \in SUBSET (Sessions \X {"open", "closed"})
  BY DEF Table, Inserted
<1>7. NoPackage \in Packages
  BY DEF NoPackage, Packages, NotRead
<1>8. ASSUME NEW c \in Callers, ExportFirst(c)
      PROVE  AuditTypeOK'
  <2>1. [NoPackage EXCEPT !["audit_log"] = Table("audit_log")] \in Packages
    BY <1>6, <1>7 DEF Packages
  <2>2. QED
    BY <1>8, <2>1 DEF ExportFirst, Reads
<1>9. ASSUME NEW c \in Callers, ExportSecond(c)
      PROVE  AuditTypeOK'
  <2>1. [part[c] EXCEPT !["sessions"] = Table("sessions")] \in Packages
    BY <1>6 DEF Packages
  <2>2. QED
    BY <1>9, <1>7, <2>1 DEF ExportSecond, Reads
<1>10. ASSUME NEW c \in Callers, CallFails(c)
       PROVE  AuditTypeOK'
  BY <1>10, <1>7 DEF CallFails
<1>11. QED
  BY <1>1, <1>2, <1>3, <1>4, <1>5, <1>8, <1>9, <1>10 DEF AuditStep

\* A log that grows, or stays, keeps what was said of packages and of their first half.
LEMMA LogGrows ==
  ASSUME AuditInv, UNCHANGED <<part, package>>,
         \A e \in Entries : log[e] \in Nat /\ log'[e] \in Nat /\ log'[e] >= log[e]
  PROVE  ReadIsLogged' /\ EvidenceAgrees'
<1>1. \A c \in Callers : part[c].audit_log \subseteq Entries
  BY DEF AuditInv, AuditTypeOK, Packages
<1>2. ReadIsLogged'
  BY <1>1 DEF AuditInv, ReadIsLogged
<1>3. EvidenceAgrees'
  BY DEF AuditInv, EvidenceAgrees
<1>4. QED
  BY <1>2, <1>3

LEMMA OpenKeepsParts ==
  ASSUME AuditInv, NEW c \in Callers, NEW s \in Sessions, OpenSession(c, s)
  PROVE  AuditParts'
<1>1. /\ doing[c] = <<"idle">> /\ sessions[s] = "none"
      /\ sessions' = [sessions EXCEPT ![s] = "open"]
      /\ doing' = [doing EXCEPT ![c] = <<"open", s>>]
      /\ UNCHANGED <<log, part, package>>
      /\ sessions \in [Sessions -> {"none", "open", "closed"}]
      /\ doing \in [Callers -> {<<"idle">>, <<"export">>} \cup ({"open", "close"} \X Sessions)]
  BY DEF OpenSession, Goes, AuditInv, AuditTypeOK
<1>2. \A d \in Callers, q \in Sessions :
        doing'[d] = <<"close", q>> => doing[d] = <<"close", q>> /\ q # s
  BY <1>1 DEF AuditInv, ClosingIsAlone
<1>3. ClosingIsAlone'
  BY <1>1, <1>2 DEF AuditInv, ClosingIsAlone
<1>4. OpeningHasRow'
  BY <1>1 DEF AuditInv, OpeningHasRow
<1>5. LogFollowsRows'
  BY <1>1 DEF AuditInv, LogFollowsRows
<1>6. ReadIsLogged' /\ EvidenceAgrees'
  BY <1>1 DEF AuditInv, ReadIsLogged, EvidenceAgrees
<1>7. QED
  BY <1>3, <1>4, <1>5, <1>6 DEF AuditParts

LEMMA LogOpenedKeepsParts ==
  ASSUME AuditInv, NEW c \in Callers, NEW s \in Sessions, LogOpened(c, s)
  PROVE  AuditParts'
<1>1. /\ doing[c] = <<"open", s>> /\ doing' = [doing EXCEPT ![c] = <<"idle">>]
      /\ log' = [log EXCEPT ![<<"SESSION_OPENED", s>>] = @ + 1]
      /\ UNCHANGED <<sessions, part, package>>
      /\ sessions[s] # "none" /\ log \in [Entries -> Nat]
      /\ doing \in [Callers -> {<<"idle">>, <<"export">>} \cup ({"open", "close"} \X Sessions)]
  BY DEF LogOpened, Goes, AuditInv, AuditTypeOK, OpeningHasRow
<1>2. /\ \A q \in Sessions : log'[<<"SESSION_CLOSED", q>>] = log[<<"SESSION_CLOSED", q>>]
      /\ \A e \in Entries : log[e] \in Nat /\ log'[e] \in Nat /\ log'[e] >= log[e]
      /\ \A q \in Sessions : q # s =>
            log'[<<"SESSION_OPENED", q>>] = log[<<"SESSION_OPENED", q>>]
  BY <1>1 DEF Entries
<1>3. ClosingIsAlone' /\ OpeningHasRow'
  BY <1>1, <1>2 DEF AuditInv, ClosingIsAlone, OpeningHasRow
<1>4. LogFollowsRows'
  BY <1>1, <1>2 DEF AuditInv, LogFollowsRows
<1>5. ReadIsLogged' /\ EvidenceAgrees'
  BY <1>1, <1>2, LogGrows
<1>6. QED
  BY <1>3, <1>4, <1>5 DEF AuditParts

LEMMA CloseKeepsParts ==
  ASSUME AuditInv, NEW c \in Callers, NEW s \in Sessions, CloseSession(c, s)
  PROVE  AuditParts'
<1>1. /\ doing[c] = <<"idle">> /\ sessions[s] = "open"
      /\ sessions' = [sessions EXCEPT ![s] = "closed"]
      /\ doing' = [doing EXCEPT ![c] = <<"close", s>>]
      /\ UNCHANGED <<log, part, package>>
      /\ sessions \in [Sessions -> {"none", "open", "closed"}]
      /\ doing \in [Callers -> {<<"idle">>, <<"export">>} \cup ({"open", "close"} \X Sessions)]
  BY DEF CloseSession, StillOpen, Goes, AuditInv, AuditTypeOK
<1>2. \A d \in Callers : doing[d] # <<"close", s>>
  BY <1>1 DEF AuditInv, ClosingIsAlone
<1>3. log[<<"SESSION_CLOSED", s>>] = 0
  BY <1>1 DEF AuditInv, LogFollowsRows
<1>4. ClosingIsAlone'
  BY <1>1, <1>2, <1>3 DEF AuditInv, ClosingIsAlone
<1>5. OpeningHasRow'
  BY <1>1 DEF AuditInv, OpeningHasRow
<1>6. LogFollowsRows'
  BY <1>1 DEF AuditInv, LogFollowsRows
<1>7. ReadIsLogged' /\ EvidenceAgrees'
  BY <1>1 DEF AuditInv, ReadIsLogged, EvidenceAgrees
<1>8. QED
  BY <1>4, <1>5, <1>6, <1>7 DEF AuditParts

LEMMA LogClosedKeepsParts ==
  ASSUME AuditInv, NEW c \in Callers, NEW s \in Sessions, LogClosed(c, s)
  PROVE  AuditParts'
<1>1. /\ doing[c] = <<"close", s>> /\ doing' = [doing EXCEPT ![c] = <<"idle">>]
      /\ log' = [log EXCEPT ![<<"SESSION_CLOSED", s>>] = @ + 1]
      /\ UNCHANGED <<sessions, part, package>>
      /\ sessions[s] = "closed" /\ log[<<"SESSION_CLOSED", s>>] = 0
      /\ log \in [Entries -> Nat]
      /\ doing \in [Callers -> {<<"idle">>, <<"export">>} \cup ({"open", "close"} \X Sessions)]
      /\ \A d \in Callers : doing[d] = <<"close", s>> => c = d
  BY DEF LogClosed, Goes, AuditInv, AuditTypeOK, ClosingIsAlone
<1>2. /\ \A q \in Sessions : log'[<<"SESSION_OPENED", q>>] = log[<<"SESSION_OPENED", q>>]
      /\ \A e \in Entries : log[e] \in Nat /\ log'[e] \in Nat /\ log'[e] >= log[e]
      /\ \A q \in Sessions : q # s =>
            log'[<<"SESSION_CLOSED", q>>] = log[<<"SESSION_CLOSED", q>>]
      /\ log'[<<"SESSION_CLOSED", s>>] = 1
  BY <1>1 DEF Entries
<1>3. ClosingIsAlone' /\ OpeningHasRow'
  BY <1>1, <1>2 DEF AuditInv, ClosingIsAlone, OpeningHasRow
<1>4. LogFollowsRows'
  <2>1. /\ \A q \in Sessions : sessions[q] = "none" => log'[<<"SESSION_OPENED", q>>] = 0
        /\ \A q \in Sessions : q # s =>
              /\ sessions[q] # "closed" => log'[<<"SESSION_CLOSED", q>>] = 0
              /\ log'[<<"SESSION_CLOSED", q>>] <= 1
    BY <1>2 DEF AuditInv, LogFollowsRows
  <2>2. sessions[s] = "closed" /\ log'[<<"SESSION_CLOSED", s>>] <= 1
    BY <1>1, <1>2
  <2>3. sessions' = sessions
    BY <1>1
  <2>4. QED
    BY <2>1, <2>2, <2>3 DEF LogFollowsRows
<1>5. ReadIsLogged' /\ EvidenceAgrees'
  BY <1>1, <1>2, LogGrows
<1>6. QED
  BY <1>3, <1>4, <1>5 DEF AuditParts

LEMMA ExportFirstKeepsParts ==
  ASSUME AuditInv, NEW c \in Callers, ExportFirst(c)
  PROVE  AuditParts'
<1>1. \A e \in Table("audit_log") : log[e] > 0
  BY DEF Table
<1>2. /\ part' = [part EXCEPT ![c] = [NoPackage EXCEPT !["audit_log"] = Table("audit_log")]]
      /\ part \in [Callers -> Packages]
  BY DEF ExportFirst, Reads, AuditInv, AuditTypeOK
<1>3. part'[c].audit_log = Table("audit_log")
  BY <1>2 DEF NoPackage
<1>4. ReadIsLogged'
  BY <1>1, <1>2, <1>3 DEF ExportFirst, AuditInv, ReadIsLogged
<1>5. /\ UNCHANGED <<sessions, log, package>>
      /\ doing' = [doing EXCEPT ![c] = <<"export">>] /\ doing[c] = <<"idle">>
      /\ doing \in [Callers -> {<<"idle">>, <<"export">>} \cup ({"open", "close"} \X Sessions)]
  BY DEF ExportFirst, Goes, AuditInv, AuditTypeOK
<1>6. ClosingIsAlone' /\ LogFollowsRows'
  BY <1>5 DEF AuditInv, ClosingIsAlone, LogFollowsRows
<1>7. OpeningHasRow' /\ EvidenceAgrees'
  BY <1>5 DEF AuditInv, OpeningHasRow, EvidenceAgrees
<1>8. QED
  BY <1>4, <1>6, <1>7 DEF AuditParts

\* The sessions are read after the log: whatever the log said is true of them.
LEMMA ExportSecondKeepsParts ==
  ASSUME AuditInv, NEW c \in Callers, ExportSecond(c)
  PROVE  AuditParts'
<1>1. /\ part \in [Callers -> Packages] /\ part[c] \in Packages
      /\ package' = [part[c] EXCEPT !["sessions"] = Table("sessions")]
      /\ part' = [part EXCEPT ![c] = NoPackage]
      /\ UNCHANGED <<sessions, log>>
  BY DEF ExportSecond, Reads, AuditInv, AuditTypeOK
<1>2. /\ package'.audit_log = part[c].audit_log
      /\ package'.sessions = {<<s, sessions[s]>> : s \in Inserted}
      /\ part[c].audit_log \subseteq Entries
  BY <1>1 DEF Packages, Table
<1>3. ASSUME NEW e \in package'.audit_log
      PROVE  \E q \in package'.sessions : /\ q[1] = e[2]
                                          /\ e[1] = "SESSION_CLOSED" => q[2] = "closed"
  <2>1. e \in Entries /\ log[e] # 0
    <3>1. e \in part[c].audit_log /\ e \in Entries
      BY <1>2
    <3>2. log[e] > 0
      BY <3>1 DEF AuditInv, ReadIsLogged
    <3>3. QED
      BY <3>1, <3>2
  <2>2. PICK s \in Sessions : e = <<"SESSION_OPENED", s>> \/ e = <<"SESSION_CLOSED", s>>
    BY <2>1 DEF Entries
  <2>3. sessions[s] # "none" /\ (e[1] = "SESSION_CLOSED" => sessions[s] = "closed")
    <3>1. CASE e = <<"SESSION_OPENED", s>>
      BY <2>1, <3>1 DEF AuditInv, LogFollowsRows
    <3>2. CASE e = <<"SESSION_CLOSED", s>>
      <4>1. sessions[s] = "closed"
        BY <2>1, <3>2 DEF AuditInv, LogFollowsRows
      <4>2. QED
        BY <4>1
    <3>3. QED
      BY <2>2, <3>1, <3>2
  <2>4. <<s, sessions[s]>> \in package'.sessions
    BY <1>2, <2>3 DEF Inserted
  <2>5. QED
    BY <2>2, <2>3, <2>4
<1>4. EvidenceAgrees'
  BY <1>3 DEF EvidenceAgrees
<1>5. ReadIsLogged'
  BY <1>1 DEF AuditInv, ReadIsLogged, NoPackage, NotRead
<1>6. QED
  BY <1>4, <1>5 DEF AuditInv, AuditParts, AuditTypeOK, ClosingIsAlone, LogFollowsRows,
                    OpeningHasRow, ExportSecond, Goes

LEMMA CallFailsKeepsParts ==
  ASSUME AuditInv, NEW c \in Callers, CallFails(c)
  PROVE  AuditParts'
BY DEF AuditInv, AuditParts, AuditTypeOK, ClosingIsAlone, LogFollowsRows,
       OpeningHasRow, ReadIsLogged, EvidenceAgrees, CallFails, Goes, NoPackage, NotRead

LEMMA AuditNextInv ==
  ASSUME AuditInv, AuditStep \/ UNCHANGED auditVars
  PROVE  AuditInv'
<1>1. AuditTypeOK'
  BY AuditTypes DEF AuditInv
<1>2. AuditParts'
  <2>1. CASE UNCHANGED auditVars
    BY <2>1 DEF auditVars, AuditInv, AuditParts, ClosingIsAlone, LogFollowsRows,
                OpeningHasRow, ReadIsLogged, EvidenceAgrees
  <2>2. CASE AuditStep
    BY <2>2, OpenKeepsParts, LogOpenedKeepsParts, CloseKeepsParts, LogClosedKeepsParts,
       ExportFirstKeepsParts, ExportSecondKeepsParts, CallFailsKeepsParts DEF AuditStep
  <2>3. QED
    BY <2>1, <2>2
<1>3. QED
  BY <1>1, <1>2 DEF AuditInv, AuditParts

-----------------------------------------------------------------------------
(* Together.                                                               *)

\* One chain under one lock, and entries that follow their sessions
\* (device_registry.py:260, compliance.py:409, 462), with any number of commands and threads.
THEOREM RecordsCorrect == Spec => []RecordsInv
<1>1. Init => RecordsInv
  BY RegistryInitInv, AuditInitInv DEF Init, RecordsInv
<1>2. RecordsInv /\ [Next]_vars => RecordsInv'
  BY RegistryNextInv, AuditNextInv DEF RecordsInv, Next, vars
<1>3. QED
  BY <1>1, <1>2, PTL DEF Spec

\* append() never forks the chain, and every printed certificate is of its entry:
\* the deferred transaction of device_registry.py:308 is enough in WAL mode.
THEOREM ChainNeverForks == Spec => []ChainIntact
<1>1. RecordsInv => ChainIntact
  BY DEF RecordsInv, RegistryInv
<1>2. QED
  BY <1>1, RecordsCorrect, PTL

\* A committed command knows its entry, so what it prints is a receipt for it; Commit
\* is the only step that changes the entries.
LEMMA LedgerStep ==
  ASSUME RegistryInv, RegistryStep
  PROVE  [Register!Next]_(Register!vars)
<1> USE DEF Ends
<1>1. PICK d \in Devices : \/ Begin(d) \/ ReadLast(d) \/ Insert(d) \/ InsertRefused(d)
                         \/ Commit(d) \/ PrintCertificate(d) \/ Killed(d)
  BY DEF RegistryStep
<1>2. CASE Commit(d)
  <2>1. seen[d] = Len(entries)
    BY <1>2 DEF Commit, RegistryInv, LockIsCurrent, SnapshotCurrent
  <2>2. Register!Record(d)
    BY <1>2, <2>1 DEF Commit, Register!Record
  <2>3. QED
    BY <2>2 DEF Register!Next
<1>3. CASE PrintCertificate(d)
  <2>1. seen[d] + 1 \in DOMAIN entries /\ entries[seen[d] + 1].device = d
    BY <1>3 DEF PrintCertificate, RegistryInv, CommittedIsThere, Registered
  <2>2. Register!Certify(d, seen[d] + 1)
    BY <1>3, <2>1 DEF PrintCertificate, Register!Certify
  <2>3. QED
    BY <2>1, <2>2 DEF Register!Next
<1>4. CASE Begin(d) \/ ReadLast(d) \/ Insert(d) \/ InsertRefused(d) \/ Killed(d)
  BY <1>4 DEF Begin, ReadLast, Insert, InsertRefused, Killed, Register!vars
<1>5. QED
  BY <1>1, <1>2, <1>3, <1>4

\* The commands that write to one file, however they interleave and wherever they are
\* killed, implement an append-only ledger (DeviceRegistry.append(), cmd_provision).
THEOREM RegisterImplementsLedger == Spec => RegisterIsLedger
<1>1. Init => Register!Init
  BY DEF Init, RegistryInit, Register!Init
<1>2. RecordsInv /\ [Next]_vars => [Register!Next]_(Register!vars)
  <2> SUFFICES ASSUME RecordsInv, [Next]_vars PROVE [Register!Next]_(Register!vars)
    OBVIOUS
  <2>1. CASE RegistryStep
    BY <2>1, LedgerStep DEF RecordsInv
  <2>2. CASE UNCHANGED registryVars
    BY <2>2 DEF registryVars, Register!vars
  <2>3. QED
    BY <2>1, <2>2 DEF Next, vars
<1>3. QED
  BY <1>1, <1>2, RecordsCorrect, PTL DEF Spec, RegisterIsLedger, Register!Spec

\* However many threads close a session, its end is in the log once at most, and only
\* of a session whose row is closed (compliance.py:479, "closed_at IS NULL").
THEOREM EndedOnce == Spec => []ClosedOnce
<1>1. ASSUME RecordsInv, NEW s \in Sessions
      PROVE  /\ log[<<"SESSION_CLOSED", s>>] <= 1
             /\ log[<<"SESSION_CLOSED", s>>] = 1 => sessions[s] = "closed"
  <2>1. /\ log[<<"SESSION_CLOSED", s>>] <= 1
        /\ sessions[s] # "closed" => log[<<"SESSION_CLOSED", s>>] = 0
    BY <1>1 DEF RecordsInv, AuditInv, LogFollowsRows
  <2>2. QED
    BY <2>1
<1>2. RecordsInv => ClosedOnce
  BY <1>1 DEF ClosedOnce
<1>3. QED
  BY <1>2, RecordsCorrect, PTL

\* The order of the two reads of export() makes every package agree with itself.
THEOREM EvidenceIsConsistent == Spec => []EvidenceAgrees
<1>1. RecordsInv => EvidenceAgrees
  BY DEF RecordsInv, AuditInv
<1>2. QED
  BY <1>1, RecordsCorrect, PTL
=============================================================================
