------------------------ MODULE CustodyCallersProofs ------------------------
(***************************************************************************)
(* Proofs about CustodyCallers, for any bundles, hashes, callers, reapers  *)
(* and any MaxAttempts.                                                    *)
(*                                                                         *)
(* That a row is handed over once is inductive together with the fact that *)
(* a bundle without row, or still PENDING, has been handed over by nobody. *)
(* That a verified hash stays valid needs that a caller past its SELECT    *)
(* has a row: grant() replaces nothing and the purge leaves rows in use.   *)
(***************************************************************************)
EXTENDS CustodyCallers, TLAPS

WinsMatchStatus ==
  \A b \in Bundles : /\ wins[b] \in {0, 1}
                     /\ custody[b] \in {"NONE", "PENDING"} => wins[b] = 0

VerifiedHasRow ==
  \A c \in Callers : pc[c] \in {"ack", "gate"} =>
    custody[bundle[c]] # "NONE" /\ payloadHash[bundle[c]] = sent[c]

IInv == TypeOK /\ WinsMatchStatus /\ VerifiedHasRow

LEMMA InitIInv == Init => IInv
  BY CallersAssumption, CustodyAssumption
  DEF Init, IInv, TypeOK, WinsMatchStatus, VerifiedHasRow, CustodyInit,
      CustodyTypeOK, Status, RetryCap

-----------------------------------------------------------------------------
(* What the operations of custody.db do to the rows.                       *)

\* grant() changes nothing of a bundle that has a row, and makes PENDING of one
\* that has none (INSERT OR IGNORE).
LEMMA GrantKeepsRows ==
  ASSUME CustodyTypeOK, NEW b \in Bundles, NEW h \in Hashes, Grant(b, h)
  PROVE  /\ CustodyTypeOK'
         /\ \A a \in Bundles : custody[a] # "NONE" =>
              custody'[a] = custody[a] /\ payloadHash'[a] = payloadHash[a]
         /\ \A a \in Bundles : custody[a] = "NONE" => custody'[a] \in {"NONE", "PENDING"}
  BY DEF Grant, CustodyTypeOK, Status

\* increment_retry() changes neither status nor hash.
LEMMA RetryKeepsStatus ==
  ASSUME CustodyTypeOK, NEW b \in Bundles, IncrementRetry(b)
  PROVE  CustodyTypeOK' /\ UNCHANGED <<custody, payloadHash>>
  BY CustodyAssumption DEF IncrementRetry, NewRetries, CustodyTypeOK, RetryCap

\* mark_failed() touches the status of one bundle that has a row.
LEMMA FailKeepsRows ==
  ASSUME CustodyTypeOK, NEW b \in Bundles, MarkFailed(b)
  PROVE  /\ CustodyTypeOK'
         /\ UNCHANGED payloadHash
         /\ \A a \in Bundles : \/ custody'[a] = custody[a]
                               \/ custody[a] # "NONE" /\ custody'[a] = "FAILED"
  BY DEF MarkFailed, CustodyTypeOK, Status

\* The UPDATE of ack() and transfer() takes a PENDING row out of PENDING, and
\* does nothing else.
LEMMA HandOverEffect ==
  ASSUME CustodyTypeOK, NEW b \in Bundles, NEW to \in {"ACKED", "TRANSFER"},
         HandOver(b, to), acked' \subseteq Bundles
  PROVE  /\ CustodyTypeOK'
         /\ UNCHANGED payloadHash
         /\ HandOverWorks(b) => custody'[b] = to
         /\ \A a \in Bundles : a # b \/ ~HandOverWorks(b) => custody'[a] = custody[a]
  BY DEF HandOver, HandOverWorks, CustodyTypeOK, Status

-----------------------------------------------------------------------------
(* One lemma per kind of step.                                             *)

\* Finish(c) leaves the caller idle, which none of the invariants speaks of.
LEMMA FinishEffect ==
  ASSUME TypeOK, NEW c \in Callers, Finish(c)
  PROVE  /\ pc' \in [Callers -> {"idle", "sending", "verify", "ack", "gate"}]
         /\ bundle' \in [Callers -> Bundles \cup {NoBundle}]
         /\ sent' \in [Callers -> Hashes \cup {NoHash}]
         /\ \A d \in Callers : pc'[d] = "idle" <=> bundle'[d] = NoBundle
         /\ \A d \in Callers : pc'[d] # "idle" =>
              pc'[d] = pc[d] /\ bundle'[d] = bundle[d] /\ sent'[d] = sent[d]
  BY DEF TypeOK, Finish, Goto

\* Rows persist and keep their hash, and nobody reaches "ack" or "gate" anew:
\* then what was verified stays valid.
LEMMA VerifiedStep ==
  ASSUME TypeOK, VerifiedHasRow,
         \A d \in Callers : pc'[d] \in {"ack", "gate"} =>
           pc[d] \in {"ack", "gate"} /\ bundle'[d] = bundle[d] /\ sent'[d] = sent[d],
         \A d \in Callers : custody[bundle[d]] # "NONE" /\ bundle[d] \in Bundles =>
           custody'[bundle[d]] # "NONE" /\ payloadHash'[bundle[d]] = payloadHash[bundle[d]]
  PROVE  VerifiedHasRow'
<1> SUFFICES ASSUME NEW d \in Callers, pc'[d] \in {"ack", "gate"}
             PROVE  custody'[bundle'[d]] # "NONE" /\ payloadHash'[bundle'[d]] = sent'[d]
  BY DEF VerifiedHasRow
<1>1. pc[d] \in {"ack", "gate"} /\ bundle'[d] = bundle[d] /\ sent'[d] = sent[d]
  OBVIOUS
<1>2. /\ bundle[d] \in Bundles
      /\ custody[bundle[d]] # "NONE"
      /\ payloadHash[bundle[d]] = sent[d]
  BY <1>1 DEF VerifiedHasRow, TypeOK
<1>3. QED
  BY <1>1, <1>2

LEMMA TakeStep ==
  ASSUME IInv, NEW c \in Callers, NEW b \in Bundles, NEW h \in Hashes, Take(c, b, h)
  PROVE  IInv'
<1> USE DEF IInv
<1>1. CustodyTypeOK
  BY DEF TypeOK
<1>2. Grant(b, h)
  BY DEF Take
<1>3. /\ CustodyTypeOK'
      /\ \A a \in Bundles : custody[a] # "NONE" =>
           custody'[a] = custody[a] /\ payloadHash'[a] = payloadHash[a]
      /\ \A a \in Bundles : custody[a] = "NONE" => custody'[a] \in {"NONE", "PENDING"}
  BY <1>1, <1>2, GrantKeepsRows
<1>4. TypeOK'
  BY <1>3, CallersAssumption DEF TypeOK, Take, Goto, reaperVars
<1>5. WinsMatchStatus'
  BY <1>3 DEF WinsMatchStatus, Take, TypeOK, reaperVars
<1>6. VerifiedHasRow'
  <2>1. \A d \in Callers : pc'[d] \in {"ack", "gate"} =>
          pc[d] \in {"ack", "gate"} /\ bundle'[d] = bundle[d] /\ sent'[d] = sent[d]
    BY DEF Take, Goto, TypeOK
  <2>2. QED
    BY <1>3, <2>1, VerifiedStep
<1>7. QED
  BY <1>4, <1>5, <1>6

\* A caller that gives its bundle up, without touching custody.db's statuses.
LEMMA LeaveStep ==
  ASSUME IInv, NEW c \in Callers, Finish(c), CustodyTypeOK',
         UNCHANGED <<custody, payloadHash, reaperVars, wins, faults>>
  PROVE  IInv'
<1> USE DEF IInv
<1>1. TypeOK'
  BY FinishEffect DEF TypeOK, reaperVars
<1>2. WinsMatchStatus'
  BY DEF WinsMatchStatus
<1>3. VerifiedHasRow'
  BY FinishEffect DEF VerifiedHasRow
<1>4. QED
  BY <1>1, <1>2, <1>3

\* A caller that goes on to another label with custody.db unchanged; reaching
\* "ack" takes a hash that matches.
LEMMA AdvanceStep ==
  ASSUME IInv, NEW c \in Callers, NEW label \in {"verify", "ack"}, Goto(c, label),
         pc[c] # "idle",
         label = "ack" => HashMatches(bundle[c], sent[c]),
         UNCHANGED <<custodyVars, bundle, sent, reaperVars, wins, faults>>
  PROVE  IInv'
<1> USE DEF IInv
<1>1. TypeOK'
  BY DEF TypeOK, Goto, reaperVars, custodyVars, CustodyTypeOK
<1>2. WinsMatchStatus'
  BY DEF WinsMatchStatus, custodyVars
<1>3. VerifiedHasRow'
  BY DEF VerifiedHasRow, Goto, HashMatches, custodyVars, TypeOK
<1>4. QED
  BY <1>1, <1>2, <1>3

\* A hand-over that works is the first one of its row.
LEMMA WinsStep ==
  ASSUME TypeOK, WinsMatchStatus, NEW b \in Bundles, NEW to \in {"ACKED", "TRANSFER"},
         HandOver(b, to), acked' \subseteq Bundles, Won(b)
  PROVE  WinsMatchStatus' /\ wins' \in [Bundles -> Nat]
<1>1. /\ HandOverWorks(b) => custody'[b] = to
      /\ \A a \in Bundles : a # b \/ ~HandOverWorks(b) => custody'[a] = custody[a]
  BY HandOverEffect DEF TypeOK
<1>2. wins' \in [Bundles -> Nat]
  BY DEF Won, TypeOK
<1>3. CASE HandOverWorks(b)
  <2>1. wins[b] = 0
    BY <1>3 DEF HandOverWorks, WinsMatchStatus
  <2>2. wins' = [wins EXCEPT ![b] = wins[b] + 1]
    BY <1>3 DEF Won
  <2>3. wins'[b] = 1 /\ \A a \in Bundles : a # b => wins'[a] = wins[a]
    BY <2>1, <2>2 DEF TypeOK
  <2>4. QED
    BY <1>1, <1>2, <1>3, <2>3 DEF WinsMatchStatus
<1>4. CASE ~HandOverWorks(b)
  BY <1>1, <1>2, <1>4 DEF WinsMatchStatus, Won
<1>5. QED
  BY <1>2, <1>3, <1>4

\* The steps that hand a bundle over.
LEMMA AckStep ==
  ASSUME IInv, NEW c \in Callers, Ack(c)
  PROVE  IInv'
<1> USE DEF IInv
<1> DEFINE b == bundle[c]
<1>1. b \in Bundles /\ pc[c] = "ack"
  BY DEF Ack, TypeOK
<1>2. CustodyTypeOK /\ HandOver(b, "ACKED") /\ acked' \subseteq Bundles
  BY <1>1 DEF Ack, AckUpdate, TypeOK, CustodyTypeOK
<1>3. /\ CustodyTypeOK'
      /\ UNCHANGED payloadHash
      /\ HandOverWorks(b) => custody'[b] = "ACKED"
      /\ \A a \in Bundles : a # b \/ ~HandOverWorks(b) => custody'[a] = custody[a]
  BY <1>1, <1>2, HandOverEffect
<1>4. WinsMatchStatus' /\ wins' \in [Bundles -> Nat]
  BY <1>1, <1>2, WinsStep DEF Ack
<1>5. TypeOK'
  <2>1. CASE HandOverWorks(b)
    BY <1>1, <1>3, <1>4, <2>1 DEF TypeOK, Ack, Goto, reaperVars
  <2>2. CASE ~HandOverWorks(b)
    BY <1>3, <1>4, <2>2, FinishEffect DEF TypeOK, Ack, reaperVars
  <2>3. QED
    BY <2>1, <2>2
<1>6. VerifiedHasRow'
  <2>1. \A d \in Callers : pc'[d] \in {"ack", "gate"} =>
          pc[d] \in {"ack", "gate"} /\ bundle'[d] = bundle[d] /\ sent'[d] = sent[d]
    <3>1. CASE HandOverWorks(b)
      BY <1>1, <3>1 DEF Ack, Goto, TypeOK
    <3>2. CASE ~HandOverWorks(b)
      BY <3>2, FinishEffect DEF Ack
    <3>3. QED
      BY <3>1, <3>2
  <2>2. QED
    BY <1>1, <1>3, <2>1, VerifiedStep
<1>7. QED
  BY <1>4, <1>5, <1>6

LEMMA PassOnStep ==
  ASSUME IInv, NEW c \in Callers, PassOn(c)
  PROVE  IInv'
<1> USE DEF IInv
<1> DEFINE b == bundle[c]
<1>1. b \in Bundles
  BY DEF PassOn, TypeOK
<1>2. CustodyTypeOK /\ HandOver(b, "TRANSFER") /\ acked' \subseteq Bundles
  BY DEF PassOn, Transfer, TypeOK, CustodyTypeOK
<1>3. /\ CustodyTypeOK'
      /\ UNCHANGED payloadHash
      /\ HandOverWorks(b) => custody'[b] = "TRANSFER"
      /\ \A a \in Bundles : a # b \/ ~HandOverWorks(b) => custody'[a] = custody[a]
  BY <1>1, <1>2, HandOverEffect
<1>4. WinsMatchStatus' /\ wins' \in [Bundles -> Nat]
  BY <1>1, <1>2, WinsStep DEF PassOn
<1>5. TypeOK'
  BY <1>3, <1>4, FinishEffect DEF TypeOK, PassOn, reaperVars
<1>6. VerifiedHasRow'
  <2>1. \A d \in Callers : pc'[d] \in {"ack", "gate"} =>
          pc[d] \in {"ack", "gate"} /\ bundle'[d] = bundle[d] /\ sent'[d] = sent[d]
    BY FinishEffect DEF PassOn
  <2>2. QED
    BY <1>1, <1>3, <2>1, VerifiedStep
<1>7. QED
  BY <1>4, <1>5, <1>6

\* The reaper changes no hash, and takes a row only to FAILED.
LEMMA ReaperStepKeeps ==
  ASSUME IInv, NEW r \in Reapers, ReaperStep(r)
  PROVE  IInv'
<1> USE DEF IInv
<1>1. CASE Scan(r)
  <2>1. TypeOK'
    BY <1>1 DEF Scan, TypeOK, CustodyTypeOK, custodyVars, callerVars, TimedOut
  <2>2. WinsMatchStatus'
    BY <1>1 DEF Scan, WinsMatchStatus, custodyVars
  <2>3. VerifiedHasRow'
    BY <1>1 DEF Scan, VerifiedHasRow, custodyVars, callerVars
  <2>4. QED
    BY <2>1, <2>2, <2>3
<1>2. ASSUME NEW b \in Bundles, Retry(r, b)
      PROVE  IInv'
  <2>1. CustodyTypeOK' /\ UNCHANGED <<custody, payloadHash>>
    BY <1>2, RetryKeepsStatus DEF Retry, TypeOK
  <2>2. TypeOK'
    BY <1>2, <2>1 DEF Retry, TypeOK, callerVars
  <2>3. WinsMatchStatus'
    BY <1>2, <2>1 DEF Retry, WinsMatchStatus
  <2>4. VerifiedHasRow'
    BY <1>2, <2>1 DEF Retry, VerifiedHasRow, callerVars
  <2>5. QED
    BY <2>2, <2>3, <2>4
<1>3. CASE Fail(r)
  <2>1. doomed[r] \in Bundles
    BY <1>3 DEF Fail, TypeOK
  <2>2. /\ CustodyTypeOK'
        /\ UNCHANGED payloadHash
        /\ \A a \in Bundles : \/ custody'[a] = custody[a]
                              \/ custody[a] # "NONE" /\ custody'[a] = "FAILED"
    BY <1>3, <2>1, FailKeepsRows DEF Fail, TypeOK
  <2>3. TypeOK'
    BY <1>3, <2>2 DEF Fail, TypeOK, callerVars
  <2>4. WinsMatchStatus'
    BY <1>3, <2>2 DEF Fail, WinsMatchStatus
  <2>5. VerifiedHasRow'
    BY <1>3, <2>2, VerifiedStep DEF Fail, callerVars
  <2>6. QED
    BY <2>3, <2>4, <2>5
<1>4. QED
  BY <1>1, <1>2, <1>3 DEF ReaperStep

\* A fault only empties hands.
LEMMA DieStep ==
  ASSUME IInv, NEW C \in SUBSET Callers, NEW R \in SUBSET Reapers, Die(C, R)
  PROVE  IInv'
<1> USE DEF IInv
<1>1. TypeOK'
  <2>1. CustodyTypeOK' /\ wins' \in [Bundles -> Nat] /\ faults' \in 0 .. MaxFaults
    BY CallersAssumption DEF Die, TypeOK, CustodyTypeOK, custodyVars
  <2>2. /\ pc' \in [Callers -> {"idle", "sending", "verify", "ack", "gate"}]
        /\ bundle' \in [Callers -> Bundles \cup {NoBundle}]
        /\ sent' \in [Callers -> Hashes \cup {NoHash}]
        /\ \A c \in Callers : pc'[c] = "idle" <=> bundle'[c] = NoBundle
    BY DEF Die, TypeOK
  <2>3. due' \in [Reapers -> SUBSET Bundles] /\ doomed' \in [Reapers -> Bundles \cup {NoBundle}]
    BY DEF Die, TypeOK
  <2>4. QED
    BY <2>1, <2>2, <2>3 DEF TypeOK
<1>2. WinsMatchStatus'
  BY DEF Die, WinsMatchStatus, custodyVars
<1>3. VerifiedHasRow'
  BY DEF Die, VerifiedHasRow, custodyVars
<1>4. QED
  BY <1>1, <1>2, <1>3

LEMMA PurgeStep ==
  ASSUME IInv, NEW old \in SUBSET Bundles, Purge(old)
  PROVE  IInv'
<1> USE DEF IInv
<1> DEFINE gone == {b \in old : custody[b] = "ACKED"}
<1>1. gone = old
  BY DEF Purge
<1>2. TypeOK'
  <2>1. CustodyTypeOK'
    BY <1>1, CustodyAssumption DEF Purge, PurgeAcked, TypeOK, CustodyTypeOK, Status,
                                   RetryCap
  <2>2. wins' \in [Bundles -> Nat]
    BY DEF Purge, TypeOK
  <2>3. QED
    BY <2>1, <2>2 DEF Purge, TypeOK, callerVars, reaperVars
<1>3. WinsMatchStatus'
  BY <1>1 DEF Purge, PurgeAcked, WinsMatchStatus, TypeOK
<1>4. \A d \in Callers : bundle[d] \in Bundles =>
        custody'[bundle[d]] = custody[bundle[d]]
        /\ payloadHash'[bundle[d]] = payloadHash[bundle[d]]
  BY <1>1 DEF Purge, PurgeAcked, InUse
<1>5. VerifiedHasRow'
  BY <1>4, VerifiedStep DEF Purge, callerVars
<1>6. QED
  BY <1>2, <1>3, <1>5

LEMMA NextIInv == IInv /\ [Next]_vars => IInv'
<1> SUFFICES ASSUME IInv, [Next]_vars
             PROVE  IInv'
  OBVIOUS
<1>1. ASSUME NEW c \in Callers, CallerStep(c)
      PROVE  IInv'
  <2>1. ASSUME NEW b \in Bundles, NEW h \in Hashes, Take(c, b, h)
        PROVE  IInv'
    BY <2>1, TakeStep
  <2>2. CASE SendFails(c)
    <3>1. bundle[c] \in Bundles /\ CustodyTypeOK
      BY <2>2 DEF SendFails, IInv, TypeOK
    <3>2. CustodyTypeOK' /\ UNCHANGED <<custody, payloadHash>>
      BY <2>2, <3>1, RetryKeepsStatus DEF SendFails
    <3>3. QED
      BY <2>2, <3>2, LeaveStep DEF SendFails
  <2>3. CASE SendSucceeds(c)
    BY <2>3, AdvanceStep DEF SendSucceeds
  <2>4. CASE VerifyHash(c)
    <3>1. CASE HashMatches(bundle[c], sent[c])
      BY <2>4, <3>1, AdvanceStep DEF VerifyHash
    <3>2. CASE ~HashMatches(bundle[c], sent[c])
      BY <2>4, <3>2, LeaveStep DEF VerifyHash, custodyVars, CustodyTypeOK, IInv, TypeOK
    <3>3. QED
      BY <3>1, <3>2
  <2>5. CASE Ack(c)
    BY <2>5, AckStep
  <2>6. CASE PassOn(c)
    BY <2>6, PassOnStep
  <2>7. CASE Gate(c)
    BY <2>7, LeaveStep DEF Gate, custodyVars, CustodyTypeOK, IInv, TypeOK
  <2>8. QED
    BY <1>1, <2>1, <2>2, <2>3, <2>4, <2>5, <2>6, <2>7 DEF CallerStep
<1>2. ASSUME NEW r \in Reapers, ReaperStep(r)
      PROVE  IInv'
  BY <1>2, ReaperStepKeeps
<1>3. ASSUME NEW b \in Bundles, Overdue(b)
      PROVE  IInv'
  BY <1>3 DEF Overdue, Expire, IInv, TypeOK, CustodyTypeOK, WinsMatchStatus,
              VerifiedHasRow, callerVars, reaperVars
<1>4. ASSUME NEW old \in SUBSET Bundles, Purge(old)
      PROVE  IInv'
  BY <1>4, PurgeStep
<1>5. ASSUME NEW C \in SUBSET Callers, NEW R \in SUBSET Reapers, Die(C, R)
      PROVE  IInv'
  BY <1>5, DieStep
<1>6. CASE UNCHANGED vars
  BY <1>6 DEF vars, custodyVars, callerVars, reaperVars, IInv, TypeOK, CustodyTypeOK,
              WinsMatchStatus, VerifiedHasRow
<1>7. QED
  BY <1>1, <1>2, <1>3, <1>4, <1>5, <1>6 DEF Next

-----------------------------------------------------------------------------
LEMMA IInvHolds == Spec => []IInv
  BY InitIInv, NextIInv, PTL DEF Spec

\* Every reachable state is well typed: the statuses, labels and counters take
\* the values listed, and a caller holds a bundle exactly while it is busy.
THEOREM TypeCorrect == Spec => []TypeOK
  BY IInvHolds, PTL DEF IInv

\* A custody row is handed over at most once, by ack() or by transfer(), for any
\* number of callers and reapers on the same custody.db.
THEOREM HandedOverOnce == Spec => []ExclusiveHandOver
<1>1. IInv => ExclusiveHandOver
  <2> SUFFICES ASSUME IInv, NEW b \in Bundles
               PROVE  wins[b] <= 1
    BY DEF ExclusiveHandOver
  <2>1. wins[b] = 0 \/ wins[b] = 1
    BY DEF IInv, WinsMatchStatus
  <2>2. QED
    BY <2>1
<1>2. QED
  BY <1>1, IInvHolds, PTL

\* The two transactions of ack(verify_hash) act like one: the hash compared in
\* the SELECT is the hash of the row that the UPDATE confirms.
THEOREM AckConfirmsWhatWasVerified == Spec => []VerifiedHashStable
<1>1. IInv => VerifiedHashStable
  BY DEF IInv, VerifiedHasRow, VerifiedHashStable
<1>2. QED
  BY <1>1, IInvHolds, PTL
=============================================================================
