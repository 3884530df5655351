------------------------- MODULE FragmentStoreProofs ------------------------
(***************************************************************************)
(* Proofs about the receiver of fragments, for any bundles, ids, threads,  *)
(* timeouts and sizes: its types, that what it reassembles is whole and    *)
(* mixed at most with bundles of the same id and length, when the count of *)
(* is_complete() may be trusted, and how much the guardian deletes.        *)
(***************************************************************************)
EXTENDS FragmentStore, FiniteSetTheorems, TLAPS

USE GuardianAssumption, FragmentAssumption

-----------------------------------------------------------------------------
(* The estimate of the guardian.                                           *)

\* Integer division, as far as it is needed.
LEMMA Quotient ==
  ASSUME NEW a \in Nat, NEW b \in Nat \ {0}
  PROVE  /\ a \div b \in Nat
         /\ b * (a \div b) <= a
         /\ a < b * (a \div b) + b
  OBVIOUS

LEMMA SizesType == /\ TargetSize \in Nat
                   /\ \A p \in Nat : FileSize(p) \in Nat
  BY Quotient DEF FileSize, TargetSize

LEMMA RowsToDeleteType ==
  ASSUME NEW sz \in Nat, NEW n \in Nat, ~NothingToPurge(sz, n)
  PROVE  RowsToDelete(sz, n) \in 1 .. n
<1>1. TargetSize \in Nat /\ n > 0 /\ sz > TargetSize
  BY SizesType DEF NothingToPurge
<1> DEFINE over == (sz - TargetSize) * n
<1>2. over \in Nat
  BY <1>1
<1>3. over \div sz \in Nat
  BY <1>1, <1>2, Quotient
<1>4. QED
  BY <1>1, <1>3 DEF RowsToDelete

\* "hasta estimar que el tamaño vuelve a estar por debajo de
\* warn_threshold_percent" (storage_guardian.py:374): for whatever size was
\* measured and rows counted, the rows that stay take no more than the target at the
\* mean size sz / n the guardian reckons with, and one row less would not have been
\* enough.
THEOREM EstimateIsTight ==
  ASSUME NEW sz \in Nat, NEW n \in Nat, ~NothingToPurge(sz, n)
  PROVE  /\ (n - RowsToDelete(sz, n)) * sz <= n * TargetSize
         /\ RowsToDelete(sz, n) > 1 =>
              (n - RowsToDelete(sz, n) + 1) * sz >= n * TargetSize
<1> DEFINE over == (sz - TargetSize) * n
           q == over \div sz
<1>1. sz \in Nat \ {0} /\ n \in Nat \ {0} /\ TargetSize \in Nat /\ sz > TargetSize
  BY SizesType DEF NothingToPurge
<1>2. over \in Nat /\ over = sz * n - TargetSize * n
  BY <1>1
<1>3. q \in Nat /\ sz * q <= over /\ over < sz * q + sz
  BY <1>1, <1>2, Quotient
<1>4. RowsToDelete(sz, n) = IF q + 1 <= n THEN q + 1 ELSE n
  BY DEF RowsToDelete
<1> HIDE DEF over, q
<1>5. CASE q + 1 <= n
  <2>1. RowsToDelete(sz, n) = q + 1
    BY <1>4, <1>5
  <2>2. (n - (q + 1)) * sz = n * sz - (sz * q + sz)
    BY <1>1, <1>3
  <2>3. (n - (q + 1) + 1) * sz = n * sz - sz * q
    BY <1>1, <1>3
  <2>4. /\ (n - (q + 1)) * sz <= n * TargetSize
        /\ (n - (q + 1) + 1) * sz >= n * TargetSize
    BY <1>1, <1>2, <1>3, <2>2, <2>3
  <2>5. QED
    BY <2>1, <2>4
<1>6. CASE ~(q + 1 <= n)
  <2>1. RowsToDelete(sz, n) = n
    BY <1>4, <1>6
  <2>2. (n - n) * sz = 0 /\ (n - n + 1) * sz = sz
    BY <1>1
  <2>3. n * TargetSize \in Nat
    BY <1>1
  <2>4. sz * n <= sz * q
    BY <1>1, <1>3, <1>6
  <2>5. TargetSize * n = 0
    BY <1>1, <1>2, <1>3, <2>4
  <2>6. n * TargetSize = 0
    BY <1>1, <2>5
  <2>7. QED
    BY <1>1, <2>1, <2>2, <2>6
<1>7. QED
  BY <1>3, <1>5, <1>6

\* A product that is not greater, divided by its common factor.
LEMMA CancelFactor ==
  ASSUME NEW n \in Nat \ {0}, NEW x \in Nat, NEW y \in Nat, n * x <= n * y
  PROVE  x <= y
<1> SUFFICES ASSUME x >= y + 1 PROVE FALSE
  OBVIOUS
<1>1. x = (y + 1) + (x - (y + 1)) /\ x - (y + 1) \in Nat
  OBVIOUS
<1>2. n * x = n * (y + 1) + n * (x - (y + 1))
  BY <1>1
<1>3. n * (x - (y + 1)) \in Nat
  BY <1>1
<1>4. n * (y + 1) = n * y + n
  OBVIOUS
<1>5. n * y \in Nat /\ n * x \in Nat
  OBVIOUS
<1>6. QED
  BY <1>2, <1>3, <1>4, <1>5

\* How near the target a purge comes: if the files were no smaller than their rows
\* when they were measured, the main file that a VACUUM leaves of the n rows that
\* were counted exceeds the target by no more than an empty database.  Room that is
\* free and the WAL can only make the guardian delete more rows.
THEOREM RoomIsBounded ==
  ASSUME NEW sz \in Nat, NEW n \in Nat, ~NothingToPurge(sz, n), sz >= FileSize(n)
  PROVE  FileSize(n - RowsToDelete(sz, n)) <= TargetSize + BaseSize
<1> DEFINE d == RowsToDelete(sz, n)
           k == n - d
<1>1. d \in 1 .. n /\ TargetSize \in Nat /\ n \in Nat \ {0}
  BY RowsToDeleteType, SizesType DEF NothingToPurge
<1>2. k \in Nat
  BY <1>1
<1>3. k * sz <= n * TargetSize
  BY EstimateIsTight
<1> HIDE DEF k, d
<1>4. k * (n * RowSize) <= k * sz
  <2>1. n * RowSize \in Nat /\ FileSize(n) = BaseSize + n * RowSize
    BY <1>1 DEF FileSize
  <2>2. sz = n * RowSize + (sz - n * RowSize) /\ sz - n * RowSize \in Nat
    BY <2>1
  <2>3. k * sz = k * (n * RowSize) + k * (sz - n * RowSize)
    BY <1>2, <2>1, <2>2
  <2>4. k * (sz - n * RowSize) \in Nat /\ k * (n * RowSize) \in Nat
    BY <1>2, <2>1, <2>2
  <2>5. QED
    BY <2>3, <2>4
<1>5. k * (n * RowSize) = n * (k * RowSize)
  BY <1>1, <1>2
<1>6. k * RowSize \in Nat /\ n * (k * RowSize) \in Nat /\ n * TargetSize \in Nat
      /\ k * sz \in Nat
  BY <1>1, <1>2
<1>7. n * (k * RowSize) <= n * TargetSize
  BY <1>3, <1>4, <1>5, <1>6
<1>8. k * RowSize <= TargetSize
  BY <1>1, <1>6, <1>7, CancelFactor
<1>9. FileSize(k) <= TargetSize + BaseSize
  BY <1>1, <1>6, <1>8 DEF FileSize
<1>10. QED
  BY <1>9 DEF k, d

-----------------------------------------------------------------------------
(* Types.                                                                  *)

\* A frame that is no ghost is a piece of its payload.
LEMMA RealFrame ==
  ASSUME NEW f \in Air, ~f.ghost
  PROVE  /\ f.payload \in sent
         /\ f.id = BundleId[f.payload]
         /\ f.total = TotalFrags[f.payload]
         /\ f.index \in 0 .. TotalFrags[f.payload] - 1
<1>1. PICK b \in sent : f \in RealFrames(b) \cup {Ghost(b)}
  BY DEF Air
<1>2. f \in RealFrames(b)
  BY <1>1 DEF Ghost
<1>3. QED
  BY <1>1, <1>2 DEF RealFrames

LEMMA InitType == Init => TypeOK
  BY FS_EmptySet DEF Init, TypeOK

\* What a DELETE leaves of the table is a table of the same kind.
LEMMA DeleteType ==
  ASSUME TypeOK, NEW R, DeleteRows(R), clock' = clock
  PROVE  /\ faults' \in 0 .. MaxFaults
         /\ rows' \subseteq rows
         /\ rows' \subseteq [id : Ids, index : Nat, total : Nat, payload : Bundles,
                             at : 0 .. clock']
         /\ IsFiniteSet(rows')
<1>1. rows' \subseteq rows
  BY DEF DeleteRows
<1>2. QED
  BY <1>1, FS_Subset DEF DeleteRows, TypeOK

LEMMA ReceiveType ==
  ASSUME TypeOK, NEW f \in Air, Receive(f)
  PROVE  TypeOK'
<1> USE DEF TypeOK
<1>1. /\ UNCHANGED <<sent, cutoff, pc, bundle, delivered, due, guardian, size, excess,
                     faults>>
      /\ clock < MaxStored
  BY DEF Receive, assemblerVars, guardianVars
<1>2. CASE UNCHANGED storeVars
  BY <1>1, <1>2 DEF storeVars
<1>3. CASE ~f.ghost /\ Insert(RowOf(f))
  <2>1. rows' = rows \cup {RowOf(f)} /\ clock' = clock + 1
    BY <1>3 DEF Insert
  <2>2. RowOf(f) \in [id : Ids, index : Nat, total : Nat, payload : Bundles,
                      at : 0 .. clock']
    <3>1. f.payload \in Bundles /\ f.id \in Ids /\ f.total \in Nat /\ f.index \in Nat
      BY <1>3, RealFrame DEF Ids
    <3>2. QED
      BY <2>1, <3>1 DEF RowOf
  <2>3. rows \subseteq [id : Ids, index : Nat, total : Nat, payload : Bundles,
                        at : 0 .. clock']
    BY <2>1
  <2>4. IsFiniteSet(rows')
    BY <2>1, FS_AddElement
  <2>5. clock' \in 0 .. MaxStored
    BY <1>1, <2>1
  <2>6. pages' \in Nat
    BY <1>3 DEF Insert
  <2>7. QED
    BY <1>1, <2>1, <2>2, <2>3, <2>4, <2>5, <2>6
<1>4. QED
  BY <1>2, <1>3 DEF Receive, Store

LEMMA GuardianType ==
  ASSUME TypeOK, GuardianStep
  PROVE  TypeOK'
<1> USE DEF TypeOK, storeVars, assemblerVars
<1>1. Cardinality(rows) \in Nat
  BY FS_CardinalityType
<1>2. CASE GuardianCheck
  BY <1>2 DEF GuardianCheck
<1>3. CASE GuardianMeasure
  <2>1. size' \in Nat
    <3>1. PICK w \in 0 .. WalRows : size' = FileSize(pages + w)
      BY <1>3 DEF GuardianMeasure, Measured
    <3>2. pages + w \in Nat
      OBVIOUS
    <3>3. QED
      BY <3>1, <3>2, SizesType
  <2>2. QED
    BY <1>3, <2>1 DEF GuardianMeasure
<1>4. CASE GuardianCount
  <2>1. excess' \in Nat
    BY <1>1, <1>4, RowsToDeleteType DEF GuardianCount
  <2>2. guardian' \in {"idle", "delete"} /\ size' = 0
    BY <1>4 DEF GuardianCount
  <2>3. QED
    BY <1>4, <2>1, <2>2 DEF GuardianCount
<1>5. CASE GuardianDelete
  <2>1. DeleteRows({r \in rows : Oldest(r)}) /\ clock' = clock
    BY <1>5 DEF GuardianDelete
  <2>2. guardian' \in {"vacuum", "idle"} /\ excess' = 0
    BY <1>5 DEF GuardianDelete
  <2>3. QED
    BY <1>5, <2>1, <2>2, DeleteType DEF GuardianDelete
<1>6. CASE GuardianVacuum
  <2>1. pages' \in Nat /\ faults' \in 0 .. MaxFaults
    BY <1>1, <1>6 DEF GuardianVacuum
  <2>2. QED
    BY <1>6, <2>1 DEF GuardianVacuum
<1>7. QED
  BY <1>2, <1>3, <1>4, <1>5, <1>6 DEF GuardianStep

LEMMA StepType ==
  ASSUME TypeOK, [Next]_vars
  PROVE  TypeOK'
<1> USE DEF TypeOK, storeVars, assemblerVars, guardianVars
<1>1. ASSUME NEW b \in Bundles, Send(b)
      PROVE  TypeOK'
  BY <1>1 DEF Send
<1>2. ASSUME NEW f \in Air, Receive(f)
      PROVE  TypeOK'
  BY <1>2, ReceiveType
<1>3. ASSUME NEW a \in Assemblers, AssemblerStep(a)
      PROVE  TypeOK'
  <2>1. CASE FindComplete(a)
    BY <2>1 DEF FindComplete
  <2>2. CASE Reassemble(a)
    <3>1. {Piece(r) : r \in RowsOf(bundle[a])} \subseteq Nat \X Bundles
      BY DEF Piece, RowsOf
    <3>2. QED
      BY <2>2, <3>1 DEF Reassemble
  <2>3. CASE Purge(a)
    <3>1. DeleteRows(RowsOf(bundle[a])) /\ clock' = clock
      BY <2>3 DEF Purge
    <3>2. QED
      BY <2>3, <3>1, DeleteType DEF Purge
  <2>4. QED
    BY <1>3, <2>1, <2>2, <2>3 DEF AssemblerStep
<1>4. CASE TimePasses
  BY <1>4 DEF TimePasses
<1>5. CASE FindTimedOut
  BY <1>5 DEF FindTimedOut, TimedOutIds
<1>6. CASE DeleteTimedOut
  <2>1. DeleteRows({r \in rows : r.id \in due}) /\ clock' = clock
    BY <1>6 DEF DeleteTimedOut
  <2>2. QED
    BY <1>6, <2>1, DeleteType DEF DeleteTimedOut
<1>7. CASE GuardianStep
  BY <1>7, GuardianType
<1>8. CASE Crash
  BY <1>8 DEF Crash
<1>9. CASE UNCHANGED vars
  BY <1>9 DEF vars
<1>10. QED
  BY <1>1, <1>2, <1>3, <1>4, <1>5, <1>6, <1>7, <1>8, <1>9 DEF Next

\* The type invariant of the receiver.
THEOREM TypeCorrect == Spec => []TypeOK
  BY InitType, StepType, PTL DEF Spec

-----------------------------------------------------------------------------
(* What is stored and what is handed on.                                   *)

LEMMA InitInv == Init => StoreInv /\ DeliveredAsSent
<1>1. Init => Cardinality(rows) = 0
  BY FS_EmptySet DEF Init
<1>2. QED
  BY <1>1, InitType DEF Init, StoreInv, RowsAreSent, OneRowPerIndex, DeliveredAsSent

\* A step that neither stores a row nor takes back room.
LEMMA FewerKeepsInv ==
  ASSUME StoreInv, TypeOK', sent \subseteq sent', rows' \subseteq rows,
         pages' = pages \/ pages' = Cardinality(rows')
  PROVE  StoreInv'
<1>1. RowsAreSent' /\ OneRowPerIndex'
  BY DEF StoreInv, RowsAreSent, OneRowPerIndex
<1>2. (Cardinality(rows) <= pages)'
  <2>1. Cardinality(rows') <= Cardinality(rows)
    BY FS_Subset DEF StoreInv, TypeOK
  <2>2. /\ Cardinality(rows) \in Nat /\ Cardinality(rows') \in Nat
        /\ pages \in Nat /\ Cardinality(rows) <= pages
    BY FS_CardinalityType DEF StoreInv, TypeOK
  <2>3. QED
    BY <2>1, <2>2
<1>3. QED
  BY <1>1, <1>2 DEF StoreInv

\* The first fragment with its index and id is stored as it was sent.
LEMMA ReceiveKeepsInv ==
  ASSUME StoreInv, TypeOK', NEW f \in Air, Receive(f)
  PROVE  StoreInv'
<1> USE DEF StoreInv
<1>1. sent' = sent
  BY DEF Receive
<1>2. CASE UNCHANGED storeVars
  BY <1>1, <1>2, FewerKeepsInv DEF storeVars
<1>3. CASE /\ ~f.ghost
           /\ ~ \E r \in rows : r.id = f.id /\ r.index = f.index
           /\ Insert(RowOf(f))
  <2>1. /\ RowOf(f).id = f.id /\ RowOf(f).payload = f.payload
        /\ RowOf(f).index = f.index /\ RowOf(f).total = f.total
    BY DEF RowOf
  <2>2. rows' = rows \cup {RowOf(f)}
    BY <1>3 DEF Insert
  <2>3. RowsAreSent'
    BY <1>1, <1>3, <2>1, <2>2, RealFrame DEF RowsAreSent
  <2>4. OneRowPerIndex'
    BY <1>3, <2>1, <2>2 DEF OneRowPerIndex
  <2>5. (Cardinality(rows) <= pages)'
    <3>1. RowOf(f) \notin rows
      BY <1>3, <2>1
    <3>2. /\ IsFiniteSet(rows) /\ pages \in Nat /\ Cardinality(rows) \in Nat
          /\ Cardinality(rows) <= pages
      BY FS_CardinalityType DEF TypeOK
    <3>3. Cardinality(rows') = Cardinality(rows) + 1
      BY <2>2, <3>1, <3>2, FS_AddElement
    <3>4. pages' = IF Cardinality(rows) < pages THEN pages ELSE pages + 1
      BY <1>3 DEF Insert
    <3>5. QED
      BY <3>2, <3>3, <3>4
  <2>6. QED
    BY <2>3, <2>4, <2>5
<1>4. QED
  BY <1>2, <1>3 DEF Receive, Store

LEMMA StepInv ==
  ASSUME StoreInv, [Next]_vars
  PROVE  StoreInv'
<1> USE DEF storeVars
<1>1. TypeOK'
  BY StepType DEF StoreInv
<1>2. CASE \E f \in Air : Receive(f)
  BY <1>1, <1>2, ReceiveKeepsInv
<1>3. CASE ~(\E f \in Air : Receive(f))
  <2>1. sent \subseteq sent'
    BY <1>3 DEF Next, Send, AssemblerStep, FindComplete, Reassemble, Purge, TimePasses,
       FindTimedOut, DeleteTimedOut, GuardianStep, GuardianCheck, GuardianMeasure,
       GuardianCount, GuardianDelete, GuardianVacuum, Crash, vars
  <2>2. rows' \subseteq rows
    BY <1>3 DEF Next, Send, AssemblerStep, FindComplete, Reassemble, Purge, TimePasses,
       FindTimedOut, DeleteTimedOut, GuardianStep, GuardianCheck, GuardianMeasure,
       GuardianCount, GuardianDelete, GuardianVacuum, DeleteRows, Crash, vars
  <2>3. pages' = pages \/ pages' = Cardinality(rows')
    <3>1. CASE GuardianVacuum
      BY <3>1 DEF GuardianVacuum
    <3>2. CASE ~GuardianVacuum
      BY <1>3, <3>2 DEF Next, Send, AssemblerStep, FindComplete, Reassemble, Purge,
         TimePasses, FindTimedOut, DeleteTimedOut, GuardianStep, GuardianCheck,
         GuardianMeasure, GuardianCount, GuardianDelete, Crash, vars
    <3>3. QED
      BY <3>1, <3>2
  <2>4. QED
    BY <1>1, <2>1, <2>2, <2>3, FewerKeepsInv
<1>4. QED
  BY <1>2, <1>3

\* What the table holds is what was sent, one row for an index of an id, and the
\* file has room for it: the inductive invariant of the receiver.
THEOREM StoreCorrect == Spec => []StoreInv
<1>1. StoreInv /\ [Next]_vars => StoreInv'
  BY StepInv
<1>2. QED
  BY <1>1, InitInv, PTL DEF Spec

\* d is all of b, some pieces perhaps from a bundle of the same id and length.
WholeOf(d, b) == \E from \in [0 .. TotalFrags[b] - 1 -> Peers(b)] :
                   d = {<<i, from[i]>> : i \in 0 .. TotalFrags[b] - 1}

\* A list that reassemble() accepts is all of a bundle.
LEMMA ReassembledIsWhole ==
  ASSUME StoreInv, NEW i, Reassembles(RowsOf(i))
  PROVE  \E b \in sent : WholeOf({Piece(r) : r \in RowsOf(i)}, b)
<1> DEFINE R == RowsOf(i)
<1>1. PICK q \in R : TRUE
  BY DEF Reassembles
<1> DEFINE b == q.payload
           n == TotalFrags[b]
           from == [k \in 0 .. n - 1 |-> (CHOOSE r \in R : r.index = k).payload]
<1>2. \A r \in R : /\ r \in rows /\ r.id = i /\ r.payload \in sent
                   /\ r.id = BundleId[r.payload] /\ r.total = TotalFrags[r.payload]
                   /\ r.index \in 0 .. TotalFrags[r.payload] - 1
  BY DEF RowsOf, StoreInv, RowsAreSent
<1>3. \A r \in R : r.total = n
  BY <1>1, <1>2 DEF Reassembles
<1>4. \A r \in R : r.payload \in Peers(b) /\ r.index \in 0 .. n - 1
  BY <1>1, <1>2, <1>3 DEF Peers
<1>5. \A k \in 0 .. n - 1 : \E r \in R : r.index = k
  BY <1>1, <1>3 DEF Reassembles
<1>6. \A r, s \in R : r.index = s.index => r = s
  BY DEF Reassembles
<1>7. \A r \in R : from[r.index] = r.payload
  <2> TAKE r \in R
  <2>1. r.index \in 0 .. n - 1
    BY <1>4
  <2>2. (CHOOSE s \in R : s.index = r.index) = r
    BY <1>6
  <2>3. QED
    BY <2>1, <2>2
<1>8. from \in [0 .. n - 1 -> Peers(b)]
  <2>1. \A k \in 0 .. n - 1 : (CHOOSE r \in R : r.index = k).payload \in Peers(b)
    BY <1>4, <1>5
  <2>2. QED
    BY <2>1
<1> HIDE DEF from
<1>9. {Piece(r) : r \in R} = {<<k, from[k]>> : k \in 0 .. n - 1}
  <2>1. \A r \in R : Piece(r) = <<r.index, from[r.index]>> /\ r.index \in 0 .. n - 1
    BY <1>4, <1>7 DEF Piece
  <2>2. \A k \in 0 .. n - 1 : \E r \in R : Piece(r) = <<k, from[k]>>
    BY <1>5, <2>1
  <2> HIDE DEF R, n
  <2>3. QED
    BY <2>1, <2>2
<1>10. WholeOf({Piece(r) : r \in R}, b)
  BY <1>8, <1>9 DEF WholeOf
<1>11. QED
  BY <1>1, <1>2, <1>10

\* What has been sent stays sent, and a bundle has more peers, never fewer.
LEMMA WholeStaysWhole ==
  ASSUME sent \subseteq sent', NEW d, NEW b \in sent, WholeOf(d, b)
  PROVE  WholeOf(d, b)'
<1>1. PICK from \in [0 .. TotalFrags[b] - 1 -> Peers(b)] :
             d = {<<i, from[i]>> : i \in 0 .. TotalFrags[b] - 1}
  BY DEF WholeOf
<1>2. Peers(b) \subseteq Peers(b)'
  BY DEF Peers
<1>3. from \in [0 .. TotalFrags[b] - 1 -> Peers(b)']
  BY <1>1, <1>2
<1>4. QED
  BY <1>1, <1>3 DEF WholeOf

\* reassemble() returns only bundles that were sent, whole and in order, and mixes
\* them only with bundles of their id and length, for any choice of ids and any
\* interleaving of the threads.
THEOREM ReassemblyIsFaithful == Spec => []DeliveredAsSent
<1>1. ASSUME StoreInv, DeliveredAsSent, [Next]_vars
      PROVE  DeliveredAsSent'
  <2>1. sent \subseteq sent'
    BY <1>1 DEF Next, Send, Receive, AssemblerStep, FindComplete, Reassemble, Purge,
       TimePasses, FindTimedOut, DeleteTimedOut, GuardianStep, GuardianCheck,
       GuardianMeasure, GuardianCount, GuardianDelete, GuardianVacuum, Crash, vars
  <2>2. \A d \in delivered : \E b \in sent : WholeOf(d, b)
    BY <1>1 DEF DeliveredAsSent, WholeOf
  <2>3. \A d \in delivered' : \E b \in sent : WholeOf(d, b)
    <3>1. CASE \E a \in Assemblers : Reassemble(a)
      <4>1. PICK a \in Assemblers : Reassemble(a)
        BY <3>1
      <4>2. CASE Reassembles(RowsOf(bundle[a]))
        <5>1. delivered' = delivered \cup {{Piece(r) : r \in RowsOf(bundle[a])}}
          BY <4>1, <4>2 DEF Reassemble
        <5>2. \E b \in sent : WholeOf({Piece(r) : r \in RowsOf(bundle[a])}, b)
          BY <1>1, <4>2, ReassembledIsWhole
        <5>3. QED
          BY <2>2, <5>1, <5>2
      <4>3. CASE ~Reassembles(RowsOf(bundle[a]))
        BY <2>2, <4>1, <4>3 DEF Reassemble
      <4>4. QED
        BY <4>2, <4>3
    <3>2. CASE ~(\E a \in Assemblers : Reassemble(a))
      <4>1. delivered' = delivered
        BY <1>1, <3>2 DEF Next, Send, Receive, AssemblerStep, FindComplete, Purge,
           TimePasses, FindTimedOut, DeleteTimedOut, GuardianStep, GuardianCheck,
           GuardianMeasure, GuardianCount, GuardianDelete, GuardianVacuum, Crash, vars,
           assemblerVars
      <4>2. QED
        BY <2>2, <4>1
    <3>3. QED
      BY <3>1, <3>2
  <2>4. \A d \in delivered' : \E b \in sent' : WholeOf(d, b)'
    BY <2>1, <2>3, WholeStaysWhole
  <2>5. QED
    BY <2>4 DEF DeliveredAsSent, WholeOf
<1>2. QED
  BY <1>1, InitInv, StoreCorrect, PTL DEF Spec

-----------------------------------------------------------------------------
(* Counting fragments.                                                     *)

LEMMA IndexRange ==
  ASSUME NEW n \in Nat \ {0}
  PROVE  IsFiniteSet(0 .. n - 1) /\ Cardinality(0 .. n - 1) = n
<1>1. 0 \in Int /\ n - 1 \in Int /\ ~ (0 > n - 1) /\ (n - 1) - 0 + 1 = n
  OBVIOUS
<1>2. QED
  BY <1>1, FS_Interval

\* As many rows of one bundle as it has fragments have every index: if one were
\* missing, two rows would share one of the others.
LEMMA EnoughIsAll ==
  ASSUME NEW R, IsFiniteSet(R), NEW n \in Nat \ {0}, n <= Cardinality(R),
         \A r \in R : r.index \in 0 .. n - 1,
         \A r, s \in R : r.index = s.index => r = s
  PROVE  0 .. n - 1 \subseteq {r.index : r \in R}
<1> SUFFICES ASSUME NEW k \in 0 .. n - 1, \A r \in R : r.index # k
             PROVE  FALSE
  OBVIOUS
<1> DEFINE Others == (0 .. n - 1) \ {k}
           f == [r \in R |-> r.index]
<1>1. Cardinality(R) \in Nat
  BY FS_CardinalityType
<1>2. IsFiniteSet(0 .. n - 1) /\ Cardinality(0 .. n - 1) = n
  BY IndexRange
<1>3. IsFiniteSet(Others) /\ Cardinality(Others) = n - 1
  <2> DEFINE N == 0 .. n - 1
  <2>1. IsFiniteSet(N) /\ Cardinality(N) = n /\ k \in N
    BY <1>2
  <2> HIDE DEF N
  <2>2. IsFiniteSet(N \ {k}) /\ Cardinality(N \ {k}) = n - 1
    BY <2>1, FS_RemoveElement
  <2>3. QED
    BY <2>2 DEF N
<1>4. f \in [R -> Others]
  OBVIOUS
<1>5. Cardinality(Others) < Cardinality(R)
  BY <1>1, <1>3
<1> HIDE DEF Others
<1>6. \E r, s \in R : r # s /\ f[r] = f[s]
  <2> HIDE DEF f
  <2>1. QED
    BY <1>3, <1>4, <1>5, FS_PigeonHole
<1>7. QED
  BY <1>6

\* Rows with every index below n are at least n.
LEMMA AllIsEnough ==
  ASSUME NEW R, IsFiniteSet(R), NEW n \in Nat \ {0},
         0 .. n - 1 \subseteq {r.index : r \in R}
  PROVE  n <= Cardinality(R)
<1> DEFINE f == [i \in 0 .. n - 1 |-> CHOOSE r \in R : r.index = i]
<1>1. \A i \in 0 .. n - 1 : f[i] \in R /\ f[i].index = i
  OBVIOUS
<1>2. IsFiniteSet(0 .. n - 1) /\ Cardinality(0 .. n - 1) = n
  BY IndexRange
<1>3. Cardinality(R) \in Nat
  BY FS_CardinalityType
<1>4. f \in [0 .. n - 1 -> R]
  BY <1>1
<1> HIDE DEF f
<1>5. Cardinality(R) < n => \E i, j \in 0 .. n - 1 : i # j /\ f[i] = f[j]
  BY <1>2, <1>4, FS_PigeonHole
<1>6. ~ (Cardinality(R) < n)
  BY <1>1, <1>5
<1>7. QED
  BY <1>3, <1>6

\* Of rows with one total, the count says what reassemble() finds; and rows it
\* accepts have one total and are enough.
LEMMA CountsAgree ==
  ASSUME StoreInv, NEW i \in Ids
  PROVE  Reassembles(RowsOf(i)) <=> IsComplete(i) /\ OneTotal(i)
<1> DEFINE R == RowsOf(i)
<1>1. IsFiniteSet(R)
  BY FS_Subset DEF RowsOf, StoreInv, TypeOK
<1>2. \A r \in R : /\ r.payload \in Bundles
                   /\ r.payload # NoPayload
                   /\ r.total = TotalFrags[r.payload]
                   /\ r.index \in 0 .. r.total - 1
  BY DEF RowsOf, StoreInv, TypeOK, RowsAreSent
<1>3. \A r \in R : r.total \in Nat \ {0}
  BY <1>2
<1>4. \A r, s \in R : r.index = s.index => r = s
  BY DEF RowsOf, StoreInv, OneRowPerIndex
<1>5. ASSUME IsComplete(i), OneTotal(i)
      PROVE  Reassembles(R)
  <2>1. PICK q \in R : TRUE
    BY <1>5 DEF IsComplete
  <2> DEFINE n == q.total
  <2>2. n \in Nat \ {0} /\ n <= Cardinality(R)
    <3>1. Cardinality(R) >= n
      BY <1>5 DEF IsComplete
    <3>2. Cardinality(R) \in Nat /\ n \in Nat \ {0}
      BY <1>1, <1>3, FS_CardinalityType
    <3>3. QED
      BY <3>1, <3>2
  <2>3. \A r \in R : r.total = n
    BY <1>5 DEF OneTotal
  <2>4. \A r \in R : r.index \in 0 .. n - 1
    BY <1>2, <2>3
  <2>5. 0 .. n - 1 \subseteq {r.index : r \in R}
    <3> HIDE DEF n, R
    <3>1. QED
      BY <1>1, <1>4, <2>2, <2>4, EnoughIsAll
  <2>6. QED
    BY <1>2, <1>4, <2>1, <2>3, <2>5 DEF Reassembles
<1>6. ASSUME Reassembles(R)
      PROVE  IsComplete(i) /\ OneTotal(i)
  <2>1. R # {} /\ OneTotal(i)
    BY <1>6 DEF Reassembles, OneTotal
  <2>2. ASSUME NEW q \in R
        PROVE  Cardinality(R) >= q.total
    <3>1. q.total \in Nat \ {0}
      BY <1>3
    <3>2. 0 .. q.total - 1 \subseteq {r.index : r \in R}
      BY <1>6 DEF Reassembles
    <3>3. q.total <= Cardinality(R)
      <4> HIDE DEF R
      <4>1. QED
        BY <1>1, <3>1, <3>2, AllIsEnough
    <3>4. Cardinality(R) \in Nat
      BY <1>1, FS_CardinalityType
    <3>5. QED
      BY <3>1, <3>3, <3>4
  <2>3. QED
    BY <2>1, <2>2 DEF IsComplete
<1>7. QED
  BY <1>5, <1>6

\* When the count of is_complete() may be trusted, for any bundles, ids and orders
\* of arrival: reassemble() accepts the rows of an id exactly when they are enough
\* and of one length.
THEOREM CompleteMeansWhole == Spec => []CompleteIsWhole
<1>1. StoreInv => CompleteIsWhole
  BY CountsAgree DEF CompleteIsWhole
<1>2. QED
  BY <1>1, StoreCorrect, PTL
=============================================================================
