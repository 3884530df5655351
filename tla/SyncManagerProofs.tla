------------------------- MODULE SyncManagerProofs --------------------------
(***************************************************************************)
(* Proofs about the delivery pipeline, for any number of threads, events,  *)
(* faults and retries: its types, the inductive invariant PipelineInv with *)
(* the safety properties that follow from it, and that every step keeps    *)
(* the promise of DeliveryPromise.                                         *)
(*                                                                         *)
(* What says that no event is lost is proved for DebugMode FALSE: with     *)
(* VTR_DEBUG set, DELETE /queue throws events away.  The types and the use *)
(* of custody do not depend on it.                                         *)
(***************************************************************************)
EXTENDS SyncManager, FiniteSetTheorems, TLAPS

USE QueueAssumption, TransportAssumption, SyncAssumption

-----------------------------------------------------------------------------
(* Types.                                                                  *)

\* The thread variables of the initial state and of a restarted process.
NoThread == /\ pc = [t \in Threads |-> "idle"]
            /\ batch = [t \in Threads |-> {}]
            /\ cur = [t \in Threads |-> NoEvent]
            /\ tries = [t \in Threads |-> 0]
            /\ safe = [t \in Threads |-> {}]
            /\ due = [t \in Threads |-> {}]
            /\ doomed = [t \in Threads |-> NoKey]

ThreadType == /\ pc \in [Threads -> Labels]
              /\ batch \in [Threads -> SUBSET Events]
              /\ cur \in [Threads -> Events \cup {NoEvent}]
              /\ tries \in [Threads -> 0 .. MaxRetries]
              /\ safe \in [Threads -> SUBSET Keys]
              /\ due \in [Threads -> SUBSET Keys]
              /\ doomed \in [Threads -> Keys \cup {NoKey}]
              /\ \A t \in Threads : /\ pc[t] \in InHand <=> cur[t] # NoEvent
                                    /\ pc[t] = "fail" <=> doomed[t] # NoKey

LEMMA NoThreadIsTyped ==
  ASSUME NoThread PROVE ThreadType
<1> USE DEF NoThread
<1>1. pc \in [Threads -> Labels]
  BY DEF Labels
<1>2. batch \in [Threads -> SUBSET Events]
  OBVIOUS
<1>3. cur \in [Threads -> Events \cup {NoEvent}]
  OBVIOUS
<1>4. tries \in [Threads -> 0 .. MaxRetries]
  OBVIOUS
<1>5. safe \in [Threads -> SUBSET Keys] /\ due \in [Threads -> SUBSET Keys]
  OBVIOUS
<1>6. doomed \in [Threads -> Keys \cup {NoKey}]
  OBVIOUS
<1>7. \A t \in Threads : /\ pc[t] \in InHand <=> cur[t] # NoEvent
                         /\ pc[t] = "fail" <=> doomed[t] # NoKey
  BY DEF InHand
<1>8. QED
  BY <1>1, <1>2, <1>3, <1>4, <1>5, <1>6, <1>7 DEF ThreadType

LEMMA InitType == Init => TypeOK
<1> SUFFICES ASSUME Init PROVE TypeOK
  OBVIOUS
<1> USE DEF Init
<1>1. QueueTypeOK
  BY DEF QueueInit, QueueTypeOK
<1>2. CustodyTypeOK
  BY DEF CustodyInit, CustodyTypeOK, Status, RetryCap
<1>3. up \in BOOLEAN /\ received \subseteq Events /\ faults \in 0 .. MaxFaults
  BY DEF TransportInit
<1>4. ThreadType
  BY NoThreadIsTyped DEF NoThread
<1>5. QED
  BY <1>1, <1>2, <1>3, <1>4 DEF TypeOK, ThreadType

LEMMA MarkAttemptType ==
  ASSUME QueueTypeOK, NEW k \in Keys, MarkAttempt(k)
  PROVE  QueueTypeOK'
<1> USE DEF MarkAttempt, QueueTypeOK
<1>1. CASE HasRow(k) /\ attempts[k] < AttemptCap
  <2>1. attempts[k] + 1 \in 0 .. AttemptCap
    BY <1>1
  <2>2. attempts' = [attempts EXCEPT ![k] = attempts[k] + 1]
    BY <1>1
  <2>3. QED
    BY <2>1, <2>2
<1>2. CASE ~(HasRow(k) /\ attempts[k] < AttemptCap)
  BY <1>2
<1>3. QED
  BY <1>1, <1>2

LEMMA AckBatchType ==
  ASSUME QueueTypeOK, NEW ks, AckBatch(ks)
  PROVE  QueueTypeOK'
  BY DEF QueueTypeOK, AckBatch

LEMMA IncrementRetryType ==
  ASSUME CustodyTypeOK, NEW k \in Keys, IncrementRetry(k)
  PROVE  CustodyTypeOK'
<1>1. NewRetries(k) \in 0 .. RetryCap
  BY DEF NewRetries, RetryCap, CustodyTypeOK
<1>2. retries' \in [Keys -> 0 .. RetryCap]
  BY <1>1 DEF IncrementRetry, CustodyTypeOK
<1>3. QED
  BY <1>2 DEF IncrementRetry, CustodyTypeOK

LEMMA FaultType ==
  ASSUME faults \in 0 .. MaxFaults, NEW kind, Fault(kind)
  PROVE  faults' \in 0 .. MaxFaults
  BY DEF Fault

\* A thread goes on with the event it has in its hands.
LEMMA GoOnType ==
  ASSUME ThreadType, NEW t \in Threads, NEW label \in InHand,
         pc[t] \in InHand, Goto(t, label), UNCHANGED <<cur, doomed>>
  PROVE  /\ pc' \in [Threads -> Labels]
         /\ \A u \in Threads : /\ pc'[u] \in InHand <=> cur'[u] # NoEvent
                               /\ pc'[u] = "fail" <=> doomed'[u] # NoKey
<1>1. label \in Labels /\ label # "fail"
  BY DEF InHand, Labels
<1>2. pc[t] # "fail"
  BY DEF InHand
<1>3. QED
  BY <1>1, <1>2 DEF ThreadType, Goto

LEMMA StepType ==
  ASSUME TypeOK, [Next]_vars
  PROVE  TypeOK'
<1> USE DEF TypeOK, queueVars, custodyDb, transportVars, threadVars, Goto,
            EndThread, Labels, InHand
<1>1. CASE \E e \in Events : Submit(e)
  BY <1>1 DEF Submit, Enqueue, QueueTypeOK, CustodyTypeOK
<1>2. CASE ClearQueue
  BY <1>2 DEF ClearQueue, Clear, QueueTypeOK, CustodyTypeOK
<1>3. CASE \E t \in Threads : Start(t)
  BY <1>3 DEF Start, QueueTypeOK, CustodyTypeOK
<1>4. CASE Stop
  BY <1>4, FaultType DEF Stop, QueueTypeOK, CustodyTypeOK
<1>5. CASE Crash
  <2>1. NoThread'
    BY <1>5 DEF Crash, NoThread
  <2>2. ThreadType'
    BY <2>1, NoThreadIsTyped, PTL
  <2>3. QED
    BY <1>5, <2>2, FaultType DEF Crash, ThreadType, QueueTypeOK, CustodyTypeOK
<1>6. CASE \E t \in Threads : DatabaseError(t)
  BY <1>6, FaultType DEF DatabaseError, QueueTypeOK, CustodyTypeOK
<1>7. ASSUME NEW t \in Threads, ThreadStep(t)
      PROVE  TypeOK'
  <2>1. CASE LoopEnds(t)
    BY <2>1 DEF LoopEnds, QueueTypeOK, CustodyTypeOK
  <2>2. CASE CycleStarts(t)
    BY <2>2 DEF CycleStarts, QueueTypeOK, CustodyTypeOK
  <2>3. CASE ChannelDown(t)
    BY <2>3 DEF ChannelDown, QueueTypeOK, CustodyTypeOK
  <2>4. CASE CycleEnds(t)
    BY <2>4 DEF CycleEnds, QueueTypeOK, CustodyTypeOK
  <2>5. CASE ReadTimedOut(t)
    BY <2>5 DEF ReadTimedOut, TimedOut, QueueTypeOK, CustodyTypeOK
  <2>6. CASE RetryTimedOut(t)
    <3>1. PICK k \in due[t] :
            /\ IncrementRetry(k)
            /\ due' = [due EXCEPT ![t] = @ \ {k}]
            /\ \/ doomed' = [doomed EXCEPT ![t] = k] /\ Goto(t, "fail")
               \/ UNCHANGED doomed /\ Goto(t, AfterRetry(due[t] \ {k}))
      BY <2>6 DEF RetryTimedOut
    <3>2. k \in Keys
      OBVIOUS
    <3>3. CustodyTypeOK'
      BY <3>1, <3>2, IncrementRetryType
    <3>4. due' \in [Threads -> SUBSET Keys]
      BY <3>1
    <3>5. /\ doomed' \in [Threads -> Keys \cup {NoKey}]
          /\ pc' \in [Threads -> Labels]
      BY <3>1, <3>2 DEF AfterRetry
    <3>6. \A u \in Threads : /\ pc'[u] \in InHand <=> cur'[u] # NoEvent
                             /\ pc'[u] = "fail" <=> doomed'[u] # NoKey
      BY <2>6, <3>1, <3>2 DEF RetryTimedOut, AfterRetry
    <3>7. QED
      BY <2>6, <3>3, <3>4, <3>5, <3>6 DEF RetryTimedOut, QueueTypeOK
  <2>7. CASE GiveUp(t)
    BY <2>7 DEF GiveUp, MarkFailed, AfterRetry, Status, QueueTypeOK, CustodyTypeOK
  <2>8. CASE PeekBatch(t)
    BY <2>8 DEF PeekBatch, Batches, QueueTypeOK, CustodyTypeOK
  <2>9. CASE TakeCustody(t)
    BY <2>9 DEF TakeCustody, Grant, Status, Keys, QueueTypeOK, CustodyTypeOK
  <2>10. CASE SendSucceeds(t)
    <3>1. cur[t] \in Events \cup {NoEvent} /\ pc[t] = "send"
      BY <2>10 DEF SendSucceeds
    <3> QED
      BY <2>10 DEF SendSucceeds, PostSucceeds, QueueTypeOK, CustodyTypeOK
  <2>11. CASE SendFails(t)
    BY <2>11, FaultType DEF SendFails, PostFails, MoreTries, QueueTypeOK, CustodyTypeOK
  <2>12. CASE VerifyHash(t)
    <3>1. PICK label \in {"ack", "mark"} : Goto(t, label)
      BY <2>12 DEF VerifyHash
    <3>2. QED
      BY <2>12, <3>1, GoOnType DEF VerifyHash, ThreadType, QueueTypeOK, CustodyTypeOK
  <2>13. CASE Ack(t)
    <3>1. PICK label \in {"gate", "mark"} : Goto(t, label)
      BY <2>13 DEF Ack
    <3>2. cur[t].key \in Keys
      BY <2>13 DEF Ack, Keys
    <3>3. CustodyTypeOK'
      BY <2>13, <3>2 DEF Ack, AckUpdate, HandOver, Status, CustodyTypeOK
    <3>4. QED
      BY <2>13, <3>1, <3>3, GoOnType DEF Ack, ThreadType, QueueTypeOK
  <2>14. CASE SafetyGate(t)
    <3>1. PICK label \in {"channel", "mark"} : Goto(t, label)
      BY <2>14 DEF SafetyGate
    <3>2. cur[t].key \in Keys
      BY <2>14 DEF SafetyGate, Keys
    <3>3. safe' \in [Threads -> SUBSET Keys]
      BY <2>14, <3>2 DEF SafetyGate
    <3>4. QED
      BY <2>14, <3>1, <3>3, GoOnType
      DEF SafetyGate, ThreadType, QueueTypeOK, CustodyTypeOK
  <2>15. CASE CountFailure(t)
    <3>1. cur[t].key \in Keys
      BY <2>15 DEF CountFailure, Keys
    <3>2. CustodyTypeOK'
      BY <2>15, <3>1, IncrementRetryType DEF CountFailure
    <3>3. QED
      BY <2>15, <3>2, GoOnType DEF CountFailure, ThreadType, QueueTypeOK
  <2>16. CASE KeepInQueue(t)
    <3>1. cur[t].key \in Keys
      BY <2>16 DEF KeepInQueue, Keys
    <3>2. QueueTypeOK'
      BY <2>16, <3>1, MarkAttemptType DEF KeepInQueue
    <3>3. QED
      BY <2>16, <3>2, GoOnType DEF KeepInQueue, ThreadType, CustodyTypeOK
  <2>17. CASE ChannelHolds(t)
    BY <2>17 DEF ChannelHolds, AfterEvent, QueueTypeOK, CustodyTypeOK
  <2>18. CASE ChannelLost(t)
    BY <2>18 DEF ChannelLost, QueueTypeOK, CustodyTypeOK
  <2>19. CASE DeleteConfirmed(t)
    BY <2>19, AckBatchType DEF DeleteConfirmed, CustodyTypeOK
  <2>20. CASE AbortFlush(t)
    BY <2>20, AckBatchType DEF AbortFlush, CustodyTypeOK
  <2>21. QED
    BY <1>7, <2>1, <2>2, <2>3, <2>4, <2>5, <2>6, <2>7, <2>8, <2>9, <2>10, <2>11,
       <2>12, <2>13, <2>14, <2>15, <2>16, <2>17, <2>18, <2>19, <2>20
    DEF ThreadStep
<1>8. CASE \E k \in Keys : Overdue(k)
  BY <1>8 DEF Overdue, Expire, QueueTypeOK, CustodyTypeOK
<1>9. CASE Network
  BY <1>9, FaultType DEF Network, LinkDown, LinkUp, QueueTypeOK, CustodyTypeOK
<1>10. CASE UNCHANGED vars
  BY <1>10 DEF vars, QueueTypeOK, CustodyTypeOK
<1>11. QED
  BY <1>1, <1>2, <1>3, <1>4, <1>5, <1>6, <1>7, <1>8, <1>9, <1>10 DEF Next

THEOREM TypeCorrect == Spec => []TypeOK
  BY InitType, StepType, PTL DEF Spec

-----------------------------------------------------------------------------
(* The invariant.  Most steps leave the queue, the custody status and the  *)
(* hashes alone and give no thread more to delete; Frame says that such a  *)
(* step preserves every part of PipelineInv but the one about cur.         *)

Rest == /\ KeyIsUnique
        /\ PendingIsQueued
        /\ BatchIsCurrent
        /\ OwnedIsConfirmed
        /\ OwnedOnce
        /\ AckedIsReceived
        /\ NoEventLost

LEMMA PipelineInvParts == PipelineInv <=> TypeOK /\ CurIsKnown /\ Rest
  BY DEF PipelineInv, Rest

LEMMA Frame ==
  ASSUME TypeOK, TypeOK', Rest,
         UNCHANGED <<queue, custody, payloadHash, acked, accepted>>,
         received \subseteq received',
         \A t \in Threads : /\ batch'[t] \subseteq batch[t]
                            /\ Owned(t)' \subseteq Owned(t)
  PROVE  Rest'
<1>1. KeyIsUnique' /\ PendingIsQueued'
  BY DEF Rest, KeyIsUnique, PendingIsQueued
<1>2. BatchIsCurrent'
  BY DEF Rest, BatchIsCurrent
<1>3. OwnedIsConfirmed'
  BY DEF Rest, OwnedIsConfirmed
<1>4. OwnedOnce'
  BY DEF Rest, OwnedOnce
<1>5. AckedIsReceived' /\ NoEventLost'
  BY DEF Rest, AckedIsReceived, NoEventLost
<1>6. QED
  BY <1>1, <1>2, <1>3, <1>4, <1>5 DEF Rest

\* What every thread knows of its event survives such a step, for the threads
\* that do not move.
LEMMA FrameCur ==
  ASSUME TypeOK, TypeOK', CurIsKnown,
         UNCHANGED <<queue, custody, payloadHash>>,
         received \subseteq received',
         \A t \in Threads :
           \/ pc'[t] \notin InHand
           \/ /\ cur'[t] = cur[t] /\ pc[t] \in InHand
              /\ pc'[t] \in {"verify", "ack", "gate"} =>
                   cur[t] \in received'
              /\ pc'[t] \in {"ack", "gate"} => payloadHash[cur[t].key] = cur[t]
  PROVE  CurIsKnown'
<1> SUFFICES ASSUME NEW t \in Threads
             PROVE  /\ pc'[t] \in InHand =>
                         /\ cur'[t] \in queue' \cup received'
                         /\ custody'[cur'[t].key] # "NONE"
                    /\ pc'[t] \in {"verify", "ack", "gate"} => cur'[t] \in received'
                    /\ pc'[t] \in {"ack", "gate"} =>
                         payloadHash'[cur'[t].key] = cur'[t]
  BY DEF CurIsKnown
<1>1. CASE pc'[t] \notin InHand
  BY <1>1 DEF InHand
<1>2. CASE pc'[t] \in InHand
  BY <1>2 DEF CurIsKnown
<1>3. QED
  BY <1>1, <1>2

\* The two together.
LEMMA QuietKeepsInv ==
  ASSUME PipelineInv, TypeOK',
         UNCHANGED <<queue, custody, payloadHash, acked, accepted>>,
         received \subseteq received',
         \A t \in Threads : /\ batch'[t] \subseteq batch[t]
                            /\ Owned(t)' \subseteq Owned(t),
         \A t \in Threads :
           \/ pc'[t] \notin InHand
           \/ /\ cur'[t] = cur[t] /\ pc[t] \in InHand
              /\ pc'[t] \in {"verify", "ack", "gate"} => cur[t] \in received'
              /\ pc'[t] \in {"ack", "gate"} => payloadHash[cur[t].key] = cur[t]
  PROVE  PipelineInv'
<1>1. TypeOK /\ CurIsKnown /\ Rest
  BY PipelineInvParts
<1>2. Rest'
  BY <1>1, Frame
<1>3. CurIsKnown'
  BY <1>1, FrameCur
<1>4. QED
  BY <1>2, <1>3 DEF PipelineInv, Rest

\* The rows a thread deletes are events the server has.
LEMMA DeletedIsReceived ==
  ASSUME PipelineInv, NEW t \in Threads, NEW e \in queue, e.key \in safe[t]
  PROVE  e \in received /\ custody[e.key] \notin {"NONE", "PENDING"}
<1>1. e.key \in Owned(t)
  BY DEF Owned
<1>2. PICK f \in queue \cap received : f.key = e.key
  BY <1>1 DEF PipelineInv, OwnedIsConfirmed
<1>3. QED
  BY <1>1, <1>2 DEF PipelineInv, OwnedIsConfirmed, KeyIsUnique

LEMMA Deletion ==
  ASSUME PipelineInv, TypeOK', NEW t \in Threads, AckBatch(safe[t]),
         safe' = [safe EXCEPT ![t] = {}],
         pc[t] \in {"delete", "abort"},
         NEW label \in {"online", "peek"}, Goto(t, label),
         UNCHANGED <<custody, payloadHash, acked, received, accepted, batch, cur>>
  PROVE  PipelineInv'
<1> USE DEF PipelineInv
<1>1. queue' \subseteq queue
  BY DEF AckBatch
<1>2. \A e \in queue : e \in queue' \/ (e \in received /\ e.key \in safe[t])
  BY DeletedIsReceived DEF AckBatch
<1>3. KeyIsUnique'
  BY <1>1 DEF KeyIsUnique
<1>4. PendingIsQueued'
  <2> SUFFICES ASSUME NEW k \in Keys, custody[k] = "PENDING"
               PROVE  payloadHash[k] \in queue' /\ payloadHash[k].key = k
    BY DEF PendingIsQueued
  <2>1. payloadHash[k] \in queue /\ payloadHash[k].key = k
    BY DEF PendingIsQueued
  <2>2. payloadHash[k].key \notin safe[t]
    BY <2>1, DeletedIsReceived
  <2>3. QED
    BY <2>1, <2>2 DEF AckBatch
<1>5. BatchIsCurrent'
  <2> SUFFICES ASSUME NEW u \in Threads, NEW e \in batch[u]
               PROVE  /\ e \in queue' \cup received
                      /\ custody[e.key] = "NONE" => e \in queue'
    BY DEF BatchIsCurrent
  <2>1. /\ e \in queue \cup received
        /\ custody[e.key] = "NONE" => e \in queue
    BY DEF BatchIsCurrent
  <2>2. QED
    BY <2>1, <1>2, DeletedIsReceived
<1>6. CurIsKnown'
  <2> SUFFICES ASSUME NEW u \in Threads
               PROVE  /\ pc'[u] \in InHand =>
                            /\ cur[u] \in queue' \cup received
                            /\ custody[cur[u].key] # "NONE"
                      /\ pc'[u] \in {"verify", "ack", "gate"} => cur[u] \in received
                      /\ pc'[u] \in {"ack", "gate"} => payloadHash[cur[u].key] = cur[u]
    BY DEF CurIsKnown
  <2>1. CASE u = t
    BY <2>1 DEF Goto, InHand, TypeOK
  <2>2. CASE u # t
    BY <2>2, <1>2 DEF CurIsKnown, Goto, TypeOK
  <2>3. QED
    BY <2>1, <2>2
<1>7. Owned(t)' = {}
  BY DEF Owned, TypeOK, Goto
<1>8. \A u \in Threads \ {t} : Owned(u)' = Owned(u)
  BY DEF Owned, TypeOK, Goto
<1>9. OwnedIsConfirmed'
  <2> SUFFICES ASSUME NEW u \in Threads, NEW k \in Owned(u)'
               PROVE  /\ custody[k] \notin {"NONE", "PENDING"}
                      /\ \E e \in queue' \cap received : e.key = k
    BY DEF OwnedIsConfirmed
  <2>1. u # t /\ k \in Owned(u)
    BY <1>7, <1>8
  <2>2. PICK e \in queue \cap received : e.key = k
    BY <2>1 DEF OwnedIsConfirmed
  <2>3. k \notin safe[t]
    BY <2>1 DEF OwnedOnce, Owned
  <2>4. QED
    BY <2>1, <2>2, <2>3 DEF OwnedIsConfirmed, AckBatch
<1>10. OwnedOnce'
  BY <1>7, <1>8 DEF OwnedOnce
<1>11. AckedIsReceived'
  BY DEF AckedIsReceived
<1>12. NoEventLost'
  BY <1>2 DEF NoEventLost
<1>13. QED
  BY <1>3, <1>4, <1>5, <1>6, <1>9, <1>10, <1>11, <1>12

\* Steps of a thread that leave both databases alone, or change only columns no
\* part of the invariant reads.
LEMMA QuietThreadStep ==
  ASSUME PipelineInv, TypeOK', NEW t \in Threads,
         \/ LoopEnds(t) \/ CycleStarts(t) \/ ChannelDown(t) \/ CycleEnds(t)
         \/ ReadTimedOut(t) \/ RetryTimedOut(t)
         \/ SendSucceeds(t) \/ SendFails(t) \/ VerifyHash(t) \/ SafetyGate(t)
         \/ CountFailure(t) \/ KeepInQueue(t) \/ ChannelHolds(t) \/ ChannelLost(t)
         \/ DatabaseError(t) \/ Start(t)
  PROVE  PipelineInv'
<1> USE DEF PipelineInv, queueVars, custodyDb, transportVars, threadVars, Goto, TypeOK
<1> DEFINE Quiet ==
      /\ UNCHANGED <<queue, custody, payloadHash, acked, accepted>>
      /\ received \subseteq received'
      /\ \A u \in Threads : /\ batch'[u] \subseteq batch[u]
                            /\ Owned(u)' \subseteq Owned(u)
           CurStays ==
      \A u \in Threads :
        \/ pc'[u] \notin InHand
        \/ /\ cur'[u] = cur[u] /\ pc[u] \in InHand
           /\ pc'[u] \in {"verify", "ack", "gate"} => cur[u] \in received'
           /\ pc'[u] \in {"ack", "gate"} => payloadHash[cur[u].key] = cur[u]
<1>1. CASE LoopEnds(t) \/ DatabaseError(t)
  <2>1. Quiet
    BY <1>1 DEF LoopEnds, DatabaseError, EndThread, Fault, Owned
  <2>2. CurStays
    BY <1>1 DEF LoopEnds, DatabaseError, EndThread, InHand, CurIsKnown
  <2>3. QED
    BY <2>1, <2>2, QuietKeepsInv
<1>2. CASE CycleStarts(t) \/ ChannelDown(t) \/ CycleEnds(t) \/ Start(t)
  <2>1. Quiet
    BY <1>2 DEF CycleStarts, ChannelDown, CycleEnds, Start, Owned
  <2>2. CurStays
    BY <1>2 DEF CycleStarts, ChannelDown, CycleEnds, Start, InHand, CurIsKnown
  <2>3. QED
    BY <2>1, <2>2, QuietKeepsInv
<1>3. CASE ReadTimedOut(t) \/ RetryTimedOut(t)
  <2>1. PICK label \in {"peek", "retry", "fail"} : pc' = [pc EXCEPT ![t] = label]
    BY <1>3 DEF ReadTimedOut, RetryTimedOut, AfterRetry
  <2>2. Quiet
    BY <1>3, <2>1 DEF ReadTimedOut, RetryTimedOut, IncrementRetry, Owned
  <2>3. CurStays
    BY <1>3, <2>1 DEF ReadTimedOut, RetryTimedOut, IncrementRetry, InHand, CurIsKnown
  <2>4. QED
    BY <2>2, <2>3, QuietKeepsInv
<1>4. CASE SendSucceeds(t)
  <2>1. Quiet
    BY <1>4 DEF SendSucceeds, PostSucceeds, Owned
  <2>2. CurStays
    BY <1>4 DEF SendSucceeds, PostSucceeds, InHand, CurIsKnown
  <2>3. QED
    BY <2>1, <2>2, QuietKeepsInv
<1>5. CASE SendFails(t)
  <2>1. Quiet
    BY <1>5 DEF SendFails, PostFails, Owned
  <2>2. CurStays
    BY <1>5 DEF SendFails, PostFails, InHand, CurIsKnown
  <2>3. QED
    BY <2>1, <2>2, QuietKeepsInv
<1>6. CASE VerifyHash(t)
  <2>1. PICK label \in {"ack", "mark"} :
          /\ pc' = [pc EXCEPT ![t] = label]
          /\ label = "ack" => payloadHash[cur[t].key] = cur[t]
    BY <1>6 DEF VerifyHash, HashMatches
  <2>2. Quiet
    BY <1>6, <2>1 DEF VerifyHash, Owned
  <2>3. CurStays
    BY <1>6, <2>1 DEF VerifyHash, InHand, CurIsKnown
  <2>4. QED
    BY <2>2, <2>3, QuietKeepsInv
<1>7. CASE SafetyGate(t)
  <2>1. PICK label \in {"channel", "mark"} : pc' = [pc EXCEPT ![t] = label]
    BY <1>7 DEF SafetyGate
  <2>2. safe'[t] \subseteq safe[t] \cup {cur[t].key}
    BY <1>7 DEF SafetyGate
  <2>3. Quiet
    BY <1>7, <2>1, <2>2 DEF SafetyGate, Owned
  <2>4. CurStays
    BY <1>7, <2>1 DEF SafetyGate, InHand, CurIsKnown
  <2>5. QED
    BY <2>3, <2>4, QuietKeepsInv
<1>8. CASE CountFailure(t) \/ KeepInQueue(t)
  <2>1. PICK label \in {"channel", "mark"} : pc' = [pc EXCEPT ![t] = label]
    BY <1>8 DEF CountFailure, KeepInQueue
  <2>2. Quiet
    BY <1>8, <2>1 DEF CountFailure, IncrementRetry, KeepInQueue, MarkAttempt, Owned
  <2>3. CurStays
    BY <1>8, <2>1
    DEF CountFailure, IncrementRetry, KeepInQueue, MarkAttempt, InHand, CurIsKnown
  <2>4. QED
    BY <2>2, <2>3, QuietKeepsInv
<1>9. CASE ChannelHolds(t) \/ ChannelLost(t)
  <2>1. PICK label \in {"grant", "delete", "abort"} : pc' = [pc EXCEPT ![t] = label]
    BY <1>9 DEF ChannelHolds, ChannelLost, AfterEvent
  <2>2. Quiet
    BY <1>9, <2>1 DEF ChannelHolds, ChannelLost, Owned
  <2>3. CurStays
    BY <1>9, <2>1 DEF ChannelHolds, ChannelLost, InHand, CurIsKnown
  <2>4. QED
    BY <2>2, <2>3, QuietKeepsInv
<1>10. QED
  BY <1>1, <1>2, <1>3, <1>4, <1>5, <1>6, <1>7, <1>8, <1>9

\* Steps of the environment other than the producers'.
LEMMA QuietStep ==
  ASSUME PipelineInv, TypeOK',
         \/ Stop \/ Crash \/ Network \/ UNCHANGED vars
         \/ \E k \in Keys : Overdue(k)
  PROVE  PipelineInv'
<1> USE DEF PipelineInv, queueVars, custodyDb, transportVars, threadVars, vars, TypeOK
<1>1. /\ UNCHANGED <<queue, custody, payloadHash, acked, accepted>>
      /\ received \subseteq received'
      /\ \A u \in Threads : /\ batch'[u] \subseteq batch[u]
                            /\ Owned(u)' \subseteq Owned(u)
  <2>1. CASE Crash
    BY <2>1 DEF Crash, Owned
  <2>2. CASE ~Crash
    BY <2>2 DEF Stop, Network, LinkDown, LinkUp, Overdue, Expire, Owned
  <2>3. QED
    BY <2>1, <2>2
<1>2. \A u \in Threads :
        \/ pc'[u] \notin InHand
        \/ /\ cur'[u] = cur[u] /\ pc[u] \in InHand
           /\ pc'[u] \in {"verify", "ack", "gate"} => cur[u] \in received'
           /\ pc'[u] \in {"ack", "gate"} => payloadHash[cur[u].key] = cur[u]
  <2>1. CASE Crash
    BY <2>1 DEF Crash, InHand
  <2>2. CASE ~Crash
    BY <2>2 DEF Stop, Network, LinkDown, LinkUp, Overdue, Expire, CurIsKnown
  <2>3. QED
    BY <2>1, <2>2
<1>3. QED
  BY <1>1, <1>2, QuietKeepsInv

LEMMA SubmitStep ==
  ASSUME PipelineInv, TypeOK', NEW e \in Events, Submit(e)
  PROVE  PipelineInv'
<1> USE DEF PipelineInv, Submit, Enqueue, custodyDb, transportVars, threadVars
<1>1. queue \subseteq queue'
  OBVIOUS
<1>2. KeyIsUnique'
  BY DEF KeyIsUnique, HasRow
<1>3. PendingIsQueued' /\ BatchIsCurrent' /\ CurIsKnown'
  BY <1>1 DEF PendingIsQueued, BatchIsCurrent, CurIsKnown
<1>4. OwnedIsConfirmed' /\ OwnedOnce'
  BY <1>1 DEF OwnedIsConfirmed, OwnedOnce, Owned
<1>5. AckedIsReceived' /\ NoEventLost'
  BY <1>1 DEF AckedIsReceived, NoEventLost
<1>6. QED
  BY <1>2, <1>3, <1>4, <1>5

LEMMA GiveUpStep ==
  ASSUME PipelineInv, TypeOK', NEW t \in Threads, GiveUp(t)
  PROVE  PipelineInv'
<1> USE DEF PipelineInv, TypeOK, queueVars, transportVars
<1>1. UNCHANGED <<queue, payloadHash, acked, received, accepted, batch, cur, safe>>
  BY DEF GiveUp, MarkFailed
<1>2. \A k \in Keys : \/ custody'[k] = custody[k]
                      \/ custody[k] # "NONE" /\ custody'[k] = "FAILED"
  BY DEF GiveUp, MarkFailed, CustodyTypeOK
<1>3. \A u \in Threads : \/ pc'[u] = pc[u]
                         \/ pc[u] = "fail" /\ pc'[u] \in {"peek", "retry"}
  BY DEF GiveUp, Goto, AfterRetry
<1>4. \A u \in Threads : Owned(u)' = Owned(u)
  BY <1>1, <1>3 DEF Owned
<1>5. KeyIsUnique' /\ NoEventLost'
  BY <1>1 DEF KeyIsUnique, NoEventLost
<1>6. PendingIsQueued' /\ AckedIsReceived'
  BY <1>1, <1>2 DEF PendingIsQueued, AckedIsReceived, CustodyTypeOK
<1>7. BatchIsCurrent'
  <2>1. \A u \in Threads : \A e \in batch[u] : e.key \in Keys
    BY DEF Keys
  <2>2. QED
    BY <1>1, <1>2, <2>1 DEF BatchIsCurrent
<1>8. CurIsKnown'
  <2> SUFFICES ASSUME NEW u \in Threads, pc'[u] \in InHand
               PROVE  /\ cur[u] \in queue \cup received /\ custody'[cur[u].key] # "NONE"
                      /\ pc'[u] \in {"verify", "ack", "gate"} => cur[u] \in received
                      /\ pc'[u] \in {"ack", "gate"} => payloadHash[cur[u].key] = cur[u]
    BY <1>1 DEF CurIsKnown, InHand
  <2>1. pc'[u] = pc[u]
    BY <1>3 DEF InHand
  <2>2. cur[u].key \in Keys
    BY <2>1 DEF Keys
  <2>3. QED
    BY <1>2, <2>1, <2>2 DEF CurIsKnown
<1>9. OwnedIsConfirmed' /\ OwnedOnce'
  <2>1. \A u \in Threads : Owned(u) \subseteq Keys
    BY DEF Owned, Keys, InHand
  <2>2. QED
    BY <1>1, <1>2, <1>4, <2>1 DEF OwnedIsConfirmed, OwnedOnce
<1>10. QED
  BY <1>5, <1>6, <1>7, <1>8, <1>9

\* A batch is a snapshot of the queue, so what it holds is queued.
LEMMA PeekStep ==
  ASSUME PipelineInv, TypeOK', NEW t \in Threads, PeekBatch(t)
  PROVE  PipelineInv'
<1> USE DEF PipelineInv, queueVars, custodyDb, transportVars
<1>1. PICK B \in Batches : batch' = [batch EXCEPT ![t] = B]
  BY DEF PeekBatch
<1>2. B \subseteq queue
  BY DEF Batches
<1>3. PICK label \in {"online", "grant"} : pc' = [pc EXCEPT ![t] = label]
  BY DEF PeekBatch, Goto
<1>4. UNCHANGED <<queue, custody, payloadHash, acked, received, accepted, cur, safe>>
  BY DEF PeekBatch
<1>5. pc[t] = "peek"
  BY DEF PeekBatch
<1>6. BatchIsCurrent'
  <2> SUFFICES ASSUME NEW u \in Threads, NEW e \in batch'[u]
               PROVE  /\ e \in queue \cup received
                      /\ custody[e.key] = "NONE" => e \in queue
    BY <1>4 DEF BatchIsCurrent
  <2>1. CASE u = t
    BY <2>1, <1>1, <1>2 DEF TypeOK
  <2>2. CASE u # t
    BY <2>2, <1>1 DEF TypeOK, BatchIsCurrent
  <2>3. QED
    BY <2>1, <2>2
<1>7. CurIsKnown'
  BY <1>3, <1>4, <1>5 DEF CurIsKnown, InHand, TypeOK
<1>8. \A u \in Threads : Owned(u)' = Owned(u)
  BY <1>3, <1>4, <1>5 DEF Owned, TypeOK
<1>9. OwnedIsConfirmed' /\ OwnedOnce'
  BY <1>4, <1>8 DEF OwnedIsConfirmed, OwnedOnce
<1>10. KeyIsUnique' /\ PendingIsQueued' /\ AckedIsReceived' /\ NoEventLost'
  BY <1>4 DEF KeyIsUnique, PendingIsQueued, AckedIsReceived, NoEventLost
<1>11. QED
  BY <1>6, <1>7, <1>9, <1>10

\* Custody is granted on an event of the batch: if it had none, it is still in
\* the queue, and so the new PENDING row has its event there.
LEMMA TakeStep ==
  ASSUME PipelineInv, TypeOK', NEW t \in Threads, TakeCustody(t)
  PROVE  PipelineInv'
<1> USE DEF PipelineInv, queueVars, transportVars
<1>1. PICK e \in batch[t] : /\ Grant(e.key, e)
                            /\ cur' = [cur EXCEPT ![t] = e]
                            /\ batch' = [batch EXCEPT ![t] = @ \ {e}]
  BY DEF TakeCustody
<1>2. /\ pc[t] = "grant"
      /\ pc' = [pc EXCEPT ![t] = "send"]
      /\ UNCHANGED <<queue, acked, received, accepted, safe>>
  BY <1>1 DEF TakeCustody, Goto, Grant
<1>3. e \in Events /\ e.key \in Keys
  BY DEF TypeOK, Keys
<1>4. /\ e \in queue \cup received
      /\ custody[e.key] = "NONE" => e \in queue
  BY DEF BatchIsCurrent
<1>5. \A k \in Keys :
        \/ custody'[k] = custody[k] /\ payloadHash'[k] = payloadHash[k]
        \/ /\ k = e.key /\ custody[k] = "NONE"
           /\ custody'[k] = "PENDING" /\ payloadHash'[k] = e
  BY <1>1, <1>3 DEF Grant, TypeOK, CustodyTypeOK
<1>6. custody'[e.key] # "NONE"
  BY <1>1, <1>3 DEF Grant, TypeOK, CustodyTypeOK
<1>7. KeyIsUnique' /\ NoEventLost'
  BY <1>2 DEF KeyIsUnique, NoEventLost
<1>8. PendingIsQueued' /\ AckedIsReceived'
  <2>1. PendingIsQueued'
    BY <1>2, <1>4, <1>5 DEF PendingIsQueued
  <2>2. acked \subseteq Keys
    BY DEF TypeOK, CustodyTypeOK
  <2>3. AckedIsReceived'
    BY <1>2, <1>5, <2>2 DEF AckedIsReceived
  <2>4. QED
    BY <2>1, <2>3
<1>9. BatchIsCurrent'
  <2> SUFFICES ASSUME NEW u \in Threads, NEW f \in batch'[u]
               PROVE  /\ f \in queue \cup received
                      /\ custody'[f.key] = "NONE" => f \in queue
    BY <1>2 DEF BatchIsCurrent
  <2>1. f \in batch[u]
    BY <1>1 DEF TypeOK
  <2>2. f.key \in Keys
    BY <2>1 DEF TypeOK, Keys
  <2>3. QED
    BY <1>5, <2>1, <2>2 DEF BatchIsCurrent
<1>10. CurIsKnown'
  <2> SUFFICES ASSUME NEW u \in Threads, pc'[u] \in InHand
               PROVE  /\ cur'[u] \in queue \cup received
                      /\ custody'[cur'[u].key] # "NONE"
                      /\ pc'[u] \in {"verify", "ack", "gate"} => cur'[u] \in received
                      /\ pc'[u] \in {"ack", "gate"} =>
                           payloadHash'[cur'[u].key] = cur'[u]
    BY <1>2 DEF CurIsKnown, InHand
  <2>1. CASE u = t
    BY <2>1, <1>1, <1>2, <1>4, <1>6 DEF TypeOK
  <2>2. CASE u # t
    <3>1. cur'[u] = cur[u] /\ pc'[u] = pc[u]
      BY <2>2, <1>1, <1>2 DEF TypeOK
    <3>2. cur[u] \in queue \cup received /\ custody[cur[u].key] # "NONE"
      BY <3>1 DEF CurIsKnown
    <3>3. cur[u].key \in Keys
      BY <3>2 DEF TypeOK, QueueTypeOK, Keys
    <3>4. QED
      BY <3>1, <3>2, <3>3, <1>5 DEF CurIsKnown
  <2>3. QED
    BY <2>1, <2>2
<1>11. \A u \in Threads : Owned(u)' = Owned(u)
  BY <1>1, <1>2 DEF Owned, TypeOK
<1>12. \A u \in Threads : Owned(u) \subseteq Keys
  BY DEF Owned, TypeOK, InHand, Keys
<1>13. OwnedIsConfirmed' /\ OwnedOnce'
  BY <1>2, <1>5, <1>11, <1>12 DEF OwnedIsConfirmed, OwnedOnce
<1>14. QED
  BY <1>7, <1>8, <1>9, <1>10, <1>13

\* Whoever acknowledges a bundle finds it PENDING, and so no other thread may
\* delete its row; the row is the event that was sent.
LEMMA AckStep ==
  ASSUME PipelineInv, TypeOK', NEW t \in Threads, Ack(t)
  PROVE  PipelineInv'
<1> USE DEF PipelineInv, queueVars, transportVars
<1> DEFINE e == cur[t]
           k0 == cur[t].key
<1>1. /\ pc[t] = "ack"
      /\ UNCHANGED <<queue, payloadHash, received, accepted, batch, cur, safe>>
  BY DEF Ack, AckUpdate, HandOver
<1>2. e \in Events /\ k0 \in Keys /\ e \in received /\ payloadHash[k0] = e
  BY <1>1 DEF TypeOK, CurIsKnown, InHand, Keys
<1>3. CASE custody[k0] # "PENDING"
  <2>1. UNCHANGED <<custody, acked>> /\ pc' = [pc EXCEPT ![t] = "mark"]
    BY <1>3 DEF Ack, AckUpdate, HandOver, HandOverWorks, Goto
  <2>2. \A u \in Threads : Owned(u)' = Owned(u)
    BY <1>1, <2>1 DEF Owned, TypeOK
  <2>3. CurIsKnown'
    BY <1>1, <2>1 DEF CurIsKnown, InHand, TypeOK
  <2>4. OwnedIsConfirmed' /\ OwnedOnce' /\ BatchIsCurrent'
    BY <1>1, <2>1, <2>2 DEF OwnedIsConfirmed, OwnedOnce, BatchIsCurrent
  <2>5. KeyIsUnique' /\ PendingIsQueued' /\ AckedIsReceived' /\ NoEventLost'
    BY <1>1, <2>1 DEF KeyIsUnique, PendingIsQueued, AckedIsReceived, NoEventLost
  <2>6. QED
    BY <2>3, <2>4, <2>5
<1>4. CASE custody[k0] = "PENDING"
  <2>1. /\ custody' = [custody EXCEPT ![k0] = "ACKED"]
        /\ pc' = [pc EXCEPT ![t] = "gate"]
    BY <1>4 DEF Ack, AckUpdate, HandOver, HandOverWorks, Goto
  <2>2. \A k \in Keys : /\ k # k0 => custody'[k] = custody[k]
                        /\ k = k0 => custody'[k] = "ACKED"
    BY <2>1, <1>2 DEF TypeOK, CustodyTypeOK
  <2>3. e \in queue
    BY <1>2, <1>4 DEF PendingIsQueued
  <2>4. \A u \in Threads : k0 \notin Owned(u)
    BY <1>4 DEF OwnedIsConfirmed
  <2>5. \A u \in Threads : Owned(u)' = IF u = t THEN Owned(t) \cup {k0} ELSE Owned(u)
    BY <1>1, <2>1 DEF Owned, TypeOK
  <2>6. \A u \in Threads : Owned(u) \subseteq Keys
    BY DEF Owned, TypeOK, InHand, Keys
  <2>7. OwnedIsConfirmed'
    <3> SUFFICES ASSUME NEW u \in Threads, NEW k \in Owned(u)'
                 PROVE  /\ custody'[k] \notin {"NONE", "PENDING"}
                        /\ \E f \in queue \cap received : f.key = k
      BY <1>1 DEF OwnedIsConfirmed
    <3>1. CASE k \in Owned(u)
      BY <3>1, <2>2, <2>6 DEF OwnedIsConfirmed
    <3>2. CASE k \notin Owned(u)
      BY <3>2, <2>2, <2>3, <2>5, <1>2
    <3>3. QED
      BY <3>1, <3>2
  <2>8. OwnedOnce'
    BY <2>4, <2>5 DEF OwnedOnce
  <2>9. CurIsKnown'
    <3> SUFFICES ASSUME NEW u \in Threads, pc'[u] \in InHand
                 PROVE  /\ cur[u] \in queue \cup received
                        /\ custody'[cur[u].key] # "NONE"
                        /\ pc'[u] \in {"verify", "ack", "gate"} => cur[u] \in received
                        /\ pc'[u] \in {"ack", "gate"} =>
                             payloadHash[cur[u].key] = cur[u]
      BY <1>1 DEF CurIsKnown, InHand
    <3>1. CASE u = t
      BY <3>1, <1>2, <2>2
    <3>2. CASE u # t
      <4>1. pc'[u] = pc[u]
        BY <3>2, <2>1 DEF TypeOK
      <4>2. cur[u].key \in Keys
        BY <4>1 DEF TypeOK, Keys
      <4>3. QED
        BY <4>1, <4>2, <2>2 DEF CurIsKnown
    <3>3. QED
      BY <3>1, <3>2
  <2>10. BatchIsCurrent'
    <3>1. \A u \in Threads : \A f \in batch[u] : f.key \in Keys
      BY DEF TypeOK, Keys
    <3>2. QED
      BY <3>1, <2>2, <1>1 DEF BatchIsCurrent
  <2>11. PendingIsQueued' /\ AckedIsReceived'
    <3>1. acked' = acked \cup {k0} /\ acked \subseteq Keys
      BY <1>4 DEF Ack, AckUpdate, HandOverWorks, TypeOK, CustodyTypeOK
    <3>2. AckedIsReceived'
      BY <1>1, <1>2, <2>2, <3>1 DEF AckedIsReceived
    <3>3. PendingIsQueued'
      BY <1>1, <1>2, <2>2 DEF PendingIsQueued
    <3>4. QED
      BY <3>2, <3>3
  <2>12. KeyIsUnique' /\ NoEventLost'
    BY <1>1 DEF KeyIsUnique, NoEventLost
  <2>13. QED
    BY <2>7, <2>8, <2>9, <2>10, <2>11, <2>12
<1>5. QED
  BY <1>3, <1>4

-----------------------------------------------------------------------------
(* The invariance of PipelineInv.                                          *)

LEMMA InitInv == Init => PipelineInv
<1> SUFFICES ASSUME Init PROVE PipelineInv
  OBVIOUS
<1> USE DEF Init, QueueInit, CustodyInit, TransportInit
<1>1. TypeOK
  BY InitType
<1>2. KeyIsUnique /\ PendingIsQueued /\ BatchIsCurrent /\ CurIsKnown
  BY DEF KeyIsUnique, PendingIsQueued, BatchIsCurrent, CurIsKnown, InHand
<1>3. \A t \in Threads : Owned(t) = {}
  BY DEF Owned
<1>4. OwnedIsConfirmed /\ OwnedOnce
  BY <1>3 DEF OwnedIsConfirmed, OwnedOnce
<1>5. AckedIsReceived /\ NoEventLost
  BY DEF AckedIsReceived, NoEventLost
<1>6. QED
  BY <1>1, <1>2, <1>4, <1>5 DEF PipelineInv

LEMMA StepInv ==
  ASSUME ~DebugMode, PipelineInv, [Next]_vars
  PROVE  PipelineInv'
<1>1. TypeOK'
  BY StepType DEF PipelineInv
<1>2. CASE \E e \in Events : Submit(e)
  BY <1>1, <1>2, SubmitStep
<1>3. CASE ClearQueue
  BY <1>3 DEF ClearQueue
<1>4. CASE \/ Stop \/ Crash \/ Network \/ UNCHANGED vars
           \/ \E k \in Keys : Overdue(k)
  BY <1>1, <1>4, QuietStep
<1>5. CASE \E t \in Threads : Start(t) \/ DatabaseError(t)
  BY <1>1, <1>5, QuietThreadStep
<1>6. ASSUME NEW t \in Threads, ThreadStep(t)
      PROVE  PipelineInv'
  <2>1. CASE GiveUp(t)
    BY <1>1, <2>1, GiveUpStep
  <2>2. CASE PeekBatch(t)
    BY <1>1, <2>2, PeekStep
  <2>3. CASE TakeCustody(t)
    BY <1>1, <2>3, TakeStep
  <2>4. CASE Ack(t)
    BY <1>1, <2>4, AckStep
  <2>5. CASE DeleteConfirmed(t)
    <3>1. PICK label \in {"online", "peek"} : Goto(t, label)
      BY <2>5 DEF DeleteConfirmed
    <3>2. /\ pc[t] = "delete" /\ AckBatch(safe[t]) /\ safe' = [safe EXCEPT ![t] = {}]
          /\ UNCHANGED <<custody, payloadHash, acked, received, accepted, batch, cur>>
      BY <2>5 DEF DeleteConfirmed, custodyDb, transportVars
    <3>3. QED
      BY <1>1, <3>1, <3>2, Deletion
  <2>6. CASE AbortFlush(t)
    <3>1. /\ pc[t] = "abort" /\ AckBatch(safe[t]) /\ safe' = [safe EXCEPT ![t] = {}]
          /\ Goto(t, "online")
          /\ UNCHANGED <<custody, payloadHash, acked, received, accepted, batch, cur>>
      BY <2>6 DEF AbortFlush, custodyDb, transportVars
    <3>2. QED
      BY <1>1, <3>1, Deletion
  <2>7. QED
    BY <1>1, <1>6, <2>1, <2>2, <2>3, <2>4, <2>5, <2>6, QuietThreadStep DEF ThreadStep
<1>7. QED
  BY <1>2, <1>3, <1>4, <1>5, <1>6 DEF Next

\* Without VTR_DEBUG the invariant of the pipeline holds for any number of sync
\* threads: keys are unique in the queue, a PENDING bundle has its event there,
\* and what a thread is about to delete is confirmed, stored by the server, and
\* in the hands of no other thread.
THEOREM PipelineCorrect == ~DebugMode => (Spec => []PipelineInv)
<1> SUFFICES ASSUME ~DebugMode PROVE Spec => []PipelineInv
  OBVIOUS
<1>1. PipelineInv /\ [Next]_vars => PipelineInv'
  BY StepInv
<1>2. QED
  BY <1>1, InitInv, PTL DEF Spec

-----------------------------------------------------------------------------
(* What follows from it.                                                   *)

\* sync_manager.py deletes an event only after the server confirmed it: an
\* accepted event is always stored by the server or still in queue.db, whatever
\* crashes, overlaps or gets lost.
THEOREM AcceptedIsNeverLost == ~DebugMode => (Spec => []NoEventLost)
<1> SUFFICES ASSUME ~DebugMode PROVE Spec => []NoEventLost
  OBVIOUS
<1>1. PipelineInv => NoEventLost
  BY DEF PipelineInv
<1>2. QED
  BY <1>1, PipelineCorrect, PTL

\* An ACKED row of custody.db, and one a FAILED mark fell on after its ack, stands for
\* a payload the server stored.
THEOREM AckedIsTrue == ~DebugMode => (Spec => []AckedIsReceived)
<1> SUFFICES ASSUME ~DebugMode PROVE Spec => []AckedIsReceived
  OBVIOUS
<1>1. PipelineInv => AckedIsReceived
  BY DEF PipelineInv
<1>2. QED
  BY <1>1, PipelineCorrect, PTL

\* Two threads that overlap after a stop() that timed out never both have a key
\* in the list they hand to ack_batch().
THEOREM DeletedByOneThread == ~DebugMode => (Spec => []DeletesOnce)
<1> SUFFICES ASSUME ~DebugMode PROVE Spec => []DeletesOnce
  OBVIOUS
<1>1. PipelineInv => DeletesOnce
  BY DEF PipelineInv, OwnedOnce, Owned, DeletesOnce
<1>2. QED
  BY <1>1, PipelineCorrect, PTL

-----------------------------------------------------------------------------
(* The refinement of DeliveryPromise.                                      *)

LEMMA SubmitRefines ==
  ASSUME NEW e \in Events, Submit(e)
  PROVE  [Promise!Next]_Promise!vars
<1>1. received' = received
  BY DEF Submit, transportVars
<1>2. queue' = queue \/ queue' = queue \cup {e}
  BY DEF Submit, Enqueue
<1>3. QED
  BY <1>1, <1>2 DEF Promise!Next, Promise!vars, Promise!Accept

\* What a send() may leave on the server is an event that is still queued, or
\* one the server has already.
LEMMA SendRefines ==
  ASSUME PipelineInv, NEW t \in Threads, SendSucceeds(t) \/ SendFails(t)
  PROVE  [Promise!Next]_Promise!vars
<1>1. cur[t] \in queue \cup received /\ cur[t] \in Events
  BY DEF SendSucceeds, SendFails, PipelineInv, CurIsKnown, InHand, TypeOK, QueueTypeOK
<1>2. queue' = queue
  BY DEF SendSucceeds, SendFails, queueVars
<1>3. received' = received \/ received' = received \cup {cur[t]}
  BY DEF SendSucceeds, SendFails, PostSucceeds, PostFails, transportVars
<1>4. QED
  BY <1>1, <1>2, <1>3 DEF Promise!Next, Promise!vars, Promise!Deliver

\* The end of a flush releases only what the server has.
LEMMA DeleteRefines ==
  ASSUME PipelineInv, NEW t \in Threads, DeleteConfirmed(t) \/ AbortFlush(t)
  PROVE  [Promise!Next]_Promise!vars
<1> DEFINE gone == {e \in queue : e.key \in safe[t]}
<1>1. gone \subseteq queue \cap received
  BY DeletedIsReceived
<1>2. queue' = queue \ gone /\ received' = received
  BY DEF DeleteConfirmed, AbortFlush, AckBatch, transportVars
<1>3. gone \in SUBSET Events
  BY DEF PipelineInv, TypeOK, QueueTypeOK
<1>4. QED
  BY <1>1, <1>2, <1>3 DEF Promise!Next, Promise!vars, Promise!Release

LEMMA StepRefines ==
  ASSUME ~DebugMode, PipelineInv, [Next]_vars
  PROVE  [Promise!Next]_Promise!vars
<1>1. CASE \E e \in Events : Submit(e)
  BY <1>1, SubmitRefines
<1>2. CASE ClearQueue
  BY <1>2 DEF ClearQueue
<1>3. ASSUME NEW t \in Threads, ThreadStep(t)
      PROVE  [Promise!Next]_Promise!vars
  <2>1. CASE SendSucceeds(t) \/ SendFails(t)
    BY <2>1, SendRefines
  <2>2. CASE DeleteConfirmed(t) \/ AbortFlush(t)
    BY <2>2, DeleteRefines
  <2>3. CASE \/ LoopEnds(t) \/ CycleStarts(t) \/ ChannelDown(t) \/ CycleEnds(t)
             \/ ReadTimedOut(t) \/ RetryTimedOut(t) \/ GiveUp(t)
             \/ PeekBatch(t) \/ TakeCustody(t)
    BY <2>3 DEF LoopEnds, CycleStarts, ChannelDown, CycleEnds, ReadTimedOut,
                RetryTimedOut, GiveUp, PeekBatch, TakeCustody, queueVars,
                transportVars, Promise!vars
  <2>4. CASE \/ VerifyHash(t) \/ Ack(t) \/ SafetyGate(t)
             \/ CountFailure(t) \/ KeepInQueue(t)
             \/ ChannelHolds(t) \/ ChannelLost(t)
    BY <2>4 DEF VerifyHash, Ack, SafetyGate, CountFailure, KeepInQueue, MarkAttempt,
                ChannelHolds, ChannelLost, queueVars, transportVars, Promise!vars
  <2>5. QED
    BY <1>3, <2>1, <2>2, <2>3, <2>4 DEF ThreadStep
<1>4. CASE \E t \in Threads : Start(t) \/ DatabaseError(t)
  BY <1>4 DEF Start, DatabaseError, queueVars, transportVars, Promise!vars
<1>5. CASE Stop \/ Crash \/ Network \/ \E k \in Keys : Overdue(k)
  BY <1>5 DEF Stop, Crash, Network, LinkDown, LinkUp, Overdue, queueVars,
              transportVars, Promise!vars
<1>6. CASE UNCHANGED vars
  BY <1>6 DEF vars, queueVars, transportVars, Promise!vars
<1>7. QED
  BY <1>1, <1>2, <1>3, <1>4, <1>5, <1>6 DEF Next

\* The pipeline implements the promise that no event is let go before the
\* server has it (sync_manager.py:11), step by step.
THEOREM PromiseIsKept == ~DebugMode => (Spec => KeepsPromise)
<1> SUFFICES ASSUME ~DebugMode PROVE Spec => KeepsPromise
  OBVIOUS
<1>1. Init => Promise!Init
  BY DEF Init, QueueInit, TransportInit, Promise!Init
<1>2. PipelineInv /\ [Next]_vars => [Promise!Next]_Promise!vars
  BY StepRefines
<1>3. QED
  BY <1>1, <1>2, PipelineCorrect, PTL DEF Spec, KeepsPromise, Promise!Spec

-----------------------------------------------------------------------------
(* Who changes the custody of a bundle, and what a thread has read of      *)
(* timed_out().  Nothing here depends on VTR_DEBUG.                        *)

LEMMA CustodyChanges ==
  ASSUME [Next]_vars
  PROVE  \/ UNCHANGED <<custody, payloadHash, acked>>
         \/ \E t \in Threads : TakeCustody(t) \/ Ack(t) \/ GiveUp(t)
<1> USE DEF custodyDb
<1>1. CASE \E t \in Threads : ThreadStep(t)
  <2>1. PICK t \in Threads : ThreadStep(t)
    BY <1>1
  <2>2. CASE TakeCustody(t) \/ Ack(t) \/ GiveUp(t)
    BY <2>2
  <2>3. CASE \/ LoopEnds(t) \/ CycleStarts(t) \/ ChannelDown(t) \/ CycleEnds(t)
             \/ ReadTimedOut(t) \/ PeekBatch(t) \/ SendSucceeds(t) \/ SendFails(t)
    BY <2>3 DEF LoopEnds, CycleStarts, ChannelDown, CycleEnds, ReadTimedOut, PeekBatch,
                SendSucceeds, SendFails
  <2>4. CASE \/ VerifyHash(t) \/ SafetyGate(t) \/ KeepInQueue(t) \/ ChannelHolds(t)
             \/ ChannelLost(t) \/ DeleteConfirmed(t) \/ AbortFlush(t)
    BY <2>4 DEF VerifyHash, SafetyGate, KeepInQueue, ChannelHolds, ChannelLost,
                DeleteConfirmed, AbortFlush
  <2>5. CASE RetryTimedOut(t) \/ CountFailure(t)
    BY <2>5 DEF RetryTimedOut, CountFailure, IncrementRetry
  <2>6. QED
    BY <2>1, <2>2, <2>3, <2>4, <2>5 DEF ThreadStep
<1>2. CASE \E t \in Threads : Start(t) \/ DatabaseError(t)
  BY <1>2 DEF Start, DatabaseError
<1>3. CASE \/ Stop \/ Crash \/ Network \/ ClearQueue \/ \E e \in Events : Submit(e)
           \/ \E k \in Keys : Overdue(k)
  BY <1>3 DEF Stop, Crash, Network, ClearQueue, Submit, Overdue, Expire
<1>4. CASE UNCHANGED vars
  BY <1>4 DEF vars
<1>5. QED
  BY <1>1, <1>2, <1>3, <1>4 DEF Next

LEMMA ReaperChanges ==
  ASSUME TypeOK, [Next]_vars, NEW t \in Threads
  PROVE  \/ /\ due'[t] = due[t] /\ doomed'[t] = doomed[t]
            /\ pc'[t] = pc[t] \/ pc[t] \notin {"retry", "fail"}
         \/ due'[t] = {} /\ doomed'[t] = NoKey
         \/ ReadTimedOut(t) \/ RetryTimedOut(t) \/ GiveUp(t)
<1> USE DEF TypeOK, threadVars, Goto, EndThread
<1>1. ASSUME NEW u \in Threads, ThreadStep(u)
      PROVE  \/ ReadTimedOut(u) \/ RetryTimedOut(u) \/ GiveUp(u)
             \/ /\ due' = due /\ doomed' = doomed
                /\ pc[u] \notin {"retry", "fail"}
                /\ \A v \in Threads : v # u => pc'[v] = pc[v]
             \/ LoopEnds(u)
  <2>1. CASE CycleStarts(u) \/ CycleEnds(u) \/ PeekBatch(u) \/ TakeCustody(u)
             \/ SendSucceeds(u) \/ VerifyHash(u)
    BY <2>1 DEF CycleStarts, CycleEnds, PeekBatch, TakeCustody, SendSucceeds, VerifyHash
  <2>2. CASE SendFails(u) \/ Ack(u) \/ SafetyGate(u) \/ CountFailure(u) \/ KeepInQueue(u)
    BY <2>2 DEF SendFails, Ack, SafetyGate, CountFailure, KeepInQueue
  <2>3. CASE ChannelHolds(u) \/ ChannelLost(u) \/ DeleteConfirmed(u) \/ AbortFlush(u)
             \/ ChannelDown(u)
    BY <2>3 DEF ChannelHolds, ChannelLost, DeleteConfirmed, AbortFlush, ChannelDown
  <2>4. QED
    BY <1>1, <2>1, <2>2, <2>3 DEF ThreadStep
<1>2. ASSUME NEW u \in Threads, ReadTimedOut(u) \/ RetryTimedOut(u) \/ GiveUp(u), u # t
      PROVE  due'[t] = due[t] /\ doomed'[t] = doomed[t] /\ pc'[t] = pc[t]
  <2>1. CASE ReadTimedOut(u)
    BY <1>2, <2>1 DEF ReadTimedOut
  <2>2. CASE RetryTimedOut(u)
    BY <1>2, <2>2 DEF RetryTimedOut
  <2>3. CASE GiveUp(u)
    BY <1>2, <2>3 DEF GiveUp
  <2>4. QED
    BY <1>2, <2>1, <2>2, <2>3
<1>3. ASSUME NEW u \in Threads, LoopEnds(u) \/ DatabaseError(u)
      PROVE  \/ due'[t] = due[t] /\ doomed'[t] = doomed[t] /\ pc'[t] = pc[t]
             \/ due'[t] = {} /\ doomed'[t] = NoKey
  BY <1>3 DEF LoopEnds, DatabaseError
<1>4. CASE \E u \in Threads : ThreadStep(u)
  <2>1. PICK u \in Threads : ThreadStep(u)
    BY <1>4
  <2>2. CASE u = t
    BY <1>1, <1>3, <2>1, <2>2
  <2>3. CASE u # t
    BY <1>1, <1>2, <1>3, <2>1, <2>3
  <2>4. QED
    BY <2>2, <2>3
<1>5. CASE \E u \in Threads : Start(u) \/ DatabaseError(u)
  BY <1>3, <1>5 DEF Start
<1>6. CASE Crash
  BY <1>6 DEF Crash
<1>7. CASE \/ Stop \/ Network \/ ClearQueue \/ \E e \in Events : Submit(e)
           \/ \E k \in Keys : Overdue(k)
  BY <1>7 DEF Stop, Network, ClearQueue, Submit, Overdue
<1>8. CASE UNCHANGED vars
  BY <1>8 DEF vars
<1>9. QED
  BY <1>4, <1>5, <1>6, <1>7, <1>8 DEF Next

LEMMA DueInReaperStep ==
  ASSUME TypeOK, DueInReaper, [Next]_vars
  PROVE  DueInReaper'
<1> SUFFICES ASSUME NEW t \in Threads
             PROVE  /\ due'[t] # {} => pc'[t] \in {"retry", "fail"}
                    /\ doomed'[t] \notin due'[t]
  BY DEF DueInReaper
<1>1. /\ due[t] # {} => pc[t] \in {"retry", "fail"}
      /\ doomed[t] \notin due[t]
      /\ pc[t] = "fail" <=> doomed[t] # NoKey
      /\ due[t] \subseteq Keys
  BY DEF DueInReaper, TypeOK
<1>2. CASE /\ due'[t] = due[t] /\ doomed'[t] = doomed[t]
           /\ pc'[t] = pc[t] \/ pc[t] \notin {"retry", "fail"}
  BY <1>1, <1>2
<1>3. CASE due'[t] = {} /\ doomed'[t] = NoKey
  BY <1>3
<1>4. CASE ReadTimedOut(t)
  <2>1. /\ due'[t] = TimedOut /\ doomed'[t] = NoKey /\ TimedOut \subseteq Keys
        /\ pc'[t] = IF TimedOut = {} THEN "peek" ELSE "retry"
    BY <1>1, <1>4 DEF ReadTimedOut, TimedOut, Goto, TypeOK, CustodyTypeOK
  <2>2. QED
    BY <2>1
<1>5. CASE RetryTimedOut(t)
  <2>1. PICK k \in due[t] :
          /\ due' = [due EXCEPT ![t] = @ \ {k}]
          /\ \/ doomed' = [doomed EXCEPT ![t] = k] /\ Goto(t, "fail")
             \/ UNCHANGED doomed /\ Goto(t, AfterRetry(due[t] \ {k}))
    BY <1>5 DEF RetryTimedOut
  <2>2. due'[t] = due[t] \ {k} /\ pc[t] = "retry"
    BY <1>5, <2>1 DEF TypeOK, RetryTimedOut
  <2>3. \/ doomed'[t] = k /\ pc'[t] = "fail"
        \/ doomed'[t] = NoKey /\ pc'[t] = AfterRetry(due'[t])
    BY <1>1, <2>1, <2>2 DEF TypeOK, Goto
  <2>4. QED
    BY <1>1, <2>2, <2>3 DEF AfterRetry
<1>6. CASE GiveUp(t)
  <2>1. due'[t] = due[t] /\ doomed'[t] = NoKey /\ pc'[t] = AfterRetry(due[t])
    BY <1>6 DEF GiveUp, Goto, TypeOK
  <2>2. QED
    BY <1>1, <2>1 DEF AfterRetry
<1>7. QED
  BY <1>2, <1>3, <1>4, <1>5, <1>6, ReaperChanges

LEMMA DueInReaperHolds == Spec => []DueInReaper
<1>1. Init => DueInReaper
  BY DEF Init, DueInReaper
<1>2. QED
  BY <1>1, DueInReaperStep, TypeCorrect, PTL DEF Spec

-----------------------------------------------------------------------------
(* The refinement of CustodyCallers: the hands of a thread are those of a  *)
(* caller, its list of timed_out() is that of a reaper.                    *)

HandsAre(t, label, key, event) ==
  /\ CallerPc' = [CallerPc EXCEPT ![t] = label]
  /\ CallerBundle' = [CallerBundle EXCEPT ![t] = key]
  /\ CallerSent' = [CallerSent EXCEPT ![t] = event]

\* One thread moves; the hands of the others stay what they are.
LEMMA HandsMove ==
  ASSUME TypeOK, NEW t \in Threads, NEW label \in Labels, Goto(t, label),
         \A u \in Threads : u # t => cur'[u] = cur[u]
  PROVE  HandsAre(t, CallerLabel(label),
                  IF CallerLabel(label) = "idle" THEN NoKey ELSE cur'[t].key,
                  IF CallerLabel(label) = "idle" THEN NoEvent ELSE cur'[t])
<1>1. \A u \in Threads : pc'[u] = IF u = t THEN label ELSE pc[u]
  BY DEF TypeOK, Goto
<1>2. CallerPc' = [u \in Threads |-> CallerLabel(pc'[u])]
  BY DEF CallerPc
<1>3. CallerPc' = [CallerPc EXCEPT ![t] = CallerLabel(label)]
  BY <1>1, <1>2 DEF CallerPc
<1>4. \A u \in Threads : /\ CallerPc'[u] = CallerLabel(pc'[u])
                         /\ CallerPc[u] = CallerLabel(pc[u])
  BY <1>2 DEF CallerPc
<1>5. \A u \in Threads : u # t => CallerPc'[u] = CallerPc[u]
  BY <1>1, <1>4
<1>6. CallerPc'[t] = CallerLabel(label)
  BY <1>1, <1>4
<1>7. CallerBundle' = [CallerBundle EXCEPT ![t] =
                         IF CallerLabel(label) = "idle" THEN NoKey ELSE cur'[t].key]
  BY <1>5, <1>6 DEF CallerBundle
<1>8. CallerSent' = [CallerSent EXCEPT ![t] =
                       IF CallerLabel(label) = "idle" THEN NoEvent ELSE cur'[t]]
  BY <1>5, <1>6 DEF CallerSent
<1>9. QED
  BY <1>3, <1>7, <1>8 DEF HandsAre

\* What the mapping reads is typed, and an idle caller has empty hands.
LEMMA Hands ==
  ASSUME TypeOK, NEW t \in Threads
  PROVE  /\ CallerPc[t] = CallerLabel(pc[t])
         /\ CallerPc[t] = "idle" => CallerBundle[t] = NoKey /\ CallerSent[t] = NoEvent
         /\ CallerPc[t] # "idle" => /\ CallerBundle[t] = cur[t].key /\ CallerSent[t] = cur[t]
                                    /\ cur[t] \in Events /\ cur[t].key \in Keys
<1>1. CallerPc[t] # "idle" => pc[t] \in InHand
  BY DEF CallerPc, CallerLabel, InHand
<1>2. QED
  BY <1>1 DEF TypeOK, CallerPc, CallerBundle, CallerSent, InHand, Keys

\* A thread that goes on with its event.
LEMMA HandsKeep ==
  ASSUME TypeOK, NEW t \in Threads, NEW label \in Labels, Goto(t, label), UNCHANGED cur,
         CallerLabel(pc[t]) # "idle", CallerLabel(label) # "idle"
  PROVE  Calls!Goto(t, CallerLabel(label)) /\ UNCHANGED <<CallerBundle, CallerSent>>
<1>1. HandsAre(t, CallerLabel(label), cur[t].key, cur[t])
  BY HandsMove DEF HandsAre
<1>2. CallerBundle[t] = cur[t].key /\ CallerSent[t] = cur[t]
  BY Hands
<1>3. CallerBundle' = CallerBundle /\ CallerSent' = CallerSent
  BY <1>1, <1>2 DEF HandsAre, CallerBundle, CallerSent
<1>4. QED
  BY <1>1, <1>3 DEF HandsAre, Calls!Goto

\* A thread that is done with it.
LEMMA HandsDrop ==
  ASSUME TypeOK, NEW t \in Threads, NEW label \in Labels, Goto(t, label),
         \A u \in Threads : u # t => cur'[u] = cur[u], CallerLabel(label) = "idle"
  PROVE  /\ Calls!Finish(t)
         /\ CallerLabel(pc[t]) = "idle" => UNCHANGED <<CallerPc, CallerBundle, CallerSent>>
<1>1. HandsAre(t, "idle", NoKey, NoEvent)
  BY HandsMove DEF HandsAre
<1>2. ASSUME CallerLabel(pc[t]) = "idle"
      PROVE  UNCHANGED <<CallerPc, CallerBundle, CallerSent>>
  <2>1. CallerPc[t] = "idle" /\ CallerBundle[t] = NoKey /\ CallerSent[t] = NoEvent
    BY <1>2, Hands
  <2>2. CallerPc' = CallerPc
    BY <1>1, <2>1 DEF HandsAre, CallerPc
  <2>3. CallerBundle' = CallerBundle /\ CallerSent' = CallerSent
    BY <1>1, <2>1 DEF HandsAre, CallerBundle, CallerSent
  <2>4. QED
    BY <2>2, <2>3
<1>3. QED
  BY <1>1, <1>2 DEF HandsAre, Calls!Finish, Calls!Goto

\* Nobody moves.
LEMMA HandsRest ==
  ASSUME UNCHANGED <<pc, cur>>
  PROVE  UNCHANGED <<CallerPc, CallerBundle, CallerSent>>
BY DEF CallerPc, CallerBundle, CallerSent

\* The goal of each of the lemmas that follow.
OneCall == [Calls!Next]_Calls!vars

\* Everything CustodyCallers looks at.
Watched == <<custody, payloadHash, acked, retries, overdue, due, doomed, faults>>

\* A step that moves no hands and touches nothing of custody.db and the reaper.
LEMMA NoCall ==
  ASSUME UNCHANGED Watched, UNCHANGED <<CallerPc, CallerBundle, CallerSent>>
  PROVE  OneCall
BY DEF OneCall, Watched, HandedOver, Calls!vars, Calls!custodyVars, Calls!callerVars,
       Calls!reaperVars

\* A fault that ends the threads of S.
LEMMA DieCalls ==
  ASSUME TypeOK, NEW S \in SUBSET Threads, faults < MaxFaults, faults' = faults + 1,
         UNCHANGED <<custody, payloadHash, acked, retries, overdue>>,
         CallerPc' = [t \in Threads |-> IF t \in S THEN "idle" ELSE CallerPc[t]],
         CallerBundle' = [t \in Threads |-> IF t \in S THEN NoKey ELSE CallerBundle[t]],
         CallerSent' = [t \in Threads |-> IF t \in S THEN NoEvent ELSE CallerSent[t]],
         due' = [t \in Threads |-> IF t \in S THEN {} ELSE due[t]],
         doomed' = [t \in Threads |-> IF t \in S THEN NoKey ELSE doomed[t]]
  PROVE  OneCall
<1>1. HandedOver' = HandedOver
  BY DEF HandedOver
<1>2. Calls!Die(S, S)
  BY <1>1 DEF Calls!Die, Calls!custodyVars
<1>3. QED
  BY <1>2 DEF OneCall, Calls!Next

\* ... and one that ends none.
LEMMA FaultCalls ==
  ASSUME TypeOK, faults < MaxFaults, faults' = faults + 1,
         UNCHANGED <<custody, payloadHash, acked, retries, overdue, due, doomed>>,
         UNCHANGED <<CallerPc, CallerBundle, CallerSent>>
  PROVE  OneCall
<1>1. {} \in SUBSET Threads
  OBVIOUS
<1>2. /\ CallerPc = [t \in Threads |-> CallerPc[t]]
      /\ CallerBundle = [t \in Threads |-> CallerBundle[t]]
      /\ CallerSent = [t \in Threads |-> CallerSent[t]]
  BY DEF CallerPc, CallerBundle, CallerSent
<1>3. due = [t \in Threads |-> due[t]] /\ doomed = [t \in Threads |-> doomed[t]]
  BY DEF TypeOK
<1>4. QED
  BY <1>1, <1>2, <1>3, DieCalls

LEMMA TakeCalls ==
  ASSUME TypeOK, NEW t \in Threads, TakeCustody(t)
  PROVE  OneCall
<1>1. PICK e \in batch[t] : Grant(e.key, e) /\ cur' = [cur EXCEPT ![t] = e]
  BY DEF TakeCustody
<1>2. e \in Events /\ e.key \in Keys
  BY DEF TypeOK, Keys
<1>3. pc[t] = "grant" /\ Goto(t, "send") /\ UNCHANGED <<acked, due, doomed, faults>>
  BY <1>1 DEF TakeCustody, Grant, transportVars
<1>4. HandsAre(t, "sending", e.key, e)
  <2>1. cur'[t] = e /\ \A u \in Threads : u # t => cur'[u] = cur[u]
    BY <1>1 DEF TypeOK
  <2>2. "send" \in Labels /\ CallerLabel("send") = "sending"
    BY DEF Labels, CallerLabel
  <2>3. QED
    BY <1>3, <2>1, <2>2, HandsMove DEF HandsAre
<1>5. CallerPc[t] = "idle"
  BY <1>3, Hands DEF CallerLabel
<1>6. Calls!Take(t, e.key, e)
  BY <1>1, <1>3, <1>4, <1>5
     DEF Grant, HandsAre, HandedOver, Calls!Take, Calls!Grant, Calls!Goto, Calls!reaperVars
<1>7. QED
  BY <1>2, <1>6 DEF OneCall, Calls!Next, Calls!CallerStep

\* Every send() that fails is a fault of the network, or of one that was down already.
LEMMA SendCalls ==
  ASSUME TypeOK, NEW t \in Threads, SendSucceeds(t) \/ SendFails(t)
  PROVE  OneCall
<1>1. pc[t] = "send" /\ UNCHANGED <<custody, payloadHash, acked, retries, overdue, due, doomed, cur>>
  BY DEF SendSucceeds, SendFails, custodyDb
<1>2. CallerPc[t] = "sending"
  BY <1>1, Hands DEF CallerLabel
<1>3. HandedOver' = HandedOver
  BY <1>1 DEF HandedOver
<1>4. CASE SendSucceeds(t)
  <2>1. Calls!Goto(t, "verify") /\ UNCHANGED <<CallerBundle, CallerSent>>
    BY <1>1, <1>4, HandsKeep DEF SendSucceeds, CallerLabel, Labels
  <2>2. Calls!SendSucceeds(t)
    BY <1>1, <1>2, <1>3, <1>4, <2>1
       DEF SendSucceeds, PostSucceeds, Calls!SendSucceeds, Calls!custodyVars, Calls!reaperVars
  <2>3. QED
    BY <2>2 DEF OneCall, Calls!Next, Calls!CallerStep
<1>5. CASE SendFails(t)
  <2>1. UNCHANGED <<CallerPc, CallerBundle, CallerSent>>
    <3>1. CASE UNCHANGED pc
      BY <1>1, <3>1, HandsRest
    <3>2. CASE Goto(t, "count")
      <4>1. Calls!Goto(t, "sending") /\ UNCHANGED <<CallerBundle, CallerSent>>
        BY <1>1, <3>2, HandsKeep DEF CallerLabel, Labels
      <4>2. CallerPc' = CallerPc
        BY <1>2, <4>1 DEF Calls!Goto, CallerPc
      <4>3. QED
        BY <4>1, <4>2
    <3>3. QED
      BY <1>5, <3>1, <3>2 DEF SendFails
  <2>2. CASE faults' = faults
    BY <1>1, <2>1, <2>2, NoCall DEF Watched
  <2>3. CASE faults < MaxFaults /\ faults' = faults + 1
    BY <1>1, <2>1, <2>3, FaultCalls
  <2>4. QED
    BY <1>5, <2>2, <2>3 DEF SendFails, PostFails, Fault, transportVars
<1>6. QED
  BY <1>4, <1>5

\* ack() is called only with the hash of the row.
LEMMA VerifyCalls ==
  ASSUME TypeOK, NEW t \in Threads, VerifyHash(t)
  PROVE  OneCall
<1>1. /\ pc[t] = "verify"
      /\ UNCHANGED <<custody, payloadHash, acked, retries, overdue, due, doomed, faults, cur>>
  BY DEF VerifyHash, custodyDb, transportVars
<1>2. /\ CallerPc[t] = "verify"
      /\ CallerBundle[t] = cur[t].key /\ CallerSent[t] = cur[t]
  BY <1>1, Hands DEF CallerLabel
<1>3. HandedOver' = HandedOver
  BY <1>1 DEF HandedOver
<1>4. HashMatches(cur[t].key, cur[t]) <=> Calls!HashMatches(CallerBundle[t], CallerSent[t])
  BY <1>2 DEF HashMatches, Calls!HashMatches
<1>5. CASE HashMatches(cur[t].key, cur[t])
  <2>1. Calls!Goto(t, "ack") /\ UNCHANGED <<CallerBundle, CallerSent>>
    BY <1>1, <1>5, HandsKeep DEF VerifyHash, CallerLabel, Labels
  <2>2. Calls!VerifyHash(t)
    BY <1>1, <1>2, <1>3, <1>4, <1>5, <2>1
       DEF Calls!VerifyHash, Calls!custodyVars, Calls!reaperVars
  <2>3. QED
    BY <2>2 DEF OneCall, Calls!Next, Calls!CallerStep
<1>6. CASE ~HashMatches(cur[t].key, cur[t])
  <2>1. Calls!Finish(t)
    BY <1>1, <1>6, HandsDrop DEF VerifyHash, CallerLabel, Labels
  <2>2. Calls!VerifyHash(t)
    BY <1>1, <1>2, <1>3, <1>4, <1>6, <2>1
       DEF Calls!VerifyHash, Calls!custodyVars, Calls!reaperVars
  <2>3. QED
    BY <2>2 DEF OneCall, Calls!Next, Calls!CallerStep
<1>7. QED
  BY <1>5, <1>6

\* The one ack() of a row that works sets its acked_at.
LEMMA AckCalls ==
  ASSUME TypeOK, UnackedIsOpen, NEW t \in Threads, Ack(t)
  PROVE  OneCall
<1> DEFINE k == cur[t].key
<1>1. pc[t] = "ack" /\ AckUpdate(k) /\ UNCHANGED <<due, doomed, faults, cur>>
  BY DEF Ack, transportVars
<1>2. CallerPc[t] = "ack" /\ CallerBundle[t] = k /\ k \in Keys
  BY <1>1, Hands DEF CallerLabel
<1>3. HandOverWorks(k) <=> Calls!HandOverWorks(CallerBundle[t])
  BY <1>2 DEF HandOverWorks, Calls!HandOverWorks
<1>4. Calls!AckUpdate(CallerBundle[t])
  BY <1>1, <1>2, <1>3 DEF AckUpdate, HandOver, Calls!AckUpdate, Calls!HandOver
<1>5. Calls!Won(CallerBundle[t])
  <2>1. CASE HandOverWorks(k)
    <3>1. acked' = acked \cup {k} /\ k \notin acked
      BY <1>1, <2>1 DEF AckUpdate, HandOverWorks, UnackedIsOpen
    <3>2. HandedOver' = [HandedOver EXCEPT ![k] = HandedOver[k] + 1]
      BY <1>2, <3>1 DEF HandedOver
    <3>3. QED
      BY <1>2, <1>3, <2>1, <3>2 DEF Calls!Won
  <2>2. CASE ~HandOverWorks(k)
    BY <1>1, <1>3, <2>2 DEF AckUpdate, HandedOver, Calls!Won
  <2>3. QED
    BY <2>1, <2>2
<1>6. CASE HandOverWorks(k)
  <2>1. Calls!Goto(t, "gate") /\ UNCHANGED <<CallerBundle, CallerSent>>
    BY <1>1, <1>6, HandsKeep DEF Ack, CallerLabel, Labels
  <2>2. Calls!Ack(t)
    BY <1>1, <1>2, <1>3, <1>4, <1>5, <1>6, <2>1 DEF Calls!Ack, Calls!reaperVars
  <2>3. QED
    BY <2>2 DEF OneCall, Calls!Next, Calls!CallerStep
<1>7. CASE ~HandOverWorks(k)
  <2>1. Calls!Finish(t)
    BY <1>1, <1>7, HandsDrop DEF Ack, CallerLabel, Labels
  <2>2. Calls!Ack(t)
    BY <1>1, <1>2, <1>3, <1>4, <1>5, <1>7, <2>1 DEF Calls!Ack, Calls!reaperVars
  <2>3. QED
    BY <2>2 DEF OneCall, Calls!Next, Calls!CallerStep
<1>8. QED
  BY <1>6, <1>7

\* The answer of the gate, and the retry of a send that failed, end the work on a bundle.
LEMMA LeaveCalls ==
  ASSUME TypeOK, NEW t \in Threads, SafetyGate(t) \/ CountFailure(t)
  PROVE  OneCall
<1>1. UNCHANGED <<due, doomed, faults, cur, acked>>
  BY DEF SafetyGate, CountFailure, IncrementRetry, transportVars, custodyDb
<1>2. HandedOver' = HandedOver
  BY <1>1 DEF HandedOver
<1>3. CASE SafetyGate(t)
  <2>1. pc[t] = "gate" /\ UNCHANGED <<custody, payloadHash, retries, overdue>>
    BY <1>3 DEF SafetyGate, custodyDb
  <2>2. PICK label \in {"channel", "mark"} : Goto(t, label)
    BY <1>3 DEF SafetyGate
  <2>3. label \in Labels /\ CallerLabel(label) = "idle"
    BY DEF Labels, CallerLabel
  <2>4. Calls!Finish(t)
    BY <1>1, <2>2, <2>3, HandsDrop
  <2>5. CallerPc[t] = "gate"
    BY <2>1, Hands DEF CallerLabel
  <2>6. Calls!Gate(t)
    BY <1>1, <1>2, <2>1, <2>4, <2>5 DEF Calls!Gate, Calls!custodyVars, Calls!reaperVars
  <2>7. QED
    BY <2>6 DEF OneCall, Calls!Next, Calls!CallerStep
<1>4. CASE CountFailure(t)
  <2>1. pc[t] = "count" /\ IncrementRetry(cur[t].key) /\ Goto(t, "mark")
    BY <1>4 DEF CountFailure
  <2>2. CallerPc[t] = "sending" /\ CallerBundle[t] = cur[t].key
    BY <2>1, Hands DEF CallerLabel
  <2>3. Calls!Finish(t)
    BY <1>1, <2>1, HandsDrop DEF CallerLabel, Labels
  <2>4. Calls!IncrementRetry(CallerBundle[t])
    BY <2>1, <2>2 DEF IncrementRetry, NewRetries, RetryCap, Calls!IncrementRetry,
                      Calls!NewRetries, Calls!RetryCap
  <2>5. Calls!SendFails(t)
    BY <1>1, <1>2, <2>2, <2>3, <2>4 DEF Calls!SendFails, Calls!reaperVars
  <2>6. QED
    BY <2>5 DEF OneCall, Calls!Next, Calls!CallerStep
<1>5. QED
  BY <1>3, <1>4

\* The reaper: it reads its list only when it has none, and marks FAILED only what it
\* has retried too often.
LEMMA ReaperCalls ==
  ASSUME TypeOK, DueInReaper, NEW t \in Threads,
         ReadTimedOut(t) \/ RetryTimedOut(t) \/ GiveUp(t)
  PROVE  OneCall
<1>1. UNCHANGED <<acked, payloadHash, faults, cur>>
  BY DEF ReadTimedOut, RetryTimedOut, GiveUp, IncrementRetry, MarkFailed, transportVars,
         custodyDb
<1>2. HandedOver' = HandedOver
  BY <1>1 DEF HandedOver
<1>3. UNCHANGED <<CallerPc, CallerBundle, CallerSent>>
  <2>1. CallerLabel(pc[t]) = "idle"
    BY DEF ReadTimedOut, RetryTimedOut, GiveUp, CallerLabel
  <2>2. PICK label \in {"peek", "retry", "fail"} : Goto(t, label)
    BY DEF ReadTimedOut, RetryTimedOut, GiveUp, AfterRetry
  <2>3. label \in Labels /\ CallerLabel(label) = "idle"
    BY DEF Labels, CallerLabel
  <2>4. QED
    BY <1>1, <2>1, <2>2, <2>3, HandsDrop
<1>4. Calls!callerVars' = Calls!callerVars
  BY <1>3 DEF Calls!callerVars
<1>5. TimedOut = Calls!TimedOut
  BY DEF TimedOut, Calls!TimedOut
<1>6. CASE ReadTimedOut(t)
  <2>1. /\ due[t] = {} /\ doomed[t] = NoKey
        /\ due' = [due EXCEPT ![t] = TimedOut]
        /\ UNCHANGED <<custody, payloadHash, acked, retries, overdue, doomed>>
    BY <1>6 DEF ReadTimedOut, DueInReaper, TypeOK, custodyDb
  <2>2. CASE TimedOut = {}
    <3>1. due' = due
      BY <2>1, <2>2 DEF TypeOK
    <3>2. QED
      BY <1>1, <1>3, <2>1, <3>1, NoCall DEF Watched
  <2>3. CASE TimedOut # {}
    <3>1. Calls!Scan(t)
      BY <1>1, <1>2, <1>4, <1>5, <2>1, <2>3 DEF Calls!Scan, Calls!custodyVars
    <3>2. QED
      BY <3>1 DEF OneCall, Calls!Next, Calls!ReaperStep
  <2>4. QED
    BY <2>2, <2>3
<1>7. CASE RetryTimedOut(t)
  <2>1. PICK k \in due[t] :
          /\ IncrementRetry(k)
          /\ due' = [due EXCEPT ![t] = @ \ {k}]
          /\ doomed' = IF custody[k] # "NONE" /\ NewRetries(k) > MaxAttempts
                       THEN [doomed EXCEPT ![t] = k] ELSE doomed
    BY <1>7 DEF RetryTimedOut
  <2>2. k \in Keys /\ doomed[t] = NoKey
    BY <1>7 DEF RetryTimedOut, TypeOK
  <2>3. Calls!IncrementRetry(k) /\ Calls!NewRetries(k) = NewRetries(k)
    BY <2>1 DEF IncrementRetry, NewRetries, RetryCap, Calls!IncrementRetry,
                Calls!NewRetries, Calls!RetryCap
  <2>4. Calls!Retry(t, k)
    BY <1>1, <1>2, <1>4, <2>1, <2>2, <2>3 DEF Calls!Retry
  <2>5. QED
    BY <2>2, <2>4 DEF OneCall, Calls!Next, Calls!ReaperStep
<1>8. CASE GiveUp(t)
  <2>1. /\ doomed[t] # NoKey /\ MarkFailed(doomed[t]) /\ due' = due
        /\ doomed' = [doomed EXCEPT ![t] = NoKey]
    BY <1>8 DEF GiveUp, TypeOK
  <2>2. Calls!MarkFailed(doomed[t])
    BY <2>1 DEF MarkFailed, Calls!MarkFailed
  <2>3. Calls!Fail(t)
    BY <1>1, <1>2, <1>4, <2>1, <2>2 DEF Calls!Fail
  <2>4. QED
    BY <2>3 DEF OneCall, Calls!Next, Calls!ReaperStep
<1>9. QED
  BY <1>6, <1>7, <1>8

\* The other steps of a thread are none of the custody manager's.
LEMMA OtherCalls ==
  ASSUME TypeOK, DueInReaper, NEW t \in Threads,
         \/ LoopEnds(t) \/ CycleStarts(t) \/ ChannelDown(t) \/ CycleEnds(t) \/ PeekBatch(t)
         \/ KeepInQueue(t) \/ ChannelHolds(t) \/ ChannelLost(t)
         \/ DeleteConfirmed(t) \/ AbortFlush(t) \/ Start(t)
  PROVE  OneCall
<1>1. UNCHANGED <<custody, payloadHash, acked, retries, overdue, faults>>
  BY DEF LoopEnds, CycleStarts, ChannelDown, CycleEnds, PeekBatch, KeepInQueue, ChannelHolds,
         ChannelLost, DeleteConfirmed, AbortFlush, Start, custodyDb, transportVars
<1>2. CASE ChannelDown(t)
  <2>1. UNCHANGED <<pc, cur, due, doomed>>
    BY <1>2 DEF ChannelDown, threadVars
  <2>2. QED
    BY <1>1, <2>1, HandsRest, NoCall DEF Watched
<1>3. CASE LoopEnds(t)
  <2>1. /\ pc[t] = "loop" /\ Goto(t, "idle")
        /\ cur' = [cur EXCEPT ![t] = NoEvent]
        /\ due' = [due EXCEPT ![t] = {}] /\ doomed' = [doomed EXCEPT ![t] = NoKey]
    BY <1>3 DEF LoopEnds, EndThread
  <2>2. \A u \in Threads : u # t => cur'[u] = cur[u]
    BY <2>1 DEF TypeOK
  <2>3. UNCHANGED <<CallerPc, CallerBundle, CallerSent>>
    BY <2>1, <2>2, HandsDrop DEF CallerLabel, Labels
  <2>4. due[t] = {} /\ doomed[t] = NoKey
    BY <2>1 DEF DueInReaper, TypeOK
  <2>5. UNCHANGED <<due, doomed>>
    BY <2>1, <2>4 DEF TypeOK
  <2>6. QED
    BY <1>1, <2>3, <2>5, NoCall DEF Watched
<1>4. CASE \/ CycleStarts(t) \/ CycleEnds(t) \/ PeekBatch(t) \/ KeepInQueue(t)
           \/ ChannelHolds(t) \/ ChannelLost(t) \/ DeleteConfirmed(t) \/ AbortFlush(t)
           \/ Start(t)
  <2>1. UNCHANGED <<due, doomed>> /\ CallerLabel(pc[t]) = "idle"
    BY <1>4 DEF CycleStarts, CycleEnds, PeekBatch, KeepInQueue, ChannelHolds, ChannelLost,
                DeleteConfirmed, AbortFlush, Start, CallerLabel
  <2>2. PICK label \in Labels : Goto(t, label) /\ CallerLabel(label) = "idle"
    BY <1>4 DEF CycleStarts, CycleEnds, PeekBatch, KeepInQueue, ChannelHolds, ChannelLost,
                DeleteConfirmed, AbortFlush, Start, AfterEvent, Labels, CallerLabel
  <2>3. \A u \in Threads : u # t => cur'[u] = cur[u]
    BY <1>4 DEF CycleStarts, CycleEnds, PeekBatch, KeepInQueue, ChannelHolds, ChannelLost,
                DeleteConfirmed, AbortFlush, Start, TypeOK
  <2>4. UNCHANGED <<CallerPc, CallerBundle, CallerSent>>
    BY <2>1, <2>2, <2>3, HandsDrop
  <2>5. QED
    BY <1>1, <2>1, <2>4, NoCall DEF Watched
<1>5. QED
  BY <1>2, <1>3, <1>4

\* A crash ends all the threads, an exception of sqlite3 one of them.
LEMMA EndCalls ==
  ASSUME TypeOK, Crash \/ \E t \in Threads : DatabaseError(t)
  PROVE  OneCall
<1>1. /\ UNCHANGED <<custody, payloadHash, acked, retries, overdue>>
      /\ faults < MaxFaults /\ faults' = faults + 1
  BY DEF Crash, DatabaseError, Fault, custodyDb
<1>2. PICK S \in SUBSET Threads : \A t \in Threads :
        /\ t \in S => /\ pc'[t] = "idle" /\ cur'[t] = NoEvent
                      /\ due'[t] = {} /\ doomed'[t] = NoKey
        /\ t \notin S => /\ pc'[t] = pc[t] /\ cur'[t] = cur[t]
                         /\ due'[t] = due[t] /\ doomed'[t] = doomed[t]
  <2>1. CASE Crash
    <3>1. Threads \in SUBSET Threads
      OBVIOUS
    <3>2. QED
      BY <2>1, <3>1 DEF Crash
  <2>2. ASSUME NEW u \in Threads, DatabaseError(u)
        PROVE  \A t \in Threads :
                 /\ t \in {u} => /\ pc'[t] = "idle" /\ cur'[t] = NoEvent
                                 /\ due'[t] = {} /\ doomed'[t] = NoKey
                 /\ t \notin {u} => /\ pc'[t] = pc[t] /\ cur'[t] = cur[t]
                                    /\ due'[t] = due[t] /\ doomed'[t] = doomed[t]
    BY <2>2 DEF DatabaseError, EndThread, Goto, TypeOK
  <2>3. QED
    BY <2>1, <2>2
<1>3. due' \in [Threads -> SUBSET Keys] /\ doomed' \in [Threads -> Keys \cup {NoKey}]
  BY DEF Crash, DatabaseError, EndThread, TypeOK
<1>4. CallerLabel("idle") = "idle"
  BY DEF CallerLabel
<1>5. CallerPc' = [t \in Threads |-> IF t \in S THEN "idle" ELSE CallerPc[t]]
  BY <1>2, <1>4 DEF CallerPc
<1>6. \A t \in Threads : CallerPc'[t] = IF t \in S THEN "idle" ELSE CallerPc[t]
  BY <1>5
<1>7. CallerBundle' = [t \in Threads |-> IF t \in S THEN NoKey ELSE CallerBundle[t]]
  BY <1>2, <1>6 DEF CallerBundle
<1>8. CallerSent' = [t \in Threads |-> IF t \in S THEN NoEvent ELSE CallerSent[t]]
  BY <1>2, <1>6 DEF CallerSent
<1>9. /\ due' = [t \in Threads |-> IF t \in S THEN {} ELSE due[t]]
      /\ doomed' = [t \in Threads |-> IF t \in S THEN NoKey ELSE doomed[t]]
  BY <1>2, <1>3
<1>10. QED
  BY <1>1, <1>5, <1>7, <1>8, <1>9, DieCalls

\* The producers, the operator, the network and the clock.
LEMMA OutsideCalls ==
  ASSUME TypeOK, \/ \E e \in Events : Submit(e)
                 \/ ClearQueue \/ Stop \/ Network \/ UNCHANGED vars
                 \/ \E k \in Keys : Overdue(k)
  PROVE  OneCall
<1>1. UNCHANGED <<pc, cur, due, doomed>>
  BY DEF Submit, ClearQueue, Stop, Network, Overdue, threadVars, vars
<1>2. UNCHANGED <<CallerPc, CallerBundle, CallerSent>>
  BY <1>1, HandsRest
<1>3. CASE \E k \in Keys : Overdue(k)
  <2>1. PICK k \in Keys : Overdue(k)
    BY <1>3
  <2>2. Calls!Expire(k) /\ faults' = faults /\ acked' = acked
    BY <2>1 DEF Overdue, Expire, Calls!Expire, transportVars
  <2>3. Calls!Overdue(k)
    BY <1>1, <1>2, <2>2 DEF HandedOver, Calls!Overdue, Calls!callerVars, Calls!reaperVars
  <2>4. QED
    BY <2>3 DEF OneCall, Calls!Next
<1>4. CASE UNCHANGED custodyDb
  <2>1. CASE UNCHANGED faults
    BY <1>1, <1>2, <1>4, <2>1, NoCall DEF Watched, custodyDb
  <2>2. CASE faults < MaxFaults /\ faults' = faults + 1
    BY <1>1, <1>2, <1>4, <2>2, FaultCalls DEF custodyDb
  <2>3. QED
    BY <1>3, <2>1, <2>2
       DEF Submit, ClearQueue, Stop, Network, LinkDown, LinkUp, Fault, transportVars, vars
<1>5. QED
  BY <1>3, <1>4 DEF Submit, ClearQueue, Stop, Network, vars

LEMMA UnackedIsOpenStep ==
  ASSUME TypeOK, UnackedIsOpen, [Next]_vars
  PROVE  UnackedIsOpen'
<1>0. acked \subseteq Keys
  BY DEF TypeOK, CustodyTypeOK
<1>1. CASE UNCHANGED <<custody, acked>>
  BY <1>1 DEF UnackedIsOpen
<1>2. ASSUME NEW t \in Threads, TakeCustody(t) PROVE UnackedIsOpen'
  BY <1>0, <1>2 DEF TakeCustody, Grant, UnackedIsOpen, TypeOK, CustodyTypeOK
<1>3. ASSUME NEW t \in Threads, Ack(t) PROVE UnackedIsOpen'
  <2>1. cur[t].key \in Keys
    BY <1>3, Hands DEF Ack, CallerLabel
  <2>2. QED
    BY <1>0, <1>3, <2>1
       DEF Ack, AckUpdate, HandOver, HandOverWorks, UnackedIsOpen, TypeOK, CustodyTypeOK
<1>4. ASSUME NEW t \in Threads, GiveUp(t) PROVE UnackedIsOpen'
  BY <1>0, <1>4 DEF GiveUp, MarkFailed, UnackedIsOpen, TypeOK, CustodyTypeOK
<1>5. QED
  BY <1>1, <1>2, <1>3, <1>4, CustodyChanges

LEMMA CallsStep ==
  ASSUME TypeOK, DueInReaper, UnackedIsOpen, [Next]_vars
  PROVE  OneCall
<1>1. ASSUME NEW t \in Threads, ThreadStep(t)
      PROVE  OneCall
  <2>1. CASE TakeCustody(t)
    BY <2>1, TakeCalls
  <2>2. CASE SendSucceeds(t) \/ SendFails(t)
    BY <2>2, SendCalls
  <2>3. CASE VerifyHash(t) \/ Ack(t)
    BY <2>3, VerifyCalls, AckCalls
  <2>4. CASE SafetyGate(t) \/ CountFailure(t)
    BY <2>4, LeaveCalls
  <2>5. CASE ReadTimedOut(t) \/ RetryTimedOut(t) \/ GiveUp(t)
    BY <2>5, ReaperCalls
  <2>6. QED
    BY <1>1, <2>1, <2>2, <2>3, <2>4, <2>5, OtherCalls DEF ThreadStep
<1>2. QED
  BY <1>1, OtherCalls, EndCalls, OutsideCalls DEF Next

\* The sync manager is a user of the custody manager as CustodyCallers describes them,
\* with any number of threads that overlap, die and lose their answers: grant() before
\* send(), send() before ack(), ack() with the hash of the row (sync_manager.py:222).
THEOREM CustodyIsUsedInOrder == Spec => CallsInOrder
<1>1. Init => Calls!Init
  <2> SUFFICES ASSUME Init PROVE Calls!Init
    OBVIOUS
  <2>1. Calls!CustodyInit /\ faults = 0 /\ HandedOver = [k \in Keys |-> 0]
    BY DEF Init, CustodyInit, TransportInit, HandedOver, Calls!CustodyInit
  <2>2. /\ CallerPc = [t \in Threads |-> "idle"]
        /\ CallerBundle = [t \in Threads |-> NoKey]
        /\ CallerSent = [t \in Threads |-> NoEvent]
    BY DEF Init, CallerPc, CallerLabel, CallerBundle, CallerSent
  <2>3. QED
    BY <2>1, <2>2 DEF Init, Calls!Init
<1>2. Init => UnackedIsOpen
  BY DEF Init, CustodyInit, UnackedIsOpen
<1>3. Spec => []UnackedIsOpen
  BY <1>2, UnackedIsOpenStep, TypeCorrect, PTL DEF Spec
<1>4. TypeOK /\ DueInReaper /\ UnackedIsOpen /\ [Next]_vars => [Calls!Next]_Calls!vars
  BY CallsStep DEF OneCall
<1>5. QED
  BY <1>1, <1>3, <1>4, TypeCorrect, DueInReaperHolds, PTL DEF Spec, CallsInOrder, Calls!Spec
=============================================================================
