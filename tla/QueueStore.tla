----------------------------- MODULE QueueStore -----------------------------
(***************************************************************************)
(* The persistent event queue of the RPi (rpi/queue_store.py): the SQLite  *)
(* table offline_queue and the transactions QueueStore runs on it.  Each   *)
(* operator is one transaction and so one atomic step of whoever calls it; *)
(* the table survives a restart of the process.                            *)
(*                                                                         *)
(* An event is a record [key, at, data]: its idempotency key, its          *)
(* timestamp and its content.  queued_at is the clock of the client that   *)
(* sent it, so "at" is a property of the event and not of the moment it    *)
(* was enqueued.                                                           *)
(***************************************************************************)
EXTENDS Naturals, FiniteSets

CONSTANTS Events,     \* the events the producers may send
          BatchSize,  \* flush_batch_size, the LIMIT of peek()
          AttemptCap  \* attempts saturates here; the code only logs it

Keys == {e.key : e \in Events}

ASSUME QueueAssumption ==
  /\ \A e \in Events : e.at \in Nat
  /\ BatchSize \in Nat \ {0}
  /\ AttemptCap \in Nat

VARIABLES queue,     \* the rows of offline_queue
          attempts   \* the attempts column, 0 for a key with no row

queueVars == <<queue, attempts>>

QueueTypeOK == /\ queue \subseteq Events
               /\ attempts \in [Keys -> 0 .. AttemptCap]

QueueInit == /\ queue = {}
             /\ attempts = [k \in Keys |-> 0]

HasRow(k) == \E e \in queue : e.key = k

-----------------------------------------------------------------------------
\* enqueue(): INSERT OR IGNORE on the unique idempotency_key.
Enqueue(e) == /\ queue' = IF HasRow(e.key) THEN queue ELSE queue \cup {e}
              /\ UNCHANGED attempts

\* peek(limit): the oldest BatchSize rows by queued_at, all of them when there
\* are fewer.  Rows with the same timestamp come in an unspecified order.
Batches == {B \in SUBSET queue :
              /\ \/ Cardinality(B) = BatchSize
                 \/ B = queue /\ Cardinality(queue) < BatchSize
              /\ \A e \in B, f \in queue \ B : e.at <= f.at}

\* ack_batch(): one DELETE for all the keys.
AckBatch(ks) == /\ queue' = {e \in queue : e.key \notin ks}
                /\ attempts' = [k \in Keys |-> IF k \in ks THEN 0 ELSE attempts[k]]

\* mark_attempt(): an UPDATE, without effect when the row is gone.
MarkAttempt(k) ==
  /\ attempts' = IF HasRow(k) /\ attempts[k] < AttemptCap
                 THEN [attempts EXCEPT ![k] = @ + 1]
                 ELSE attempts
  /\ UNCHANGED queue

\* clear(): the DELETE without WHERE behind DELETE /queue.
Clear == /\ queue' = {}
         /\ attempts' = [k \in Keys |-> 0]
=============================================================================
