---------------------------- MODULE SyncManager -----------------------------
(***************************************************************************)
(* The delivery pipeline of the RPi (rpi/sync_manager.py with the proxy of *)
(* rpi/proxy.py in front of it): producers POST events, the proxy stores   *)
(* them in queue.db, and a background thread sends them to the central     *)
(* server under custody and deletes the ones whose custody is complete.    *)
(*                                                                         *)
(* Every SQL transaction and every network call of the thread is a step of *)
(* its own, so producers, a second thread, the network and a crash come in *)
(* between.  The thread's local variables are lost in a crash, the two     *)
(* databases are not.                                                      *)
(*                                                                         *)
(* "Threads" are slots for sync threads.  The proxy starts one; but stop() *)
(* returns after at most ten seconds even if the thread has not ended, and *)
(* a later start() clears the stop event, so the old thread goes on beside *)
(* the new one.  With one slot that does not happen.                       *)
(***************************************************************************)
EXTENDS QueueStore, Transport

CONSTANTS Threads,
          NoEvent,      \* no event in a thread's hands
          NoKey,        \* no bundle about to be marked FAILED
          MaxAttempts,  \* max_attempts_before_dead
          MaxRetries,   \* max_retries of the transport
          Resubmits,    \* whether producers send a key again
          DebugMode     \* VTR_DEBUG

ASSUME SyncAssumption == /\ NoEvent \notin Events
                         /\ NoKey \notin Keys
                         /\ MaxAttempts \in Nat
                         /\ MaxRetries \in Nat
                         /\ Resubmits \in BOOLEAN
                         /\ DebugMode \in BOOLEAN

VARIABLES custody, payloadHash, acked, retries, overdue  \* custody.db

\* A bundle is known by its event's key, and the hashed payload holds the key,
\* the timestamp and the data: the hash of an event is the event itself.
INSTANCE CustodyManager WITH Bundles <- Keys, Hashes <- Events, NoHash <- NoEvent

custodyDb == <<custody, payloadHash, acked, retries, overdue>>

VARIABLES running,  \* _running; _stop_event is set when it is FALSE
          status,   \* the status of SyncState
          pc,       \* where each thread is
          batch,    \* events of the current peek() still to be handled
          cur,      \* the event being handled
          tries,    \* failed send() calls for it
          safe,     \* safe_to_delete: keys confirmed in this batch
          due,      \* rest of the timed_out() list
          doomed,   \* the key about to be marked FAILED
          accepted  \* history: events the proxy has taken responsibility for

threadVars == <<pc, batch, cur, tries, safe, due, doomed>>
vars == <<queueVars, custodyDb, transportVars, threadVars,
          running, status, accepted>>

\* The labels at which a thread has an event in its hands.
InHand == {"send", "verify", "ack", "gate", "count", "mark", "channel"}

Labels == {"idle", "loop", "expired", "retry", "fail", "peek", "grant", "send",
           "verify", "ack", "gate", "count", "mark", "channel", "delete",
           "abort", "online"}

TypeOK == /\ QueueTypeOK
          /\ CustodyTypeOK
          /\ up \in BOOLEAN
          /\ received \subseteq Events
          /\ faults \in 0 .. MaxFaults
          /\ running \in BOOLEAN
          /\ status \in {"INITIALIZING", "SYNCING", "ONLINE", "OFFLINE"}
          /\ pc \in [Threads -> Labels]
          /\ batch \in [Threads -> SUBSET Events]
          /\ cur \in [Threads -> Events \cup {NoEvent}]
          /\ tries \in [Threads -> 0 .. MaxRetries]
          /\ safe \in [Threads -> SUBSET Keys]
          /\ due \in [Threads -> SUBSET Keys]
          /\ doomed \in [Threads -> Keys \cup {NoKey}]
          /\ accepted \subseteq Events
          /\ \A t \in Threads : /\ pc[t] \in InHand <=> cur[t] # NoEvent
                                /\ pc[t] = "fail" <=> doomed[t] # NoKey

Init == /\ QueueInit
        /\ CustodyInit
        /\ TransportInit
        /\ pc = [t \in Threads |-> "idle"]
        /\ batch = [t \in Threads |-> {}]
        /\ cur = [t \in Threads |-> NoEvent]
        /\ tries = [t \in Threads |-> 0]
        /\ safe = [t \in Threads |-> {}]
        /\ due = [t \in Threads |-> {}]
        /\ doomed = [t \in Threads |-> NoKey]
        /\ running = FALSE
        /\ status = "INITIALIZING"
        /\ accepted = {}

-----------------------------------------------------------------------------
(* The proxy: POST /events and DELETE /queue.                              *)

\* An event whose key already has a row is answered as a duplicate: the row
\* that is there stands for it.
Submit(e) == /\ Resubmits \/ \A a \in accepted : a.key # e.key
             /\ Enqueue(e)
             /\ accepted' = IF HasRow(e.key) THEN accepted ELSE accepted \cup {e}
             /\ UNCHANGED <<custodyDb, transportVars, threadVars, running, status>>

ClearQueue == /\ DebugMode
              /\ Clear
              /\ UNCHANGED <<custodyDb, transportVars, threadVars, running,
                             status, accepted>>

-----------------------------------------------------------------------------
(* start(), stop(), and the ways a thread ends without them.               *)

Goto(t, label) == pc' = [pc EXCEPT ![t] = label]

EndThread(t) == /\ Goto(t, "idle")
                /\ batch' = [batch EXCEPT ![t] = {}]
                /\ cur' = [cur EXCEPT ![t] = NoEvent]
                /\ tries' = [tries EXCEPT ![t] = 0]
                /\ safe' = [safe EXCEPT ![t] = {}]
                /\ due' = [due EXCEPT ![t] = {}]
                /\ doomed' = [doomed EXCEPT ![t] = NoKey]

Start(t) == /\ ~running
            /\ pc[t] = "idle"
            /\ running' = TRUE
            /\ Goto(t, "loop")
            /\ UNCHANGED <<queueVars, custodyDb, transportVars, batch, cur, tries,
                           safe, due, doomed, status, accepted>>

Stop == /\ running
        /\ running' = FALSE
        /\ Fault("stop")
        /\ UNCHANGED <<queueVars, custodyDb, up, received, threadVars, status,
                       accepted>>

\* A restart of the proxy process: a new SyncManager, no thread yet.
Crash == /\ Fault("crash")
         /\ running' = FALSE
         /\ status' = "INITIALIZING"
         /\ pc' = [t \in Threads |-> "idle"]
         /\ batch' = [t \in Threads |-> {}]
         /\ cur' = [t \in Threads |-> NoEvent]
         /\ tries' = [t \in Threads |-> 0]
         /\ safe' = [t \in Threads |-> {}]
         /\ due' = [t \in Threads |-> {}]
         /\ doomed' = [t \in Threads |-> NoKey]
         /\ UNCHANGED <<queueVars, custodyDb, up, received, accepted>>

\* An sqlite3 exception (locked, disk full) in one of the two databases.  No
\* handler surrounds the flush, so the thread ends and nothing else changes.
\* At "delete" with nothing to delete it is the pending() of the closing log
\* line; an abort with nothing to delete does not touch a database.
DatabaseError(t) == /\ pc[t] \notin {"idle", "loop", "send", "channel", "online"}
                    /\ pc[t] = "abort" => safe[t] # {}
                    /\ Fault("database")
                    /\ EndThread(t)
                    /\ UNCHANGED <<queueVars, custodyDb, up, received, running,
                                   status, accepted>>

-----------------------------------------------------------------------------
(* _run_loop: the stop test, the health check and the cycle it starts.     *)
(* Waiting for the heartbeat or the backoff is taking one's time here.     *)

LoopEnds(t) == /\ pc[t] = "loop"
               /\ ~running
               /\ EndThread(t)
               /\ UNCHANGED <<queueVars, custodyDb, transportVars, running, status,
                              accepted>>

CycleStarts(t) == /\ pc[t] = "loop"
                  /\ running
                  /\ HealthCheck
                  /\ status' = "SYNCING"
                  /\ Goto(t, "expired")
                  /\ UNCHANGED <<queueVars, custodyDb, transportVars, batch, cur,
                                 tries, safe, due, doomed, running, accepted>>

\* Mutant: a failed health check ends the loop.
ChannelDownEnds(t) == /\ pc[t] = "loop"
                      /\ running
                      /\ ~HealthCheck
                      /\ status' = "OFFLINE"
                      /\ EndThread(t)
                      /\ UNCHANGED <<queueVars, custodyDb, transportVars, running,
                                     accepted>>

ChannelDown(t) == /\ pc[t] = "loop"
                  /\ running
                  /\ ~HealthCheck
                  /\ status' = "OFFLINE"
                  /\ UNCHANGED <<queueVars, custodyDb, transportVars, threadVars,
                                 running, accepted>>

\* Reached after a flush that was aborted, too.
CycleEnds(t) == /\ pc[t] = "online"
                /\ status' = "ONLINE"
                /\ Goto(t, "loop")
                /\ UNCHANGED <<queueVars, custodyDb, transportVars, batch, cur, tries,
                               safe, due, doomed, running, accepted>>

-----------------------------------------------------------------------------
(* _retry_timed_out_custody.                                               *)

ReadTimedOut(t) == /\ pc[t] = "expired"
                   /\ due' = [due EXCEPT ![t] = TimedOut]
                   /\ Goto(t, IF TimedOut = {} THEN "peek" ELSE "retry")
                   /\ UNCHANGED <<queueVars, custodyDb, transportVars, batch, cur,
                                  tries, safe, doomed, running, status, accepted>>

AfterRetry(left) == IF left = {} THEN "peek" ELSE "retry"

RetryTimedOut(t) ==
  /\ pc[t] = "retry"
  /\ \E k \in due[t] :
       /\ IncrementRetry(k)
       /\ due' = [due EXCEPT ![t] = @ \ {k}]
       /\ IF custody[k] # "NONE" /\ NewRetries(k) > MaxAttempts
          THEN doomed' = [doomed EXCEPT ![t] = k] /\ Goto(t, "fail")
          ELSE UNCHANGED doomed /\ Goto(t, AfterRetry(due[t] \ {k}))
  /\ UNCHANGED <<queueVars, transportVars, batch, cur, tries, safe, running, status,
                 accepted>>

GiveUp(t) == /\ pc[t] = "fail"
             /\ MarkFailed(doomed[t])
             /\ doomed' = [doomed EXCEPT ![t] = NoKey]
             /\ Goto(t, AfterRetry(due[t]))
             /\ UNCHANGED <<queueVars, transportVars, batch, cur, tries, safe, due,
                            running, status, accepted>>

-----------------------------------------------------------------------------
(* _flush_queue: one batch after the other until a batch frees nothing.    *)

PeekBatch(t) == /\ pc[t] = "peek"
                /\ \E B \in Batches :
                     /\ batch' = [batch EXCEPT ![t] = B]
                     /\ Goto(t, IF B = {} THEN "online" ELSE "grant")
                /\ UNCHANGED <<queueVars, custodyDb, transportVars, cur, tries, safe,
                               due, doomed, running, status, accepted>>

\* Mutant: an event whose grant was refused is not sent.
TakeNewCustody(t) ==
  /\ pc[t] = "grant"
  /\ \E e \in batch[t] :
       /\ \A f \in batch[t] : e.at <= f.at
       /\ Grant(e.key, e)
       /\ cur' = [cur EXCEPT ![t] = e]
       /\ batch' = [batch EXCEPT ![t] = @ \ {e}]
       /\ Goto(t, IF custody[e.key] = "NONE" THEN "send" ELSE "channel")
  /\ UNCHANGED <<queueVars, transportVars, tries, safe, due, doomed, running, status,
                 accepted>>

\* The next event of the batch in the order peek() returned it.
TakeCustody(t) ==
  /\ pc[t] = "grant"
  /\ \E e \in batch[t] :
       /\ \A f \in batch[t] : e.at <= f.at
       /\ Grant(e.key, e)
       /\ cur' = [cur EXCEPT ![t] = e]
       /\ batch' = [batch EXCEPT ![t] = @ \ {e}]
  /\ Goto(t, "send")
  /\ UNCHANGED <<queueVars, transportVars, tries, safe, due, doomed, running, status,
                 accepted>>

\* send_with_retry: up to MaxRetries + 1 calls of send().
SendSucceeds(t) == /\ pc[t] = "send"
                   /\ PostSucceeds(cur[t])
                   /\ tries' = [tries EXCEPT ![t] = 0]
                   /\ Goto(t, "verify")
                   /\ UNCHANGED <<queueVars, custodyDb, batch, cur, safe, due, doomed,
                                  running, status, accepted>>

MoreTries(t) == tries[t] < MaxRetries

SendFails(t) == /\ pc[t] = "send"
                /\ PostFails(cur[t])
                /\ IF MoreTries(t)
                   THEN tries' = [tries EXCEPT ![t] = @ + 1] /\ UNCHANGED pc
                   ELSE tries' = [tries EXCEPT ![t] = 0] /\ Goto(t, "count")
                /\ UNCHANGED <<queueVars, custodyDb, batch, cur, safe, due, doomed,
                               running, status, accepted>>

VerifyHash(t) == /\ pc[t] = "verify"
                 /\ Goto(t, IF HashMatches(cur[t].key, cur[t]) THEN "ack" ELSE "mark")
                 /\ UNCHANGED <<queueVars, custodyDb, transportVars, batch, cur, tries,
                                safe, due, doomed, running, status, accepted>>

Ack(t) == /\ pc[t] = "ack"
          /\ AckUpdate(cur[t].key)
          /\ Goto(t, IF HandOverWorks(cur[t].key) THEN "gate" ELSE "mark")
          /\ UNCHANGED <<queueVars, transportVars, batch, cur, tries, safe, due, doomed,
                         running, status, accepted>>

SafetyGate(t) ==
  /\ pc[t] = "gate"
  /\ IF IsSafeToDelete(cur[t].key)
     THEN safe' = [safe EXCEPT ![t] = @ \cup {cur[t].key}] /\ Goto(t, "channel")
     ELSE UNCHANGED safe /\ Goto(t, "mark")
  /\ UNCHANGED <<queueVars, custodyDb, transportVars, batch, cur, tries, due, doomed,
                 running, status, accepted>>

\* Mutant: custody is given up with the first failure, before its timeout.
FailAtOnce(t) == /\ pc[t] = "count"
                 /\ MarkFailed(cur[t].key)
                 /\ Goto(t, "mark")
                 /\ UNCHANGED <<queueVars, transportVars, batch, cur, tries, safe, due,
                                doomed, running, status, accepted>>

CountFailure(t) == /\ pc[t] = "count"
                   /\ IncrementRetry(cur[t].key)
                   /\ Goto(t, "mark")
                   /\ UNCHANGED <<queueVars, transportVars, batch, cur, tries, safe, due,
                                  doomed, running, status, accepted>>

KeepInQueue(t) == /\ pc[t] = "mark"
                  /\ MarkAttempt(cur[t].key)
                  /\ Goto(t, "channel")
                  /\ UNCHANGED <<custodyDb, transportVars, batch, cur, tries, safe, due,
                                 doomed, running, status, accepted>>

AfterEvent(left) == IF left = {} THEN "delete" ELSE "grant"

ChannelHolds(t) == /\ pc[t] = "channel"
                   /\ HealthCheck
                   /\ cur' = [cur EXCEPT ![t] = NoEvent]
                   /\ Goto(t, AfterEvent(batch[t]))
                   /\ UNCHANGED <<queueVars, custodyDb, transportVars, batch, tries,
                                  safe, due, doomed, running, status, accepted>>

ChannelLost(t) == /\ pc[t] = "channel"
                  /\ ~HealthCheck
                  /\ cur' = [cur EXCEPT ![t] = NoEvent]
                  /\ batch' = [batch EXCEPT ![t] = {}]
                  /\ Goto(t, "abort")
                  /\ UNCHANGED <<queueVars, custodyDb, transportVars, tries, safe, due,
                                 doomed, running, status, accepted>>

\* The end of a batch: delete, and go on only if there was something to delete.
DeleteConfirmed(t) == /\ pc[t] = "delete"
                      /\ AckBatch(safe[t])
                      /\ safe' = [safe EXCEPT ![t] = {}]
                      /\ Goto(t, IF safe[t] = {} THEN "online" ELSE "peek")
                      /\ UNCHANGED <<custodyDb, transportVars, batch, cur, tries, due,
                                     doomed, running, status, accepted>>

\* Mutant: the abort returns without deleting what was confirmed.
AbortKeeping(t) == /\ pc[t] = "abort"
                   /\ safe' = [safe EXCEPT ![t] = {}]
                   /\ Goto(t, "online")
                   /\ UNCHANGED <<queueVars, custodyDb, transportVars, batch, cur,
                                  tries, due, doomed, running, status, accepted>>

AbortFlush(t) == /\ pc[t] = "abort"
                 /\ AckBatch(safe[t])
                 /\ safe' = [safe EXCEPT ![t] = {}]
                 /\ Goto(t, "online")
                 /\ UNCHANGED <<custodyDb, transportVars, batch, cur, tries, due, doomed,
                                running, status, accepted>>

-----------------------------------------------------------------------------
Overdue(k) == /\ Expire(k)
              /\ UNCHANGED <<queueVars, transportVars, threadVars, running, status,
                             accepted>>

Network == /\ LinkDown \/ LinkUp
           /\ UNCHANGED <<queueVars, custodyDb, threadVars, running, status, accepted>>

ThreadStep(t) == \/ LoopEnds(t) \/ CycleStarts(t) \/ ChannelDown(t) \/ CycleEnds(t)
                 \/ ReadTimedOut(t) \/ RetryTimedOut(t) \/ GiveUp(t)
                 \/ PeekBatch(t) \/ TakeCustody(t)
                 \/ SendSucceeds(t) \/ SendFails(t)
                 \/ VerifyHash(t) \/ Ack(t) \/ SafetyGate(t)
                 \/ CountFailure(t) \/ KeepInQueue(t)
                 \/ ChannelHolds(t) \/ ChannelLost(t)
                 \/ DeleteConfirmed(t) \/ AbortFlush(t)

Next == \/ \E e \in Events : Submit(e)
        \/ ClearQueue
        \/ \E t \in Threads : Start(t)
        \/ Stop
        \/ Crash
        \/ \E t \in Threads : DatabaseError(t)
        \/ \E t \in Threads : ThreadStep(t)
        \/ \E k \in Keys : Overdue(k)
        \/ Network

Spec == Init /\ [][Next]_vars

\* A running thread is scheduled; an interrupted channel comes back (faults are
\* finite); a proxy that is down is started again, and its lifespan() calls
\* start().  Nobody is obliged to submit, to stop, or to let a timeout expire.
Fairness == /\ \A t \in Threads : WF_vars(ThreadStep(t))
            /\ WF_vars(\E t \in Threads : Start(t))
            /\ WF_vars(Network /\ ~up)

FairSpec == Spec /\ Fairness

-----------------------------------------------------------------------------
(* The inductive invariant behind the safety properties, for DebugMode     *)
(* FALSE: DELETE /queue keeps none of it.                                  *)

\* What thread t may delete, its gate included.
Owned(t) == safe[t] \cup (IF pc[t] = "gate" THEN {cur[t].key} ELSE {})

KeyIsUnique == \A e, f \in queue : e.key = f.key => e = f

PendingIsQueued ==
  \A k \in Keys : custody[k] = "PENDING" =>
    payloadHash[k] \in queue /\ payloadHash[k].key = k

\* A snapshot of the queue may be stale only about events in custody, and what
\* is no longer queued has been received.
BatchIsCurrent ==
  \A t \in Threads : \A e \in batch[t] :
    /\ e \in queue \cup received
    /\ custody[e.key] = "NONE" => e \in queue

CurIsKnown ==
  \A t \in Threads :
    /\ pc[t] \in InHand =>
         cur[t] \in queue \cup received /\ custody[cur[t].key] # "NONE"
    /\ pc[t] \in {"verify", "ack", "gate"} => cur[t] \in received
    /\ pc[t] \in {"ack", "gate"} => payloadHash[cur[t].key] = cur[t]

OwnedIsConfirmed ==
  \A t \in Threads : \A k \in Owned(t) :
    /\ custody[k] \notin {"NONE", "PENDING"}
    /\ \E e \in queue \cap received : e.key = k

OwnedOnce == \A t, u \in Threads : t # u => Owned(t) \cap Owned(u) = {}

\* What a thread has read of timed_out() it forgets with its cycle, and a bundle it
\* gives up is no longer on the list.
DueInReaper ==
  \A t \in Threads : /\ due[t] # {} => pc[t] \in {"retry", "fail"}
                     /\ doomed[t] \notin due[t]

\* A row that was not handed over has no acked_at.
UnackedIsOpen == \A k \in acked : custody[k] \notin {"NONE", "PENDING"}

-----------------------------------------------------------------------------
(* Properties.                                                             *)

\* No crash, overlap of threads, lost answer or repeated key makes an accepted
\* event disappear: the server has it, or its row is still in queue.db.
NoEventLost == \A e \in accepted : e \in received \cup queue

\* custody.db never claims more than the truth: an ACKED row has an acked_at, and the
\* payload whose hash stands in a row with an acked_at is stored by the server.  A
\* FAILED mark may take the status ACKED away, when it comes from another thread
\* with an old list of timed_out(); what the row says of the delivery stays true.
AckedIsReceived ==
  /\ \A k \in Keys : custody[k] = "ACKED" => k \in acked
  /\ \A k \in acked : custody[k] # "NONE" /\ payloadHash[k] \in received

\* The pipeline keeps the promise of DeliveryPromise at every step.
Promise == INSTANCE DeliveryPromise WITH held <- queue, delivered <- received

KeepsPromise == Promise!Spec

\* ... and what is in the queue does reach the server, whatever crashes.
MeetsPromise == Promise!FairSpec

\* A thread as one of the callers of CustodyCallers: from the grant to the answer of
\* the gate it has a bundle in its hands.
CallerLabel(label) == CASE label \in {"send", "count"} -> "sending"
                        [] label \in {"verify", "ack", "gate"} -> label
                        [] OTHER -> "idle"

CallerPc == [t \in Threads |-> CallerLabel(pc[t])]
CallerBundle == [t \in Threads |-> IF CallerPc[t] = "idle" THEN NoKey ELSE cur[t].key]
CallerSent == [t \in Threads |-> IF CallerPc[t] = "idle" THEN NoEvent ELSE cur[t]]

\* Nothing is purged or transferred here, so acked_at tells what was handed over.
HandedOver == [k \in Keys |-> IF k \in acked THEN 1 ELSE 0]

Calls == INSTANCE CustodyCallers WITH
           Bundles <- Keys, Hashes <- Events, NoHash <- NoEvent, NoBundle <- NoKey,
           Callers <- Threads, Reapers <- Threads, pc <- CallerPc,
           bundle <- CallerBundle, sent <- CallerSent, wins <- HandedOver

\* The sync manager calls the custody manager in the order the protocol asks for, at
\* every step and from every thread: nothing is acknowledged that was not granted,
\* sent and compared with the hash of its row, and nothing is given up that was not
\* overdue and retried too often.  So whatever holds of CustodyCallers holds here.
CallsInOrder == Calls!Spec

\* All of it together: see SyncManagerProofs.
PipelineInv == /\ TypeOK
               /\ KeyIsUnique
               /\ PendingIsQueued
               /\ BatchIsCurrent
               /\ CurIsKnown
               /\ OwnedIsConfirmed
               /\ OwnedOnce
               /\ AckedIsReceived
               /\ NoEventLost

\* A confirmed key is in the delete list of one thread only.  ack_batch deletes
\* by key, so a second list would delete whatever event has the key by then.
DeletesOnce == \A t, u \in Threads : t # u => safe[t] \cap safe[u] = {}

\* Every queued event leaves the queue, whatever the channel does in between.
QueueDrains == \A e \in Events : e \in queue ~> e \notin queue

\* A bundle past its timeout does not stay PENDING for ever: it is handed over, or
\* retried until the reaper gives it up as FAILED, also when DELETE /queue has taken
\* away the row it was to be sent from.
OverdueResolved == \A k \in Keys : k \in TimedOut ~> k \notin TimedOut

\* sync_manager.py:7, "Flush FIFO de la cola SQLite cuando el canal IP se
\* restaura": once the channel is back for good, what is queued gets there.
QueuedReachesServer == \A e \in Events : e \in queue ~> e \in received

\* The server is not reported OFFLINE for ever: the grace period of the proxy's
\* authentication, which asks for that status, ends when the channel is back.
OfflineEnds == status = "OFFLINE" ~> status # "OFFLINE"

\* test_sync_custody.py:55, "custodia ACKED -> borrado del QueueStore": a row
\* whose custody is complete is deleted.
AckedLeavesQueue ==
  \A e \in Events : e \in queue /\ custody[e.key] = "ACKED" ~> e \notin queue
=============================================================================
