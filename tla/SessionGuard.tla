---------------------------- MODULE SessionGuard ----------------------------
(***************************************************************************)
(* The offline queue of the browser (src/session_guard.js): SessionGuard   *)
(* with its OfflineQueue in IndexedDB, its HeartbeatMonitor and its        *)
(* SyncManager.  One thread runs, but every await lets other calls in, so  *)
(* a step here goes from one await to the next.                            *)
(*                                                                         *)
(* IndexedDB outlives the page; everything else is lost by a reload.  An   *)
(* item is a call of enqueue() with the uuid it creates.                   *)
(*                                                                         *)
(* Two assumptions.  Clock: Date.now() does not go back while items wait;  *)
(* getAll() sorts by it, so after a step back a younger item may be sent   *)
(* first.  Reads: getAll() does not fail; a failed one reads as no items.  *)
(***************************************************************************)
EXTENDS Integers, Sequences, FiniteSets

CONSTANTS Items,
          MaxQueue,  \* MAX_QUEUE_SIZE
          MaxCalls,  \* bound: calls of enqueue() that overlap
          MaxNow,    \* bound: milliseconds that tell items apart
          MaxFaults  \* bound: failed requests and deletions, reloads, destroys

ASSUME GuardAssumption == /\ MaxQueue \in Nat \ {0}
                          /\ MaxCalls \in Nat \ {0}
                          /\ MaxNow \in Nat /\ MaxFaults \in Nat

VARIABLES queue,     \* object store of the queue, on disk
          call,      \* where each call of enqueue() is
          ts,        \* Date.now() of each item
          now,
          sendFn,    \* the page gave its SessionGuard a sendFn
          page,      \* the SessionGuard of the page
          doomed,    \* items that clear() has still to delete
          ticking,   \* _tick() awaits _checkConnectivity()
          timer,     \* the next _tick() is due
          isOnline,  \* HeartbeatMonitor._isOnline
          syncPc,    \* where sync() is; _syncing unless "idle"
          todo,      \* items sync() has still to send
          answered,  \* history: items the server answered with ok or 4xx
          cleared,   \* history: items that clear() deleted
          faults

pageVars == <<sendFn, page, doomed>>
beatVars == <<ticking, timer, isOnline>>
syncVars == <<syncPc, todo>>
callVars == <<call, ts, now>>
histories == <<answered, cleared>>
vars == <<queue, callVars, pageVars, beatVars, syncVars, histories, faults>>

InFlight == {i \in Items : call[i] = "checked"}

TypeOK == /\ queue \subseteq Items
          /\ call \in [Items -> {"new", "checked", "stored", "refused"}]
          /\ ts \in [Items -> 0 .. now] /\ now \in 0 .. MaxNow
          /\ sendFn \in BOOLEAN
          /\ page \in {"none", "live", "clearing", "destroyed"}
          /\ doomed \subseteq Items /\ (page # "clearing" => doomed = {})
          /\ ticking \in BOOLEAN /\ timer \in BOOLEAN /\ isOnline \in BOOLEAN
          /\ ~(ticking /\ timer)
          /\ syncPc \in {"idle", "list", "send", "delete"}
          /\ todo \in Seq(Items) /\ (syncPc \in {"send", "delete"} <=> todo # <<>>)
          /\ answered \subseteq Items /\ cleared \subseteq Items
          /\ faults \in 0 .. MaxFaults

Init == /\ queue = {}
        /\ call = [i \in Items |-> "new"]
        /\ ts = [i \in Items |-> 0] /\ now = 0
        /\ sendFn \in BOOLEAN /\ page = "none" /\ doomed = {}
        /\ ticking = FALSE /\ timer = FALSE /\ isOnline = TRUE
        /\ syncPc = "idle" /\ todo = <<>>
        /\ answered = {} /\ cleared = {}
        /\ faults = 0

Fault == faults < MaxFaults /\ faults' = faults + 1

-----------------------------------------------------------------------------
(* The page.                                                               *)

\* init(): the monitor takes the connection for good and starts with a check.
Load == /\ page = "none"
        /\ page' = "live"
        /\ ticking' = TRUE
        /\ UNCHANGED <<queue, callVars, sendFn, doomed, timer, isOnline, syncVars, histories,
                       faults>>

\* The page is closed or reloaded: calls under way are gone with it.
Reload == /\ page # "none"
          /\ Fault
          /\ page' = "none" /\ doomed' = {}
          /\ ticking' = FALSE /\ timer' = FALSE /\ isOnline' = TRUE
          /\ syncPc' = "idle" /\ todo' = <<>>
          /\ call' = [i \in Items |-> IF i \in InFlight THEN "refused" ELSE call[i]]
          /\ UNCHANGED <<queue, ts, now, sendFn, histories>>

\* destroy(): the timer is cleared, and clear() reads what it is to delete.  A
\* check that is being awaited is not stopped.
Destroy == /\ page = "live"
           /\ Fault
           /\ page' = "clearing"
           /\ doomed' = queue
           /\ timer' = FALSE
           /\ UNCHANGED <<queue, callVars, sendFn, ticking, isOnline, syncVars, histories>>

ClearOne(i) == /\ i \in doomed
               /\ doomed' = doomed \ {i}
               /\ queue' = queue \ {i}
               /\ cleared' = cleared \cup {i}
               /\ UNCHANGED <<callVars, sendFn, page, beatVars, syncVars, answered, faults>>

\* _initialized = false.
Destroyed == /\ page = "clearing"
             /\ doomed = {}
             /\ page' = "destroyed"
             /\ UNCHANGED <<queue, callVars, sendFn, doomed, beatVars, syncVars, histories,
                            faults>>

-----------------------------------------------------------------------------
(* enqueue(): the size is read before one await, the item put after it.    *)

\* Mutant: one item more.
HasRoomForOneMore == Cardinality(queue) <= MaxQueue

HasRoom == Cardinality(queue) < MaxQueue

EnqueueCheck(i) ==
  /\ page \in {"live", "clearing"}
  /\ call[i] = "new"
  /\ Cardinality(InFlight) < MaxCalls
  /\ call' = [call EXCEPT ![i] = IF HasRoom THEN "checked" ELSE "refused"]
  /\ UNCHANGED <<queue, ts, now, pageVars, beatVars, syncVars, histories, faults>>

\* OfflineQueue.enqueue(): the time is taken, in milliseconds that another item
\* may share, and the put is asked for at once: IndexedDB keeps that order.
EnqueuePut(i) ==
  /\ call[i] = "checked"
  /\ now' \in {now, now + 1} /\ now' <= MaxNow
  /\ ts' = [ts EXCEPT ![i] = now']
  /\ queue' = queue \cup {i}
  /\ call' = [call EXCEPT ![i] = "stored"]
  /\ UNCHANGED <<pageVars, beatVars, syncVars, histories, faults>>

\* The put fails, for want of space: enqueue() returns null.
PutFails(i) == /\ call[i] = "checked"
               /\ Fault
               /\ call' = [call EXCEPT ![i] = "refused"]
               /\ UNCHANGED <<queue, ts, now, pageVars, beatVars, syncVars, histories>>

-----------------------------------------------------------------------------
(* The heartbeat: _tick().                                                 *)

\* setTimeout fires once.
FiresOnce == timer' = FALSE

TickBegin == /\ timer
             /\ FiresOnce
             /\ ticking' = TRUE
             /\ UNCHANGED <<queue, callVars, pageVars, isOnline, syncVars, histories, faults>>

\* _handleOnline() calls sync(), which returns at once if one is running or if there
\* is no sendFn.
StartSync == syncPc' = IF syncPc = "idle" /\ sendFn THEN "list" ELSE syncPc

\* The check answers, and the next one is scheduled whatever happened meanwhile.
TickEnd(online) ==
  /\ ticking
  /\ ticking' = FALSE
  /\ timer' = TRUE
  /\ isOnline' = online
  /\ IF online /\ ~isOnline THEN StartSync ELSE UNCHANGED syncPc
  /\ UNCHANGED <<queue, callVars, pageVars, todo, histories, faults>>

-----------------------------------------------------------------------------
(* SyncManager.sync().                                                     *)

\* getAll() sorts by ts; items of one millisecond come in the order of their uuids,
\* which is any order.
Listings == {s \in [1 .. Cardinality(queue) -> queue] :
               \A m, n \in DOMAIN s : m < n => s[m] # s[n] /\ ts[s[m]] <= ts[s[n]]}

List == /\ syncPc = "list"
        /\ todo' \in Listings
        /\ syncPc' = IF queue = {} THEN "idle" ELSE "send"
        /\ UNCHANGED <<queue, callVars, pageVars, beatVars, histories, faults>>

\* ok, or a 4xx, after which the item is not tried again.
Answered == /\ syncPc = "send"
            /\ answered' = answered \cup {Head(todo)}
            /\ syncPc' = "delete"
            /\ UNCHANGED <<queue, callVars, pageVars, beatVars, todo, cleared, faults>>

\* Mutants: the loop goes on after a failure; _syncing stays set; every status is
\* taken for an answer.
SkipFailed == /\ todo' = Tail(todo)
              /\ syncPc' = IF Len(todo) = 1 THEN "idle" ELSE "send"
              /\ UNCHANGED queue
StayBusy == todo' = <<>> /\ syncPc' = "stopped" /\ UNCHANGED queue
DropFailed == /\ todo' = Tail(todo)
              /\ syncPc' = IF Len(todo) = 1 THEN "idle" ELSE "send"
              /\ queue' = queue \ {Head(todo)}

\* The break, and the finally that resets _syncing.
StopSync == /\ todo' = <<>>
            /\ syncPc' = "idle"
            /\ UNCHANGED queue

\* A 5xx, a network error, or an answer that was lost.
Unanswered == /\ syncPc = "send"
              /\ Fault
              /\ StopSync
              /\ UNCHANGED <<callVars, pageVars, beatVars, histories>>

\* dequeue() after an answer.  A deletion that fails is not noticed.
Dequeue(works) ==
  /\ syncPc = "delete"
  /\ IF works THEN UNCHANGED faults ELSE Fault
  /\ queue' = IF works THEN queue \ {Head(todo)} ELSE queue
  /\ todo' = Tail(todo)
  /\ syncPc' = IF Len(todo) = 1 THEN "idle" ELSE "send"
  /\ UNCHANGED <<callVars, pageVars, beatVars, histories>>

-----------------------------------------------------------------------------
PageStep == Load \/ Destroyed \/ \E i \in Items : ClearOne(i)
BeatStep == TickBegin \/ \E online \in BOOLEAN : TickEnd(online)
SyncStep == List \/ Answered \/ Dequeue(TRUE)
EnqueueStep == \E i \in Items : EnqueueCheck(i) \/ EnqueuePut(i) \/ PutFails(i)

Next == PageStep \/ Reload \/ Destroy \/ BeatStep \/ SyncStep \/ Unanswered
        \/ Dequeue(FALSE) \/ EnqueueStep

\* Timers fire, awaited calls return and sendFn answers sooner or later.
Fairness == WF_vars(PageStep) /\ WF_vars(BeatStep) /\ WF_vars(SyncStep)

Spec == Init /\ [][Next]_vars /\ Fairness

-----------------------------------------------------------------------------
(* Properties.                                                             *)

\* An item that was stored leaves the disk only after the server has answered it
\* with ok or 4xx, or by destroy(): through reloads, failed requests and deletions
\* (session_guard.js:516, "Si falla con 5xx/red, detiene la sincronizacion").
NothingLost == \A i \in Items :
                 call[i] = "stored" => i \in queue \cup answered \cup cleared

\* MAX_QUEUE_SIZE is a bound up to the calls that overlap: each of them may have
\* read the size before the others' items were stored.
QueueBounded == Cardinality(queue) <= MaxQueue + MaxCalls - 1

\* "Procesa en orden FIFO" (session_guard.js:516): when an item is answered, every
\* older one that was stored before it has been answered.
AnsweredInOrder ==
  [][\A a, b \in Items : b \in answered' \ answered /\ a \in queue \ answered
                             => ts[b] <= ts[a]]_vars

\* If there is a sendFn and the connection keeps being lost and found again, every
\* stored item leaves the queue sooner or later: whatever stops one synchronisation,
\* a later one retries.
ReconnectsDrain ==
  \A i \in Items :
    sendFn /\ []<>isOnline /\ []<>~isOnline => (i \in queue ~> i \notin queue)

-----------------------------------------------------------------------------
(* What makes them inductive.                                              *)

\* Before init() nothing of the page is under way.
NothingBeforeInit == page = "none" => ~ticking /\ ~timer

\* What is on disk or in the listing of sync() has been stored, and what sync() is
\* about to delete has been answered.
KnownItems == /\ \A i \in queue : call[i] = "stored"
              /\ \A n \in DOMAIN todo : call[todo[n]] = "stored"
              /\ syncPc = "delete" => todo[1] \in answered

\* Each call that has passed the test of the size counts as if it were stored.
RoomForAll == /\ IsFiniteSet(queue) /\ IsFiniteSet(InFlight)
              /\ Cardinality(queue) + Cardinality(InFlight) <= MaxQueue + MaxCalls - 1

\* The listing is in order, and whatever is in the queue without an answer and not
\* in the listing is as young as all of it.
ListingIsOldest ==
  /\ \A m, n \in DOMAIN todo : m < n => ts[todo[m]] <= ts[todo[n]]
  /\ todo # <<>> => \A a \in queue \ answered :
                      \/ \E n \in DOMAIN todo : todo[n] = a
                      \/ \A n \in DOMAIN todo : ts[todo[n]] <= ts[a]

GuardInv == TypeOK /\ NothingBeforeInit /\ KnownItems /\ RoomForAll /\ ListingIsOldest
            /\ NothingLost
=============================================================================
