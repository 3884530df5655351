-------------------------- MODULE SessionGuardProofs ------------------------
(***************************************************************************)
(* Proofs about the offline queue of the browser, for any items, sizes and *)
(* faults: nothing that was stored is lost without an answer, the queue is *)
(* bounded up to the calls that overlap, and items are answered in order.  *)
(***************************************************************************)
EXTENDS SessionGuard, FiniteSetTheorems, SequenceTheorems, TLAPS

USE GuardAssumption

LEMMA InitInv == Init => GuardInv
<1> SUFFICES ASSUME Init PROVE GuardInv
  OBVIOUS
<1>1. TypeOK
  <2>1. now \in 0 .. MaxNow /\ faults \in 0 .. MaxFaults /\ todo \in Seq(Items)
    BY DEF Init
  <2>2. ts \in [Items -> 0 .. now] /\ call \in [Items -> {"new", "checked", "stored", "refused"}]
    BY DEF Init
  <2>3. syncPc \in {"idle", "list", "send", "delete"}
        /\ (syncPc \in {"send", "delete"} <=> todo # <<>>)
    BY DEF Init
  <2>4. /\ page \in {"none", "live", "clearing", "destroyed"}
        /\ doomed \subseteq Items /\ (page # "clearing" => doomed = {})
        /\ ticking \in BOOLEAN /\ timer \in BOOLEAN /\ isOnline \in BOOLEAN
        /\ ~(ticking /\ timer)
    BY DEF Init
  <2>5. QED
    BY <2>1, <2>2, <2>3, <2>4 DEF Init, TypeOK
<1>4. NothingBeforeInit /\ KnownItems /\ NothingLost /\ ListingIsOldest
  BY DEF Init, NothingBeforeInit, KnownItems, NothingLost, ListingIsOldest
<1>2. RoomForAll
  <2>1. queue = {} /\ InFlight = {}
    BY DEF Init, InFlight
  <2>2. QED
    BY <2>1, FS_EmptySet DEF RoomForAll
<1>3. QED
  BY <1>1, <1>2, <1>4 DEF GuardInv

-----------------------------------------------------------------------------
(* What several steps have in common.                                      *)

\* A set that loses elements stays finite and does not grow.
LEMMA RoomKept ==
  ASSUME RoomForAll, queue' \subseteq queue, InFlight' \subseteq InFlight
  PROVE  RoomForAll'
<1>1. /\ IsFiniteSet(queue') /\ Cardinality(queue') <= Cardinality(queue)
      /\ IsFiniteSet(InFlight') /\ Cardinality(InFlight') <= Cardinality(InFlight)
  BY FS_Subset DEF RoomForAll
<1>2. /\ Cardinality(queue) \in Nat /\ Cardinality(queue') \in Nat
      /\ Cardinality(InFlight) \in Nat /\ Cardinality(InFlight') \in Nat
  BY <1>1, FS_CardinalityType DEF RoomForAll
<1>3. QED
  BY <1>1, <1>2 DEF RoomForAll

\* A step of the heartbeat or of the page that touches neither the queue nor the
\* calls nor the listing.
Quiet == UNCHANGED <<queue, call, ts, todo, answered, cleared>>

LEMMA QuietKeeps ==
  ASSUME GuardInv, Quiet, syncPc' = "delete" => syncPc = "delete"
  PROVE  KnownItems' /\ RoomForAll' /\ ListingIsOldest' /\ NothingLost'
<1>1. RoomForAll'
  BY RoomKept DEF GuardInv, Quiet, InFlight
<1>2. KnownItems' /\ NothingLost'
  BY DEF GuardInv, Quiet, KnownItems, NothingLost
<1>3. ListingIsOldest'
  BY DEF GuardInv, Quiet, ListingIsOldest
<1>4. QED
  BY <1>1, <1>2, <1>3

\* The listing loses its head, which has been answered: a step of sync() to its next
\* item or to its end.
LEMMA NextItem ==
  ASSUME GuardInv, syncPc = "delete", Head(todo) \in answered,
         todo' = Tail(todo), UNCHANGED <<ts, call, answered>>,
         queue' \subseteq queue, syncPc' # "delete"
  PROVE  KnownItems' /\ ListingIsOldest'
<1>1. todo \in Seq(Items) /\ todo # <<>>
  BY DEF GuardInv, TypeOK
<1>2. /\ \A n \in DOMAIN todo' : n + 1 \in DOMAIN todo /\ todo'[n] = todo[n + 1]
      /\ \A n \in DOMAIN todo : n # 1 => n - 1 \in DOMAIN todo' /\ todo'[n - 1] = todo[n]
      /\ DOMAIN todo \subseteq Nat /\ DOMAIN todo' \subseteq Nat
      /\ todo[1] \in answered
  BY <1>1
<1>3. KnownItems'
  BY <1>2 DEF GuardInv, KnownItems
<1>4. \A m, n \in DOMAIN todo' : m < n => ts'[todo'[m]] <= ts'[todo'[n]]
  <2> SUFFICES ASSUME NEW m \in DOMAIN todo', NEW n \in DOMAIN todo', m < n
               PROVE  ts[todo[m + 1]] <= ts[todo[n + 1]]
    BY <1>2
  <2>1. m + 1 \in DOMAIN todo /\ n + 1 \in DOMAIN todo /\ m + 1 < n + 1
    BY <1>2
  <2>2. QED
    BY <2>1 DEF GuardInv, ListingIsOldest
<1>5. ASSUME NEW a \in queue' \ answered'
      PROVE  \/ \E n \in DOMAIN todo' : todo'[n] = a
             \/ \A n \in DOMAIN todo' : ts'[todo'[n]] <= ts'[a]
  <2>1. a \in queue \ answered
    BY <1>5
  <2>2. CASE \E n \in DOMAIN todo : todo[n] = a
    <3>1. PICK n \in DOMAIN todo : todo[n] = a
      BY <2>2
    <3>2. n # 1
      BY <1>2, <2>1, <3>1
    <3>3. QED
      BY <1>2, <3>1, <3>2
  <2>3. CASE \A n \in DOMAIN todo : ts[todo[n]] <= ts[a]
    BY <1>2, <2>3
  <2>4. QED
    BY <1>1, <2>1, <2>2, <2>3 DEF GuardInv, ListingIsOldest
<1>6. QED
  BY <1>3, <1>4, <1>5 DEF ListingIsOldest

-----------------------------------------------------------------------------
(* The page.                                                               *)

LEMMA LoadInv == ASSUME GuardInv, Load PROVE GuardInv'
<1>1. TypeOK' /\ NothingBeforeInit'
  BY DEF GuardInv, Load, TypeOK, NothingBeforeInit, callVars, syncVars, histories
<1>2. QED
  BY <1>1, QuietKeeps DEF GuardInv, Load, Quiet, callVars, syncVars, histories

LEMMA ReloadInv == ASSUME GuardInv, Reload PROVE GuardInv'
<1>1. TypeOK' /\ NothingBeforeInit'
  <2>1. faults' \in 0 .. MaxFaults /\ todo' \in Seq(Items) /\ doomed' \subseteq Items
    BY DEF GuardInv, Reload, TypeOK, Fault
  <2>2. call' \in [Items -> {"new", "checked", "stored", "refused"}]
    BY DEF GuardInv, Reload, TypeOK
  <2>3. QED
    BY <2>1, <2>2 DEF GuardInv, Reload, TypeOK, NothingBeforeInit, histories
<1>2. InFlight' = {}
  BY DEF GuardInv, TypeOK, Reload, InFlight
<1>3. RoomForAll'
  BY <1>2, RoomKept DEF GuardInv, Reload
<1>4. KnownItems' /\ ListingIsOldest'
  BY DEF GuardInv, TypeOK, KnownItems, ListingIsOldest, Reload, InFlight, histories
<1>5. NothingLost'
  BY DEF GuardInv, TypeOK, NothingLost, Reload, InFlight, histories
<1>6. QED
  BY <1>1, <1>3, <1>4, <1>5 DEF GuardInv

LEMMA DestroyInv == ASSUME GuardInv, Destroy PROVE GuardInv'
<1>1. TypeOK' /\ NothingBeforeInit'
  <2>1. faults' \in 0 .. MaxFaults
    BY DEF GuardInv, Destroy, TypeOK, Fault
  <2>2. QED
    BY <2>1 DEF GuardInv, Destroy, TypeOK, NothingBeforeInit, callVars, syncVars, histories
<1>2. QED
  BY <1>1, QuietKeeps DEF GuardInv, Destroy, Quiet, callVars, syncVars, histories

LEMMA ClearOneInv == ASSUME GuardInv, NEW i \in Items, ClearOne(i) PROVE GuardInv'
<1>1. TypeOK' /\ NothingBeforeInit'
  BY DEF GuardInv, ClearOne, TypeOK, NothingBeforeInit, callVars, beatVars, syncVars
<1>2. RoomForAll'
  BY RoomKept DEF GuardInv, ClearOne, InFlight, callVars
<1>3. KnownItems' /\ NothingLost'
  BY DEF GuardInv, ClearOne, KnownItems, NothingLost, callVars, syncVars
<1>4. ListingIsOldest'
  BY DEF GuardInv, ClearOne, ListingIsOldest, callVars, syncVars
<1>5. QED
  BY <1>1, <1>2, <1>3, <1>4 DEF GuardInv

LEMMA DestroyedInv == ASSUME GuardInv, Destroyed PROVE GuardInv'
<1>1. TypeOK' /\ NothingBeforeInit'
  BY DEF GuardInv, Destroyed, TypeOK, NothingBeforeInit, callVars, beatVars, syncVars,
         histories
<1>2. QED
  BY <1>1, QuietKeeps DEF GuardInv, Destroyed, Quiet, callVars, syncVars, histories

-----------------------------------------------------------------------------
(* enqueue().                                                              *)

LEMMA EnqueueCheckInv == ASSUME GuardInv, NEW i \in Items, EnqueueCheck(i) PROVE GuardInv'
<1>1. TypeOK' /\ NothingBeforeInit'
  BY DEF GuardInv, EnqueueCheck, TypeOK, NothingBeforeInit, pageVars, beatVars, syncVars,
         histories
<1>2. RoomForAll'
  <2>1. /\ IsFiniteSet(queue) /\ IsFiniteSet(InFlight) /\ queue' = queue
        /\ Cardinality(queue) \in Nat /\ Cardinality(InFlight) \in Nat
        /\ Cardinality(InFlight) < MaxCalls
    BY FS_CardinalityType DEF GuardInv, RoomForAll, EnqueueCheck
  <2>2. CASE HasRoom
    <3>1. InFlight' = InFlight \cup {i} /\ i \notin InFlight
      BY <2>2 DEF GuardInv, TypeOK, EnqueueCheck, InFlight
    <3>2. IsFiniteSet(InFlight') /\ Cardinality(InFlight') = Cardinality(InFlight) + 1
      BY <2>1, <3>1, FS_AddElement
    <3>3. QED
      BY <2>1, <2>2, <3>2 DEF HasRoom, RoomForAll
  <2>3. CASE ~HasRoom
    <3>1. InFlight' \subseteq InFlight
      BY <2>3 DEF GuardInv, TypeOK, EnqueueCheck, InFlight
    <3>2. QED
      BY <2>1, <3>1, RoomKept DEF GuardInv
  <2>4. QED
    BY <2>2, <2>3
<1>3. KnownItems' /\ NothingLost'
  BY DEF GuardInv, TypeOK, EnqueueCheck, KnownItems, NothingLost, syncVars, histories
<1>4. ListingIsOldest'
  BY DEF GuardInv, EnqueueCheck, ListingIsOldest, syncVars, histories
<1>5. QED
  BY <1>1, <1>2, <1>3, <1>4 DEF GuardInv

\* The item is younger than everything that was listed, and its timestamp was not
\* there to be compared before.
LEMMA EnqueuePutInv == ASSUME GuardInv, NEW i \in Items, EnqueuePut(i) PROVE GuardInv'
<1>1. TypeOK' /\ NothingBeforeInit'
  BY DEF GuardInv, EnqueuePut, TypeOK, NothingBeforeInit, pageVars, beatVars, syncVars,
         histories
<1>2. RoomForAll'
  <2>1. InFlight' = InFlight \ {i} /\ i \in InFlight /\ queue' = queue \cup {i}
    BY DEF GuardInv, TypeOK, EnqueuePut, InFlight
  <2>2. /\ IsFiniteSet(queue') /\ Cardinality(queue') <= Cardinality(queue) + 1
        /\ IsFiniteSet(InFlight') /\ Cardinality(InFlight') = Cardinality(InFlight) - 1
        /\ Cardinality(queue) \in Nat /\ Cardinality(InFlight) \in Nat
        /\ Cardinality(queue') \in Nat
    <3>1. /\ IsFiniteSet(queue) /\ Cardinality(queue) \in Nat
          /\ IsFiniteSet(InFlight) /\ Cardinality(InFlight) \in Nat
      BY FS_CardinalityType DEF GuardInv, RoomForAll
    <3>2. /\ IsFiniteSet(queue \cup {i})
          /\ Cardinality(queue \cup {i}) = IF i \in queue THEN Cardinality(queue)
                                                        ELSE Cardinality(queue) + 1
      BY <3>1, FS_AddElement
    <3>3. /\ IsFiniteSet(InFlight \ {i})
          /\ Cardinality(InFlight \ {i}) = Cardinality(InFlight) - 1
      BY <2>1, <3>1, FS_RemoveElement
    <3>4. QED
      BY <2>1, <3>1, <3>2, <3>3
  <2>3. QED
    BY <2>2 DEF GuardInv, RoomForAll
<1>3. KnownItems' /\ NothingLost'
  BY DEF GuardInv, TypeOK, EnqueuePut, KnownItems, NothingLost, syncVars, histories
<1>4. ListingIsOldest'
  <2>1. /\ todo' = todo /\ answered' = answered /\ queue' = queue \cup {i}
        /\ todo \in Seq(Items)
        /\ \A j \in Items \ {i} : ts'[j] = ts[j]
        /\ ts'[i] = now' /\ now' >= now /\ now' \in Nat
        /\ \A j \in Items : ts[j] <= now /\ ts[j] \in Nat
        /\ now \in Nat
    BY DEF GuardInv, TypeOK, EnqueuePut, syncVars, histories
  <2>2. \A n \in DOMAIN todo : todo[n] \in Items \ {i}
    BY <2>1 DEF GuardInv, KnownItems, EnqueuePut
  <2>3. \A n \in DOMAIN todo : ts'[todo[n]] = ts[todo[n]] /\ ts[todo[n]] <= ts'[i]
    BY <2>1, <2>2
  <2>4. \A a \in queue : a \in Items \ {i}
    BY DEF GuardInv, TypeOK, KnownItems, EnqueuePut
  <2>5. \A m, n \in DOMAIN todo : m < n => ts'[todo[m]] <= ts'[todo[n]]
    BY <2>3 DEF GuardInv, ListingIsOldest
  <2>6. ASSUME todo # <<>>, NEW a \in (queue \cup {i}) \ answered
        PROVE  \/ \E n \in DOMAIN todo : todo[n] = a
               \/ \A n \in DOMAIN todo : ts'[todo[n]] <= ts'[a]
    <3>1. CASE a = i
      BY <2>3, <3>1
    <3>2. CASE a # i
      BY <2>1, <2>3, <2>4, <2>6, <3>2 DEF GuardInv, ListingIsOldest
    <3>3. QED
      BY <3>1, <3>2
  <2>7. QED
    BY <2>1, <2>5, <2>6 DEF ListingIsOldest
<1>5. QED
  BY <1>1, <1>2, <1>3, <1>4 DEF GuardInv

LEMMA PutFailsInv == ASSUME GuardInv, NEW i \in Items, PutFails(i) PROVE GuardInv'
<1>1. TypeOK' /\ NothingBeforeInit'
  <2>1. faults' \in 0 .. MaxFaults
    BY DEF GuardInv, TypeOK, PutFails, Fault
  <2>2. QED
    BY <2>1 DEF GuardInv, PutFails, TypeOK, NothingBeforeInit, pageVars, beatVars, syncVars,
                histories
<1>2. RoomForAll'
  <2>1. InFlight' \subseteq InFlight /\ queue' = queue
    BY DEF GuardInv, TypeOK, PutFails, InFlight
  <2>2. QED
    BY <2>1, RoomKept DEF GuardInv
<1>3. KnownItems' /\ NothingLost'
  BY DEF GuardInv, TypeOK, PutFails, KnownItems, NothingLost, syncVars, histories
<1>4. ListingIsOldest'
  BY DEF GuardInv, PutFails, ListingIsOldest, syncVars, histories
<1>5. QED
  BY <1>1, <1>2, <1>3, <1>4 DEF GuardInv

-----------------------------------------------------------------------------
(* The heartbeat.                                                          *)

LEMMA TickBeginInv == ASSUME GuardInv, TickBegin PROVE GuardInv'
<1>1. TypeOK' /\ NothingBeforeInit'
  BY DEF GuardInv, TickBegin, FiresOnce, TypeOK, NothingBeforeInit, callVars, pageVars,
         syncVars, histories
<1>2. QED
  BY <1>1, QuietKeeps DEF GuardInv, TickBegin, Quiet, callVars, syncVars, histories

LEMMA TickEndInv == ASSUME GuardInv, NEW online \in BOOLEAN, TickEnd(online) PROVE GuardInv'
<1>1. TypeOK' /\ NothingBeforeInit'
  BY DEF GuardInv, TickEnd, StartSync, TypeOK, NothingBeforeInit, callVars, pageVars,
         histories
<1>2. syncPc' = "delete" => syncPc = "delete"
  BY DEF TickEnd, StartSync
<1>3. QED
  BY <1>1, <1>2, QuietKeeps DEF GuardInv, TickEnd, Quiet, callVars, histories

-----------------------------------------------------------------------------
(* sync().                                                                 *)

\* A listing names every item of the queue.
LEMMA ListingIsComplete ==
  ASSUME IsFiniteSet(queue), NEW s \in Listings
  PROVE  /\ s \in Seq(queue) /\ DOMAIN s = 1 .. Cardinality(queue)
         /\ \A a \in queue : \E n \in DOMAIN s : s[n] = a
<1>1. Cardinality(queue) \in Nat
  BY FS_CardinalityType
<1>2. /\ s \in [1 .. Cardinality(queue) -> queue]
      /\ \A m, n \in 1 .. Cardinality(queue) : m < n => s[m] # s[n]
  BY DEF Listings
<1>3. s \in Seq(queue)
  BY <1>1, <1>2
<1>4. s \in Injection(1 .. Cardinality(queue), queue)
  <2>1. \A m, n \in 1 .. Cardinality(queue) : s[m] = s[n] => m = n
    BY <1>1, <1>2
  <2>2. QED
    BY <1>2, <2>1 DEF Injection, IsInjective
<1>5. IsFiniteSet(1 .. Cardinality(queue))
      /\ Cardinality(1 .. Cardinality(queue)) = Cardinality(queue)
  BY <1>1, FS_Interval
<1>6. s \in Surjection(1 .. Cardinality(queue), queue)
  BY <1>4, <1>5, FS_Injection
<1>7. QED
  BY <1>2, <1>3, <1>6 DEF Surjection

LEMMA ListInv == ASSUME GuardInv, List PROVE GuardInv'
<1>1. /\ IsFiniteSet(queue) /\ queue \subseteq Items /\ todo' \in Listings
      /\ Cardinality(queue) \in Nat /\ (Cardinality(queue) = 0 <=> queue = {})
  BY FS_CardinalityType, FS_EmptySet DEF GuardInv, RoomForAll, TypeOK, List
<1>2. /\ todo' \in Seq(queue) /\ DOMAIN todo' = 1 .. Cardinality(queue)
      /\ \A a \in queue : \E n \in DOMAIN todo' : todo'[n] = a
  BY <1>1, ListingIsComplete
<1>3. /\ todo' \in Seq(Items)
      /\ todo' = <<>> <=> queue = {}
      /\ \A n \in DOMAIN todo' : todo'[n] \in queue
      /\ \A m, n \in DOMAIN todo' : m < n => ts[todo'[m]] <= ts[todo'[n]]
  <2>1. todo' \in Seq(Items)
    BY <1>1, <1>2
  <2>2. Len(todo') = Cardinality(queue)
    BY <1>1, <1>2
  <2>3. todo' = <<>> <=> queue = {}
    BY <1>1, <1>2, <2>2
  <2>4. QED
    BY <1>1, <1>2, <2>1, <2>3 DEF Listings
<1>4. TypeOK' /\ NothingBeforeInit'
  BY <1>3 DEF GuardInv, List, TypeOK, NothingBeforeInit, callVars, pageVars, beatVars,
              histories
<1>5. RoomForAll'
  BY RoomKept DEF GuardInv, List, InFlight, callVars
<1>6. KnownItems' /\ NothingLost'
  BY <1>3 DEF GuardInv, List, KnownItems, NothingLost, callVars, histories
<1>7. ListingIsOldest'
  BY <1>2, <1>3 DEF List, ListingIsOldest, callVars, histories
<1>8. QED
  BY <1>4, <1>5, <1>6, <1>7 DEF GuardInv

LEMMA AnsweredInv == ASSUME GuardInv, Answered PROVE GuardInv'
<1>1. todo \in Seq(Items) /\ todo # <<>>
  BY DEF GuardInv, TypeOK, Answered
<1>2. Head(todo) \in Items /\ Head(todo) = todo[1]
  BY <1>1
<1>3. TypeOK' /\ NothingBeforeInit'
  BY <1>1, <1>2 DEF GuardInv, Answered, TypeOK, NothingBeforeInit, callVars, pageVars,
                    beatVars
<1>4. RoomForAll'
  BY RoomKept DEF GuardInv, Answered, InFlight, callVars
<1>5. KnownItems' /\ NothingLost'
  BY <1>2 DEF GuardInv, Answered, KnownItems, NothingLost, callVars
<1>6. ListingIsOldest'
  BY DEF GuardInv, Answered, ListingIsOldest, callVars
<1>7. QED
  BY <1>3, <1>4, <1>5, <1>6 DEF GuardInv

LEMMA UnansweredInv == ASSUME GuardInv, Unanswered PROVE GuardInv'
<1>1. TypeOK' /\ NothingBeforeInit'
  BY DEF GuardInv, Unanswered, StopSync, Fault, TypeOK, NothingBeforeInit, callVars,
         pageVars, beatVars, histories
<1>2. RoomForAll'
  BY RoomKept DEF GuardInv, Unanswered, StopSync, InFlight, callVars
<1>3. KnownItems' /\ NothingLost' /\ ListingIsOldest'
  BY DEF GuardInv, Unanswered, StopSync, KnownItems, NothingLost, ListingIsOldest, callVars,
         histories
<1>4. QED
  BY <1>1, <1>2, <1>3 DEF GuardInv

LEMMA DequeueInv == ASSUME GuardInv, NEW works \in BOOLEAN, Dequeue(works) PROVE GuardInv'
<1>1. todo \in Seq(Items) /\ todo # <<>>
  BY DEF GuardInv, TypeOK, Dequeue
<1>2. /\ Head(todo) = todo[1] /\ Tail(todo) \in Seq(Items)
      /\ Len(todo) = 1 <=> Tail(todo) = <<>>
  <2>1. Head(todo) = todo[1] /\ Tail(todo) \in Seq(Items)
    BY <1>1
  <2>2. Len(Tail(todo)) = Len(todo) - 1 /\ Len(todo) \in Nat
    BY <1>1
  <2>3. Tail(todo) = <<>> <=> Len(Tail(todo)) = 0
    BY <2>1, EmptySeq
  <2>4. Len(todo) = 1 <=> Len(Tail(todo)) = 0
    BY <2>2
  <2>5. QED
    BY <2>1, <2>3, <2>4
<1>3. Head(todo) \in answered
  BY <1>2 DEF GuardInv, KnownItems, Dequeue
<1>4. TypeOK' /\ NothingBeforeInit'
  <2>1. faults' \in 0 .. MaxFaults
    BY GuardAssumption DEF GuardInv, TypeOK, Dequeue, Fault
  <2>2. /\ todo' \in Seq(Items) /\ syncPc' \in {"idle", "send"}
        /\ syncPc' = "send" <=> todo' # <<>>
    BY <1>2 DEF Dequeue
  <2>3. queue' \subseteq queue
    BY DEF Dequeue
  <2>4. UNCHANGED <<callVars, pageVars, beatVars, histories>>
    BY DEF Dequeue
  <2>5. QED
    BY <2>1, <2>2, <2>3, <2>4
    DEF GuardInv, TypeOK, NothingBeforeInit, callVars, pageVars, beatVars, histories
<1>5. RoomForAll'
  BY RoomKept DEF GuardInv, Dequeue, InFlight, callVars
<1>6. NothingLost'
  BY <1>3 DEF GuardInv, Dequeue, NothingLost, callVars, histories
<1>7. KnownItems' /\ ListingIsOldest'
  BY <1>3, NextItem DEF GuardInv, Dequeue, callVars, histories
<1>8. QED
  BY <1>4, <1>5, <1>6, <1>7 DEF GuardInv

-----------------------------------------------------------------------------
\* The types, with them that a check and the next timer are never there at once, and
\* what is known of the queue while calls and deletions are under way
\* (session_guard.js:348, 520).
THEOREM GuardCorrect == Spec => []GuardInv
<1>1. GuardInv /\ [Next]_vars => GuardInv'
  <2> SUFFICES ASSUME GuardInv, [Next]_vars PROVE GuardInv'
    OBVIOUS
  <2>1. CASE PageStep
    BY <2>1, LoadInv, DestroyedInv, ClearOneInv DEF PageStep
  <2>2. CASE Reload \/ Destroy
    BY <2>2, ReloadInv, DestroyInv
  <2>3. CASE BeatStep
    BY <2>3, TickBeginInv, TickEndInv DEF BeatStep
  <2>4. CASE SyncStep \/ Unanswered \/ Dequeue(FALSE)
    BY <2>4, ListInv, AnsweredInv, UnansweredInv, DequeueInv DEF SyncStep
  <2>5. CASE EnqueueStep
    BY <2>5, EnqueueCheckInv, EnqueuePutInv, PutFailsInv DEF EnqueueStep
  <2>6. CASE UNCHANGED vars
    <3>1. TypeOK' /\ NothingBeforeInit'
      BY <2>6 DEF GuardInv, TypeOK, NothingBeforeInit, vars, callVars, pageVars, beatVars,
                  syncVars, histories
    <3>2. QED
      BY <2>6, <3>1, QuietKeeps DEF GuardInv, Quiet, vars, callVars, syncVars, histories
  <2>7. QED
    BY <2>1, <2>2, <2>3, <2>4, <2>5, <2>6 DEF Next
<1>2. QED
  BY <1>1, InitInv, PTL DEF Spec

\* What was stored leaves the disk only answered or by destroy()
\* (session_guard.js:516).
THEOREM StoredIsNotLost == Spec => []NothingLost
<1>1. GuardInv => NothingLost
  BY DEF GuardInv
<1>2. QED
  BY <1>1, GuardCorrect, PTL

\* The queue exceeds MAX_QUEUE_SIZE by less than the calls that overlap
\* (session_guard.js:672).
THEOREM QueueIsBounded == Spec => []QueueBounded
<1>1. GuardInv => QueueBounded
  <2> SUFFICES ASSUME GuardInv PROVE QueueBounded
    OBVIOUS
  <2>1. Cardinality(queue) \in Nat /\ Cardinality(InFlight) \in Nat
    BY FS_CardinalityType DEF GuardInv, RoomForAll
  <2>2. QED
    BY <2>1 DEF GuardInv, RoomForAll, QueueBounded
<1>2. QED
  BY <1>1, GuardCorrect, PTL

\* An item is answered only when no older one is left unanswered in the queue
\* (session_guard.js:516, "Procesa en orden FIFO").
THEOREM InOrder == Spec => AnsweredInOrder
<1> DEFINE Ordered == \A a, b \in Items :
              b \in answered' \ answered /\ a \in queue \ answered => ts[b] <= ts[a]
<1>1. ASSUME GuardInv, Next PROVE Ordered
  <2>1. CASE Answered
    <3> SUFFICES ASSUME NEW a \in Items, a \in queue \ answered
                 PROVE  ts[Head(todo)] <= ts[a]
      BY <2>1 DEF Answered
    <3>1. todo \in Seq(Items) /\ todo # <<>>
      BY <1>1, <2>1 DEF GuardInv, TypeOK, Answered
    <3>2. 1 \in DOMAIN todo /\ Head(todo) = todo[1] /\ DOMAIN todo \subseteq Nat \ {0}
      BY <3>1
    <3>3. CASE \A n \in DOMAIN todo : ts[todo[n]] <= ts[a]
      BY <3>2, <3>3
    <3>4. CASE \E n \in DOMAIN todo : todo[n] = a
      <4>1. PICK n \in DOMAIN todo : todo[n] = a
        BY <3>4
      <4>2. CASE n = 1
        BY <3>2, <4>1, <4>2, <1>1 DEF GuardInv, TypeOK
      <4>3. CASE n > 1
        BY <3>2, <4>1, <4>3, <1>1 DEF GuardInv, ListingIsOldest
      <4>4. QED
        BY <3>2, <4>1, <4>2, <4>3
    <3>5. QED
      BY <1>1, <3>1, <3>3, <3>4 DEF GuardInv, ListingIsOldest
  <2>2. CASE ~Answered
    <3>1. answered' = answered
      BY <1>1, <2>2 DEF Next, PageStep, Load, Destroyed, ClearOne, Reload, Destroy, BeatStep,
         TickBegin, TickEnd, SyncStep, List, Dequeue, Unanswered, EnqueueStep, EnqueueCheck,
         EnqueuePut, PutFails, histories
    <3>2. QED
      BY <3>1
  <2>3. QED
    BY <2>1, <2>2
<1>2. ASSUME GuardInv, UNCHANGED vars PROVE Ordered
  BY <1>2 DEF vars, histories
<1>3. GuardInv /\ [Next]_vars => [Ordered]_vars
  BY <1>1, <1>2
<1>4. QED
  BY <1>3, GuardCorrect, PTL DEF Spec, AnsweredInOrder
=============================================================================
