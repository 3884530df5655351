--------------------------- MODULE ProducersProofs --------------------------
(***************************************************************************)
(* Proofs about the producers, for any lines, rows, limits, look-backs and *)
(* faults: an event that the agent has read is accounted for, and a series *)
(* of runs of the bridge that join up misses no row.                       *)
(***************************************************************************)
EXTENDS Producers, FiniteSetTheorems, TLAPS

USE QueueAssumption, AgentAssumption, BridgeAssumption, ProducersAssumption

LEMMA InitInv == Init => ProducersInv
<1> SUFFICES ASSUME Init PROVE ProducersInv
  OBVIOUS
<1>1. QueueTypeOK
  BY DEF Init, QueueInit, QueueTypeOK
<1>2. AgentTypeOK
  <2>1. pending \in Seq(AgentEvents) /\ togo \in Seq(AgentEvents) /\ kept \in Seq(AgentEvents)
    BY DEF Init, AgentInit
  <2>2. QED
    BY <2>1 DEF Init, AgentInit, AgentTypeOK
<1>3. BridgeTypeOK
  <2>1. {MaxNow, MaxRuns, Lookback} \subseteq Nat
    OBVIOUS
  <2>2. now \in 0 .. MaxNow /\ runs \in 0 .. MaxRuns /\ stage \in 0 .. 3
        /\ since \in -Lookback .. now /\ lastStart \in 0 .. now
    BY <2>1 DEF Init, BridgeInit
  <2>3. fetched \in BOOLEAN /\ cut \in BOOLEAN /\ gap \in BOOLEAN
    BY DEF Init, BridgeInit
  <2>4. QED
    BY <2>2, <2>3 DEF Init, BridgeInit, BridgeTypeOK
<1>4. EventsAccounted /\ FlushAccounted
  BY DEF Init, AgentInit, EventsAccounted, FlushAccounted
<1>5. RowsCaught /\ RunCaught
  BY DEF Init, BridgeInit, RowsCaught, RunCaught, Unwritten
<1>6. QED
  BY <1>1, <1>2, <1>3, <1>4, <1>5 DEF Init, ProducersInv, TypeOK

-----------------------------------------------------------------------------
(* Sequences and the sets of their elements.                               *)

LEMMA AppendToSet ==
  ASSUME NEW S, NEW s \in Seq(S), NEW x \in S
  PROVE  Append(s, x) \in Seq(S) /\ ToSet(Append(s, x)) = ToSet(s) \cup {x}
<1>1. /\ Append(s, x) \in Seq(S) /\ Len(s) \in Nat
      /\ DOMAIN Append(s, x) = 1 .. Len(s) + 1 /\ DOMAIN s = 1 .. Len(s)
      /\ Append(s, x)[Len(s) + 1] = x
      /\ \A n \in 1 .. Len(s) : Append(s, x)[n] = s[n]
  OBVIOUS
<1>2. ToSet(Append(s, x)) \subseteq ToSet(s) \cup {x}
  BY <1>1 DEF ToSet
<1>3. ToSet(s) \cup {x} \subseteq ToSet(Append(s, x))
  BY <1>1 DEF ToSet
<1>4. QED
  BY <1>1, <1>2, <1>3

LEMMA EmptySequence ==
  ASSUME NEW S, NEW t \in Seq(S)
  PROVE  t = <<>> <=> Len(t) = 0
OBVIOUS

LEMMA HeadAndTail ==
  ASSUME NEW S, NEW s \in Seq(S), s # <<>>
  PROVE  /\ Head(s) \in S /\ Tail(s) \in Seq(S)
         /\ Len(s) = 1 <=> Tail(s) = <<>>
         /\ ToSet(s) = {Head(s)} \cup ToSet(Tail(s))
<1>1. /\ Head(s) \in S /\ Head(s) = s[1] /\ Tail(s) \in Seq(S)
      /\ Len(s) \in Nat \ {0} /\ Len(Tail(s)) = Len(s) - 1
      /\ DOMAIN s = 1 .. Len(s) /\ DOMAIN Tail(s) = 1 .. Len(s) - 1
      /\ \A n \in 1 .. Len(s) - 1 : Tail(s)[n] = s[n + 1]
  OBVIOUS
<1>2. Tail(s) = <<>> <=> Len(Tail(s)) = 0
  <2>1. Tail(s) \in Seq(S)
    BY <1>1
  <2>2. QED
    BY <2>1, EmptySequence
<1>3. ToSet(s) \subseteq {Head(s)} \cup ToSet(Tail(s))
  <2> SUFFICES ASSUME NEW n \in 1 .. Len(s), n # 1 PROVE s[n] \in ToSet(Tail(s))
    BY <1>1 DEF ToSet
  <2>1. n - 1 \in DOMAIN Tail(s) /\ Tail(s)[n - 1] = s[n]
    BY <1>1
  <2>2. QED
    BY <2>1 DEF ToSet
<1>4. {Head(s)} \cup ToSet(Tail(s)) \subseteq ToSet(s)
  <2>1. \A n \in DOMAIN Tail(s) : n + 1 \in DOMAIN s /\ Tail(s)[n] = s[n + 1]
    BY <1>1
  <2>2. QED
    BY <1>1, <2>1 DEF ToSet
<1>5. QED
  BY <1>1, <1>2, <1>3, <1>4

-----------------------------------------------------------------------------
(* The queue.                                                              *)

LEMMA EnqueueAccounts ==
  ASSUME QueueTypeOK, NEW e \in Events, Enqueue(e)
  PROVE  QueueTypeOK' /\ HasRow(e.key)' /\ \A k : HasRow(k) => HasRow(k)'
BY DEF QueueTypeOK, Enqueue, HasRow

\* Whatever has been accounted for stays so.
LEMMA StaysAccounted ==
  ASSUME \A k : HasRow(k) => HasRow(k)' \/ k \in delivered',
         delivered \subseteq delivered', rejected \subseteq rejected', NEW e, Accounted(e)
  PROVE  Accounted(e)'
BY DEF Accounted

\* A POST that counts as taken accounts for its event; no POST takes that back.
LEMMA PostAccounts ==
  ASSUME ProducersInv, NEW e \in AgentEvents, Taken(e) \/ Untaken(e),
         delivered' = delivered
  PROVE  /\ QueueTypeOK' /\ rejected' \subseteq AgentEvents /\ faults' \in 0 .. MaxFaults
         /\ Taken(e) => Accounted(e)'
         /\ \A f : Accounted(f) => Accounted(f)'
<1>1. /\ QueueTypeOK /\ e \in Events /\ rejected \subseteq AgentEvents
      /\ faults \in 0 .. MaxFaults
  BY DEF ProducersInv, TypeOK, AgentTypeOK
<1>2. CASE Enqueue(e) /\ rejected' = rejected /\ faults' \in 0 .. MaxFaults
  <2>1. QueueTypeOK' /\ HasRow(e.key)' /\ \A k : HasRow(k) => HasRow(k)'
    BY <1>1, <1>2, EnqueueAccounts
  <2>2. QED
    BY <1>1, <1>2, <2>1, StaysAccounted DEF Accounted
<1>3. CASE /\ UNCHANGED queueVars /\ rejected' = rejected \cup {e}
           /\ faults' \in 0 .. MaxFaults
  <2>1. QueueTypeOK' /\ \A k : HasRow(k) => HasRow(k)'
    BY <1>1, <1>3 DEF QueueTypeOK, HasRow, queueVars
  <2>2. QED
    BY <1>1, <1>3, <2>1, StaysAccounted DEF Accounted
<1>4. CASE /\ UNCHANGED queueVars /\ rejected' = rejected /\ faults' \in 0 .. MaxFaults
           /\ ~Taken(e)
  <2>1. QueueTypeOK' /\ \A k : HasRow(k) => HasRow(k)'
    BY <1>1, <1>4 DEF QueueTypeOK, HasRow, queueVars
  <2>2. QED
    BY <1>1, <1>4, <2>1, StaysAccounted
<1>5. CASE Stored(e) \/ AnswerLost(e)
  BY <1>1, <1>2, <1>5 DEF Stored, AnswerLost, Fault
<1>6. CASE Rejected(e)
  BY <1>1, <1>3, <1>6 DEF Rejected, Fault
<1>7. CASE Refused /\ ~Taken(e)
  BY <1>1, <1>4, <1>7 DEF Refused, Fault
<1>8. QED
  BY <1>5, <1>6, <1>7 DEF Taken, Untaken

-----------------------------------------------------------------------------
(* The agent.                                                              *)

AgentGoal == TypeOK' /\ EventsAccounted' /\ FlushAccounted'

LEMMA WriteLineInv ==
  ASSUME ProducersInv, NEW e \in AgentEvents, WriteLine(e), UNCHANGED <<bridgeVars, delivered>>
  PROVE  AgentGoal
<1>1. TypeOK'
  BY DEF ProducersInv, TypeOK, QueueTypeOK, AgentTypeOK, BridgeTypeOK, WriteLine, queueVars,
         bridgeVars
<1>2. EventsAccounted' /\ FlushAccounted'
  BY DEF ProducersInv, TypeOK, AgentTypeOK, EventsAccounted, FlushAccounted, Accounted, HasRow,
         WriteLine, queueVars
<1>3. QED
  BY <1>1, <1>2 DEF AgentGoal

LEMMA ReadLineInv ==
  ASSUME ProducersInv, NEW e \in AgentEvents, ReadLine(e), UNCHANGED <<bridgeVars, delivered>>
  PROVE  AgentGoal
<1>1. TypeOK'
  BY DEF ProducersInv, TypeOK, QueueTypeOK, AgentTypeOK, BridgeTypeOK, ReadLine, queueVars,
         bridgeVars
<1>2. EventsAccounted' /\ FlushAccounted'
  BY DEF ProducersInv, TypeOK, AgentTypeOK, EventsAccounted, FlushAccounted, Accounted, HasRow,
         ReadLine, queueVars
<1>3. QED
  BY <1>1, <1>2 DEF AgentGoal

\* The end of the loop in send(): a taken event is accounted for, and the flush has
\* everything that is pending before it.
LEMMA SendTakenInv ==
  ASSUME ProducersInv, NEW e \in AgentEvents, SendTaken(e), UNCHANGED <<bridgeVars, delivered>>
  PROVE  AgentGoal
<1>1. /\ QueueTypeOK' /\ rejected' \subseteq AgentEvents /\ faults' \in 0 .. MaxFaults
      /\ Accounted(e)' /\ \A f : Accounted(f) => Accounted(f)'
  BY PostAccounts DEF SendTaken
<1>2. current = {e} /\ pending \in Seq(AgentEvents)
  BY DEF ProducersInv, TypeOK, AgentTypeOK, SendTaken
<1>3. TypeOK'
  <2>1. <<>> \in Seq(AgentEvents)
    OBVIOUS
  <2>2. AgentTypeOK'
    BY <1>1, <1>2, <2>1 DEF ProducersInv, TypeOK, AgentTypeOK, SendTaken
  <2>3. BridgeTypeOK'
    BY DEF ProducersInv, TypeOK, BridgeTypeOK, bridgeVars
  <2>4. QED
    BY <1>1, <2>2, <2>3 DEF ProducersInv, TypeOK
<1>4. EventsAccounted'
  BY <1>1, <1>2 DEF ProducersInv, EventsAccounted, Accounted, SendTaken
<1>5. FlushAccounted'
  BY DEF FlushAccounted, SendTaken
<1>6. QED
  BY <1>3, <1>4, <1>5 DEF AgentGoal

LEMMA SendUntakenInv ==
  ASSUME ProducersInv, NEW e \in AgentEvents, SendUntaken(e), UNCHANGED <<bridgeVars, delivered>>
  PROVE  AgentGoal
<1>1. /\ QueueTypeOK' /\ rejected' \subseteq AgentEvents /\ faults' \in 0 .. MaxFaults
      /\ \A f : Accounted(f) => Accounted(f)'
  BY PostAccounts DEF SendUntaken
<1>2. /\ current = {e} /\ pending \in Seq(AgentEvents) /\ agent = "send" /\ togo = <<>>
      /\ pending' = Append(pending, e)
  BY DEF ProducersInv, TypeOK, AgentTypeOK, SendUntaken
<1>3. pending' \in Seq(AgentEvents) /\ ToSet(pending') = ToSet(pending) \cup {e}
  BY <1>2, AppendToSet
<1>4. TypeOK'
  <2>1. AgentTypeOK'
    BY <1>1, <1>2, <1>3 DEF ProducersInv, TypeOK, AgentTypeOK, SendUntaken
  <2>2. BridgeTypeOK'
    BY DEF ProducersInv, TypeOK, BridgeTypeOK, bridgeVars
  <2>3. QED
    BY <1>1, <2>1, <2>2 DEF ProducersInv, TypeOK
<1>5. EventsAccounted'
  BY <1>1, <1>2, <1>3 DEF ProducersInv, EventsAccounted, Accounted, SendUntaken
<1>6. FlushAccounted'
  BY DEF FlushAccounted, SendUntaken
<1>7. QED
  BY <1>4, <1>5, <1>6 DEF AgentGoal

\* One round of the flush.  "keep" is still_pending after it; the event of the round
\* is in it or accounted for.
LEMMA FlushOneInv ==
  ASSUME ProducersInv, agent = "flush", NEW keep \in Seq(AgentEvents), FlushOne(keep),
         Taken(Head(togo)) \/ Untaken(Head(togo)),
         UNCHANGED <<bridgeVars, delivered>>,
         ToSet(kept) \subseteq ToSet(keep), Head(togo) \in ToSet(keep) \/ Taken(Head(togo))
  PROVE  AgentGoal
<1>0. PICK head \in AgentEvents : head = Head(togo)
  BY HeadAndTail DEF ProducersInv, TypeOK, AgentTypeOK
<1>1. /\ togo \in Seq(AgentEvents) /\ togo # <<>>
      /\ Tail(togo) \in Seq(AgentEvents) /\ pending \in Seq(AgentEvents)
      /\ Len(togo) = 1 <=> Tail(togo) = <<>>
      /\ ToSet(togo) = {head} \cup ToSet(Tail(togo))
      /\ current = {}
  <2>1. togo \in Seq(AgentEvents) /\ togo # <<>> /\ pending \in Seq(AgentEvents)
        /\ current = {}
    BY DEF ProducersInv, TypeOK, AgentTypeOK
  <2>2. QED
    BY <1>0, <2>1, HeadAndTail
<1>2. /\ QueueTypeOK' /\ rejected' \subseteq AgentEvents /\ faults' \in 0 .. MaxFaults
      /\ Taken(head) => Accounted(head)'
      /\ \A f : Accounted(f) => Accounted(f)'
  BY <1>0, PostAccounts
<1>3. TypeOK'
  <2>1. AgentTypeOK'
    BY <1>1, <1>2 DEF ProducersInv, TypeOK, AgentTypeOK, FlushOne, KeepPending
  <2>2. BridgeTypeOK'
    BY DEF ProducersInv, TypeOK, BridgeTypeOK, bridgeVars
  <2>3. QED
    BY <1>2, <2>1, <2>2 DEF ProducersInv, TypeOK
<1>4. \A e \in ToSet(pending) : e \in ToSet(Tail(togo)) \cup ToSet(keep) \/ Accounted(e)'
  <2> SUFFICES ASSUME NEW e \in ToSet(pending), ~Accounted(e)'
               PROVE  e \in ToSet(Tail(togo)) \cup ToSet(keep)
    OBVIOUS
  <2>1. ~Accounted(e)
    BY <1>2
  <2>2. e \in {head} \cup ToSet(Tail(togo)) \cup ToSet(keep)
    BY <1>1, <2>1 DEF ProducersInv, FlushAccounted
  <2>3. CASE e = head
    BY <1>0, <1>2, <2>3
  <2>4. QED
    BY <2>2, <2>3
<1>5. CASE Len(togo) = 1
  <2>1. pending' = keep /\ agent' = "idle" /\ ToSet(Tail(togo)) = {}
    BY <1>1, <1>5 DEF FlushOne, KeepPending, ToSet
  <2>2. EventsAccounted'
    BY <1>1, <1>2, <1>4, <2>1 DEF ProducersInv, EventsAccounted, Accounted, FlushOne
  <2>3. QED
    BY <1>3, <2>1, <2>2 DEF AgentGoal, FlushAccounted
<1>6. CASE Len(togo) # 1
  <2>1. pending' = pending /\ kept' = keep /\ togo' = Tail(togo)
    BY <1>6 DEF FlushOne
  <2>2. EventsAccounted'
    BY <1>1, <1>2, <2>1 DEF ProducersInv, EventsAccounted, Accounted, FlushOne
  <2>3. FlushAccounted'
    BY <1>4, <2>1 DEF FlushAccounted
  <2>4. QED
    BY <1>3, <2>2, <2>3 DEF AgentGoal
<1>7. QED
  BY <1>5, <1>6

LEMMA FlushInv ==
  ASSUME ProducersInv, FlushTaken \/ FlushUntaken, UNCHANGED <<bridgeVars, delivered>>
  PROVE  AgentGoal
<1>1. kept \in Seq(AgentEvents) /\ togo \in Seq(AgentEvents)
  BY DEF ProducersInv, TypeOK, AgentTypeOK
<1>2. CASE FlushTaken
  BY <1>1, <1>2, FlushOneInv DEF FlushTaken
<1>3. CASE FlushUntaken
  <2>1. togo # <<>> /\ Head(togo) \in AgentEvents
    BY <1>1, <1>3, HeadAndTail DEF ProducersInv, TypeOK, AgentTypeOK, FlushUntaken
  <2>2. /\ Append(kept, Head(togo)) \in Seq(AgentEvents)
        /\ ToSet(Append(kept, Head(togo))) = ToSet(kept) \cup {Head(togo)}
    BY <1>1, <2>1, AppendToSet
  <2>3. QED
    BY <1>3, <2>2, FlushOneInv DEF FlushUntaken
<1>4. QED
  BY <1>2, <1>3

LEMMA CrashInv ==
  ASSUME ProducersInv, AgentCrash, UNCHANGED <<bridgeVars, delivered>>
  PROVE  AgentGoal
<1>1. TypeOK'
  <2>1. <<>> \in Seq(AgentEvents) /\ faults' \in 0 .. MaxFaults
    BY DEF ProducersInv, TypeOK, AgentTypeOK, AgentCrash, Fault
  <2>2. line' \in [AgentEvents -> {"new", "written", "read", "missed", "lost"}]
    BY DEF ProducersInv, TypeOK, AgentTypeOK, AgentCrash
  <2>3. AgentTypeOK'
    BY <2>1, <2>2 DEF ProducersInv, TypeOK, AgentTypeOK, AgentCrash
  <2>4. QED
    BY <2>3 DEF ProducersInv, TypeOK, QueueTypeOK, BridgeTypeOK, AgentCrash, queueVars, bridgeVars
<1>2. ASSUME NEW e \in AgentEvents, line'[e] = "read"
      PROVE  Accounted(e)'
  <2>1. line[e] = "read" /\ e \notin current \cup ToSet(pending)
    BY <1>2 DEF AgentCrash
  <2>2. Accounted(e)
    BY <2>1 DEF ProducersInv, EventsAccounted, Accounted
  <2>3. QED
    BY <2>2 DEF Accounted, HasRow, AgentCrash, queueVars
<1>3. EventsAccounted' /\ FlushAccounted'
  BY <1>2 DEF EventsAccounted, FlushAccounted, Accounted, AgentCrash
<1>4. QED
  BY <1>1, <1>3 DEF AgentGoal

LEMMA RestartInv ==
  ASSUME ProducersInv, AgentRestart, UNCHANGED <<bridgeVars, delivered>>
  PROVE  AgentGoal
<1>1. TypeOK'
  BY DEF ProducersInv, TypeOK, QueueTypeOK, AgentTypeOK, BridgeTypeOK, AgentRestart, queueVars,
         bridgeVars
<1>2. EventsAccounted' /\ FlushAccounted'
  BY DEF ProducersInv, TypeOK, AgentTypeOK, EventsAccounted, FlushAccounted, Accounted, HasRow,
         AgentRestart, queueVars
<1>3. QED
  BY <1>1, <1>2 DEF AgentGoal

\* The agent takes no part in what the bridge has caught.
LEMMA AgentStepInv ==
  ASSUME ProducersInv, AgentStep, UNCHANGED <<bridgeVars, delivered>>
  PROVE  ProducersInv'
<1>1. AgentGoal
  BY WriteLineInv, ReadLineInv, SendTakenInv, SendUntakenInv, FlushInv, CrashInv, RestartInv
     DEF AgentStep
<1>2. RowsCaught' /\ RunCaught'
  BY DEF ProducersInv, RowsCaught, RunCaught, bridgeVars
<1>3. QED
  BY <1>1, <1>2 DEF AgentGoal, ProducersInv

-----------------------------------------------------------------------------
(* The bridge.                                                             *)

BridgeGoal == TypeOK' /\ RowsCaught' /\ RunCaught'

\* A step that leaves the queue and the agent alone keeps their types.
LEMMA BridgeTypes ==
  ASSUME ProducersInv, QueueTypeOK', BridgeTypeOK', UNCHANGED <<agentVars, faults, delivered>>
  PROVE  TypeOK'
<1>1. AgentTypeOK'
  BY DEF ProducersInv, TypeOK, AgentTypeOK, agentVars
<1>2. QED
  BY <1>1 DEF ProducersInv, TypeOK

LEMMA TickInv ==
  ASSUME ProducersInv, Tick, UNCHANGED <<agentVars, faults, delivered>>
  PROVE  BridgeGoal
<1>1. BridgeTypeOK'
  BY DEF ProducersInv, TypeOK, BridgeTypeOK, Tick
<1>2. RowsCaught' /\ RunCaught'
  BY DEF ProducersInv, TypeOK, BridgeTypeOK, RowsCaught, RunCaught, Tick
<1>3. QED
  BY <1>1, <1>2, BridgeTypes DEF BridgeGoal, ProducersInv, TypeOK, QueueTypeOK, Tick, queueVars

\* A row that is written while a run is under way is not of the window the run has to
\* catch, and one that is written at all is not older than any completed run.
LEMMA ShieldWritesInv ==
  ASSUME ProducersInv, NEW r \in Rows, ShieldWrites(r), UNCHANGED <<agentVars, faults, delivered>>
  PROVE  BridgeGoal
<1>1. /\ created' = [created EXCEPT ![r] = now] /\ now \in Nat /\ lastStart <= now
      /\ created \in [Rows -> {Unwritten} \cup 0 .. now] /\ Lookback \in Nat
      /\ since \in Int /\ lastStart \in Nat
  BY DEF ProducersInv, TypeOK, BridgeTypeOK, ShieldWrites
<1>2. BridgeTypeOK'
  BY <1>1 DEF ProducersInv, TypeOK, BridgeTypeOK, ShieldWrites
<1>3. RowsCaught'
  BY <1>1 DEF ProducersInv, RowsCaught, ShieldWrites
<1>4. RunCaught'
  <2> SUFFICES ASSUME stage # 0 PROVE RunCaught'
    BY DEF RunCaught, ShieldWrites
  <2>1. since + Lookback <= now
    BY DEF ProducersInv, RunCaught
  <2>2. \A q \in Exportable : created'[q] # Unwritten /\ created'[q] < since + Lookback
                               => created'[q] = created[q]
    BY <1>1, <2>1
  <2>3. QED
    BY <1>1, <2>1, <2>2 DEF ProducersInv, RunCaught, ShieldWrites, Unwritten
<1>5. QED
  BY <1>2, <1>3, <1>4, BridgeTypes
     DEF BridgeGoal, ProducersInv, TypeOK, QueueTypeOK, ShieldWrites, queueVars

LEMMA BridgeStartInv ==
  ASSUME ProducersInv, BridgeStart, UNCHANGED <<agentVars, faults, delivered>>
  PROVE  BridgeGoal
<1>1. BridgeTypeOK'
  <2>1. /\ now \in 0 .. MaxNow /\ runs \in 0 .. MaxRuns /\ MaxNow \in Nat /\ MaxRuns \in Nat
        /\ Lookback \in Nat
    BY DEF ProducersInv, TypeOK, BridgeTypeOK
  <2>2. now - Lookback \in -Lookback .. now /\ runs + 1 \in 0 .. MaxRuns
    BY <2>1 DEF BridgeStart
  <2>3. fetched' \in BOOLEAN /\ cut' \in BOOLEAN /\ rows' = {} /\ stage' = 1
    BY DEF BridgeStart
  <2>4. QED
    BY <2>1, <2>2, <2>3 DEF ProducersInv, TypeOK, BridgeTypeOK, BridgeStart
<1>2. RowsCaught'
  BY DEF ProducersInv, RowsCaught, BridgeStart
<1>3. RunCaught'
  BY DEF ProducersInv, TypeOK, BridgeTypeOK, RunCaught, BridgeStart
<1>4. QED
  BY <1>1, <1>2, <1>3, BridgeTypes
     DEF BridgeGoal, ProducersInv, TypeOK, QueueTypeOK, BridgeStart, queueVars

\* Unless it left something out, the query has every row of the window and the table.
LEMMA FetchInv ==
  ASSUME ProducersInv, Fetch \/ FetchFails, UNCHANGED <<agentVars, faults, delivered>>
  PROVE  BridgeGoal
<1>1. rows' \subseteq Rows /\ fetched' = TRUE
  BY DEF Fetch, FetchFails, Oldest, Candidates
<1>2. cut' \in BOOLEAN /\ (~cut' => ~cut /\ rows' = Candidates)
  BY DEF Fetch, FetchFails, ProducersInv, TypeOK, BridgeTypeOK
<1>3. UNCHANGED <<queueVars, created, now, runs, stage, since, lastStart, gap, caught>>
      /\ stage # 0 /\ stage \in 0 .. 3
  BY DEF Fetch, FetchFails, ProducersInv, TypeOK, BridgeTypeOK
<1>4. BridgeTypeOK'
  BY <1>1, <1>2, <1>3 DEF ProducersInv, TypeOK, BridgeTypeOK
<1>5. RowsCaught'
  BY <1>3 DEF ProducersInv, RowsCaught
<1>6. RunCaught'
  <2> SUFFICES ASSUME ~cut', NEW r \in Exportable, NEW n \in 1 .. 3,
                      created[r] # Unwritten, TableOf[r] = Tables[n],
                      since <= created[r], created[r] < since + Lookback,
                      n < stage \/ n = stage
               PROVE  r \in caught \/ (n = stage /\ r \in rows')
    BY <1>1, <1>3 DEF ProducersInv, RunCaught
  <2>1. CASE n = stage
    <3>1. created[r] >= since
      BY <1>3 DEF ProducersInv, TypeOK, BridgeTypeOK, Unwritten
    <3>2. QED
      BY <1>2, <2>1, <3>1 DEF Candidates, InTable, InWindow
  <2>2. CASE n < stage
    BY <1>2, <1>3, <2>2 DEF ProducersInv, RunCaught
  <2>3. QED
    BY <2>1, <2>2
<1>7. QED
  BY <1>3, <1>4, <1>5, <1>6, BridgeTypes
     DEF BridgeGoal, ProducersInv, TypeOK, QueueTypeOK, queueVars

LEMMA EnqueueRowInv ==
  ASSUME ProducersInv, NEW r \in Rows, EnqueueRow(r), UNCHANGED <<agentVars, faults, delivered>>
  PROVE  BridgeGoal /\ \A k : HasRow(k) => HasRow(k)'
<1>1. QueueTypeOK' /\ \A k : HasRow(k) => HasRow(k)'
  <2>1. CASE Converts(r)
    <3>1. EventOf(r) \in Events
      BY <2>1 DEF ProducersInv, TypeOK, BridgeTypeOK, Converts, EventOf, KeyOf
    <3>2. QED
      BY <2>1, <3>1, EnqueueAccounts DEF EnqueueRow, ProducersInv, TypeOK
  <2>2. CASE ~Converts(r)
    BY <2>2 DEF EnqueueRow, ProducersInv, TypeOK, QueueTypeOK, HasRow, queueVars
  <2>3. QED
    BY <2>1, <2>2
<1>2. /\ rows' = rows \ {r} /\ caught' = IF r \in Exportable THEN caught \cup {r} ELSE caught
      /\ UNCHANGED <<created, now, runs, stage, since, fetched, cut, lastStart, gap>>
  BY DEF EnqueueRow, Converts
<1>3. BridgeTypeOK'
  BY <1>2 DEF ProducersInv, TypeOK, BridgeTypeOK
<1>4. RowsCaught' /\ RunCaught'
  BY <1>2 DEF ProducersInv, RowsCaught, RunCaught
<1>5. QED
  BY <1>1, <1>3, <1>4, BridgeTypes DEF BridgeGoal

LEMMA NextTableInv ==
  ASSUME ProducersInv, NextTable, UNCHANGED <<agentVars, faults, delivered>>
  PROVE  BridgeGoal
<1>1. BridgeTypeOK'
  <2>1. stage' \in 0 .. 3
    BY DEF NextTable
  <2>3. fetched' \in BOOLEAN /\ rows' = {}
    BY DEF NextTable
  <2>2. QED
    BY <2>1, <2>3 DEF ProducersInv, TypeOK, BridgeTypeOK, NextTable
<1>2. RowsCaught'
  BY DEF ProducersInv, RowsCaught, NextTable
<1>3. RunCaught'
  BY DEF ProducersInv, RunCaught, NextTable
<1>4. QED
  BY <1>1, <1>2, <1>3, BridgeTypes
     DEF BridgeGoal, ProducersInv, TypeOK, QueueTypeOK, NextTable, queueVars

\* What is older than the run was either caught by the runs before it, or is of its
\* window and in one of the three tables it has been through.
LEMMA FinishInv ==
  ASSUME ProducersInv, Finish, UNCHANGED <<agentVars, faults, delivered>>
  PROVE  BridgeGoal
<1>1. /\ since + Lookback <= now /\ since \in Int /\ lastStart \in Nat /\ now \in 0 .. MaxNow
      /\ since + Lookback \in Nat /\ Lookback \in Nat
  BY DEF ProducersInv, TypeOK, BridgeTypeOK, RunCaught, Finish
<1>2. BridgeTypeOK'
  <2>1. /\ gap' = (gap \/ cut \/ since > lastStart) /\ lastStart' = since + Lookback
        /\ stage' = 0 /\ since' = 0 /\ rows' = {} /\ fetched' = FALSE /\ cut' = FALSE
        /\ UNCHANGED <<created, now, runs, caught>>
    BY DEF Finish, EndRun
  <2>2. gap' \in BOOLEAN /\ fetched' \in BOOLEAN /\ cut' \in BOOLEAN
    BY <2>1
  <2>3. lastStart' \in 0 .. now' /\ since' \in -Lookback .. now' /\ stage' \in 0 .. 3
    BY <1>1, <2>1
  <2>4. QED
    BY <2>1, <2>2, <2>3 DEF ProducersInv, TypeOK, BridgeTypeOK
<1>3. RowsCaught'
  <2> SUFFICES ASSUME ~gap', NEW r \in Exportable, created'[r] \in 0 .. lastStart' - 1
               PROVE  r \in caught'
    BY Zenon DEF RowsCaught
  <2>0. /\ lastStart' = since + Lookback /\ UNCHANGED <<created, caught>>
        /\ created[r] \in 0 .. (since + Lookback) - 1
    <3>1. lastStart' = since + Lookback /\ created' = created /\ caught' = caught
      BY DEF Finish
    <3>2. created[r] \in 0 .. (since + Lookback) - 1
      BY <3>1, Zenon
    <3>3. QED
      BY <3>1, <3>2
  <2>1. ~gap /\ ~cut /\ since <= lastStart
    <3>1. gap' = (gap \/ cut \/ since > lastStart)
      BY DEF Finish
    <3>2. ~gap /\ ~cut /\ ~(since > lastStart)
      BY <3>1, Zenon
    <3>3. QED
      BY <1>1, <3>2
  <2>2. CASE created[r] < lastStart
    BY <1>1, <2>0, <2>1, <2>2 DEF ProducersInv, RowsCaught
  <2>3. CASE created[r] >= lastStart
    <3>1. PICK n \in 1 .. 3 : TableOf[r] = Tables[n]
      OBVIOUS
    <3>2. created[r] # Unwritten /\ since <= created[r] /\ created[r] < since + Lookback
      BY <1>1, <2>0, <2>1, <2>3 DEF Unwritten
    <3>3. n < stage \/ (n = stage /\ fetched)
      BY DEF Finish
    <3>4. QED
      BY <2>0, <2>1, <3>1, <3>2, <3>3 DEF ProducersInv, RunCaught, Finish
  <2>4. QED
    BY <1>1, <2>0, <2>2, <2>3
<1>4. RunCaught'
  BY DEF RunCaught, Finish, EndRun
<1>5. QED
  BY <1>2, <1>3, <1>4, BridgeTypes
     DEF BridgeGoal, ProducersInv, TypeOK, QueueTypeOK, Finish, queueVars

LEMMA RunFailsInv ==
  ASSUME ProducersInv, RunFails, UNCHANGED <<agentVars, faults, delivered>>
  PROVE  BridgeGoal
<1>1. BridgeTypeOK'
  <2>1. since' \in -Lookback .. now' /\ stage' \in 0 .. 3
    BY DEF ProducersInv, TypeOK, BridgeTypeOK, RunFails, EndRun
  <2>2. rows' = {} /\ fetched' = FALSE /\ cut' = FALSE
    BY DEF RunFails, EndRun
  <2>3. QED
    BY <2>1, <2>2 DEF ProducersInv, TypeOK, BridgeTypeOK, RunFails
<1>2. RowsCaught' /\ RunCaught'
  BY DEF ProducersInv, RowsCaught, RunCaught, RunFails, EndRun
<1>3. QED
  BY <1>1, <1>2, BridgeTypes
     DEF BridgeGoal, ProducersInv, TypeOK, QueueTypeOK, RunFails, queueVars

LEMMA BridgeStepInv ==
  ASSUME ProducersInv, BridgeStep, UNCHANGED <<agentVars, faults, delivered>>
  PROVE  ProducersInv'
<1>1. BridgeGoal
  BY TickInv, ShieldWritesInv, BridgeStartInv, FetchInv, EnqueueRowInv, NextTableInv, FinishInv,
     RunFailsInv DEF BridgeStep
<1>2. \A k : HasRow(k) => HasRow(k)'
  <2>1. CASE \E r \in Rows : EnqueueRow(r)
    BY <2>1, EnqueueRowInv
  <2>2. CASE UNCHANGED queueVars
    BY <2>2 DEF HasRow, queueVars
  <2>3. QED
    BY <2>1, <2>2 DEF BridgeStep, Tick, BridgeStart, Fetch, FetchFails, NextTable, Finish,
                      RunFails, ShieldWrites
<1>3. \A e : Accounted(e) => Accounted(e)'
  BY <1>2, StaysAccounted DEF agentVars
<1>4. EventsAccounted' /\ FlushAccounted'
  BY <1>3 DEF ProducersInv, EventsAccounted, FlushAccounted, Accounted, agentVars
<1>5. QED
  BY <1>1, <1>4 DEF BridgeGoal, ProducersInv

-----------------------------------------------------------------------------
(* The queue is emptied, and all together.                                 *)

LEMMA DeliverInv ==
  ASSUME ProducersInv, Deliver
  PROVE  ProducersInv'
<1>1. PICK B \in (SUBSET queue) \ {{}} :
        /\ AckBatch({e.key : e \in B})
        /\ delivered' = delivered \cup {e.key : e \in B}
        /\ UNCHANGED <<agentVars, faults, bridgeVars>>
  BY DEF Deliver
<1>2. B \subseteq queue /\ queue \subseteq Events
  BY DEF ProducersInv, TypeOK, QueueTypeOK
<1>3. QueueTypeOK'
  BY <1>1, <1>2 DEF ProducersInv, TypeOK, QueueTypeOK, AckBatch
<1>4. delivered' \subseteq Keys
  BY <1>1, <1>2 DEF ProducersInv, TypeOK, Keys
<1>5. TypeOK'
  BY <1>1, <1>3, <1>4 DEF ProducersInv, TypeOK, AgentTypeOK, BridgeTypeOK, agentVars, bridgeVars
<1>6. \A k : HasRow(k) => HasRow(k)' \/ k \in delivered'
  BY <1>1 DEF HasRow, AckBatch
<1>7. \A e : Accounted(e) => Accounted(e)'
  BY <1>1, <1>6, StaysAccounted DEF agentVars
<1>8. EventsAccounted' /\ FlushAccounted'
  BY <1>1, <1>7 DEF ProducersInv, EventsAccounted, FlushAccounted, Accounted, agentVars
<1>9. RowsCaught' /\ RunCaught'
  BY <1>1 DEF ProducersInv, RowsCaught, RunCaught, bridgeVars
<1>10. QED
  BY <1>5, <1>8, <1>9 DEF ProducersInv

LEMMA ProducersInvariant == Spec => []ProducersInv
<1>1. ASSUME ProducersInv, Next PROVE ProducersInv'
  BY <1>1, AgentStepInv, BridgeStepInv, DeliverInv DEF Next
<1>2. ASSUME ProducersInv, UNCHANGED vars PROVE ProducersInv'
  <2>1. TypeOK'
    BY <1>2 DEF ProducersInv, TypeOK, QueueTypeOK, AgentTypeOK, BridgeTypeOK, vars, queueVars,
                agentVars, bridgeVars
  <2>2. EventsAccounted' /\ FlushAccounted'
    BY <1>2 DEF ProducersInv, EventsAccounted, FlushAccounted, Accounted, HasRow, vars, queueVars,
                agentVars
  <2>3. RowsCaught' /\ RunCaught'
    BY <1>2 DEF ProducersInv, RowsCaught, RunCaught, vars, bridgeVars
  <2>4. QED
    BY <2>1, <2>2, <2>3 DEF ProducersInv
<1>3. QED
  BY <1>1, <1>2, InitInv, PTL DEF Spec

\* The types of the agent, the bridge and the queue.
THEOREM TypeCorrect == Spec => []TypeOK
<1>1. ProducersInv => TypeOK
  BY DEF ProducersInv
<1>2. QED
  BY <1>1, ProducersInvariant, PTL

\* What the agent has read is in its memory, in the queue, delivered, or answered 202
\* without having been stored (agent.py:79, agent.py:92).
THEOREM NothingUnaccounted == Spec => []EventsAccounted
<1>1. ProducersInv => EventsAccounted
  BY DEF ProducersInv
<1>2. QED
  BY <1>1, ProducersInvariant, PTL

\* Runs that join up and cut nothing off miss no exportable row (shield_bridge.py:404).
THEOREM NoRowMissed == Spec => []RowsCaught
<1>1. ProducersInv => RowsCaught
  BY DEF ProducersInv
<1>2. QED
  BY <1>1, ProducersInvariant, PTL
=============================================================================
