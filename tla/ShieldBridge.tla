---------------------------- MODULE ShieldBridge ----------------------------
(***************************************************************************)
(* The bridge from Tampico Shield to the queue (rpi/shield_bridge.py): a   *)
(* process that a timer starts, which reads the rows of three tables that  *)
(* are inside a look-back window and enqueues them.  It keeps nothing      *)
(* between two runs.  Shield writes at any moment, between two tables too. *)
(***************************************************************************)
EXTENDS QueueStore, Integers, Sequences

CONSTANTS Rows,        \* rows that Shield may write
          TableOf,     \* the table of each
          Exportable,  \* rows whose hash is right, or that may do without one
          Hashed,      \* rows with a sha256
          BatchLimit,  \* LIMIT of each query
          Lookback,    \* lookback_seconds
          MaxNow,      \* bound of the clock
          MaxRuns      \* bound: runs of the bridge

Tables == <<"alerts", "netprobe_events", "baseline_snapshots">>

ASSUME BridgeAssumption == /\ TableOf \in [Rows -> {Tables[n] : n \in 1 .. 3}]
                           /\ Exportable \subseteq Rows
                           /\ Hashed \subseteq Rows
                           /\ {BatchLimit, Lookback, MaxNow, MaxRuns} \subseteq Nat

VARIABLES created,    \* created_at of the rows written so far, Unwritten of the others
          now,
          runs,       \* runs started
          stage,      \* the table run() is at, 0 when no run is under way
          since,      \* lower end of the window
          rows,       \* fetched rows still to be enqueued
          fetched,    \* the query of this table has been made
          cut,        \* history: a query of this run left rows out
          lastStart,  \* history: start of the last run that was completed
          gap,        \* history: a completed run did not join the one before
          caught      \* history: rows that were enqueued

bridgeVars == <<created, now, runs, stage, since, rows, fetched, cut, lastStart, gap, caught>>

Unwritten == -1

BridgeTypeOK == /\ created \in [Rows -> {Unwritten} \cup 0 .. now]
                /\ now \in 0 .. MaxNow /\ runs \in 0 .. MaxRuns
                /\ stage \in 0 .. 3 /\ since \in -Lookback .. now
                /\ rows \subseteq Rows /\ (rows # {} => fetched)
                /\ fetched \in BOOLEAN /\ cut \in BOOLEAN /\ gap \in BOOLEAN
                /\ lastStart \in 0 .. now
                /\ caught \subseteq Exportable

BridgeInit == /\ created = [r \in Rows |-> Unwritten]
              /\ now = 0 /\ runs = 0
              /\ stage = 0 /\ since = 0 /\ rows = {} /\ fetched = FALSE
              /\ cut = FALSE /\ lastStart = 0 /\ gap = FALSE /\ caught = {}

\* The idempotency key: of the row and its hash, or a random one, which differs
\* from run to run.
KeyOf(r) == <<r, IF r \in Hashed THEN 0 ELSE runs>>

EventOf(r) == [key |-> KeyOf(r), at |-> 0, data |-> r]

-----------------------------------------------------------------------------
Tick == /\ now < MaxNow
        /\ now' = now + 1
        /\ UNCHANGED <<queueVars, created, runs, stage, since, rows, fetched, cut, lastStart,
                       gap, caught>>

\* Shield stamps a row when it writes it.
ShieldWrites(r) ==
  /\ created[r] = Unwritten
  /\ created' = [created EXCEPT ![r] = now]
  /\ UNCHANGED <<queueVars, now, runs, stage, since, rows, fetched, cut, lastStart, gap,
                 caught>>

\* run(): the window is fixed before the first query.
BridgeStart == /\ stage = 0
               /\ runs < MaxRuns
               /\ runs' = runs + 1
               /\ stage' = 1 /\ since' = now - Lookback
               /\ rows' = {} /\ fetched' = FALSE /\ cut' = FALSE
               /\ UNCHANGED <<queueVars, created, now, lastStart, gap, caught>>

\* Mutant: created_at > ?
AfterSince(r) == created[r] > since

\* created_at >= ?
InWindow(r) == created[r] >= since

InTable(r) == created[r] # Unwritten /\ TableOf[r] = Tables[stage]

Candidates == {r \in Rows : InTable(r) /\ InWindow(r)}

\* ORDER BY created_at ASC LIMIT ?
Oldest(C) == {B \in SUBSET C : /\ \/ Cardinality(B) = BatchLimit
                                  \/ B = C /\ Cardinality(C) < BatchLimit
                               /\ \A r \in B, q \in C \ B : created[r] <= created[q]}

Fetch == /\ stage # 0 /\ ~fetched
         /\ fetched' = TRUE
         /\ rows' \in Oldest(Candidates)
         /\ cut' = (cut \/ rows' # Candidates)
         /\ UNCHANGED <<queueVars, created, now, runs, stage, since, lastStart, gap, caught>>

\* A query that fails, because the table is locked or missing, reads as no rows.
FetchFails == /\ stage # 0 /\ ~fetched
              /\ fetched' = TRUE
              /\ rows' = {} /\ cut' = TRUE
              /\ UNCHANGED <<queueVars, created, now, runs, stage, since, lastStart, gap, caught>>

\* Mutant: the check only warns.
AnyRow(r) == TRUE

\* _verify_integrity() and what follows it in the converters.
Converts(r) == r \in Exportable

\* A row that does not convert is skipped and counted.
EnqueueRow(r) ==
  /\ r \in rows
  /\ \A q \in rows : created[r] <= created[q]
  /\ rows' = rows \ {r}
  /\ IF Converts(r)
     THEN Enqueue(EventOf(r)) /\ caught' = caught \cup {r}
     ELSE UNCHANGED <<queueVars, caught>>
  /\ UNCHANGED <<created, now, runs, stage, since, fetched, cut, lastStart, gap>>

NextTable == /\ stage \in 1 .. 2
             /\ fetched /\ rows = {}
             /\ stage' = stage + 1 /\ fetched' = FALSE
             /\ UNCHANGED <<queueVars, created, now, runs, since, rows, cut, lastStart, gap,
                            caught>>

\* The locals of run() are gone.
EndRun == /\ stage' = 0 /\ since' = 0
          /\ rows' = {} /\ fetched' = FALSE /\ cut' = FALSE

Finish == /\ stage = 3
          /\ fetched /\ rows = {}
          /\ EndRun
          /\ lastStart' = since + Lookback
          /\ gap' = (gap \/ cut \/ since > lastStart)
          /\ UNCHANGED <<queueVars, created, now, runs, caught>>

\* enqueue() raises, which ends the run for all tables, or the process is killed.
RunFails == /\ stage # 0
            /\ EndRun
            /\ UNCHANGED <<queueVars, created, now, runs, lastStart, gap, caught>>

BridgeStep == \/ Tick \/ BridgeStart \/ Fetch \/ FetchFails \/ NextTable \/ Finish
              \/ RunFails
              \/ \E r \in Rows : ShieldWrites(r) \/ EnqueueRow(r)
=============================================================================
