------------------------------ MODULE Producers ------------------------------
(***************************************************************************)
(* The two producers of the RPi, the agent and the bridge, on the one      *)
(* queue they fill, while the sync manager empties it.  Of the sync        *)
(* manager only the promise it is proved to keep is left here              *)
(* (DeliveryPromise): rows go once the server has confirmed them, any of   *)
(* them and any number at a time.                                          *)
(***************************************************************************)
EXTENDS OtAgent, ShieldBridge

CONSTANT MaxInputs  \* bound: lines and rows written

\* Whatever the bridge can make of a row is an event.
ASSUME ProducersAssumption ==
  /\ MaxInputs \in Nat
  /\ \A r \in Exportable, n \in 0 .. MaxRuns :
       [key |-> <<r, n>>, at |-> 0, data |-> r] \in Events

VARIABLE delivered  \* keys that the server has confirmed

vars == <<queueVars, agentVars, faults, bridgeVars, delivered>>

TypeOK == /\ QueueTypeOK
          /\ AgentTypeOK
          /\ BridgeTypeOK
          /\ delivered \subseteq Keys

Init == /\ QueueInit
        /\ AgentInit
        /\ BridgeInit
        /\ delivered = {}

Deliver == \E S \in (SUBSET queue) \ {{}} :
             /\ AckBatch({e.key : e \in S})
             /\ delivered' = delivered \cup {e.key : e \in S}
             /\ UNCHANGED <<agentVars, faults, bridgeVars>>

Inputs == Cardinality({e \in AgentEvents : line[e] # "new"})
          + Cardinality({r \in Rows : created[r] # Unwritten})

Next == \/ AgentStep /\ UNCHANGED <<bridgeVars, delivered>> /\ Inputs' <= MaxInputs
        \/ BridgeStep /\ UNCHANGED <<agentVars, faults, delivered>> /\ Inputs' <= MaxInputs
        \/ Deliver

Spec == Init /\ [][Next]_vars

-----------------------------------------------------------------------------
(* Properties.                                                             *)

\* Where an event that the agent has read can be: in its hands, queued or delivered
\* under its key, or gone in one of the two ways the code has to lose it, a 202 for
\* an event that was not stored and the end of the process.
EventsAccounted ==
  \A e \in AgentEvents :
    line[e] = "read" => \/ e \in current \cup ToSet(pending) \cup rejected
                        \/ HasRow(e.key)
                        \/ e.key \in delivered

\* As long as every completed run began within a look-back of the one before it and
\* no query failed or met the limit, each exportable row that is older than the last
\* completed run has been enqueued, whatever runs failed in between and whenever
\* Shield wrote it (shield_bridge.py:17, "cursor de posicion").
RowsCaught == ~gap => \A r \in Exportable :
                        created[r] \in 0 .. lastStart - 1 => r \in caught

-----------------------------------------------------------------------------
(* What makes them inductive.                                              *)

Accounted(e) == HasRow(e.key) \/ e.key \in delivered \/ e \in rejected

\* While the pending events are flushed, each of them has its turn before it, failed
\* again, or is accounted for.
FlushAccounted ==
  agent = "flush" => \A e \in ToSet(pending) :
                       e \in ToSet(togo) \cup ToSet(kept) \/ Accounted(e)

\* The tables a run has left behind: unless a query left something out, every
\* exportable row of the window that was there when the run began is caught, but for
\* the rows of this table that are still to be enqueued.
RunCaught ==
  stage # 0 =>
    /\ since + Lookback <= now
    /\ ~cut => \A r \in Exportable, n \in 1 .. 3 :
         (/\ created[r] # Unwritten /\ TableOf[r] = Tables[n]
          /\ since <= created[r] /\ created[r] < since + Lookback
          /\ n < stage \/ (n = stage /\ fetched))
         => r \in caught \/ (n = stage /\ r \in rows)

ProducersInv == TypeOK /\ EventsAccounted /\ FlushAccounted /\ RowsCaught /\ RunCaught
=============================================================================
