------------------------------- MODULE OtAgent -------------------------------
(***************************************************************************)
(* The agent that reads events line by line and posts them to the proxy on *)
(* the same RPi (rpi/agent.py), and the handler that enqueues them         *)
(* (rpi/proxy.py, POST /events).  One thread: a send, with the flush of    *)
(* the pending events that a success starts, ends before the next line is  *)
(* read.  The pending list is in memory, the queue is on disk.             *)
(*                                                                         *)
(* An event of AgentEvents is a line that parse_line() takes; every other  *)
(* line is skipped without a trace.  The agent sends no Authorization      *)
(* header and the handler wants a token with scope "write", so on its own  *)
(* it is always answered 401; "authorized" is a deployment in which        *)
(* something between the two adds the header.                              *)
(***************************************************************************)
EXTENDS QueueStore, Sequences, SequencesExt

CONSTANTS AgentEvents,  \* events whose lines are written to the source
          MaxFaults     \* bound: failed requests, rejections and crashes

ASSUME AgentAssumption == AgentEvents \subseteq Events /\ MaxFaults \in Nat

VARIABLES line,        \* of each event: "new", "written", "read", "missed", "lost"
          agent,       \* "down", "idle", "send" or "flush"
          current,     \* the event send() posts, {} if none
          pending,     \* ProxyClient._pending
          togo,        \* what the loop of _flush_pending() has still to post
          kept,        \* still_pending
          authorized,
          rejected,    \* history: events answered 202 that were not stored
          faults

agentVars == <<line, agent, current, pending, togo, kept, authorized, rejected>>

AgentTypeOK ==
  /\ line \in [AgentEvents -> {"new", "written", "read", "missed", "lost"}]
  /\ agent \in {"down", "idle", "send", "flush"}
  /\ current \in {{}} \cup {{e} : e \in AgentEvents}
  /\ (current # {} <=> agent = "send")
  /\ {pending, togo, kept} \subseteq Seq(AgentEvents)
  /\ (agent = "flush" <=> togo # <<>>)
  /\ authorized \in BOOLEAN
  /\ rejected \subseteq AgentEvents
  /\ faults \in 0 .. MaxFaults

AgentInit == /\ line = [e \in AgentEvents |-> "new"]
             /\ agent = "idle" /\ current = {}
             /\ pending = <<>> /\ togo = <<>> /\ kept = <<>>
             /\ authorized \in BOOLEAN
             /\ rejected = {}
             /\ faults = 0

Fault == faults < MaxFaults /\ faults' = faults + 1

-----------------------------------------------------------------------------
(* The lines.  The file is opened at its end, and a socket or a pipe is    *)
(* gone with the process: nobody reads what was written for an agent that  *)
(* is down.                                                                *)

WriteLine(e) ==
  /\ line[e] = "new"
  /\ line' = [line EXCEPT ![e] = IF agent = "down" THEN "missed" ELSE "written"]
  /\ UNCHANGED <<queueVars, agent, current, pending, togo, kept, authorized, rejected,
                 faults>>

ReadLine(e) ==
  /\ agent = "idle"
  /\ line[e] = "written"
  /\ line' = [line EXCEPT ![e] = "read"]
  /\ agent' = "send" /\ current' = {e}
  /\ UNCHANGED <<queueVars, pending, togo, kept, authorized, rejected, faults>>

-----------------------------------------------------------------------------
(* One POST /events.                                                       *)

\* 202: the event is stored, or it was there already.
Stored(e) == /\ authorized
             /\ Enqueue(e)
             /\ UNCHANGED <<rejected, faults>>

\* 202 as well: enqueue() raised and the handler only counted the event.
Rejected(e) == /\ authorized
               /\ Fault
               /\ rejected' = rejected \cup {e}
               /\ UNCHANGED queueVars

\* The event was stored and the answer came too late or never.
AnswerLost(e) == /\ authorized
                 /\ Fault
                 /\ Enqueue(e)
                 /\ UNCHANGED rejected

\* 401, 503, or no proxy.
Refused == /\ IF authorized THEN Fault ELSE UNCHANGED faults
           /\ UNCHANGED <<queueVars, rejected>>

Taken(e) == Stored(e) \/ Rejected(e)
Untaken(e) == AnswerLost(e) \/ Refused

-----------------------------------------------------------------------------
(* send() and _flush_pending().                                            *)

SendTaken(e) ==
  /\ e \in current
  /\ Taken(e)
  /\ current' = {}
  /\ agent' = IF pending = <<>> THEN "idle" ELSE "flush"
  /\ togo' = pending /\ kept' = <<>>
  /\ UNCHANGED <<line, pending, authorized>>

SendUntaken(e) ==
  /\ e \in current
  /\ Untaken(e)
  /\ current' = {} /\ agent' = "idle"
  /\ pending' = Append(pending, e)
  /\ UNCHANGED <<line, togo, kept, authorized>>

\* Mutant: a failed event is forgotten once the flush has tried it.
KeepNone(keep) == <<>>

\* self._pending = still_pending, after the loop.
KeepPending(keep) == keep

\* The next event of the loop; "keep" is still_pending after it.
FlushOne(keep) ==
  /\ kept' = IF Len(togo) = 1 THEN <<>> ELSE keep
  /\ pending' = IF Len(togo) = 1 THEN KeepPending(keep) ELSE pending
  /\ togo' = Tail(togo)
  /\ agent' = IF Len(togo) = 1 THEN "idle" ELSE "flush"
  /\ UNCHANGED <<line, current, authorized>>

FlushTaken == /\ agent = "flush"
              /\ Taken(Head(togo))
              /\ FlushOne(kept)

FlushUntaken == /\ agent = "flush"
                /\ Untaken(Head(togo))
                /\ FlushOne(Append(kept, Head(togo)))

-----------------------------------------------------------------------------
\* The process ends, and the events it held in memory with it.
AgentCrash ==
  /\ agent # "down"
  /\ Fault
  /\ line' = [e \in AgentEvents |->
                CASE line[e] = "written" -> "missed"
                  [] e \in current \cup ToSet(pending) -> "lost"
                  [] OTHER -> line[e]]
  /\ agent' = "down" /\ current' = {}
  /\ pending' = <<>> /\ togo' = <<>> /\ kept' = <<>>
  /\ UNCHANGED <<queueVars, authorized, rejected>>

AgentRestart == /\ agent = "down"
                /\ agent' = "idle"
                /\ UNCHANGED <<queueVars, line, current, pending, togo, kept, authorized,
                               rejected, faults>>

AgentStep == \/ \E e \in AgentEvents : WriteLine(e) \/ ReadLine(e)
                                       \/ SendTaken(e) \/ SendUntaken(e)
             \/ FlushTaken \/ FlushUntaken
             \/ AgentCrash \/ AgentRestart
=============================================================================
