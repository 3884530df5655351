--------------------------- MODULE CustodyCallers ---------------------------
(***************************************************************************)
(* CustodyManager under concurrent use.  Its header offers one custody.db  *)
(* to the sync manager, the sync server and the LoRa nodes, and its        *)
(* connections are per thread, so the calls of several users interleave    *)
(* between transactions.                                                   *)
(*                                                                         *)
(* A caller does what _flush_queue does with one bundle: grant, send, then *)
(* ack with verify_hash (two steps) and is_safe_to_delete; or it transfers *)
(* the bundle to a next hop.  A reaper does what _retry_timed_out_custody  *)
(* does: reads timed_out() once and works through that list.               *)
(***************************************************************************)
EXTENDS CustodyManager

CONSTANTS Callers, Reapers, NoBundle,
          MaxFaults  \* bound: faults that end callers and reapers

ASSUME CallersAssumption == NoBundle \notin Bundles /\ MaxFaults \in Nat

VARIABLES pc,      \* where each caller is in its sequence of calls
          bundle,  \* the bundle each caller works on
          sent,    \* the hash of the payload each caller sends
          due,     \* what each reaper has still to do of its timed_out() list
          doomed,  \* the bundle a reaper is about to mark FAILED
          wins,    \* history: calls of ack or transfer that returned True,
                   \* since the row of the bundle was created
          faults

callerVars == <<pc, bundle, sent>>
reaperVars == <<due, doomed>>
vars == <<custodyVars, callerVars, reaperVars, wins, faults>>

TypeOK == /\ CustodyTypeOK
          /\ pc \in [Callers -> {"idle", "sending", "verify", "ack", "gate"}]
          /\ bundle \in [Callers -> Bundles \cup {NoBundle}]
          /\ sent \in [Callers -> Hashes \cup {NoHash}]
          /\ due \in [Reapers -> SUBSET Bundles]
          /\ doomed \in [Reapers -> Bundles \cup {NoBundle}]
          /\ wins \in [Bundles -> Nat]
          /\ faults \in 0 .. MaxFaults
          /\ \A c \in Callers : pc[c] = "idle" <=> bundle[c] = NoBundle

Init == /\ CustodyInit
        /\ pc = [c \in Callers |-> "idle"]
        /\ bundle = [c \in Callers |-> NoBundle]
        /\ sent = [c \in Callers |-> NoHash]
        /\ due = [r \in Reapers |-> {}]
        /\ doomed = [r \in Reapers |-> NoBundle]
        /\ wins = [b \in Bundles |-> 0]
        /\ faults = 0

-----------------------------------------------------------------------------
Goto(c, label) == pc' = [pc EXCEPT ![c] = label]

\* Mutant: the caller keeps hold of the bundle it is done with.
FinishHolding(c) == Goto(c, "idle") /\ UNCHANGED <<bundle, sent>>

\* The caller is done with its bundle.
Finish(c) == /\ Goto(c, "idle")
             /\ bundle' = [bundle EXCEPT ![c] = NoBundle]
             /\ sent' = [sent EXCEPT ![c] = NoHash]

Won(b) == wins' = IF HandOverWorks(b) THEN [wins EXCEPT ![b] = @ + 1] ELSE wins

Take(c, b, h) == /\ pc[c] = "idle"
                 /\ Grant(b, h)
                 /\ Goto(c, "sending")
                 /\ bundle' = [bundle EXCEPT ![c] = b]
                 /\ sent' = [sent EXCEPT ![c] = h]
                 /\ UNCHANGED <<reaperVars, wins, faults>>

SendFails(c) == /\ pc[c] = "sending"
                /\ IncrementRetry(bundle[c])
                /\ Finish(c)
                /\ UNCHANGED <<reaperVars, wins, faults>>

SendSucceeds(c) == /\ pc[c] = "sending"
                   /\ Goto(c, "verify")
                   /\ UNCHANGED <<custodyVars, bundle, sent, reaperVars, wins, faults>>

VerifyHash(c) == /\ pc[c] = "verify"
                 /\ IF HashMatches(bundle[c], sent[c])
                    THEN Goto(c, "ack") /\ UNCHANGED <<bundle, sent>>
                    ELSE Finish(c)
                 /\ UNCHANGED <<custodyVars, reaperVars, wins, faults>>

Ack(c) == /\ pc[c] = "ack"
          /\ AckUpdate(bundle[c])
          /\ Won(bundle[c])
          /\ IF HandOverWorks(bundle[c])
             THEN Goto(c, "gate") /\ UNCHANGED <<bundle, sent>>
             ELSE Finish(c)
          /\ UNCHANGED <<reaperVars, faults>>

PassOn(c) == /\ pc[c] = "sending"
             /\ Transfer(bundle[c])
             /\ Won(bundle[c])
             /\ Finish(c)
             /\ UNCHANGED <<reaperVars, faults>>

\* is_safe_to_delete() is read and the caller leaves with the answer.
Gate(c) == /\ pc[c] = "gate"
           /\ Finish(c)
           /\ UNCHANGED <<custodyVars, reaperVars, wins, faults>>

\* A fault: the callers C and the reapers R are gone with their processes, and so is
\* what these had in memory.  A fault of the network, say, ends none of them.
Die(C, R) == /\ faults < MaxFaults
             /\ faults' = faults + 1
             /\ pc' = [c \in Callers |-> IF c \in C THEN "idle" ELSE pc[c]]
             /\ bundle' = [c \in Callers |-> IF c \in C THEN NoBundle ELSE bundle[c]]
             /\ sent' = [c \in Callers |-> IF c \in C THEN NoHash ELSE sent[c]]
             /\ due' = [r \in Reapers |-> IF r \in R THEN {} ELSE due[r]]
             /\ doomed' = [r \in Reapers |-> IF r \in R THEN NoBundle ELSE doomed[r]]
             /\ UNCHANGED <<custodyVars, wins>>

Scan(r) == /\ due[r] = {} /\ doomed[r] = NoBundle
           /\ TimedOut # {}
           /\ due' = [due EXCEPT ![r] = TimedOut]
           /\ UNCHANGED <<custodyVars, callerVars, doomed, wins, faults>>

Retry(r, b) == /\ b \in due[r] /\ doomed[r] = NoBundle
               /\ IncrementRetry(b)
               /\ due' = [due EXCEPT ![r] = @ \ {b}]
               /\ doomed' = IF custody[b] # "NONE" /\ NewRetries(b) > MaxAttempts
                            THEN [doomed EXCEPT ![r] = b]
                            ELSE doomed
               /\ UNCHANGED <<callerVars, wins, faults>>

Fail(r) == /\ doomed[r] # NoBundle
           /\ MarkFailed(doomed[r])
           /\ doomed' = [doomed EXCEPT ![r] = NoBundle]
           /\ UNCHANGED <<callerVars, due, wins, faults>>

Overdue(b) == /\ Expire(b)
              /\ UNCHANGED <<callerVars, reaperVars, wins, faults>>

\* A bundle somebody still works on; no call lasts the 24 hours a row must
\* have been ACKED before purge_acked() takes it.
InUse(b) == \/ \E c \in Callers : bundle[c] = b
            \/ \E r \in Reapers : b \in due[r] \/ doomed[r] = b

Purge(old) == /\ \A b \in old : custody[b] = "ACKED" /\ ~InUse(b)
              /\ old # {}
              /\ PurgeAcked(old)
              /\ wins' = [b \in Bundles |-> IF b \in old THEN 0 ELSE wins[b]]
              /\ UNCHANGED <<callerVars, reaperVars, faults>>

-----------------------------------------------------------------------------
CallerStep(c) == \/ \E b \in Bundles, h \in Hashes : Take(c, b, h)
                 \/ SendFails(c)
                 \/ SendSucceeds(c)
                 \/ VerifyHash(c)
                 \/ Ack(c)
                 \/ PassOn(c)
                 \/ Gate(c)

ReaperStep(r) == \/ Scan(r)
                 \/ \E b \in Bundles : Retry(r, b)
                 \/ Fail(r)

Next == \/ \E c \in Callers : CallerStep(c)
        \/ \E r \in Reapers : ReaperStep(r)
        \/ \E C \in SUBSET Callers, R \in SUBSET Reapers : Die(C, R)
        \/ \E b \in Bundles : Overdue(b)
        \/ \E old \in SUBSET Bundles : Purge(old)

Spec == Init /\ [][Next]_vars

-----------------------------------------------------------------------------
\* Responsibility for a bundle is handed over once: however the two-step acks,
\* the transfers, the reaper and repeated grants of several callers interleave,
\* at most one ack() or transfer() of a row returns True.
ExclusiveHandOver == \A b \in Bundles : wins[b] <= 1

\* The hash that ack() compared in its SELECT is still the hash of the row when
\* its separate UPDATE runs and when the gate is read: what is confirmed is
\* what was granted.
VerifiedHashStable ==
  \A c \in Callers : pc[c] \in {"ack", "gate"} => payloadHash[bundle[c]] = sent[c]
=============================================================================
