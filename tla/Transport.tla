----------------------------- MODULE Transport ------------------------------
(***************************************************************************)
(* What the sync manager sees of the central server through IPTransport    *)
(* (rpi/transport.py): GET /health answers or not, and one POST of an      *)
(* event either returns 200/201/202 or fails.  A POST that fails may still *)
(* have been stored by the server (the answer was lost or came too late).  *)
(*                                                                         *)
(* "received" is the server: the events it has stored.  The server itself  *)
(* is outside the repository; that a success answer means "stored" is the  *)
(* assumption the custody protocol is built on.                            *)
(*                                                                         *)
(* Everything that goes wrong, here and in the sync manager, is a fault of *)
(* one of FaultKinds, and a behaviour has at most MaxFaults of them: after *)
(* the last one the channel comes back and stays.                          *)
(***************************************************************************)
EXTENDS Naturals

CONSTANTS FaultKinds, MaxFaults

ASSUME TransportAssumption == MaxFaults \in Nat

VARIABLES up,        \* the server is reachable
          received,  \* the events the server has stored
          faults     \* how many faults have happened

transportVars == <<up, received, faults>>

TransportInit == /\ up \in BOOLEAN
                 /\ received = {}
                 /\ faults = 0

Fault(kind) == /\ kind \in FaultKinds
               /\ faults < MaxFaults
               /\ faults' = faults + 1

LinkDown == /\ up
            /\ up' = FALSE
            /\ Fault("link")
            /\ UNCHANGED received

LinkUp == /\ ~up
          /\ up' = TRUE
          /\ UNCHANGED <<received, faults>>

\* health_check(): 200 within the timeout.
HealthCheck == up

\* Mutant: send() reports success without an answer of the server.
PostUnconfirmed(e) == UNCHANGED transportVars

\* send() returns success: the server stored the event.
PostSucceeds(e) == /\ up
                   /\ received' = received \cup {e}
                   /\ UNCHANGED <<up, faults>>

\* send() returns failure: no connection, an error status, or an answer lost.
PostFails(e) == \/ ~up /\ UNCHANGED transportVars
                \/ /\ up
                   /\ Fault("post")
                   /\ received' \in {received, received \cup {e}}
                   /\ UNCHANGED up
=============================================================================
