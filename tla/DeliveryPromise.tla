--------------------------- MODULE DeliveryPromise --------------------------
(***************************************************************************)
(* What the delivery pipeline promises, without threads, custody or        *)
(* network (rpi/sync_manager.py:11, "Ningun evento se borra hasta          *)
(* confirmacion explicita del destino"): an event is held from the moment  *)
(* it is accepted, the server only ever gets events that are held, and     *)
(* what the server does not have is not let go.                            *)
(***************************************************************************)
CONSTANT Events

VARIABLES held, delivered

vars == <<held, delivered>>

Init == held = {} /\ delivered = {}

Accept(e) == held' = held \cup {e} /\ UNCHANGED delivered

Deliver(e) == /\ e \in held
              /\ delivered' = delivered \cup {e}
              /\ UNCHANGED held

Release(S) == /\ S \subseteq held \cap delivered
              /\ held' = held \ S
              /\ UNCHANGED delivered

Next == \/ \E e \in Events : Accept(e) \/ Deliver(e)
        \/ \E S \in SUBSET Events : Release(S)

Spec == Init /\ [][Next]_vars

\* Liveness of the promise: what is held reaches the server.
FairSpec == Spec /\ \A e \in Events : WF_vars(Deliver(e))
=============================================================================
