---------------------------- MODULE MCSessionGuard --------------------------
(***************************************************************************)
(* Instance of SessionGuard: three calls, two at a time, for a queue with  *)
(* room for one item.                                                      *)
(***************************************************************************)
EXTENDS SessionGuard, TLC

CONSTANTS i1, i2, i3
=============================================================================
