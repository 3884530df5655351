---------------------------- MODULE FrameChannel ---------------------------
(***************************************************************************)
(* What counters promise between a sender and a receiver, without threads, *)
(* windows, keys or tables (core/crypto_transport.py:17, "Nonce reuse" and *)
(* "Replay attack"): a frame is made once, nothing is taken that was not   *)
(* made, and nothing is taken twice unless the receiver has forgotten all  *)
(* that it took.                                                           *)
(***************************************************************************)
EXTENDS Naturals

CONSTANTS Frames,
          Forgetful   \* whether the receiver may lose its memory

VARIABLES made, taken   \* how often each frame was

vars == <<made, taken>>

NoFrame == [f \in Frames |-> 0]

Init == made = NoFrame /\ taken = NoFrame

Make(f) == /\ made[f] = 0
           /\ made' = [made EXCEPT ![f] = 1]
           /\ UNCHANGED taken

Take(f) == /\ made[f] = 1
           /\ taken[f] = 0
           /\ taken' = [taken EXCEPT ![f] = 1]
           /\ UNCHANGED made

Forget == /\ Forgetful
          /\ taken' = NoFrame
          /\ UNCHANGED made

Next == \/ \E f \in Frames : Make(f) \/ Take(f)
        \/ Forget

Spec == Init /\ [][Next]_vars
=============================================================================
