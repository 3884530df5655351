--------------------------- MODULE CryptoTransport --------------------------
(***************************************************************************)
(* Frames and their counters (core/crypto_transport.py), the bundles that  *)
(* carry the same counters on a USB stick (crypto_layer/vtrc_bundle.py)    *)
(* and what core/liveness.py reads from the counter table.                 *)
(*                                                                         *)
(* A node draws a counter from its SQLite table in an exclusive            *)
(* transaction and then packs a frame under it; between the two it may     *)
(* crash.  A frame once made may arrive at any later time, any number of   *)
(* times, damaged or intact, or never, by radio (unpack) or in a bundle    *)
(* (verify_bundle, then CounterVerificationStore).  The radio receiver     *)
(* keeps its window and its registry of keys in memory, the other receiver *)
(* keeps its counters on disk.                                             *)
(***************************************************************************)
EXTENDS ReplayWindow

CONSTANTS Senders,     \* threads that pack frames
          NodeOf,      \* the node of each of them
          Keys,        \* public keys somebody may register
          KeyOf,       \* the key with which a node signs
          NoKey,
          Registrars,  \* threads that call register()
          Importers,   \* threads that take in bundles
          Nobody,      \* holds no lock
          MaxCounter,  \* bound: counters ever drawn by a node
          MaxFaults    \* bound: crashes and failed transactions

ASSUME TransportAssumption ==
  /\ NodeOf \in [Senders -> Nodes]
  /\ KeyOf \in [Nodes -> Keys]
  /\ NoKey \notin Keys
  /\ Nobody \notin Senders \cup Importers
  /\ MaxCounter \in Nat
  /\ MaxFaults \in Nat

VARIABLES counter,    \* table nonce_counter, 0 for no row
          silent,     \* nodes whose updated_at is longer ago than the timeout
          lock,       \* who has the node's counter table in an exclusive transaction
          pc, drawn,  \* where a sender is and the counter it has drawn
          made,       \* history: frames made under each counter
          key,        \* NodeRegistry
          claim,      \* the registration a registrar has checked, <<>> for none
          arrived,    \* history: counters that came by radio since the receiver started
          delivered,  \* history: times a frame was unpacked and verified since then
          maxSeen,    \* table counter_seen, 0 for no row
          storeLock,  \* who has that table in an exclusive transaction
          bundle,     \* the bundle an importer is about to record, <<>> for none
          imported,   \* history: times a bundle was taken in
          faults

senderVars == <<counter, silent, lock, pc, drawn, made>>
registryVars == <<key, claim>>
radioVars == <<windowVars, arrived, delivered>>
importVars == <<maxSeen, storeLock, bundle, imported>>
vars == <<senderVars, registryVars, radioVars, importVars, faults>>

Counters == 1 .. MaxCounter

SenderTypeOK == /\ counter \in [Nodes -> 0 .. MaxCounter]
                /\ silent \subseteq Nodes
                /\ lock \in [Nodes -> Senders \cup {Nobody}]
                /\ pc \in [Senders -> {"idle", "write", "pack"}]
                /\ drawn \in [Senders -> 0 .. MaxCounter]
                /\ made \in [Nodes -> [Counters -> Nat]]

RegistryTypeOK == /\ key \in [Nodes -> Keys \cup {NoKey}]
                  /\ claim \in [Registrars -> {<<>>} \cup Nodes \X Keys]

RadioTypeOK == /\ WindowTypeOK
               /\ arrived \in [Nodes -> SUBSET Counters]
               /\ delivered \in [Nodes -> [Counters -> Nat]]

ImportTypeOK == /\ maxSeen \in [Nodes -> 0 .. MaxCounter]
                /\ storeLock \in Importers \cup {Nobody}
                /\ bundle \in [Importers -> {<<>>} \cup Nodes \X Counters]
                /\ imported \in [Nodes -> [Counters -> Nat]]

TypeOK == /\ SenderTypeOK
          /\ RegistryTypeOK
          /\ RadioTypeOK
          /\ ImportTypeOK
          /\ faults \in 0 .. MaxFaults

Init == /\ WindowInit
        /\ counter = [n \in Nodes |-> 0]
        /\ silent = {}
        /\ lock = [n \in Nodes |-> Nobody]
        /\ pc = [t \in Senders |-> "idle"]
        /\ drawn = [t \in Senders |-> 0]
        /\ made = [n \in Nodes |-> [c \in Counters |-> 0]]
        /\ key = [n \in Nodes |-> NoKey]
        /\ claim = [r \in Registrars |-> <<>>]
        /\ arrived = [n \in Nodes |-> {}]
        /\ delivered = [n \in Nodes |-> [c \in Counters |-> 0]]
        /\ maxSeen = [n \in Nodes |-> 0]
        /\ storeLock = Nobody
        /\ bundle = [i \in Importers |-> <<>>]
        /\ imported = [n \in Nodes |-> [c \in Counters |-> 0]]
        /\ faults = 0

Fault == faults < MaxFaults /\ faults' = faults + 1

-----------------------------------------------------------------------------
(* The sender: next_nonce() and pack().                                    *)

\* Mutant: BEGIN instead of BEGIN EXCLUSIVE.
NotLocked(n) == TRUE

Unlocked(n) == lock[n] = Nobody

\* BEGIN EXCLUSIVE and the SELECT.
BeginNonce(t) ==
  LET n == NodeOf[t]
  IN  /\ pc[t] = "idle"
      /\ Unlocked(n)
      /\ counter[n] < MaxCounter
      /\ lock' = [lock EXCEPT ![n] = t]
      /\ drawn' = [drawn EXCEPT ![t] = counter[n] + 1]
      /\ pc' = [pc EXCEPT ![t] = "write"]
      /\ UNCHANGED <<counter, silent, made, registryVars, radioVars, importVars,
                     faults>>

\* The upsert and the COMMIT, durable with synchronous=FULL.
CommitNonce(t) ==
  LET n == NodeOf[t]
  IN  /\ pc[t] = "write"
      /\ counter' = [counter EXCEPT ![n] = drawn[t]]
      /\ silent' = silent \ {n}
      /\ lock' = [lock EXCEPT ![n] = Nobody]
      /\ pc' = [pc EXCEPT ![t] = "pack"]
      /\ UNCHANGED <<drawn, made, registryVars, radioVars, importVars, faults>>

\* Mutant: the frame is made although the counter could not be stored.
RollbackAndPack(t) ==
  /\ pc[t] = "write"
  /\ Fault
  /\ lock' = [lock EXCEPT ![NodeOf[t]] = Nobody]
  /\ pc' = [pc EXCEPT ![t] = "pack"]
  /\ UNCHANGED <<counter, silent, drawn, made, registryVars, radioVars, importVars>>

RollbackNonce(t) ==
  /\ pc[t] = "write"
  /\ Fault
  /\ lock' = [lock EXCEPT ![NodeOf[t]] = Nobody]
  /\ pc' = [pc EXCEPT ![t] = "idle"]
  /\ drawn' = [drawn EXCEPT ![t] = 0]
  /\ UNCHANGED <<counter, silent, made, registryVars, radioVars, importVars>>

\* The rest of pack(): a frame under the drawn counter, which is on its way.
Pack(t) ==
  /\ pc[t] = "pack"
  /\ made' = [made EXCEPT ![NodeOf[t]][drawn[t]] = @ + 1]
  /\ pc' = [pc EXCEPT ![t] = "idle"]
  /\ drawn' = [drawn EXCEPT ![t] = 0]
  /\ UNCHANGED <<counter, silent, lock, registryVars, radioVars, importVars, faults>>

\* A crash of the node's process: an open transaction is rolled back.
NodeCrash(n) ==
  /\ Fault
  /\ lock' = [lock EXCEPT ![n] = Nobody]
  /\ pc' = [t \in Senders |-> IF NodeOf[t] = n THEN "idle" ELSE pc[t]]
  /\ drawn' = [t \in Senders |-> IF NodeOf[t] = n THEN 0 ELSE drawn[t]]
  /\ UNCHANGED <<counter, silent, made, registryVars, radioVars, importVars>>

GoSilent(n) == /\ counter[n] > 0
               /\ n \notin silent
               /\ silent' = silent \cup {n}
               /\ UNCHANGED <<counter, lock, pc, drawn, made, registryVars, radioVars,
                              importVars, faults>>

\* LivenessTracker.check().
Liveness(n) == IF counter[n] = 0 THEN "UNKNOWN"
               ELSE IF n \in silent THEN "SUSPECTED_DOWN" ELSE "ALIVE"

-----------------------------------------------------------------------------
(* The registry: the test reads outside the lock, the assignment is inside *)
(* it, so two registrations that overlap may both pass.                    *)

MayRegister(n, k) == key[n] \in {NoKey, k}

CheckKey(r, n, k) ==
  /\ claim[r] = <<>>
  /\ MayRegister(n, k)
  /\ claim' = [claim EXCEPT ![r] = <<n, k>>]
  /\ UNCHANGED <<senderVars, key, radioVars, importVars, faults>>

StoreKey(r) ==
  /\ claim[r] # <<>>
  /\ key' = [key EXCEPT ![claim[r][1]] = claim[r][2]]
  /\ claim' = [claim EXCEPT ![r] = <<>>]
  /\ UNCHANGED <<senderVars, radioVars, importVars, faults>>

-----------------------------------------------------------------------------
(* The radio receiver: unpack().                                           *)

\* decrypt() and verify() succeed: nothing was damaged, and the registered key
\* is the one the node signs with.
Authentic(n, intact) == intact /\ key[n] = KeyOf[n]

\* The window comes first, so a damaged frame uses its counter up.
Receive(n, c, intact) ==
  /\ made[n][c] > 0
  /\ arrived' = [arrived EXCEPT ![n] = @ \cup {c}]
  /\ IF IsNew(n, c)
     THEN /\ Record(n, c)
          /\ delivered' = [delivered EXCEPT
                             ![n][c] = IF Authentic(n, intact) THEN @ + 1 ELSE @]
     ELSE UNCHANGED <<windowVars, delivered>>
  /\ UNCHANGED <<senderVars, registryVars, importVars, faults>>

\* Window and registry are in memory.
ReceiverRestart ==
  /\ Fault
  /\ last' = [n \in Nodes |-> 0]
  /\ seen' = [n \in Nodes |-> {}]
  /\ key' = [n \in Nodes |-> NoKey]
  /\ claim' = [r \in Registrars |-> <<>>]
  /\ arrived' = [n \in Nodes |-> {}]
  /\ delivered' = [n \in Nodes |-> [c \in Counters |-> 0]]
  /\ UNCHANGED <<senderVars, importVars>>

-----------------------------------------------------------------------------
(* The receiver of bundles.                                                *)

\* build_bundle(): a bundle carries a frame that was made, under its counter.
Bundles(n) == {c \in Counters : made[n][c] > 0}

\* Mutant: the highest counter is accepted again.
NotBelow(n, c) == c >= maxSeen[n]

IsNext(n, c) == c > maxSeen[n]

\* A bundle that verify_bundle() accepts; then BEGIN EXCLUSIVE, the SELECT, and,
\* if the counter is too low, the ROLLBACK.
BeginImport(i, n, c) ==
  /\ bundle[i] = <<>>
  /\ storeLock = Nobody
  /\ c \in Bundles(n)
  /\ IsNext(n, c)
  /\ storeLock' = i
  /\ bundle' = [bundle EXCEPT ![i] = <<n, c>>]
  /\ UNCHANGED <<senderVars, registryVars, radioVars, maxSeen, imported, faults>>

CommitImport(i) ==
  /\ bundle[i] # <<>>
  /\ LET n == bundle[i][1]
         c == bundle[i][2]
     IN  /\ maxSeen' = [maxSeen EXCEPT ![n] = c]
         /\ imported' = [imported EXCEPT ![n][c] = @ + 1]
  /\ storeLock' = Nobody
  /\ bundle' = [bundle EXCEPT ![i] = <<>>]
  /\ UNCHANGED <<senderVars, registryVars, radioVars, faults>>

\* An exception, or a crash of the importing process, before the COMMIT.
RollbackImport(i) ==
  /\ bundle[i] # <<>>
  /\ Fault
  /\ storeLock' = Nobody
  /\ bundle' = [bundle EXCEPT ![i] = <<>>]
  /\ UNCHANGED <<senderVars, registryVars, radioVars, maxSeen, imported>>

-----------------------------------------------------------------------------
SenderStep(t) == BeginNonce(t) \/ CommitNonce(t) \/ RollbackNonce(t) \/ Pack(t)

ImporterStep(i) == \/ \E n \in Nodes, c \in Counters : BeginImport(i, n, c)
                   \/ CommitImport(i)
                   \/ RollbackImport(i)

Next == \/ \E t \in Senders : SenderStep(t)
        \/ \E n \in Nodes : NodeCrash(n) \/ GoSilent(n)
        \/ \E r \in Registrars :
             (\E n \in Nodes, k \in Keys : CheckKey(r, n, k)) \/ StoreKey(r)
        \/ \E n \in Nodes, c \in Counters, intact \in BOOLEAN : Receive(n, c, intact)
        \/ ReceiverRestart
        \/ \E i \in Importers : ImporterStep(i)

Spec == Init /\ [][Next]_vars

-----------------------------------------------------------------------------
(* The inductive invariants behind the safety properties.                  *)

\* A sender that writes holds the lock and the next counter; one that packs has a
\* counter on disk that is nobody else's and under which nothing was made.
NonceInv ==
  /\ \A t \in Senders :
       /\ pc[t] = "write" => /\ lock[NodeOf[t]] = t
                             /\ drawn[t] = counter[NodeOf[t]] + 1
       /\ pc[t] = "pack" => /\ drawn[t] \in 1 .. counter[NodeOf[t]]
                            /\ made[NodeOf[t]][drawn[t]] = 0
  /\ \A t, u \in Senders :
       t # u /\ NodeOf[t] = NodeOf[u] /\ pc[t] = "pack" /\ pc[u] = "pack" =>
         drawn[t] # drawn[u]
  /\ \A n \in Nodes, c \in Counters :
       /\ made[n][c] <= 1
       /\ made[n][c] > 0 => c <= counter[n]

\* What was accepted is still remembered, or too old for the window.
WindowInv ==
  \A n \in Nodes, c \in Counters :
    /\ delivered[n][c] <= 1
    /\ delivered[n][c] > 0 => /\ c <= last[n]
                              /\ c \in seen[n] \/ c < last[n] - WindowBack

\* The window remembers only what has come.
SeenArrived == \A n \in Nodes : seen[n] \subseteq arrived[n]

\* An importer that writes holds the lock and a counter above all that were taken in.
ImportInv ==
  /\ \A i \in Importers : bundle[i] # <<>> =>
       /\ storeLock = i
       /\ bundle[i][2] > maxSeen[bundle[i][1]]
  /\ \A n \in Nodes, c \in Counters : imported[n][c] > 0 => c <= maxSeen[n]

\* A bundle that is being recorded carries a frame that was made.
BundleIsMade ==
  \A i \in Importers : bundle[i] # <<>> => made[bundle[i][1]][bundle[i][2]] > 0

\* All of it together, as far as the receiver and its users are concerned.
CounterInv == /\ TypeOK
              /\ NonceInv
              /\ WindowInv
              /\ SeenArrived
              /\ ImportInv
              /\ BundleIsMade

-----------------------------------------------------------------------------
(* Properties.                                                             *)

\* "Nonce reuse: contador monotonico persistido" (crypto_transport.py:17): no
\* two frames of a node are made under one counter, by whatever threads and
\* across whatever crashes.
NonceUsedOnce == \A n \in Nodes, c \in Counters : made[n][c] <= 1

\* "Replay attack: ventana basada en counter" (crypto_transport.py:18): a frame
\* is accepted at most once as long as the receiver runs, in whatever order
\* frames come and whatever the bounded set has forgotten.
AcceptedOnce == \A n \in Nodes, c \in Counters : delivered[n][c] <= 1

\* An intact frame of a registered node whose counter has not come before and is
\* in the window is accepted: being late or overtaken is no reason to refuse it.
FirstArrivalAccepted ==
  [][\A n \in Nodes, c \in Counters :
       Receive(n, c, TRUE) /\ c \notin arrived[n] /\ InWindow(n, c) /\ key[n] = KeyOf[n]
         => delivered'[n][c] = delivered[n][c] + 1]_vars

\* CounterVerificationStore: the counters of the bundles taken in rise, whatever
\* restarts and concurrent imports there are; so none is taken in twice.
ImportsRise ==
  [][\A n \in Nodes, c \in Counters : imported'[n][c] > imported[n][c] =>
       \A d \in Counters : imported[n][d] > 0 => d < c]_vars

\* UNKNOWN is "nunca se vio counter alguno" (liveness.py:77): a node whose state
\* is UNKNOWN has made no frame, so silence is never mistaken for absence.
UnknownNeverSent ==
  \A n \in Nodes : Liveness(n) = "UNKNOWN" => \A c \in Counters : made[n][c] = 0

-----------------------------------------------------------------------------
(* The two ways of a frame to a receiver, as channels.                     *)

\* A frame is known by its node and its counter.
Frames == Nodes \X Counters

PerFrame(times) == [f \in Frames |-> times[f[1]][f[2]]]

Radio == INSTANCE FrameChannel
           WITH Forgetful <- TRUE, made <- PerFrame(made), taken <- PerFrame(delivered)

Stick == INSTANCE FrameChannel
           WITH Forgetful <- FALSE, made <- PerFrame(made), taken <- PerFrame(imported)

\* Node, window and registry implement the channel whose receiver forgets when it
\* restarts: every frame unpacked is one that some thread made, once, and that has
\* not been unpacked before ("Un frame capturado y reinyectado es detectado y
\* descartado", crypto_transport.py:18).
RadioIsChannel == Radio!Spec

\* Node and CounterVerificationStore implement the channel whose receiver never
\* forgets, whatever crashes and rollbacks there are on either side.
StickIsChannel == Stick!Spec

\* Both ways of a frame at once, from the same senders.
ChannelsKept == RadioIsChannel /\ StickIsChannel
=============================================================================
