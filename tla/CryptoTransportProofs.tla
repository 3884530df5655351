------------------------ MODULE CryptoTransportProofs -----------------------
(***************************************************************************)
(* Proofs about counters, for any nodes, threads, windows and bounds: the  *)
(* types, that no counter is used for two frames, that the bounded set of  *)
(* the replay window forgets only what the window refuses anyway and holds *)
(* back no frame that is new, that the bundles taken in only advance, and  *)
(* that radio and bundles implement FrameChannel.                          *)
(***************************************************************************)
EXTENDS CryptoTransport, FiniteSetTheorems, WellFoundedInduction, TLAPS

-----------------------------------------------------------------------------
(* The bounded set.                                                        *)

Less == {ss \in Nat \X Nat : ss[1] < ss[2]}

LEMMA LessWellFounded == IsWellFoundedOn(Less, Nat)
BY NatLessThanWellFounded, Zenon DEF OpToRel, Less

LEMMA MinimalElement ==
  \A T \in SUBSET Nat : T # {} => \E x \in T : \A y \in T : ~ (<<y, x>> \in Less)
BY LessWellFounded, WFMin, Zenon

LEMMA NotLess == \A x, y \in Nat : ~ (<<y, x>> \in Less) => x <= y
BY DEF Less

LEMMA LeastElement ==
  ASSUME NEW T, T \subseteq Nat, T # {}
  PROVE  \E x \in T : \A y \in T : x <= y
<1>1. PICK x \in T : \A y \in T : ~ (<<y, x>> \in Less)
  BY MinimalElement, Zenon
<1>2. \A y \in T : x <= y
  BY <1>1, NotLess
<1>3. QED
  BY <1>2, Zenon

USE WindowAssumption, TransportAssumption

\* Trim() keeps to its bound, and what it forgets is MaxSeen or more below any
\* bound hi of the set.
LEMMA TrimForgets ==
  ASSUME NEW S \in SUBSET Nat, NEW c \in Nat, NEW hi \in Nat,
         IsFiniteSet(S), Cardinality(S) <= MaxSeen, S \cup {c} \subseteq 1 .. hi
  PROVE  /\ Trim(S \cup {c}) \subseteq S \cup {c}
         /\ IsFiniteSet(Trim(S \cup {c}))
         /\ Cardinality(Trim(S \cup {c})) <= MaxSeen
         /\ \A d \in (S \cup {c}) \ Trim(S \cup {c}) : d <= hi - MaxSeen
<1> DEFINE T == S \cup {c}
<1>1. /\ IsFiniteSet(T) /\ Cardinality(T) \in Nat
      /\ Cardinality(T) <= MaxSeen + 1
      /\ T \in SUBSET Nat /\ T # {} /\ T \subseteq 1 .. hi
  <2>1. IsFiniteSet(T) /\ Cardinality(T) \in Nat /\ Cardinality(S) \in Nat
    BY FS_AddElement, FS_CardinalityType
  <2>2. Cardinality(T) <= Cardinality(S) + 1
    BY <2>1, FS_AddElement
  <2>3. QED
    BY <2>1, <2>2
<1> HIDE DEF T
<1>2. CASE Cardinality(T) <= MaxSeen
  <2>1. Trim(T) = T
    BY <1>1, <1>2 DEF Trim
  <2>2. QED
    BY <2>1, <1>1, <1>2 DEF T
<1>3. CASE Cardinality(T) = MaxSeen + 1
  <2>1. PICK x \in T : \A y \in T : x <= y
    <3>1. T \subseteq Nat /\ T # {}
      BY <1>1
    <3>2. QED
      BY <3>1, LeastElement, Zenon
  <2>2. Trim(T) = T \ {x}
    <3>1. Trim(T) = {d \in T : \E e \in T : e < d}
      BY <1>1, <1>3 DEF Trim
    <3>2. \A d \in T : (\E e \in T : e < d) <=> d # x
      BY <2>1, <1>1
    <3>3. QED
      BY <3>1, <3>2
  <2>3. IsFiniteSet(Trim(T)) /\ Cardinality(Trim(T)) = MaxSeen
    BY <2>2, <2>1, <1>1, <1>3, FS_RemoveElement
  <2>4. T \subseteq x .. hi /\ x \in Nat /\ x <= hi
    BY <2>1, <1>1
  <2>5. Cardinality(T) <= hi - x + 1
    <3>1. IsFiniteSet(x .. hi) /\ Cardinality(x .. hi) = hi - x + 1
      BY <2>4, FS_Interval
    <3>2. Cardinality(T) <= Cardinality(x .. hi)
      BY <3>1, <2>4, FS_Subset
    <3>3. QED
      BY <3>1, <3>2
  <2>6. QED
    BY <2>2, <2>3, <2>4, <2>5, <1>1, <1>3 DEF T
<1>4. QED
  <2>1. Cardinality(T) <= MaxSeen \/ Cardinality(T) = MaxSeen + 1
    BY <1>1
  <2>2. QED
    BY <2>1, <1>2, <1>3

-----------------------------------------------------------------------------
(* Types.                                                                  *)

\* What check_and_record() leaves of a window: a counter that is no longer
\* remembered is one that the window refuses.
LEMMA RecordEffect ==
  ASSUME WindowTypeOK, NEW n \in Nodes, NEW c \in Nat \ {0}, Record(n, c)
  PROVE  /\ last' \in [Nodes -> Nat] /\ seen' \in [Nodes -> SUBSET Nat]
         /\ last[n] <= last'[n] /\ c <= last'[n]
         /\ seen'[n] \subseteq 1 .. last'[n] /\ Cardinality(seen'[n]) <= MaxSeen
         /\ \A d \in seen[n] \cup {c} : d \in seen'[n] \/ d < last'[n] - WindowBack
         /\ \A m \in Nodes : m # n => last'[m] = last[m] /\ seen'[m] = seen[m]
<1> DEFINE hi == IF c > last[n] THEN c ELSE last[n]
<1>1. hi \in Nat /\ c <= hi /\ last[n] <= hi
  BY DEF WindowTypeOK
<1>2. seen[n] \in SUBSET Nat /\ seen[n] \cup {c} \subseteq 1 .. hi
      /\ IsFiniteSet(seen[n]) /\ Cardinality(seen[n]) <= MaxSeen
  <2>1. last[n] \in Nat /\ seen[n] \subseteq 1 .. last[n] /\ Cardinality(seen[n]) <= MaxSeen
    BY DEF WindowTypeOK
  <2>2. IsFiniteSet(1 .. last[n])
    BY <2>1, FS_Interval
  <2>3. IsFiniteSet(seen[n])
    BY <2>1, <2>2, FS_Subset
  <2>4. QED
    BY <2>1, <2>3, <1>1
<1>3. /\ Trim(seen[n] \cup {c}) \subseteq seen[n] \cup {c}
      /\ Cardinality(Trim(seen[n] \cup {c})) <= MaxSeen
      /\ \A d \in (seen[n] \cup {c}) \ Trim(seen[n] \cup {c}) : d <= hi - MaxSeen
  BY <1>1, <1>2, TrimForgets
<1>4. /\ last' = [last EXCEPT ![n] = hi]
      /\ seen' = [seen EXCEPT ![n] = Trim(seen[n] \cup {c})]
  BY DEF Record
<1> HIDE DEF hi
<1>5. last' \in [Nodes -> Nat] /\ seen' \in [Nodes -> SUBSET Nat]
  BY <1>1, <1>2, <1>3, <1>4 DEF WindowTypeOK
<1>6. last'[n] = hi /\ seen'[n] = Trim(seen[n] \cup {c})
  BY <1>4 DEF WindowTypeOK
<1>7. seen'[n] \subseteq 1 .. hi
  BY <1>2, <1>3, <1>6
<1>8. \A d \in seen[n] \cup {c} : d \in seen'[n] \/ d < hi - WindowBack
  <2>1. ASSUME NEW d \in seen[n] \cup {c}, d \notin seen'[n] PROVE d < hi - WindowBack
    <3>1. d <= hi - MaxSeen /\ d \in Nat
      BY <2>1, <1>2, <1>3, <1>6
    <3>2. QED
      BY <3>1, <1>1
  <2>2. QED
    BY <2>1
<1>9. \A m \in Nodes : m # n => last'[m] = last[m] /\ seen'[m] = seen[m]
  BY <1>4 DEF WindowTypeOK
<1>10. QED
  BY <1>1, <1>3, <1>5, <1>6, <1>7, <1>8, <1>9

LEMMA RecordType ==
  ASSUME WindowTypeOK, NEW n \in Nodes, NEW c \in Nat \ {0}, Record(n, c)
  PROVE  WindowTypeOK'
<1>1. ASSUME NEW m \in Nodes
      PROVE  seen'[m] \subseteq 1 .. last'[m] /\ Cardinality(seen'[m]) <= MaxSeen
  <2>1. CASE m = n
    BY <2>1, RecordEffect
  <2>2. CASE m # n
    <3>1. last'[m] = last[m] /\ seen'[m] = seen[m]
      BY <2>2, RecordEffect
    <3>2. QED
      BY <3>1 DEF WindowTypeOK
  <2>3. QED
    BY <2>1, <2>2
<1>2. last' \in [Nodes -> Nat] /\ seen' \in [Nodes -> SUBSET Nat]
  BY RecordEffect
<1>3. QED
  BY <1>1, <1>2 DEF WindowTypeOK

LEMMA EmptyWindowType ==
  ASSUME last' = [n \in Nodes |-> 0], seen' = [n \in Nodes |-> {}]
  PROVE  WindowTypeOK'
BY FS_EmptySet DEF WindowTypeOK

LEMMA InitType == Init => TypeOK
<1> SUFFICES ASSUME Init PROVE TypeOK
  OBVIOUS
<1> USE DEF Init, Counters
<1>1. SenderTypeOK
  BY DEF SenderTypeOK
<1>2. RegistryTypeOK
  BY DEF RegistryTypeOK
<1>3. RadioTypeOK
  BY FS_EmptySet DEF WindowInit, WindowTypeOK, RadioTypeOK
<1>4. ImportTypeOK
  BY DEF ImportTypeOK
<1>5. QED
  BY <1>1, <1>2, <1>3, <1>4 DEF TypeOK

\* A history counts on: of the three, one element rises by one.
LEMMA BumpType ==
  \A f \in [Nodes -> [Counters -> Nat]], n \in Nodes : \A c :
    /\ [f EXCEPT ![n][c] = @ + 1] \in [Nodes -> [Counters -> Nat]]
    /\ [f EXCEPT ![n][c] = @] \in [Nodes -> [Counters -> Nat]]
<1> SUFFICES ASSUME NEW f \in [Nodes -> [Counters -> Nat]], NEW n \in Nodes, NEW c
             PROVE  /\ [f EXCEPT ![n][c] = @ + 1] \in [Nodes -> [Counters -> Nat]]
                    /\ [f EXCEPT ![n][c] = @] \in [Nodes -> [Counters -> Nat]]
  OBVIOUS
<1>1. f[n] \in [Counters -> Nat]
  OBVIOUS
<1>2. /\ [f[n] EXCEPT ![c] = @ + 1] \in [Counters -> Nat]
      /\ [f[n] EXCEPT ![c] = @] \in [Counters -> Nat]
  <2>1. CASE c \in Counters
    BY <1>1, <2>1
  <2>2. CASE c \notin Counters
    BY <1>1, <2>2
  <2>3. QED
    BY <2>1, <2>2
<1>3. QED
  BY <1>2

\* What a step leaves alone keeps its type.
LEMMA Unchanged ==
  /\ SenderTypeOK /\ UNCHANGED senderVars => SenderTypeOK'
  /\ RegistryTypeOK /\ UNCHANGED registryVars => RegistryTypeOK'
  /\ RadioTypeOK /\ UNCHANGED radioVars => RadioTypeOK'
  /\ ImportTypeOK /\ UNCHANGED importVars => ImportTypeOK'
BY DEF SenderTypeOK, RegistryTypeOK, RadioTypeOK, ImportTypeOK, WindowTypeOK,
     senderVars, registryVars, radioVars, windowVars, importVars

LEMMA NextType == TypeOK /\ [Next]_vars => TypeOK'
<1> SUFFICES ASSUME TypeOK, [Next]_vars PROVE TypeOK'
  OBVIOUS
<1>0. /\ SenderTypeOK /\ RegistryTypeOK /\ RadioTypeOK /\ ImportTypeOK
      /\ faults \in 0 .. MaxFaults
  BY DEF TypeOK
<1> USE DEF Counters, Fault
<1>1. ASSUME NEW t \in Senders, SenderStep(t) PROVE TypeOK'
  <2>1. UNCHANGED <<registryVars, radioVars, importVars>> /\ faults' \in 0 .. MaxFaults
    BY <1>0, <1>1 DEF SenderStep, BeginNonce, CommitNonce, RollbackNonce, Pack
  <2>2. ASSUME BeginNonce(t) PROVE SenderTypeOK'
    BY <1>0, <2>2 DEF BeginNonce, SenderTypeOK
  <2>3. ASSUME CommitNonce(t) PROVE SenderTypeOK'
    BY <1>0, <2>3 DEF CommitNonce, SenderTypeOK
  <2>4. ASSUME RollbackNonce(t) PROVE SenderTypeOK'
    BY <1>0, <2>4 DEF RollbackNonce, SenderTypeOK
  <2>5. ASSUME Pack(t) PROVE SenderTypeOK'
    <3>1. /\ pc' \in [Senders -> {"idle", "write", "pack"}]
          /\ drawn' \in [Senders -> 0 .. MaxCounter]
      BY <1>0, <2>5 DEF Pack, SenderTypeOK
    <3>2. made' \in [Nodes -> [Counters -> Nat]]
      BY <1>0, <2>5, BumpType DEF Pack, SenderTypeOK
    <3>3. QED
      BY <1>0, <2>5, <3>1, <3>2 DEF Pack, SenderTypeOK
  <2>6. SenderTypeOK'
    BY <1>1, <2>2, <2>3, <2>4, <2>5 DEF SenderStep
  <2>7. QED
    BY <2>1, <2>6, <1>0, Unchanged DEF TypeOK
<1>2. ASSUME NEW n \in Nodes, NodeCrash(n) \/ GoSilent(n) PROVE TypeOK'
  <2>1. UNCHANGED <<registryVars, radioVars, importVars>> /\ faults' \in 0 .. MaxFaults
    BY <1>0, <1>2 DEF NodeCrash, GoSilent
  <2>2. ASSUME NodeCrash(n) PROVE SenderTypeOK'
    BY <1>0, <2>2 DEF NodeCrash, SenderTypeOK
  <2>3. ASSUME GoSilent(n) PROVE SenderTypeOK'
    BY <1>0, <2>3 DEF GoSilent, SenderTypeOK
  <2>4. QED
    BY <1>2, <2>1, <2>2, <2>3, <1>0, Unchanged DEF TypeOK
<1>3. ASSUME NEW r \in Registrars,
             (\E n \in Nodes, k \in Keys : CheckKey(r, n, k)) \/ StoreKey(r)
      PROVE  TypeOK'
  <2>1. UNCHANGED <<senderVars, radioVars, importVars, faults>>
    BY <1>3 DEF CheckKey, StoreKey
  <2>2. ASSUME \E n \in Nodes, k \in Keys : CheckKey(r, n, k) PROVE RegistryTypeOK'
    BY <1>0, <2>2 DEF CheckKey, RegistryTypeOK
  <2>3. ASSUME StoreKey(r) PROVE RegistryTypeOK'
    <3>1. claim[r] \in Nodes \X Keys
      BY <1>0, <2>3 DEF StoreKey, RegistryTypeOK
    <3>2. QED
      BY <1>0, <2>3, <3>1 DEF StoreKey, RegistryTypeOK
  <2>4. QED
    BY <1>3, <2>1, <2>2, <2>3, <1>0, Unchanged DEF TypeOK
<1>4. ASSUME NEW n \in Nodes, NEW c \in Counters, NEW intact \in BOOLEAN,
             Receive(n, c, intact)
      PROVE  TypeOK'
  <2>1. UNCHANGED <<senderVars, registryVars, importVars, faults>>
    BY <1>4 DEF Receive
  <2>2. WindowTypeOK'
    <3>0. WindowTypeOK
      BY <1>0 DEF RadioTypeOK
    <3>1. CASE IsNew(n, c)
      <4>1. Record(n, c)
        BY <1>4, <3>1 DEF Receive
      <4>2. QED
        BY <1>0, <3>0, <4>1, RecordType
    <3>2. CASE ~IsNew(n, c)
      <4>1. UNCHANGED <<last, seen>>
        BY <1>4, <3>2 DEF Receive, windowVars
      <4>2. QED
        BY <3>0, <4>1 DEF WindowTypeOK
    <3>3. QED
      BY <3>1, <3>2
  <2>3. arrived' \in [Nodes -> SUBSET Counters]
    BY <1>0, <1>4 DEF Receive, RadioTypeOK
  <2>4. delivered' \in [Nodes -> [Counters -> Nat]]
    <3>1. \/ UNCHANGED delivered
          \/ delivered' = [delivered EXCEPT ![n][c] = @ + 1]
          \/ delivered' = [delivered EXCEPT ![n][c] = @]
      BY <1>4 DEF Receive
    <3>2. delivered \in [Nodes -> [Counters -> Nat]]
      BY <1>0 DEF RadioTypeOK
    <3>3. CASE delivered' = [delivered EXCEPT ![n][c] = @ + 1]
      BY <3>2, <3>3, BumpType
    <3>4. CASE UNCHANGED delivered \/ delivered' = [delivered EXCEPT ![n][c] = @]
      BY <3>2, <3>4
    <3>5. QED
      BY <3>1, <3>3, <3>4
  <2>5. QED
    BY <2>1, <2>2, <2>3, <2>4, <1>0, Unchanged DEF RadioTypeOK, TypeOK
<1>5. CASE ReceiverRestart
  <2>1. UNCHANGED <<senderVars, importVars>> /\ faults' \in 0 .. MaxFaults
    BY <1>0, <1>5 DEF ReceiverRestart
  <2>2. RegistryTypeOK'
    BY <1>5 DEF ReceiverRestart, RegistryTypeOK
  <2>3. RadioTypeOK'
    BY <1>5, EmptyWindowType DEF ReceiverRestart, RadioTypeOK
  <2>4. QED
    BY <2>1, <2>2, <2>3, <1>0, Unchanged DEF TypeOK
<1>6. ASSUME NEW i \in Importers, ImporterStep(i) PROVE TypeOK'
  <2>1. UNCHANGED <<senderVars, registryVars, radioVars>> /\ faults' \in 0 .. MaxFaults
    BY <1>0, <1>6 DEF ImporterStep, BeginImport, CommitImport, RollbackImport
  <2>2. ASSUME \E n \in Nodes, c \in Counters : BeginImport(i, n, c) PROVE ImportTypeOK'
    <3>1. PICK n \in Nodes, c \in Counters : BeginImport(i, n, c)
      BY <2>2
    <3>2. storeLock' \in Importers /\ bundle' = [bundle EXCEPT ![i] = <<n, c>>]
          /\ UNCHANGED <<maxSeen, imported>>
      BY <3>1 DEF BeginImport
    <3>3. bundle' \in [Importers -> {<<>>} \cup Nodes \X Counters]
      BY <1>0, <3>2 DEF ImportTypeOK
    <3>4. QED
      BY <1>0, <3>2, <3>3 DEF ImportTypeOK
  <2>3. ASSUME CommitImport(i) PROVE ImportTypeOK'
    <3>1. bundle[i] \in Nodes \X Counters
      <4>1. bundle[i] # <<>>
        BY <2>3 DEF CommitImport
      <4>2. bundle \in [Importers -> {<<>>} \cup Nodes \X Counters]
        BY <1>0 DEF ImportTypeOK
      <4>3. QED
        BY <4>1, <4>2
    <3>2. PICK n \in Nodes, c \in Counters : bundle[i] = <<n, c>>
      BY <3>1
    <3>3. /\ maxSeen' = [maxSeen EXCEPT ![n] = c]
          /\ imported' = [imported EXCEPT ![n][c] = @ + 1]
      BY <2>3, <3>2 DEF CommitImport
    <3>4. imported' \in [Nodes -> [Counters -> Nat]]
      BY <1>0, <3>3, BumpType DEF ImportTypeOK
    <3>5. maxSeen' \in [Nodes -> 0 .. MaxCounter]
      BY <1>0, <3>3 DEF ImportTypeOK
    <3>6. /\ storeLock' \in Importers \cup {Nobody}
          /\ bundle' \in [Importers -> {<<>>} \cup Nodes \X Counters]
      BY <1>0, <2>3 DEF CommitImport, ImportTypeOK
    <3>7. QED
      BY <3>4, <3>5, <3>6 DEF ImportTypeOK
  <2>4. ASSUME RollbackImport(i) PROVE ImportTypeOK'
    BY <1>0, <2>4 DEF RollbackImport, ImportTypeOK
  <2>5. ImportTypeOK'
    BY <1>6, <2>2, <2>3, <2>4 DEF ImporterStep
  <2>6. QED
    BY <2>1, <2>5, <1>0, Unchanged DEF TypeOK
<1>7. CASE UNCHANGED vars
  BY <1>7, <1>0, Unchanged DEF vars, TypeOK
<1>8. QED
  BY <1>1, <1>2, <1>3, <1>4, <1>5, <1>6, <1>7 DEF Next

\* The types, with the bound on the memory of the replay window.
LEMMA TypeCorrect == Spec => []TypeOK
<1>1. QED
  BY InitType, NextType, PTL DEF Spec

-----------------------------------------------------------------------------
(* Counters are used once.                                                 *)

LEMMA InitNonce == Init => NonceInv
BY DEF Init, NonceInv, Counters

\* NonceInv looks at four variables and at no other.
LEMMA NonceUnchanged ==
  NonceInv /\ UNCHANGED <<counter, lock, pc, drawn, made>> => NonceInv'
BY DEF NonceInv

LEMMA NextNonce == TypeOK /\ NonceInv /\ [Next]_vars => NonceInv'
<1> SUFFICES ASSUME TypeOK, NonceInv, [Next]_vars PROVE NonceInv'
  OBVIOUS
<1>0. SenderTypeOK
  BY DEF TypeOK
<1>1. ASSUME NEW t \in Senders, BeginNonce(t) PROVE NonceInv'
  <2>1. /\ \A u \in Senders : pc[u] = "write" => lock[NodeOf[u]] = u
        /\ lock[NodeOf[t]] = Nobody /\ NodeOf[t] \in Nodes
    BY <1>1 DEF BeginNonce, NonceInv, Unlocked
  <2>2. \A u \in Senders : u # t /\ pc[u] = "write" => NodeOf[u] # NodeOf[t]
    BY <2>1
  <2>3. /\ counter' = counter /\ made' = made
        /\ \A u \in Senders : u # t => pc'[u] = pc[u] /\ drawn'[u] = drawn[u]
        /\ pc'[t] = "write" /\ drawn'[t] = counter[NodeOf[t]] + 1
        /\ lock'[NodeOf[t]] = t
        /\ \A n \in Nodes : n # NodeOf[t] => lock'[n] = lock[n]
    BY <1>0, <1>1, <2>1 DEF BeginNonce, SenderTypeOK
  <2>4. \A u \in Senders : NodeOf[u] \in Nodes
    OBVIOUS
  <2>5. QED
    BY <2>2, <2>3, <2>4 DEF NonceInv
<1>2. ASSUME NEW t \in Senders, CommitNonce(t) PROVE NonceInv'
  <2>1. /\ made' = made /\ drawn' = drawn
        /\ \A u \in Senders : u # t => pc'[u] = pc[u]
        /\ pc'[t] = "pack"
        /\ counter'[NodeOf[t]] = drawn[t] /\ drawn[t] = counter[NodeOf[t]] + 1
        /\ lock[NodeOf[t]] = t
        /\ \A n \in Nodes : n # NodeOf[t] => counter'[n] = counter[n] /\ lock'[n] = lock[n]
    BY <1>0, <1>2 DEF CommitNonce, SenderTypeOK, NonceInv
  <2>2. \A u \in Senders : NodeOf[u] \in Nodes
    OBVIOUS
  <2>3. \A n \in Nodes : counter[n] \in Nat /\ counter[n] <= counter'[n]
                         /\ counter'[n] \in 0 .. MaxCounter
    BY <1>0, <2>1, <2>2 DEF SenderTypeOK
  <2>4. made[NodeOf[t]][drawn[t]] = 0
    <3>1. drawn[t] \in Counters
      BY <1>0, <2>1, <2>2 DEF SenderTypeOK, Counters
    <3>2. ~ (made[NodeOf[t]][drawn[t]] > 0)
      BY <2>1, <2>2, <2>3, <3>1 DEF NonceInv
    <3>3. made[NodeOf[t]][drawn[t]] \in Nat
      BY <1>0, <2>2, <3>1 DEF SenderTypeOK
    <3>4. QED
      BY <3>2, <3>3
  <2>5. ASSUME NEW u \in Senders, u # t, NodeOf[u] = NodeOf[t] PROVE pc'[u] # "write"
    BY <2>1, <2>5 DEF NonceInv
  <2>6. ASSUME NEW u \in Senders, u # t, NodeOf[u] = NodeOf[t], pc'[u] = "pack"
        PROVE  drawn[u] # drawn[t]
    <3>1. drawn[u] \in 1 .. counter[NodeOf[t]]
      BY <2>1, <2>6 DEF NonceInv
    <3>2. QED
      BY <2>1, <2>2, <2>3, <3>1
  <2>7. ASSUME NEW u \in Senders
        PROVE  /\ pc'[u] = "write" => /\ lock'[NodeOf[u]] = u
                                      /\ drawn'[u] = counter'[NodeOf[u]] + 1
               /\ pc'[u] = "pack" => /\ drawn'[u] \in 1 .. counter'[NodeOf[u]]
                                     /\ made'[NodeOf[u]][drawn'[u]] = 0
    <3>1. CASE u = t
      BY <2>1, <2>2, <2>3, <2>4, <3>1
    <3>2. CASE u # t
      BY <2>1, <2>2, <2>3, <2>5, <3>2 DEF NonceInv
    <3>3. QED
      BY <3>1, <3>2
  <2>8. \A u, v \in Senders :
          u # v /\ NodeOf[u] = NodeOf[v] /\ pc'[u] = "pack" /\ pc'[v] = "pack" =>
            drawn'[u] # drawn'[v]
    BY <2>1, <2>6 DEF NonceInv
  <2>9. \A n \in Nodes, c \in Counters :
          /\ made'[n][c] <= 1
          /\ made'[n][c] > 0 => c <= counter'[n]
    BY <2>1, <2>3 DEF NonceInv, Counters
  <2>10. QED
    BY <2>7, <2>8, <2>9 DEF NonceInv
<1>3. ASSUME NEW t \in Senders, RollbackNonce(t) PROVE NonceInv'
  <2>1. /\ counter' = counter /\ made' = made /\ pc[t] = "write" /\ lock[NodeOf[t]] = t
        /\ pc'[t] = "idle"
        /\ \A u \in Senders : u # t => pc'[u] = pc[u] /\ drawn'[u] = drawn[u]
        /\ \A n \in Nodes : n # NodeOf[t] => lock'[n] = lock[n]
    BY <1>0, <1>3 DEF RollbackNonce, SenderTypeOK, NonceInv
  <2>2. \A u \in Senders : NodeOf[u] \in Nodes
    OBVIOUS
  <2>3. \A u \in Senders : u # t /\ pc[u] = "write" => NodeOf[u] # NodeOf[t]
    BY <2>1 DEF NonceInv
  <2>4. QED
    BY <2>1, <2>2, <2>3 DEF NonceInv
<1>4. ASSUME NEW t \in Senders, Pack(t) PROVE NonceInv'
  <2>1. /\ counter' = counter /\ lock' = lock /\ pc[t] = "pack" /\ pc'[t] = "idle"
        /\ \A u \in Senders : u # t => pc'[u] = pc[u] /\ drawn'[u] = drawn[u]
        /\ NodeOf[t] \in Nodes
    BY <1>0, <1>4 DEF Pack, SenderTypeOK
  <2>2. /\ drawn[t] \in Counters /\ drawn[t] <= counter[NodeOf[t]]
        /\ made[NodeOf[t]][drawn[t]] = 0
    BY <1>0, <2>1 DEF SenderTypeOK, NonceInv, Counters
  <2>3. /\ made'[NodeOf[t]][drawn[t]] = 1
        /\ \A c \in Counters : c # drawn[t] => made'[NodeOf[t]][c] = made[NodeOf[t]][c]
        /\ \A n \in Nodes : n # NodeOf[t] => made'[n] = made[n]
    BY <1>0, <1>4, <2>1, <2>2 DEF Pack, SenderTypeOK
  <2>4. ASSUME NEW u \in Senders
        PROVE  /\ pc'[u] = "write" => /\ lock'[NodeOf[u]] = u
                                      /\ drawn'[u] = counter'[NodeOf[u]] + 1
               /\ pc'[u] = "pack" => /\ drawn'[u] \in 1 .. counter'[NodeOf[u]]
                                     /\ made'[NodeOf[u]][drawn'[u]] = 0
    <3>1. CASE u = t
      BY <2>1, <3>1
    <3>2. CASE u # t /\ pc[u] = "write"
      BY <2>1, <3>2 DEF NonceInv
    <3>3. CASE u # t /\ pc[u] = "pack"
      <4>1. /\ drawn[u] \in Counters /\ drawn[u] \in 1 .. counter[NodeOf[u]]
            /\ made[NodeOf[u]][drawn[u]] = 0
            /\ NodeOf[u] = NodeOf[t] => drawn[u] # drawn[t]
        BY <1>0, <2>1, <3>3 DEF SenderTypeOK, NonceInv, Counters
      <4>2. made'[NodeOf[u]][drawn[u]] = 0
        BY <2>3, <4>1
      <4>3. QED
        BY <2>1, <3>3, <4>1, <4>2
    <3>4. QED
      BY <1>0, <2>1, <3>1, <3>2, <3>3 DEF SenderTypeOK
  <2>5. \A u, v \in Senders :
          u # v /\ NodeOf[u] = NodeOf[v] /\ pc'[u] = "pack" /\ pc'[v] = "pack" =>
            drawn'[u] # drawn'[v]
    BY <2>1 DEF NonceInv
  <2>6. \A n \in Nodes, c \in Counters :
          /\ made'[n][c] <= 1
          /\ made'[n][c] > 0 => c <= counter'[n]
    BY <2>1, <2>2, <2>3 DEF NonceInv
  <2>7. QED
    BY <2>4, <2>5, <2>6 DEF NonceInv
<1>5. ASSUME NEW n \in Nodes, NodeCrash(n) PROVE NonceInv'
  <2>1. /\ counter' = counter /\ made' = made
        /\ \A u \in Senders : NodeOf[u] = n => pc'[u] = "idle"
        /\ \A u \in Senders : NodeOf[u] # n => pc'[u] = pc[u] /\ drawn'[u] = drawn[u]
        /\ \A m \in Nodes : m # n => lock'[m] = lock[m]
    BY <1>0, <1>5 DEF NodeCrash, SenderTypeOK
  <2>2. QED
    BY <2>1 DEF NonceInv
<1>6. ASSUME NEW n \in Nodes, GoSilent(n) PROVE NonceInv'
  BY <1>6, NonceUnchanged DEF GoSilent
<1>7. ASSUME NEW r \in Registrars,
             (\E n \in Nodes, k \in Keys : CheckKey(r, n, k)) \/ StoreKey(r)
      PROVE  NonceInv'
  BY <1>7, NonceUnchanged DEF CheckKey, StoreKey, senderVars
<1>8. ASSUME NEW n \in Nodes, NEW c \in Counters, NEW intact \in BOOLEAN,
             Receive(n, c, intact)
      PROVE  NonceInv'
  BY <1>8, NonceUnchanged DEF Receive, senderVars
<1>9. CASE ReceiverRestart
  BY <1>9, NonceUnchanged DEF ReceiverRestart, senderVars
<1>10. ASSUME NEW i \in Importers, ImporterStep(i) PROVE NonceInv'
  BY <1>10, NonceUnchanged
  DEF ImporterStep, BeginImport, CommitImport, RollbackImport, senderVars
<1>11. CASE UNCHANGED vars
  BY <1>11, NonceUnchanged DEF vars, senderVars
<1>12. QED
  BY <1>1, <1>2, <1>3, <1>4, <1>5, <1>6, <1>7, <1>8, <1>9, <1>10, <1>11
  DEF Next, SenderStep

\* No two frames of a node are made under one counter (next_nonce(): the counter
\* is on disk before pack() uses it, and the transaction excludes other drawers).
THEOREM NoncesUnique == Spec => []NonceUsedOnce
<1>1. NonceInv => NonceUsedOnce
  BY DEF NonceInv, NonceUsedOnce
<1>2. QED
  BY InitType, NextType, InitNonce, NextNonce, <1>1, PTL DEF Spec

-----------------------------------------------------------------------------
(* A frame is accepted once.                                               *)

LEMMA InitWindow == Init => WindowInv
BY DEF Init, WindowInv, Counters

LEMMA WindowUnchanged == WindowInv /\ UNCHANGED radioVars => WindowInv'
BY DEF WindowInv, radioVars, windowVars

\* What the window takes for new was not accepted before.
LEMMA NewIsUntaken ==
  ASSUME TypeOK, WindowInv, NEW n \in Nodes, NEW c \in Counters, IsNew(n, c)
  PROVE  delivered[n][c] = 0
<1>0. last \in [Nodes -> Nat] /\ delivered \in [Nodes -> [Counters -> Nat]]
  BY DEF TypeOK, RadioTypeOK, WindowTypeOK
<1>1. CASE delivered[n][c] > 0
  <2>1. c <= last[n] /\ (c \in seen[n] \/ c < last[n] - WindowBack)
    BY <1>1 DEF WindowInv
  <2>2. last[n] \in Nat /\ c \in Nat /\ last[n] > 0
    BY <1>0, <2>1 DEF Counters
  <2>3. c >= last[n] - WindowBack /\ c \notin seen[n]
    BY <2>2 DEF IsNew, InWindow
  <2>4. QED
    BY <2>1, <2>2, <2>3
<1>2. delivered[n][c] \in Nat
  BY <1>0
<1>3. QED
  BY <1>1, <1>2

LEMMA NextWindow == TypeOK /\ WindowInv /\ [Next]_vars => WindowInv'
<1> SUFFICES ASSUME TypeOK, WindowInv, [Next]_vars PROVE WindowInv'
  OBVIOUS
<1>0. /\ last \in [Nodes -> Nat]
      /\ delivered \in [Nodes -> [Counters -> Nat]]
      /\ WindowTypeOK
  BY DEF TypeOK, RadioTypeOK, WindowTypeOK
<1>1. ASSUME NEW n \in Nodes, NEW c \in Counters, NEW intact \in BOOLEAN,
             Receive(n, c, intact), IsNew(n, c)
      PROVE  WindowInv'
  <2>1. /\ last' \in [Nodes -> Nat]
        /\ last[n] <= last'[n] /\ c <= last'[n]
        /\ \A d \in seen[n] \cup {c} : d \in seen'[n] \/ d < last'[n] - WindowBack
        /\ \A m \in Nodes : m # n => last'[m] = last[m] /\ seen'[m] = seen[m]
    <3>1. Record(n, c)
      BY <1>1 DEF Receive
    <3>2. c \in Nat \ {0}
      BY DEF Counters
    <3>3. QED
      BY <1>0, <3>1, <3>2, RecordEffect
  <2>2. delivered[n][c] = 0
    BY <1>1, NewIsUntaken
  <2>3. /\ delivered'[n][c] \in {0, 1}
        /\ \A d \in Counters : d # c => delivered'[n][d] = delivered[n][d]
        /\ \A m \in Nodes : m # n => delivered'[m] = delivered[m]
    <3>1. \/ delivered' = [delivered EXCEPT ![n][c] = @ + 1]
          \/ delivered' = [delivered EXCEPT ![n][c] = @]
      BY <1>1 DEF Receive
    <3>2. QED
      BY <1>0, <2>2, <3>1
  <2>4. ASSUME NEW m \in Nodes, NEW d \in Counters
        PROVE  /\ delivered'[m][d] <= 1
               /\ delivered'[m][d] > 0 => /\ d <= last'[m]
                                          /\ d \in seen'[m] \/ d < last'[m] - WindowBack
    <3>1. CASE m = n /\ d = c
      BY <2>1, <2>3, <3>1
    <3>2. CASE m = n /\ d # c
      <4>1. delivered'[m][d] = delivered[n][d]
        BY <2>3, <3>2
      <4>2. /\ delivered[n][d] <= 1
            /\ delivered[n][d] > 0 => /\ d <= last[n]
                                      /\ d \in seen[n] \/ d < last[n] - WindowBack
        BY DEF WindowInv
      <4>3. d \in Nat /\ last[n] \in Nat /\ last'[n] \in Nat
        BY <1>0, <2>1 DEF Counters
      <4>4. QED
        BY <2>1, <3>2, <4>1, <4>2, <4>3
    <3>3. CASE m # n
      BY <2>1, <2>3, <3>3 DEF WindowInv
    <3>4. QED
      BY <3>1, <3>2, <3>3
  <2>5. QED
    BY <2>4 DEF WindowInv
<1>2. ASSUME NEW n \in Nodes, NEW c \in Counters, NEW intact \in BOOLEAN,
             Receive(n, c, intact), ~IsNew(n, c)
      PROVE  WindowInv'
  BY <1>2 DEF Receive, WindowInv, windowVars
<1>3. CASE ReceiverRestart
  BY <1>3 DEF ReceiverRestart, WindowInv
<1>4. ASSUME NEW t \in Senders, SenderStep(t) PROVE WindowInv'
  BY <1>4, WindowUnchanged DEF SenderStep, BeginNonce, CommitNonce, RollbackNonce, Pack
<1>5. ASSUME NEW n \in Nodes, NodeCrash(n) \/ GoSilent(n) PROVE WindowInv'
  BY <1>5, WindowUnchanged DEF NodeCrash, GoSilent
<1>6. ASSUME NEW r \in Registrars,
             (\E n \in Nodes, k \in Keys : CheckKey(r, n, k)) \/ StoreKey(r)
      PROVE  WindowInv'
  BY <1>6, WindowUnchanged DEF CheckKey, StoreKey
<1>7. ASSUME NEW i \in Importers, ImporterStep(i) PROVE WindowInv'
  BY <1>7, WindowUnchanged DEF ImporterStep, BeginImport, CommitImport, RollbackImport
<1>8. CASE UNCHANGED vars
  BY <1>8, WindowUnchanged DEF vars
<1>9. QED
  BY <1>1, <1>2, <1>3, <1>4, <1>5, <1>6, <1>7, <1>8 DEF Next

\* A frame is accepted at most once while the receiver runs (check_and_record():
\* the set is cut at MaxSeen, which is more than the window reaches back).
THEOREM ReplaysRefused == Spec => []AcceptedOnce
<1>1. WindowInv => AcceptedOnce
  BY DEF WindowInv, AcceptedOnce
<1>2. QED
  BY InitType, NextType, InitWindow, NextWindow, <1>1, PTL DEF Spec

-----------------------------------------------------------------------------
(* What is new in the window is accepted.                                  *)

LEMMA NextSeen == TypeOK /\ SeenArrived /\ [Next]_vars => SeenArrived'
<1> SUFFICES ASSUME TypeOK, SeenArrived, [Next]_vars PROVE SeenArrived'
  OBVIOUS
<1>0. /\ seen \in [Nodes -> SUBSET Nat] /\ arrived \in [Nodes -> SUBSET Counters]
  BY DEF TypeOK, RadioTypeOK, WindowTypeOK
<1>1. ASSUME NEW n \in Nodes, NEW c \in Counters, NEW intact \in BOOLEAN,
             Receive(n, c, intact)
      PROVE  SeenArrived'
  <2>1. arrived' = [arrived EXCEPT ![n] = @ \cup {c}]
        /\ (seen' = seen \/ seen' = [seen EXCEPT ![n] = Trim(@ \cup {c})])
    BY <1>1 DEF Receive, Record, windowVars
  <2>2. Trim(seen[n] \cup {c}) \subseteq seen[n] \cup {c}
    BY DEF Trim
  <2>3. ASSUME NEW m \in Nodes PROVE seen'[m] \subseteq arrived'[m]
    <3>1. CASE m # n
      BY <1>0, <2>1, <3>1 DEF SeenArrived
    <3>2. CASE m = n
      <4>1. arrived'[n] = arrived[n] \cup {c}
        BY <1>0, <2>1
      <4>2. seen'[n] = seen[n] \/ seen'[n] = Trim(seen[n] \cup {c})
        BY <1>0, <2>1
      <4>3. QED
        BY <2>2, <3>2, <4>1, <4>2 DEF SeenArrived
    <3>3. QED
      BY <3>1, <3>2
  <2>4. QED
    BY <2>3 DEF SeenArrived
<1>2. CASE ReceiverRestart
  BY <1>2 DEF ReceiverRestart, SeenArrived
<1>3. CASE UNCHANGED radioVars
  BY <1>3 DEF SeenArrived, radioVars, windowVars
<1>4. ASSUME NEW t \in Senders, SenderStep(t) PROVE UNCHANGED radioVars
  BY <1>4 DEF SenderStep, BeginNonce, CommitNonce, RollbackNonce, Pack
<1>5. ASSUME NEW n \in Nodes, NodeCrash(n) \/ GoSilent(n) PROVE UNCHANGED radioVars
  BY <1>5 DEF NodeCrash, GoSilent
<1>6. ASSUME NEW r \in Registrars,
             (\E n \in Nodes, k \in Keys : CheckKey(r, n, k)) \/ StoreKey(r)
      PROVE  UNCHANGED radioVars
  BY <1>6 DEF CheckKey, StoreKey
<1>7. ASSUME NEW i \in Importers, ImporterStep(i) PROVE UNCHANGED radioVars
  BY <1>7 DEF ImporterStep, BeginImport, CommitImport, RollbackImport
<1>8. CASE UNCHANGED vars
  BY <1>3, <1>8 DEF vars
<1>9. QED
  BY <1>1, <1>2, <1>3, <1>4, <1>5, <1>6, <1>7, <1>8 DEF Next

\* An intact frame of a registered node that comes for the first time and is in the
\* window is accepted, however late or overtaken (check_and_record(), unpack()).
THEOREM LateFramesAccepted == Spec => FirstArrivalAccepted
<1>1. Init => SeenArrived
  BY DEF Init, WindowInit, SeenArrived
<1>2. TypeOK /\ SeenArrived =>
        [\A n \in Nodes, c \in Counters :
           Receive(n, c, TRUE) /\ c \notin arrived[n] /\ InWindow(n, c) /\ key[n] = KeyOf[n]
             => delivered'[n][c] = delivered[n][c] + 1]_vars
  <2> SUFFICES ASSUME TypeOK, SeenArrived, NEW n \in Nodes, NEW c \in Counters,
                      Receive(n, c, TRUE), c \notin arrived[n], InWindow(n, c),
                      key[n] = KeyOf[n]
               PROVE  delivered'[n][c] = delivered[n][c] + 1
    OBVIOUS
  <2>1. IsNew(n, c) /\ Authentic(n, TRUE)
    BY DEF IsNew, SeenArrived, Authentic
  <2>2. delivered' = [delivered EXCEPT ![n][c] = @ + 1]
    BY <2>1 DEF Receive
  <2>3. delivered[n] \in [Counters -> Nat] /\ delivered \in [Nodes -> [Counters -> Nat]]
    BY DEF TypeOK, RadioTypeOK
  <2>4. QED
    BY <2>2, <2>3
<1>3. QED
  BY InitType, NextType, <1>1, NextSeen, <1>2, PTL DEF Spec, FirstArrivalAccepted

-----------------------------------------------------------------------------
(* Bundles and liveness.                                                   *)

LEMMA NextImport == TypeOK /\ ImportInv /\ [Next]_vars => ImportInv'
<1> SUFFICES ASSUME TypeOK, ImportInv, [Next]_vars PROVE ImportInv'
  OBVIOUS
<1>0. /\ maxSeen \in [Nodes -> 0 .. MaxCounter]
      /\ bundle \in [Importers -> {<<>>} \cup Nodes \X Counters]
      /\ imported \in [Nodes -> [Counters -> Nat]]
  BY DEF TypeOK, ImportTypeOK
<1>1. ASSUME NEW i \in Importers, NEW n \in Nodes, NEW c \in Counters, BeginImport(i, n, c)
      PROVE  ImportInv'
  <2>1. /\ \A j \in Importers : bundle[j] = <<>>
        /\ storeLock' = i /\ maxSeen' = maxSeen /\ imported' = imported
        /\ bundle' = [bundle EXCEPT ![i] = <<n, c>>] /\ c > maxSeen[n]
    BY <1>1 DEF BeginImport, IsNext, ImportInv
  <2>2. bundle'[i] = <<n, c>> /\ \A j \in Importers \ {i} : bundle'[j] = <<>>
    BY <1>0, <2>1
  <2>3. QED
    BY <2>1, <2>2 DEF ImportInv
<1>2. ASSUME NEW i \in Importers, CommitImport(i)
      PROVE  ImportInv'
  <2>1. PICK n \in Nodes, c \in Counters : bundle[i] = <<n, c>>
    BY <1>0, <1>2 DEF CommitImport
  <2>2. /\ \A j \in Importers \ {i} : bundle[j] = <<>>
        /\ c > maxSeen[n]
    BY <1>2, <2>1 DEF CommitImport, ImportInv
  <2>3. /\ bundle' = [bundle EXCEPT ![i] = <<>>]
        /\ maxSeen' = [maxSeen EXCEPT ![n] = c]
        /\ imported' = [imported EXCEPT ![n][c] = @ + 1]
    BY <1>2, <2>1 DEF CommitImport
  <2>4. \A j \in Importers : bundle'[j] = <<>>
    BY <1>0, <2>2, <2>3
  <2>5. ASSUME NEW m \in Nodes, NEW d \in Counters, imported'[m][d] > 0
        PROVE  d <= maxSeen'[m]
    <3>1. CASE m = n /\ d = c
      BY <1>0, <2>3, <3>1 DEF Counters
    <3>2. CASE m = n /\ d # c
      <4>1. imported'[m][d] = imported[n][d] /\ maxSeen'[m] = c
        BY <1>0, <2>3, <3>2
      <4>2. d <= maxSeen[n] /\ maxSeen[n] \in Nat /\ c \in Nat /\ d \in Nat
        BY <1>0, <2>5, <4>1 DEF ImportInv, Counters
      <4>3. QED
        BY <2>2, <4>1, <4>2
    <3>3. CASE m # n
      <4>1. imported'[m][d] = imported[m][d] /\ maxSeen'[m] = maxSeen[m]
        BY <1>0, <2>3, <3>3
      <4>2. QED
        BY <2>5, <4>1 DEF ImportInv
    <3>4. QED
      BY <3>1, <3>2, <3>3
  <2>6. QED
    BY <2>4, <2>5 DEF ImportInv
<1>3. ASSUME NEW i \in Importers, RollbackImport(i)
      PROVE  ImportInv'
  <2>1. /\ \A j \in Importers \ {i} : bundle[j] = <<>>
        /\ bundle' = [bundle EXCEPT ![i] = <<>>]
        /\ maxSeen' = maxSeen /\ imported' = imported
    BY <1>3 DEF RollbackImport, ImportInv
  <2>2. \A j \in Importers : bundle'[j] = <<>>
    BY <1>0, <2>1
  <2>3. QED
    BY <2>1, <2>2 DEF ImportInv
<1>4. CASE UNCHANGED importVars
  BY <1>4 DEF ImportInv, importVars
<1>5. ASSUME NEW t \in Senders, SenderStep(t) PROVE UNCHANGED importVars
  BY <1>5 DEF SenderStep, BeginNonce, CommitNonce, RollbackNonce, Pack
<1>6. ASSUME NEW n \in Nodes, NodeCrash(n) \/ GoSilent(n) PROVE UNCHANGED importVars
  BY <1>6 DEF NodeCrash, GoSilent
<1>7. ASSUME NEW r \in Registrars,
             (\E n \in Nodes, k \in Keys : CheckKey(r, n, k)) \/ StoreKey(r)
      PROVE  UNCHANGED importVars
  BY <1>7 DEF CheckKey, StoreKey
<1>8. ASSUME NEW n \in Nodes, NEW c \in Counters, NEW intact \in BOOLEAN,
             Receive(n, c, intact)
      PROVE  UNCHANGED importVars
  BY <1>8 DEF Receive
<1>9. CASE ReceiverRestart
  BY <1>4, <1>9 DEF ReceiverRestart
<1>10. CASE UNCHANGED vars
  BY <1>4, <1>10 DEF vars
<1>11. QED
  BY <1>1, <1>2, <1>3, <1>4, <1>5, <1>6, <1>7, <1>8, <1>9, <1>10 DEF Next, ImporterStep

\* A step that takes a bundle in is the COMMIT of the importer that holds the lock.
LEMMA OnlyCommitImports ==
  ASSUME TypeOK, [Next]_vars, imported' # imported
  PROVE  \E i \in Importers : CommitImport(i)
BY DEF Next, vars, importVars, SenderStep, BeginNonce, CommitNonce, RollbackNonce, Pack,
       NodeCrash, GoSilent, CheckKey, StoreKey, Receive, ReceiverRestart, ImporterStep,
       BeginImport, RollbackImport

\* The counters of the bundles that are taken in rise, for any number of importers
\* and across restarts (CounterVerificationStore: the transaction is exclusive and
\* the table is on disk).
THEOREM BundlesRise == Spec => ImportsRise
<1>1. Init => ImportInv
  BY DEF Init, ImportInv, Counters
<1>2. TypeOK /\ ImportInv /\ [Next]_vars =>
        [\A n \in Nodes, c \in Counters : imported'[n][c] > imported[n][c] =>
           \A d \in Counters : imported[n][d] > 0 => d < c]_vars
  <2> SUFFICES ASSUME TypeOK, ImportInv, [Next]_vars, NEW n \in Nodes, NEW c \in Counters,
                      imported'[n][c] > imported[n][c],
                      NEW d \in Counters, imported[n][d] > 0
               PROVE  d < c
    OBVIOUS
  <2>1. /\ bundle \in [Importers -> {<<>>} \cup Nodes \X Counters]
        /\ imported \in [Nodes -> [Counters -> Nat]]
        /\ maxSeen \in [Nodes -> 0 .. MaxCounter]
    BY DEF TypeOK, ImportTypeOK
  <2>2. imported' # imported
    <3>1. imported[n][c] \in Nat
      BY <2>1
    <3>2. QED
      BY <3>1
  <2>3. PICK i \in Importers : CommitImport(i)
    BY <2>2, OnlyCommitImports
  <2>4. PICK m \in Nodes, e \in Counters : bundle[i] = <<m, e>>
    BY <2>1, <2>3 DEF CommitImport
  <2>5. e > maxSeen[m] /\ imported' = [imported EXCEPT ![m][e] = @ + 1]
    BY <2>3, <2>4 DEF CommitImport, ImportInv
  <2>6. n = m /\ c = e
    <3>1. n # m \/ c # e => imported'[n][c] = imported[n][c]
      BY <2>1, <2>5
    <3>2. imported[n][c] \in Nat
      BY <2>1
    <3>3. QED
      BY <3>1, <3>2
  <2>7. d <= maxSeen[n] /\ maxSeen[n] \in Nat /\ c \in Nat /\ d \in Nat
    BY <2>1 DEF ImportInv, Counters
  <2>8. QED
    BY <2>5, <2>6, <2>7
<1>3. QED
  BY InitType, NextType, <1>1, NextImport, <1>2, PTL DEF Spec, ImportsRise

\* A node whose state is UNKNOWN has made no frame (LivenessTracker.check() reads the
\* table that next_nonce() commits before a frame is made).
THEOREM UnknownIsSilent == Spec => []UnknownNeverSent
<1>1. TypeOK /\ NonceInv => UnknownNeverSent
  <2> SUFFICES ASSUME TypeOK, NonceInv, NEW n \in Nodes, Liveness(n) = "UNKNOWN",
                      NEW c \in Counters
               PROVE  made[n][c] = 0
    BY DEF UnknownNeverSent
  <2>1. counter[n] = 0
    BY DEF Liveness
  <2>2. ~ (made[n][c] > 0) /\ made[n][c] \in Nat
    BY <2>1 DEF NonceInv, TypeOK, SenderTypeOK, Counters
  <2>3. QED
    BY <2>2
<1>2. QED
  BY InitType, NextType, InitNonce, NextNonce, <1>1, PTL DEF Spec

-----------------------------------------------------------------------------
(* The two channels.                                                       *)

\* How often each frame was made, one by one.
LEMMA PerFrameValue ==
  ASSUME NEW m, NEW n \in Nodes, NEW c \in Counters
  PROVE  <<n, c>> \in Frames /\ PerFrame(m)[<<n, c>>] = m[n][c]
BY DEF PerFrame, Frames

\* One frame more of node n under counter c.
OneMore(m, n, c) == [m EXCEPT ![n][c] = @ + 1]

\* Counting one frame more, seen frame by frame.
LEMMA PerFrameBump ==
  ASSUME NEW m \in [Nodes -> [Counters -> Nat]], NEW n \in Nodes, NEW c \in Counters,
         m[n][c] = 0
  PROVE  PerFrame(OneMore(m, n, c)) = [PerFrame(m) EXCEPT ![<<n, c>>] = 1]
<1> DEFINE k == OneMore(m, n, c)
<1>1. /\ k[n][c] = 1
      /\ \A a \in Nodes, b \in Counters : a # n \/ b # c => k[a][b] = m[a][b]
  BY DEF OneMore
<1> HIDE DEF k
<1>2. ASSUME NEW f \in Frames
      PROVE  PerFrame(k)[f] = [PerFrame(m) EXCEPT ![<<n, c>>] = 1][f]
  <2>1. PICK a \in Nodes, b \in Counters : f = <<a, b>>
    BY DEF Frames
  <2>2. CASE f = <<n, c>>
    BY <1>1, <2>2, PerFrameValue DEF PerFrame
  <2>3. CASE f # <<n, c>>
    <3>1. PerFrame(k)[f] = k[a][b] /\ PerFrame(m)[f] = m[a][b]
      BY <2>1, PerFrameValue
    <3>2. a # n \/ b # c
      BY <2>1, <2>3
    <3>3. [PerFrame(m) EXCEPT ![<<n, c>>] = 1][f] = PerFrame(m)[f]
      BY <2>3 DEF PerFrame
    <3>4. QED
      BY <1>1, <3>1, <3>2, <3>3
  <2>4. QED
    BY <2>2, <2>3
<1>3. PerFrame(k) = [f \in Frames |-> PerFrame(k)[f]]
  BY DEF PerFrame
<1>4. [PerFrame(m) EXCEPT ![<<n, c>>] = 1]
        = [f \in Frames |-> [PerFrame(m) EXCEPT ![<<n, c>>] = 1][f]]
  BY DEF PerFrame
<1>5. PerFrame(k) = [PerFrame(m) EXCEPT ![<<n, c>>] = 1]
  BY <1>2, <1>3, <1>4
<1>6. QED
  BY <1>5 DEF k

LEMMA PerFrameNext ==
  /\ PerFrame(made)' = PerFrame(made')
  /\ PerFrame(delivered)' = PerFrame(delivered')
  /\ PerFrame(imported)' = PerFrame(imported')
BY DEF PerFrame, Frames, Counters

\* pack() makes a frame that was not made yet, on both channels.
LEMMA PackMakes ==
  ASSUME TypeOK, NonceInv, NEW t \in Senders, Pack(t)
  PROVE  \E f \in Frames : Radio!Make(f) /\ Stick!Make(f)
<1>0. /\ pc[t] = "pack" /\ NodeOf[t] \in Nodes /\ made \in [Nodes -> [Counters -> Nat]]
      /\ UNCHANGED <<delivered, imported>>
  BY DEF Pack, TypeOK, SenderTypeOK, radioVars, importVars
<1>1. drawn[t] \in Counters /\ made[NodeOf[t]][drawn[t]] = 0
  BY <1>0 DEF TypeOK, SenderTypeOK, NonceInv, Counters
<1>2. PICK n \in Nodes, c \in Counters : n = NodeOf[t] /\ c = drawn[t]
  BY <1>0, <1>1
<1>3. made' = [made EXCEPT ![n][c] = @ + 1]
  BY <1>2 DEF Pack
<1>4. /\ <<n, c>> \in Frames /\ PerFrame(made)[<<n, c>>] = 0
      /\ PerFrame(made') = [PerFrame(made) EXCEPT ![<<n, c>>] = 1]
  <2>1. made[n][c] = 0
    BY <1>1, <1>2
  <2>2. PerFrame(made') = [PerFrame(made) EXCEPT ![<<n, c>>] = 1]
    <3>1. made' = OneMore(made, n, c)
      BY <1>3 DEF OneMore
    <3>2. made \in [Nodes -> [Counters -> Nat]]
      BY <1>0
    <3>3. PerFrame(OneMore(made, n, c)) = [PerFrame(made) EXCEPT ![<<n, c>>] = 1]
      BY <2>1, <3>2, PerFrameBump
    <3>4. QED
      BY <3>1, <3>3
  <2>3. /\ <<n, c>> \in Frames
        /\ PerFrame(made)[<<n, c>>] = made[n][c]
    BY PerFrameValue
  <2>4. QED
    BY <2>1, <2>2, <2>3
<1>5. PerFrame(delivered') = PerFrame(delivered) /\ PerFrame(imported') = PerFrame(imported)
  BY <1>0
<1>6. Radio!Make(<<n, c>>) /\ Stick!Make(<<n, c>>)
  BY <1>4, <1>5, PerFrameNext DEF Radio!Make, Stick!Make
<1>7. QED
  BY <1>4, <1>6

\* unpack() takes a frame that was made and not taken, or takes none.
LEMMA ReceiveTakes ==
  ASSUME TypeOK, NonceInv, WindowInv, NEW n \in Nodes, NEW c \in Counters,
         NEW intact \in BOOLEAN, Receive(n, c, intact)
  PROVE  Radio!Take(<<n, c>>) \/ UNCHANGED <<made, delivered>>
<1>0. /\ delivered \in [Nodes -> [Counters -> Nat]] /\ made \in [Nodes -> [Counters -> Nat]]
      /\ made' = made /\ made[n][c] > 0
  BY DEF TypeOK, RadioTypeOK, SenderTypeOK, Receive, senderVars
<1>1. CASE delivered' = delivered
  BY <1>0, <1>1
<1>2. CASE delivered' # delivered
  <2>1. IsNew(n, c) /\ delivered' = [delivered EXCEPT ![n][c] = @ + 1]
    <3>1. IsNew(n, c)
      BY <1>2 DEF Receive
    <3>2. \/ delivered' = [delivered EXCEPT ![n][c] = @ + 1]
          \/ delivered' = [delivered EXCEPT ![n][c] = @]
      BY <3>1 DEF Receive
    <3>3. [delivered EXCEPT ![n][c] = @] = delivered
      BY <1>0
    <3>4. QED
      BY <1>2, <3>1, <3>2, <3>3
  <2>2. delivered[n][c] = 0
    BY <2>1, NewIsUntaken
  <2>3. made[n][c] = 1
    <3>1. made[n][c] <= 1
      BY DEF NonceInv
    <3>2. made[n][c] \in Nat
      BY <1>0
    <3>3. QED
      BY <1>0, <3>1, <3>2
  <2>4. PerFrame(delivered') = [PerFrame(delivered) EXCEPT ![<<n, c>>] = 1]
    <3>1. delivered' = OneMore(delivered, n, c)
      BY <2>1 DEF OneMore
    <3>2. PerFrame(OneMore(delivered, n, c)) = [PerFrame(delivered) EXCEPT ![<<n, c>>] = 1]
      BY <1>0, <2>2, PerFrameBump
    <3>3. QED
      BY <3>1, <3>2
  <2>5. PerFrame(made') = PerFrame(made)
    BY <1>0
  <2>6. QED
    BY <2>2, <2>3, <2>4, <2>5, PerFrameValue, PerFrameNext DEF Radio!Take
<1>3. QED
  BY <1>1, <1>2

\* check_and_record() takes a frame that was made and not taken.
LEMMA ImportTakes ==
  ASSUME TypeOK, NonceInv, ImportInv, BundleIsMade, NEW i \in Importers, CommitImport(i)
  PROVE  \E f \in Frames : Stick!Take(f)
<1>0. /\ imported \in [Nodes -> [Counters -> Nat]] /\ made \in [Nodes -> [Counters -> Nat]]
      /\ bundle \in [Importers -> {<<>>} \cup Nodes \X Counters]
      /\ maxSeen \in [Nodes -> 0 .. MaxCounter]
      /\ made' = made
  BY DEF TypeOK, ImportTypeOK, SenderTypeOK, CommitImport, senderVars
<1>1. PICK n \in Nodes, c \in Counters : bundle[i] = <<n, c>>
  BY <1>0 DEF CommitImport
<1>2. imported' = [imported EXCEPT ![n][c] = @ + 1]
  BY <1>1 DEF CommitImport
<1>3. imported[n][c] = 0
  <2>1. c > maxSeen[n] /\ maxSeen[n] \in Nat /\ c \in Nat
    <3>1. bundle[i] # <<>> /\ bundle[i][1] = n /\ bundle[i][2] = c
      BY <1>1
    <3>2. bundle[i][2] > maxSeen[bundle[i][1]]
      BY <3>1 DEF ImportInv
    <3>3. QED
      BY <1>0, <3>1, <3>2 DEF Counters
  <2>2. ~ (imported[n][c] > 0)
    BY <2>1 DEF ImportInv
  <2>3. imported[n][c] \in Nat
    BY <1>0
  <2>4. QED
    BY <2>2, <2>3
<1>4. made[n][c] = 1
  <2>1. made[n][c] > 0 /\ made[n][c] <= 1
    <3>1. bundle[i] # <<>> /\ bundle[i][1] = n /\ bundle[i][2] = c
      BY <1>1
    <3>2. made[n][c] > 0
      BY <3>1 DEF BundleIsMade
    <3>3. QED
      BY <3>2 DEF NonceInv
  <2>2. made[n][c] \in Nat
    BY <1>0
  <2>3. QED
    BY <2>1, <2>2
<1>5. PerFrame(imported') = [PerFrame(imported) EXCEPT ![<<n, c>>] = 1]
  <2>1. imported' = OneMore(imported, n, c)
    BY <1>2 DEF OneMore
  <2>2. PerFrame(OneMore(imported, n, c)) = [PerFrame(imported) EXCEPT ![<<n, c>>] = 1]
    BY <1>0, <1>3, PerFrameBump
  <2>3. QED
    BY <2>1, <2>2
<1>6. PerFrame(made') = PerFrame(made)
  BY <1>0
<1>7. Stick!Take(<<n, c>>) /\ <<n, c>> \in Frames
  BY <1>3, <1>4, <1>5, <1>6, PerFrameValue, PerFrameNext DEF Stick!Take
<1>8. QED
  BY <1>7

\* What was made stays made.
LEMMA MadeStays ==
  ASSUME TypeOK, [Next]_vars, NEW n \in Nodes, NEW c \in Counters, made[n][c] > 0
  PROVE  made'[n][c] > 0
<1>0. made \in [Nodes -> [Counters -> Nat]] /\ NodeOf \in [Senders -> Nodes]
  BY DEF TypeOK, SenderTypeOK
<1>1. ASSUME NEW t \in Senders, Pack(t) PROVE made'[n][c] > 0
  <2>1. made' = [made EXCEPT ![NodeOf[t]][drawn[t]] = @ + 1]
    BY <1>1 DEF Pack
  <2>2. made'[n][c] = made[n][c] \/ made'[n][c] = made[n][c] + 1
    BY <1>0, <2>1
  <2>3. made[n][c] \in Nat
    BY <1>0
  <2>4. QED
    BY <2>2, <2>3
<1>2. (\E t \in Senders : Pack(t)) \/ made' = made
  BY DEF Next, vars, SenderStep, BeginNonce, CommitNonce, RollbackNonce, NodeCrash, GoSilent,
         CheckKey, StoreKey, Receive, ReceiverRestart, ImporterStep, BeginImport,
         CommitImport, RollbackImport, senderVars
<1>3. QED
  BY <1>1, <1>2

LEMMA NextBundle == TypeOK /\ BundleIsMade /\ [Next]_vars => BundleIsMade'
<1> SUFFICES ASSUME TypeOK, BundleIsMade, [Next]_vars,
                    NEW j \in Importers, bundle'[j] # <<>>
             PROVE  made'[bundle'[j][1]][bundle'[j][2]] > 0
  BY DEF BundleIsMade
<1>0. bundle \in [Importers -> {<<>>} \cup Nodes \X Counters]
  BY DEF TypeOK, ImportTypeOK
<1>1. CASE bundle'[j] = bundle[j]
  <2>1. PICK n \in Nodes, c \in Counters : bundle[j] = <<n, c>>
    BY <1>0, <1>1
  <2>2. made[n][c] > 0
    <3>1. bundle[j] # <<>> /\ bundle[j][1] = n /\ bundle[j][2] = c
      BY <2>1
    <3>2. QED
      BY <3>1 DEF BundleIsMade
  <2>3. made'[n][c] > 0
    BY <2>2, MadeStays
  <2>4. QED
    BY <1>1, <2>1, <2>3
<1>2. ASSUME NEW n \in Nodes, NEW c \in Counters, BeginImport(j, n, c)
      PROVE  made'[bundle'[j][1]][bundle'[j][2]] > 0
  <2>1. made' = made /\ made[n][c] > 0 /\ bundle'[j] = <<n, c>>
    BY <1>0, <1>2 DEF BeginImport, senderVars, Bundles
  <2>2. QED
    BY <2>1
<1>3. bundle'[j] = bundle[j] \/ \E n \in Nodes, c \in Counters : BeginImport(j, n, c)
  <2>1. ASSUME NEW i \in Importers, NEW n \in Nodes, NEW c \in Counters, i # j,
               BeginImport(i, n, c)
        PROVE  bundle'[j] = bundle[j]
    BY <1>0, <2>1 DEF BeginImport
  <2>2. ASSUME NEW i \in Importers, CommitImport(i) \/ RollbackImport(i)
        PROVE  bundle'[j] = bundle[j]
    <3>1. bundle' = [bundle EXCEPT ![i] = <<>>]
      BY <2>2 DEF CommitImport, RollbackImport
    <3>2. QED
      BY <1>0, <3>1
  <2>3. (\E i \in Importers : ImporterStep(i)) \/ bundle' = bundle
    BY DEF Next, vars, SenderStep, BeginNonce, CommitNonce, RollbackNonce, Pack, NodeCrash,
           GoSilent, CheckKey, StoreKey, Receive, ReceiverRestart, importVars
  <2>4. QED
    BY <2>1, <2>2, <2>3 DEF ImporterStep
<1>4. QED
  BY <1>1, <1>2, <1>3

\* A step that changes none of the counts is a stutter of the channel.
LEMMA RadioKeeps ==
  ASSUME UNCHANGED <<made, delivered>> PROVE UNCHANGED Radio!vars
BY PerFrameNext DEF Radio!vars

LEMMA StickKeeps ==
  ASSUME UNCHANGED <<made, imported>> PROVE UNCHANGED Stick!vars
BY PerFrameNext DEF Stick!vars

LEMMA RadioStep ==
  ASSUME TypeOK, NonceInv, WindowInv, [Next]_vars
  PROVE  [Radio!Next]_(Radio!vars)
<1>1. ASSUME NEW t \in Senders, SenderStep(t) PROVE [Radio!Next]_(Radio!vars)
  <2>1. CASE Pack(t)
    BY <2>1, PackMakes DEF Radio!Next
  <2>2. CASE BeginNonce(t) \/ CommitNonce(t) \/ RollbackNonce(t)
    BY <2>2, RadioKeeps DEF BeginNonce, CommitNonce, RollbackNonce, radioVars
  <2>3. QED
    BY <1>1, <2>1, <2>2 DEF SenderStep
<1>2. ASSUME NEW n \in Nodes, NodeCrash(n) \/ GoSilent(n) PROVE [Radio!Next]_(Radio!vars)
  BY <1>2, RadioKeeps DEF NodeCrash, GoSilent, radioVars
<1>3. ASSUME NEW r \in Registrars,
             (\E n \in Nodes, k \in Keys : CheckKey(r, n, k)) \/ StoreKey(r)
      PROVE  [Radio!Next]_(Radio!vars)
  BY <1>3, RadioKeeps DEF CheckKey, StoreKey, senderVars, radioVars
<1>4. ASSUME NEW n \in Nodes, NEW c \in Counters, NEW intact \in BOOLEAN,
             Receive(n, c, intact)
      PROVE  [Radio!Next]_(Radio!vars)
  <2>1. <<n, c>> \in Frames
    BY DEF Frames
  <2>2. QED
    BY <1>4, <2>1, ReceiveTakes, RadioKeeps DEF Radio!Next
<1>5. CASE ReceiverRestart
  <2>1. made' = made /\ PerFrame(made') = PerFrame(made)
    BY <1>5 DEF ReceiverRestart, senderVars
  <2>2. PerFrame(delivered') = [f \in Frames |-> 0]
    BY <1>5 DEF ReceiverRestart, PerFrame, Frames
  <2>3. Radio!Forget
    BY <2>1, <2>2, PerFrameNext DEF Radio!Forget, Radio!NoFrame
  <2>4. QED
    BY <2>3 DEF Radio!Next
<1>6. ASSUME NEW i \in Importers, ImporterStep(i) PROVE [Radio!Next]_(Radio!vars)
  BY <1>6, RadioKeeps
  DEF ImporterStep, BeginImport, CommitImport, RollbackImport, senderVars, radioVars
<1>7. CASE UNCHANGED vars
  BY <1>7, RadioKeeps DEF vars, senderVars, radioVars
<1>8. QED
  BY <1>1, <1>2, <1>3, <1>4, <1>5, <1>6, <1>7 DEF Next

LEMMA StickStep ==
  ASSUME TypeOK, NonceInv, ImportInv, BundleIsMade, [Next]_vars
  PROVE  [Stick!Next]_(Stick!vars)
<1>1. ASSUME NEW t \in Senders, SenderStep(t) PROVE [Stick!Next]_(Stick!vars)
  <2>1. CASE Pack(t)
    BY <2>1, PackMakes DEF Stick!Next
  <2>2. CASE BeginNonce(t) \/ CommitNonce(t) \/ RollbackNonce(t)
    BY <2>2, StickKeeps DEF BeginNonce, CommitNonce, RollbackNonce, importVars
  <2>3. QED
    BY <1>1, <2>1, <2>2 DEF SenderStep
<1>2. ASSUME NEW n \in Nodes, NodeCrash(n) \/ GoSilent(n) PROVE [Stick!Next]_(Stick!vars)
  BY <1>2, StickKeeps DEF NodeCrash, GoSilent, importVars
<1>3. ASSUME NEW r \in Registrars,
             (\E n \in Nodes, k \in Keys : CheckKey(r, n, k)) \/ StoreKey(r)
      PROVE  [Stick!Next]_(Stick!vars)
  BY <1>3, StickKeeps DEF CheckKey, StoreKey, senderVars, importVars
<1>4. ASSUME NEW n \in Nodes, NEW c \in Counters, NEW intact \in BOOLEAN,
             Receive(n, c, intact)
      PROVE  [Stick!Next]_(Stick!vars)
  BY <1>4, StickKeeps DEF Receive, senderVars, importVars
<1>5. CASE ReceiverRestart
  BY <1>5, StickKeeps DEF ReceiverRestart, senderVars, importVars
<1>6. ASSUME NEW i \in Importers, ImporterStep(i) PROVE [Stick!Next]_(Stick!vars)
  <2>1. CASE CommitImport(i)
    BY <2>1, ImportTakes DEF Stick!Next
  <2>2. CASE (\E n \in Nodes, c \in Counters : BeginImport(i, n, c)) \/ RollbackImport(i)
    BY <2>2, StickKeeps DEF BeginImport, RollbackImport, senderVars
  <2>3. QED
    BY <1>6, <2>1, <2>2 DEF ImporterStep
<1>7. CASE UNCHANGED vars
  BY <1>7, StickKeeps DEF vars, senderVars, importVars
<1>8. QED
  BY <1>1, <1>2, <1>3, <1>4, <1>5, <1>6, <1>7 DEF Next

LEMMA ChannelInit == Init => Radio!Init /\ Stick!Init
BY DEF Init, Radio!Init, Radio!NoFrame, Stick!Init, Stick!NoFrame, PerFrame, Frames

\* Frames and their windows implement the channel whose receiver may forget (pack(),
\* unpack()): NonceInv says that what is made is new, WindowInv that what is accepted
\* is, and a restart of the receiver is the forgetting.
THEOREM RadioImplementsChannel == Spec => RadioIsChannel
<1>1. TypeOK /\ NonceInv /\ WindowInv /\ [Next]_vars => [Radio!Next]_(Radio!vars)
  BY RadioStep
<1>2. QED
  BY InitType, NextType, InitNonce, NextNonce, InitWindow, NextWindow, ChannelInit, <1>1, PTL
  DEF Spec, RadioIsChannel, Radio!Spec

\* Bundles and the table counter_seen implement the channel that never forgets
\* (CounterVerificationStore): across restarts nothing is taken in twice, and only
\* what a node has made.
THEOREM StickImplementsChannel == Spec => StickIsChannel
<1>1. Init => ImportInv /\ BundleIsMade
  BY DEF Init, ImportInv, BundleIsMade, Counters
<1>2. TypeOK /\ NonceInv /\ ImportInv /\ BundleIsMade /\ [Next]_vars
        => [Stick!Next]_(Stick!vars)
  BY StickStep
<1>3. QED
  BY InitType, NextType, InitNonce, NextNonce, NextImport, NextBundle, ChannelInit,
     <1>1, <1>2, PTL DEF Spec, StickIsChannel, Stick!Spec

\* Counters as a whole: no two frames share a nonce (SessionCounter.next()), no frame
\* is accepted twice while its window stands, whatever order the frames come in and
\* whatever the window forgets (ReplayWindow.check()), and no bundle is taken in that
\* was not made for the stick (verify_and_increment()).
THEOREM CountersCorrect == Spec => []CounterInv
<1>1. Init => SeenArrived
  BY DEF Init, WindowInit, SeenArrived
<1>2. Init => ImportInv /\ BundleIsMade
  BY DEF Init, ImportInv, BundleIsMade, Counters
<1>3. TypeOK /\ NonceInv /\ WindowInv /\ SeenArrived /\ ImportInv /\ BundleIsMade => CounterInv
  BY DEF CounterInv
<1>4. QED
  BY InitType, NextType, InitNonce, NextNonce, InitWindow, NextWindow, NextSeen,
     NextImport, NextBundle, <1>1, <1>2, <1>3, PTL DEF Spec

\* Both channels at once, the radio that may forget and the stick that may not.
THEOREM ChannelsAreKept == Spec => ChannelsKept
BY RadioImplementsChannel, StickImplementsChannel DEF ChannelsKept
=============================================================================
