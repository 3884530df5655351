---------------------------- MODULE ReplayWindow ----------------------------
(***************************************************************************)
(* ReplayWindow of core/crypto_transport.py: per node, the highest counter *)
(* that arrived (0 before the first) and a bounded set of counters seen.   *)
(* check_and_record() runs under a lock, so it is one step.                *)
(***************************************************************************)
EXTENDS Integers, FiniteSets

CONSTANTS Nodes,
          WindowBack,     \* window_back
          WindowForward,  \* window_forward
          MaxSeen         \* max_seen

\* The constructor asks for WindowBack >= 0 and MaxSeen > 0 only; its defaults,
\* 50 and 500, satisfy the last conjunct, without which a counter could be
\* forgotten while the window still admits it.
ASSUME WindowAssumption == /\ WindowBack \in Nat
                           /\ WindowForward \in Nat
                           /\ MaxSeen \in Nat \ {0}
                           /\ MaxSeen > WindowBack

VARIABLES last,  \* _last
          seen   \* _seen

windowVars == <<last, seen>>

WindowTypeOK == /\ last \in [Nodes -> Nat]
                /\ seen \in [Nodes -> SUBSET Nat]
                /\ \A n \in Nodes : /\ seen[n] \subseteq 1 .. last[n]
                                    /\ Cardinality(seen[n]) <= MaxSeen

WindowInit == /\ last = [n \in Nodes |-> 0]
              /\ seen = [n \in Nodes |-> {}]

InWindow(n, c) == last[n] > 0 => /\ c >= last[n] - WindowBack
                                 /\ c <= last[n] + WindowForward

\* Mutant: only counters above the highest one.
AboveLast(n, c) == InWindow(n, c) /\ c > last[n]

IsNew(n, c) == InWindow(n, c) /\ c \notin seen[n]

\* Mutant: one counter fewer than the window admits is remembered.
TrimEarly(S) == IF Cardinality(S) > WindowBack
                THEN {c \in S : \E d \in S : d < c} ELSE S

\* The smallest counter is forgotten when there are too many.
Trim(S) == IF Cardinality(S) > MaxSeen
           THEN {c \in S : \E d \in S : d < c} ELSE S

Record(n, c) == /\ seen' = [seen EXCEPT ![n] = Trim(@ \cup {c})]
                /\ last' = [last EXCEPT ![n] = IF c > @ THEN c ELSE @]
=============================================================================
