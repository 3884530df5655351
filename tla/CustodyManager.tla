--------------------------- MODULE CustodyManager ---------------------------
(***************************************************************************)
(* The custody table of core/custody_manager.py (custody.db) and the       *)
(* transactions CustodyManager runs on it.  A bundle is a row, created     *)
(* PENDING by grant() and identified by the idempotency key of the event   *)
(* it stands for.  Each operator is one transaction or one SELECT; ack()   *)
(* with verify_hash is two of them, HashMatches and then AckUpdate.        *)
(*                                                                         *)
(* Time enters in one place: granted_at + timeout_seconds is never         *)
(* refreshed, so once a row is past its timeout it stays past it.          *)
(* "overdue" is the set of such rows.                                      *)
(***************************************************************************)
EXTENDS Naturals

CONSTANTS Bundles,     \* bundle ids
          Hashes,      \* SHA-256 values; distinct payloads have distinct hashes
          NoHash,      \* payload_hash of a bundle that has no row
          MaxAttempts  \* max_attempts_before_dead

ASSUME CustodyAssumption == /\ NoHash \notin Hashes
                            /\ MaxAttempts \in Nat

VARIABLES custody,      \* the status column, "NONE" for a bundle with no row
          payloadHash,  \* the payload_hash column
          acked,        \* the rows whose acked_at is set
          retries,      \* the retries column, saturating above MaxAttempts
          overdue       \* rows with granted_at + timeout_seconds < now

custodyVars == <<custody, payloadHash, acked, retries, overdue>>

Status == {"NONE", "PENDING", "ACKED", "FAILED", "TRANSFER"}

\* Only retries > MaxAttempts is ever asked, so one value above it is enough.
RetryCap == MaxAttempts + 1

CustodyTypeOK == /\ custody \in [Bundles -> Status]
                 /\ payloadHash \in [Bundles -> Hashes \cup {NoHash}]
                 /\ acked \subseteq Bundles
                 /\ retries \in [Bundles -> 0 .. RetryCap]
                 /\ overdue \subseteq Bundles

CustodyInit == /\ custody = [b \in Bundles |-> "NONE"]
               /\ payloadHash = [b \in Bundles |-> NoHash]
               /\ acked = {}
               /\ retries = [b \in Bundles |-> 0]
               /\ overdue = {}

-----------------------------------------------------------------------------
\* Mutant: INSERT OR REPLACE in grant(), every grant starts a new custody.
GrantReplacing(b, h) ==
  /\ custody' = [custody EXCEPT ![b] = "PENDING"]
  /\ payloadHash' = [payloadHash EXCEPT ![b] = h]
  /\ acked' = acked \ {b}
  /\ retries' = [retries EXCEPT ![b] = 0]
  /\ overdue' = overdue \ {b}

\* grant(): INSERT OR IGNORE, a bundle that has a row keeps it.
Grant(b, h) ==
  /\ IF custody[b] = "NONE"
     THEN /\ custody' = [custody EXCEPT ![b] = "PENDING"]
          /\ payloadHash' = [payloadHash EXCEPT ![b] = h]
     ELSE UNCHANGED <<custody, payloadHash>>
  /\ UNCHANGED <<acked, retries, overdue>>

\* ack(), first part: the SELECT that compares verify_hash with the row.
HashMatches(b, h) == custody[b] # "NONE" /\ payloadHash[b] = h

\* Mutant: the status dropped from the WHERE of ack() and transfer().
HandOverAlways(b) == custody[b] # "NONE"

\* ack() and transfer() return True when their UPDATE changed the row.
HandOverWorks(b) == custody[b] = "PENDING"

\* The UPDATE of both: only a PENDING row changes.
HandOver(b, to) ==
  /\ custody' = IF HandOverWorks(b) THEN [custody EXCEPT ![b] = to] ELSE custody
  /\ UNCHANGED <<payloadHash, retries, overdue>>

\* ack(), second part: UPDATE ... WHERE status = PENDING.
AckUpdate(b) == /\ HandOver(b, "ACKED")
                /\ acked' = IF HandOverWorks(b) THEN acked \cup {b} ELSE acked

\* transfer(): UPDATE ... WHERE status = PENDING.  next_hop is not modelled.
Transfer(b) == HandOver(b, "TRANSFER") /\ UNCHANGED acked

\* mark_failed(): the UPDATE has no condition on the status.
MarkFailed(b) ==
  /\ custody' = IF custody[b] = "NONE" THEN custody
                ELSE [custody EXCEPT ![b] = "FAILED"]
  /\ UNCHANGED <<payloadHash, acked, retries, overdue>>

\* Mutant: the counter does not advance.
SameRetries(b) == retries[b]

\* The value increment_retry() returns for a bundle that has a row.
NewRetries(b) == IF retries[b] < RetryCap THEN retries[b] + 1 ELSE RetryCap

\* increment_retry(): no condition on the status either.
IncrementRetry(b) ==
  /\ retries' = IF custody[b] = "NONE" THEN retries
                ELSE [retries EXCEPT ![b] = NewRetries(b)]
  /\ UNCHANGED <<custody, payloadHash, acked, overdue>>

\* is_safe_to_delete().
IsSafeToDelete(b) == custody[b] \in {"ACKED", "TRANSFER"}

\* timed_out().
TimedOut == {b \in overdue : custody[b] = "PENDING"}

\* purge_acked(): deletes ACKED rows, "old" standing for acked_at < cutoff.
PurgeAcked(old) ==
  LET gone == {b \in old : custody[b] = "ACKED"}
  IN  /\ custody' = [b \in Bundles |-> IF b \in gone THEN "NONE" ELSE custody[b]]
      /\ payloadHash' =
           [b \in Bundles |-> IF b \in gone THEN NoHash ELSE payloadHash[b]]
      /\ acked' = acked \ gone
      /\ retries' = [b \in Bundles |-> IF b \in gone THEN 0 ELSE retries[b]]
      /\ overdue' = overdue \ gone

\* The passage of time: the timeout of a PENDING row expires.
Expire(b) == /\ custody[b] = "PENDING"
             /\ b \notin overdue
             /\ overdue' = overdue \cup {b}
             /\ UNCHANGED <<custody, payloadHash, acked, retries>>
=============================================================================
