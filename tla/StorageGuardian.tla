-------------------------- MODULE StorageGuardian ---------------------------
(***************************************************************************)
(* The space policy of core/storage_guardian.py for one TRANSIENT          *)
(* database: when to purge and how many rows.  Its main file has room for  *)
(* some number of rows, and never less than it had since the last VACUUM;  *)
(* p rows of room take FileSize(p) bytes, and so many rows of WAL as much  *)
(* on top.  Bases of role COUNTER are never purged and have no operator    *)
(* here.                                                                   *)
(***************************************************************************)
EXTENDS Naturals

CONSTANTS BaseSize,   \* bytes of a database without rows
          RowSize,    \* bytes of a row
          MaxSize,    \* max_size_bytes
          WarnPct,    \* warn_threshold_percent
          PurgePct    \* purge_threshold_percent

ASSUME GuardianAssumption ==
  /\ BaseSize \in Nat
  /\ RowSize \in Nat \ {0}
  /\ MaxSize \in Nat \ {0}
  /\ WarnPct \in 1 .. 100
  /\ PurgePct \in WarnPct .. 100

FileSize(p) == BaseSize + p * RowSize

\* check().needs_purge
NeedsPurge(size) == size * 100 >= MaxSize * PurgePct

\* What a purge aims at, int(max_size_bytes * warn / 100).
TargetSize == (MaxSize * WarnPct) \div 100

\* The early return of _purge_fifo(): of n rows in files of that size.
NothingToPurge(size, n) == n = 0 \/ size <= TargetSize

\* Mutant: the excess divided without the row that is rounded off.
RowsRoundedDown(size, n) == ((size - TargetSize) * n) \div size

\* How many rows _purge_fifo() deletes: the excess divided by the mean size of
\* a row (in which every row bears its share of BaseSize, of the room that is
\* free and of the WAL), and one more, but not more than there are.
RowsToDelete(size, n) ==
  LET estimate == ((size - TargetSize) * n) \div size + 1
  IN  IF estimate <= n THEN estimate ELSE n
=============================================================================
