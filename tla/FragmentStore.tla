---------------------------- MODULE FragmentStore ---------------------------
(***************************************************************************)
(* The radio side's receiver: bundles are cut into frames                  *)
(* (BundleFragmenter.fragment of core/dtn_fragmenter.py), frames arrive in *)
(* any order, some twice, some never, and FragmentStore keeps the real     *)
(* ones in SQLite until a bundle is complete and can be reassembled.       *)
(* Beside it, purge_timed_out() and the storage guardian delete rows.      *)
(*                                                                         *)
(* No module of the repository calls the store yet.  Its users here are    *)
(* the ones its docstrings name: an assembler that retrieves a complete    *)
(* bundle, reassembles and purges it; a janitor that calls                 *)
(* purge_timed_out(); a guardian that calls enforce().  Each runs in a     *)
(* thread of its own (the store has a connection per thread), and every    *)
(* SQL statement is a step.                                                *)
(*                                                                         *)
(* A frame is [id, index, total, ghost, payload]; the payload of a real    *)
(* frame is known by the bundle it is a piece of, a ghost's is NoPayload   *)
(* (payload_size 0).  A row has, instead of the flag, the time "at" of its *)
(* arrival: one tick of "clock" per stored row.                            *)
(***************************************************************************)
EXTENDS StorageGuardian, FiniteSets

CONSTANTS Bundles,     \* the bundles that may be sent
          BundleId,    \* the 16-bit id each of them is given
          TotalFrags,  \* the number of its real fragments
          NoPayload,
          Assemblers,  \* threads that reassemble
          WalRows,     \* bound: rows whose bytes the WAL may hold when measured
          MaxStored,   \* bound: rows ever stored
          Timeouts,    \* bound: how far the cutoff of purge_timed_out() gets
          MaxFaults    \* bound: crashes, and DELETEs and VACUUMs that fail

ASSUME FragmentAssumption ==
  /\ TotalFrags \in [Bundles -> Nat \ {0}]
  /\ NoPayload \notin Bundles
  /\ WalRows \in Nat
  /\ MaxStored \in Nat
  /\ Timeouts \in Nat
  /\ MaxFaults \in Nat

Ids == {BundleId[b] : b \in Bundles}

VARIABLES sent,       \* bundles that have been fragmented and sent
          rows,       \* the table fragments
          clock,      \* now
          cutoff,     \* now - bundle_timeout
          delivered,  \* what reassemble() has returned, as {<<index, payload>>}
          pc,         \* where each assembler is
          bundle,     \* the id it works on
          due,        \* the janitor's list, {} when it is idle
          pages,      \* the rows the main file has room for
          guardian,   \* where the guardian is
          size,       \* the bytes it has measured, 0 if it has not
          excess,     \* rows it is about to delete
          faults

storeVars == <<rows, clock, pages>>
assemblerVars == <<pc, bundle, delivered>>
guardianVars == <<guardian, size, excess>>
vars == <<sent, storeVars, cutoff, assemblerVars, due, guardianVars, faults>>

\* fragment(): the real frames of a bundle, and one that stands for the ghosts.
RealFrames(b) == {[id |-> BundleId[b], index |-> i, total |-> TotalFrags[b],
                   ghost |-> FALSE, payload |-> b] : i \in 0 .. TotalFrags[b] - 1}

Ghost(b) == [id |-> BundleId[b], index |-> 0, total |-> 1,
             ghost |-> TRUE, payload |-> NoPayload]

RowOf(f) == [id |-> f.id, index |-> f.index, total |-> f.total,
             payload |-> f.payload, at |-> clock]

RowsOf(i) == {r \in rows : r.id = i}

Piece(r) == <<r.index, r.payload>>

\* All of a bundle, as reassemble() should return it.
Original(b) == {<<i, b>> : i \in 0 .. TotalFrags[b] - 1}

TypeOK == /\ sent \subseteq Bundles
          /\ clock \in 0 .. MaxStored
          /\ rows \subseteq [id : Ids, index : Nat, total : Nat, payload : Bundles,
                             at : 0 .. clock]
          /\ IsFiniteSet(rows)
          /\ cutoff \in 0 .. Timeouts
          /\ delivered \subseteq SUBSET (Nat \X Bundles)
          /\ pc \in [Assemblers -> {"idle", "retrieve", "purge"}]
          /\ bundle \in [Assemblers -> Ids \cup {NoPayload}]
          /\ due \subseteq Ids
          /\ pages \in Nat
          /\ guardian \in {"idle", "measure", "count", "delete", "vacuum"}
          /\ size \in Nat
          /\ excess \in Nat
          /\ faults \in 0 .. MaxFaults

Init == /\ sent = {}
        /\ rows = {}
        /\ clock = 0
        /\ cutoff = 0
        /\ delivered = {}
        /\ pc = [a \in Assemblers |-> "idle"]
        /\ bundle = [a \in Assemblers |-> NoPayload]
        /\ due = {}
        /\ pages = 0
        /\ guardian = "idle"
        /\ size = 0
        /\ excess = 0
        /\ faults = 0

-----------------------------------------------------------------------------
(* The radio.                                                              *)

\* Whoever chooses ids may give one again at any time: fragment() looks at nothing
\* but its arguments.
Send(b) == /\ b \notin sent
           /\ sent' = sent \cup {b}
           /\ UNCHANGED <<storeVars, cutoff, assemblerVars, due, guardianVars, faults>>

\* Frames on their way.  One may come at any time, several times or never: what is
\* lost is what never comes.
Air == UNION {RealFrames(b) \cup {Ghost(b)} : b \in sent}

\* An INSERT takes free room, or makes the file grow when it is checkpointed.
Insert(r) == /\ rows' = rows \cup {r}
             /\ clock' = clock + 1
             /\ pages' = IF Cardinality(rows) < pages THEN pages ELSE pages + 1

\* Mutant: a table without UNIQUE(bundle_id, frag_index).
StoresAgain(f) == IF f.ghost THEN UNCHANGED storeVars ELSE Insert(RowOf(f))

\* store(): ghosts are left out, and INSERT OR IGNORE keeps the fragment that
\* came first.
Store(f) == IF f.ghost \/ \E r \in rows : r.id = f.id /\ r.index = f.index
            THEN UNCHANGED storeVars
            ELSE Insert(RowOf(f))

Receive(f) == /\ clock < MaxStored
              /\ Store(f)
              /\ UNCHANGED <<sent, cutoff, assemblerVars, due, guardianVars, faults>>

-----------------------------------------------------------------------------
(* The assembler.                                                          *)

\* Mutant: one fragment more than there are.
NeedsOneMore(i) == /\ RowsOf(i) # {}
                   /\ \A r \in RowsOf(i) : Cardinality(RowsOf(i)) > r.total

\* is_complete(): the number of rows is at least the greatest total_frags.
IsComplete(i) == /\ RowsOf(i) # {}
                 /\ \A r \in RowsOf(i) : Cardinality(RowsOf(i)) >= r.total

\* Mutant: reassemble() without the test for missing indices.
ReassemblesIncomplete(R) == /\ R # {}
                            /\ \A r \in R : r.payload # NoPayload
                            /\ \A r, s \in R : r.total = s.total
                            /\ \A r, s \in R : r.index = s.index => r = s

\* reassemble() raises no ValueError: some fragments, none of them empty, one
\* value of total_frags, no index twice and none missing.
Reassembles(R) == /\ R # {}
                  /\ \A r \in R : r.payload # NoPayload
                  /\ \A r, s \in R : r.total = s.total
                  /\ \A r, s \in R : r.index = s.index => r = s
                  /\ \A r \in R : 0 .. r.total - 1 \subseteq {s.index : s \in R}

FindComplete(a) == /\ pc[a] = "idle"
                   /\ \E i \in Ids : /\ IsComplete(i)
                                     /\ bundle' = [bundle EXCEPT ![a] = i]
                   /\ pc' = [pc EXCEPT ![a] = "retrieve"]
                   /\ UNCHANGED <<sent, storeVars, cutoff, delivered, due,
                                  guardianVars, faults>>

\* retrieve() and, of the list it returned, reassemble().
Reassemble(a) ==
  /\ pc[a] = "retrieve"
  /\ LET R == RowsOf(bundle[a])
     IN  IF Reassembles(R)
         THEN /\ delivered' = delivered \cup {{Piece(r) : r \in R}}
              /\ pc' = [pc EXCEPT ![a] = "purge"]
              /\ UNCHANGED bundle
         ELSE /\ pc' = [pc EXCEPT ![a] = "idle"]
              /\ bundle' = [bundle EXCEPT ![a] = NoPayload]
              /\ UNCHANGED delivered
  /\ UNCHANGED <<sent, storeVars, cutoff, due, guardianVars, faults>>

\* One DELETE, or an exception and a ROLLBACK after which the rows stay; purge()
\* and purge_timed_out() swallow it, enforce() lets its caller have it.  The file
\* keeps its room.
DeleteRows(R) == \/ rows' = rows \ R /\ UNCHANGED faults
                 \/ /\ faults < MaxFaults
                    /\ faults' = faults + 1
                    /\ UNCHANGED rows

Purge(a) == /\ pc[a] = "purge"
            /\ DeleteRows(RowsOf(bundle[a]))
            /\ pc' = [pc EXCEPT ![a] = "idle"]
            /\ bundle' = [bundle EXCEPT ![a] = NoPayload]
            /\ UNCHANGED <<sent, clock, pages, cutoff, delivered, due,
                           guardianVars>>

AssemblerStep(a) == FindComplete(a) \/ Reassemble(a) \/ Purge(a)

-----------------------------------------------------------------------------
(* purge_timed_out(), two statements.                                      *)

TimePasses == /\ cutoff < clock
              /\ cutoff < Timeouts
              /\ cutoff' = cutoff + 1
              /\ UNCHANGED <<sent, storeVars, assemblerVars, due, guardianVars,
                             faults>>

\* Mutant: the comparison with the cutoff the wrong way round.
TooYoungIds == {r.id : r \in {s \in rows : s.at > cutoff}}

\* The ids of which some fragment is too old.
TimedOutIds == {r.id : r \in {s \in rows : s.at < cutoff}}

FindTimedOut == /\ due = {}
                /\ due' = TimedOutIds
                /\ UNCHANGED <<sent, storeVars, cutoff, assemblerVars,
                               guardianVars, faults>>

DeleteTimedOut == /\ due # {}
                  /\ DeleteRows({r \in rows : r.id \in due})
                  /\ due' = {}
                  /\ UNCHANGED <<sent, clock, pages, cutoff, assemblerVars,
                                 guardianVars>>

-----------------------------------------------------------------------------
(* enforce() of the guardian: check(), then of _purge_fifo() the measuring  *)
(* of the files, COUNT, DELETE of the oldest and VACUUM.  Frames arrive     *)
(* and others delete between any two of them.                               *)

\* _file_size(): the main file and what the WAL holds by then.  The checkpoint
\* before the second measuring empties the WAL unless somebody reads, and whoever
\* stores fills it again.
Measured == {FileSize(pages + w) : w \in 0 .. WalRows}

GuardianCheck == /\ guardian = "idle"
                 /\ \E m \in Measured : NeedsPurge(m)
                 /\ guardian' = "measure"
                 /\ UNCHANGED <<sent, storeVars, cutoff, assemblerVars, due,
                                size, excess, faults>>

GuardianMeasure == /\ guardian = "measure"
                   /\ size' \in Measured
                   /\ guardian' = "count"
                   /\ UNCHANGED <<sent, storeVars, cutoff, assemblerVars, due,
                                  excess, faults>>

GuardianCount == /\ guardian = "count"
                 /\ IF NothingToPurge(size, Cardinality(rows))
                    THEN guardian' = "idle" /\ UNCHANGED excess
                    ELSE /\ guardian' = "delete"
                         /\ excess' = RowsToDelete(size, Cardinality(rows))
                 /\ size' = 0
                 /\ UNCHANGED <<sent, storeVars, cutoff, assemblerVars, due,
                                faults>>

\* ORDER BY received_at ASC LIMIT excess.
Oldest(r) == Cardinality({s \in rows : s.at < r.at}) < excess

\* An exception leaves enforce() before it gets to VACUUM.
GuardianDelete == /\ guardian = "delete"
                  /\ DeleteRows({r \in rows : Oldest(r)})
                  /\ guardian' = IF faults' = faults THEN "vacuum" ELSE "idle"
                  /\ excess' = 0
                  /\ UNCHANGED <<sent, clock, pages, cutoff, assemblerVars, due,
                                 size>>

\* VACUUM gives back the room that is free, or fails (another connection has a
\* transaction open) and the rows stay deleted all the same.
GuardianVacuum == /\ guardian = "vacuum"
                  /\ \/ pages' = Cardinality(rows) /\ UNCHANGED faults
                     \/ /\ faults < MaxFaults
                        /\ faults' = faults + 1
                        /\ UNCHANGED pages
                  /\ guardian' = "idle"
                  /\ UNCHANGED <<sent, rows, clock, cutoff, assemblerVars, due,
                                 size, excess>>

GuardianStep == \/ GuardianCheck \/ GuardianMeasure \/ GuardianCount
                \/ GuardianDelete \/ GuardianVacuum

-----------------------------------------------------------------------------
\* The table and the bundles on the air survive a restart.
Crash == /\ faults < MaxFaults
         /\ faults' = faults + 1
         /\ pc' = [a \in Assemblers |-> "idle"]
         /\ bundle' = [a \in Assemblers |-> NoPayload]
         /\ due' = {}
         /\ guardian' = "idle"
         /\ size' = 0
         /\ excess' = 0
         /\ UNCHANGED <<sent, storeVars, cutoff, delivered>>

Next == \/ \E b \in Bundles : Send(b)
        \/ \E f \in Air : Receive(f)
        \/ \E a \in Assemblers : AssemblerStep(a)
        \/ TimePasses \/ FindTimedOut \/ DeleteTimedOut
        \/ GuardianStep
        \/ Crash

Spec == Init /\ [][Next]_vars

\* The assembler works on what is complete, purge_timed_out() is called again
\* and again while time passes, and so is enforce().  The radio promises
\* nothing.
Fairness == /\ \A a \in Assemblers : WF_vars(AssemblerStep(a))
            /\ WF_vars(TimePasses)
            /\ WF_vars(FindTimedOut \/ DeleteTimedOut)
            /\ WF_vars(GuardianStep)

FairSpec == Spec /\ Fairness

-----------------------------------------------------------------------------
(* Properties.                                                             *)

\* The bundles whose fragments can be taken for those of b: nothing in a frame but
\* its id and its total says where it belongs.
Peers(b) == {c \in sent : BundleId[c] = BundleId[b] /\ TotalFrags[c] = TotalFrags[b]}

\* What reassemble() returns is whole ("Bundle original como bytes",
\* dtn_fragmenter.py:325), in whatever order its frames came and whoever deleted
\* rows between is_complete(), retrieve() and purge(): a sent bundle with each of
\* its fragments in its place, and none of another bundle unless that has the id
\* and the length of it.  A bundle alone with its id and length is returned as it
\* was sent; two of them may be mixed.
DeliveredAsSent ==
  \A d \in delivered : \E b \in sent :
    \E from \in [0 .. TotalFrags[b] - 1 -> Peers(b)] :
      d = {<<i, from[i]>> : i \in 0 .. TotalFrags[b] - 1}

RowsAreSent == \A r \in rows : /\ r.payload \in sent
                               /\ r.id = BundleId[r.payload]
                               /\ r.index \in 0 .. TotalFrags[r.payload] - 1
                               /\ r.total = TotalFrags[r.payload]

OneRowPerIndex ==
  \A r, s \in rows : r.id = s.id /\ r.index = s.index => r = s

\* All of it together, from which DeliveredAsSent and CompleteIsWhole follow (see
\* FragmentStoreProofs), and that the file has room for the rows whatever the
\* guardian and the others did to either.
StoreInv == /\ TypeOK
            /\ RowsAreSent
            /\ OneRowPerIndex
            /\ Cardinality(rows) <= pages

OneTotal(i) == \A r, s \in RowsOf(i) : r.total = s.total

\* is_complete() counts rows ("True si todos los fragmentos del bundle fueron
\* recibidos", dtn_fragmenter.py:487) and reassemble() looks at each of them: on
\* every table they agree about every id, except where bundles of different lengths
\* have it.  There the count may be reached by a mixture, and reassemble() refuses.
CompleteIsWhole ==
  \A i \in Ids : Reassembles(RowsOf(i)) <=> IsComplete(i) /\ OneTotal(i)

\* Every fragment of b is in the table, and nothing else under its id.
Whole(b) ==
  {Piece(r) : r \in RowsOf(BundleId[b])} = Original(b)

\* A bundle of which every fragment has been stored is handed on, unless its
\* timeout or the guardian takes it first, or another bundle comes under its id.
WholeIsDelivered ==
  \A b \in Bundles : Whole(b) ~> Original(b) \in delivered \/ ~Whole(b)

Overdue(i) == \E r \in rows : r.id = i /\ r.at < cutoff

\* Whatever is left in the table past its timeout, mixed or incomplete, goes.
OverdueIsPurged == \A i \in Ids : Overdue(i) ~> ~Overdue(i)

Crowded == pages \in {p \in 0 .. MaxStored : NeedsPurge(FileSize(p))}

\* The guardian gets the main file below the threshold at which it purges, or the
\* table empty: it estimates from a size that is out of date, its DELETE may find
\* other rows than its COUNT, the DELETE and the VACUUM may fail, and only the
\* VACUUM makes the file smaller.
RoomIsMade == Crowded /\ rows # {} ~> ~Crowded \/ rows = {}
=============================================================================
