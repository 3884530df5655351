--------------------------- MODULE DeviceRegistry ---------------------------
(***************************************************************************)
(* The register of provisioned devices (core/device_registry.py) and the   *)
(* command that appends to it and prints the certificate                   *)
(* (scripts/vtr-provision.py).  Several benches, or a bench and a second   *)
(* terminal, may run the command on one file, each for a device of its     *)
(* own, and may run it again for the same device.                          *)
(*                                                                         *)
(* append() opens a deferred transaction: the SELECT of the last hash      *)
(* fixes its snapshot and takes no lock, the INSERT takes the one write    *)
(* lock of the file.  In WAL mode SQLite refuses that INSERT when another  *)
(* connection has committed since the snapshot.                            *)
(*                                                                         *)
(* The hash of an entry covers the hash of the one before it, so it stands *)
(* for a position of the chain: previous_hash is the number of entries it  *)
(* covers, 0 for GENESIS_HASH.                                             *)
(***************************************************************************)
EXTENDS Naturals, Sequences

CONSTANTS Devices,
          MaxEntries  \* bound on the length of the chain

ASSUME RegistryAssumption == MaxEntries \in Nat

VARIABLES entries,  \* registry_entries by id
          command,  \* where the command for each device is: "idle", "begun", "read",
                    \* "locked" or "committed"
          seen,     \* its previous_hash, with the snapshot it was read in; 0 if none
          printed   \* certificates: the device and the position of its entry

registryVars == <<entries, command, seen, printed>>

Entry == [device : Devices, previous : Nat]

RegistryTypeOK ==
  /\ entries \in Seq(Entry)
  /\ command \in [Devices -> {"idle", "begun", "read", "locked", "committed"}]
  /\ seen \in [Devices -> Nat]
  /\ printed \subseteq Devices \X Nat

RegistryInit == /\ entries = <<>>
                /\ command = [d \in Devices |-> "idle"]
                /\ seen = [d \in Devices |-> 0]
                /\ printed = {}

-----------------------------------------------------------------------------
\* BEGIN, which locks nothing and reads nothing.
Begin(d) == /\ command[d] = "idle"
            /\ command' = [command EXCEPT ![d] = "begun"]
            /\ UNCHANGED <<entries, seen, printed>>

\* _last_hash()
ReadLast(d) == /\ command[d] = "begun"
               /\ command' = [command EXCEPT ![d] = "read"]
               /\ seen' = [seen EXCEPT ![d] = Len(entries)]
               /\ UNCHANGED <<entries, printed>>

Unlocked == \A d \in Devices : command[d] # "locked"

\* Mutant: the last hash is read before BEGIN, so the INSERT has a new snapshot.
AnySnapshot(d) == TRUE

SnapshotCurrent(d) == seen[d] = Len(entries)

\* INSERT, when it gets the lock.
Insert(d) == /\ command[d] = "read"
             /\ Unlocked
             /\ SnapshotCurrent(d)
             /\ Len(entries) < MaxEntries
             /\ command' = [command EXCEPT ![d] = "locked"]
             /\ UNCHANGED <<entries, seen, printed>>

Commit(d) == /\ command[d] = "locked"
             /\ entries' = Append(entries, [device |-> d, previous |-> seen[d]])
             /\ command' = [command EXCEPT ![d] = "committed"]
             /\ UNCHANGED <<seen, printed>>

Ends(d) == /\ command' = [command EXCEPT ![d] = "idle"]
           /\ seen' = [seen EXCEPT ![d] = 0]
           /\ UNCHANGED entries

\* Mutant: the certificate is printed although the INSERT was refused.
RefusedYetPrinted(d) == /\ command[d] = "read"
                        /\ ~Unlocked \/ ~SnapshotCurrent(d)
                        /\ Ends(d)
                        /\ printed' = printed \cup {<<d, seen[d] + 1>>}

\* The INSERT finds the file locked until its timeout, or its snapshot is old: the
\* exception rolls back and ends the command.
InsertRefused(d) == /\ command[d] = "read"
                    /\ ~Unlocked \/ ~SnapshotCurrent(d)
                    /\ Ends(d)
                    /\ UNCHANGED printed

\* The certificate carries the hash of the entry, which the command still holds.
PrintCertificate(d) == /\ command[d] = "committed"
                       /\ printed' = printed \cup {<<d, seen[d] + 1>>}
                       /\ Ends(d)

\* The process ends: what is not committed is rolled back, and an entry that is
\* stays without its certificate.
Killed(d) == /\ command[d] # "idle"
             /\ Ends(d)
             /\ UNCHANGED printed

RegistryStep == \E d \in Devices :
                  \/ Begin(d) \/ ReadLast(d) \/ Insert(d) \/ InsertRefused(d)
                  \/ Commit(d) \/ PrintCertificate(d) \/ Killed(d)

RegistrySpec == RegistryInit /\ [][RegistryStep]_registryVars

-----------------------------------------------------------------------------
(* Properties.                                                             *)

\* verify_chain() returns True: each entry links to the one right before it.
Verifies == \A n \in DOMAIN entries : entries[n].previous = n - 1

Registered(d, n) == n \in DOMAIN entries /\ entries[n].device = d

\* However the commands interleave and wherever they are killed, the chain has no
\* fork and no gap that verify_chain() would report, and every certificate that was
\* printed is of the entry its hash names
\* (device_registry.py:13, "Logging append-only con hash chain").
ChainIntact == /\ Verifies
               /\ \A c \in printed : Registered(c[1], c[2])

Register == INSTANCE Ledger WITH Holders <- Devices, lines <- entries, receipts <- printed

\* The register is a ledger at every step: a commit adds one line, which links to the
\* last, no step of any command changes or takes away a line, and a certificate is
\* printed of a line of its device that is already there.
RegisterIsLedger == Register!Spec

\* What makes it inductive: the snapshot of the command that holds the lock is the
\* chain as it is, so there is one such command, and a command that has committed
\* knows where its entry is.
LockIsCurrent == \A d \in Devices : command[d] = "locked" => SnapshotCurrent(d)
OneLock == \A d, e \in Devices : command[d] = "locked" /\ command[e] = "locked" => d = e
CommittedIsThere == \A d \in Devices :
                      command[d] = "committed" => Registered(d, seen[d] + 1)

RegistryInv == /\ RegistryTypeOK
               /\ LockIsCurrent
               /\ OneLock
               /\ CommittedIsThere
               /\ ChainIntact
=============================================================================
