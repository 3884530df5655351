# vtr-continuity in TLA+

Specifications of vtr-continuity: what keeps an OT event from being lost between
the moment a producer hands it to the Raspberry Pi and the moment the central
server has it, what keeps a frame of the radio side from being mixed, repeated or
accepted twice, and what the tokens, the registers and the browser's queue promise.
The modules are written from the code; a comment in each names the functions it
stands for.

## The system

| Part | Code | State it keeps | Operations |
|---|---|---|---|
| Event queue | `rpi/queue_store.py` | SQLite table `offline_queue` (unique key, `queued_at`, `attempts`), `sync_log` | enqueue, peek, ack_batch, mark_attempt, clear |
| Custody manager | `core/custody_manager.py` | SQLite table `custody_bundles` (status, payload hash, retries, times) | grant, ack, transfer, mark_failed, increment_retry, timed_out, is_safe_to_delete, purge_acked |
| IP transport | `rpi/transport.py` | none | health_check, send, send_with_retry |
| Sync manager | `rpi/sync_manager.py` | `_running`, stop event, `SyncState`, the locals of its thread | start, stop, the loop, the custody reaper, the flush |
| OT proxy | `rpi/proxy.py` | the process-wide store and sync manager | POST /events, DELETE /queue, GET /health, GET /stats |
| OT agent | `rpi/agent.py` | list of pending events, in memory | send, flush of the list; stdin, file and socket intake |
| Shield bridge | `rpi/shield_bridge.py`, `deploy/` | none (a look-back window) | one run per timer tick |
| Fragmenter | `core/dtn_fragmenter.py` | SQLite table `fragments` | fragment, reassemble, store, retrieve, purge, purge_timed_out |
| Crypto transport | `core/crypto_transport.py` | SQLite nonce counter; replay window and node registry in memory | next_nonce, check_and_record, register, pack, unpack |
| Bundles | `crypto_layer/vtrc_bundle.py` | SQLite table `counter_seen` | check_and_record, build, parse, verify |
| Liveness | `core/liveness.py` | none, reads the counter table | check |
| Storage guardian | `core/storage_guardian.py` | none, measures and purges databases | check, enforce |
| Device registry | `core/device_registry.py`, `scripts/vtr-provision.py` | SQLite hash chain | append, verify_chain |
| Tokens | `server/auth.py`, `rpi/jwt_verifier.py`, `rpi/proxy_auth.py` | refresh tokens and revocation lists, in memory | issue, refresh, verify, revoke, grace period |
| Audit log | `server/compliance.py` | SQLite tables `audit_log`, `sessions` | write, open_session, close_session, verify_entry |
| Session guard | `src/session_guard.js` | IndexedDB queue and snapshots, heartbeat timer | tick, enqueue, sync, saveState, destroy |

**How they interact.** Producers (browser, agent, bridge) put events into the
queue, the agent and the browser through the proxy, the bridge directly. The
sync manager's thread is the only reader: it peeks a batch, takes custody of
each event, POSTs it through the transport, acknowledges custody, and deletes
from the queue what custody says is safe to delete. The queue and the custody
table are two SQLite files and are never written in one transaction. The
proxy's authentication reads the sync manager's status to decide whether
expired tokens are still good. The radio side (fragmenter, crypto transport,
bundles, device registry) is not wired to the pipeline yet; each of its parts
keeps state that must survive restarts, reordering and repetition by itself.

**What is hard.** Two databases and a network call per event, with a crash
possible between any two; answers that get lost after the server has stored the
event; a list of overdue bundles that goes stale while it is worked through; an
`ack()` made of two transactions; a second sync thread after a `stop()` that
timed out; keys that come again with other content; rows that can no longer be
confirmed and stay in the window of `peek()`. Around the pipeline: a producer that
keeps its retries in memory and another that keeps nothing and trusts a look-back
window; counters drawn by several threads and remembered by a bounded set; two
verifiers of one token with different keys, lists and clocks; records written in
two transactions; a browser in which every `await` lets other calls in.

**What makes each part correct.**

- *Queue and sync manager*: no accepted event disappears before the server has
  it; every queued event gets there; only confirmed rows are deleted.
- *Custody*: responsibility is handed over once; what is confirmed is what was
  granted; nothing stays pending past its timeout for ever.
- *Transport*: success is reported only for what the server stored.
- *Agent and bridge*: what was read is in hand, queued, delivered or lost in one of
  the ways the code admits; rows are caught as long as the runs join up.
- *Session guard*: what was stored leaves the disk only after an answer, in order;
  the queue is bounded; reconnections drain it.
- *Fragmenter*: what is reassembled is whole; bundles of different ids or lengths
  never mix.
- *Counters and nonces*: no nonce is used twice, no counter accepted twice, a
  frame that is merely late is accepted.
- *Registry and audit log*: one chain that backs every certificate; a session ends
  at most once; what is exported agrees with itself.
- *Tokens*: a refresh token is exchanged once and kept while it is good; within one
  grace and one list of revocations the RPi accepts nothing the server would refuse.

## The modules

    QueueStore ----------+----------> OtAgent ------+
    CustodyManager --+   |      +---> ShieldBridge -+--> Producers --> ProducersProofs
         |           +---+--> SyncManager
         |           |   |        |
         |  Transport ---+        +-- implements DeliveryPromise, CustodyCallers
         v                        +-- SyncManagerProofs
    CustodyCallers
         +-- CustodyCallersProofs

    StorageGuardian --> FragmentStore --> FragmentStoreProofs
    ReplayWindow --> CryptoTransport --> CryptoTransportProofs
                         +-- implements FrameChannel, twice
    DeviceRegistry, AuditLog --> Records --> RecordsProofs
         +-- implements Ledger
    TokenLifecycle --> TokenLifecycleProofs
    SessionGuard --> SessionGuardProofs

- **QueueStore** — the table `offline_queue`. An event is a record
  `[key, at, data]`; `at` is `queued_at`, which comes from the client. Each
  operator is one transaction. `peek()` is `Batches`: the set of its possible
  answers, since rows with equal timestamps come in no particular order.
- **CustodyManager** — the table `custody_bundles`, one operator per transaction.
  `ack()` with `verify_hash` is a SELECT and a separate UPDATE, so it is two
  operators, `HashMatches` and `AckUpdate`. Wall-clock time is one thing only:
  the set `overdue` of rows past `granted_at + timeout_seconds`, which is never
  refreshed in the code.
- **CustodyCallers** — several users of one `custody.db`, as its header offers:
  callers that grant, send, verify, ack and ask the gate, or transfer; reapers
  that read `timed_out()` once and work through the list. A process that dies takes
  some callers and reapers with it (`Die`). The sync manager is shown to be such a
  user: each of its threads is one caller and one reaper.
- **Transport** — the server as seen from the sync manager, and every fault of
  the environment, of a kind in `FaultKinds` and at most `MaxFaults` of them.
- **SyncManager** — the delivery pipeline. `pc[t]` is where a thread is: `loop`
  (the health check of `_run_loop`), `expired`, `retry`, `fail`
  (`_retry_timed_out_custody`), `peek`, `grant`, `send`, `verify`, `ack`, `gate`,
  `count`, `mark`, `channel`, `delete`, `abort` (`_flush_queue`), `online` (the
  state update that ends a cycle). Between two of them anything else may
  happen. The thread's locals (`batch`, `cur`, `safe`, `due`) are lost in a crash;
  the two databases are not. The payload whose hash custody records contains
  key, timestamp and data of the event, so the hash of an event is the event.
- **DeliveryPromise** — the abstract specification: events are accepted,
  delivered only while they are held, and let go only when delivered.
- **FrameChannel** — the abstract specification of the radio and of the `.vtrc`
  files: a frame is made once under its counter, and taken at most once; a channel
  that is `Forgetful` may forget at a restart what it has taken. `CryptoTransport`
  implements it twice, as `Radio` (window and registry in memory) and as `Stick`
  (`counter_seen` on disk, never forgetful).
- **Ledger** — the abstract specification of the register: lines are appended one
  after the other, never changed, and a certificate is of a line that is there.
- **StorageGuardian** — when the guardian purges a database and how many rows it
  estimates it must delete, as a function of the size it measured.
- **FragmentStore** — the receiver of the radio side. Bundles are cut into frames
  (the ghosts of a bundle are one frame of no payload); any frame of a sent bundle may
  come at any time, several times or never, and becomes a row of the table `fragments`.
  Ids are whatever `BundleId` gives, the same one to several bundles too. Three
  users of the store run beside each other, each SQL statement a step: assemblers
  (`is_complete`, `retrieve` with `reassemble`, `purge`), the janitor
  (`purge_timed_out`, a SELECT and a DELETE) and the guardian (`enforce`: measuring for
  `check`, measuring again, COUNT, DELETE, VACUUM). The main file has room for `pages`
  rows: an INSERT takes free room or makes more, a DELETE gives none back, a VACUUM all
  of it; what is measured is that and up to `WalRows` rows of WAL. Nothing in
  the repository calls the store; these users are the ones its docstrings describe.
  A DELETE or a VACUUM may fail and a process may crash between two steps. A `store()`
  that raises is a frame that does not come. The piece of data a frame carries is known by the
  bundle it belongs to, so what `reassemble()` returns is a set of pairs of an index
  and a bundle.
- **OtAgent** and **ShieldBridge** — the two producers of the RPi, each a
  specification on a `QueueStore` of its own making; **Producers** puts both on one
  queue, which is emptied while they fill it. The agent's `pending` is the list in
  memory, `togo` and `kept` the two ends of the loop in `_flush_pending()`. The bridge
  runs table by table; `gap` and `cut` remember whether the runs joined up, which
  is what `RowsCaught` has to assume. Of the sync manager only the promise is left that
  `SyncManager` is proved to keep: any rows of the queue may be confirmed and deleted at
  any time, nothing else is.
- **ReplayWindow** — the window of one receiver, one step per frame because the code
  holds a lock. **CryptoTransport** — around it the senders (`next_nonce()` as BEGIN
  EXCLUSIVE, upsert, COMMIT), the frames they make, the registry of keys, the receiver
  of bundles with its table on disk, and what `LivenessTracker` reads. A frame that was
  made may arrive at any later time, any number of times, intact or damaged.
- **TokenLifecycle** — server, RPi and HMIs. The age of a pair stands for its two
  expiry times; the clock of the RPi differs by `skew`, and each side has a grace of its
  own (`ServerGrace`, `RPiGrace`). A pair is given again when no
  party knows it any more, so that runs of any length stay finite.
- **SessionGuard** — the browser: one step from an `await` to the next, of a page that
  gave a `sendFn` or none. Two assumptions are named in its header: `Date.now()` does not
  go back while items wait, and `getAll()` does not fail.
- **DeviceRegistry**, **AuditLog** and their union **Records** — `append()` as a SQLite
  transaction whose SELECT fixes a snapshot and whose INSERT takes the lock; sessions
  and their entries as separate transactions, and an export that reads twice. Any session
  with an open row may be closed, whether or not its opening entry was written.
- **MC...** — the instances TLC checks; **...Proofs** — the theorems.

What is abstracted: waiting times (heartbeat, backoff, retry pauses) are "some
time later"; `attempts` saturates at `AttemptCap` because the code only logs it;
`retries` saturates one above `MaxAttempts`, the only value it is compared
with; the LoRa size warning, logging and the counters of `SyncState` are left
out. `json.dumps` cannot fail on a payload that came out of `json.loads`, so
lines 273-280 of the flush have no action. In `Producers` every event has the same
`queued_at` and a line is an event or is skipped. Rows of Shield become visible when
they are stamped. `refresh()` is one step: it
has no lock, and nothing in the repository calls it from two threads; two threads between
its test (`auth.py:261`) and its mark (line 271) are outside the model. A hash of the registry
is the position it covers. The audit log is a bag of entries of two kinds.

## The runs

| Run | Instance | Question |
|---|---|---|
| `custody_safety` | 2 bundles, 2 hashes, 2 callers, 1 reaper, 2 faults | hand-over at most once, compared hash stable |
| `sync_overlap` | 2 threads, 2 keys, one with two contents, all kinds of fault, 2 faults | no event lost, the promise is kept, the inductive invariant (in it, that a row that was acknowledged stands for a stored payload and that no two threads delete one key) |
| `sync_drain` | 1 thread, batch of 1, 3 link or POST faults | every event leaves the queue; OFFLINE ends; no bundle is past its timeout for ever |
| `sync_reaches` | 1 thread, batch of 2, crash, stop, link, POST, 2 faults | every event reaches the server; custody is used as `CustodyCallers` says |
| `sync_stuck` | 1 thread, one crash | violated: an acknowledged event leaves the queue |
| `sync_blocked` | 1 thread, batch of 1, one POST failure | violated: every queued event reaches the server |
| `fragments_safe` | bundles of 2, 2 and 1 fragments, all with one id; 2 assemblers, 3 rows stored, a WAL of a row, a timeout, a guardian that purges at 2 rows, one fault | what is reassembled is whole, and of one id and length; `is_complete()` and `reassemble()` agree but where lengths are mixed; a whole bundle is handed on or purged; what is overdue goes; a crowded file gets below its threshold or empty |
| `counters` | 1 node with 2 sending threads, counters to 4, window 1 back and 2 forward, 2 remembered, 2 importers, 2 faults | the inductive invariant (in it, no counter for two frames, none accepted twice); a first arrival in the window is accepted; bundles rise; UNKNOWN means never sent; both channels are kept |
| `tokens` | 3 pairs, 1 HMI with scope read, 2 keys, lifetimes 1 and 2, graces 1 at the server and 2 at the RPi, clock off by 1 | exchanged once; the verifiers agree; the inductive invariant (in it, a good token is kept) |
| `guard` | 3 items, room for 1, at most 2 calls overlapping, with and without a `sendFn`, 2 faults | queue bounded, order kept, reconnections drain; the inductive invariant (in it, nothing stored is lost) |
| `producers` | 2 events of the agent, 3 rows in 2 tables, 2 inputs at a time, 2 runs of the bridge, limit 1, look-back 1, 2 faults | events accounted for, rows caught |
| `records` | 2 devices, 2 entries; 2 threads, 2 sessions, 1 failure | the inductive invariant (in it, one chain that backs every certificate); the ledger is kept; at most one end per session, and only of a closed one; evidence agrees with itself |

Where a component has an inductive invariant, its run checks that one, and with it the
properties it contains: `AckedIsReceived` in `PipelineInv`; `NonceUsedOnce` and
`AcceptedOnce` in `CounterInv`; `LiveTokensKept` in `TokenInv`; `NothingLost` in `GuardInv`;
`ChainIntact` in `RecordsInv`. Each of these has a theorem of its own.

**Bounds.** Two threads are what one `stop()`/`start()` can leave behind; the
invariant is about pairs of threads, and the proof below does not depend on the
number. Two keys with a batch of one or of two give both a batch that is the whole
queue and one that is a window on it; a key with two contents is the smallest
case of a repeated key. Two faults allow one that leaves something behind (a
crash between ack and delete, a lost answer) and one that meets it. `MaxAttempts`
is 0 or 1 where giving up is the point and 6 in `sync_drain`, where three faults
must not reach it: beyond it the code gives up by design (`sync_blocked`). The faults of
`CustodyCallers` (`MaxFaults`) are deaths of callers and reapers, together or alone;
two of them leave a bundle in nobody's hands and end the reaper that would have taken
it up. Where a run has only safety properties, bundles, hashes and callers, or threads,
are declared alike (`SYMMETRY`); the runs with liveness are not.

**Fairness.** `WF(ThreadStep(t))`: the thread is a daemon that runs until it is
stopped. `WF(Start)`: `lifespan()` calls `start()` whenever the proxy comes up,
and something starts the proxy again. `WF(Network /\ ~up)`: the outage ends.
Faults are finite, so the channel finally stays. The reaper is the first thing in every
cycle, so `OverdueResolved` needs no fairness of its own. Producers,
`stop()`, crashes and timeouts have no fairness, and `CustodyCallers` has none: it
is what several users may do. In `sync_drain` and
`sync_reaches` producers do not repeat a key (`Resubmits = FALSE`): a repeated key
whose first copy was delivered stays queued for the same reason as in
`sync_stuck`.

`FragmentStore`: time is counted in stored rows (`MaxStored`), and `Timeouts` is how far
the cutoff of `purge_timed_out()` may follow. Three rows are a fragment of one bundle, its
purge and two more under the same id, or two fragments of two bundles of one length that
are taken for a bundle, or one of length 1 that makes the count of another. Assemblers, janitor, time and guardian are weakly fair: their
users are loops that call them again. The radio is not, so liveness starts from what
is stored. `RoomIsMade` holds because arrivals end (`MaxStored`): a store that is filled as
fast as it is purged need not get below its threshold, and nothing could make it.

`counters`: four counters with a window of one back and two forward let a counter be
too old, too new, forgotten and still refused; two remembered counters are the least
the assumption `MaxSeen > WindowBack` allows. The theorem has no such bounds.
`tokens`: three pairs are one in hand, one replaced and one whose answer was lost; ages
stop where every party refuses the pair. `guard`: room for one with two overlapping
calls is the smallest queue that can be overfull (by one), a third item makes an order of two
with a refusal. `producers`: limit, look-back and runs are as small as they can be for a
row to be cut off, to leave the window, and to be caught by a later run; three rows,
two in one table and one in another, let Shield write between two queries. `records`: two
commands and two entries make a fork possible, two threads a double end.

`SessionGuard` is weakly fair for the page, the heartbeat and the synchronisation:
timers fire, awaited calls return, `sendFn` answers sooner or later (`fetch` fails by
itself when the channel is dead). Nothing makes the channel come back;
`ReconnectsDrain` supposes that it is lost and found again for ever, because only
that transition starts a synchronisation. `CryptoTransport`, `TokenLifecycle`, `Producers`
and `Records` have no fairness: what they promise is safety.

**Deadlock** is checked in every run but three, where the system may really stop:
in `guard` a destroyed page whose calls have all ended, in `producers` and `records` the
point where the finite inputs (lines, rows, devices, sessions) are used up.

## What the violated runs show

- `sync_stuck`: after a crash between `custody.ack()` and `store.ack_batch()` the
  row is resent in every cycle and never deleted, because the gate is asked only
  when `ack()` returned True (`sync_manager.py:312`). Nothing is lost;
  `test_sync_custody.py:55` promises the deletion.
- `sync_blocked`: FAILED rows stay the oldest rows. A batch full of them ends
  every flush, and newer events never leave.

## Where code and words differ beyond the runs

Met while modelling. Each is in the models as the code does it; the properties are
stated so that they hold.

- *Custody.* `mark_failed()` has no condition on the status: a bundle acknowledged
  after the reaper read its list ends FAILED (`custody_manager.py:57` describes FAILED
  as a timeout without an ack). It takes two parties, such as the two threads a `stop()`
  that timed out leaves behind (`sync_overlap`); `acked_at` stays, and `AckedIsReceived`
  says that what such a row stands for is stored by the server all the same.
- *Guardian.* `check()` asks for a purge at `>=` the threshold and `_purge_fifo()` deletes
  nothing at `<=` its target (`storage_guardian.py:411`). The constructor admits equal
  thresholds; a file of exactly that size is then called in need of a purge for ever. An
  empty table returns at that line too, before any VACUUM: a file that is large though all
  its rows were deleted by others, or by a purge whose VACUUM failed, stays large and is
  checked again and again. Only the guardian VACUUMs; where `purge()` has freed enough
  room, it deletes live rows although the VACUUM alone would do, because it estimates from
  the size of the file.
- *Sync thread.* `_run_loop` catches exceptions of the health check only. One sqlite
  error ends the thread while `_running` stays True, so `start()` starts no other; no
  progress is promised after it.
- *Fragments.* The SELECT of `purge_timed_out()` takes complete bundles too; it
  could not simply ask `is_complete()`, which a mixture of two bundles passes. Fragments
  carry a 16-bit id that is given again in time, and nothing compares what is stored
  under it with what arrives: `reassemble()` may return a mixture of two bundles of one id
  and one length, and that is all `DeliveredAsSent` can leave out. `dtn_fragmenter.py:26`
  names a check against active sessions that the code does not make.
- *Agent.* It sends no Authorization header, and `POST /events` wants a token with
  scope "write": unless something adds the header it is always answered 401. The model
  chooses `authorized` once. A 202 whose body rejects the event counts as taken.
  Pending events are retried only after a later success and die with the process.
- *Bridge.* `shield_bridge.py:17` calls `sync_log` its cursor; the code has only the
  look-back window of 300 s under a timer of 300 s, so any delay, a failed run, or more
  rows than the limit loses rows for good. Netprobe rows without a hash get a random key
  in each run.
- *Counters.* A transport built without a NonceCounter sends counter 0 in every frame.
  A gap of more than `window_forward` lost frames shuts a node out until the receiver
  restarts. A damaged frame uses its counter up. The constructor does not enforce that
  more counters are remembered than the window admits backwards. Two overlapping
  `register()` calls can both pass the test for another key. A bundle that arrives after
  one with a higher counter is refused for good.
- *Tokens.* The docstring at `auth.py:247` says that both sessions are revoked when a
  refresh token is used twice; the code refuses and revokes nothing. `revoke()` leaves the
  refresh token usable, the server's list of revoked ids is never purged
  (`auth.py:12` says it is), `clear_revocation_list()` re-admits revoked tokens that
  have not expired, though `jwt_verifier.py:16` keeps them "hasta su expiración natural" and
  `auth.py:356` has the RPi reject a revoked token; so does a restart of the RPi, as line 17
  says. `VerifiersAgree` leaves these out, with the tokens between the two graces, which
  are parameters of two constructors that nothing keeps equal.
- *Registry.* An `OperationalError` of SQLite is not the error `cmd_provision` catches, so
  a refused INSERT ends with a traceback; killed between commit and print, the command
  leaves an entry without a certificate.
- *Audit log.* A failure between the row of a session and its entry leaves it unlogged,
  and its id is published by `get_sessions()` and the export: the log may have a
  SESSION_CLOSED without a SESSION_OPENED, and in that order when both are written.
  With `since`, an export may hold the opening entry of a session whose row lies before.
- *Session guard.* Items left after a 5xx, or stored while online, wait for the next
  transition from offline to online. `destroy()` during an awaited check does not stop the
  timer, which the check arms again ("Detiene todos los subsistemas", line 709). Items that
  `clear()` deletes while `sync()` works are sent all the same. If the clock steps back, or
  two items share a millisecond, a younger one may be sent first. `init()` makes a new AES key that cannot be exported,
  so a snapshot does not survive a reload.

## What is proved

Each theorem holds for every number of threads, callers, events and faults,
under the assumptions named in the modules.

**CustodyCallersProofs.** `TypeCorrect` is `Spec => []TypeOK`. `HandedOverOnce`
rests on the invariant that ties the history to the row: a bundle that has been
handed over is not PENDING and was handed over once, a bundle with no row was
never handed over, and a bundle in somebody's hands has a row; a hand-over needs
PENDING and ends it, nothing makes a row PENDING again but `grant()` on a bundle
without a row. `AckConfirmsWhatWasVerified` adds that a caller between the two
parts of `ack()` holds the hash of the row: no operation changes the hash of a
row that exists, and a row in use is not purged.

**SyncManagerProofs.** `TypeCorrect` is again the type invariant. What says that no
event is lost is proved for `DebugMode = FALSE`: with `VTR_DEBUG` set, `DELETE /queue`
throws events away. `PipelineCorrect` is the invariance of `PipelineInv`, which is
inductive; its parts need each other:

- `NoEventLost` needs that whatever `ack_batch()` deletes is on the server. It
  deletes by key, so `OwnedIsConfirmed` says that *some* queued row with a key of
  the delete list is on the server, and `KeyIsUnique` that it is the only one.
- A key can be in that list while another thread is about to delete it too; the
  row could then be gone and the key reused. `OwnedOnce` excludes it: the list of
  a thread, with the key it has at the safety gate, is disjoint from every other
  thread's, because the one UPDATE that confirms a key needs a PENDING row and
  ends that status.
- For the newly confirmed key to have its row in the queue, a PENDING bundle must
  have it there (`PendingIsQueued`), although batches are stale snapshots and other
  threads delete meanwhile. What is stale in a snapshot is bounded by
  `BatchIsCurrent`: an event without custody is still queued, and what is no longer
  queued is on the server.
- `CurIsKnown` carries what a thread has learnt about the event in its hands from
  one transaction to the next; `AckedIsReceived` follows from it at `ack()`.

Most steps change neither database where the invariant looks; `Frame`, `FrameCur`
and `QuietKeepsInv` treat them together, and the five others (submit, grant, ack,
delete, FAILED mark) have a lemma each. `AcceptedIsNeverLost`, `AckedIsTrue` and
`DeletedByOneThread` are consequences. `PromiseIsKept` is the refinement of
`DeliveryPromise`: `Submit` accepts, a `send()` whose event reaches the server
delivers, the two deletions release, and every other step is a stutter. Resending
an event the server has is a stutter too, which is where `CurIsKnown` is needed.

One result does not depend on `DebugMode`. `CustodyIsUsedInOrder` is the refinement of
`CustodyCallers`, with any number of threads. A thread is a caller and a reaper of one name;
`CallerLabel` maps `send` and `count` to the caller's "sending", `verify`, `ack` and `gate`
to themselves, everything else to "idle". The history `wins` is read off `acked_at`, since
nothing is purged or transferred here; that the mapping counts each hand-over once needs
`UnackedIsOpen`, and that a thread gives up only what is on its list needs `DueInReaper`. A
crash and an SQLite error that ends a thread are deaths (`Die`).

**FragmentStoreProofs.** `EstimateIsTight` is about the arithmetic of
`_purge_fifo()` (over exact quotients, where the code uses floats): by the mean row size
the guardian itself uses, the rows that stay fit the target, and one row fewer deleted
would not have been enough. `RoomIsBounded` says what that makes of the file: if the
measured size was at least that of the rows counted, the file that DELETE and VACUUM leave
exceeds the target by no more than `BaseSize`, an empty database; free room and WAL only
make the estimate larger. `StoreCorrect` is the invariance of `StoreInv`, for any choice of
ids: what is in the table was sent, an index of an id has one row, and the file has room
for the rows. `ReassemblyIsFaithful` follows: a list
that passes the tests of `reassemble()` has every index below its one total, so each of
its rows is of a bundle of that id and that length, and it is whole. `CompleteMeansWhole`
says when the COUNT of `is_complete()` and the look `reassemble()` takes at each index
agree: rows of one total have different indices (`OneRowPerIndex`) below it, so as many of
them as the total have every index, by the pigeonhole principle, one way round and the
other.

**CryptoTransportProofs.** `CountersCorrect` is the
invariance of `CounterInv`, whose parts come one after the other. `NoncesUnique` rests on `NonceInv`: a thread that writes
holds the lock of its node and the next counter, one that packs has a counter on
disk that nobody else has and under which nothing was made. The exclusive lock is what
keeps the two together; the crash and the rollback give up the counter or the lock with
everything that depends on it. `ReplaysRefused` rests on `WindowInv`: what was
accepted is remembered, or too old for the window. Its one hard step is the forgetting
(`TrimForgets`): a set of more than `MaxSeen` numbers below `last` has a least
element at least `MaxSeen` below, and `MaxSeen > WindowBack` puts that outside the window.
Finite sets of numbers have a least element by well-foundedness of the order.
`LateFramesAccepted` needs only that the window remembers what has come
(`SeenArrived`). `BundlesRise` rests on `ImportInv`: the importer that writes holds the lock
of the store and a counter above all that were taken in. `UnknownIsSilent` is a consequence
of `NonceInv`: a counter is on disk before a frame carries it. `RadioImplementsChannel`
and `StickImplementsChannel` put these together: a step of `pack()` makes a frame that was
not made (`NonceInv`), an accepted frame was made and not taken (`WindowInv`, `ImportInv`,
and `BundleIsMade` for what an importer has in hand), the receiver's restart is the
forgetting of the radio, and for bundles nothing is. `ChannelsAreKept` is both.

**RecordsProofs.** The two components share no state, so the invariant is the
conjunction of two (`RecordsCorrect`), and each step frames the other. `ChainNeverForks` needs that
a command that holds the write lock has the chain as it is for its snapshot
(`LockIsCurrent`), hence that there is one such command (`OneLock`), and that a committed
command knows where its entry is. `RegisterImplementsLedger` is the same invariant seen
from outside: an INSERT that commits records one line, the print that follows certifies
it, and everything else, refused and killed commands included, is a stutter. `EndedOnce` and `EvidenceIsConsistent` rest on who is
between the two transactions of a session, which one thread is, because the UPDATE that
closes it needs an open one; and on the order in which the export reads, entries before
sessions, so that what an entry says has already happened to its session.

**SessionGuardProofs.** `GuardInv` (`GuardCorrect`) says that what is on disk or listed was stored
(`KnownItems`), that a call of `enqueue()` which has passed the test of the size counts
as stored (`RoomForAll`, hence `QueueIsBounded`: several calls can pass it together), and
that what is queued without an answer and not in the listing of `sync()` is as young as
the listing (`ListingIsOldest`), because it was stored after the listing was made or
left over by one that is gone. `StoredIsNotLost` and `InOrder` follow.

**ProducersProofs.** `NothingUnaccounted` needs `FlushAccounted`: while
`_flush_pending()` works through the list, each pending event is still to come, has
failed again, or is accounted for. `NoRowMissed` needs `RunCaught`, which says of the
run that is under way what `RowsCaught` says of the completed ones, table by table; when
the run ends, a row older than its start was either older than the start before it, or in the
window and in a table the run has been through. The bridge's insert keeps the types because
`ProducersAssumption` lets every row become an event.

**TokenLifecycleProofs.** `TokensCorrect` is the invariance of `TokenInv`. `ExchangedOnce` needs only that what is stored and unused was
never exchanged; an id that leaves the dictionary does not come back but as a new pair.
`GoodTokensStay` is inductive: purging, refusing and ageing agree on
`RefreshExpired`. `NoLaxVerifier` compares the two verifiers line by
line, in and out of the grace; it leaves out the tokens between the two graces and the
revoked ones that are not, or no longer, in the list of the RPi.

**Only model-checked**: the liveness properties (`OverdueResolved`, `QueueDrains`, `OfflineEnds`,
`MeetsPromise`, `WholeIsDelivered`, `OverdueIsPurged`, `RoomIsMade`, `ReconnectsDrain`), since TLAPS proves neither fairness nor `ENABLED`, and the two
violated properties. Every invariant and every action property that a passing run checks
is also a theorem.

## Plan

Done: the pipeline and its custody, the fragment store and its guardian, counters
and windows, tokens, the browser's queue, the producers, the registers. What could
follow:

1. **Durability** — QueueStore and CustodyManager with `synchronous=NORMAL`: a
   power failure takes each database back to a prefix of its commits, independently.
2. **FIFO** — the order in which the server receives the events of one flush.
3. **Bundles and radio wired to the pipeline**, once the code does it.

## Not modelled

- Key derivation, signatures, file formats and configuration checks: pure functions
  whose results are the two outcomes (accepted, refused) the models choose between.
- The HMI adapter: polling of field devices in front of the proxy; `LoRaTransport`, a
  stub that raises; the demo page.
- Snapshots and `CryptoLayer` of the session guard: one encrypted record that is
  overwritten. The difference between the success of an IndexedDB request and the commit
  of its transaction.
- `ComplianceChecker`: a table of thresholds over the audit log. Entries other than
  those of sessions, and the filters `since`, `until` and `limit` of the queries.
- The loss of the last commits of a database in a power failure.
