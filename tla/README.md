# hypeterm in TLA+

TLA+ models of hypeterm's own logic, the TLC configurations that check them on
small instances, and TLAPS proofs of what matters most. Paths below are relative
to the repository.

## 1. The system

Three programs share one terminal stream.

* `publisher/` runs shells under a pseudo-terminal and publishes their output.
  A driver task per shell (`publish.rs`, `stream.rs`) frames output with stream
  offsets and retains it until the relay says it is durable. One connection task
  (`session.rs`) multiplexes all terminals of a device over one WebSocket and
  reconnects for ever. A daemon and its socket (`daemon.rs`, `ipc.rs`) let several
  command-line clients share the connection.
* `server/` is the relay. A publisher session (`relay/publisher.rs`) appends output
  to an in-memory terminal handle (`relay/terminal.rs`, `relay/ring.rs`); a
  checkpoint task (`relay/flush.rs`) writes it to SQLite in batches (`db/repo.rs`);
  acknowledgements follow the commit. Mirror connections (`relay/mirror.rs`) get
  the retained window and then live output from a bounded queue. The registry
  (`relay/registry.rs`) owns the handles, the one publisher slot per device, the
  reconnect grace, revocation and the pending open requests.
* `android/` is the mirror client: a C++ core (session, controller, emulator,
  WebSocket) below a Kotlin user interface.

| Component | State | Operations | What makes it correct |
|---|---|---|---|
| replay ring | window of bytes, earliest offset, capacity | append, set_capacity, from_retained, read_range | it is the newest contiguous suffix of the stream |
| terminal handle | ring, next/durable offset, dirty_since, lifecycle, subscribers | append, resize, subscribe, begin_close, take_checkpoint, commit_durable, shrink | offsets only move forward, no false ack, close last |
| checkpoint task, storage | batch in flight, terminals row, output rows | take, commit with retry, commit_durable, load | rows tile the stored window, a crash at any point is recoverable |
| mirror connection | subscription, queue, queued bytes | subscribe, replay, deliver, cut off | no byte lost, doubled or reordered at the seam |
| registry | handles, slot per device, timers, pending opens | load, evict, attach, detach, revoke, recover | one controller per device, terminals close when and only when they should |
| sending stream, driver | retained bytes, next offset, resync target, held-back chunk | send, ack, detach, attach, mismatch | no splice, no byte dropped before it is durable, close after the last byte |
| publisher connection | hosted terminals, list of earlier terminals | open, forward, stash, sweep, reconnect | an exited shell's terminal is closed |
| open requests | pending table, idempotency records | begin, join, deliver, resolve, sweep | a retry finds the request or its record; the answer is that request's |
| input path | sequence numbers, bounded channels | check, deliver, refuse, route, drive | no keystroke doubled, reordered or silently dropped |
| authentication | challenges, tokens, tickets, signing keys | issue, consume, expire, rotate, revoke | single use, no use after revocation, tokens outlive a rotation |
| settings, listener | revisions, rows, snapshot per process, bound listener | patch, load, publish, poll, rebind | no lost update, every process and listener converges |
| daemon, IPC | lock, socket, clients, claims | serve, stand down, retire, attach, reattach | one daemon per device; a tab survives its daemon |
| android core | mirror session, controller, screen | subscribe, resume, render | resume at the processed offset |

Components talk through: the WebSocket in both directions (ordered, lost with the
connection), tokio channels (bounded), a `Notify` (no permit stored by
`notify_waiters`), one mutex per handle, and the database. What is hard: every
handler of a session may be overtaken at an `await`; a connection, or the relay
with its memory, may vanish between any two steps; acknowledgements are sent by a
task of their own; an old connection's task outlives its replacement; timers fire
for a situation that has passed.

`PROJECT.json` lists the components, the lines each definition models and the
hazards, each at its line with the properties that cover it.

## 2. Modules

| Module | Models | Checked or proved by |
|---|---|---|
| `Ring` | `relay/ring.rs`, as pure operators | every Relay run; lemmas in `RelayTerminalProofs` |
| `OutputLog` | abstract: what the relay promises about one terminal | target of a refinement, checked by `RelayStorage` and proved in `RelayTerminalProofs`; the relay inside `Publication` |
| `RelayTerminal` | one terminal in the relay: handle, sessions, checkpoint task, storage, mirrors, loading, eviction, crash | `MCRelayTerminal` with the Relay configurations; `RelayTerminalProofs` |
| `Outgoing` | `publisher/src/stream.rs`, as pure operators | the Publication runs; lemmas in `PublicationProofs` |
| `Publication` | one shell's output from the pty to the relay, through `publish.rs`, `session.rs` and the relay's session, over `OutputLog` | the Publication configurations; `PublicationProofs` |
| `PublisherLease` | slot, lease, supersede signal, grace, revocation, shutdown | the Lease configuration; `PublisherLeaseProofs` |
| `OpenRequests` | a phone asks a device for a terminal: HTTP handler, pending table, connection, daemon and shell | `OpenRequests`, `OpenLateAnswer`; `OpenRequestsProofs` |
| `InputPath` | keystrokes from a subscription to the shell | `InputPath`; `InputPathProofs` |
| `Daemon` | the publisher daemon of a machine and the tabs that use it | `Daemon`; `DaemonProofs` |
| `Auth` | challenges, tokens, tickets, signing keys, revocation | `Auth`; `AuthProofs` |
| `Settings` | revisions, snapshots and the listener that follows them | `Settings`; `SettingsProofs` |

`RelayTerminal` implements `OutputLog`, and `Publication` composes the publisher
with `OutputLog` instead of with the whole relay.

### RelayTerminal

Each critical section of the handle's mutex is one action; what follows an
`await` is another. `ReadRow`/`InsertHandle` are the two halves of `get_or_load` and of
`open_terminal`, which reads the row whether or not a handle is resident;
`OnBinary`/`WaitEnds`/`AppendFrame` are a frame before, during and after
backpressure; `TakeCheckpoint`/`CommitTransaction`/`CommitDurable` a checkpoint,
which `CommitFails` gives up after its last retry; `Subscribe`, `SendReplay`,
`Deliver`, `EndOfStream` a mirror. `Crash` loses the memory and keeps `db`. The
ring is a function from stream offsets to bytes, so a misplaced byte shows. `log`
is history: the bytes accepted and not rolled back by a crash. `reopened` is history too:
a handle was built by a row read before the terminal's close was committed, and
`early` marks a frame whose offset lay ahead of the stream when it was checked.

Left out: labels, sizes, timestamps, metrics, input, and when a flush or an
eviction is due - it may be due at any time.

### Publication

The shell's bytes are 1, 2, 3, ..., so a splice shows; 0 is a byte an earlier
process left in the terminal. The driver's actions are the arms of its select, each
followed by the top of its loop. `Forward`, `Stash`, `Receive`, `Connect`,
`SweepOrphans` are the connection task. The relay handles a frame (`RelayReads`) and
writes the answer (`RelayReplies`) in two steps, and `AckTask` may run in between;
`RelayRefusesOpen` is the open that fails. `late` is history: the relay took output of a
lost connection while an answer with its offset was prepared and not yet written.
An acknowledgement that arrives before `terminal.opened` finds no terminal and is
dropped; `mux.missed` is history and says that the latest one was. `stale` holds what the
relay may still read from the previous connection when `Overlap` is TRUE. `ListOutcomes`
says whether `list_open` may fail. Channels do not fill up. `GraceExpires` checks that
nobody is connected and closes in one step, which `PublisherLease` cuts in two.

### PublisherLease

One device, one terminal. A connection is its own generation. `busy` is a session
inside a handler, `polling` one that waits in its select; only a polling session is
woken by `notify_waiters`. `Detach`, `GraceEnds` and `CloseDeviceTerminals` are the
three parts of `on_publisher_detached`; `GraceCloseFails` is the close that fails and is
only logged, and `CloseRevoked` may leave the terminal as it is for the same reason. Time
is counted in ticks; `outage`, `early` and `unclosed` (the connections whose close
failed) are history.

### OpenRequests

`create_for_device` is cut at its database calls and at its wait: `Lookup`, `Admit`,
`Begin` or `Join`, `Deliver`, then `TakeOpened`/`TakeRefusal`/`GiveUp`, `Store`,
`Respond`; `Abandon` is axum dropping the handler. A pending entry is named by the
call that made it, and its watch channel keeps a value only while some call holds a
receiver (`Resolve`). `DetachFails` and `DetachSlot` are the two halves of
`on_publisher_detached`, which fails the device's requests before it looks at its
generation. The publisher side goes from the connection task through the daemon's
inbox to a shell that starts or dies, and `SendOpen` repeats its `in_reply_to` on
every connection. `withdrawn` is history: keys whose entry a disconnect or the sweep
took away. A reopen of a terminal that was opened before is not refused here (it would
take a database error).

### InputPath

A keystroke is named by its subscription and its client sequence. `CheckFrame` and
`DeliverInput` are `handle_input_frame` before and after its last wait; then the
session's loop (`Forward`), the connection task (`Receive`, `Deliver`), the driver
(`Drive`) and the tab's `Pump`, with a bounded queue between each pair. Full queues do
what the code does: at the relay they refuse the frame, at the connection task they
close the terminal, at the driver they end it. `accepted` and `typed` are history.

### Daemon

`Serve` takes the flock or exits; `path` is what the socket file leads to. A client
connects into the listener's backlog (`"queued"`), so a connect can succeed at a daemon
that is going: `StandDown` unlinks, `StandDownAccepts` serves one queued client and
binds again, `StandDownExits` leaves. `alone` remembers what `Retire` counted at the
hello. Tabs start daemons (`Start`), poll, attach, and reattach up to `Attempts` times
after a loss. A daemon that starts may also end without serving (`Crash`), as when it
cannot open the lock file or bind. Time enters as two facts stated in the module: a poll outlasts a start
and a stand-down, and the idle grace outlasts the pauses of a reattach.

### Auth

One device key. Handlers are cut where they wait for the database, so a revocation can
come between `ReadDevice` and `Mint`, before `InsertTicket`, or between the upgrade's
checks and `AttachPublisher` or `AttachMirror`. The device may publish and mirror, and
tickets are issued for both paths. A rotation inserts the key and refreshes the cache in
two steps, between which time may pass (`Rotate`, `FinishRotation`), or the refresh fails
(`RefreshFails`) and the retired key goes on signing; `Restart` reloads at any moment and
`Maintain` prunes. A ticket's `after` and `stray` are history: inserted after the
revocation, and let in by such a ticket. A signature is good or not and a token names its key: cryptography is assumed.

### Settings

A revision is a configuration in `conf`; a snapshot carries the revision it is labelled
with and the revision its rows are `of`, since `load` reads them at two moments.
`Patch` is the transaction, `PatchLoads`/`PatchLoadsRows`/`PatchPublishes` what follows
it, `Poll`/`Reload`/`Compare`/`PublishReloaded` the watcher, and `ReadConfig`/`Bind`/
`BindFails`/`BindAgain`/`SettingsChanged`/`Drained` the listener's supervisor. The
command line (`Cli`) is a process of its own that patches the same database.

Operators whose comment begins with "Mutant" are wrong variants of the definition
that follows them, one for each property, listed in `PROJECT.json`: with the
variant in place TLC finds the property violated.

## 3. Runs

`tlc -workers 2 -config <cfg> <module>`. All passing runs explore their whole state
space.

| Run | Shows | Bounds |
|---|---|---|
| `RelayStorage` | ring, rows and offsets stay one consistent stream; every crash is recoverable; acknowledged bytes survive; dirty bytes leave the ring only in the two ways the property names; the relay implements `OutputLog`; the inductive invariant holds | 2 byte values, 3 offsets, frames of 1 and 2 bytes at any offset, two sessions, capacities 1 and 2, one fault, one loader whose row may go stale |
| `RelayMirror` | replay and live output join without loss or repetition, close last, durable notices behind their bytes; a row that waits is the stored one unless the close came after it | one mirror with a queue of 2 messages and 2 bytes, 3 offsets, capacity 2, one fault, two loaders |
| `RelayLiveness` | accepted output is acknowledged, a close completes, a mirror catches up or is disconnected | 2 offsets, one fault |
| `PublicationSafety` | no splice, no forgotten byte, close after the last byte, the stream is not given up for nothing | 3 bytes in chunks of up to 2, frames of 1, window 1, one fault or refused open, overlap, overtaking acks, grace, failing list |
| `PublicationLiveness` | output becomes durable and an exited shell's terminal is closed for good, unless the last ack was dropped | 2 bytes in a chunk or two, frames of 1, window 1, one fault or refused open, overtaking acks, grace may end |
| `Lease` | a late detach or capability never touches the newer connection's slot; revoked and replaced connections end; an outage closes the terminal unless the close fails | one version 1 and one version 2 connection, grace of one tick, revocation, shutdown, recovery |
| `OpenRequests` | a terminal opened for a key is found by a retry; no waiter is left dangling; answers belong to their key; the table drains | 2 calls, 2 keys, table, channel and inbox of 1, 2 connections, 2 shells |
| `InputPath` | keystrokes are read in order, once and without holes; what was acknowledged is read | 2 subscriptions of 2 keystrokes, one resize, every queue of 1, 2 connections |
| `Daemon` | one daemon serves; a tab gets its mirror back | 2 tabs, one `--stop`, 3 processes at a time, 8 attempts (as in the code), one crash |
| `Auth` | a token lives out its time if its key's overlap does; after the revocation nobody is let in but a mirror with a ticket inserted after it; single use | 2 handlers, 2 challenges, 1 ticket, 1 token, 3 keys, 3 seconds, a rotation every second, overlap and life of a token one second each |
| `Settings` | no lost update; snapshots and listener converge | one process and the command line, 2 operators, 3 revisions, one fault |

The largest take about two minutes: `Auth` (7.8 million states), `PublicationSafety` (2.2),
the Relay runs, `Settings` and `InputPath` (1.0 each), `OpenRequests` (0.7) and
`PublicationLiveness`.

Why the bounds are enough: with capacities 1 and 2 and frames of up to 2 bytes the
ring is empty, partial, full, overflowed by one byte and replaced whole; a checkpoint meets
a straddling row, and the fault is a failed commit or a crash. Two sessions overtake one
another between check and append; two loaders are one whose row goes stale and one whose
handle serves, closes and leaves. A window of 1 with chunks of 2 is the overshoot; one fault with
a stale connection is the overlap; two bytes with a window of 1 are one in flight and one
held back. Two connections are a supersession, and what the
third could add is covered by the proof for any number. Two calls on one key are a
retry, a late joiner and a stale lookup; a table of one is the limit. Queues of one
element overflow with the second keystroke, and one connection after another is the
reopen. Three daemon processes are one that stands down or has died, and two that race
to follow it. With three keys a token can outlive two rotations, the second of which
prunes; three seconds pass every expiry, and a token signed a second after its key was
retired ends after the overlap does, so that the exception of `TokenLivesOut` happens. Three revisions are two patches in a row, which
a load or a publication can straddle.

Symmetry is used for the loaders and sessions of `RelayStorage` and `RelayMirror`, whose
properties are invariants and properties of single steps. Elsewhere sets have one element
or occur in liveness properties.

Deadlock is checked in the Relay runs. The other systems may stop: the shell has ended
and its terminal is closed, every connection is gone, every call is answered, every tab
closed, or a bound on connections, revisions or time is reached.

### Disagreements with the documentation

`OpenLateAnswer` is a run that ends in a violation. A caller times out and leaves its
entry in the table, "the answer may still arrive, and a retry under the same key must
be able to join it" (`http/terminals.rs:366`). But the entry's `watch::Sender::send`
keeps no value when nobody holds a receiver (`registry.rs:543`): an answer that comes
before the retry is lost, the retry joins and times out as well, and after the sweep
the next one starts a second shell.

The following are stated in the modules and are not checked by a run. TLC refutes each
under the constants given.

| Property | Refuted with | What happens |
|---|---|---|
| `Publication!ExitedIsAlwaysClosed` | `PublicationLiveness.cfg` | the ack written before `terminal.opened` is dropped and not repeated; an exited shell's terminal stays open, against `publish.rs:153` |
| `OpenRequests!NoSecondShell` | `OpenLateAnswer.cfg` | a retry looks for the record before it is stored and for the entry after it is retired, and starts a second shell (`INTEGRATION.md:122`) |
| `PublisherLease!OneController` | `Lease.cfg`, also without shutdown | a version 1 session that is in a handler when it is superseded keeps serving (`spec.md:434`) |
| `PublisherLease!GraceIsFull` | `Lease.cfg` | the timer of an earlier disconnect cuts the grace of a later one short (`spec.md:697`) |
| `PublisherLease!RevokedTerminalsClose` | `Lease.cfg`, also without shutdown | a terminal whose open was in flight during the revocation stays open (`registry.rs:637`) |
| `Daemon!BeatenIsReached` | `Daemon.cfg` | the daemon that held the lock may be about to exit; "the client that spawned us will reach it" (`daemon.rs:181`) then fails |
| `InputPath!NoSilentLoss` | `InputPath.cfg` | a connection that holds the slot is given input before it has opened the terminal; the publisher drops what the mirror was told is delivered |

Some checked properties name, as an exception, what the code does against its own
documents. TLC refutes each of them when the exception is taken out.

| Property | Exception | What happens, and what it is against |
|---|---|---|
| `OnlyStaleLoadReopens` | a row read before the close was committed (`reopened`) | the row is read outside `load_lock` (`registry.rs:670`, `registry.rs:775`); meanwhile another handle serves, closes and is evicted, and the first load inserts an open handle of a closed terminal: "Once closed, a terminal ID MUST NOT be reopened or reused" (`server/spec.md:93`). Checkpoints of that handle collide with stored rows or are stored behind the close, which is why `CheckpointInsertable`, `CloseComesLast`, `AcceptedIsAcked`, `CloseCompletes` and the refinement carry the same exception |
| `DirtyBytesStay` | a frame that was checked ahead of the stream, and a reduction of `replay_capacity_bytes` | `apply_backpressure` looks before the append has the lock, and `shrink_to_capacity` (`terminal.rs:643`) does not look at all: both evict bytes that are not durable. "Waiting here — rather than evicting — is what guarantees dirty bytes are never lost to replay-window eviction" (`publisher.rs`, `apply_backpressure`) |
| `OnlyReplacementIsUnrecoverable` | `late` | the relay takes a lost connection's frame between the new session's look at the offset and its answer; an ack overtakes the answer, and the driver gives up a healthy stream |
| `ExitedIsClosed`, `OutputBecomesDurable` | `mux.missed` | an ack written before `terminal.opened` is dropped and not repeated; the window stays full of bytes that are durable, so that the next byte waits, and an exited shell's terminal stays open, until another ack or a reconnect comes |
| `OutageCloses` | `unclosed` | listing, loading or closing the terminals fails after the grace; the error is logged (`registry.rs:378`) and nobody tries again |
| `RevokedIsRefused` | `stray` | a mirror ticket inserted after the revocation, by a handler that authenticated before it, still opens a mirror: `mirror_upgrade` (`ws.rs:197`) reads the row and does not look at `revoked_at`. Revocation "takes effect immediately for new connections and within 30 seconds for live ones" (`server/INTEGRATION.md:76`); a mirror connection that is open at the revocation is not ended either (`registry.rs:636`) |
| `TokenLivesOut` | not `Covered` | a token signed after its key was given an end - between the insert and the refresh, or, when the refresh fails and is only logged (`app.rs:491`), until a later sweep - may stop verifying before it expires, though "tokens minted just before a rotation keep verifying" (`server/README.md:578`). The settings do not make the overlap cover even a token's life |

Read off the code while modelling, without a property:

* A frame longer than the ring moves `earliest_offset` above `durable_offset` until the
  next checkpoint, against the order in `server/README.md:640`.
* The publisher's window is exceeded by up to a chunk (`stream.rs:147`, called "a hard
  gate" at line 109).
* With a list that fails, the terminal of a shell that exits during a short outage is
  closed by nobody (`session.rs:167` relies on the grace).
* The relay's input sequence is claimed before the delivery can fail (`mirror.rs:547`),
  though `terminal.rs:318` says it "counts delivered frames rather than attempts".
* A failed delivery leaves its resolved entry in the table until the sweep
  (`terminals.rs:324`), and a retry joins the failure.
* `send_open` is commented as answering a request "only on the first open", but the
  terminal's id is reset by a disconnect (`session.rs:481`), so every reconnect repeats
  it.
* A failed rebind is logged as "keeping the previous listener" (`server.rs:229`) after
  that listener was dropped.
* A closed terminal that is loaded from the database is never marked retired, so it is
  never evicted again (`registry.rs:804`): memory, not a wrong answer.
* `patch` reports a failure after its commit when the load that follows fails.
* When a daemon that stands down binds again, a second client in the old backlog is
  dropped; a client accepted in the 50 ms of a `Retire` loses its daemon. Both reattach
  or are told.

### Fairness

Weak fairness for each task that the runtimes keep polling: checkpoint loop, ack
task, the session inside a frame (its wait has a deadline), loader, mirror loop,
driver, connection task with its reconnects, relay reader and writer, timers, and
the supervisor that restarts the relay. Strong fairness in `PublisherLease` for the
arms of the biased `select!` that come before the incoming stream: they are taken
whenever they are ready at a turn of the loop, however many frames arrive. In the later
modules, weakly fair are: a handler until it answers and the sweep (`OpenRequests`); the
tasks along the input's way; processes that have started, in `Daemon`, where nobody has
to open or close a tab and no daemon has to stand down; watcher, listener and handler in
`Settings`, where nobody has to restart a process. `Auth` has no liveness. Nothing is
assumed of shells, peers, operators, the network, or of the database beyond the named
number of faults, with these exceptions. `PublicationLiveness` assumes that the list of
terminals can be fetched (`ListOutcomes = {TRUE}`) and that one connection is read at a
time. The ack task ends with its session, so the fairness of `SendAck` stands for a
publisher that is connected or comes back. In `PublisherLease` a handler returns (`Poll`):
it waits for the connection's writer, whose queue has no timeout, so this assumes that
the peer reads or its connection breaks. In `InputPath` the pump comes back from its
output arm, where it waits for `publish` (`publisher/src/main.rs:520`): `AcceptedIsRead`
holds while output drains.

## 4. Proofs

`tlapm <module>`; every obligation is discharged by SMT, Zenon or LS4. Each theorem
holds for every value of the constants, so for any number of connections, loaders,
mirrors, calls, tabs, keys and instances, any payloads, capacities and queue bounds.
The configurations' bounds (`MaxOffset`, `MaxFaults`, ...) are constants too.

| Module | Proved |
|---|---|
| `RelayTerminalProofs` | `DurabilityInv`, `TypeOK`, `NoFalseAck`, `AckedBytesSurvive`, `RingIsNewestSuffix`, `MirrorIsFaithful`, `StoredIsConsistent`, `CheckpointInsertable`, `OnlyStaleLoadReopens`, `CloseComesLast`, `ImplementsOutputLog`, `DirtyBytesStay` |
| `PublicationProofs` | `StreamIntegrity`, `NoByteForgotten`, `CloseAfterAll`, `OnlyReplacementIsUnrecoverable` |
| `PublisherLeaseProofs` | `SlotIsHeld`, `CapabilityIsOwn`, `ServingKeepsSlot` |
| `OpenRequestsProofs` | `AnswerIsGenuine`, `NoDanglingWaiter`, `NeverNeither` |
| `InputPathProofs` | `InputIntegrity` |
| `DaemonProofs` | `OneServer` |
| `AuthProofs` | `SingleUse`, `RevokedIsRefused`, `TokenLivesOut` |
| `SettingsProofs` | `NoLostUpdate` |

Assumptions are those named at the constants: payloads are sequences of bytes,
capacities are positive, limits are naturals, the empty slot is no connection, there is
room for one signing key, challenges and tickets are rows of two tables, and the outcomes
of an open request are told apart from shells. No theorem has a hypothesis beyond them;
where the code does less than one would like, the property names the case, as listed above.

### The arguments

*Acknowledgements* (`RelayTerminalProofs`). A handle may be built from a row that is
out of date, so its `durable_offset` may be behind the database. What saves the
stored offset from moving back is that the handle's `next_offset` comes from the
stored chunks, which end at `db.durable` (`StoreInv`, `LoaderInv`), so every handle -
and every checkpoint taken from it - stands at or past the stored offset
(`HandleInv`, `CheckpointInv`). An empty chunk means that nothing moved; a retired
handle is closed, clean and has no checkpoint in flight, so it can be evicted.
`AckedBytesSurvive` then follows because a crash cuts the log at `db.durable`, which
is at least what was acknowledged. The module begins with what every ring operation
returns: again a window within its capacity that ends where the stream ends.

*Bytes* (`RelayTerminalProofs`). `ContentInv` says that rows, ring and the chunk in
flight all hold bytes of the one `log`, each under its offset, and that the rows cover
the stored window. It survives a load by an old row: if the bytes at the earliest offset
that row names are gone, `load_terminal_output` finds the hole and refuses, and otherwise
what it joins is genuine and ends at the stored offset. The rows stay disjoint whatever
row a handle was built by (`TileInv`): a row read before, and the handle's
`durable_offset`, lie at the start of a stored row or where the rows end, so a chunk that
would repeat stored bytes meets a row with its own start and the transaction fails.

*Stale rows* (`OrderHolds`). Until a stale row reopens the terminal, the row of a load is
the stored one whenever it is used: while a handle serves, a load that finishes finds it
and drops its row, and a handle leaves only closed or with the process, which the loads do
not survive (`CurrentInv`). So the handle's `durable_offset` is the stored one except
between the commit and `CommitDurable`, new chunks start where the stored ones end and
never collide, and handle and row agree on the close (`CloseInv`). `EndInv` adds that a
closed terminal is durable to its last byte, `ToldInv` that only a checkpoint with a close
tells the subscribers. `reopened` never becomes FALSE again, so each of these holds up to
the step that reopens.

*Refinement* (`StepRefines`). The abstract log is `log`, durable is
`db.durable`, and the state is closed when the database says so and otherwise the
handle's, if there is one. `AppendFrame` is Accept, `CommitTransaction` is MakeDurable or,
with a close, Close; `BeginClose`, `SendAck` and `Crash` are themselves; every other step
stutters. Close is where the invariants are needed: the checkpoint's target must be all
of the log, which holds because a closing terminal accepts nothing.

*Mirrors* (`MirrorInv`). Where a mirror stands after the first i events of its queue is
the end of the last output among them, or of its replay (`Stands`). Each output starts
where the mirror stands by then, a mirror that is live ends at `next_offset`, and the
bytes are the log's. A queue loses elements only at its head and gains them at its end,
unless the mirror is cut off, so both `Deliver` and `Offer` preserve this; `Subscribe`
establishes it under the lock, the chunks of the replay ending at `next_offset`.

*Backpressure* (`RoomInv`). The look at the dirty bytes and the append are two steps.
A frame that was not ahead of the stream when it looked, and can still be accepted, fits:
either nothing was appended since, or its offset is behind and `append` refuses it. Such a
frame therefore evicts only what is durable, however many sessions there are and whatever
capacity it brings along.

*Publication* (`PublicationInv`). The driver's stream has one origin, the offset of the
shell's first byte: it is learnt with the first `terminal.opened` and kept by every
operation of `Outgoing` (`AttachedFresh`, `AttachedHeld`, `MismatchedHeld`,
`AcknowledgedKeeps`, `SentKeeps`). What is retained and every output frame in `control`,
`up` and `stale` is the shell's output counted from that origin (`DriverOK`, `FramesInv`).
The terminal at the relay has an origin too. `OriginOK` says that the two agree, or that
the terminal is a later one that has accepted nothing: there a frame counted from the
old origin never meets the relay's offset, so nothing is spliced in. That the driver
never learns an old origin for a new terminal takes the order of what is on its way: no
message about the first terminal comes behind the opening of a later one (`OrderInv`).
`NoByteForgotten` is not inductive without knowing, of each acknowledgement still on its
way, that what it confirms has been durable - also when it names a terminal that has been
replaced since (`PathOK`). `CloseAfterAll` follows, because an empty stream has released
everything. For `OnlyReplacementIsUnrecoverable` an answer must never lie below what the
driver has released: an ack may overtake a reply that is prepared and not yet written, so
`ReplyInv` says that such a reply names the relay's present offset, and `OrderInv` that no
answer comes behind an ack beyond it. Output of a lost connection disturbs both only when it
is taken while such a reply is prepared, which is when `late` is set (`LateFits`).

*Lease*. The slot's connection is always one whose task will still run its own detach,
because only that task, a newer connection or a revocation changes the slot.

*Open requests*. `GenuineInv`: an entry, its channel, the value in it, an answer and a
record belong to the key they are found under. `WaitInv`: a handler that created an entry
and still runs finds its own entry under its key, so it never retires another's.
`NeverNeither` also needs where a key can be between the entry and the shell (`FlightInv`,
`SentInv`).

*Input*. `InputInv` follows a keystroke through channel, socket, events, notices and
shell: in order within and between the places (`Order`); while everything on the way
runs, whatever was acknowledged is in one of them (`Whole`); and behind the point where a
queue overflowed or a party left, nothing follows (`NoHoles`).

*Daemon*. Only the lock's holder serves and whoever is connected is connected to it, so a
free lock means that nobody is served.

*Authentication*. A row that can still be claimed was never claimed (`UseInv`); a late
request finds the device revoked, and it stays so, and the tickets a revoked device can
still use were inserted after the revocation, which deleted the others (`RevocationInv`).
A key ends an overlap after the next one was inserted, not when the process heard of it;
until then it is stored, and verifies if the process signs with it or a newer one
(`KeyInv`).

*Settings*. A snapshot is never older than its label, because the revision is read before
the rows (`SnapshotInv`); one labelled with the newest revision has the newest values,
and that label is what a patch compares.

`TypeOK` and the lease's type invariant are conjuncts of the proved invariants and are
not in the configurations a second time.

### Only model-checked

All liveness properties: fairness and ENABLED are beyond the prover. Every invariant and
every safety property of a step that a run checks is proved; `OpenLateAnswer` is a
counterexample.

## 5. Plan

Left to model: the bounded channels between driver and connection task, where a
`Detached` can be dropped; retention and deletion of closed terminals; registration of
identities; the android mirror session with its reconnect and
resume.

## 6. Not modelled

Cryptography, TLS, HTTP parsing, message syntax, logging and metrics, rate limits,
command-line and file handling, window emulators, the Windows publisher, the terminal
emulator and renderer, JNI and Kotlin code, and the embedded network stack: I/O, data
conversion or third-party code without a state machine of their own. The android core
and the maintenance of old rows are left out as said above.
