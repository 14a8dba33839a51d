---------------------------- MODULE RelayTerminal ----------------------------
(***************************************************************************)
(* One terminal inside the relay server: the in-memory handle with its     *)
(* replay ring (server/src/relay/terminal.rs, ring.rs), the publisher      *)
(* sessions that append to it under backpressure (relay/publisher.rs), the *)
(* checkpoint task that makes its output durable (relay/flush.rs), the     *)
(* database row and output chunks (db/repo.rs), the mirror subscribers fed *)
(* from it (relay/mirror.rs), the registry that loads and evicts the       *)
(* handle (relay/registry.rs) and the crash and restart of the process.    *)
(*                                                                         *)
(* Every critical section of the handle's mutex is one action; whatever    *)
(* the code does after an await or an unlock is a later action.            *)
(*                                                                         *)
(* Left out: labels, sizes, timestamps, metrics, the input path, and the   *)
(* storage_failing flag, which only selects the error code a publisher is  *)
(* told.  Time is left out: a flush, a timeout or an eviction sweep may    *)
(* happen whenever the code allows it to.                                  *)
(***************************************************************************)
EXTENDS Ring, FiniteSets

CONSTANTS
  Byte,            \* the values of an output byte
  Payloads,        \* the payloads a publisher may send in one frame
  Subs,            \* mirror connections
  Sessions,        \* publisher connections that can reach the handle
  Loaders,         \* tasks that may be loading the handle from the database
  Capacities,      \* values the setting terminal.replay_capacity_bytes takes
  MaxUnacked,      \* negotiated max_unacked_bytes
  QueueMessages,   \* mirror.subscriber_queue_messages
  QueueBytes,      \* mirror.subscriber_queue_bytes
  ChunkBytes,      \* mirror.replay_chunk_bytes
  MaxOffset,       \* bound: offsets stop growing here
  MaxFaults        \* bound: crashes plus abandoned checkpoints

ASSUME PayloadsAssumption == Payloads \subseteq Seq(Byte)
ASSUME CapacitiesAssumption == Capacities \subseteq Nat \ {0} /\ Capacities # {}
ASSUME LimitsAssumption ==
  /\ MaxUnacked \in Nat
  /\ QueueMessages \in Nat \ {0}
  /\ QueueBytes \in Nat
  /\ ChunkBytes \in Nat \ {0}
  /\ MaxOffset \in Nat
  /\ MaxFaults \in Nat

VARIABLES
  \* The process and the registry.
  up,               \* the server process is running
  resident,         \* the registry's map holds the handle
  loader,           \* [Loaders -> the terminal row each one has read, or Idle]
  replay_capacity,  \* the current value of the setting
  \* TerminalInner.
  ring, next_offset, durable_offset, dirty_since, lifecycle, retired,
  subs,             \* [Subs -> subscriber and its connection]
  \* Publisher sessions.
  session,          \* [Sessions -> the frame being handled]
  acked,            \* the highest durable_offset any output.ack has carried
  \* The checkpoint task and the database.
  checkpoint,       \* the batch entry in flight, if any
  db,               \* the terminals row and its terminal_output rows
  \* History and bounds.
  log,              \* every byte accepted and not rolled back by a crash
  reopened,         \* a closed terminal was built from a row read before its close
  faults

procVars   == <<up, resident, loader, replay_capacity>>
memVars    == <<ring, next_offset, durable_offset, dirty_since, lifecycle, retired>>
vars == <<procVars, memVars, subs, session, acked, checkpoint, db, log, reopened, faults>>

-----------------------------------------------------------------------------
(* Records *)

NoBytes == [o \in {} |-> 0]
IdleFrame == [pc |-> "idle", expected |-> 0, payload |-> << >>, capacity |-> 1,
              early |-> FALSE]
NoCheckpoint == [phase |-> "none", start |-> 0, chunk |-> NoBytes, earliest |-> 0,
                 target |-> 0, close |-> FALSE]
NoRow == [busy |-> FALSE, earliest |-> 0, durable |-> 0, state |-> "open"]
Unsubscribed(pos) ==
  [phase |-> "off", pos |-> pos, replay |-> << >>, window |-> NoBytes,
   queue |-> << >>, queued |-> 0]

Dirty == SaturatingSub(next_offset, durable_offset)
Live(s) == subs[s].phase = "live"

(* MirrorEvent.  at is the event's offset: where the output starts, the    *)
(* durable offset, or the terminal's next_offset when it closed.           *)
Output(start, payload) == [kind |-> "output", at |-> start, payload |-> payload]
Durable(offset)        == [kind |-> "durable", at |-> offset, payload |-> << >>]
Resized                == [kind |-> "resize", at |-> 0, payload |-> << >>]
Closed(next)           == [kind |-> "closed", at |-> next, payload |-> << >>]

(* Mutant: an event that does not fit is skipped. *)
OfferSkipping(sub, event) ==
  IF \/ sub.phase # "live"
     \/ sub.queued + Len(event.payload) > QueueBytes
     \/ Len(sub.queue) >= QueueMessages
  THEN sub
  ELSE [sub EXCEPT !.queue  = Append(sub.queue, event),
                   !.queued = sub.queued + Len(event.payload)]

(* TerminalInner::fan_out for one subscriber: a queue over its byte or     *)
(* message bound loses its sender, which is how a slow consumer is cut     *)
(* off; what it was sent before stays queued.  Only output has a cost.     *)
Offer(sub, event) ==
  IF sub.phase # "live" THEN sub
  ELSE IF \/ sub.queued + Len(event.payload) > QueueBytes
          \/ Len(sub.queue) >= QueueMessages
  THEN [sub EXCEPT !.phase = "overflowed"]
  ELSE [sub EXCEPT !.queue  = Append(sub.queue, event),
                   !.queued = sub.queued + Len(event.payload)]

FanOut(event) == [s \in Subs |-> Offer(subs[s], event)]

-----------------------------------------------------------------------------
(* The database: load_terminal_output and commit_checkpoints *)

(* The rows load_terminal_output selects, and the hole it refuses. *)
Stored(earliest) == {r \in db.rows : r.end > earliest}
HasGap(earliest) ==
  \E r \in Stored(earliest) :
    /\ r.start > earliest
    /\ \A q \in Stored(earliest) : q.start < r.start => q.end < r.start
LoadedEnd(earliest) ==
  CHOOSE e \in {earliest} \cup {r.end : r \in Stored(earliest)} :
    \A r \in Stored(earliest) : r.end <= e
LoadedBytes(earliest) ==
  [o \in earliest .. LoadedEnd(earliest) - 1 |->
     (CHOOSE r \in Stored(earliest) : r.start <= o /\ o < r.end).bytes[o]]

(* Mutant: the straddling row is left whole. *)
CommittedRowsUncut(rows, c) ==
  {r \in rows \cup (IF c.chunk = NoBytes THEN {}
                    ELSE {[start |-> c.start, end |-> c.target, bytes |-> c.chunk]}) :
     r.end > c.earliest}

(* One terminal's part of the checkpoint transaction: append the chunk,    *)
(* delete the rows below the retained window, cut the one that straddles   *)
(* it, and publish both offsets (and the close) in the terminals row.  The *)
(* code cuts the first row it finds to straddle; the stored rows are       *)
(* disjoint (StoredIsConsistent), so there is no second.                   *)
CommittedRows(rows, c) ==
  LET inserted == IF c.chunk = NoBytes THEN rows
                  ELSE rows \cup {[start |-> c.start, end |-> c.target,
                                   bytes |-> c.chunk]}
      kept     == {r \in inserted : r.end > c.earliest}
      cut(r)   == [start |-> c.earliest, end |-> r.end,
                   bytes |-> [o \in c.earliest .. r.end - 1 |-> r.bytes[o]]]
  IN  {IF r.start < c.earliest THEN cut(r) ELSE r : r \in kept}

(* UNIQUE (terminal_id, start_offset), for the chunk and for the row that  *)
(* is cut to the chunk's own start, and CHECK (earliest <= durable).       *)
Insertable(c) ==
  /\ c.chunk = NoBytes \/ \A r \in db.rows :
                             /\ r.start # c.start
                             /\ c.start = c.earliest /\ r.start < c.start => r.end <= c.start
  /\ c.earliest <= c.target

-----------------------------------------------------------------------------
Init ==
  /\ up = TRUE
  /\ resident = FALSE
  /\ loader = [l \in Loaders |-> NoRow]
  /\ replay_capacity \in Capacities
  /\ ring = NewRing(1, 0)
  /\ next_offset = 0
  /\ durable_offset = 0
  /\ dirty_since = FALSE
  /\ lifecycle = "open"
  /\ retired = FALSE
  /\ subs = [s \in Subs |-> Unsubscribed(0)]
  /\ session = [p \in Sessions |-> IdleFrame]
  /\ acked = 0
  /\ checkpoint = NoCheckpoint
  \* open_terminal has just inserted the row; nobody has loaded it yet.
  /\ db = [earliest |-> 0, durable |-> 0, state |-> "open", rows |-> {}]
  /\ log = << >>
  /\ reopened = FALSE
  /\ faults = 0

-----------------------------------------------------------------------------
(* The registry: get_or_load, open_terminal, insert_or_load_handle,        *)
(* evict_retired                                                           *)

(* get_or_load finds no resident handle and reads the terminal's row, or   *)
(* open_terminal, without looking for a handle, finds the row by its       *)
(* local_ref, which it does while the row is open.                         *)
ReadRow(l) ==
  /\ up /\ (~resident \/ db.state = "open") /\ ~loader[l].busy
  /\ loader' = [loader EXCEPT ![l] = [busy |-> TRUE, earliest |-> db.earliest,
                                      durable |-> db.durable, state |-> db.state]]
  /\ UNCHANGED <<up, resident, replay_capacity, memVars, subs, session, acked,
                 checkpoint, db, log, reopened, faults>>

(* Mutants: the earliest offset is taken for the durable one; the state is *)
(* not loaded.                                                             *)
FromRowEarliest(row) ==
  /\ ring' = FromRetained(replay_capacity, row.earliest,
                          LoadedEnd(row.earliest), LoadedBytes(row.earliest))
  /\ next_offset' = MaxOf(ring'.end, row.durable)
  /\ durable_offset' = row.earliest
  /\ dirty_since' = FALSE /\ lifecycle' = row.state /\ retired' = FALSE
FromRowReopened(row) ==
  /\ ring' = FromRetained(replay_capacity, row.earliest,
                          LoadedEnd(row.earliest), LoadedBytes(row.earliest))
  /\ next_offset' = MaxOf(ring'.end, row.durable)
  /\ durable_offset' = row.durable
  /\ dirty_since' = FALSE /\ lifecycle' = "open" /\ retired' = FALSE

(* TerminalHandle::from_row, with the output that is stored now. *)
FromRow(row) ==
  /\ ring' = FromRetained(replay_capacity, row.earliest,
                          LoadedEnd(row.earliest), LoadedBytes(row.earliest))
  /\ next_offset' = MaxOf(ring'.end, row.durable)
  /\ durable_offset' = row.durable
  /\ dirty_since' = FALSE
  /\ lifecycle' = row.state
  /\ retired' = FALSE

(* insert_or_load_handle, under load_lock: whoever finds no handle builds  *)
(* one by the row it read, which it does not read again; a hole in the     *)
(* stored output makes the load fail.                                      *)
InsertHandle(l) ==
  /\ up /\ loader[l].busy
  /\ loader' = [loader EXCEPT ![l] = NoRow]
  /\ IF resident \/ HasGap(loader[l].earliest)
     THEN UNCHANGED <<resident, memVars, reopened>>
     ELSE /\ resident' = TRUE
          /\ FromRow(loader[l])
          /\ reopened' = (reopened \/ (loader[l].state = "open" /\ db.state = "closed"))
  /\ UNCHANGED <<up, replay_capacity, subs, session, acked, checkpoint, db,
                 log, faults>>

(* Mutant: any clean handle nobody watches is evicted. *)
EvictIdle ==
  /\ up /\ resident
  /\ \A s \in Subs : ~Live(s)
  /\ Dirty = 0
  /\ resident' = FALSE
  /\ session' = [p \in Sessions |-> IdleFrame]
  /\ UNCHANGED <<up, loader, replay_capacity, memVars, subs, acked, checkpoint, db,
                 log, reopened, faults>>

EvictRetired ==
  /\ up /\ resident /\ retired
  /\ \A s \in Subs : ~Live(s)
  /\ Dirty = 0
  /\ resident' = FALSE
  \* A frame still in progress holds the closed handle and can only be refused.
  /\ session' = [p \in Sessions |-> IdleFrame]
  /\ UNCHANGED <<up, loader, replay_capacity, memVars, subs, acked, checkpoint, db,
                 log, reopened, faults>>

(* An operator writes the setting; the settings task then applies a        *)
(* reduction to the resident ring (shrink_to_capacity).                    *)
ChangeCapacity(c) ==
  /\ up /\ c # replay_capacity
  /\ replay_capacity' = c
  /\ UNCHANGED <<up, resident, loader, memVars, subs, session, acked, checkpoint,
                 db, log, reopened, faults>>

ShrinkToCapacity ==
  /\ up /\ resident /\ replay_capacity < ring.capacity
  /\ ring' = SetCapacity(ring, replay_capacity)
  /\ UNCHANGED <<procVars, next_offset, durable_offset, dirty_since, lifecycle,
                 retired, subs, session, acked, checkpoint, db, log, reopened, faults>>

-----------------------------------------------------------------------------
(* Publisher sessions: on_binary, apply_backpressure, append, the ack task *)

(* Mutant: the payload itself is not counted. *)
HeadroomIgnoringPayload(frame) == MinOf(MaxUnacked, frame.capacity)

Headroom(frame) ==
  IF Len(frame.payload) >= frame.capacity THEN 0
  ELSE SaturatingSub(MinOf(MaxUnacked, frame.capacity), Len(frame.payload))

(* on_binary up to the first look at the dirty bytes, whatever offset the  *)
(* frame carries.  The capacity is the session's settings snapshot and is  *)
(* kept for the whole frame; early records, for the properties, whether    *)
(* the stream stood elsewhere at the last look.                            *)
OnBinary(p, expected, payload) ==
  /\ up /\ resident /\ session[p].pc = "idle"
  /\ next_offset + Len(payload) <= MaxOffset
  /\ LET frame == [pc |-> "passed", expected |-> expected, payload |-> payload,
                   capacity |-> replay_capacity, early |-> expected # next_offset]
     IN  session' = [session EXCEPT ![p] =
           IF Dirty <= Headroom(frame) THEN frame
                                       ELSE [frame EXCEPT !.pc = "waiting"]]
  /\ UNCHANGED <<procVars, memVars, subs, acked, checkpoint, db, log, reopened, faults>>

(* wait_for_durable has returned - the target was reached, the terminal    *)
(* stopped being open, or the deadline passed - and the dirty bytes are    *)
(* looked at again.  If they still do not fit, the connection is closed.   *)
WaitEnds(p) ==
  /\ session[p].pc = "waiting"
  /\ session' = [session EXCEPT ![p] =
       IF Dirty <= Headroom(session[p])
       THEN [session[p] EXCEPT !.pc = "passed",
                              !.early = session[p].expected # next_offset]
       ELSE IdleFrame]
  /\ UNCHANGED <<procVars, memVars, subs, acked, checkpoint, db, log, reopened, faults>>

(* Mutant: a terminal that is closing still accepts output. *)
AcceptsWhileClosing(frame) == lifecycle # "closed" /\ frame.expected = next_offset

(* TerminalHandle::append: the frame is accepted only while the terminal   *)
(* is open and only at the authoritative next_offset.                      *)
Accepts(frame) == lifecycle = "open" /\ frame.expected = next_offset

AppendFrame(p) ==
  /\ session[p].pc = "passed"
  /\ next_offset + Len(session[p].payload) <= MaxOffset
  /\ session' = [session EXCEPT ![p] = IdleFrame]
  /\ LET frame == session[p] IN
     IF Accepts(frame)
     THEN /\ ring' = AppendBytes(SetCapacity(ring, frame.capacity), frame.payload)
          /\ next_offset' = next_offset + Len(frame.payload)
          /\ dirty_since' = (dirty_since \/ frame.payload # << >>)
          /\ subs' = IF frame.payload = << >> THEN subs
                     ELSE FanOut(Output(next_offset, frame.payload))
          /\ log' = log \o frame.payload
     ELSE UNCHANGED <<ring, next_offset, dirty_since, subs, log>>
  /\ UNCHANGED <<procVars, durable_offset, lifecycle, retired, acked, checkpoint,
                 db, reopened, faults>>

(* Mutant: what was received is acknowledged, not what is durable. *)
SendAckOnReceipt ==
  /\ up /\ resident /\ next_offset > acked
  /\ acked' = next_offset
  /\ UNCHANGED <<procVars, memVars, subs, session, checkpoint, db, log, reopened, faults>>

(* spawn_ack_task: acknowledge what the handle says is durable. *)
SendAck ==
  /\ up /\ resident /\ durable_offset > acked
  /\ acked' = durable_offset
  /\ UNCHANGED <<procVars, memVars, subs, session, checkpoint, db, log, reopened, faults>>

Resize ==
  /\ up /\ resident /\ lifecycle = "open"
  /\ subs' = FanOut(Resized)
  /\ UNCHANGED <<procVars, memVars, session, acked, checkpoint, db, log, reopened, faults>>

(* Mutant: the subscribers are told at once. *)
BeginCloseTold ==
  /\ up /\ resident /\ lifecycle = "open"
  /\ lifecycle' = "closing"
  /\ subs' = FanOut(Closed(next_offset))
  /\ UNCHANGED <<procVars, ring, next_offset, durable_offset, dirty_since,
                 retired, session, acked, checkpoint, db, log, reopened, faults>>

(* begin_close, from terminal.close, the reconnect grace or a revocation. *)
BeginClose ==
  /\ up /\ resident /\ lifecycle = "open"
  /\ lifecycle' = "closing"
  /\ UNCHANGED <<procVars, ring, next_offset, durable_offset, dirty_since,
                 retired, subs, session, acked, checkpoint, db, log, reopened, faults>>

-----------------------------------------------------------------------------
(* The checkpoint task: take_checkpoint, the transaction, commit_durable *)

(* Mutants: dirty bytes, or a close of a clean terminal, go unnoticed. *)
NeedsCheckpointToClose == lifecycle = "closing"
NeedsCheckpointIfDirty == next_offset > durable_offset
NeedsCheckpoint == next_offset > durable_offset \/ lifecycle = "closing"

TakeCheckpoint ==
  /\ up /\ resident /\ checkpoint.phase = "none"
  /\ NeedsCheckpoint
  /\ LET from == MaxOf(durable_offset, ring.earliest)
     IN  checkpoint' = [phase    |-> "taken",
                        start    |-> from,
                        chunk    |-> ReadRange(ring, from, next_offset),
                        earliest |-> ring.earliest,
                        target   |-> next_offset,
                        close    |-> lifecycle = "closing"]
  /\ UNCHANGED <<procVars, memVars, subs, session, acked, db, log, reopened, faults>>

CommitTransaction ==
  /\ up /\ checkpoint.phase = "taken"
  /\ Insertable(checkpoint)
  /\ db' = [earliest |-> checkpoint.earliest,
            durable  |-> checkpoint.target,
            state    |-> IF checkpoint.close THEN "closed" ELSE db.state,
            rows     |-> CommittedRows(db.rows, checkpoint)]
  /\ checkpoint' = [checkpoint EXCEPT !.phase = "committed"]
  /\ UNCHANGED <<procVars, memVars, subs, session, acked, log, reopened, faults>>

(* Mutant: the transaction's error is ignored. *)
CommitFailsUnnoticed ==
  /\ up /\ checkpoint.phase = "taken"
  /\ faults < MaxFaults
  /\ faults' = faults + 1
  /\ checkpoint' = [checkpoint EXCEPT !.phase = "committed"]
  /\ UNCHANGED <<procVars, memVars, subs, session, acked, db, log, reopened>>

(* Every attempt of commit_with_retry failed, by a fault or by a conflict  *)
(* with what is stored: the bytes stay dirty.                              *)
CommitFails ==
  /\ up /\ checkpoint.phase = "taken"
  /\ IF Insertable(checkpoint) THEN faults < MaxFaults /\ faults' = faults + 1
                               ELSE faults' = faults
  /\ checkpoint' = NoCheckpoint
  /\ UNCHANGED <<procVars, memVars, subs, session, acked, db, log, reopened>>

(* Bytes that arrived while the checkpoint was in flight are dirty still. *)
StillDirty(durable) == durable < next_offset

(* commit_durable on the handle that is resident now. *)
CommitDurable ==
  /\ up /\ checkpoint.phase = "committed"
  /\ checkpoint' = NoCheckpoint
  /\ LET c        == checkpoint
         advance  == c.target > durable_offset
         afterDurable(s) == IF advance THEN Offer(subs[s], Durable(c.target)) ELSE subs[s]
     IN  IF resident
         THEN /\ durable_offset' = MaxOf(durable_offset, c.target)
              /\ dirty_since' = (dirty_since /\ StillDirty(durable_offset'))
              /\ lifecycle' = IF c.close THEN "closed" ELSE lifecycle
              /\ retired' = (retired \/ c.close)
              /\ subs' = [s \in Subs |-> IF c.close
                                         THEN Offer(afterDurable(s), Closed(next_offset))
                                         ELSE afterDurable(s)]
         ELSE UNCHANGED <<durable_offset, dirty_since, lifecycle, retired, subs>>
  /\ UNCHANGED <<procVars, ring, next_offset, session, acked, db, log, reopened, faults>>

-----------------------------------------------------------------------------
(* Mirror connections: subscribe, the replay, deliver, unsubscribe *)

(* The replay of subscribe: [from, next_offset) in chunks, none if the     *)
(* ring cannot read it.  The bytes are copied under the lock, once, into   *)
(* the subscription's window.                                              *)
ReplayChunks(from) ==
  LET count == IF Readable(ring, from, next_offset)
               THEN (next_offset - from + ChunkBytes - 1) \div ChunkBytes ELSE 0
  IN  [i \in 1 .. count |->
         [start |-> from + (i - 1) * ChunkBytes,
          end   |-> MinOf(from + i * ChunkBytes, next_offset)]]

(* The subscriber asks for the offset it has processed up to, or for no    *)
(* particular offset.  One past next_offset is refused (offset_ahead); one *)
(* below the window is answered with a gap notice and the whole window.    *)
Subscribe(s, requested) ==
  /\ up /\ resident /\ subs[s].phase = "off"
  /\ requested <= next_offset
  /\ LET from == MaxOf(requested, ring.earliest)
     IN  subs' = [subs EXCEPT ![s] =
                    [Unsubscribed(from) EXCEPT !.phase = "live",
                                               !.replay = ReplayChunks(from),
                                               !.window = ReadRange(ring, from, next_offset)]]
  /\ UNCHANGED <<procVars, memVars, session, acked, checkpoint, db, log, reopened, faults>>

(* The copied bytes are dropped with the last chunk. *)
SendReplay(s) ==
  /\ subs[s].phase # "off" /\ subs[s].replay # << >>
  /\ LET rest == Tail(subs[s].replay)
     IN  subs' = [subs EXCEPT ![s] =
           [subs[s] EXCEPT !.pos = Head(subs[s].replay).end,
                           !.replay = rest,
                           !.window = IF rest = << >> THEN NoBytes ELSE subs[s].window]]
  /\ UNCHANGED <<procVars, memVars, session, acked, checkpoint, db, log, reopened, faults>>

(* deliver: a close ends the connection, anything else goes on. *)
Deliver(s) ==
  /\ subs[s].phase # "off" /\ subs[s].replay = << >> /\ subs[s].queue # << >>
  /\ LET event == Head(subs[s].queue)
     IN  subs' = [subs EXCEPT ![s] =
           IF event.kind = "closed" THEN Unsubscribed(subs[s].pos)
           ELSE [subs[s] EXCEPT
                   !.queue  = Tail(subs[s].queue),
                   !.queued = subs[s].queued - Len(event.payload),
                   !.pos    = IF event.kind = "output"
                              THEN event.at + Len(event.payload) ELSE subs[s].pos]]
  /\ UNCHANGED <<procVars, memVars, session, acked, checkpoint, db, log, reopened, faults>>

(* Mutant: only terminate_subscribers ends a connection. *)
EndOfStreamTerminated(s) ==
  /\ subs[s].phase = "terminated"
  /\ subs[s].replay = << >> /\ subs[s].queue = << >>
  /\ subs' = [subs EXCEPT ![s] = Unsubscribed(subs[s].pos)]
  /\ UNCHANGED <<procVars, memVars, session, acked, checkpoint, db, log, reopened, faults>>

(* The sender is gone and the queue is drained: slow_consumer, or the      *)
(* reason terminate_subscribers left behind.                               *)
EndOfStream(s) ==
  /\ subs[s].phase \in {"overflowed", "terminated"}
  /\ subs[s].replay = << >> /\ subs[s].queue = << >>
  /\ subs' = [subs EXCEPT ![s] = Unsubscribed(subs[s].pos)]
  /\ UNCHANGED <<procVars, memVars, session, acked, checkpoint, db, log, reopened, faults>>

(* The client goes away, or its heartbeat expires. *)
Disconnect(s) ==
  /\ subs[s].phase # "off"
  /\ subs' = [subs EXCEPT ![s] = Unsubscribed(subs[s].pos)]
  /\ UNCHANGED <<procVars, memVars, session, acked, checkpoint, db, log, reopened, faults>>

TerminateSubscribers ==
  /\ up /\ resident
  /\ \E s \in Subs : Live(s)
  /\ subs' = [s \in Subs |-> IF Live(s) THEN [subs[s] EXCEPT !.phase = "terminated"]
                                        ELSE subs[s]]
  /\ UNCHANGED <<procVars, memVars, session, acked, checkpoint, db, log, reopened, faults>>

-----------------------------------------------------------------------------
(* Crash and restart *)

(* Everything in memory is lost, the connections with it.  The subscribers *)
(* remember what they processed.  History: the stream falls back to what   *)
(* the database holds.                                                     *)
Crash ==
  /\ up /\ faults < MaxFaults
  /\ faults' = faults + 1
  /\ up' = FALSE
  /\ resident' = FALSE
  /\ loader' = [l \in Loaders |-> NoRow]
  /\ ring' = NewRing(1, 0)
  /\ next_offset' = 0
  /\ durable_offset' = 0
  /\ dirty_since' = FALSE
  /\ lifecycle' = "open"
  /\ retired' = FALSE
  /\ subs' = [s \in Subs |-> Unsubscribed(subs[s].pos)]
  /\ session' = [p \in Sessions |-> IdleFrame]
  /\ checkpoint' = NoCheckpoint
  /\ log' = SubSeq(log, 1, db.durable)
  /\ UNCHANGED <<replay_capacity, acked, db, reopened>>

(* The restarted process holds no handle: recover_open_terminals starts    *)
(* the device's reconnect grace and leaves the terminal to be loaded by    *)
(* whoever asks for it first.                                              *)
Recover ==
  /\ ~up
  /\ up' = TRUE
  /\ UNCHANGED <<resident, loader, replay_capacity, memVars, subs, session, acked,
                 checkpoint, db, log, reopened, faults>>

-----------------------------------------------------------------------------
Checkpointing == TakeCheckpoint \/ CommitTransaction \/ CommitDurable

Next ==
  \/ \E l \in Loaders : ReadRow(l) \/ InsertHandle(l)
  \/ EvictRetired
  \/ \E c \in Capacities : ChangeCapacity(c)
  \/ ShrinkToCapacity
  \/ \E p \in Sessions :
       \* A retransmission, a new frame, or one ahead of the stream.  Every
       \* offset behind the stream is refused alike: one stands for them.
       \/ \E expected \in {durable_offset} \cup next_offset .. MaxOffset,
            payload \in Payloads :
            OnBinary(p, expected, payload)
       \/ WaitEnds(p)
       \/ AppendFrame(p)
  \/ SendAck
  \/ Resize
  \/ BeginClose
  \/ Checkpointing
  \/ CommitFails
  \/ \E s \in Subs :
       \/ \E requested \in {ring.earliest, subs[s].pos} : Subscribe(s, requested)
       \/ SendReplay(s)
       \/ Deliver(s)
       \/ EndOfStream(s)
       \/ Disconnect(s)
  \/ TerminateSubscribers
  \/ Crash
  \/ Recover

Spec == Init /\ [][Next]_vars
-----------------------------------------------------------------------------
(* Fairness.  Each condition is a task that the process keeps running: the *)
(* checkpoint loop, the ack task, the session that is inside a frame (its  *)
(* wait has a deadline), the loader, the mirror connection's select loop,  *)
(* and the supervisor that restarts a crashed process.  The ack task lives *)
(* as long as its session: WF(SendAck) says that the publisher is          *)
(* connected, or comes back, and then the reopened terminal's ack task     *)
(* sends what is durable.  Nothing else is assumed of publishers, nor of   *)
(* operators, nor of the database beyond MaxFaults.                        *)
Fairness ==
  /\ WF_vars(TakeCheckpoint)
  /\ WF_vars(CommitTransaction)
  /\ WF_vars(CommitDurable)
  /\ WF_vars(SendAck)
  /\ WF_vars(Recover)
  /\ \A l \in Loaders : WF_vars(InsertHandle(l))
  /\ \A p \in Sessions : WF_vars(WaitEnds(p)) /\ WF_vars(AppendFrame(p))
  /\ \A s \in Subs : WF_vars(SendReplay(s)) /\ WF_vars(Deliver(s))
                     /\ WF_vars(EndOfStream(s))

FairSpec == Spec /\ Fairness

-----------------------------------------------------------------------------
(* Refinement: the terminal as a publisher and a subscriber may rely on    *)
(* it.  What is durable is what the database says, never what the handle   *)
(* believes.                                                               *)
AbstractState ==
  IF db.state = "closed" THEN "closed"
  ELSE IF resident THEN lifecycle ELSE "open"

Abstract == INSTANCE OutputLog
  WITH durable <- db.durable, state <- AbstractState

-----------------------------------------------------------------------------
(* Properties *)

Events == [kind : {"output", "durable", "resize", "closed"}, at : Nat,
           payload : Seq(Byte)]

IsSub(sub) ==
  /\ sub \in [phase : {"off", "live", "overflowed", "terminated"}, pos : Nat,
             replay : Seq([start : Nat, end : Nat]), window : {sub.window},
             queue : Seq(Events), queued : Int]
  /\ Len(sub.queue) <= QueueMessages /\ sub.queued <= QueueBytes

IsCheckpoint(c) ==
  c \in [phase : {"none", "taken", "committed"}, start : Nat, chunk : {c.chunk},
         earliest : Nat, target : Nat, close : BOOLEAN]

IsStore(d) ==
  /\ d \in [earliest : Nat, durable : Nat, state : {"open", "closed"}, rows : {d.rows}]
  /\ \A r \in d.rows : r.start \in Nat /\ r.end \in Nat

LoaderRows == [busy : BOOLEAN, earliest : Nat, durable : Nat, state : {"open", "closed"}]
FrameStates == [pc : {"idle", "waiting", "passed"}, expected : Nat,
                payload : Seq(Byte), capacity : Nat \ {0}, early : BOOLEAN]

(* TypeOK: every variable has the shape the actions assume; the ring is a  *)
(* window within its capacity and a subscriber's queue within its bounds.  *)
TypeOK ==
  /\ up \in BOOLEAN /\ resident \in BOOLEAN
  /\ loader \in [Loaders -> LoaderRows]
  /\ replay_capacity \in Capacities
  /\ IsRing(ring)
  /\ next_offset \in Nat /\ durable_offset \in Nat /\ acked \in Nat
  /\ dirty_since \in BOOLEAN /\ retired \in BOOLEAN
  /\ lifecycle \in {"open", "closing", "closed"}
  /\ DOMAIN subs = Subs /\ \A s \in Subs : IsSub(subs[s])
  /\ session \in [Sessions -> FrameStates]
  /\ IsCheckpoint(checkpoint)
  /\ IsStore(db)
  /\ log \in Seq(Byte)
  /\ reopened \in BOOLEAN
  /\ faults \in Nat

(* What a resident handle may replay is exactly the newest contiguous      *)
(* suffix of the accepted stream, byte for byte, never longer than the     *)
(* ring's capacity (spec section 7.1, acceptance criterion 9).             *)
RingIsNewestSuffix ==
  resident =>
    /\ ring.end = next_offset /\ next_offset = Len(log)
    /\ ring.earliest <= ring.end
    /\ RetainedLen(ring) <= ring.capacity
    /\ \A o \in ring.earliest .. ring.end - 1 : ring.bytes[o] = log[o + 1]

(* The terminal_output rows tile [earliest, durable) of the terminals row  *)
(* without hole or overlap and hold the accepted bytes: whenever the       *)
(* process dies, load_terminal_output finds one consistent checkpoint      *)
(* (spec section 7.4).                                                     *)
StoredIsConsistent ==
  /\ db.earliest <= db.durable /\ db.durable <= Len(log)
  /\ \A r \in db.rows :
       /\ db.earliest <= r.start /\ r.start < r.end /\ r.end <= db.durable
       /\ \A o \in r.start .. r.end - 1 : r.bytes[o] = log[o + 1]
  /\ \A o \in db.earliest .. db.durable - 1 :
       \E r \in db.rows : r.start <= o /\ o < r.end
  /\ \A r, q \in db.rows : r = q \/ r.end <= q.start \/ q.end <= r.start
  /\ ~HasGap(db.earliest) /\ LoadedEnd(db.earliest) = db.durable

(* No false durable acknowledgement: an output.ack, a durable notice to a  *)
(* mirror, and the handle's own durable_offset never exceed what a         *)
(* committed transaction has stored (spec section 7.2).                    *)
NoFalseAck ==
  /\ acked <= db.durable
  /\ resident => durable_offset <= db.durable
  /\ \A s \in Subs : \A i \in DOMAIN subs[s].queue :
       subs[s].queue[i].kind = "durable" => subs[s].queue[i].at <= db.durable

(* Why no acknowledgement is ever false, as an inductive invariant.  The   *)
(* stored offset only moves forward, because a handle - freshly loaded, by *)
(* however stale a row, or old - always stands at or past it, and so does  *)
(* a checkpoint taken from it.                                             *)

(* The stored rows end at the stored offset. *)
StoreInv ==
  /\ \A r \in db.rows : r.end <= db.durable
  /\ IF db.durable = 0 THEN db.earliest = 0
     ELSE /\ db.earliest < db.durable
          /\ \E r \in db.rows : r.end = db.durable

(* A row read earlier is one the database has moved on from. *)
LoaderInv ==
  \A l \in Loaders :
    /\ loader[l].durable <= db.durable
    /\ loader[l].earliest = 0 \/ loader[l].earliest < db.durable

HandleInv ==
  /\ ring.end = next_offset
  /\ resident => /\ durable_offset <= db.durable /\ db.durable <= next_offset
                 /\ Len(log) = next_offset
  /\ ~resident => Len(log) = db.durable /\ checkpoint.phase = "none"
  /\ retired => /\ lifecycle = "closed" /\ next_offset <= durable_offset
                /\ checkpoint.phase = "none"
  /\ \A p \in Sessions : session[p].pc # "idle" => resident

CheckpointInv ==
  /\ checkpoint.phase = "taken" =>
       /\ db.durable <= checkpoint.target /\ checkpoint.target <= next_offset
       /\ IF checkpoint.target = 0 THEN checkpoint.earliest = 0
          ELSE checkpoint.earliest < checkpoint.target
       /\ checkpoint.chunk = NoBytes => checkpoint.target = db.durable
  /\ checkpoint.phase = "committed" => checkpoint.target = db.durable
  /\ checkpoint.phase # "none" /\ checkpoint.close =>
       lifecycle = "closing" /\ checkpoint.target = next_offset

(* An acknowledged byte is a stored byte: the four parts together with     *)
(* NoFalseAck are inductive, and hold for any number of loaders.           *)
DurabilityInv == TypeOK /\ StoreInv /\ LoaderInv /\ HandleInv /\ CheckpointInv /\ NoFalseAck

(* A checkpoint in flight never collides with the UNIQUE and CHECK         *)
(* constraints of the tables, unless a stale row reopened the terminal:    *)
(* such a conflict fails every retry and stops acknowledgements for good.  *)
CheckpointInsertable ==
  checkpoint.phase = "taken" /\ ~reopened => Insertable(checkpoint)

(* Bytes acknowledged durable are never lost, changed or renumbered, by    *)
(* any later step, a crash and restart included (spec section 7.2).        *)
AckedBytesSurvive ==
  [][\A i \in 1 .. acked : i \in DOMAIN log' /\ log'[i] = log[i]]_vars

(* insert_or_load_handle uses the row it was given without reading it      *)
(* again.  As long as the terminal is open that row is the stored one      *)
(* whenever a handle is built by it, however many loads wait; so the only  *)
(* way to an open handle of a closed terminal (which spec section 2 rules  *)
(* out) is a row read before the close was committed.                      *)
OnlyStaleLoadReopens ==
  /\ \A l \in Loaders :
       loader[l].busy /\ ~resident /\ ~reopened =>
         \/ loader[l] = [busy |-> TRUE, earliest |-> db.earliest,
                        durable |-> db.durable, state |-> db.state]
         \/ loader[l].state = "open" /\ db.state = "closed"
  /\ resident /\ db.state = "closed" /\ ~reopened => lifecycle # "open"

(* A frame that AppendFrame accepts although the stream moved on between   *)
(* its look at the dirty bytes and its turn: another session of the device *)
(* got in between.                                                         *)
Overtaken ==
  \E p \in Sessions : /\ session[p].pc = "passed" /\ session'[p].pc = "idle"
                      /\ session[p].expected = next_offset /\ session[p].early

(* Backpressure keeps a byte in the ring until it is durable               *)
(* (apply_backpressure, spec section 7.2), with two exceptions: a frame    *)
(* whose check was overtaken by another session's output, and a reduction  *)
(* of replay_capacity_bytes applied to a ring that holds dirty bytes.  A   *)
(* frame that brings the smaller capacity along is no exception.           *)
DirtyBytesStay ==
  [][resident /\ resident' =>
       \/ \A o \in DOMAIN ring.bytes \ DOMAIN ring'.bytes : o < durable_offset'
       \/ ring'.capacity < ring.capacity /\ next_offset' = next_offset
       \/ Overtaken]_vars

(* A subscriber that has been sent its replay and the first i events of    *)
(* its queue stands at o: where the last output among them ends, or the    *)
(* replay.                                                                 *)
Stands(sub, i, o) ==
  \/ /\ \A j \in 1 .. i : sub.queue[j].kind # "output"
     /\ o = IF sub.replay = << >> THEN sub.pos ELSE sub.replay[Len(sub.replay)].end
  \/ \E j \in 1 .. i :
       /\ sub.queue[j].kind = "output"
       /\ \A k \in j + 1 .. i : sub.queue[k].kind # "output"
       /\ o = sub.queue[j].at + Len(sub.queue[j].payload)

(* No loss, no duplication, no reordering at the seam between replay and   *)
(* live output: what a subscriber is still owed starts where it stands,    *)
(* has no hole, and - unless it was cut off - reaches next_offset.         *)
Contiguous(sub, next) ==
  /\ \A i \in DOMAIN sub.replay :
       sub.replay[i].start = IF i = 1 THEN sub.pos ELSE sub.replay[i - 1].end
  /\ \A i \in DOMAIN sub.queue :
       sub.queue[i].kind = "output" => Stands(sub, i - 1, sub.queue[i].at)
  /\ sub.phase = "live" => Stands(sub, Len(sub.queue), next)

(* The bytes a subscriber is owed are the accepted bytes at those offsets. *)
BytesGenuine(sub, stream) ==
  /\ \A i \in DOMAIN sub.replay :
       \A o \in sub.replay[i].start .. sub.replay[i].end - 1 :
         sub.window[o] = stream[o + 1]
  /\ \A i \in DOMAIN sub.queue :
       \A k \in DOMAIN sub.queue[i].payload :
         sub.queue[i].payload[k] = stream[sub.queue[i].at + k]

(* A durable notice never runs ahead of the bytes it covers. *)
DurableFollows(sub, stream) ==
  \A i \in DOMAIN sub.queue :
    sub.queue[i].kind = "durable" =>
      \E o \in sub.queue[i].at .. Len(stream) : Stands(sub, i, o)

(* What a mirror shows is the terminal's own stream, however replay, live  *)
(* output, a full queue and durable notices interleave.                    *)
MirrorIsFaithful ==
  \A s \in Subs : /\ Contiguous(subs[s], next_offset)
                  /\ BytesGenuine(subs[s], log)
                  /\ DurableFollows(subs[s], log)

(* A subscriber hears of the close last, after every accepted byte was     *)
(* queued ahead of it and committed (spec section 6.2), unless a stale row *)
(* reopened the terminal.                                                  *)
CloseComesLast ==
  \A s \in Subs : \A i \in DOMAIN subs[s].queue :
    subs[s].queue[i].kind = "closed" /\ ~reopened =>
      /\ i = Len(subs[s].queue)
      /\ db.state = "closed" /\ subs[s].queue[i].at = db.durable
      /\ db.durable = Len(log)

(* Everything accepted becomes durable and is acknowledged, unless the     *)
(* process dies first or a stale row reopened the terminal, whose          *)
(* checkpoints may then collide for good.                                  *)
AcceptedIsAcked ==
  \A n \in 1 .. MaxOffset :
    (resident /\ next_offset >= n) ~> (acked >= n \/ ~up \/ ~resident \/ reopened)

(* A close, once begun, is committed and told, with the same exceptions. *)
CloseCompletes == lifecycle = "closing" ~> (lifecycle = "closed" \/ ~up \/ reopened)

(* A connected subscriber is never left short: it reaches every accepted   *)
(* byte or its connection ends.                                            *)
SubscriberCatchesUp ==
  \A s \in Subs, n \in 1 .. MaxOffset :
    (subs[s].phase # "off" /\ next_offset >= n) ~> (subs[s].pos >= n \/ subs[s].phase = "off")

(* The detailed relay - ring, checkpoints, rows, crashes and reloads - is  *)
(* an implementation of OutputLog: every step is a step of the abstract    *)
(* log or leaves it alone, up to the step by which a stale row reopens a   *)
(* closed terminal.                                                        *)
ImplementsOutputLog ==
  /\ Abstract!Init
  /\ [][Abstract!Next \/ reopened']_<<log, db.durable, acked, AbstractState>>
=============================================================================
