---------------------------- MODULE Publication ----------------------------
(***************************************************************************)
(* One shell's output from the pseudo-terminal to the relay, across        *)
(* disconnections, reconnections and relay crashes: the stream driver      *)
(* (publisher/src/publish.rs, stream.rs), the multiplexed relay connection *)
(* (publisher/src/session.rs), the WebSocket, the relay's publisher        *)
(* session (server/src/relay/publisher.rs) and, for the relay's terminal,  *)
(* the abstract OutputLog.                                                 *)
(*                                                                         *)
(* The shell's bytes are numbered 1, 2, 3, ... so that a byte spliced in   *)
(* at the wrong place shows; 0 is a byte of an earlier process.            *)
(*                                                                         *)
(* Left out: input, resizes, open requests, sizes, the daemon's socket     *)
(* between driver and connection (a FIFO like the channel used here) and   *)
(* the other terminals on the connection, except that they keep it alive   *)
(* when this terminal has ended.  Channels do not fill up.                 *)
(***************************************************************************)
EXTENDS Outgoing

CONSTANTS
  MaxBytes,        \* bound: bytes the shell writes
  MaxChunk,        \* bound: bytes the driver draws from the shell at once
  MaxFrame,        \* negotiated max_output_frame_bytes
  OldBytes,        \* bytes an earlier process left in the terminal
  MaxFaults,       \* bound: lost connections, relay crashes and refused opens
  Overlap,         \* TRUE: the relay may still read the previous connection
  GraceEnds,       \* TRUE: the reconnect grace may end during an outage
  ListOutcomes     \* whether list_open may succeed (TRUE) and may fail (FALSE)

ASSUME BoundsAssumption ==
  /\ MaxBytes \in Nat /\ OldBytes \in Nat /\ MaxFaults \in Nat
  /\ MaxChunk \in Nat \ {0} /\ MaxFrame \in Nat \ {0}
  /\ Overlap \in BOOLEAN /\ ListOutcomes \subseteq BOOLEAN
  /\ GraceEnds \in BOOLEAN

VARIABLES
  shell,     \* [written, exited]: the pseudo-terminal's side
  driver,    \* the task drive: [stream, drawn, waiting, gone, closed, over]
  control,   \* Control messages on their way to the connection task
  events,    \* Event messages on their way to the driver
  mux,       \* the connection task: Hosted, what of previously_open has not been
             \* opened here yet (listed), and, as history, whether the latest ack
             \* was dropped (missed)
  up, down,  \* the WebSocket in both directions
  stale,     \* what the relay has yet to read of the previous connection
  relay,     \* the relay's session: [open, reply, acked]
  term,      \* which terminal the log is: terminals opened under the local_ref
  log, durable, acked, state,   \* the terminal at the relay (OutputLog)
  secured,   \* history: how many of the shell's bytes were ever durable
  late,      \* history: the log took bytes of a lost connection while an answer
             \* with its offset was still to be written to the present one
  faults

pubVars   == <<shell, driver, control, events>>
logVars   == <<log, durable, acked, state>>
wireVars  == <<up, down, stale>>
vars == <<pubVars, mux, wireVars, relay, term, logVars, secured, late, faults>>

ShellBytes(from, to) == [i \in 1 .. to - from |-> from + i]
Log == INSTANCE OutputLog WITH
         Payloads <- {ShellBytes(a, b) : a \in 0 .. MaxBytes, b \in 0 .. MaxBytes}

(* Every message has one shape: what it is, the terminal it names, an      *)
(* offset and the bytes.                                                   *)
Msg(kind, id, at, bytes) == [kind |-> kind, id |-> id, at |-> at, bytes |-> bytes]
Plain(kind, id) == Msg(kind, id, 0, << >>)
NoTerminal == 0
NoReply == Plain("none", NoTerminal)
Ended == Plain("ended", NoTerminal)
CloseRequest == Plain("close", NoTerminal)
NewSession == [open |-> FALSE, reply |-> NoReply, acked |-> 0]

Init ==
  /\ shell = [written |-> 0, exited |-> FALSE]
  /\ driver = [stream |-> NewStream, drawn |-> 0, waiting |-> << >>, gone |-> FALSE,
               closed |-> FALSE, over |-> "no"]
  /\ control = << >> /\ events = << >>
  /\ mux = [connected |-> FALSE, hosted |-> TRUE, terminal_id |-> NoTerminal,
            closing |-> FALSE, listed |-> NoTerminal, missed |-> FALSE]
  /\ up = << >> /\ down = << >> /\ stale = << >>
  /\ relay = NewSession
  /\ term = 1
  /\ log = [i \in 1 .. OldBytes |-> 0] /\ durable = OldBytes /\ acked = OldBytes
  /\ state = "open"
  /\ secured = 0
  /\ late = FALSE
  /\ faults = 0

-----------------------------------------------------------------------------
(* The shell *)

Write ==
  /\ ~shell.exited /\ shell.written < MaxBytes
  /\ shell' = [shell EXCEPT !.written = @ + 1]
  /\ UNCHANGED <<driver, control, events, mux, wireVars, relay, term, logVars,
                 secured, late, faults>>

Exit ==
  /\ ~shell.exited
  /\ shell' = [shell EXCEPT !.exited = TRUE]
  /\ UNCHANGED <<driver, control, events, mux, wireVars, relay, term, logVars,
                 secured, late, faults>>

-----------------------------------------------------------------------------
(* The driver: one action per arm of its select, each followed by the top  *)
(* of the loop - the chunk that waits, then the close.                     *)

(* send_output: the bytes in frames of at most MaxFrame. *)
Frames(start, bytes) ==
  [k \in 1 .. (Len(bytes) + MaxFrame - 1) \div MaxFrame |->
     LET lo == (k - 1) * MaxFrame
         hi == IF lo + MaxFrame <= Len(bytes) THEN lo + MaxFrame ELSE Len(bytes)
     IN  Msg("output", NoTerminal, start + lo, SubSeq(bytes, lo + 1, hi))]

(* A driver state with the requests it makes. *)
Then(d, out) == [d |-> d, out |-> out]

SendWaiting(r) ==
  IF r.d.waiting # << >> /\ MaySend(r.d.stream)
  THEN Then([r.d EXCEPT !.stream = Sent(r.d.stream, r.d.waiting), !.waiting = << >>],
            r.out \o Frames(r.d.stream.next, r.d.waiting))
  ELSE r

(* Mutant: the close does not wait for the acknowledgements. *)
SendCloseUnacked(r) ==
  IF r.d.gone /\ ~r.d.closed /\ r.d.waiting = << >>
  THEN Then([r.d EXCEPT !.closed = TRUE], Append(r.out, CloseRequest))
  ELSE r

SendClose(r) ==
  IF /\ r.d.gone /\ ~r.d.closed /\ r.d.waiting = << >>
     /\ Unacked(r.d.stream) = 0
  THEN Then([r.d EXCEPT !.closed = TRUE], Append(r.out, CloseRequest))
  ELSE r

Drive(d, out) ==
  LET r == SendClose(SendWaiting(Then(d, out)))
  IN  driver' = r.d /\ control' = control \o r.out

(* The task returns.  Its sink closes the terminal when it is dropped,     *)
(* unless a close has already been sent (TerminalSink::begin_shutdown).    *)
Finish(d, why) ==
  /\ driver' = [d EXCEPT !.over = why]
  /\ control' = IF d.closed THEN control ELSE Append(control, CloseRequest)

(* What the driver does with the answer of attached or mismatch. *)
Resync(answer) ==
  LET d == [driver EXCEPT !.stream = answer.stream]
  IN  CASE answer.todo = "nothing"    -> Drive(d, << >>)
        [] answer.todo = "retransmit" ->
             Drive(d, Frames(answer.at, From(answer.stream, answer.at)))
        [] OTHER -> Finish(d, "unrecoverable")

DriverEvent ==
  /\ driver.over = "no" /\ events # << >>
  /\ events' = Tail(events)
  /\ LET e == Head(events) IN
     \/ e.kind = "opened" /\ Resync(Attached(driver.stream, e.at))
     \/ e.kind = "mismatch" /\ Resync(Mismatched(driver.stream, e.at))
     \/ e.kind = "ack" /\ Drive([driver EXCEPT !.stream = Acknowledged(@, e.at)], << >>)
     \/ e.kind = "detached" /\ Drive([driver EXCEPT !.stream = Detached(@)], << >>)
     \/ e.kind = "ended" /\ Finish(driver, "ended")
  /\ UNCHANGED <<shell, mux, wireVars, relay, term, logVars, secured, late, faults>>

(* The owner's arm is polled only while no chunk is held back. *)
DriverDraw(n) ==
  /\ driver.over = "no" /\ ~driver.gone /\ driver.waiting = << >>
  /\ driver.drawn + n <= shell.written
  /\ Drive([driver EXCEPT !.drawn = @ + n,
                          !.waiting = ShellBytes(driver.drawn, driver.drawn + n)], << >>)
  /\ UNCHANGED <<shell, events, mux, wireVars, relay, term, logVars, secured, late, faults>>

DriverOwnerGone ==
  /\ driver.over = "no" /\ ~driver.gone /\ driver.waiting = << >>
  /\ shell.exited /\ driver.drawn = shell.written
  /\ Drive([driver EXCEPT !.gone = TRUE], << >>)
  /\ UNCHANGED <<shell, events, mux, wireVars, relay, term, logVars, secured, late, faults>>

-----------------------------------------------------------------------------
(* The connection task *)

Attachment(m) == m.terminal_id # NoTerminal
Forgotten(m) == [m EXCEPT !.hosted = FALSE, !.terminal_id = NoTerminal]

(* An event for the driver; a driver that has returned reads none. *)
Told(e) == IF driver.over = "no" THEN <<e>> ELSE << >>

(* close_finished, at the top of run_connection's loop: a terminal whose   *)
(* local side has ended is closed once the relay has named it.             *)
CloseFinished(m, sent, told) ==
  IF m.closing /\ Attachment(m)
  THEN /\ mux' = Forgotten(m)
       /\ up' = Append(up \o sent, Plain("close", m.terminal_id))
       /\ events' = events \o told \o Told(Ended)
  ELSE /\ mux' = m
       /\ up' = up \o sent
       /\ events' = events \o told

(* on_control *)
Forward ==
  /\ mux.connected /\ control # << >>
  /\ control' = Tail(control)
  /\ LET c == Head(control) IN
     \/ /\ c.kind = "output"
        /\ CloseFinished(mux, IF Attachment(mux) THEN <<[c EXCEPT !.id = mux.terminal_id]>>
                                                 ELSE << >>, << >>)
     \/ /\ c.kind = "close"
        /\ CloseFinished([mux EXCEPT !.closing = mux.hosted], << >>,
                         IF mux.hosted THEN Told(Ended) ELSE << >>)
  /\ UNCHANGED <<shell, driver, down, stale, relay, term, logVars, secured, late, faults>>

(* Mutant: a close that comes while there is no connection is dropped. *)
StashNothing ==
  /\ ~mux.connected /\ control # << >>
  /\ control' = Tail(control)
  /\ UNCHANGED <<shell, driver, events, mux, wireVars, relay, term, logVars, secured, late,
                 faults>>

(* stash: the same messages while there is no connection. *)
Stash ==
  /\ ~mux.connected /\ control # << >>
  /\ control' = Tail(control)
  /\ IF Head(control).kind = "close" /\ mux.hosted
     THEN /\ mux' = [mux EXCEPT !.closing = TRUE]
          /\ events' = events \o Told(Ended)
     ELSE UNCHANGED <<mux, events>>
  /\ UNCHANGED <<shell, driver, wireVars, relay, term, logVars, secured, late, faults>>

(* The backoff is over: what ended meanwhile is forgotten, the device's    *)
(* terminals are listed, the socket is opened and what is left is opened   *)
(* on it.                                                                  *)
Connect ==
  /\ ~mux.connected
  /\ \E listing \in ListOutcomes :
     LET hosted == mux.hosted /\ ~mux.closing IN
     /\ mux' = [mux EXCEPT !.connected = TRUE, !.hosted = hosted, !.closing = FALSE,
                           !.listed = IF listing /\ state # "closed" THEN term
                                                                     ELSE NoTerminal]
     /\ up' = IF hosted THEN <<Plain("open", NoTerminal)>> ELSE << >>
  /\ relay' = NewSession
  /\ UNCHANGED <<pubVars, down, stale, term, logVars, secured, late, faults>>

(* on_frame.  A message that names a terminal not attached here is dropped *)
(* (local_ref_of), and so is one for a terminal no longer hosted.          *)
Receive ==
  /\ mux.connected /\ down # << >>
  /\ down' = Tail(down)
  /\ LET r == Head(down) IN
     \/ /\ r.kind = "opened"
        /\ IF mux.hosted
           THEN CloseFinished([mux EXCEPT !.terminal_id = r.id,
                                          !.listed = IF r.id = @ THEN NoTerminal ELSE @],
                              << >>, Told(r))
           ELSE UNCHANGED <<mux, up, events>>
     \/ /\ r.kind \in {"ack", "mismatch"}
        /\ events' = IF mux.terminal_id = r.id THEN events \o Told(r) ELSE events
        /\ mux' = IF r.kind = "ack" THEN [mux EXCEPT !.missed = mux.terminal_id # r.id]
                  ELSE mux
        /\ UNCHANGED up
     \/ /\ r.kind = "refused"
        /\ IF mux.terminal_id = r.id
           THEN /\ mux' = Forgotten(mux)
                /\ up' = Append(up, Plain("close", r.id))
                /\ events' = events \o Told(Ended)
           ELSE UNCHANGED <<mux, up, events>>
     \/ /\ r.kind = "unopened"
        /\ IF mux.hosted
           THEN mux' = Forgotten(mux) /\ events' = events \o Told(Ended)
           ELSE UNCHANGED <<mux, events>>
        /\ UNCHANGED up
  /\ UNCHANGED <<shell, driver, control, stale, relay, term, logVars, secured, late, faults>>

(* sweep_orphans, ORPHAN_SETTLE after the connection came up: whatever was *)
(* open before and has not been handed back to this connection.            *)
SweepOrphans ==
  /\ mux.connected /\ mux.listed # NoTerminal
  /\ mux' = [mux EXCEPT !.listed = NoTerminal]
  /\ up' = Append(up, Plain("close", mux.listed))
  /\ UNCHANGED <<pubVars, down, stale, relay, term, logVars, secured, late, faults>>

(* Either end loses the connection, and the driver is told to hold back.   *)
Disconnected ==
  /\ mux' = [mux EXCEPT !.connected = FALSE, !.terminal_id = NoTerminal,
                        !.listed = NoTerminal]
  /\ events' = IF mux.hosted THEN events \o Told(Plain("detached", NoTerminal))
                             ELSE events
  /\ up' = << >> /\ down' = << >>
  /\ relay' = NewSession

(* Whatever was on the wire is gone, except what the relay has already     *)
(* received and not yet handled.                                           *)
LoseConnection ==
  /\ mux.connected /\ faults < MaxFaults
  /\ faults' = faults + 1
  /\ Disconnected
  /\ stale' \in {stale} \cup (IF Overlap THEN {stale \o up} ELSE {})
  /\ UNCHANGED <<shell, driver, control, term, logVars, secured, late>>

-----------------------------------------------------------------------------
(* The relay's session for this connection *)

(* on_open: an open terminal of the same local_ref is handed back, closing *)
(* or not; a closed one is replaced by a new terminal at offset zero.      *)
OpenAtRelay ==
  IF state = "closed"
  THEN /\ term' = term + 1
       /\ log' = << >> /\ durable' = 0 /\ acked' = 0 /\ state' = "open"
  ELSE UNCHANGED <<term, logVars>>

(* A frame for an earlier terminal finds it closed. *)
Accepting(m) == m.id = term /\ state = "open"

OutputAtRelay(m) ==
  /\ term' = term
  /\ IF Accepting(m) /\ m.at = Len(log) THEN Log!Accept(m.bytes) ELSE UNCHANGED logVars

CloseAtRelay(m) ==
  /\ term' = term
  /\ IF Accepting(m) THEN Log!BeginClose ELSE UNCHANGED logVars

HandleAtRelay(m) ==
  \/ m.kind = "open" /\ OpenAtRelay
  \/ m.kind = "output" /\ OutputAtRelay(m)
  \/ m.kind = "close" /\ CloseAtRelay(m)

ReplyTo(m) ==
  CASE m.kind = "open" -> Msg("opened", term', Len(log'), << >>)
    [] m.kind = "output" /\ ~Accepting(m) -> Plain("refused", m.id)
    [] m.kind = "output" /\ Accepting(m) /\ m.at # Len(log) ->
         Msg("mismatch", m.id, Len(log), << >>)
    [] OTHER -> NoReply

(* on_open starts the ack task before it replies, and any reply is written *)
(* after the handler has looked at the terminal.                           *)
RelayReads ==
  /\ mux.connected /\ up # << >> /\ relay.reply = NoReply
  /\ up' = Tail(up)
  /\ HandleAtRelay(Head(up))
  /\ relay' = [relay EXCEPT !.open = relay.open \/ Head(up).kind = "open",
                            !.reply = ReplyTo(Head(up))]
  /\ UNCHANGED <<pubVars, mux, down, stale, secured, late, faults>>

(* open_terminal failed: whatever the device has open stays as it is, and  *)
(* nothing is started here.                                                *)
RelayRefusesOpen ==
  /\ mux.connected /\ up # << >> /\ relay.reply = NoReply
  /\ Head(up).kind = "open" /\ faults < MaxFaults
  /\ up' = Tail(up)
  /\ relay' = [relay EXCEPT !.reply = Plain("unopened", NoTerminal)]
  /\ faults' = faults + 1
  /\ UNCHANGED <<pubVars, mux, down, stale, term, logVars, secured, late>>

RelayReplies ==
  /\ mux.connected /\ relay.reply # NoReply
  /\ down' = Append(down, relay.reply)
  /\ relay' = [relay EXCEPT !.reply = NoReply]
  /\ UNCHANGED <<pubVars, mux, up, stale, term, logVars, secured, late, faults>>

(* The previous connection's session handles one more frame, and perhaps   *)
(* notices then that it is over.                                           *)
RelayReadsStale ==
  /\ stale # << >>
  /\ stale' \in {Tail(stale), << >>}
  /\ HandleAtRelay(Head(stale))
  /\ late' = (late \/ (log' # log /\ relay.reply.kind \in {"opened", "mismatch"}))
  /\ UNCHANGED <<pubVars, mux, up, down, relay, secured, faults>>

(* spawn_ack_task: this connection's task starts again from zero, and does *)
(* not wait for the reply of a handler that is still running.              *)
AckTask ==
  /\ mux.connected /\ relay.open /\ durable > relay.acked
  /\ relay' = [relay EXCEPT !.acked = durable]
  /\ acked' = durable
  /\ down' = Append(down, Msg("ack", term, durable, << >>))
  /\ UNCHANGED <<pubVars, mux, up, stale, term, log, durable, state, secured, late, faults>>

(* A checkpoint commits everything accepted, and the close with it. *)
Flush ==
  /\ \/ state = "open" /\ durable < Len(log) /\ Log!MakeDurable(Len(log))
     \/ Log!Close
  /\ secured' = IF log # << >> /\ log[Len(log)] > secured THEN log[Len(log)] ELSE secured
  /\ UNCHANGED <<pubVars, mux, wireVars, relay, term, late, faults>>

(* The reconnect grace ran out: publisher_disconnected. *)
GraceExpires ==
  /\ GraceEnds /\ ~mux.connected /\ Log!BeginClose
  /\ UNCHANGED <<pubVars, mux, wireVars, relay, term, secured, late, faults>>

RelayCrash ==
  /\ mux.connected /\ faults < MaxFaults
  /\ faults' = faults + 1
  /\ Log!Crash
  /\ Disconnected
  /\ stale' = << >>
  /\ UNCHANGED <<shell, driver, control, term, secured, late>>

-----------------------------------------------------------------------------
DriverStep == DriverEvent \/ DriverOwnerGone \/ \E n \in 1 .. MaxChunk : DriverDraw(n)

Next ==
  \/ Write \/ Exit
  \/ DriverStep
  \/ Forward \/ Stash \/ Receive \/ Connect \/ SweepOrphans \/ LoseConnection
  \/ RelayReads \/ RelayRefusesOpen \/ RelayReplies \/ RelayReadsStale
  \/ AckTask \/ Flush \/ GraceExpires \/ RelayCrash

Spec == Init /\ [][Next]_vars

(* Every task of both programs keeps running: the driver's loop, the       *)
(* connection task with its reconnects, the relay's reader, writer and ack *)
(* task, its checkpoint loop, and the sweep's timer.  Nothing is assumed   *)
(* of the shell, the network or the reconnect grace.                       *)
Fairness ==
  /\ WF_vars(DriverEvent) /\ WF_vars(DriverOwnerGone)
  /\ WF_vars(\E n \in 1 .. MaxChunk : DriverDraw(n))
  /\ WF_vars(Forward) /\ WF_vars(Stash) /\ WF_vars(Receive) /\ WF_vars(Connect)
  /\ WF_vars(SweepOrphans)
  /\ WF_vars(RelayReads) /\ WF_vars(RelayReplies) /\ WF_vars(RelayReadsStale)
  /\ WF_vars(AckTask) /\ WF_vars(Flush)

FairSpec == Spec /\ Fairness
-----------------------------------------------------------------------------
(* Properties *)

(* Where the shell's first byte belongs in the terminal at the relay. *)
Base == IF term = 1 THEN OldBytes ELSE 0

(* No splice: whatever sequence of losses, retransmissions, echoes and     *)
(* restarts led there, the relay holds the shell's bytes in order, each    *)
(* once, from the first one on (the reason Outgoing retains and resumes).  *)
StreamIntegrity == log = [i \in 1 .. Len(log) |-> IF i <= Base THEN 0 ELSE i - Base]

(* A byte drawn from the shell is held by the driver until the relay has   *)
(* made it durable (Retained, release_through).                            *)
NoByteForgotten ==
  driver.over = "no" =>
    driver.drawn - Len(driver.waiting) - Len(driver.stream.bytes) <= secured

(* The driver asks for the close of a finished shell only when every byte  *)
(* the shell wrote is durable at the relay.                                *)
CloseAfterAll ==
  driver.closed => secured = shell.written

(* The driver gives a terminal up as desynchronised only when the relay    *)
(* had to start a new one, or when its session of a lost connection took   *)
(* output between the next session's look at the offset and its answer, so *)
(* that an acknowledgement overtook the answer: no other disconnection,    *)
(* relay crash or late close makes the retained bytes insufficient.        *)
OnlyReplacementIsUnrecoverable == driver.over = "unrecoverable" => term > 1 \/ late

(* The terminal of a shell that has exited is closed at the relay and      *)
(* stays closed, unless an ack that overtook terminal.opened was dropped   *)
(* and none came after it: the ack task does not repeat itself, and the    *)
(* close waits for what the driver takes to be unacknowledged.             *)
ExitedIsClosed == shell.exited ~> ([](state = "closed") \/ [](mux.missed))

(* The same without the exception.  It does not hold (publish.rs, drive:   *)
(* "has to be noticed, or its terminal is never closed").                  *)
ExitedIsAlwaysClosed == shell.exited ~> [](state = "closed")

(* What the shell wrote is eventually durable, unless the terminal was     *)
(* given up first or, as above, the last ack was dropped: the window then  *)
(* counts bytes that are durable, and holds the next ones back for ever.   *)
OutputBecomesDurable ==
  \A n \in 1 .. MaxBytes :
    shell.written >= n ~> (secured >= n \/ driver.over # "no" \/ [](mux.missed))
=============================================================================
