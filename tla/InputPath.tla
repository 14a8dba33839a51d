----------------------------- MODULE InputPath -----------------------------
(***************************************************************************)
(* Keystrokes, from the subscriptions that type them to the shell that     *)
(* reads them: the checks and the sequence numbers of a mirror connection  *)
(* (server/src/relay/mirror.rs), the bounded channel of the device's       *)
(* publisher connection (relay/registry.rs, relay/publisher.rs), the       *)
(* publisher's connection task (publisher/src/session.rs), the stream      *)
(* driver (publish.rs) and the tab that owns the shell (main.rs pump).     *)
(*                                                                         *)
(* One terminal.  A keystroke is named by its subscription and its client  *)
(* sequence; [n |-> 0] is a resize request, which takes the same way.      *)
(*                                                                         *)
(* Left out: what refuses a frame before it touches any of this (the       *)
(* operator's switch, the scope, the size, the rate): such a frame may be  *)
(* sent again under its sequence number.  Also left out are the relay      *)
(* sequence, which nobody compares, the events of the output stream, the   *)
(* daemon's socket between connection task and driver, which blocks        *)
(* instead of dropping, and a restart of the relay.                        *)
(***************************************************************************)
EXTENDS Integers, Sequences

CONSTANTS
  Mirrors,      \* subscriptions
  MaxSequence,  \* bound on client sequences
  MaxResizes,   \* bound on resize requests
  MaxConns,     \* bound on publisher connections
  Channel,      \* capacity of the connection's delivery channel
  EventQueue,   \* capacity of the terminal's event queue
  NoticeQueue   \* NOTICE_QUEUE

ASSUME InputAssumption ==
  /\ {Channel, EventQueue, NoticeQueue} \subseteq Nat \ {0}
  /\ {MaxSequence, MaxResizes, MaxConns} \subseteq Nat

VARIABLES
  expected,     \* [Mirrors -> expected_sequence]
  checked,      \* subscriptions whose frame has passed its checks
  resizes,      \* resize requests so far
  terminal,     \* the terminal at the relay is "open" or "closed"
  slot,         \* the connection that holds the device, or 0
  conns,        \* connections so far
  channel,      \* what the relay has yet to write on the slot's connection
  opened,       \* the relay has handled terminal.open on that connection
  link,         \* the connection the publisher is on, or 0
  socket,       \* what is on its way to the publisher
  attached,     \* the connection task knows the terminal's id
  hosted,       \* the connection task has the terminal
  events, notices,
  driver, owner,  \* "running" or "over": the stream driver, the tab's pump
  accepted,     \* history: what was acknowledged, [m, n, g, opened]
  typed         \* history: what the shell has read

relayVars == <<expected, checked, resizes, terminal, accepted>>
connVars == <<slot, conns, channel, opened, link, socket, attached>>
hostVars == <<hosted, events, notices, driver, owner, typed>>
vars == <<relayVars, connVars, hostVars>>

Item(m, n) == [m |-> m, n |-> n, g |-> slot]
Opened == [m |-> 0, n |-> 0, g |-> 0]

InputInit ==
  /\ expected = [m \in Mirrors |-> 1] /\ checked = {} /\ resizes = 0
  /\ terminal = "open" /\ accepted = {}
  /\ slot = 1 /\ conns = 1 /\ channel = <<>> /\ opened = TRUE
  /\ link = 1 /\ socket = <<>> /\ attached = TRUE
  /\ hosted = TRUE /\ events = <<>> /\ notices = <<>>
  /\ driver = "running" /\ owner = "running" /\ typed = <<>>

-----------------------------------------------------------------------------
(* The mirror connection at the relay. *)

(* Mutant: the sequence number is not compared. *)
CheckFrameAny(m, n) ==
  /\ m \notin checked /\ terminal = "open" /\ n \in {expected[m], expected[m] - 1} \ {0}
  /\ expected' = [expected EXCEPT ![m] = n] /\ checked' = checked \cup {m}
  /\ UNCHANGED <<resizes, terminal, accepted, connVars, hostVars>>

(* handle_input_frame, up to the delivery.  A frame that is refused leaves *)
(* everything as it is.                                                    *)
CheckFrame(m, n) ==
  /\ m \notin checked /\ terminal = "open" /\ n = expected[m]
  /\ checked' = checked \cup {m}
  /\ UNCHANGED <<expected, resizes, terminal, accepted, connVars, hostVars>>

(* deliver_to_publisher, which never waits. *)
Deliverable == slot # 0 /\ Len(channel) < Channel
Delivers(item) == channel' = Append(channel, item)

(* Its answer: the frame is acknowledged, or it is refused and its number  *)
(* remains the expected one.                                               *)
DeliverInput(m) ==
  /\ m \in checked /\ checked' = checked \ {m}
  /\ IF Deliverable
     THEN /\ Delivers(Item(m, expected[m]))
          /\ expected' = [expected EXCEPT ![m] = @ + 1]
          /\ accepted' = accepted \cup
               {[m |-> m, n |-> expected[m], g |-> slot, opened |-> opened]}
     ELSE UNCHANGED <<channel, expected, accepted>>
  /\ UNCHANGED <<resizes, terminal, slot, conns, opened, link, socket, attached, hostVars>>

(* handle_resize_request: the lifecycle is not looked at. *)
RequestResize(m) ==
  /\ resizes < MaxResizes /\ resizes' = resizes + 1
  /\ Deliverable /\ Delivers(Item(m, 0))
  /\ UNCHANGED <<expected, checked, terminal, accepted, slot, conns, opened, link, socket,
                 attached, hostVars>>

-----------------------------------------------------------------------------
(* The publisher's connection. *)

(* The input arm of the session's loop; the socket may be dead. *)
Forward ==
  /\ channel # <<>>
  /\ channel' = Tail(channel)
  /\ socket' = IF link = slot THEN Append(socket, Head(channel)) ELSE socket
  /\ UNCHANGED <<relayVars, slot, conns, opened, link, attached, hostVars>>

(* on_open for a terminal that is still there: terminal.opened goes out    *)
(* behind what the loop has forwarded before.                              *)
RelayOpens ==
  /\ link # 0 /\ slot = link /\ ~opened /\ hosted /\ terminal = "open"
  /\ opened' = TRUE /\ socket' = Append(socket, Opened)
  /\ UNCHANGED <<relayVars, slot, conns, channel, link, attached, hostVars>>

(* The connection breaks; the relay notices when its session ends. *)
Disconnect ==
  /\ link # 0
  /\ link' = 0 /\ socket' = <<>> /\ attached' = FALSE
  /\ UNCHANGED <<relayVars, slot, conns, channel, opened, hostVars>>

Connect ==
  /\ link = 0 /\ conns < MaxConns
  /\ conns' = conns + 1 /\ link' = conns + 1 /\ slot' = conns + 1
  /\ channel' = <<>> /\ opened' = FALSE
  /\ UNCHANGED <<relayVars, socket, attached, hostVars>>

Detach ==
  /\ slot # 0 /\ slot # link
  /\ slot' = 0 /\ channel' = <<>> /\ opened' = FALSE
  /\ UNCHANGED <<relayVars, conns, link, socket, attached, hostVars>>

(* The close that the publisher sends, the orphan sweep, or the end of the *)
(* reconnect grace.                                                        *)
RelayCloses ==
  /\ terminal = "open" /\ (~hosted \/ slot = 0)
  /\ terminal' = "closed"
  /\ UNCHANGED <<expected, checked, resizes, accepted, connVars, hostVars>>

-----------------------------------------------------------------------------
(* The publisher. *)

(* Mutant: a full queue costs the one event. *)
DeliverDropping(item) ==
  /\ events' = IF Len(events) < EventQueue THEN Append(events, item) ELSE events
  /\ UNCHANGED hosted

(* deliver: a terminal whose queue is full is marked as closing, and       *)
(* forgotten at the top of the loop (close_finished), before another frame *)
(* is read.  A driver that has returned reads nothing.                     *)
Deliver(item) ==
  IF driver = "over" THEN UNCHANGED <<events, hosted>>
  ELSE IF Len(events) < EventQueue
  THEN events' = Append(events, item) /\ UNCHANGED hosted
  ELSE hosted' = FALSE /\ UNCHANGED events

(* on_frame: input is routed by the terminal's id, and dropped while that  *)
(* is not known on this connection.                                        *)
Receive ==
  /\ socket # <<>>
  /\ socket' = Tail(socket)
  /\ LET item == Head(socket) IN
     IF item = Opened THEN attached' = hosted /\ UNCHANGED <<events, hosted>>
     ELSE /\ IF attached /\ hosted THEN Deliver(item) ELSE UNCHANGED <<events, hosted>>
          /\ UNCHANGED attached
  /\ UNCHANGED <<relayVars, slot, conns, channel, opened, link, notices, driver, owner, typed>>

(* drive: a resize that does not fit is dropped, input that does not fit   *)
(* ends the driver.                                                        *)
Drive ==
  /\ driver = "running" /\ events # <<>>
  /\ LET fits == owner = "running" /\ Len(notices) < NoticeQueue IN
     /\ notices' = IF fits THEN Append(notices, Head(events)) ELSE notices
     /\ IF fits \/ Head(events).n = 0
        THEN events' = Tail(events) /\ UNCHANGED driver
        ELSE events' = <<>> /\ driver' = "over"
  /\ UNCHANGED <<relayVars, connVars, hosted, owner, typed>>

(* The connection task has let go of the terminal, or the owner has gone   *)
(* and everything it wrote is acknowledged.                                *)
DriverEnds ==
  /\ driver = "running" /\ events = <<>> /\ (~hosted \/ owner = "over")
  /\ driver' = "over"
  /\ UNCHANGED <<relayVars, connVars, hosted, events, notices, owner, typed>>

(* The driver's sink was dropped, which sends the close. *)
CloseTerminal ==
  /\ driver = "over" /\ hosted
  /\ hosted' = FALSE
  /\ UNCHANGED <<relayVars, connVars, events, notices, driver, owner, typed>>

(* pump: keystrokes are written to the shell, a resize is applied or       *)
(* declined; the notices are read to the end.                              *)
Pump ==
  /\ owner = "running" /\ notices # <<>>
  /\ notices' = Tail(notices)
  /\ typed' = IF Head(notices).n = 0 THEN typed ELSE Append(typed, Head(notices))
  /\ UNCHANGED <<relayVars, connVars, hosted, events, driver, owner>>

(* The shell exits, or the tab is closed. *)
OwnerEnds ==
  /\ owner = "running"
  /\ owner' = "over" /\ notices' = <<>>
  /\ UNCHANGED <<relayVars, connVars, hosted, events, driver, typed>>

-----------------------------------------------------------------------------
Next ==
  \/ \E m \in Mirrors : \/ \E n \in 1..MaxSequence : CheckFrame(m, n)
                        \/ DeliverInput(m) \/ RequestResize(m)
  \/ Forward \/ RelayOpens \/ Disconnect \/ Connect \/ Detach \/ RelayCloses
  \/ Receive \/ Drive \/ DriverEnds \/ CloseTerminal \/ Pump \/ OwnerEnds

InputSpec == InputInit /\ [][Next]_vars

(* The tasks on the way keep running, and the pump's select is not biased. *)
(* WF(Pump) also says that the pump comes back from publishing output,     *)
(* which its output arm waits for: that the driver's output queue drains,  *)
(* as it does while the driver runs and the relay acknowledges.            *)
InputFairSpec ==
  /\ InputSpec
  /\ \A m \in Mirrors : WF_vars(DeliverInput(m))
  /\ WF_vars(Forward) /\ WF_vars(Receive) /\ WF_vars(Drive) /\ WF_vars(Pump)

-----------------------------------------------------------------------------
Read(m, n, g) == \E i \in 1..Len(typed) : typed[i] = [m |-> m, n |-> n, g |-> g]

(* Input is at most once and has no holes: the shell reads the keystrokes  *)
(* of a subscription in order, none twice, and never a later one without   *)
(* every earlier one that was acknowledged on the same publisher           *)
(* connection - overflowing queues included, which end the mirror.  Only   *)
(* what was acknowledged before the connection had its terminal.open       *)
(* handled may be missing.  (session.rs, deliver: "closing it rather than  *)
(* losing keystrokes silently".)                                           *)
InputIntegrity ==
  /\ \A i, j \in 1..Len(typed) : i < j /\ typed[i].m = typed[j].m => typed[i].n < typed[j].n
  /\ \A i \in 1..Len(typed), a \in accepted :
       a.m = typed[i].m /\ a.g = typed[i].g /\ a.n < typed[i].n /\ a.opened
         => Read(a.m, a.n, a.g)

(* Acknowledged input reaches the shell, unless the connection that took   *)
(* it, the terminal's mirror or the tab ends first.                        *)
AcceptedIsRead ==
  \A m \in Mirrors, n \in 1..MaxSequence :
    []<>( /\ [m |-> m, n |-> n, g |-> link, opened |-> TRUE] \in accepted
          /\ hosted /\ driver = "running" /\ owner = "running"
          => Read(m, n, link) )

(* Nothing that was acknowledged is missing at all.  It does not hold: a   *)
(* connection that has the device's slot is given input before it has      *)
(* opened the terminal, and the publisher drops it.                        *)
NoSilentLoss ==
  \A i \in 1..Len(typed), a \in accepted :
    a.m = typed[i].m /\ a.g = typed[i].g /\ a.n < typed[i].n => Read(a.m, a.n, a.g)
=============================================================================
