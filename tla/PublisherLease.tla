--------------------------- MODULE PublisherLease ---------------------------
(***************************************************************************)
(* Which connection publishes for a device, and what happens to the        *)
(* device's terminal when none does: the publisher slot and its lease      *)
(* (server/src/relay/registry.rs), the connection's select loop            *)
(* (relay/publisher.rs handle), the upgrade that attaches it (http/ws.rs), *)
(* revocation (http/devices.rs), the reconnect grace and shutdown.         *)
(*                                                                         *)
(* A connection is itself its generation and its connection_id: each is    *)
(* used once.  One device with one terminal.  The supersede signal is a    *)
(* tokio Notify: notify_waiters reaches only a task that waits right then. *)
(*                                                                         *)
(* Left out: input, output and the content of control messages - a frame   *)
(* is a period in which the session is busy - and the database, whose      *)
(* calls are the points where a handler can be overtaken.                  *)
(***************************************************************************)
EXTENDS Integers, FiniteSets

CONSTANTS
  Conns,       \* publisher connections
  V2,          \* those that negotiated version 2 and have an input channel
  NoConn,      \* the empty slot
  Grace,       \* terminal.publisher_reconnect_grace_seconds, in ticks
  MayRevoke,   \* TRUE: the owner may revoke the device
  MayShutDown  \* TRUE: the server may be shut down

ASSUME ConnsAssumption == V2 \subseteq Conns /\ NoConn \notin Conns
ASSUME TimeAssumption ==
  Grace \in Nat \ {0} /\ MayRevoke \in BOOLEAN /\ MayShutDown \in BOOLEAN

VARIABLES
  phase,       \* [Conns -> where the connection's task is]
  notified,    \* connections whose supersede.notified() has been woken
  slot,        \* publishers: the connection that holds the device, or NoConn
  open_requests,  \* the slot's capability
  asserted,    \* history: connections that asserted the capability
  timer,       \* [Conns -> ticks until its reconnect grace ends]
  outage,      \* history: ticks since the device last lost its publisher, up to Grace
  early,       \* history: a grace close came before the outage lasted Grace
  unclosed,    \* history: connections whose grace close failed
  terminal,    \* "none", "open" or "closed"
  revoked,     \* the device row's revoked_at
  enforcing,   \* enforce_device_revocation: "no", "slot", "list" or "done"
  shutting_down

connVars == <<phase, notified, timer>>
slotVars == <<slot, open_requests, asserted>>
graceVars == <<outage, early, unclosed>>
vars == <<connVars, slotVars, graceVars, terminal, revoked, enforcing, shutting_down>>

(* "new"        before the upgrade request                                 *)
(* "authorised" the upgrade has read the device row                        *)
(* "busy"       in a handler, or before the first turn of the loop         *)
(* "polling"    waiting in the select                                      *)
(* "closing"    the loop is over and the lease is about to be dropped      *)
(* "grace"      on_publisher_detached sleeps                               *)
(* "expired"    it found no publisher and is closing the terminals         *)
(* "gone"                                                                  *)
Phases == {"new", "authorised", "busy", "polling", "closing", "grace", "expired", "gone"}

Serving(c) == phase[c] \in {"busy", "polling"}
Goes(c, p) == phase' = [phase EXCEPT ![c] = p]

(* A fresh server; or one that recovers an open terminal, for which        *)
(* recover_open_terminals puts a stand-in into the slot and runs the       *)
(* detach path on it.                                                      *)
Init ==
  /\ \/ /\ phase = [c \in Conns |-> "new"]
        /\ slot = NoConn /\ terminal = "none"
     \/ \E r \in Conns \ V2 :
          /\ phase = [c \in Conns |-> IF c = r THEN "closing" ELSE "new"]
          /\ slot = r /\ terminal = "open"
  /\ notified = {} /\ open_requests = FALSE /\ asserted = {}
  /\ timer = [c \in Conns |-> 0]
  /\ outage = Grace /\ early = FALSE /\ unclosed = {}
  /\ revoked = FALSE /\ enforcing = "no" /\ shutting_down = FALSE

-----------------------------------------------------------------------------
(* relay_upgrade: the device row is read, then the slot is taken. *)

Authorise(c) ==
  /\ phase[c] = "new" /\ ~revoked /\ ~shutting_down
  /\ Goes(c, "authorised")
  /\ UNCHANGED <<notified, timer, slotVars, graceVars, terminal, revoked,
                 enforcing, shutting_down>>

(* The holder's signal reaches it only while it waits in the select. *)
Woken(holder) == IF holder # NoConn /\ phase[holder] = "polling" THEN {holder} ELSE {}

Attach(c) ==
  /\ phase[c] = "authorised"
  /\ Goes(c, "busy")
  /\ slot' = c /\ open_requests' = FALSE
  /\ notified' = notified \cup Woken(slot)
  /\ UNCHANGED <<timer, asserted, graceVars, terminal, revoked, enforcing,
                 shutting_down>>

-----------------------------------------------------------------------------
(* The session's loop.  Dropping the slot closes its input channel, which  *)
(* a version 2 session notices; the supersede arm is polled first.         *)

TakeFrame(c) ==
  /\ phase[c] = "polling" /\ c \notin notified
  /\ Goes(c, "busy")
  /\ UNCHANGED <<notified, timer, slotVars, graceVars, terminal, revoked,
                 enforcing, shutting_down>>

Poll(c) ==
  /\ phase[c] = "busy"
  /\ Goes(c, "polling")
  /\ UNCHANGED <<notified, timer, slotVars, graceVars, terminal, revoked,
                 enforcing, shutting_down>>

(* on_open, at the end of its database call. *)
OpenTerminal(c) ==
  /\ phase[c] = "busy" /\ terminal # "open"
  /\ terminal' = "open"
  /\ UNCHANGED <<connVars, slotVars, graceVars, revoked, enforcing, shutting_down>>

(* Mutant: whoever asserts it sets the capability of the slot. *)
SetOpenRequestsAny(c, on) ==
  /\ phase[c] = "busy" /\ c \in V2
  /\ asserted' = IF on THEN asserted \cup {c} ELSE asserted \ {c}
  /\ open_requests' = on
  /\ UNCHANGED <<connVars, slot, graceVars, terminal, revoked, enforcing, shutting_down>>

(* on_capabilities: only the slot's own connection can grant it. *)
SetOpenRequests(c, on) ==
  /\ phase[c] = "busy" /\ c \in V2
  /\ asserted' = IF on THEN asserted \cup {c} ELSE asserted \ {c}
  /\ open_requests' = IF slot = c THEN on ELSE open_requests
  /\ UNCHANGED <<connVars, slot, graceVars, terminal, revoked, enforcing, shutting_down>>

(* The arms of the select that end the session, in their order. *)
Superseded(c) ==
  /\ phase[c] = "polling" /\ c \in notified
  /\ Goes(c, "closing")
  /\ UNCHANGED <<notified, timer, slotVars, graceVars, terminal, revoked,
                 enforcing, shutting_down>>

SeesShutdown(c) ==
  /\ phase[c] = "polling" /\ c \notin notified /\ shutting_down
  /\ Goes(c, "closing")
  /\ UNCHANGED <<notified, timer, slotVars, graceVars, terminal, revoked,
                 enforcing, shutting_down>>

(* Mutant: only the slot's holder is checked again. *)
RecheckHolder(c) ==
  /\ phase[c] = "polling" /\ c \notin notified /\ revoked /\ slot = c
  /\ Goes(c, "closing")
  /\ UNCHANGED <<notified, timer, slotVars, graceVars, terminal, revoked,
                 enforcing, shutting_down>>

Recheck(c) ==
  /\ phase[c] = "polling" /\ c \notin notified /\ revoked
  /\ Goes(c, "closing")
  /\ UNCHANGED <<notified, timer, slotVars, graceVars, terminal, revoked,
                 enforcing, shutting_down>>

(* Mutant: the channel outlives a replacement. *)
InputGoneIfEmpty(c) ==
  /\ phase[c] = "polling" /\ c \notin notified /\ c \in V2 /\ slot = NoConn
  /\ Goes(c, "closing")
  /\ UNCHANGED <<notified, timer, slotVars, graceVars, terminal, revoked, enforcing,
                 shutting_down>>

InputGone(c) ==
  /\ phase[c] = "polling" /\ c \notin notified /\ c \in V2 /\ slot # c
  /\ Goes(c, "closing")
  /\ UNCHANGED <<notified, timer, slotVars, graceVars, terminal, revoked, enforcing,
                 shutting_down>>

(* The peer hangs up, the heartbeat expires, or a handler gives up. *)
HangUp(c) ==
  /\ Serving(c) /\ c \notin notified
  /\ Goes(c, "closing")
  /\ UNCHANGED <<notified, timer, slotVars, graceVars, terminal, revoked,
                 enforcing, shutting_down>>

-----------------------------------------------------------------------------
(* on_publisher_detached: up to the sleep, the check after it, the close. *)

(* Mutants: the slot is left as it is; it is emptied whoever holds it. *)
DetachKeeping(c) ==
  /\ phase[c] = "closing" /\ Goes(c, "gone")
  /\ UNCHANGED <<notified, timer, slotVars, graceVars, terminal, revoked,
                 enforcing, shutting_down>>
DetachAny(c) ==
  /\ phase[c] = "closing" /\ Goes(c, "grace")
  /\ slot' = NoConn /\ open_requests' = FALSE /\ outage' = 0
  /\ timer' = [timer EXCEPT ![c] = Grace]
  /\ UNCHANGED <<notified, asserted, early, unclosed, terminal, revoked, enforcing,
                 shutting_down>>

Detach(c) ==
  /\ phase[c] = "closing"
  /\ IF slot = c
     THEN /\ slot' = NoConn /\ open_requests' = FALSE /\ outage' = 0
          /\ IF shutting_down THEN Goes(c, "gone") /\ UNCHANGED timer
             ELSE Goes(c, "grace") /\ timer' = [timer EXCEPT ![c] = Grace]
     ELSE Goes(c, "gone") /\ UNCHANGED <<slot, open_requests, outage, timer>>
  /\ UNCHANGED <<notified, asserted, early, unclosed, terminal, revoked, enforcing,
                 shutting_down>>

(* Mutant: the grace ends and nothing follows. *)
GraceEndsIdle(c) ==
  /\ phase[c] = "grace" /\ timer[c] = 0
  /\ Goes(c, "gone")
  /\ UNCHANGED <<notified, timer, slotVars, graceVars, terminal, revoked,
                 enforcing, shutting_down>>

GraceEnds(c) ==
  /\ phase[c] = "grace" /\ timer[c] = 0
  /\ Goes(c, IF slot # NoConn \/ shutting_down THEN "gone" ELSE "expired")
  /\ early' = (early \/ (slot = NoConn /\ ~shutting_down /\ terminal = "open"
                         /\ outage < Grace))
  /\ UNCHANGED <<notified, timer, slotVars, outage, unclosed, terminal, revoked,
                 enforcing, shutting_down>>

Closed == IF terminal = "open" THEN "closed" ELSE terminal

CloseDeviceTerminals(c) ==
  /\ phase[c] = "expired"
  /\ Goes(c, "gone")
  /\ terminal' = Closed
  /\ UNCHANGED <<notified, timer, slotVars, graceVars, revoked, enforcing,
                 shutting_down>>

(* The list, the load or the close failed: it is logged and not tried      *)
(* again.                                                                  *)
GraceCloseFails(c) ==
  /\ phase[c] = "expired"
  /\ Goes(c, "gone")
  /\ unclosed' = unclosed \cup {c}
  /\ UNCHANGED <<notified, timer, slotVars, outage, early, terminal, revoked,
                 enforcing, shutting_down>>

-----------------------------------------------------------------------------
(* revoke and enforce_device_revocation *)

Revoke ==
  /\ MayRevoke /\ ~revoked
  /\ revoked' = TRUE /\ enforcing' = "slot"
  /\ UNCHANGED <<connVars, slotVars, graceVars, terminal, shutting_down>>

DropSlot ==
  /\ enforcing = "slot"
  /\ enforcing' = "list"
  /\ slot' = NoConn /\ open_requests' = FALSE
  /\ notified' = notified \cup Woken(slot)
  /\ UNCHANGED <<phase, timer, asserted, graceVars, terminal, revoked,
                 shutting_down>>

(* A close that fails is logged here too. *)
CloseRevoked ==
  /\ enforcing = "list"
  /\ enforcing' = "done"
  /\ terminal' \in {Closed, terminal}
  /\ UNCHANGED <<connVars, slotVars, graceVars, revoked, shutting_down>>

Shutdown ==
  /\ MayShutDown /\ ~shutting_down
  /\ shutting_down' = TRUE
  /\ UNCHANGED <<connVars, slotVars, graceVars, terminal, revoked, enforcing>>

(* Time passes for every timer at once. *)
Tick ==
  /\ outage < Grace \/ \E c \in Conns : timer[c] > 0
  /\ timer' = [c \in Conns |-> IF timer[c] > 0 THEN timer[c] - 1 ELSE 0]
  /\ outage' = IF outage < Grace THEN outage + 1 ELSE Grace
  /\ UNCHANGED <<phase, notified, slotVars, early, unclosed, terminal, revoked, enforcing,
                 shutting_down>>

-----------------------------------------------------------------------------
Next ==
  \/ \E c \in Conns :
       \/ Authorise(c) \/ Attach(c)
       \/ TakeFrame(c) \/ Poll(c) \/ OpenTerminal(c)
       \/ \E on \in BOOLEAN : SetOpenRequests(c, on)
       \/ Superseded(c) \/ SeesShutdown(c) \/ Recheck(c) \/ InputGone(c) \/ HangUp(c)
       \/ Detach(c) \/ GraceEnds(c) \/ CloseDeviceTerminals(c) \/ GraceCloseFails(c)
  \/ Revoke \/ DropSlot \/ CloseRevoked
  \/ Shutdown
  \/ Tick

Spec == Init /\ [][Next]_vars

(* Tasks that the runtime keeps running, and the clock.  The arms of the   *)
(* biased select that come before the incoming stream are taken whenever   *)
(* they are ready at a turn of the loop, however many frames arrive: they  *)
(* get strong fairness.  Poll says that every handler returns: a handler   *)
(* awaits the database and the connection's writer queue, which has no     *)
(* timeout, so it is assumed that the socket keeps taking what the writer  *)
(* task sends, or fails.  Nothing else is assumed of the peers, and no     *)
(* fairness makes a close succeed that could fail instead.                 *)
Fairness ==
  /\ WF_vars(DropSlot) /\ WF_vars(CloseRevoked) /\ WF_vars(Tick)
  /\ \A c \in Conns :
       /\ WF_vars(Attach(c)) /\ WF_vars(Poll(c)) /\ WF_vars(Superseded(c))
       /\ SF_vars(SeesShutdown(c)) /\ SF_vars(Recheck(c)) /\ SF_vars(InputGone(c))
       /\ WF_vars(Detach(c)) /\ WF_vars(GraceEnds(c)) /\ WF_vars(CloseDeviceTerminals(c))

FairSpec == Spec /\ Fairness

-----------------------------------------------------------------------------
(* Properties *)

(* LeaseTypeOK: every variable has its shape. *)
LeaseTypeOK ==
  /\ phase \in [Conns -> Phases]
  /\ notified \subseteq Conns /\ asserted \subseteq Conns
  /\ slot \in Conns \cup {NoConn} /\ open_requests \in BOOLEAN
  /\ timer \in [Conns -> 0 .. Grace] /\ outage \in 0 .. Grace /\ early \in BOOLEAN
  /\ unclosed \subseteq Conns
  /\ terminal \in {"none", "open", "closed"}
  /\ revoked \in BOOLEAN /\ enforcing \in {"no", "slot", "list", "done"}
  /\ shutting_down \in BOOLEAN

(* The slot is held by a connection whose task still runs, so its own      *)
(* detach will give it back: publisher_connected never stays true for a    *)
(* device nobody serves, which would suspend the reconnect grace for good. *)
SlotIsHeld == slot # NoConn => phase[slot] \in {"busy", "polling", "closing"}

(* The late detach of a superseded connection, or an assertion it still    *)
(* makes, does not speak for its replacement: the capability in the slot   *)
(* is one that the slot's own connection asserted.                         *)
CapabilityIsOwn == open_requests => slot \in asserted

(* A serving connection loses the slot to a newer one or to a revocation,  *)
(* never to the late detach of a connection it replaced: that would start  *)
(* a reconnect grace, and in the end close terminals, under a publisher    *)
(* that is connected.                                                      *)
ServingKeepsSlot ==
  [][\A c \in Conns : slot = c /\ Serving(c) /\ slot' = NoConn => revoked]_vars

(* Every connection of a revoked device ends, also one that was authorised *)
(* before the revocation and attached after it, and one that missed the    *)
(* signal (spec section 5.2).                                              *)
RevokedEnds == \A c \in Conns : revoked ~> ~Serving(c)

(* A version 2 connection that lost the slot ends, signal or not. *)
ReplacedEnds == \A c \in V2 : (Serving(c) /\ slot # c) ~> ~Serving(c)

(* An outage that outlasts the grace closes the terminal: it does not stay *)
(* open once the timer of the disconnect has run out, unless a publisher   *)
(* came back, the server is stopping, or the one attempt to close it       *)
(* failed, which on_publisher_detached only logs.                          *)
OutageCloses ==
  \A c \in Conns :
    phase[c] = "grace" ~>
      (terminal # "open" \/ slot # NoConn \/ shutting_down \/ c \in unclosed)

(* Three that do not hold, and are not checked; see the README.            *)

(* One controller: a connection that lost the slot stops serving. *)
OneController == \A c \in Conns : (Serving(c) /\ slot # c) ~> ~Serving(c)

(* Terminals stay open for a full grace period after a disconnect. *)
GraceIsFull == ~early

(* A revoked device has no open terminal in the end. *)
RevokedTerminalsClose == revoked ~> [](terminal # "open")
=============================================================================
