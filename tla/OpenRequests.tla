---------------------------- MODULE OpenRequests ----------------------------
(***************************************************************************)
(* A phone asks a machine for a terminal: POST /v1/devices/{id}/terminals  *)
(* (server/src/http/terminals.rs, http/idempotency.rs), the table of       *)
(* pending requests (relay/registry.rs), the publisher connection that     *)
(* carries the request and the answer (relay/publisher.rs, and the         *)
(* publisher's session.rs) and the daemon that starts a shell for it       *)
(* (publisher/src/daemon.rs host_for_request).                             *)
(*                                                                         *)
(* One device.  A call is one HTTP request; calls with the same key are    *)
(* retries.  The watch channel of a pending entry is named by the call     *)
(* that created it, a terminal by the shell that opened it, a publisher    *)
(* connection by its generation.                                           *)
(*                                                                         *)
(* Left out: label and geometry and their validation, the rate limits and  *)
(* the scope check, which refuse a call before it touches this state; the  *)
(* 24 h expiry of an idempotency record.                                   *)
(***************************************************************************)
EXTENDS Integers, Sequences, FiniteSets

CONSTANTS
  Calls,        \* HTTP requests
  Keys,         \* idempotency keys, hashed: the request ids
  Nobody,       \* no call
  None,         \* no answer yet, no record
  MaxPending,   \* limits.max_pending_open_requests_per_device
  Channel,      \* capacity of a connection's delivery channel
  Inbox,        \* capacity of the daemon's request channel
  MaxConns,     \* bound on publisher connections
  Shells        \* the shells that can be started

ASSUME CallsAssumption == Nobody \notin Calls
ASSUME OpenBoundsAssumption ==
  {MaxPending, Channel, Inbox, MaxConns} \subseteq Nat \ {0}

Refusals == {"declined", "failed", "unavailable"}

ASSUME OutcomesAssumption ==
  None \notin Refusals /\ Shells \cap (Refusals \cup {None, "refused"}) = {}

VARIABLES
  keyOf,        \* [Calls -> the key the call carries]
  call,         \* [Calls -> where the handler is]
  on,           \* [Calls -> the channel the call waits on; its own: owns_request]
  reply,        \* [Calls -> the terminal the caller is told, or "refused"]
  pending,      \* [Keys -> the channel of the entry]: pending_opens
  watch,        \* [Calls -> the value of the channel the call created]
  record,       \* [Keys -> the stored idempotency record]
  slot,         \* generation of the connection that holds the device, or 0
  capable,      \* the slot's open_requests
  conns,        \* connections so far
  detaching,    \* generation -> how far on_publisher_detached is
  link,         \* generation the publisher is connected on, or 0
  down,         \* deliveries on their way to the publisher
  up,           \* answers on their way to the relay
  inbox,        \* the daemon's request channel
  shell,        \* [Shells -> "none", "starting", "running", "refused" or "dead"]
  shellKey,     \* [Shells -> the request the shell was started for]
  sentOn,       \* [Shells -> the connection its open was last sent on]
  opened,       \* terminals the relay holds
  withdrawn     \* history: keys whose entry was failed or swept

callVars == <<keyOf, call, on, reply>>
tableVars == <<pending, watch, withdrawn>>
connVars == <<slot, capable, conns, detaching, link>>
wireVars == <<down, up>>
daemonVars == <<inbox, shell, shellKey, sentOn>>
vars == <<callVars, tableVars, record, connVars, wireVars, daemonVars, opened>>

(* A publisher is connected and has asserted the capability. *)
OpenInit ==
  /\ keyOf \in [Calls -> Keys]
  /\ call = [c \in Calls |-> "new"]
  /\ on = [c \in Calls |-> Nobody] /\ reply = [c \in Calls |-> None]
  /\ pending = [k \in Keys |-> Nobody] /\ watch = [c \in Calls |-> None]
  /\ withdrawn = {} /\ record = [k \in Keys |-> None]
  /\ slot = 1 /\ capable = TRUE /\ conns = 1 /\ link = 1
  /\ detaching = [g \in 1..MaxConns |-> "no"]
  /\ down = <<>> /\ up = <<>>
  /\ inbox = <<>>
  /\ shell = [s \in Shells |-> "none"]
  /\ shellKey = [s \in Shells |-> None] /\ sentOn = [s \in Shells |-> 0]
  /\ opened = {}

Goes(c, to) == call' = [call EXCEPT ![c] = to] /\ UNCHANGED keyOf
Answers(c, what) ==
  /\ Goes(c, "done") /\ on' = [on EXCEPT ![c] = Nobody]
  /\ reply' = [reply EXCEPT ![c] = what]

(* Mutant: the outcome goes to every pending entry of the device. *)
ResolveAny(k, outcome) ==
  watch' = [c \in Calls |-> IF c \in {pending[j] : j \in Keys} THEN outcome ELSE watch[c]]

(* The receivers of a channel: a handler holds its own until it returns. *)
Receivers(channel) == {c \in Calls : on[c] = channel}

(* resolve_open_request: the entry under this key, whoever created it.     *)
(* watch::Sender::send keeps no value when nobody holds a receiver.        *)
Resolve(k, outcome) ==
  watch' = IF pending[k] = Nobody \/ Receivers(pending[k]) = {} THEN watch
           ELSE [watch EXCEPT ![pending[k]] = outcome]

(* finish_open_request: the entry under this key, whoever created it. *)
Finish(k) == pending' = [pending EXCEPT ![k] = Nobody]

(* The handler's retire closure. *)
RetireEntry(c) == IF on[c] = c THEN Finish(keyOf[c]) ELSE UNCHANGED pending

(* fail_open_requests_for_device: every entry answered and removed. *)
FailAll ==
  /\ watch' = [c \in Calls |->
       IF c \in {pending[k] : k \in Keys} THEN "unavailable" ELSE watch[c]]
  /\ pending' = [k \in Keys |-> Nobody]
  /\ withdrawn' = withdrawn \cup {k \in Keys : pending[k] # Nobody}

-----------------------------------------------------------------------------
(* The handler.  It gives up the processor at its database calls and while *)
(* it waits.                                                               *)

(* idempotency::lookup. *)
Recorded(c) == record[keyOf[c]]

(* A stored record answers the call. *)
Lookup(c) ==
  /\ call[c] = "new"
  /\ IF Recorded(c) # None
     THEN Answers(c, Recorded(c))
     ELSE Goes(c, "looked") /\ UNCHANGED <<on, reply>>
  /\ UNCHANGED <<tableVars, record, connVars, wireVars, daemonVars, opened>>

(* The device row is read; publisher_supports_open_request. *)
Admit(c) ==
  /\ call[c] = "looked"
  /\ IF slot # 0 /\ capable
     THEN Goes(c, "admitted") /\ UNCHANGED <<on, reply>>
     ELSE Answers(c, "refused")
  /\ UNCHANGED <<tableVars, record, connVars, wireVars, daemonVars, opened>>

(* begin_open_request: join the entry, be refused, or create one. *)
Join(c) ==
  /\ call[c] = "admitted" /\ pending[keyOf[c]] # Nobody
  /\ Goes(c, "waiting") /\ on' = [on EXCEPT ![c] = pending[keyOf[c]]]
  /\ UNCHANGED <<reply, tableVars, record, connVars, wireVars, daemonVars, opened>>

OverLimit(c) ==
  /\ call[c] = "admitted" /\ pending[keyOf[c]] = Nobody
  /\ Cardinality({k \in Keys : pending[k] # Nobody}) >= MaxPending
  /\ Answers(c, "refused")
  /\ UNCHANGED <<tableVars, record, connVars, wireVars, daemonVars, opened>>

Begin(c) ==
  /\ call[c] = "admitted" /\ pending[keyOf[c]] = Nobody
  /\ Cardinality({k \in Keys : pending[k] # Nobody}) < MaxPending
  /\ Goes(c, "begun") /\ on' = [on EXCEPT ![c] = c]
  /\ pending' = [pending EXCEPT ![keyOf[c]] = c]
  /\ UNCHANGED <<reply, watch, withdrawn, record, connVars, wireVars, daemonVars, opened>>

(* deliver_to_publisher, whose channel may belong to a connection that is  *)
(* already lost.  A failed delivery resolves the entry and leaves it.      *)
Deliver(c) ==
  /\ call[c] = "begun"
  /\ IF slot # 0 /\ Len(down) < Channel
     THEN /\ down' = Append(down, keyOf[c])
          /\ Goes(c, "waiting") /\ UNCHANGED <<on, reply, watch>>
     ELSE /\ Answers(c, "refused")
          /\ Resolve(keyOf[c], "unavailable") /\ UNCHANGED down
  /\ UNCHANGED <<pending, withdrawn, record, connVars, up, daemonVars, opened>>

(* The wait ends with a refusal, which the owner of the entry retires.     *)
TakeRefusal(c) ==
  /\ call[c] = "waiting" /\ watch[on[c]] \in Refusals
  /\ Answers(c, "refused") /\ RetireEntry(c)
  /\ UNCHANGED <<watch, withdrawn, record, connVars, wireVars, daemonVars, opened>>

(* The wait ends with a terminal; reply holds it while the handler goes on. *)
TakeOpened(c) ==
  /\ call[c] = "waiting" /\ watch[on[c]] \in Shells
  /\ Goes(c, "opened") /\ reply' = [reply EXCEPT ![c] = watch[on[c]]]
  /\ UNCHANGED <<on, tableVars, record, connVars, wireVars, daemonVars, opened>>

(* Mutant: a call that gives up takes its entry with it. *)
GiveUpAndFinish(c) ==
  /\ call[c] = "waiting" /\ watch[on[c]] = None
  /\ Answers(c, "refused") /\ RetireEntry(c)
  /\ UNCHANGED <<watch, withdrawn, record, connVars, wireVars, daemonVars, opened>>

(* The timeout, or the channel closed without a value: the entry stays. *)
GiveUp(c) ==
  /\ call[c] = "waiting" /\ watch[on[c]] = None
  /\ Answers(c, "refused")
  /\ UNCHANGED <<tableVars, record, connVars, wireVars, daemonVars, opened>>

(* put_idempotent: ON CONFLICT DO NOTHING. *)
PutIdempotent(c) ==
  record' = [record EXCEPT ![keyOf[c]] = IF @ = None THEN reply[c] ELSE @]

(* Mutant: the entry is retired before the record is stored. *)
RetireThenStore(c) ==
  /\ call[c] = "opened"
  /\ Goes(c, "stored") /\ RetireEntry(c)
  /\ UNCHANGED <<on, reply, watch, withdrawn, record, connVars, wireVars,
                 daemonVars, opened>>

(* idempotency::store, once the terminal's row has been read. *)
Store(c) ==
  /\ call[c] = "opened"
  /\ Goes(c, "stored") /\ PutIdempotent(c)
  /\ UNCHANGED <<on, reply, tableVars, connVars, wireVars, daemonVars, opened>>

(* Ordered: the record is durable before the pending entry goes. *)
Respond(c) ==
  /\ call[c] = "stored"
  /\ Answers(c, reply[c]) /\ RetireEntry(c)
  /\ UNCHANGED <<watch, withdrawn, record, connVars, wireVars,
                 daemonVars, opened>>

(* The client goes away and the handler is dropped where it waits, or one  *)
(* of its database calls fails: nothing is undone.                         *)
Abandon(c) ==
  /\ call[c] \in {"waiting", "opened", "stored"}
  /\ Answers(c, "refused")
  /\ UNCHANGED <<tableVars, record, connVars, wireVars, daemonVars, opened>>

(* Mutant: only an entry that was never answered is swept. *)
SweepUnanswered(k) ==
  /\ pending[k] # Nobody /\ call[pending[k]] = "done" /\ watch[pending[k]] = None
  /\ Finish(k) /\ withdrawn' = withdrawn \cup {k}
  /\ UNCHANGED <<callVars, watch, record, connVars, wireVars, daemonVars, opened>>

(* sweep_pending_opens: an entry is swept after 60 s, its creator's wait   *)
(* is over after 30 s.                                                     *)
Sweep(k) ==
  /\ pending[k] # Nobody /\ call[pending[k]] = "done"
  /\ Finish(k) /\ withdrawn' = withdrawn \cup {k}
  /\ UNCHANGED <<callVars, watch, record, connVars, wireVars, daemonVars, opened>>

-----------------------------------------------------------------------------
(* The publisher's connection. *)

(* attach_publisher: the slot changes hands, and a holder's requests fail. *)
(* What the connection before still carried is lost.                       *)
Connect ==
  /\ link = 0 /\ conns < MaxConns
  /\ conns' = conns + 1 /\ link' = conns + 1
  /\ slot' = conns + 1 /\ capable' = FALSE
  /\ down' = <<>> /\ up' = <<>>
  /\ IF slot # 0 THEN FailAll ELSE UNCHANGED tableVars
  /\ UNCHANGED <<callVars, record, detaching, daemonVars, opened>>

(* on_capabilities, in the connection's own name. *)
AssertCapability ==
  /\ link # 0 /\ ~capable
  /\ capable' = TRUE
  /\ UNCHANGED <<callVars, tableVars, record, slot, conns, detaching, link,
                 wireVars, daemonVars, opened>>

(* The connection breaks; the relay finds out when its session ends. *)
Disconnect ==
  /\ link # 0
  /\ link' = 0 /\ detaching' = [detaching EXCEPT ![link] = "fail"]
  /\ down' = <<>> /\ up' = <<>>
  /\ UNCHANGED <<callVars, tableVars, record, slot, capable, conns, daemonVars, opened>>

(* on_publisher_detached: the requests are failed first, whoever holds the *)
(* slot, and the generation is compared afterwards.                        *)
DetachFails(g) ==
  /\ detaching[g] = "fail"
  /\ detaching' = [detaching EXCEPT ![g] = "slot"]
  /\ FailAll
  /\ UNCHANGED <<callVars, record, slot, capable, conns, link, wireVars, daemonVars, opened>>

DetachSlot(g) ==
  /\ detaching[g] = "slot"
  /\ detaching' = [detaching EXCEPT ![g] = "no"]
  /\ IF slot = g
     THEN slot' = 0 /\ capable' = FALSE /\ down' = <<>>
     ELSE UNCHANGED <<slot, capable, down>>
  /\ UNCHANGED <<callVars, tableVars, record, conns, link, up, daemonVars, opened>>

-----------------------------------------------------------------------------
(* The publisher: its session, the daemon, the shells. *)

Declines(k) == up' = IF link = 0 THEN up ELSE Append(up, <<"decline", k>>)

(* on_frame: the request is passed on, or declined as busy. *)
ReceiveRequest ==
  /\ link # 0 /\ down # <<>>
  /\ down' = Tail(down)
  /\ IF Len(inbox) < Inbox
     THEN inbox' = Append(inbox, Head(down)) /\ UNCHANGED up
     ELSE Declines(Head(down)) /\ UNCHANGED inbox
  /\ UNCHANGED <<callVars, tableVars, record, connVars, shell,
                 shellKey, sentOn, opened>>

(* host_for_request declines: over the burst limit or the terminal limit,  *)
(* whose counts are not kept here, or the spawn fails.                     *)
HostDeclines ==
  /\ inbox # <<>>
  /\ inbox' = Tail(inbox) /\ Declines(Head(inbox))
  /\ UNCHANGED <<callVars, tableVars, record, connVars, down, shell, shellKey,
                 sentOn, opened>>

(* spawn_hosted_shell starts a child, once for each request it is given. *)
HostSpawns ==
  /\ inbox # <<>> /\ \E s \in Shells : shell[s] = "none"
  /\ inbox' = Tail(inbox)
  /\ LET s == CHOOSE s \in Shells : shell[s] = "none"
     IN /\ shell' = [shell EXCEPT ![s] = "starting"]
        /\ shellKey' = [shellKey EXCEPT ![s] = Head(inbox)]
  /\ UNCHANGED <<callVars, tableVars, record, connVars, wireVars, sentOn, opened>>

(* The child attaches to the daemon under its own local_ref, or dies. *)
ShellStarts(s, to) ==
  /\ shell[s] = "starting" /\ to \in {"running", "dead"}
  /\ shell' = [shell EXCEPT ![s] = to]
  /\ UNCHANGED <<callVars, tableVars, record, connVars, wireVars, inbox, shellKey, sentOn, opened>>

(* send_open: once on every connection, in_reply_to included. *)
SendOpen(s) ==
  /\ shell[s] = "running" /\ link # 0 /\ sentOn[s] # link
  /\ sentOn' = [sentOn EXCEPT ![s] = link]
  /\ up' = Append(up, <<"open", s>>)
  /\ UNCHANGED <<callVars, tableVars, record, connVars, down, inbox, shell, shellKey, opened>>

(* on_open, with and without the relay's consent; on_open_declined. *)
RelayOpens ==
  /\ up # <<>> /\ up[1][1] = "open"
  /\ up' = Tail(up)
  /\ opened' = opened \cup {up[1][2]}
  /\ Resolve(shellKey[up[1][2]], up[1][2])
  /\ UNCHANGED <<callVars, pending, withdrawn, record, connVars, down, daemonVars>>

RelayRefuses ==
  /\ up # <<>> /\ up[1][1] = "open" /\ up[1][2] \notin opened
  /\ up' = Tail(up)
  /\ shell' = [shell EXCEPT ![up[1][2]] = "refused"]
  /\ Resolve(shellKey[up[1][2]], "failed")
  /\ UNCHANGED <<callVars, pending, withdrawn, record, connVars, down, inbox,
                 shellKey, sentOn, opened>>

RelayHearsDecline ==
  /\ up # <<>> /\ up[1][1] = "decline"
  /\ up' = Tail(up)
  /\ Resolve(up[1][2], "declined")
  /\ UNCHANGED <<callVars, pending, withdrawn, record, connVars, down, daemonVars, opened>>

-----------------------------------------------------------------------------
CallStep(c) ==
  \/ Lookup(c) \/ Admit(c) \/ Join(c) \/ OverLimit(c) \/ Begin(c) \/ Deliver(c)
  \/ TakeRefusal(c) \/ TakeOpened(c) \/ GiveUp(c) \/ Store(c) \/ Respond(c)

Next ==
  \/ \E c \in Calls : CallStep(c) \/ Abandon(c)
  \/ \E k \in Keys : Sweep(k)
  \/ Connect \/ AssertCapability \/ Disconnect
  \/ \E g \in 1..MaxConns : DetachFails(g) \/ DetachSlot(g)
  \/ ReceiveRequest \/ HostDeclines \/ HostSpawns
  \/ \E s \in Shells : SendOpen(s) \/ \E to \in {"running", "dead"} : ShellStarts(s, to)
  \/ RelayOpens \/ RelayRefuses \/ RelayHearsDecline

OpenSpec == OpenInit /\ [][Next]_vars

(* A handler runs until it answers, its wait is bounded by its timeout,    *)
(* and the maintenance task sweeps every 30 s.                             *)
OpenFairSpec ==
  /\ OpenSpec
  /\ \A c \in Calls : WF_vars(CallStep(c))
  /\ \A k \in Keys : WF_vars(Sweep(k))

-----------------------------------------------------------------------------
TerminalsFor(k) == {s \in opened : shellKey[s] = k}

(* A terminal opened for a key stays findable for a retry of that key: in  *)
(* the table, until it is in the record.  (terminals.rs: "a retry of this  *)
(* key is never left with neither to find".)  A publisher that went away,  *)
(* and the sweep, withdraw a request whose shell may still be starting.    *)
NeverNeither ==
  \A k \in Keys \ withdrawn :
    TerminalsFor(k) # {} => record[k] # None \/ pending[k] # Nobody

(* A call that waits can still be answered, or has been: its entry is in   *)
(* the table, or its channel has a value.  No other call's timeout, answer *)
(* or retirement takes the entry away.                                     *)
NoDanglingWaiter ==
  \A c \in Calls : call[c] = "waiting" /\ keyOf[c] \notin withdrawn =>
    pending[keyOf[c]] = on[c] \/ watch[on[c]] # None

(* What a caller is told, and what is stored for its retries, is a         *)
(* terminal the relay opened for that very key.                            *)
AnswerIsGenuine ==
  /\ \A c \in Calls : reply[c] \in Shells => reply[c] \in TerminalsFor(keyOf[c])
  /\ \A k \in Keys : record[k] # None => record[k] \in TerminalsFor(k)

(* The table never leaks an entry: one that nobody retires - its caller    *)
(* gave up, or its delivery failed - is swept.                             *)
TableDrains ==
  \A k \in Keys : pending[k] # Nobody ~> pending[k] = Nobody

(* A retry that joins a request whose terminal is already open finds the   *)
(* answer.  It does not: an answer that arrives after the last caller gave *)
(* up is not kept.  (terminals.rs, on a timeout: "the answer may still     *)
(* arrive, and a retry under the same key must be able to join it".)       *)
LateAnswerIsFound ==
  \A c \in Calls :
    /\ call[c] = "waiting" /\ on[c] # c /\ keyOf[c] \notin withdrawn
    /\ TerminalsFor(keyOf[c]) # {}
    => watch[on[c]] # None

(* Retries of a key open one terminal, unless the publisher went away or   *)
(* the sweep came while one was in flight.  (INTEGRATION.md: "A retry must *)
(* not start a second shell".)  It does not hold: a retry may look for the *)
(* record before it is stored, and for the entry after it is retired.      *)
NoSecondShell ==
  \A k \in Keys \ withdrawn : Cardinality(TerminalsFor(k)) <= 1
=============================================================================
