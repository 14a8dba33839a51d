------------------------------ MODULE OutputLog ------------------------------
(***************************************************************************)
(* What the relay promises about one terminal's output, with no ring, no   *)
(* checkpoint and no database in sight: a log that grows while the         *)
(* terminal is open, a durable prefix of it that a crash cannot touch,     *)
(* acknowledgements that stay within that prefix, and a close that happens *)
(* only once the whole log is durable.                                     *)
(*                                                                         *)
(* RelayTerminal implements this specification; Publication uses it for    *)
(* the relay's end of the stream.                                          *)
(***************************************************************************)
EXTENDS Integers, Sequences

CONSTANT Payloads   \* what may be appended in one step

VARIABLES
  log,       \* the accepted bytes
  durable,   \* how many of them survive a crash
  acked,     \* the highest durable offset that was acknowledged
  state      \* "open", "closing" or "closed"

logVars == <<log, durable, acked, state>>

Init ==
  /\ log = << >>
  /\ durable = 0
  /\ acked = 0
  /\ state = "open"

Accept(payload) ==
  /\ state = "open"
  /\ log' = log \o payload
  /\ UNCHANGED <<durable, acked, state>>

MakeDurable(n) ==
  /\ durable <= n /\ n <= Len(log)
  /\ durable' = n
  /\ UNCHANGED <<log, acked, state>>

Acknowledge ==
  /\ acked' \in acked .. durable
  /\ UNCHANGED <<log, durable, state>>

BeginClose ==
  /\ state = "open"
  /\ state' = "closing"
  /\ UNCHANGED <<log, durable, acked>>

Close ==
  /\ state = "closing"
  /\ state' = "closed"
  /\ durable' = Len(log)
  /\ UNCHANGED <<log, acked>>

(* What was not durable is gone, an unfinished close included. *)
Crash ==
  /\ log' = SubSeq(log, 1, durable)
  /\ state' = IF state = "closed" THEN "closed" ELSE "open"
  /\ UNCHANGED <<durable, acked>>

Next ==
  \/ \E payload \in Payloads : Accept(payload)
  \/ \E n \in durable .. Len(log) : MakeDurable(n)
  \/ Acknowledge
  \/ BeginClose
  \/ Close
  \/ Crash

Spec == Init /\ [][Next]_logVars
=============================================================================
