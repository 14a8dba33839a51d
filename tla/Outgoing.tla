------------------------------ MODULE Outgoing ------------------------------
(***************************************************************************)
(* The sending half of one terminal's stream, as pure operators            *)
(* (publisher/src/stream.rs): the bytes retained until the relay           *)
(* acknowledges them durable, and the resynchronisation with the relay's   *)
(* authoritative offset.                                                   *)
(*                                                                         *)
(* A stream is a record: bytes[i] is the retained byte at offset           *)
(* start + i - 1.  The answer of attached and mismatch is a record too:    *)
(* the stream afterwards, and what to do next ("nothing", "retransmit"     *)
(* from offset at, or "unrecoverable").                                    *)
(***************************************************************************)
EXTENDS Integers, Sequences

CONSTANT Window    \* max_unacked_output_bytes as the relay advertised it

ASSUME WindowAssumption == Window \in Nat \ {0}

NoTarget == -1

NewStream == [start |-> 0, bytes |-> << >>, next |-> 0, positioned |-> FALSE,
              target |-> NoTarget]

EndOf(s) == s.start + Len(s.bytes)
Unacked(s) == IF s.next >= s.start THEN s.next - s.start ELSE 0
(* Mutant: the window must have room for one more. *)
MaySendBelow(s) == s.positioned /\ Unacked(s) + 1 < Window
MaySend(s) == s.positioned /\ Unacked(s) < Window

(* Retained::from: what is retained from offset on, if it is. *)
Holds(s, offset) == s.start <= offset /\ offset <= EndOf(s)
(* Mutant: everything retained, wherever it is resumed from. *)
FromStart(s, offset) == s.bytes
From(s, offset) == SubSeq(s.bytes, offset - s.start + 1, Len(s.bytes))

(* Retained::release_through *)
Acknowledged(s, durable) ==
  LET drop == IF durable <= s.start THEN 0
              ELSE IF durable - s.start <= Len(s.bytes) THEN durable - s.start
              ELSE Len(s.bytes)
  IN  [s EXCEPT !.start = s.start + drop,
                !.bytes = SubSeq(s.bytes, drop + 1, Len(s.bytes))]

(* Mutant: what was sent is forgotten with the connection. *)
DetachedEmpty(s) == [s EXCEPT !.positioned = FALSE, !.target = NoTarget,
                              !.start = EndOf(s), !.bytes = << >>]
Detached(s) == [s EXCEPT !.positioned = FALSE, !.target = NoTarget]

(* Outgoing::send, when positioned: the chunk goes out at s.next. *)
Sent(s, chunk) == [s EXCEPT !.bytes = s.bytes \o chunk, !.next = s.next + Len(chunk)]

Answer(s, todo, at) == [stream |-> s, todo |-> todo, at |-> at]

Resumed(s, offset) ==
  Answer([s EXCEPT !.next = EndOf(s)],
         IF From(s, offset) = << >> THEN "nothing" ELSE "retransmit", offset)

Attached(s, offset) ==
  LET fresh  == s.bytes = << >> /\ s.start = 0 /\ s.next = 0
      placed == [s EXCEPT !.positioned = TRUE, !.target = NoTarget,
                          !.start = IF fresh THEN offset ELSE s.start]
  IN  CASE offset < placed.start -> Answer(placed, "unrecoverable", offset)
        [] Holds(placed, offset) -> Resumed(placed, offset)
        \* Past the end: an earlier process published under this local_ref.
        [] OTHER -> Answer([placed EXCEPT !.start = offset, !.bytes = << >>,
                                          !.next = offset], "nothing", offset)

(* A refusal that repeats the offset already being resynchronised to is an *)
(* echo of a frame that was in flight, and is ignored.                     *)
Mismatched(s, offset) ==
  LET aimed == [s EXCEPT !.target = offset]
  IN  CASE s.target = offset     -> Answer(s, "nothing", offset)
        [] s.target # offset /\ Holds(s, offset) -> Resumed(aimed, offset)
        [] OTHER                 -> Answer(aimed, "unrecoverable", offset)
=============================================================================
