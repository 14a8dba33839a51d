-------------------------------- MODULE Ring --------------------------------
(***************************************************************************)
(* The bounded in-memory replay buffer of one terminal                     *)
(* (server/src/relay/ring.rs): a contiguous suffix of the output stream.   *)
(*                                                                         *)
(* A ring is a record.  Its deque of bytes is a function whose domain is   *)
(* the interval of stream offsets it retains, so a byte that ends up under *)
(* the wrong offset is a different ring.  Payloads, as they arrive from    *)
(* the network, are sequences.                                             *)
(***************************************************************************)
EXTENDS Integers, Sequences

MaxOf(a, b) == IF a >= b THEN a ELSE b
MinOf(a, b) == IF a <= b THEN a ELSE b

(* u64::saturating_sub *)
SaturatingSub(a, b) == IF a >= b THEN a - b ELSE 0

RetainedLen(ring) == ring.end - ring.earliest

(* A contiguous window no longer than its capacity, and never empty once   *)
(* the stream has begun.                                                   *)
IsRing(ring) ==
  /\ ring \in [earliest : Nat, end : Nat, capacity : Nat \ {0}, bytes : {ring.bytes}]
  /\ ring.earliest <= ring.end /\ RetainedLen(ring) <= ring.capacity
  /\ ring.end > 0 => ring.earliest < ring.end
  /\ DOMAIN ring.bytes = ring.earliest .. ring.end - 1

(* Mutant: the newest bytes are drained instead. *)
DropNewest(ring, n) ==
  [ring EXCEPT !.earliest = ring.earliest + n,
               !.bytes    = [o \in ring.earliest + n .. ring.end - 1
                               |-> ring.bytes[o - n]]]

(* VecDeque::drain(..n): the n oldest bytes go. *)
DropOldest(ring, n) ==
  [ring EXCEPT !.earliest = ring.earliest + n,
               !.bytes    = [o \in ring.earliest + n .. ring.end - 1
                               |-> ring.bytes[o]]]

(* Ring::new followed by the copy of Ring::from_retained.  retained is the *)
(* stored suffix, indexed by the offsets earliest .. end - 1.              *)
FromRetained(capacity, earliest, end, retained) ==
  LET ring == [earliest |-> earliest, end |-> end,
               capacity |-> MaxOf(capacity, 1), bytes |-> retained]
  IN  DropOldest(ring, SaturatingSub(RetainedLen(ring), ring.capacity))

NewRing(capacity, earliest) ==
  FromRetained(capacity, earliest, earliest, [o \in earliest .. earliest - 1 |-> 0])

SetCapacity(ring, capacity) ==
  LET cap == MaxOf(capacity, 1)
  IN  IF cap = ring.capacity THEN ring
      ELSE DropOldest([ring EXCEPT !.capacity = cap],
                      SaturatingSub(RetainedLen(ring), cap))

(* Ring::append.  A payload at least as long as the window replaces it by  *)
(* the payload's own tail; otherwise the overflow is drained first.        *)
AppendBytes(ring, payload) ==
  LET newEnd == ring.end + Len(payload)
      kept   == DropOldest(ring, SaturatingSub(RetainedLen(ring) + Len(payload),
                                               ring.capacity))
  IN  IF payload = << >> THEN ring
      ELSE IF Len(payload) >= ring.capacity
      THEN [ring EXCEPT !.earliest = newEnd - ring.capacity,
                        !.end      = newEnd,
                        !.bytes    = [o \in newEnd - ring.capacity .. newEnd - 1
                                        |-> payload[o - ring.end + 1]]]
      ELSE [kept EXCEPT !.end   = newEnd,
                        !.bytes = [o \in kept.earliest .. newEnd - 1
                                     |-> IF o < ring.end
                                         THEN ring.bytes[o]
                                         ELSE payload[o - ring.end + 1]]]

(* Ring::read_range returns Some exactly on the retained window. *)
Readable(ring, from, to) ==
  from <= to /\ ring.earliest <= from /\ to <= ring.end

(* read_range(..).unwrap_or_default() *)
ReadRange(ring, from, to) ==
  IF Readable(ring, from, to) THEN [o \in from .. to - 1 |-> ring.bytes[o]]
                              ELSE [o \in from .. from - 1 |-> 0]
=============================================================================
