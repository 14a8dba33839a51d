------------------------ MODULE RelayTerminalProofs ------------------------
(***************************************************************************)
(* Proofs about RelayTerminal, for every number of sessions, subscribers   *)
(* and loaders, every payload, capacity, limit and bound.                  *)
(*                                                                         *)
(* The argument: a handle, however stale the row it was loaded by, stands  *)
(* at or past the stored offset, so a checkpoint taken from it never moves *)
(* that offset back; and what a handle calls durable was stored before.    *)
(***************************************************************************)
EXTENDS RelayTerminal, SequenceTheorems, TLAPS

-----------------------------------------------------------------------------
(* Every operation of the replay ring keeps it a window: contiguous, no    *)
(* longer than its capacity, and not empty once the stream has begun.      *)

(* VecDeque::drain as Ring uses it: dropping some, but not all, of a       *)
(* window's oldest bytes leaves a window that ends where it did.           *)
LEMMA DropOldestWindow ==
  ASSUME NEW w, NEW n \in Nat,
         w \in [earliest : Nat, end : Nat, capacity : Nat \ {0},
                  bytes : {w.bytes}],
         w.earliest + n <= w.end,
         w.end - (w.earliest + n) <= w.capacity,
         w.end > 0 => w.earliest + n < w.end
  PROVE  /\ IsRing(DropOldest(w, n))
         /\ DropOldest(w, n).end = w.end
         /\ DropOldest(w, n).capacity = w.capacity
         /\ DropOldest(w, n).earliest = w.earliest + n
<1> DEFINE bytes == [o \in w.earliest + n .. w.end - 1 |-> w.bytes[o]]
           kept  == [w EXCEPT !.earliest = w.earliest + n, !.bytes = bytes]
<1>1. DOMAIN bytes = w.earliest + n .. w.end - 1
  OBVIOUS
<1> HIDE DEF bytes
<1>2. /\ kept \in [earliest : Nat, end : Nat, capacity : Nat \ {0}, bytes : {bytes}]
      /\ kept.earliest = w.earliest + n /\ kept.end = w.end
      /\ kept.capacity = w.capacity /\ kept.bytes = bytes
  <2>1. w.earliest + n \in Nat
    OBVIOUS
  <2> QED
    BY <2>1
<1>3. DropOldest(w, n) = kept
  BY DEF DropOldest, bytes
<1> HIDE DEF kept
<1>4. IsRing(kept)
  BY <1>1, <1>2 DEF IsRing, RetainedLen
<1> QED
  BY <1>2, <1>3, <1>4

(* Ring::from_retained: whatever suffix is stored, as long as it is not    *)
(* empty once the stream has begun, loads into a window with its end.      *)
LEMMA FromRetainedWindow ==
  ASSUME NEW capacity \in Nat, NEW earliest \in Nat, NEW end \in Nat, NEW retained,
         earliest <= end, end > 0 => earliest < end
  PROVE  /\ IsRing(FromRetained(capacity, earliest, end, retained))
         /\ FromRetained(capacity, earliest, end, retained).end = end
<1> DEFINE w == [earliest |-> earliest, end |-> end,
                 capacity |-> MaxOf(capacity, 1), bytes |-> retained]
           n == SaturatingSub(RetainedLen(w), w.capacity)
<1>1. /\ w.earliest = earliest /\ w.end = end
      /\ w.capacity = MaxOf(capacity, 1) /\ w.bytes = retained
  OBVIOUS
<1>2. w.capacity \in Nat \ {0}
  BY DEF MaxOf
<1>3. /\ n \in Nat
      /\ earliest + n <= end
      /\ end - (earliest + n) <= w.capacity
      /\ end > 0 => earliest + n < end
  BY <1>2 DEF SaturatingSub, RetainedLen
<1> HIDE DEF n
<1>4. /\ IsRing(DropOldest(w, n))
      /\ DropOldest(w, n).end = end
  <2> HIDE DEF w
  <2> QED BY <1>1, <1>2, <1>3, DropOldestWindow DEF w
<1> QED
  BY <1>4 DEF FromRetained, n

(* Ring::new. *)
LEMMA NewRingWindow == IsRing(NewRing(1, 0)) /\ NewRing(1, 0).end = 0
  BY FromRetainedWindow DEF NewRing

(* Ring::set_capacity trims from the oldest end only. *)
LEMMA SetCapacityWindow ==
  ASSUME NEW w, IsRing(w), NEW capacity \in Nat
  PROVE  /\ IsRing(SetCapacity(w, capacity))
         /\ SetCapacity(w, capacity).end = w.end
<1> DEFINE cap == MaxOf(capacity, 1)
           wide == [w EXCEPT !.capacity = cap]
           n    == SaturatingSub(RetainedLen(w), cap)
<1>1. cap \in Nat \ {0}
  BY DEF MaxOf
<1>2. CASE cap = w.capacity
  BY <1>2 DEF SetCapacity
<1>3. CASE cap # w.capacity
  <2>1. SetCapacity(w, capacity) = DropOldest(wide, n)
    BY <1>3 DEF SetCapacity
  <2> HIDE DEF cap
  <2>2. /\ wide \in [earliest : Nat, end : Nat, capacity : Nat \ {0},
                     bytes : {wide.bytes}]
        /\ wide.earliest = w.earliest /\ wide.end = w.end /\ wide.capacity = cap
    BY <1>1 DEF IsRing
  <2>3. /\ n \in Nat
        /\ w.earliest + n <= w.end
        /\ w.end - (w.earliest + n) <= cap
        /\ w.end > 0 => w.earliest + n < w.end
    BY <1>1 DEF IsRing, SaturatingSub, RetainedLen
  <2> HIDE DEF wide, n
  <2> QED
    BY <2>1, <2>2, <2>3, DropOldestWindow
<1> QED
  BY <1>2, <1>3

(* The overflow that Ring::append drains is no more than the window holds  *)
(* and leaves room for the payload.                                        *)
LEMMA OverflowFits ==
  ASSUME NEW earliest \in Nat, NEW end \in Nat, NEW capacity \in Nat, NEW len \in Nat,
         earliest <= end, end - earliest <= capacity, len < capacity
  PROVE  LET n == SaturatingSub((end - earliest) + len, capacity)
         IN  /\ n \in Nat
             /\ earliest + n <= end
             /\ (end + len) - (earliest + n) <= capacity
  BY DEF SaturatingSub

(* Ring::append: the window afterwards ends past the payload, whether the  *)
(* payload fits, overflows the window or replaces it altogether.           *)
LEMMA AppendBytesWindow ==
  ASSUME NEW Value, NEW w, IsRing(w), NEW payload \in Seq(Value)
  PROVE  /\ IsRing(AppendBytes(w, payload))
         /\ AppendBytes(w, payload).end = w.end + Len(payload)
<1> DEFINE newEnd == w.end + Len(payload)
           n      == SaturatingSub(RetainedLen(w) + Len(payload), w.capacity)
           kept   == DropOldest(w, n)
<1>1. newEnd \in Nat /\ Len(payload) \in Nat
  BY DEF IsRing
<1>2. CASE payload = << >>
  BY <1>2 DEF AppendBytes, IsRing
<1>3. CASE payload # << >> /\ Len(payload) >= w.capacity
  <2> DEFINE tail == [o \in newEnd - w.capacity .. newEnd - 1
                        |-> payload[o - w.end + 1]]
             res  == [w EXCEPT !.earliest = newEnd - w.capacity,
                                  !.end = newEnd, !.bytes = tail]
  <2>1. AppendBytes(w, payload) = res
    BY <1>3 DEF AppendBytes
  <2>2. DOMAIN tail = newEnd - w.capacity .. newEnd - 1
    OBVIOUS
  <2>3. newEnd - w.capacity \in Nat /\ newEnd > 0
    BY <1>1, <1>3 DEF IsRing
  <2> HIDE DEF tail, newEnd
  <2>4. /\ res \in [earliest : Nat, end : Nat, capacity : Nat \ {0}, bytes : {tail}]
        /\ res.earliest = newEnd - w.capacity /\ res.end = newEnd
        /\ res.capacity = w.capacity /\ res.bytes = tail
    BY <1>1, <2>3 DEF IsRing
  <2> HIDE DEF res
  <2>5. IsRing(res)
    BY <1>1, <2>2, <2>3, <2>4 DEF IsRing, RetainedLen
  <2> QED
    BY <2>1, <2>4, <2>5 DEF newEnd
<1>4. CASE payload # << >> /\ ~(Len(payload) >= w.capacity)
  <2> DEFINE joined == [o \in kept.earliest .. newEnd - 1
                          |-> IF o < w.end THEN w.bytes[o]
                                              ELSE payload[o - w.end + 1]]
             res == [kept EXCEPT !.end = newEnd, !.bytes = joined]
  <2>1. /\ n \in Nat
        /\ w.earliest + n <= w.end
        /\ newEnd - (w.earliest + n) <= w.capacity
    <3>1. /\ w.earliest \in Nat /\ w.end \in Nat /\ w.capacity \in Nat
          /\ w.earliest <= w.end
          /\ w.end - w.earliest <= w.capacity
      BY DEF IsRing, RetainedLen
    <3>2. Len(payload) < w.capacity
      BY <1>1, <1>4, <3>1
    <3>3. LET m == SaturatingSub((w.end - w.earliest) + Len(payload), w.capacity)
          IN  /\ m \in Nat
              /\ w.earliest + m <= w.end
              /\ (w.end + Len(payload)) - (w.earliest + m) <= w.capacity
      BY <1>1, <3>1, <3>2, OverflowFits
    <3> QED
      BY <3>3, Zenon DEF RetainedLen
  <2>2. AppendBytes(w, payload) = res
    BY <1>4 DEF AppendBytes
  <2>3. DOMAIN joined = kept.earliest .. newEnd - 1
    OBVIOUS
  <2>4. newEnd > 0 /\ w.earliest + n < newEnd
    <3>1. Len(payload) > 0
      BY <1>4
    <3>2. w.earliest \in Nat /\ w.end \in Nat
      BY DEF IsRing
    <3> QED
      BY <1>1, <2>1, <3>1, <3>2
  <2> HIDE DEF joined, newEnd, n
  <2>5. /\ kept \in [earliest : Nat, end : Nat, capacity : Nat \ {0},
                     bytes : {kept.bytes}]
        /\ kept.earliest = w.earliest + n /\ kept.capacity = w.capacity
    <3> DEFINE bytes == [o \in w.earliest + n .. w.end - 1 |-> w.bytes[o]]
    <3>1. kept = [w EXCEPT !.earliest = w.earliest + n, !.bytes = bytes]
      BY DEF DropOldest
    <3>2. w \in [earliest : Nat, end : Nat, capacity : Nat \ {0}, bytes : {w.bytes}]
      BY DEF IsRing
    <3>3. w.earliest + n \in Nat
      BY <2>1, <3>2
    <3> HIDE DEF bytes, kept
    <3> QED
      BY <3>1, <3>2, <3>3
  <2> HIDE DEF kept
  <2>6. /\ res \in [earliest : Nat, end : Nat, capacity : Nat \ {0}, bytes : {joined}]
        /\ res.earliest = kept.earliest /\ res.end = newEnd
        /\ res.capacity = kept.capacity /\ res.bytes = joined
    BY <1>1, <2>5
  <2> HIDE DEF res
  <2>7. IsRing(res)
    BY <1>1, <2>1, <2>3, <2>4, <2>5, <2>6 DEF IsRing, RetainedLen
  <2> QED
    BY <2>2, <2>6, <2>7 DEF newEnd
<1> QED
  BY <1>2, <1>3, <1>4

-----------------------------------------------------------------------------
(* Subscribers *)

(* What a subscriber's queue says about durability is covered by d. *)
Covered(sub, d) ==
  \A i \in DOMAIN sub.queue : sub.queue[i].kind = "durable" => sub.queue[i].at <= d

(* The subscriber is left as it was, is cut off, or has the event last in  *)
(* its queue.                                                              *)
Refused(sub, res) ==
  /\ res.pos = sub.pos /\ res.replay = sub.replay /\ res.window = sub.window
  /\ res.queue = sub.queue /\ res.phase # "live"
Queued(sub, event, res) ==
  /\ res.pos = sub.pos /\ res.replay = sub.replay /\ res.window = sub.window
  /\ res.phase = "live" /\ sub.phase = "live"
  /\ DOMAIN res.queue = 1 .. Len(sub.queue) + 1 /\ Len(res.queue) = Len(sub.queue) + 1
  /\ res.queue[Len(sub.queue) + 1] = event
  /\ \A i \in 1 .. Len(sub.queue) : res.queue[i] = sub.queue[i]

(* TerminalInner::fan_out keeps a subscriber's queue within both bounds    *)
(* and puts at most the event itself into it.                              *)
LEMMA OfferOutcome ==
  ASSUME NEW sub, IsSub(sub), NEW event \in Events
  PROVE  /\ IsSub(Offer(sub, event))
         /\ Refused(sub, Offer(sub, event)) \/ Queued(sub, event, Offer(sub, event))
<1>1. CASE sub.phase # "live"
  BY <1>1 DEF Offer, Refused
<1> DEFINE full == \/ sub.queued + Len(event.payload) > QueueBytes
                   \/ Len(sub.queue) >= QueueMessages
           cut  == [sub EXCEPT !.phase = "overflowed"]
           fed  == [sub EXCEPT !.queue  = Append(sub.queue, event),
                               !.queued = sub.queued + Len(event.payload)]
<1>2. CASE sub.phase = "live" /\ full
  <2>1. Offer(sub, event) = cut
    BY <1>2 DEF Offer
  <2>2. IsSub(cut) /\ Refused(sub, cut)
    BY DEF IsSub, Refused
  <2> QED
    BY <2>1, <2>2
<1>3. CASE sub.phase = "live" /\ ~full
  <2>1. Offer(sub, event) = fed
    BY <1>3 DEF Offer
  <2>2. /\ Append(sub.queue, event) \in Seq(Events)
        /\ Len(Append(sub.queue, event)) = Len(sub.queue) + 1
        /\ DOMAIN Append(sub.queue, event) = 1 .. Len(sub.queue) + 1
        /\ Append(sub.queue, event)[Len(sub.queue) + 1] = event
        /\ \A i \in 1 .. Len(sub.queue) : Append(sub.queue, event)[i] = sub.queue[i]
    BY DEF IsSub
  <2>3. Len(event.payload) \in Nat
    BY DEF Events
  <2>4. /\ Len(sub.queue) \in Nat /\ Len(sub.queue) + 1 <= QueueMessages
        /\ sub.queued + Len(event.payload) \in Int
        /\ sub.queued + Len(event.payload) <= QueueBytes
    <3> DEFINE size == Len(event.payload)
               used == sub.queued
               held == Len(sub.queue)
    <3>1. held \in Nat /\ used \in Int
      BY DEF IsSub
    <3>2. ~(used + size > QueueBytes) /\ ~(held >= QueueMessages)
      BY <1>3
    <3>3. size \in Nat /\ QueueBytes \in Nat /\ QueueMessages \in Nat
      BY <2>3, LimitsAssumption
    <3> HIDE DEF size, used, held
    <3>4. held + 1 <= QueueMessages /\ used + size \in Int /\ used + size <= QueueBytes
      BY <3>1, <3>2, <3>3
    <3> QED
      BY <3>1, <3>4 DEF size, used, held
  <2>5. /\ fed.queue = Append(sub.queue, event)
        /\ fed.queued = sub.queued + Len(event.payload)
        /\ fed.phase = sub.phase /\ fed.pos = sub.pos
        /\ fed.replay = sub.replay /\ fed.window = sub.window
        /\ fed \in [phase : {"off", "live", "overflowed", "terminated"}, pos : Nat,
                    replay : Seq([start : Nat, end : Nat]), window : {fed.window},
                    queue : Seq(Events), queued : Int]
    BY <2>2, <2>4 DEF IsSub
  <2> HIDE DEF fed
  <2>6. IsSub(fed)
    BY <2>2, <2>4, <2>5 DEF IsSub
  <2>7. Queued(sub, event, fed)
    BY <1>3, <2>2, <2>5, Zenon DEF Queued
  <2> QED
    BY <2>1, <2>6, <2>7
<1> QED
  BY <1>1, <1>2, <1>3

LEMMA OfferKeeps ==
  ASSUME NEW sub, IsSub(sub), NEW event \in Events, NEW d,
         Covered(sub, d), event.kind = "durable" => event.at <= d
  PROVE  IsSub(Offer(sub, event)) /\ Covered(Offer(sub, event), d)
<1>1. PICK res : res = Offer(sub, event)
  OBVIOUS
<1>2. IsSub(res) /\ (Refused(sub, res) \/ Queued(sub, event, res))
  BY <1>1, OfferOutcome
<1>3. sub.queue \in Seq(Events)
  BY DEF IsSub
<1>4. Covered(res, d)
  BY <1>2, <1>3 DEF Covered, Refused, Queued
<1> QED
  BY <1>1, <1>2, <1>4

(* A connection that is not subscribed waits with an empty queue. *)
LEMMA UnsubscribedKeeps ==
  ASSUME NEW pos \in Nat, NEW d
  PROVE  IsSub(Unsubscribed(pos)) /\ Covered(Unsubscribed(pos), d)
<1>1. << >> \in Seq(Events) /\ << >> \in Seq([start : Nat, end : Nat]) /\ Len(<< >>) = 0
  OBVIOUS
<1>2. IsSub(Unsubscribed(pos))
  BY <1>1, LimitsAssumption DEF IsSub, Unsubscribed
<1> QED
  BY <1>2 DEF Covered, Unsubscribed

-----------------------------------------------------------------------------
(* Loading *)

(* load_terminal_output ends at the stored offset, whatever stale row the  *)
(* loader has in hand: the rows were replaced, never cut from above.       *)
LEMMA LoadedEndIsDurable ==
  ASSUME IsStore(db), StoreInv, NEW earliest \in Nat,
         earliest = 0 \/ earliest < db.durable
  PROVE  /\ LoadedEnd(earliest) = db.durable
         /\ earliest <= db.durable
         /\ db.durable > 0 => earliest < db.durable
<1> DEFINE ends == {earliest} \cup {r.end : r \in Stored(earliest)}
<1>1. db.durable \in Nat
  BY DEF IsStore
<1>2. \A r \in Stored(earliest) : r.end <= db.durable
  BY DEF StoreInv, Stored
<1>3. earliest <= db.durable /\ (db.durable > 0 => earliest < db.durable)
  BY <1>1
<1>4. db.durable \in ends
  <2>1. CASE db.durable = 0
    BY <1>3, <2>1
  <2>2. CASE db.durable # 0
    <3>1. PICK r \in db.rows : r.end = db.durable
      BY <2>2 DEF StoreInv
    <3> QED
      BY <1>1, <1>3, <2>2, <3>1 DEF Stored
  <2> QED
    BY <2>1, <2>2
<1>5. \A e \in ends : e <= db.durable
  BY <1>2, <1>3
<1>6. \A e \in ends : (\A r \in Stored(earliest) : r.end <= e) => e = db.durable
  <2> SUFFICES ASSUME NEW e \in ends, \A r \in Stored(earliest) : r.end <= e
               PROVE  e = db.durable
    OBVIOUS
  <2>1. e \in Nat
    BY DEF IsStore, Stored
  <2>2. db.durable <= e
    <3>1. CASE db.durable = 0
      BY <2>1, <3>1
    <3>2. CASE db.durable # 0
      BY <1>1, <1>3, <3>2 DEF StoreInv, Stored
    <3> QED
      BY <3>1, <3>2
  <2> QED
    BY <1>1, <1>5, <2>1, <2>2
<1>7. LoadedEnd(earliest) = CHOOSE e \in ends : \A r \in Stored(earliest) : r.end <= e
  BY DEF LoadedEnd
<1> HIDE DEF ends
<1> QED
  BY <1>2, <1>3, <1>4, <1>6, <1>7

-----------------------------------------------------------------------------
(* The steps of the connections *)

SubsOK ==
  /\ DOMAIN subs = Subs
  /\ \A s \in Subs : IsSub(subs[s]) /\ Covered(subs[s], db.durable)

SessionsOK ==
  /\ session \in [Sessions -> FrameStates]
  /\ \A p \in Sessions : session[p].pc # "idle" => resident

(* The invariant's view of the connections. *)
LEMMA DurabilityInvParts ==
  ASSUME DurabilityInv
  PROVE  SubsOK /\ SessionsOK
  BY DEF DurabilityInv, TypeOK, HandleInv, NoFalseAck, SubsOK, SessionsOK, Covered

(* A step that concerns only the connections - a frame received, a         *)
(* subscriber served - leaves the rest of the invariant alone.             *)
LEMMA ConnectionStep ==
  ASSUME DurabilityInv, SubsOK', SessionsOK',
         UNCHANGED <<procVars, memVars, acked, checkpoint, db, log, reopened, faults>>
  PROVE  DurabilityInv'
<1> USE DEF procVars, memVars
<1>1. TypeOK'
  BY DEF DurabilityInv, TypeOK, SubsOK, SessionsOK
<1>2. StoreInv'
  BY DEF DurabilityInv, StoreInv
<1>3. LoaderInv'
  BY DEF DurabilityInv, LoaderInv
<1>4. HandleInv'
  BY DEF DurabilityInv, HandleInv, SessionsOK
<1>5. CheckpointInv'
  BY DEF DurabilityInv, CheckpointInv
<1>6. NoFalseAck'
  BY DEF DurabilityInv, NoFalseAck, SubsOK, Covered
<1> QED
  BY <1>1, <1>2, <1>3, <1>4, <1>5, <1>6 DEF DurabilityInv

(* on_binary up to its first look at the dirty bytes, and the end of       *)
(* apply_backpressure's wait: the frame is held, let pass or given up.     *)
LEMMA FrameStep ==
  ASSUME DurabilityInv, NEW p \in Sessions,
         \/ \E expected \in {durable_offset} \cup next_offset .. MaxOffset, payload \in Payloads :
              OnBinary(p, expected, payload)
         \/ WaitEnds(p)
  PROVE  DurabilityInv'
<1>1. SubsOK /\ SessionsOK
  BY DurabilityInvParts
<1>2. SubsOK'
  BY <1>1 DEF OnBinary, WaitEnds, SubsOK
<1>3. IdleFrame \in FrameStates
  BY DEF IdleFrame, FrameStates
<1>4. SessionsOK'
  <2>1. ASSUME NEW expected \in {durable_offset} \cup next_offset .. MaxOffset, NEW payload \in Payloads,
               OnBinary(p, expected, payload)
        PROVE  SessionsOK'
    <3> DEFINE frame == [pc |-> "passed", expected |-> expected, payload |-> payload,
                         capacity |-> replay_capacity, early |-> expected # next_offset]
               held  == [frame EXCEPT !.pc = "waiting"]
    <3>1. /\ expected \in Nat /\ payload \in Seq(Byte)
          /\ replay_capacity \in Nat \ {0}
      BY PayloadsAssumption, CapacitiesAssumption DEF DurabilityInv, TypeOK
    <3>2. frame \in FrameStates /\ held \in FrameStates
      BY <3>1 DEF FrameStates
    <3>3. /\ session' = [session EXCEPT ![p] =
                           IF Dirty <= Headroom(frame) THEN frame ELSE held]
          /\ resident /\ resident' = resident
      BY <2>1 DEF OnBinary, procVars
    <3> HIDE DEF frame, held
    <3> QED
      BY <1>1, <3>2, <3>3 DEF SessionsOK
  <2>2. ASSUME WaitEnds(p)
        PROVE  SessionsOK'
    <3>1. session[p] \in FrameStates /\ resident /\ resident' = resident
      BY <1>1, <2>2 DEF SessionsOK, WaitEnds, procVars
    <3>2. [session[p] EXCEPT !.pc = "passed", !.early = session[p].expected # next_offset] \in FrameStates
      BY <3>1 DEF FrameStates
    <3> QED
      BY <1>1, <1>3, <2>2, <3>1, <3>2 DEF SessionsOK, WaitEnds
  <2> QED
    BY <2>1, <2>2
<1>5. UNCHANGED <<procVars, memVars, acked, checkpoint, db, log, reopened, faults>>
  BY DEF OnBinary, WaitEnds
<1> QED
  BY <1>2, <1>4, <1>5, ConnectionStep

(* Resize, and terminate_subscribers: every subscriber is offered the      *)
(* event, or loses its sender.                                             *)
LEMMA BroadcastStep ==
  ASSUME DurabilityInv, Resize \/ TerminateSubscribers
  PROVE  DurabilityInv'
<1>1. SubsOK /\ SessionsOK
  BY DurabilityInvParts
<1>2. SessionsOK'
  BY <1>1 DEF Resize, TerminateSubscribers, SessionsOK, procVars
<1>3. CASE Resize
  <2>1. Resized \in Events /\ Resized.kind # "durable"
    BY DEF Resized, Events
  <2>2. SubsOK'
    BY <1>1, <1>3, <2>1, OfferKeeps DEF Resize, FanOut, SubsOK
  <2> QED
    BY <1>2, <1>3, <2>2, ConnectionStep DEF Resize
<1>4. CASE TerminateSubscribers
  <2>1. ASSUME NEW s \in Subs
        PROVE  LET cut == [subs[s] EXCEPT !.phase = "terminated"]
               IN  IsSub(cut) /\ Covered(cut, db.durable)
    BY <1>1 DEF SubsOK, IsSub, Covered
  <2>2. SubsOK'
    BY <1>1, <1>4, <2>1 DEF TerminateSubscribers, SubsOK
  <2> QED
    BY <1>2, <1>4, <2>2, ConnectionStep DEF TerminateSubscribers
<1> QED
  BY <1>3, <1>4

(* One subscriber is replaced by a well-formed one. *)
LEMMA OneSubscriber ==
  ASSUME DurabilityInv, NEW s \in Subs, NEW sub,
         IsSub(sub), Covered(sub, db.durable),
         subs' = [subs EXCEPT ![s] = sub],
         UNCHANGED <<procVars, memVars, session, acked, checkpoint, db, log, reopened, faults>>
  PROVE  DurabilityInv'
<1>1. SubsOK /\ SessionsOK
  BY DurabilityInvParts
<1>2. SubsOK' /\ SessionsOK'
  BY <1>1 DEF SubsOK, SessionsOK, procVars
<1> QED
  BY <1>2, ConnectionStep

(* The mirror connection's own steps: subscribe, the replay, deliver, and  *)
(* the end of the connection.                                              *)
LEMMA MirrorStep ==
  ASSUME DurabilityInv, NEW s \in Subs,
         \/ \E requested \in {ring.earliest, subs[s].pos} : Subscribe(s, requested)
         \/ SendReplay(s) \/ Deliver(s) \/ EndOfStream(s) \/ Disconnect(s)
  PROVE  DurabilityInv'
<1>1. IsSub(subs[s]) /\ Covered(subs[s], db.durable)
  BY DurabilityInvParts DEF SubsOK
<1>2. /\ subs[s].pos \in Nat /\ subs[s].queue \in Seq(Events)
      /\ subs[s].replay \in Seq([start : Nat, end : Nat])
      /\ subs[s].queued \in Int /\ subs[s].queued <= QueueBytes
      /\ Len(subs[s].queue) <= QueueMessages
  BY <1>1 DEF IsSub
<1>3. ASSUME NEW requested \in {ring.earliest, subs[s].pos}, Subscribe(s, requested)
      PROVE  DurabilityInv'
  <2> DEFINE from == MaxOf(requested, ring.earliest)
             sub  == [Unsubscribed(from) EXCEPT
                        !.phase = "live", !.replay = ReplayChunks(from),
                        !.window = ReadRange(ring, from, next_offset)]
  <2>1. from \in Nat /\ next_offset \in Nat
    BY <1>2 DEF DurabilityInv, TypeOK, IsRing, MaxOf
  <2> HIDE DEF from
  <2>2. ReplayChunks(from) \in Seq([start : Nat, end : Nat])
    <3> DEFINE count == IF Readable(ring, from, next_offset)
                        THEN (next_offset - from + ChunkBytes - 1) \div ChunkBytes ELSE 0
               chunk(i) == [start |-> from + (i - 1) * ChunkBytes,
                            end   |-> MinOf(from + i * ChunkBytes, next_offset)]
    <3>1. count \in Nat
      BY <2>1, LimitsAssumption DEF Readable
    <3>2. ASSUME NEW i \in 1 .. count
          PROVE  chunk(i) \in [start : Nat, end : Nat]
      <4>1. i \in Nat /\ i - 1 \in Nat
        BY <3>1
      <4>2. (i - 1) * ChunkBytes \in Nat /\ i * ChunkBytes \in Nat
        BY <4>1, LimitsAssumption
      <4> QED
        BY <2>1, <4>2 DEF MinOf
    <3>3. ReplayChunks(from) = [i \in 1 .. count |-> chunk(i)]
      BY DEF ReplayChunks
    <3> HIDE DEF count, chunk
    <3> QED
      BY <3>1, <3>2, <3>3
  <2>3. IsSub(sub) /\ sub.queue = << >>
    BY <2>1, <2>2, UnsubscribedKeeps DEF IsSub, Unsubscribed
  <2>4. Covered(sub, db.durable)
    BY <2>3 DEF Covered
  <2> HIDE DEF sub
  <2> QED
    BY <1>3, <2>3, <2>4, OneSubscriber DEF Subscribe, sub, from
<1>4. CASE SendReplay(s)
  <2> DEFINE rest == Tail(subs[s].replay)
             sub == [subs[s] EXCEPT
                       !.pos = Head(subs[s].replay).end, !.replay = rest,
                       !.window = IF rest = << >> THEN NoBytes ELSE subs[s].window]
  <2>1. Head(subs[s].replay).end \in Nat /\ rest \in Seq([start : Nat, end : Nat])
    <3>1. subs[s].replay # << >>
      BY <1>4 DEF SendReplay
    <3>2. /\ Head(subs[s].replay) \in [start : Nat, end : Nat]
          /\ rest \in Seq([start : Nat, end : Nat])
      BY <1>2, <3>1, HeadTailProperties
    <3> QED
      BY <3>2
  <2> HIDE DEF rest
  <2>2. IsSub(sub) /\ sub.queue = subs[s].queue
    BY <1>1, <2>1 DEF IsSub
  <2>3. Covered(sub, db.durable)
    BY <1>1, <2>2 DEF Covered
  <2> HIDE DEF sub
  <2> QED
    BY <1>4, <2>2, <2>3, OneSubscriber DEF SendReplay, sub, rest
<1>5. CASE Deliver(s)
  <2> DEFINE event == Head(subs[s].queue)
             rest  == Tail(subs[s].queue)
             pos   == IF event.kind = "output" THEN event.at + Len(event.payload)
                                               ELSE subs[s].pos
             sub   == [subs[s] EXCEPT !.queue = rest,
                                      !.queued = subs[s].queued - Len(event.payload),
                                      !.pos = pos]
  <2>1. /\ event \in Events /\ rest \in Seq(Events)
        /\ Len(rest) = Len(subs[s].queue) - 1 /\ Len(subs[s].queue) \in Nat
        /\ \A i \in DOMAIN rest :
             i + 1 \in DOMAIN subs[s].queue /\ rest[i] = subs[s].queue[i + 1]
    BY <1>2, <1>5 DEF Deliver
  <2>2. Len(event.payload) \in Nat /\ event.at \in Nat
    BY <2>1 DEF Events
  <2>3. pos \in Nat /\ subs[s].queued - Len(event.payload) \in Int
        /\ subs[s].queued - Len(event.payload) <= QueueBytes
        /\ Len(rest) <= QueueMessages
    <3> DEFINE size == Len(event.payload)
               used == subs[s].queued
               left == Len(rest)
               held == Len(subs[s].queue)
    <3>1. /\ size \in Nat /\ used \in Int /\ used <= QueueBytes /\ QueueBytes \in Nat
          /\ held \in Nat /\ left = held - 1 /\ held <= QueueMessages
          /\ QueueMessages \in Nat
      BY <1>2, <2>1, <2>2, LimitsAssumption
    <3>2. pos \in Nat
      <4> DEFINE at == event.at
                 was == subs[s].pos
      <4>1. at \in Nat /\ was \in Nat /\ (pos = at + size \/ pos = was)
        BY <1>2, <2>2, Zenon
      <4> HIDE DEF at, was, size, pos
      <4> QED BY <3>1, <4>1
    <3> HIDE DEF size, used, left, held
    <3>3. used - size \in Int /\ used - size <= QueueBytes /\ left <= QueueMessages
      BY <3>1
    <3> QED
      BY <3>2, <3>3 DEF size, used, left
  <2>4. \/ subs' = [subs EXCEPT ![s] = Unsubscribed(subs[s].pos)]
        \/ subs' = [subs EXCEPT ![s] = sub]
    BY <1>5 DEF Deliver
  <2> HIDE DEF rest, pos
  <2>5. IsSub(sub) /\ sub.queue = rest
    <3>1. /\ sub.queue = rest /\ sub.queued = subs[s].queued - Len(event.payload)
          /\ sub \in [phase : {"off", "live", "overflowed", "terminated"}, pos : Nat,
                      replay : Seq([start : Nat, end : Nat]), window : {sub.window},
                      queue : Seq(Events), queued : Int]
      BY <1>1, <2>1, <2>3 DEF IsSub
    <3> HIDE DEF sub
    <3> QED
      BY <2>3, <3>1 DEF IsSub
  <2>6. Covered(sub, db.durable)
    BY <1>1, <2>1, <2>5 DEF Covered
  <2> HIDE DEF sub
  <2> QED
    BY <1>2, <1>5, <2>4, <2>5, <2>6, UnsubscribedKeeps, OneSubscriber DEF Deliver
<1>6. CASE EndOfStream(s)
  BY <1>2, <1>6, UnsubscribedKeeps, OneSubscriber DEF EndOfStream
<1>7. CASE Disconnect(s)
  BY <1>2, <1>7, UnsubscribedKeeps, OneSubscriber DEF Disconnect
<1> QED
  BY <1>3, <1>4, <1>5, <1>6, <1>7

-----------------------------------------------------------------------------
(* The registry: loading, evicting, resizing the window *)

(* get_or_load reads the row as it is now. *)
LEMMA ReadRowStep ==
  ASSUME DurabilityInv, NEW l \in Loaders, ReadRow(l)
  PROVE  DurabilityInv'
<1> DEFINE row == [busy |-> TRUE, earliest |-> db.earliest, durable |-> db.durable,
                   state |-> db.state]
<1>1. loader' = [loader EXCEPT ![l] = row]
  BY DEF ReadRow
<1>2. /\ db.earliest \in Nat /\ db.durable \in Nat /\ db.state \in {"open", "closed"}
      /\ db.earliest = 0 \/ db.earliest < db.durable
  BY DEF DurabilityInv, TypeOK, IsStore, StoreInv
<1>3. row \in LoaderRows
  BY <1>2 DEF LoaderRows
<1>4. TypeOK'
  <2> HIDE DEF row
  <2> QED BY <1>1, <1>3 DEF DurabilityInv, TypeOK, ReadRow, memVars
<1>5. LoaderInv'
  BY <1>1, <1>2 DEF DurabilityInv, TypeOK, LoaderInv, ReadRow
<1>6. StoreInv' /\ HandleInv' /\ CheckpointInv' /\ NoFalseAck'
  BY DEF DurabilityInv, StoreInv, HandleInv, CheckpointInv, NoFalseAck, ReadRow, memVars
<1> QED
  BY <1>4, <1>5, <1>6 DEF DurabilityInv

(* insert_or_load_handle: the handle is built from the row that was read   *)
(* and the output that is stored, and stands exactly at the stored offset. *)
LEMMA InsertHandleStep ==
  ASSUME DurabilityInv, NEW l \in Loaders, InsertHandle(l)
  PROVE  DurabilityInv'
<1> DEFINE row == loader[l]
           end == LoadedEnd(row.earliest)
           bytes == LoadedBytes(row.earliest)
<1>1. /\ row.earliest \in Nat /\ row.durable \in Nat /\ row.state \in {"open", "closed"}
      /\ row.durable <= db.durable
      /\ row.earliest = 0 \/ row.earliest < db.durable
      /\ replay_capacity \in Nat /\ db.durable \in Nat
  BY CapacitiesAssumption
  DEF DurabilityInv, TypeOK, LoaderRows, LoaderInv, IsStore
<1>2. /\ end = db.durable /\ row.earliest <= end /\ end \in Nat
      /\ end > 0 => row.earliest < end
  BY <1>1, LoadedEndIsDurable DEF DurabilityInv, TypeOK
<1> HIDE DEF end, bytes
<1>3. /\ IsRing(FromRetained(replay_capacity, row.earliest, end, bytes))
      /\ FromRetained(replay_capacity, row.earliest, end, bytes).end = end
  BY <1>1, <1>2, FromRetainedWindow
<1>4. NoRow \in LoaderRows /\ loader' = [loader EXCEPT ![l] = NoRow]
  BY DEF InsertHandle, NoRow, LoaderRows
<1>5. LoaderInv'
  BY <1>1, <1>4 DEF DurabilityInv, TypeOK, LoaderInv, InsertHandle, NoRow
<1>6. loader' \in [Loaders -> LoaderRows]
  BY <1>4 DEF DurabilityInv, TypeOK
<1>7. CASE UNCHANGED <<resident, memVars>>
  <2>1. TypeOK'
    BY <1>6, <1>7 DEF DurabilityInv, TypeOK, InsertHandle, memVars
  <2>2. StoreInv' /\ HandleInv' /\ CheckpointInv' /\ NoFalseAck'
    BY <1>7 DEF DurabilityInv, StoreInv, HandleInv, CheckpointInv, NoFalseAck,
                InsertHandle, memVars
  <2> QED
    BY <1>5, <2>1, <2>2 DEF DurabilityInv
<1>8. CASE ~resident /\ resident' = TRUE /\ FromRow(row)
  <2>1. /\ IsRing(ring') /\ ring'.end = db.durable
        /\ next_offset' = db.durable /\ durable_offset' = row.durable
        /\ dirty_since' = FALSE /\ lifecycle' = row.state /\ retired' = FALSE
    <3>1. ring' = FromRetained(replay_capacity, row.earliest, end, bytes)
      BY <1>8 DEF FromRow, end, bytes
    <3>2. ring'.end = db.durable /\ IsRing(ring')
      BY <1>2, <1>3, <3>1
    <3> QED
      BY <1>1, <1>8, <3>2 DEF FromRow, MaxOf
  <2>2. Len(log) = db.durable /\ checkpoint.phase = "none"
    BY <1>8 DEF DurabilityInv, HandleInv
  <2>3. TypeOK'
    BY <1>1, <1>6, <1>8, <2>1 DEF DurabilityInv, TypeOK, InsertHandle
  <2>4. HandleInv'
    BY <1>1, <1>8, <2>1, <2>2 DEF DurabilityInv, HandleInv, InsertHandle
  <2>5. StoreInv' /\ CheckpointInv'
    BY <2>2 DEF DurabilityInv, StoreInv, CheckpointInv, InsertHandle
  <2>6. NoFalseAck'
    BY <1>1, <2>1 DEF DurabilityInv, NoFalseAck, InsertHandle
  <2> QED
    BY <1>5, <2>3, <2>4, <2>5, <2>6 DEF DurabilityInv
<1> QED
  BY <1>7, <1>8 DEF InsertHandle

(* evict_retired: only a handle whose bytes are all durable goes. *)
LEMMA EvictRetiredStep ==
  ASSUME DurabilityInv, EvictRetired
  PROVE  DurabilityInv'
<1>1. resident /\ retired /\ resident' = FALSE /\ session' = [p \in Sessions |-> IdleFrame]
  BY DEF EvictRetired
<1>2. /\ next_offset \in Nat /\ durable_offset \in Nat /\ db.durable \in Nat
  BY DEF DurabilityInv, TypeOK, IsStore
<1>3. /\ next_offset <= durable_offset /\ durable_offset <= db.durable
      /\ db.durable <= next_offset /\ Len(log) = next_offset /\ checkpoint.phase = "none"
  BY <1>1 DEF DurabilityInv, HandleInv
<1>4. IdleFrame \in FrameStates /\ IdleFrame.pc = "idle"
  BY DEF IdleFrame, FrameStates
<1>5. TypeOK'
  BY <1>1, <1>4 DEF DurabilityInv, TypeOK, EvictRetired, memVars
<1>6. HandleInv'
  BY <1>1, <1>2, <1>3, <1>4 DEF DurabilityInv, HandleInv, EvictRetired, memVars
<1>7. StoreInv' /\ LoaderInv' /\ CheckpointInv' /\ NoFalseAck'
  BY <1>1 DEF DurabilityInv, StoreInv, LoaderInv, CheckpointInv, NoFalseAck,
              EvictRetired, memVars
<1> QED
  BY <1>5, <1>6, <1>7 DEF DurabilityInv

(* The setting changes, and shrink_to_capacity applies it: the window is   *)
(* trimmed at its old end, so nothing moves but its start.                 *)
LEMMA CapacityStep ==
  ASSUME DurabilityInv, (\E c \in Capacities : ChangeCapacity(c)) \/ ShrinkToCapacity
  PROVE  DurabilityInv'
<1>1. ASSUME NEW c \in Capacities, ChangeCapacity(c)
      PROVE  DurabilityInv'
  <2>1. TypeOK'
    BY <1>1 DEF DurabilityInv, TypeOK, ChangeCapacity, memVars
  <2>2. StoreInv' /\ LoaderInv' /\ HandleInv' /\ CheckpointInv' /\ NoFalseAck'
    BY <1>1 DEF DurabilityInv, StoreInv, LoaderInv, HandleInv, CheckpointInv, NoFalseAck,
                ChangeCapacity, memVars
  <2> QED
    BY <2>1, <2>2 DEF DurabilityInv
<1>2. CASE ShrinkToCapacity
  <2>1. IsRing(ring') /\ ring'.end = ring.end
    BY <1>2, SetCapacityWindow, CapacitiesAssumption
    DEF DurabilityInv, TypeOK, ShrinkToCapacity
  <2>2. TypeOK'
    BY <1>2, <2>1 DEF DurabilityInv, TypeOK, ShrinkToCapacity, procVars
  <2>3. StoreInv' /\ LoaderInv' /\ HandleInv' /\ CheckpointInv' /\ NoFalseAck'
    BY <1>2, <2>1 DEF DurabilityInv, StoreInv, LoaderInv, HandleInv, CheckpointInv,
                      NoFalseAck, ShrinkToCapacity, procVars
  <2> QED
    BY <2>2, <2>3 DEF DurabilityInv
<1> QED
  BY <1>1, <1>2

-----------------------------------------------------------------------------
(* Output, acknowledgement and close *)

(* TerminalHandle::append: an accepted frame extends the window, the       *)
(* stream and the dirty bytes together; a checkpoint in flight keeps its   *)
(* target.                                                                 *)
LEMMA AppendFrameStep ==
  ASSUME DurabilityInv, NEW p \in Sessions, AppendFrame(p)
  PROVE  DurabilityInv'
<1> DEFINE frame == session[p]
<1>1. SubsOK /\ SessionsOK
  BY DurabilityInvParts
<1>2. /\ frame.payload \in Seq(Byte) /\ frame.capacity \in Nat /\ resident
      /\ frame.payload \in Seq(Byte) => Len(frame.payload) \in Nat
  BY <1>1 DEF SessionsOK, FrameStates, AppendFrame
<1>3. IdleFrame \in FrameStates /\ IdleFrame.pc = "idle"
  BY DEF IdleFrame, FrameStates
<1>4. SessionsOK'
  BY <1>1, <1>2, <1>3 DEF AppendFrame, SessionsOK, procVars
<1>5. CASE ~Accepts(frame)
  <2>1. UNCHANGED <<procVars, memVars, subs, acked, checkpoint, db, log, reopened, faults>>
    BY <1>5 DEF AppendFrame, memVars
  <2> QED
    BY <1>1, <1>4, <2>1, ConnectionStep DEF SubsOK
<1>6. CASE Accepts(frame)
  <2>1. /\ ring' = AppendBytes(SetCapacity(ring, frame.capacity), frame.payload)
        /\ next_offset' = next_offset + Len(frame.payload)
        /\ dirty_since' = (dirty_since \/ frame.payload # << >>)
        /\ subs' = IF frame.payload = << >> THEN subs
                   ELSE FanOut(Output(next_offset, frame.payload))
        /\ log' = log \o frame.payload
        /\ lifecycle = "open"
    BY <1>6 DEF AppendFrame, Accepts
  <2>2. UNCHANGED <<procVars, durable_offset, lifecycle, retired, acked, checkpoint,
                    db, faults>>
    BY DEF AppendFrame
  <2>3. IsRing(ring') /\ ring'.end = ring.end + Len(frame.payload)
    <3> DEFINE resized == SetCapacity(ring, frame.capacity)
    <3>1. IsRing(resized) /\ resized.end = ring.end
      BY <1>2, SetCapacityWindow DEF DurabilityInv, TypeOK
    <3> HIDE DEF resized, frame
    <3>2. /\ IsRing(AppendBytes(resized, frame.payload))
          /\ AppendBytes(resized, frame.payload).end = resized.end + Len(frame.payload)
      BY <1>2, <3>1, AppendBytesWindow
    <3> QED
      BY <2>1, <3>1, <3>2 DEF resized
  <2>4. /\ log \in Seq(Byte) /\ next_offset \in Nat /\ db.durable \in Nat
        /\ Len(log) = next_offset /\ ring.end = next_offset
        /\ durable_offset <= db.durable /\ db.durable <= next_offset
        /\ ~retired
    BY <1>2, <2>1 DEF DurabilityInv, TypeOK, HandleInv, IsStore
  <2>5. log' \in Seq(Byte) /\ Len(log') = Len(log) + Len(frame.payload)
    <3>1. log \o frame.payload \in Seq(Byte)
          /\ Len(log \o frame.payload) = Len(log) + Len(frame.payload)
      BY <1>2, <2>4, ConcatProperties
    <3> QED
      BY <2>1, <3>1
  <2>6. SubsOK'
    <3>1. /\ Output(next_offset, frame.payload) \in Events
          /\ Output(next_offset, frame.payload).kind # "durable"
      BY <1>2, <2>4 DEF Output, Events
    <3> QED
      BY <1>1, <2>1, <2>2, <3>1, OfferKeeps DEF FanOut, SubsOK
  <2> HIDE DEF frame
  <2>7. next_offset' \in Nat /\ next_offset <= next_offset'
    BY <1>2, <2>1, <2>4
  <2>8. TypeOK'
    <3>1. dirty_since' \in BOOLEAN
      BY <2>1
    <3>2. reopened' \in BOOLEAN
      BY DEF AppendFrame, DurabilityInv, TypeOK
    <3> QED
      BY <1>4, <2>2, <2>3, <2>5, <2>6, <2>7, <3>1, <3>2
      DEF DurabilityInv, TypeOK, SubsOK, SessionsOK, procVars
  <2>9. StoreInv' /\ LoaderInv'
    BY <2>2 DEF DurabilityInv, StoreInv, LoaderInv, procVars
  <2>10. HandleInv'
    BY <1>2, <1>4, <2>1, <2>2, <2>3, <2>4, <2>5, <2>7
    DEF DurabilityInv, TypeOK, HandleInv, SessionsOK, procVars
  <2>11. CheckpointInv'
    BY <2>1, <2>2, <2>4, <2>7 DEF DurabilityInv, TypeOK, IsCheckpoint, CheckpointInv
  <2>12. NoFalseAck'
    BY <2>2, <2>6 DEF DurabilityInv, NoFalseAck, SubsOK, Covered, procVars
  <2> QED
    BY <2>8, <2>9, <2>10, <2>11, <2>12 DEF DurabilityInv
<1> QED
  BY <1>5, <1>6

(* The ack task acknowledges what the handle calls durable; begin_close.   *)
LEMMA AckAndCloseStep ==
  ASSUME DurabilityInv, SendAck \/ BeginClose
  PROVE  DurabilityInv'
<1>1. CASE SendAck
  <2>1. TypeOK'
    BY <1>1 DEF DurabilityInv, TypeOK, SendAck, procVars, memVars
  <2>2. StoreInv' /\ LoaderInv' /\ HandleInv' /\ CheckpointInv' /\ NoFalseAck'
    BY <1>1 DEF DurabilityInv, StoreInv, LoaderInv, HandleInv, CheckpointInv,
                NoFalseAck, SendAck, procVars, memVars
  <2> QED
    BY <2>1, <2>2 DEF DurabilityInv
<1>2. CASE BeginClose
  <2>1. TypeOK'
    BY <1>2 DEF DurabilityInv, TypeOK, BeginClose, procVars
  <2>2. StoreInv' /\ LoaderInv' /\ HandleInv' /\ CheckpointInv' /\ NoFalseAck'
    BY <1>2 DEF DurabilityInv, StoreInv, LoaderInv, HandleInv, CheckpointInv,
                NoFalseAck, BeginClose, procVars
  <2> QED
    BY <2>1, <2>2 DEF DurabilityInv
<1> QED
  BY <1>1, <1>2

-----------------------------------------------------------------------------
(* The checkpoint task *)

(* take_checkpoint: the snapshot reaches next_offset, which is at or past  *)
(* what is stored; it is empty only if everything is stored already.       *)
LEMMA TakeCheckpointStep ==
  ASSUME DurabilityInv, TakeCheckpoint
  PROVE  DurabilityInv'
<1> DEFINE from  == MaxOf(durable_offset, ring.earliest)
           chunk == ReadRange(ring, from, next_offset)
           taken == [phase |-> "taken", start |-> from, chunk |-> chunk,
                     earliest |-> ring.earliest, target |-> next_offset,
                     close |-> lifecycle = "closing"]
<1>1. /\ resident /\ checkpoint' = taken /\ NeedsCheckpoint
      /\ UNCHANGED <<procVars, memVars, subs, session, acked, db, log, faults>>
  BY DEF TakeCheckpoint
<1>2. /\ IsRing(ring) /\ ring.earliest \in Nat /\ ring.end \in Nat
      /\ ring.earliest <= ring.end /\ (ring.end > 0 => ring.earliest < ring.end)
      /\ durable_offset \in Nat /\ next_offset \in Nat /\ db.durable \in Nat
  BY DEF DurabilityInv, TypeOK, IsRing, IsStore
<1>3. /\ ring.end = next_offset /\ durable_offset <= db.durable
      /\ db.durable <= next_offset
      /\ retired => lifecycle = "closed" /\ next_offset <= durable_offset
  BY <1>1 DEF DurabilityInv, HandleInv
<1>4. /\ from \in Nat /\ ring.earliest <= from /\ durable_offset <= from
      /\ from <= next_offset /\ (from = durable_offset \/ from = ring.earliest)
  BY <1>2, <1>3 DEF MaxOf
<1> HIDE DEF from
<1>5. chunk = NoBytes => next_offset = db.durable
  <2> SUFFICES ASSUME chunk = NoBytes PROVE next_offset = db.durable
    OBVIOUS
  <2>1. Readable(ring, from, next_offset)
    BY <1>2, <1>3, <1>4 DEF Readable
  <2>2. DOMAIN chunk = from .. next_offset - 1
    BY <2>1 DEF ReadRange
  <2>3. from .. next_offset - 1 = {}
    BY <2>2 DEF NoBytes
  <2>4. from = next_offset
    BY <1>2, <1>4, <2>3
  <2> QED
    BY <1>2, <1>3, <1>4, <2>4
<1> HIDE DEF chunk
<1>6. IsCheckpoint(taken)
  BY <1>2, <1>4 DEF IsCheckpoint
<1>7. ~retired
  BY <1>1, <1>2, <1>3 DEF NeedsCheckpoint
<1>8. TypeOK'
  <2> HIDE DEF taken
  <2>1. reopened' = reopened
    BY DEF TakeCheckpoint
  <2> QED
    BY <1>1, <1>6, <2>1 DEF DurabilityInv, TypeOK, procVars, memVars
<1>9. StoreInv' /\ LoaderInv' /\ NoFalseAck'
  BY <1>1 DEF DurabilityInv, StoreInv, LoaderInv, NoFalseAck, procVars, memVars
<1>10. HandleInv'
  BY <1>1, <1>7 DEF DurabilityInv, HandleInv, procVars, memVars
<1>11. CheckpointInv'
  <2>1. /\ checkpoint'.phase = "taken" /\ checkpoint'.target = next_offset
        /\ checkpoint'.earliest = ring.earliest /\ checkpoint'.chunk = chunk
        /\ checkpoint'.close = (lifecycle = "closing")
    BY <1>1
  <2>2. /\ next_offset' = next_offset /\ lifecycle' = lifecycle /\ db' = db
    BY <1>1 DEF memVars
  <2>3. IF next_offset = 0 THEN ring.earliest = 0 ELSE ring.earliest < next_offset
    BY <1>2, <1>3
  <2>4. /\ db'.durable <= checkpoint'.target /\ checkpoint'.target <= next_offset'
        /\ IF checkpoint'.target = 0 THEN checkpoint'.earliest = 0
           ELSE checkpoint'.earliest < checkpoint'.target
        /\ checkpoint'.chunk = NoBytes => checkpoint'.target = db'.durable
    BY <1>2, <1>3, <1>5, <2>1, <2>2, <2>3
  <2>5. checkpoint'.close => lifecycle' = "closing" /\ checkpoint'.target = next_offset'
    BY <2>1, <2>2
  <2>6. checkpoint'.phase # "committed"
    BY <2>1
  <2> QED
    BY <2>4, <2>5, <2>6 DEF CheckpointInv
<1> QED
  BY <1>8, <1>9, <1>10, <1>11 DEF DurabilityInv

(* Every attempt failed, or nothing changed but that the process is back.  *)
LEMMA FailAndRecoverStep ==
  ASSUME DurabilityInv, CommitFails \/ Recover
  PROVE  DurabilityInv'
<1>1. CASE CommitFails
  <2>1. IsCheckpoint(NoCheckpoint) /\ NoCheckpoint.phase = "none"
    BY DEF IsCheckpoint, NoCheckpoint
  <2>2. TypeOK'
    BY <1>1, <2>1 DEF DurabilityInv, TypeOK, CommitFails, procVars, memVars
  <2>3. StoreInv' /\ LoaderInv' /\ HandleInv' /\ CheckpointInv' /\ NoFalseAck'
    BY <1>1, <2>1 DEF DurabilityInv, StoreInv, LoaderInv, HandleInv, CheckpointInv,
                      NoFalseAck, CommitFails, procVars, memVars
  <2> QED
    BY <2>2, <2>3 DEF DurabilityInv
<1>2. CASE Recover
  <2>1. TypeOK'
    BY <1>2 DEF DurabilityInv, TypeOK, Recover, memVars
  <2>2. StoreInv' /\ LoaderInv' /\ HandleInv' /\ CheckpointInv' /\ NoFalseAck'
    BY <1>2 DEF DurabilityInv, StoreInv, LoaderInv, HandleInv, CheckpointInv,
                NoFalseAck, Recover, memVars
  <2> QED
    BY <2>1, <2>2 DEF DurabilityInv
<1> QED
  BY <1>1, <1>2

(* The rows after commit_checkpoints end at the target, and one reaches    *)
(* it: the chunk, or, if nothing was new, the row that reached it before.  *)
LEMMA CommittedRowsEnd ==
  ASSUME IsStore(db), StoreInv, NEW c, IsCheckpoint(c),
         db.durable <= c.target,
         IF c.target = 0 THEN c.earliest = 0 ELSE c.earliest < c.target,
         c.chunk = NoBytes => c.target = db.durable
  PROVE  /\ \A r \in CommittedRows(db.rows, c) :
              r.start \in Nat /\ r.end \in Nat /\ r.end <= c.target
         /\ c.target # 0 => \E r \in CommittedRows(db.rows, c) : r.end = c.target
<1> DEFINE new      == [start |-> c.start, end |-> c.target, bytes |-> c.chunk]
           inserted == IF c.chunk = NoBytes THEN db.rows ELSE db.rows \cup {new}
           kept     == {r \in inserted : r.end > c.earliest}
           cut(r)   == [start |-> c.earliest, end |-> r.end,
                        bytes |-> [o \in c.earliest .. r.end - 1 |-> r.bytes[o]]]
           trim(r)  == IF r.start < c.earliest THEN cut(r) ELSE r
<1>1. CommittedRows(db.rows, c) = {trim(r) : r \in kept}
  BY DEF CommittedRows
<1>2. /\ c.start \in Nat /\ c.target \in Nat /\ c.earliest \in Nat /\ db.durable \in Nat
  BY DEF IsCheckpoint, IsStore
<1>3. new.start = c.start /\ new.end = c.target
  OBVIOUS
<1> HIDE DEF new
<1>4. \A r \in inserted : r.start \in Nat /\ r.end \in Nat /\ r.end <= c.target
  BY <1>2, <1>3 DEF IsStore, StoreInv
<1>5. \A r : trim(r).end = r.end
  OBVIOUS
<1>6. \A r : r.start \in Nat => trim(r).start \in Nat
  BY <1>2
<1>7. c.target # 0 => \E r \in kept : r.end = c.target
  <2> SUFFICES ASSUME c.target # 0 PROVE \E r \in kept : r.end = c.target
    OBVIOUS
  <2>1. c.target > c.earliest
    BY <1>2
  <2>2. CASE c.chunk = NoBytes
    <3>1. PICK r \in db.rows : r.end = db.durable
      BY <2>2 DEF StoreInv
    <3> QED
      BY <2>1, <2>2, <3>1
  <2>3. CASE c.chunk # NoBytes
    <3>1. new \in inserted
      BY <2>3
    <3> QED
      BY <1>3, <2>1, <3>1
  <2> QED
    BY <2>2, <2>3
<1> HIDE DEF inserted, trim
<1> QED
  BY <1>1, <1>4, <1>5, <1>6, <1>7

(* commit_checkpoints: the stored offset moves to the checkpoint's target, *)
(* never back.                                                             *)
LEMMA CommitTransactionStep ==
  ASSUME DurabilityInv, CommitTransaction
  PROVE  DurabilityInv'
<1> DEFINE c    == checkpoint
           rows == CommittedRows(db.rows, c)
           done == [checkpoint EXCEPT !.phase = "committed"]
<1>1. /\ c.phase = "taken" /\ checkpoint' = done
      /\ db' = [earliest |-> c.earliest, durable |-> c.target,
                state |-> IF c.close THEN "closed" ELSE db.state, rows |-> rows]
      /\ UNCHANGED <<procVars, memVars, subs, session, acked, log, reopened, faults>>
  BY DEF CommitTransaction
<1>2. /\ IsCheckpoint(c) /\ IsStore(db) /\ StoreInv
  BY DEF DurabilityInv, TypeOK
<1>3. /\ c.start \in Nat /\ c.target \in Nat /\ c.earliest \in Nat /\ db.durable \in Nat
      /\ db.state \in {"open", "closed"}
  BY <1>2 DEF IsCheckpoint, IsStore
<1>4. /\ db.durable <= c.target /\ c.target <= next_offset
      /\ IF c.target = 0 THEN c.earliest = 0 ELSE c.earliest < c.target
      /\ c.chunk = NoBytes => c.target = db.durable
      /\ c.close => lifecycle = "closing" /\ c.target = next_offset
  BY <1>1 DEF DurabilityInv, CheckpointInv
<1>5. /\ \A r \in rows : r.start \in Nat /\ r.end \in Nat /\ r.end <= c.target
      /\ c.target # 0 => \E r \in rows : r.end = c.target
  BY <1>2, <1>4, CommittedRowsEnd
<1> HIDE DEF rows
<1>6. /\ db'.durable = c.target /\ db'.earliest = c.earliest /\ db'.rows = rows
      /\ IsStore(db')
  BY <1>1, <1>3, <1>5 DEF IsStore
<1>7. /\ IsCheckpoint(checkpoint') /\ checkpoint'.phase = "committed"
      /\ checkpoint'.target = c.target /\ checkpoint'.close = c.close
  BY <1>1, <1>2 DEF IsCheckpoint
<1>8. resident
  BY <1>1 DEF DurabilityInv, HandleInv
<1>9. TypeOK'
  BY <1>1, <1>6, <1>7 DEF DurabilityInv, TypeOK, procVars, memVars
<1>10. StoreInv'
  BY <1>4, <1>5, <1>6 DEF StoreInv
<1>11. LoaderInv'
  <2> SUFFICES ASSUME NEW l \in Loaders
               PROVE  /\ loader[l].durable <= db'.durable
                      /\ loader[l].earliest = 0 \/ loader[l].earliest < db'.durable
    BY <1>1 DEF LoaderInv, procVars
  <2>1. loader[l].durable \in Nat /\ loader[l].earliest \in Nat
    BY DEF DurabilityInv, TypeOK, LoaderRows
  <2>2. /\ loader[l].durable <= db.durable
        /\ loader[l].earliest = 0 \/ loader[l].earliest < db.durable
    BY DEF DurabilityInv, LoaderInv
  <2> QED
    BY <1>3, <1>4, <1>6, <2>1, <2>2
<1>12. HandleInv'
  <2>1. /\ durable_offset \in Nat /\ next_offset \in Nat
    BY DEF DurabilityInv, TypeOK
  <2>2. /\ durable_offset <= db'.durable /\ db'.durable <= next_offset
    BY <1>3, <1>4, <1>6, <1>8, <2>1 DEF DurabilityInv, HandleInv
  <2>3. ~retired
    BY <1>1 DEF DurabilityInv, HandleInv
  <2> QED
    BY <1>1, <1>8, <2>2, <2>3 DEF DurabilityInv, HandleInv, procVars, memVars
<1>13. CheckpointInv'
  BY <1>1, <1>4, <1>6, <1>7 DEF CheckpointInv, memVars
<1>14. NoFalseAck'
  <2>1. /\ acked \in Nat /\ durable_offset \in Nat
        /\ \A s \in Subs : \A i \in DOMAIN subs[s].queue : subs[s].queue[i].at \in Nat
    <3>1. ASSUME NEW s \in Subs, NEW i \in DOMAIN subs[s].queue
          PROVE  subs[s].queue[i].at \in Nat
      <4>1. subs[s].queue \in Seq(Events)
        BY DEF DurabilityInv, TypeOK, IsSub
      <4>2. subs[s].queue[i] \in Events
        BY <4>1
      <4> QED
        BY <4>2 DEF Events
    <3> QED
      BY <3>1 DEF DurabilityInv, TypeOK
  <2> QED
    BY <1>1, <1>3, <1>4, <1>6, <2>1 DEF DurabilityInv, NoFalseAck, procVars, memVars
<1> QED
  BY <1>9, <1>10, <1>11, <1>12, <1>13, <1>14 DEF DurabilityInv

(* commit_durable: the handle catches up with what was stored, tells its   *)
(* subscribers, and, after the final commit, is closed and retired.        *)
LEMMA CommitDurableStep ==
  ASSUME DurabilityInv, CommitDurable
  PROVE  DurabilityInv'
<1> DEFINE c == checkpoint
           after(s) == IF c.target > durable_offset THEN Offer(subs[s], Durable(c.target))
                                                    ELSE subs[s]
<1>1. /\ c.phase = "committed" /\ checkpoint' = NoCheckpoint
      /\ UNCHANGED <<procVars, ring, next_offset, session, acked, db, log, faults>>
  BY DEF CommitDurable
<1>2. resident /\ ~retired
  BY <1>1 DEF DurabilityInv, HandleInv
<1>3. /\ durable_offset' = MaxOf(durable_offset, c.target)
      /\ dirty_since' = (dirty_since /\ StillDirty(durable_offset'))
      /\ lifecycle' = IF c.close THEN "closed" ELSE lifecycle
      /\ retired' = (retired \/ c.close)
      /\ subs' = [s \in Subs |-> IF c.close THEN Offer(after(s), Closed(next_offset))
                                            ELSE after(s)]
  BY <1>2 DEF CommitDurable
<1>4. /\ c.target = db.durable /\ (c.close => c.target = next_offset)
      /\ db.durable \in Nat /\ durable_offset \in Nat /\ next_offset \in Nat
      /\ durable_offset <= db.durable /\ db.durable <= next_offset
      /\ c.close \in BOOLEAN
  BY <1>1, <1>2
  DEF DurabilityInv, TypeOK, IsStore, IsCheckpoint, HandleInv, CheckpointInv
<1>5. durable_offset' = db.durable
  BY <1>3, <1>4 DEF MaxOf
<1>6. SubsOK'
  <2>1. /\ Durable(c.target) \in Events /\ Durable(c.target).at = db.durable
        /\ Closed(next_offset) \in Events /\ Closed(next_offset).kind # "durable"
    BY <1>4 DEF Durable, Closed, Events
  <2>2. \A s \in Subs : IsSub(after(s)) /\ Covered(after(s), db.durable)
    BY <1>4, <2>1, DurabilityInvParts, OfferKeeps DEF SubsOK
  <2> HIDE DEF after
  <2> QED
    BY <1>1, <1>3, <2>1, <2>2, OfferKeeps DEF SubsOK
<1>7. IsCheckpoint(NoCheckpoint) /\ NoCheckpoint.phase = "none"
  BY DEF IsCheckpoint, NoCheckpoint
<1>8. TypeOK'
  <2>1. dirty_since' \in BOOLEAN /\ retired' \in BOOLEAN
        /\ lifecycle' \in {"open", "closing", "closed"}
    BY <1>3 DEF DurabilityInv, TypeOK
  <2>2. reopened' \in BOOLEAN
    BY DEF CommitDurable, DurabilityInv, TypeOK
  <2> HIDE DEF after
  <2> QED
    BY <1>1, <1>4, <1>5, <1>6, <1>7, <2>1, <2>2 DEF DurabilityInv, TypeOK, SubsOK, procVars
<1>9. StoreInv' /\ LoaderInv' /\ CheckpointInv'
  BY <1>1, <1>7 DEF DurabilityInv, StoreInv, LoaderInv, CheckpointInv, procVars
<1>10. HandleInv'
  <2>1. retired' => lifecycle' = "closed" /\ next_offset <= durable_offset'
    BY <1>2, <1>3, <1>4, <1>5
  <2> QED
    BY <1>1, <1>2, <1>4, <1>5, <1>7, <2>1 DEF DurabilityInv, HandleInv, procVars
<1>11. NoFalseAck'
  BY <1>1, <1>4, <1>5, <1>6 DEF DurabilityInv, NoFalseAck, SubsOK, Covered, procVars
<1> QED
  BY <1>8, <1>9, <1>10, <1>11 DEF DurabilityInv

-----------------------------------------------------------------------------
(* Crash, the initial state, and the theorems *)

(* A crash takes the stream back to what is stored, and no further. *)
LEMMA CrashKeepsStored ==
  ASSUME DurabilityInv, Crash
  PROVE  /\ log' \in Seq(Byte) /\ Len(log') = db.durable
         /\ \A i \in 1 .. db.durable : i \in DOMAIN log' /\ log'[i] = log[i]
<1>1. log' = SubSeq(log, 1, db.durable)
  BY DEF Crash
<1>2. log \in Seq(Byte) /\ db.durable \in Nat
  BY DEF DurabilityInv, TypeOK, IsStore
<1>3. db.durable <= Len(log)
  <2>1. CASE resident
    BY <2>1 DEF DurabilityInv, HandleInv
  <2>2. CASE ~resident
    BY <1>2, <2>2 DEF DurabilityInv, HandleInv
  <2> QED
    BY <2>1, <2>2
<1>4. /\ SubSeq(log, 1, db.durable) \in Seq(Byte)
      /\ Len(SubSeq(log, 1, db.durable)) = db.durable
      /\ \A i \in 1 .. db.durable : SubSeq(log, 1, db.durable)[i] = log[i]
  BY <1>2, <1>3
<1> QED
  BY <1>1, <1>2, <1>4

(* The process dies: all that is in memory is reset, and the database is   *)
(* what it was.                                                            *)
LEMMA CrashStep ==
  ASSUME DurabilityInv, Crash
  PROVE  DurabilityInv'
<1>1. SubsOK /\ SessionsOK
  BY DurabilityInvParts
<1>2. log' \in Seq(Byte) /\ Len(log') = db.durable
  BY CrashKeepsStored
<1>3. IsRing(ring') /\ ring'.end = 0
  BY NewRingWindow DEF Crash
<1>4. SubsOK'
  <2>1. \A s \in Subs : subs[s].pos \in Nat
    BY <1>1 DEF SubsOK, IsSub
  <2> QED
    BY <2>1, UnsubscribedKeeps DEF Crash, SubsOK
<1>5. /\ IdleFrame \in FrameStates /\ IdleFrame.pc = "idle" /\ NoRow \in LoaderRows
      /\ IsCheckpoint(NoCheckpoint) /\ NoCheckpoint.phase = "none"
  BY DEF IdleFrame, FrameStates, NoRow, LoaderRows, IsCheckpoint, NoCheckpoint
<1>6. db.durable \in Nat
  BY DEF DurabilityInv, TypeOK, IsStore
<1>7. TypeOK'
  <2>1. /\ loader' \in [Loaders -> LoaderRows] /\ session' \in [Sessions -> FrameStates]
        /\ IsCheckpoint(checkpoint')
    BY <1>5 DEF Crash
  <2>2. /\ up' \in BOOLEAN /\ resident' \in BOOLEAN /\ next_offset' \in Nat
        /\ durable_offset' \in Nat /\ dirty_since' \in BOOLEAN /\ retired' \in BOOLEAN
        /\ lifecycle' \in {"open", "closing", "closed"}
    BY DEF Crash
  <2>3. /\ faults' \in Nat /\ acked' \in Nat /\ replay_capacity' \in Capacities
        /\ reopened' \in BOOLEAN /\ IsStore(db')
    BY DEF DurabilityInv, TypeOK, Crash
  <2> QED
    BY <1>2, <1>3, <1>4, <2>1, <2>2, <2>3 DEF TypeOK, SubsOK
<1>8. StoreInv'
  BY DEF DurabilityInv, StoreInv, Crash
<1>9. LoaderInv'
  BY <1>6 DEF LoaderInv, Crash, NoRow
<1>10. HandleInv' /\ CheckpointInv'
  BY <1>2, <1>3, <1>5 DEF HandleInv, CheckpointInv, Crash
<1>11. NoFalseAck'
  BY <1>4 DEF DurabilityInv, NoFalseAck, SubsOK, Covered, Crash
<1> QED
  BY <1>7, <1>8, <1>9, <1>10, <1>11 DEF DurabilityInv

(* open_terminal has just inserted the row: nothing is stored or loaded. *)
LEMMA InitDurability == Init => DurabilityInv
<1> SUFFICES ASSUME Init PROVE DurabilityInv
  OBVIOUS
<1>1. IsRing(ring) /\ ring.end = 0
  BY NewRingWindow DEF Init
<1>2. SubsOK
  BY UnsubscribedKeeps DEF Init, SubsOK
<1>3. /\ IdleFrame \in FrameStates /\ IdleFrame.pc = "idle" /\ NoRow \in LoaderRows
      /\ IsCheckpoint(NoCheckpoint) /\ NoCheckpoint.phase = "none"
  BY DEF IdleFrame, FrameStates, NoRow, LoaderRows, IsCheckpoint, NoCheckpoint
<1>4. db.durable = 0 /\ db.earliest = 0 /\ db.rows = {} /\ IsStore(db)
  BY DEF Init, IsStore
<1>5. << >> \in Seq(Byte) /\ Len(<< >>) = 0
  OBVIOUS
<1>6. TypeOK
  BY <1>1, <1>2, <1>3, <1>4, <1>5 DEF Init, TypeOK, SubsOK
<1>7. StoreInv /\ LoaderInv
  BY <1>4 DEF Init, StoreInv, LoaderInv, NoRow
<1>8. HandleInv /\ CheckpointInv
  BY <1>1, <1>3, <1>4, <1>5 DEF Init, HandleInv, CheckpointInv
<1>9. NoFalseAck
  BY <1>2, <1>4 DEF Init, NoFalseAck, SubsOK, Covered
<1> QED
  BY <1>6, <1>7, <1>8, <1>9 DEF DurabilityInv

(* Every action of the relay preserves the invariant. *)
LEMMA NextDurability == DurabilityInv /\ [Next]_vars => DurabilityInv'
<1> SUFFICES ASSUME DurabilityInv, [Next]_vars PROVE DurabilityInv'
  OBVIOUS
<1>1. CASE UNCHANGED vars
  <2>1. SubsOK' /\ SessionsOK'
    BY <1>1, DurabilityInvParts DEF SubsOK, SessionsOK, vars, procVars
  <2> QED
    BY <1>1, <2>1, ConnectionStep DEF vars
<1>2. ASSUME NEW l \in Loaders, ReadRow(l) \/ InsertHandle(l) PROVE DurabilityInv'
  BY <1>2, ReadRowStep, InsertHandleStep
<1>3. CASE EvictRetired
  BY <1>3, EvictRetiredStep
<1>4. CASE (\E c \in Capacities : ChangeCapacity(c)) \/ ShrinkToCapacity
  BY <1>4, CapacityStep
<1>5. ASSUME NEW p \in Sessions,
             \/ \E expected \in {durable_offset} \cup next_offset .. MaxOffset, payload \in Payloads :
                  OnBinary(p, expected, payload)
             \/ WaitEnds(p)
             \/ AppendFrame(p)
      PROVE  DurabilityInv'
  BY <1>5, FrameStep, AppendFrameStep
<1>6. CASE SendAck \/ BeginClose
  BY <1>6, AckAndCloseStep
<1>7. CASE Resize \/ TerminateSubscribers
  BY <1>7, BroadcastStep
<1>8. CASE Checkpointing
  BY <1>8, TakeCheckpointStep, CommitTransactionStep, CommitDurableStep DEF Checkpointing
<1>9. CASE CommitFails \/ Recover
  BY <1>9, FailAndRecoverStep
<1>10. ASSUME NEW s \in Subs,
              \/ \E requested \in {ring.earliest, subs[s].pos} : Subscribe(s, requested)
              \/ SendReplay(s) \/ Deliver(s) \/ EndOfStream(s) \/ Disconnect(s)
       PROVE  DurabilityInv'
  BY <1>10, MirrorStep
<1>11. CASE Crash
  BY <1>11, CrashStep
<1> QED
  BY <1>1, <1>2, <1>3, <1>4, <1>5, <1>6, <1>7, <1>8, <1>9, <1>10, <1>11 DEF Next

(* The inductive invariant holds in every reachable state of the relay's   *)
(* terminal: handle, checkpoint, rows and loaders agree on where the       *)
(* stored output ends.                                                     *)
THEOREM DurabilityHolds == Spec => []DurabilityInv
  BY InitDurability, NextDurability, PTL DEF Spec

(* Every variable of the relay's terminal keeps its shape; the replay ring *)
(* stays a window within its capacity, subscriber queues within bounds.    *)
THEOREM TypeCorrect == Spec => []TypeOK
<1>1. DurabilityInv => TypeOK
  BY DEF DurabilityInv
<1> QED
  BY <1>1, DurabilityHolds, PTL

(* output.ack, durable notices and the handle's durable_offset never       *)
(* exceed what a committed transaction has stored, whatever the            *)
(* interleaving of sessions, checkpoints, loads, evictions and crashes.    *)
THEOREM NoFalseAcknowledgement == Spec => []NoFalseAck
<1>1. DurabilityInv => NoFalseAck
  BY DEF DurabilityInv
<1> QED
  BY <1>1, DurabilityHolds, PTL

(* No step of the relay, a crash included, loses or changes a byte that    *)
(* was acknowledged durable.                                               *)
THEOREM AcknowledgedBytesSurvive == Spec => AckedBytesSurvive
<1> DEFINE Kept == \A i \in 1 .. acked : i \in DOMAIN log' /\ log'[i] = log[i]
<1>1. ASSUME DurabilityInv, [Next]_vars PROVE [Kept]_vars
  <2> SUFFICES ASSUME Next PROVE Kept
    BY <1>1
  <2>1. /\ log \in Seq(Byte) /\ acked \in Nat /\ db.durable \in Nat
        /\ acked <= db.durable /\ db.durable <= Len(log)
    <3>1. /\ log \in Seq(Byte) /\ acked \in Nat /\ db.durable \in Nat
          /\ acked <= db.durable
      BY <1>1 DEF DurabilityInv, TypeOK, IsStore, NoFalseAck
    <3>2. db.durable <= Len(log)
      <4>1. CASE resident
        BY <1>1, <4>1 DEF DurabilityInv, HandleInv
      <4>2. CASE ~resident
        BY <1>1, <3>1, <4>2 DEF DurabilityInv, HandleInv
      <4> QED
        BY <4>1, <4>2
    <3> QED
      BY <3>1, <3>2
  <2>2. CASE log' = log
    BY <2>1, <2>2
  <2>3. ASSUME NEW payload \in Seq(Byte), log' = log \o payload
        PROVE  Kept
    BY <2>1, <2>3, ConcatProperties
  <2>4. CASE Crash
    BY <1>1, <2>1, <2>4, CrashKeepsStored
  <2>5. ASSUME NEW p \in Sessions, AppendFrame(p)
        PROVE  \/ log' = log
               \/ \E payload \in Seq(Byte) : log' = log \o payload
    <3>1. session[p].payload \in Seq(Byte)
      BY <1>1 DEF DurabilityInv, TypeOK, FrameStates
    <3> QED
      BY <2>5, <3>1 DEF AppendFrame
  <2>6. Crash \/ log' = log \/ \E p \in Sessions : AppendFrame(p)
    BY DEF Next, ReadRow, InsertHandle, EvictRetired, ChangeCapacity, ShrinkToCapacity,
           OnBinary, WaitEnds, SendAck, Resize, BeginClose, Checkpointing,
           TakeCheckpoint, CommitTransaction, CommitDurable, CommitFails, Subscribe,
           SendReplay, Deliver, EndOfStream, Disconnect, TerminateSubscribers, Recover
  <2> QED
    BY <2>2, <2>3, <2>4, <2>5, <2>6
<1> QED
  BY <1>1, DurabilityHolds, PTL DEF Spec, AckedBytesSurvive

-----------------------------------------------------------------------------
(* Which bytes are where: the replay ring, a checkpoint in flight and the  *)
(* stored rows hold the bytes of the one stream.  DurabilityInv, which     *)
(* orders the offsets, is extended here by the bytes.                      *)

(* What is filed under the offsets from .. to - 1 is what was accepted     *)
(* there.                                                                  *)
Genuine(bytes, from, to) == \A o \in from .. to - 1 : bytes[o] = log[o + 1]

(* The stored rows cover the stored window with the accepted bytes. *)
RowsInv ==
  /\ db.earliest <= db.durable /\ db.durable <= Len(log)
  /\ \A r \in db.rows :
       /\ db.earliest <= r.start /\ r.start < r.end /\ r.end <= db.durable
       /\ Genuine(r.bytes, r.start, r.end)
  /\ \A o \in db.earliest .. db.durable - 1 : \E r \in db.rows : r.start <= o /\ o < r.end

(* The handle's window begins no earlier than the stored one, which begins *)
(* no earlier than in any row that was read before.                        *)
WindowInv ==
  /\ \A l \in Loaders : loader[l].busy => loader[l].earliest <= db.earliest
  /\ resident => db.earliest <= ring.earliest /\ Genuine(ring.bytes, ring.earliest, ring.end)

(* A checkpoint adjoins what is stored, or replaces it. *)
ChunkInv ==
  checkpoint.phase = "taken" =>
    /\ db.earliest <= checkpoint.earliest /\ checkpoint.earliest <= ring.earliest
    /\ checkpoint.earliest <= checkpoint.start
    /\ checkpoint.start <= db.durable \/ checkpoint.start = checkpoint.earliest
    /\ checkpoint.chunk # NoBytes =>
         /\ checkpoint.start < checkpoint.target
         /\ Genuine(checkpoint.chunk, checkpoint.start, checkpoint.target)

ContentInv == RowsInv /\ WindowInv /\ ChunkInv

-----------------------------------------------------------------------------
(* The bytes in the ring *)

(* The stream with a payload behind it. *)
LEMMA JoinedStream ==
  ASSUME NEW Value, NEW stream \in Seq(Value), NEW payload \in Seq(Value)
  PROVE  /\ Len(stream \o payload) = Len(stream) + Len(payload)
         /\ \A i \in 1 .. Len(stream) : (stream \o payload)[i] = stream[i]
         /\ \A i \in 1 .. Len(payload) : (stream \o payload)[Len(stream) + i] = payload[i]
  OBVIOUS

(* VecDeque::drain leaves every byte under its offset. *)
LEMMA DropOldestBytes ==
  ASSUME NEW w, NEW n \in Nat,
         w \in [earliest : Nat, end : Nat, capacity : Nat \ {0}, bytes : {w.bytes}]
  PROVE  /\ DropOldest(w, n).earliest = w.earliest + n
         /\ DropOldest(w, n).end = w.end
         /\ \A o \in w.earliest + n .. w.end - 1 :
              DropOldest(w, n).bytes[o] = w.bytes[o]
<1> DEFINE bytes == [o \in w.earliest + n .. w.end - 1 |-> w.bytes[o]]
<1>1. \A o \in w.earliest + n .. w.end - 1 : bytes[o] = w.bytes[o]
  OBVIOUS
<1>2. DropOldest(w, n) = [w EXCEPT !.earliest = w.earliest + n, !.bytes = bytes]
  BY DEF DropOldest
<1> HIDE DEF bytes
<1> QED
  BY <1>1, <1>2

(* Ring::from_retained keeps a suffix of what was stored. *)
LEMMA FromRetainedBytes ==
  ASSUME NEW capacity \in Nat, NEW earliest \in Nat, NEW end \in Nat, NEW retained,
         earliest <= end
  PROVE  LET r == FromRetained(capacity, earliest, end, retained)
         IN  /\ earliest <= r.earliest /\ r.end = end
             /\ \A o \in r.earliest .. end - 1 : r.bytes[o] = retained[o]
<1> DEFINE w == [earliest |-> earliest, end |-> end,
                 capacity |-> MaxOf(capacity, 1), bytes |-> retained]
           n == SaturatingSub(RetainedLen(w), w.capacity)
<1>1. /\ w.earliest = earliest /\ w.end = end
      /\ w.capacity = MaxOf(capacity, 1) /\ w.bytes = retained
      /\ w.capacity \in Nat \ {0}
  BY DEF MaxOf
<1>2. n \in Nat
  BY <1>1 DEF SaturatingSub, RetainedLen
<1>3. w \in [earliest : Nat, end : Nat, capacity : Nat \ {0}, bytes : {w.bytes}]
  BY <1>1
<1>4. FromRetained(capacity, earliest, end, retained) = DropOldest(w, n)
  BY DEF FromRetained
<1> HIDE DEF w, n
<1>5. /\ DropOldest(w, n).earliest = w.earliest + n /\ DropOldest(w, n).end = w.end
      /\ \A o \in w.earliest + n .. w.end - 1 :
           DropOldest(w, n).bytes[o] = w.bytes[o]
  BY <1>2, <1>3, DropOldestBytes
<1> QED
  BY <1>1, <1>2, <1>4, <1>5

(* Ring::set_capacity forgets old bytes and moves none. *)
LEMMA SetCapacityBytes ==
  ASSUME NEW w, IsRing(w), NEW capacity \in Nat
  PROVE  LET r == SetCapacity(w, capacity)
         IN  /\ w.earliest <= r.earliest /\ r.end = w.end
             /\ \A o \in r.earliest .. r.end - 1 : r.bytes[o] = w.bytes[o]
<1> DEFINE cap == MaxOf(capacity, 1)
           wide == [w EXCEPT !.capacity = cap]
           n    == SaturatingSub(RetainedLen(w), cap)
<1>1. cap \in Nat \ {0}
  BY DEF MaxOf
<1>2. CASE cap = w.capacity
  BY <1>2 DEF SetCapacity, IsRing
<1>3. CASE cap # w.capacity
  <2>1. SetCapacity(w, capacity) = DropOldest(wide, n)
    BY <1>3 DEF SetCapacity
  <2> HIDE DEF cap
  <2>2. /\ wide \in [earliest : Nat, end : Nat, capacity : Nat \ {0}, bytes : {wide.bytes}]
        /\ wide.earliest = w.earliest /\ wide.end = w.end /\ wide.bytes = w.bytes
        /\ w.earliest \in Nat /\ w.end \in Nat
    BY <1>1 DEF IsRing
  <2>3. n \in Nat
    BY <1>1 DEF IsRing, SaturatingSub, RetainedLen
  <2> HIDE DEF wide, n
  <2>4. /\ DropOldest(wide, n).earliest = wide.earliest + n
        /\ DropOldest(wide, n).end = wide.end
        /\ \A o \in wide.earliest + n .. wide.end - 1 :
             DropOldest(wide, n).bytes[o] = wide.bytes[o]
    BY <2>2, <2>3, DropOldestBytes
  <2> QED
    BY <2>1, <2>2, <2>3, <2>4
<1> QED
  BY <1>2, <1>3

(* Ring::append files the payload behind what it keeps. *)
LEMMA AppendBytesBytes ==
  ASSUME NEW Value, NEW w, IsRing(w), NEW payload \in Seq(Value)
  PROVE  LET r == AppendBytes(w, payload)
         IN  /\ w.earliest <= r.earliest /\ r.end = w.end + Len(payload)
             /\ \A o \in r.earliest .. r.end - 1 :
                  r.bytes[o] = IF o < w.end THEN w.bytes[o]
                                               ELSE payload[o - w.end + 1]
<1> DEFINE newEnd == w.end + Len(payload)
           n      == SaturatingSub(RetainedLen(w) + Len(payload), w.capacity)
           kept   == DropOldest(w, n)
<1>1. /\ w.earliest \in Nat /\ w.end \in Nat /\ w.capacity \in Nat \ {0}
      /\ Len(payload) \in Nat /\ w.earliest <= w.end
      /\ w.end - w.earliest <= w.capacity
      /\ w \in [earliest : Nat, end : Nat, capacity : Nat \ {0}, bytes : {w.bytes}]
  BY DEF IsRing, RetainedLen
<1>2. CASE payload = << >>
  BY <1>1, <1>2 DEF AppendBytes
<1>3. CASE payload # << >> /\ Len(payload) >= w.capacity
  <2> DEFINE tail == [o \in newEnd - w.capacity .. newEnd - 1
                        |-> payload[o - w.end + 1]]
             res  == [w EXCEPT !.earliest = newEnd - w.capacity,
                                  !.end = newEnd, !.bytes = tail]
  <2>1. AppendBytes(w, payload) = res
    BY <1>3 DEF AppendBytes
  <2>2. \A o \in newEnd - w.capacity .. newEnd - 1 : tail[o] = payload[o - w.end + 1]
    OBVIOUS
  <2>3. w.end <= newEnd - w.capacity /\ newEnd \in Nat
    BY <1>1, <1>3
  <2> HIDE DEF tail, newEnd
  <2>4. res.earliest = newEnd - w.capacity /\ res.end = newEnd /\ res.bytes = tail
    BY <1>1
  <2> HIDE DEF res
  <2>5. \A o \in res.earliest .. res.end - 1 :
          res.bytes[o] = IF o < w.end THEN w.bytes[o] ELSE payload[o - w.end + 1]
    BY <1>1, <2>2, <2>3, <2>4
  <2> QED
    BY <1>1, <2>1, <2>3, <2>4, <2>5 DEF newEnd
<1>4. CASE payload # << >> /\ ~(Len(payload) >= w.capacity)
  <2> DEFINE joined == [o \in kept.earliest .. newEnd - 1
                          |-> IF o < w.end THEN w.bytes[o]
                                              ELSE payload[o - w.end + 1]]
             res == [kept EXCEPT !.end = newEnd, !.bytes = joined]
  <2>1. n \in Nat
    BY <1>1 DEF SaturatingSub, RetainedLen
  <2>2. AppendBytes(w, payload) = res
    BY <1>4 DEF AppendBytes
  <2>3. \A o \in kept.earliest .. newEnd - 1 :
          joined[o] = IF o < w.end THEN w.bytes[o] ELSE payload[o - w.end + 1]
    OBVIOUS
  <2> HIDE DEF joined, newEnd, n
  <2>4. /\ kept.earliest = w.earliest + n
        /\ res.earliest = kept.earliest /\ res.end = newEnd /\ res.bytes = joined
    <3> DEFINE bytes == [o \in w.earliest + n .. w.end - 1 |-> w.bytes[o]]
    <3>1. kept = [w EXCEPT !.earliest = w.earliest + n, !.bytes = bytes]
      BY DEF DropOldest
    <3> HIDE DEF bytes, kept
    <3> QED
      BY <1>1, <3>1
  <2> HIDE DEF kept, res
  <2> QED
    BY <1>1, <2>1, <2>2, <2>3, <2>4 DEF newEnd
<1> QED
  BY <1>2, <1>3, <1>4

-----------------------------------------------------------------------------
(* The steps *)

(* What the offsets' invariant says where the bytes need it. *)
LEMMA Offsets ==
  ASSUME DurabilityInv
  PROVE  /\ IsRing(ring) /\ ring.earliest \in Nat /\ ring.end \in Nat
         /\ ring.earliest <= ring.end /\ ring.end = next_offset
         /\ db.earliest \in Nat /\ db.durable \in Nat /\ log \in Seq(Byte) /\ Len(log) \in Nat
         /\ next_offset \in Nat /\ durable_offset \in Nat
         /\ checkpoint.start \in Nat /\ checkpoint.earliest \in Nat /\ checkpoint.target \in Nat
         /\ checkpoint.close \in BOOLEAN
         /\ checkpoint.phase # "none" => resident
<1>1. log \in Seq(Byte) => Len(log) \in Nat
  OBVIOUS
<1> QED
  BY <1>1 DEF DurabilityInv, TypeOK, IsRing, IsStore, IsCheckpoint, HandleInv

LEMMA Rows ==
  ASSUME DurabilityInv
  PROVE  /\ \A r \in db.rows : r.start \in Nat /\ r.end \in Nat
         /\ \A l \in Loaders : loader[l] \in LoaderRows
  BY DEF DurabilityInv, TypeOK, IsStore

(* Steps that touch no byte. *)
LEMMA ContentUnchanged ==
  ASSUME ContentInv, UNCHANGED <<loader, resident, ring, checkpoint, db, log>>
  PROVE  ContentInv'
<1>1. RowsInv'
  BY DEF ContentInv, RowsInv, Genuine
<1>2. WindowInv'
  BY DEF ContentInv, WindowInv, Genuine
<1>3. ChunkInv'
  BY DEF ContentInv, ChunkInv, Genuine, NoBytes
<1> QED
  BY <1>1, <1>2, <1>3 DEF ContentInv

(* The checkpoint is over, or the handle is. *)
LEMMA ContentDropped ==
  ASSUME ContentInv, UNCHANGED <<loader, ring, db, log>>,
         resident' => resident, checkpoint'.phase # "taken"
  PROVE  ContentInv'
<1>1. RowsInv'
  BY DEF ContentInv, RowsInv, Genuine
<1>2. WindowInv'
  BY DEF ContentInv, WindowInv, Genuine
<1>3. ChunkInv'
  BY DEF ChunkInv
<1> QED
  BY <1>1, <1>2, <1>3 DEF ContentInv

(* get_or_load reads the row. *)
LEMMA ReadRowContent ==
  ASSUME DurabilityInv, ContentInv, NEW l \in Loaders, ReadRow(l)
  PROVE  ContentInv'
<1>1. /\ UNCHANGED <<resident, ring, checkpoint, db, log>>
      /\ loader' = [loader EXCEPT ![l] = [busy |-> TRUE, earliest |-> db.earliest,
                                          durable |-> db.durable, state |-> db.state]]
  BY DEF ReadRow, memVars
<1>2. RowsInv'
  BY <1>1 DEF ContentInv, RowsInv, Genuine
<1>3. WindowInv'
  <2>1. db.earliest <= db.earliest
    BY Offsets
  <2>2. \A k \in Loaders : loader'[k].busy => loader'[k].earliest <= db.earliest
    BY <1>1, <2>1 DEF ContentInv, WindowInv, DurabilityInv, TypeOK
  <2> QED
    BY <1>1, <2>2 DEF ContentInv, WindowInv, Genuine
<1>4. ChunkInv'
  BY <1>1 DEF ContentInv, ChunkInv, Genuine, NoBytes
<1> QED
  BY <1>2, <1>3, <1>4 DEF ContentInv

(* load_terminal_output refuses a row whose window has been moved past     *)
(* since, and otherwise returns the accepted bytes.                        *)
LEMMA LoadedIsGenuine ==
  ASSUME DurabilityInv, ContentInv, NEW earliest \in Nat, earliest <= db.earliest,
         ~HasGap(earliest)
  PROVE  /\ earliest = db.earliest /\ earliest <= db.durable
         /\ LoadedEnd(earliest) = db.durable
         /\ Genuine(LoadedBytes(earliest), earliest, LoadedEnd(earliest))
<1>1. /\ \A r \in db.rows : r.start \in Nat /\ r.end \in Nat /\ db.earliest <= r.start
           /\ r.start < r.end /\ r.end <= db.durable /\ Genuine(r.bytes, r.start, r.end)
      /\ \A o \in db.earliest .. db.durable - 1 : \E r \in db.rows : r.start <= o /\ o < r.end
  BY Offsets, Rows DEF ContentInv, RowsInv
<1>2. db.earliest \in Nat /\ db.durable \in Nat
  BY Offsets
<1>3. earliest = db.earliest
  <2> SUFFICES ASSUME earliest < db.earliest PROVE FALSE
    BY <1>2
  <2>1. db.earliest < db.durable
    BY <1>2 DEF DurabilityInv, StoreInv
  <2>2. PICK r \in db.rows : r.start <= db.earliest /\ db.earliest < r.end
    BY <1>1, <1>2, <2>1
  <2>3. r.start = db.earliest /\ r \in Stored(earliest)
    BY <1>1, <1>2, <2>2 DEF Stored
  <2>4. \A q \in Stored(earliest) : ~(q.start < r.start)
    BY <1>1, <1>2, <2>3 DEF Stored
  <2>5. HasGap(earliest)
    BY <1>2, <2>3, <2>4 DEF HasGap
  <2> QED
    BY <2>5
<1>4. LoadedEnd(earliest) = db.durable
  BY <1>2, <1>3, LoadedEndIsDurable DEF DurabilityInv, TypeOK, StoreInv
<1>5. ASSUME NEW o \in earliest .. LoadedEnd(earliest) - 1
      PROVE  LoadedBytes(earliest)[o] = log[o + 1]
  <2> DEFINE row == CHOOSE r \in Stored(earliest) : r.start <= o /\ o < r.end
  <2>1. \E r \in Stored(earliest) : r.start <= o /\ o < r.end
    BY <1>1, <1>2, <1>3, <1>4, <1>5 DEF Stored
  <2>2. row \in Stored(earliest) /\ row.start <= o /\ o < row.end
    BY <2>1
  <2>3. LoadedBytes(earliest)[o] = row.bytes[o]
    BY <1>5 DEF LoadedBytes
  <2> HIDE DEF row
  <2>4. row \in db.rows /\ o \in row.start .. row.end - 1
    BY <1>1, <1>2, <1>4, <1>5, <2>2 DEF Stored
  <2> QED
    BY <1>1, <2>3, <2>4 DEF Genuine
<1> QED
  BY <1>3, <1>4, <1>5 DEF Genuine, ContentInv, RowsInv

(* insert_or_load_handle: the window of a fresh handle holds the accepted  *)
(* bytes, however long ago its row was read.                               *)
LEMMA InsertHandleContent ==
  ASSUME DurabilityInv, ContentInv, NEW l \in Loaders, InsertHandle(l)
  PROVE  ContentInv'
<1>1. /\ UNCHANGED <<checkpoint, db, log>> /\ loader[l].busy
      /\ loader' = [loader EXCEPT ![l] = NoRow]
  BY DEF InsertHandle
<1>2. RowsInv'
  BY <1>1 DEF ContentInv, RowsInv, Genuine
<1>3. \A k \in Loaders : loader'[k].busy => loader'[k].earliest <= db.earliest
  BY <1>1 DEF ContentInv, WindowInv, DurabilityInv, TypeOK, NoRow
<1>4. CASE UNCHANGED <<resident, memVars>>
  <2>1. WindowInv'
    BY <1>1, <1>3, <1>4 DEF ContentInv, WindowInv, Genuine, memVars
  <2>2. ChunkInv'
    BY <1>1, <1>4 DEF ContentInv, ChunkInv, Genuine, NoBytes, memVars
  <2> QED
    BY <1>2, <2>1, <2>2 DEF ContentInv
<1>5. CASE ~resident /\ resident' = TRUE /\ FromRow(loader[l]) /\ ~HasGap(loader[l].earliest)
  <2> DEFINE e == loader[l].earliest
             bytes == LoadedBytes(e)
             end == LoadedEnd(e)
  <2>1. /\ e \in Nat /\ e <= db.earliest /\ replay_capacity \in Nat
        /\ db.earliest \in Nat /\ db.durable \in Nat
    BY <1>1, Offsets, CapacitiesAssumption
    DEF ContentInv, WindowInv, LoaderRows, DurabilityInv, TypeOK
  <2>2. e = db.earliest /\ Genuine(bytes, e, end)
    BY <1>5, <2>1, LoadedIsGenuine
  <2>3. end = db.durable /\ e <= end
    BY <1>5, <2>1, LoadedIsGenuine
  <2>4. ring' = FromRetained(replay_capacity, e, end, bytes)
    BY <1>5 DEF FromRow
  <2> HIDE DEF e, bytes, end
  <2>5. /\ e <= ring'.earliest /\ ring'.end = end
        /\ \A o \in ring'.earliest .. end - 1 : ring'.bytes[o] = bytes[o]
    <3>1. end \in Nat
      BY <2>1, <2>3
    <3>2. LET r == FromRetained(replay_capacity, e, end, bytes)
          IN  /\ e <= r.earliest /\ r.end = end
              /\ \A o \in r.earliest .. end - 1 : r.bytes[o] = bytes[o]
      BY <2>1, <2>3, <3>1, FromRetainedBytes
    <3> QED
      BY <2>4, <3>2, Zenon
  <2>6. ring'.earliest \in Nat
    BY InsertHandleStep, Offsets DEF DurabilityInv, TypeOK, IsRing
  <2>7. Genuine(ring'.bytes, ring'.earliest, ring'.end)
    <3> SUFFICES ASSUME NEW o \in ring'.earliest .. ring'.end - 1
                 PROVE  ring'.bytes[o] = log[o + 1]
      BY DEF Genuine
    <3>1. o \in ring'.earliest .. end - 1 /\ o \in e .. end - 1
      BY <2>1, <2>3, <2>5, <2>6
    <3> QED
      BY <2>2, <2>5, <3>1 DEF Genuine
  <2>8. WindowInv'
    BY <1>1, <1>3, <2>2, <2>5, <2>7 DEF WindowInv, Genuine
  <2>9. ChunkInv'
    BY <1>1, <1>5 DEF DurabilityInv, HandleInv, ChunkInv
  <2> QED
    BY <1>2, <2>8, <2>9 DEF ContentInv
<1> QED
  BY <1>4, <1>5 DEF InsertHandle

(* shrink_to_capacity. *)
LEMMA ShrinkContent ==
  ASSUME DurabilityInv, ContentInv, ShrinkToCapacity
  PROVE  ContentInv'
<1>1. /\ UNCHANGED <<loader, resident, checkpoint, db, log>>
      /\ ring' = SetCapacity(ring, replay_capacity)
  BY DEF ShrinkToCapacity, procVars
<1>2. replay_capacity \in Nat
  BY CapacitiesAssumption DEF DurabilityInv, TypeOK
<1>3. /\ ring.earliest <= ring'.earliest /\ ring'.end = ring.end
      /\ \A o \in ring'.earliest .. ring'.end - 1 : ring'.bytes[o] = ring.bytes[o]
      /\ IsRing(ring')
  BY <1>1, <1>2, Offsets, SetCapacityBytes, SetCapacityWindow
<1>4. ring'.earliest \in Nat /\ ring'.end \in Nat
  BY <1>3 DEF IsRing
<1>5. RowsInv'
  BY <1>1 DEF ContentInv, RowsInv, Genuine
<1>6. resident => db.earliest <= ring'.earliest /\ Genuine(ring'.bytes, ring'.earliest, ring'.end)
  <2> SUFFICES ASSUME resident
               PROVE  db.earliest <= ring'.earliest
                      /\ Genuine(ring'.bytes, ring'.earliest, ring'.end)
    OBVIOUS
  <2>1. db.earliest <= ring.earliest /\ Genuine(ring.bytes, ring.earliest, ring.end)
    BY DEF ContentInv, WindowInv
  <2>2. db.earliest \in Nat /\ ring.earliest \in Nat /\ ring.end \in Nat
    BY Offsets
  <2>3. db.earliest <= ring'.earliest
    BY <1>3, <1>4, <2>1, <2>2
  <2>4. \A o \in ring'.earliest .. ring'.end - 1 : o \in ring.earliest .. ring.end - 1
    BY <1>3, <1>4, <2>2
  <2> QED
    BY <1>3, <2>1, <2>3, <2>4 DEF Genuine
<1>7. WindowInv'
  BY <1>1, <1>6 DEF ContentInv, WindowInv, Genuine
<1>8. checkpoint.phase = "taken" => checkpoint.earliest <= ring'.earliest
  BY <1>3, <1>4, Offsets DEF ContentInv, ChunkInv
<1>9. ChunkInv'
  BY <1>1, <1>8 DEF ContentInv, ChunkInv, Genuine, NoBytes
<1> QED
  BY <1>5, <1>7, <1>9 DEF ContentInv

(* TerminalHandle::append: the accepted payload is filed where the stream  *)
(* ended, in the window as in the stream.                                  *)
LEMMA AppendFrameContent ==
  ASSUME DurabilityInv, ContentInv, NEW p \in Sessions, AppendFrame(p)
  PROVE  ContentInv'
<1>1. UNCHANGED <<loader, resident, checkpoint, db>>
  BY DEF AppendFrame, procVars
<1>2. CASE ~Accepts(session[p])
  BY <1>1, <1>2, ContentUnchanged DEF AppendFrame
<1>3. CASE Accepts(session[p])
  <2>1. PICK payload \in Seq(Byte), capacity \in Nat :
          /\ ring' = AppendBytes(SetCapacity(ring, capacity), payload)
          /\ log' = log \o payload
    BY <1>3 DEF AppendFrame, DurabilityInv, TypeOK, FrameStates
  <2>2. resident
    BY DEF AppendFrame, DurabilityInv, HandleInv
  <2>3. Len(log) = ring.end /\ ring.end \in Nat /\ Len(log) \in Nat /\ log \in Seq(Byte)
    BY <2>2, Offsets DEF DurabilityInv, HandleInv
  <2>4. PICK w : /\ w = SetCapacity(ring, capacity) /\ IsRing(w)
                 /\ ring.earliest <= w.earliest /\ w.end = ring.end
                 /\ \A o \in w.earliest .. w.end - 1 : w.bytes[o] = ring.bytes[o]
    <3>1. /\ LET r == SetCapacity(ring, capacity)
             IN  /\ ring.earliest <= r.earliest /\ r.end = ring.end
                 /\ \A o \in r.earliest .. r.end - 1 : r.bytes[o] = ring.bytes[o]
          /\ IsRing(SetCapacity(ring, capacity))
      BY Offsets, SetCapacityBytes, SetCapacityWindow
    <3> QED
      BY <3>1, Zenon
  <2>5. /\ w.earliest <= ring'.earliest /\ ring'.end = w.end + Len(payload)
        /\ \A o \in ring'.earliest .. ring'.end - 1 :
             ring'.bytes[o] = IF o < w.end THEN w.bytes[o] ELSE payload[o - w.end + 1]
        /\ IsRing(ring')
    <3>1. /\ LET r == AppendBytes(w, payload)
             IN  /\ w.earliest <= r.earliest /\ r.end = w.end + Len(payload)
                 /\ \A o \in r.earliest .. r.end - 1 :
                      r.bytes[o] = IF o < w.end THEN w.bytes[o] ELSE payload[o - w.end + 1]
          /\ IsRing(AppendBytes(w, payload))
      BY <2>4, AppendBytesBytes, AppendBytesWindow
    <3>2. ring' = AppendBytes(w, payload)
      BY <2>1, <2>4
    <3> QED
      BY <3>1, <3>2, Zenon
  <2>6. /\ ring'.earliest \in Nat /\ ring'.end \in Nat /\ w.earliest \in Nat
        /\ ring.earliest \in Nat /\ ring.earliest <= ring'.earliest /\ Len(payload) \in Nat
    <3>1. ring'.earliest \in Nat /\ ring'.end \in Nat /\ w.earliest \in Nat
      BY <2>4, <2>5 DEF IsRing
    <3>2. Len(payload) \in Nat
      OBVIOUS
    <3>3. ring.earliest <= w.earliest /\ w.earliest <= ring'.earliest
      BY <2>4, <2>5, Zenon
    <3>4. ring.earliest \in Nat
      BY Offsets, Zenon
    <3> QED
      BY <3>1, <3>2, <3>3, <3>4
  <2>7. /\ Len(log') = Len(log) + Len(payload)
        /\ \A i \in 1 .. Len(log) : log'[i] = log[i]
        /\ \A i \in 1 .. Len(payload) : log'[Len(log) + i] = payload[i]
    <3>1. /\ Len(log \o payload) = Len(log) + Len(payload)
          /\ \A i \in 1 .. Len(log) : (log \o payload)[i] = log[i]
          /\ \A i \in 1 .. Len(payload) : (log \o payload)[Len(log) + i] = payload[i]
      BY <2>3, JoinedStream
    <3> QED
      BY <2>1, <3>1, Zenon
  <2>8. \A bytes, from, to :
          from \in Nat /\ to \in Nat /\ to <= Len(log) /\ Genuine(bytes, from, to)
            => \A o \in from .. to - 1 : bytes[o] = log'[o + 1]
    BY <2>3, <2>7 DEF Genuine
  <2>9. ASSUME NEW o \in ring'.earliest .. ring'.end - 1
        PROVE  ring'.bytes[o] = log'[o + 1]
    <3>1. CASE o < w.end
      <4>0. w.end = ring.end /\ ring.earliest <= w.earliest /\ w.earliest <= ring'.earliest
        BY <2>4, <2>5, Zenon
      <4>1. o \in w.earliest .. w.end - 1 /\ o \in ring.earliest .. ring.end - 1
        BY <2>3, <2>6, <3>1, <4>0
      <4>2. ring'.bytes[o] = ring.bytes[o]
        BY <2>4, <2>5, <3>1, <4>1
      <4>3. ring.bytes[o] = log[o + 1]
        BY <2>2, <4>1 DEF ContentInv, WindowInv, Genuine
      <4>4. o + 1 \in 1 .. Len(log)
        BY <2>3, <2>6, <4>1
      <4> QED
        BY <2>7, <4>2, <4>3, <4>4
    <3>2. CASE ~(o < w.end)
      <4>1. ring'.bytes[o] = payload[o - w.end + 1]
        BY <2>5, <3>2
      <4>2. PICK i \in 1 .. Len(payload) : i = o - w.end + 1
        BY <2>3, <2>4, <2>5, <2>6, <3>2
      <4>3. Len(log) + i = o + 1
        BY <2>3, <2>4, <4>2
      <4> QED
        BY <2>7, <4>1, <4>2, <4>3
    <3> QED
      BY <3>1, <3>2
  <2>10. RowsInv'
    <3>1. db.durable <= Len(log')
      BY <2>3, <2>6, <2>7, Offsets DEF ContentInv, RowsInv
    <3>2. \A r \in db.rows : Genuine(r.bytes, r.start, r.end)'
      <4> SUFFICES ASSUME NEW r \in db.rows
                   PROVE  \A o \in r.start .. r.end - 1 : r.bytes[o] = log'[o + 1]
        BY DEF Genuine
      <4>1. /\ r.start \in Nat /\ r.end \in Nat /\ r.end <= Len(log)
            /\ Genuine(r.bytes, r.start, r.end)
        BY <2>3, Offsets, Rows DEF ContentInv, RowsInv
      <4> QED
        BY <2>8, <4>1
    <3> QED
      BY <1>1, <3>1, <3>2 DEF ContentInv, RowsInv, Genuine
  <2>11. WindowInv'
    <3>1. db.earliest <= ring'.earliest
      BY <2>2, <2>6, Offsets DEF ContentInv, WindowInv
    <3> QED
      BY <1>1, <2>9, <3>1 DEF ContentInv, WindowInv, Genuine
  <2>12. ChunkInv'
    <3> SUFFICES ASSUME checkpoint.phase = "taken"
                 PROVE  /\ checkpoint.earliest <= ring'.earliest
                        /\ checkpoint.chunk # NoBytes =>
                             \A o \in checkpoint.start .. checkpoint.target - 1 :
                               checkpoint.chunk[o] = log'[o + 1]
      BY <1>1 DEF ContentInv, ChunkInv, Genuine, NoBytes
    <3>1. checkpoint.target <= Len(log)
      BY <2>3, Offsets DEF DurabilityInv, CheckpointInv
    <3>2. checkpoint.earliest <= ring'.earliest
      <4>1. checkpoint.earliest <= ring.earliest
        BY DEF ContentInv, ChunkInv
      <4> QED
        BY <2>6, <4>1, Offsets
    <3> QED
      BY <2>8, <3>1, <3>2, Offsets DEF ContentInv, ChunkInv
  <2> QED
    BY <2>10, <2>11, <2>12 DEF ContentInv
<1> QED
  BY <1>2, <1>3

(* take_checkpoint copies the window from the durable offset on. *)
LEMMA TakeCheckpointContent ==
  ASSUME DurabilityInv, ContentInv, TakeCheckpoint
  PROVE  ContentInv'
<1>1. /\ UNCHANGED <<loader, resident, ring, db, log>> /\ resident
      /\ checkpoint'.start = MaxOf(durable_offset, ring.earliest)
      /\ checkpoint'.chunk = ReadRange(ring, MaxOf(durable_offset, ring.earliest), next_offset)
      /\ checkpoint'.earliest = ring.earliest /\ checkpoint'.target = next_offset
  BY DEF TakeCheckpoint, procVars, memVars
<1>2. /\ ring.earliest <= ring.end /\ durable_offset <= db.durable
      /\ db.durable <= next_offset /\ ring.end = next_offset
  BY <1>1, Offsets DEF DurabilityInv, HandleInv
<1>3. PICK from \in Nat :
        /\ from = MaxOf(durable_offset, ring.earliest) /\ ring.earliest <= from
        /\ from <= next_offset /\ (from <= db.durable \/ from = ring.earliest)
  BY <1>2, Offsets DEF MaxOf
<1>4. ReadRange(ring, from, next_offset) = [o \in from .. next_offset - 1 |-> ring.bytes[o]]
  BY <1>2, <1>3, Offsets DEF ReadRange, Readable
<1>5. Genuine(ReadRange(ring, from, next_offset), from, next_offset)
  <2> SUFFICES ASSUME NEW o \in from .. next_offset - 1
               PROVE  ReadRange(ring, from, next_offset)[o] = log[o + 1]
    BY DEF Genuine
  <2>1. o \in ring.earliest .. ring.end - 1
    BY <1>2, <1>3, Offsets
  <2> QED
    BY <1>1, <1>4, <2>1 DEF ContentInv, WindowInv, Genuine
<1>6. from = next_offset => ReadRange(ring, from, next_offset) = NoBytes
  <2> SUFFICES ASSUME from = next_offset PROVE ReadRange(ring, from, next_offset) = NoBytes
    OBVIOUS
  <2>1. from .. next_offset - 1 = {}
    BY Offsets
  <2> QED
    BY <1>4, <2>1 DEF NoBytes
<1>7. RowsInv'
  BY <1>1 DEF ContentInv, RowsInv, Genuine
<1>8. WindowInv'
  BY <1>1 DEF ContentInv, WindowInv, Genuine
<1>9. ChunkInv'
  <2>1. db.earliest <= ring.earliest /\ ring.earliest <= ring.earliest
    BY <1>1, Offsets DEF ContentInv, WindowInv
  <2>2. ReadRange(ring, from, next_offset) # NoBytes => from < next_offset
    BY <1>3, <1>6, Offsets
  <2> QED
    BY <1>1, <1>3, <1>5, <2>1, <2>2 DEF ChunkInv, Genuine, NoBytes
<1> QED
  BY <1>7, <1>8, <1>9 DEF ContentInv

(* The rows of a transaction before and after they are trimmed. *)
Inserted(c) ==
  IF c.chunk = NoBytes THEN db.rows
  ELSE db.rows \cup {[start |-> c.start, end |-> c.target, bytes |-> c.chunk]}
Trimmed(c, r, t) ==
  /\ r.end > c.earliest /\ t.end = r.end
  /\ t.start = IF r.start < c.earliest THEN c.earliest ELSE r.start
  /\ \A o \in t.start .. t.end - 1 : t.bytes[o] = r.bytes[o]

(* commit_checkpoints' result: the rows that were stored, and the chunk,   *)
(* each cut where the new window begins.                                   *)
LEMMA CommittedRow ==
  ASSUME NEW c, c.earliest \in Nat
  PROVE  /\ \A t \in CommittedRows(db.rows, c) : \E r \in Inserted(c) : Trimmed(c, r, t)
         /\ \A r \in Inserted(c) : r.end > c.earliest =>
              \E t \in CommittedRows(db.rows, c) : Trimmed(c, r, t)
         /\ \A t, u \in CommittedRows(db.rows, c) :
              t = u \/ \E r, q \in Inserted(c) : r # q /\ Trimmed(c, r, t) /\ Trimmed(c, q, u)
<1> DEFINE kept    == {r \in Inserted(c) : r.end > c.earliest}
           cut(r)  == [start |-> c.earliest, end |-> r.end,
                       bytes |-> [o \in c.earliest .. r.end - 1 |-> r.bytes[o]]]
           trim(r) == IF r.start < c.earliest THEN cut(r) ELSE r
<1>1. CommittedRows(db.rows, c) = {trim(r) : r \in kept}
  BY DEF CommittedRows, Inserted
<1>2. ASSUME NEW r, r.end > c.earliest PROVE Trimmed(c, r, trim(r))
  <2>1. CASE r.start < c.earliest
    <3>1. /\ trim(r).start = c.earliest /\ trim(r).end = r.end
          /\ trim(r).bytes = [o \in c.earliest .. r.end - 1 |-> r.bytes[o]]
      BY <2>1
    <3> HIDE DEF trim
    <3> QED
      BY <1>2, <2>1, <3>1 DEF Trimmed
  <2>2. CASE ~(r.start < c.earliest)
    BY <1>2, <2>2 DEF Trimmed
  <2> QED
    BY <2>1, <2>2
<1> HIDE DEF trim
<1> QED
  BY <1>1, <1>2

(* commit_checkpoints: the rows cover the checkpoint's window again. *)
LEMMA CommitTransactionContent ==
  ASSUME DurabilityInv, ContentInv, CommitTransaction
  PROVE  ContentInv'
<1>1. /\ UNCHANGED <<loader, resident, ring, log>> /\ checkpoint.phase = "taken"
      /\ checkpoint'.phase = "committed"
      /\ db'.earliest = checkpoint.earliest /\ db'.durable = checkpoint.target
      /\ db'.rows = CommittedRows(db.rows, checkpoint)
  BY DEF CommitTransaction, procVars, memVars, DurabilityInv, TypeOK, IsCheckpoint
<1>2. PICK c : c = checkpoint
  OBVIOUS
<1>3. /\ c.start \in Nat /\ c.target \in Nat /\ c.earliest \in Nat
      /\ db.durable <= c.target /\ c.target <= Len(log) /\ c.earliest <= c.target
      /\ db.earliest <= c.earliest /\ c.earliest <= ring.earliest /\ c.earliest <= c.start
      /\ c.start <= db.durable \/ c.start = c.earliest
      /\ c.chunk = NoBytes => c.target = db.durable
      /\ c.chunk # NoBytes => c.start < c.target /\ Genuine(c.chunk, c.start, c.target)
  <2>1. /\ db.durable <= c.target /\ c.target <= next_offset
        /\ IF c.target = 0 THEN c.earliest = 0 ELSE c.earliest < c.target
        /\ c.chunk = NoBytes => c.target = db.durable
    BY <1>1, <1>2 DEF DurabilityInv, CheckpointInv
  <2>2. Len(log) = next_offset
    BY <1>1, Offsets DEF DurabilityInv, HandleInv
  <2>3. /\ db.earliest <= c.earliest /\ c.earliest <= ring.earliest /\ c.earliest <= c.start
        /\ c.start <= db.durable \/ c.start = c.earliest
        /\ c.chunk # NoBytes => c.start < c.target /\ Genuine(c.chunk, c.start, c.target)
    BY <1>1, <1>2 DEF ContentInv, ChunkInv
  <2> QED
    BY <1>2, <2>1, <2>2, <2>3, Offsets
<1> DEFINE chunk == [start |-> c.start, end |-> c.target, bytes |-> c.chunk]
<1>4. /\ \A t \in db'.rows : \E r \in Inserted(c) : Trimmed(c, r, t)
      /\ \A r \in Inserted(c) : r.end > c.earliest => \E t \in db'.rows : Trimmed(c, r, t)
  BY <1>1, <1>2, <1>3, CommittedRow
<1>5. chunk.start = c.start /\ chunk.end = c.target /\ chunk.bytes = c.chunk
  OBVIOUS
<1> HIDE DEF chunk
<1>6. \A r \in Inserted(c) : /\ r.start \in Nat /\ r.end \in Nat /\ r.start < r.end
                          /\ r.end <= c.target /\ Genuine(r.bytes, r.start, r.end)
  <2>1. \A r \in db.rows : /\ r.start \in Nat /\ r.end \in Nat /\ r.start < r.end
                           /\ r.end <= c.target /\ Genuine(r.bytes, r.start, r.end)
    <3>1. \A r \in db.rows : r.start \in Nat /\ r.end \in Nat
      BY Rows, Zenon
    <3>2. db.durable \in Nat /\ db.durable <= c.target /\ c.target \in Nat
      BY <1>3, Offsets, Zenon
    <3>3. \A r \in db.rows : /\ r.start < r.end /\ r.end <= db.durable
                             /\ Genuine(r.bytes, r.start, r.end)
      BY DEF ContentInv, RowsInv
    <3> QED
      BY <3>1, <3>2, <3>3
  <2>2. c.chunk # NoBytes =>
          /\ chunk.start \in Nat /\ chunk.end \in Nat /\ chunk.start < chunk.end
          /\ chunk.end <= c.target /\ Genuine(chunk.bytes, chunk.start, chunk.end)
    BY <1>3, <1>5
  <2> QED
    BY <2>1, <2>2 DEF Inserted, chunk
<1>7. \A o \in c.earliest .. c.target - 1 :
        \E r \in Inserted(c) : r.start <= o /\ o < r.end
  <2> SUFFICES ASSUME NEW o \in c.earliest .. c.target - 1
               PROVE  \E r \in Inserted(c) : r.start <= o /\ o < r.end
    OBVIOUS
  <2>1. CASE o < db.durable
    <3>0. db.durable \in Nat /\ db.earliest \in Nat /\ c.earliest \in Nat
          /\ db.earliest <= c.earliest
      BY <1>3, Offsets, Zenon
    <3>1. o \in db.earliest .. db.durable - 1
      BY <2>1, <3>0
    <3> QED
      BY <3>1 DEF ContentInv, RowsInv, Inserted
  <2>2. CASE ~(o < db.durable)
    <3>0. db.durable \in Nat
      BY Offsets, Zenon
    <3>1. c.chunk # NoBytes
      BY <1>3, <2>2, <3>0
    <3>2. chunk.start <= o /\ o < chunk.end
      BY <1>3, <1>5, <2>2, <3>0
    <3> QED
      BY <3>1, <3>2 DEF Inserted, chunk
  <2> QED
    BY <2>1, <2>2
<1>8. RowsInv'
  <2>1. ASSUME NEW t \in db'.rows
        PROVE  /\ c.earliest <= t.start /\ t.start < t.end /\ t.end <= c.target
               /\ Genuine(t.bytes, t.start, t.end)
    <3>1. PICK r \in Inserted(c) : Trimmed(c, r, t)
      BY <1>4
    <3>2. /\ c.earliest <= t.start /\ t.start < t.end /\ t.end <= c.target
          /\ r.start <= t.start /\ t.end = r.end /\ t.start \in Nat /\ t.end \in Nat
      BY <1>3, <1>6, <3>1 DEF Trimmed
    <3>3. Genuine(t.bytes, t.start, t.end)
      <4> SUFFICES ASSUME NEW o \in t.start .. t.end - 1 PROVE t.bytes[o] = log[o + 1]
        BY DEF Genuine
      <4>1. o \in r.start .. r.end - 1
        BY <1>6, <3>2
      <4> QED
        BY <1>6, <3>1, <4>1 DEF Genuine, Trimmed
    <3> QED
      BY <3>2, <3>3
  <2>2. ASSUME NEW o \in c.earliest .. c.target - 1
        PROVE  \E t \in db'.rows : t.start <= o /\ o < t.end
    <3>1. PICK r \in Inserted(c) : r.start <= o /\ o < r.end
      BY <1>7
    <3>2. r.end > c.earliest /\ r.start \in Nat /\ r.end \in Nat
      BY <1>3, <1>6, <3>1
    <3>3. PICK t \in db'.rows : Trimmed(c, r, t)
      BY <1>4, <3>2
    <3> QED
      BY <1>3, <3>1, <3>2, <3>3 DEF Trimmed
  <2> QED
    BY <1>1, <1>2, <1>3, <2>1, <2>2 DEF RowsInv, Genuine
<1>9. WindowInv'
  <2>1. \A l \in Loaders : loader[l].busy => loader[l].earliest <= c.earliest
    <3>1. \A l \in Loaders : loader[l] \in LoaderRows
      BY Rows, Zenon
    <3>2. \A l \in Loaders : loader[l].earliest \in Nat
      BY <3>1 DEF LoaderRows
    <3>3. \A l \in Loaders : loader[l].busy => loader[l].earliest <= db.earliest
      BY DEF ContentInv, WindowInv
    <3>4. db.earliest \in Nat /\ c.earliest \in Nat /\ db.earliest <= c.earliest
      BY <1>3, Offsets, Zenon
    <3> QED
      BY <3>2, <3>3, <3>4
  <2> QED
    BY <1>1, <1>2, <1>3, <2>1 DEF ContentInv, WindowInv, Genuine
<1>10. ChunkInv'
  BY <1>1 DEF ChunkInv
<1> QED
  BY <1>8, <1>9, <1>10 DEF ContentInv

(* A crash keeps the stored bytes, and nothing else. *)
LEMMA CrashContent ==
  ASSUME DurabilityInv, ContentInv, Crash
  PROVE  ContentInv'
<1>1. /\ db' = db /\ resident' = FALSE /\ checkpoint' = NoCheckpoint
      /\ loader' = [l \in Loaders |-> NoRow]
  BY DEF Crash
<1>2. /\ Len(log') = db.durable
      /\ \A i \in 1 .. db.durable : log'[i] = log[i]
  BY CrashKeepsStored
<1>3. RowsInv'
  <2>1. db.durable <= Len(log')
    BY <1>2, Offsets
  <2>2. ASSUME NEW r \in db.rows, NEW o \in r.start .. r.end - 1
        PROVE  r.bytes[o] = log'[o + 1]
    <3>1. db.durable \in Nat /\ r.start \in Nat /\ r.end \in Nat
      BY Offsets, Rows, Zenon
    <3>2. r.end <= db.durable /\ Genuine(r.bytes, r.start, r.end)
      BY DEF ContentInv, RowsInv
    <3>3. o + 1 \in 1 .. db.durable
      BY <3>1, <3>2
    <3> QED
      BY <1>2, <3>2, <3>3 DEF Genuine
  <2> QED
    BY <1>1, <2>1, <2>2 DEF ContentInv, RowsInv, Genuine
<1>4. WindowInv'
  BY <1>1 DEF WindowInv, NoRow
<1>5. ChunkInv'
  BY <1>1 DEF ChunkInv, NoCheckpoint
<1> QED
  BY <1>3, <1>4, <1>5 DEF ContentInv

LEMMA InitContent == Init => ContentInv
<1> SUFFICES ASSUME Init PROVE ContentInv
  OBVIOUS
<1>1. RowsInv
  BY DEF Init, RowsInv
<1>2. WindowInv
  BY DEF Init, WindowInv, NoRow
<1>3. ChunkInv
  BY DEF Init, ChunkInv, NoCheckpoint
<1> QED
  BY <1>1, <1>2, <1>3 DEF ContentInv

(* Steps of the connections and of the settings, and acknowledgements. *)
Elsewhere ==
  \/ \E c \in Capacities : ChangeCapacity(c)
  \/ \E p \in Sessions :
       \/ \E expected \in {durable_offset} \cup next_offset .. MaxOffset, payload \in Payloads :
            OnBinary(p, expected, payload)
       \/ WaitEnds(p)
  \/ SendAck \/ Resize \/ BeginClose \/ TerminateSubscribers \/ Recover
  \/ \E s \in Subs :
       \/ \E requested \in {ring.earliest, subs[s].pos} : Subscribe(s, requested)
       \/ SendReplay(s) \/ Deliver(s) \/ EndOfStream(s) \/ Disconnect(s)

LEMMA ElsewhereLeaves ==
  ASSUME Elsewhere \/ UNCHANGED vars
  PROVE  UNCHANGED <<loader, resident, ring, next_offset, durable_offset, retired, checkpoint,
                     db, log>>
  BY DEF Elsewhere, ChangeCapacity, OnBinary, WaitEnds, SendAck, Resize, BeginClose,
         TerminateSubscribers, Recover, Subscribe, SendReplay, Deliver, EndOfStream, Disconnect,
         vars, procVars, memVars

(* Next, as the proofs of this module split it. *)
LEMMA NextSplit ==
  ASSUME [Next]_vars
  PROVE  \/ Elsewhere \/ UNCHANGED vars
         \/ \E l \in Loaders : ReadRow(l) \/ InsertHandle(l)
         \/ EvictRetired \/ ShrinkToCapacity
         \/ \E p \in Sessions : AppendFrame(p)
         \/ TakeCheckpoint \/ CommitTransaction \/ CommitDurable \/ CommitFails
         \/ Crash
  BY DEF Next, Elsewhere, Checkpointing

LEMMA NextContent ==
  ASSUME DurabilityInv, ContentInv, [Next]_vars
  PROVE  ContentInv'
<1>1. CASE Elsewhere \/ UNCHANGED vars
  BY <1>1, ElsewhereLeaves, ContentUnchanged
<1>2. ASSUME NEW l \in Loaders, ReadRow(l) \/ InsertHandle(l) PROVE ContentInv'
  BY <1>2, ReadRowContent, InsertHandleContent
<1>3. CASE EvictRetired
  <2>1. checkpoint.phase = "none"
    BY <1>3 DEF EvictRetired, DurabilityInv, HandleInv
  <2> QED
    BY <1>3, <2>1, ContentDropped DEF EvictRetired, memVars
<1>4. CASE ShrinkToCapacity
  BY <1>4, ShrinkContent
<1>5. ASSUME NEW p \in Sessions, AppendFrame(p) PROVE ContentInv'
  BY <1>5, AppendFrameContent
<1>6. CASE TakeCheckpoint
  BY <1>6, TakeCheckpointContent
<1>7. CASE CommitTransaction
  BY <1>7, CommitTransactionContent
<1>8. CASE CommitDurable \/ CommitFails
  BY <1>8, ContentDropped DEF CommitDurable, CommitFails, NoCheckpoint, procVars, memVars
<1>9. CASE Crash
  BY <1>9, CrashContent
<1> QED
  BY <1>1, <1>2, <1>3, <1>4, <1>5, <1>6, <1>7, <1>8, <1>9, NextSplit

(* Ring, checkpoint in flight and stored rows hold the bytes of the one    *)
(* stream.                                                                 *)
LEMMA ContentHolds == Spec => []ContentInv
  BY InitContent, NextContent, DurabilityHolds, PTL DEF Spec

(* What a resident handle may replay is the newest contiguous suffix of    *)
(* the accepted stream, byte for byte and within the ring's capacity, also *)
(* after a reload from the database by a row read long before.             *)
THEOREM ReplayIsNewestSuffix == Spec => []RingIsNewestSuffix
<1>1. DurabilityInv /\ ContentInv => RingIsNewestSuffix
  BY DEF DurabilityInv, TypeOK, IsRing, HandleInv, ContentInv, WindowInv, Genuine,
         RingIsNewestSuffix
<1> QED
  BY <1>1, ContentHolds, DurabilityHolds, PTL

-----------------------------------------------------------------------------
(* The stored rows do not overlap *)

(* Where a row begins, or the next one will. *)
AtBoundary(o) == o = db.durable \/ \E r \in db.rows : r.start = o

(* A row read before, and the handle built by it, are behind what is       *)
(* stored by whole rows: the chunk such a handle would store again meets a *)
(* row with its own start, and the transaction fails instead of leaving    *)
(* two rows that overlap.                                                  *)
BoundaryInv ==
  /\ \A l \in Loaders : loader[l].busy =>
       /\ loader[l].earliest <= loader[l].durable
       /\ loader[l].earliest < db.earliest \/ AtBoundary(loader[l].durable)
  /\ resident /\ checkpoint.phase # "committed" => AtBoundary(durable_offset)
  /\ checkpoint.phase = "taken" =>
       checkpoint.start = checkpoint.earliest \/ AtBoundary(checkpoint.start)

DisjointInv ==
  \A r, q \in db.rows : r = q \/ r.end <= q.start \/ q.end <= r.start

TileInv == BoundaryInv /\ DisjointInv

(* A chunk that can be inserted begins past every stored row. *)
LEMMA Adjoins ==
  ASSUME DurabilityInv, ContentInv, TileInv, checkpoint.phase = "taken",
         Insertable(checkpoint), checkpoint.chunk # NoBytes
  PROVE  db.durable <= checkpoint.start
<1> SUFFICES ASSUME checkpoint.start < db.durable PROVE FALSE
  BY Offsets
<1>1. \A r \in db.rows : /\ r.start # checkpoint.start
                         /\ checkpoint.start = checkpoint.earliest /\ r.start < checkpoint.start
                              => r.end <= checkpoint.start
  BY DEF Insertable
<1>2. checkpoint.start = checkpoint.earliest
  BY <1>1, Offsets DEF TileInv, BoundaryInv, AtBoundary
<1>3. checkpoint.start \in db.earliest .. db.durable - 1
  BY <1>2, Offsets DEF ContentInv, ChunkInv
<1>4. PICK r \in db.rows : r.start <= checkpoint.start /\ checkpoint.start < r.end
  BY <1>3 DEF ContentInv, RowsInv
<1> QED
  BY <1>1, <1>2, <1>4, Offsets, Rows

LEMMA TileUnchanged ==
  ASSUME TileInv, UNCHANGED <<loader, resident, durable_offset, checkpoint, db>>
  PROVE  TileInv'
  BY DEF TileInv, BoundaryInv, DisjointInv, AtBoundary

LEMMA LoadTiles ==
  ASSUME DurabilityInv, ContentInv, TileInv, NEW l \in Loaders, ReadRow(l) \/ InsertHandle(l)
  PROVE  TileInv'
<1>1. UNCHANGED <<checkpoint, db>>
  BY DEF ReadRow, InsertHandle
<1>2. DisjointInv'
  BY <1>1 DEF TileInv, DisjointInv
<1>3. loader \in [Loaders -> LoaderRows]
  BY DEF DurabilityInv, TypeOK
<1>4. CASE ReadRow(l)
  <2>1. /\ UNCHANGED <<resident, durable_offset>>
        /\ loader' = [loader EXCEPT ![l] = [busy |-> TRUE, earliest |-> db.earliest,
                                            durable |-> db.durable, state |-> db.state]]
    BY <1>4 DEF ReadRow, memVars
  <2>2. db.earliest <= db.durable
    BY DEF ContentInv, RowsInv
  <2>3. BoundaryInv'
    BY <1>1, <1>3, <2>1, <2>2 DEF TileInv, BoundaryInv, AtBoundary
  <2> QED
    BY <1>2, <2>3 DEF TileInv
<1>5. CASE InsertHandle(l)
  <2>1. /\ loader[l].busy /\ loader' = [loader EXCEPT ![l] = NoRow]
        /\ \/ UNCHANGED <<resident, durable_offset>>
           \/ /\ ~resident /\ ~HasGap(loader[l].earliest)
              /\ durable_offset' = loader[l].durable
    BY <1>5 DEF InsertHandle, FromRow, memVars
  <2>2. \A k \in Loaders : loader'[k].busy => k # l /\ loader'[k] = loader[k]
    BY <1>3, <2>1 DEF NoRow
  <2>3. CASE UNCHANGED <<resident, durable_offset>>
    BY <1>1, <1>2, <2>2, <2>3 DEF TileInv, BoundaryInv, AtBoundary
  <2>4. CASE ~resident /\ ~HasGap(loader[l].earliest) /\ durable_offset' = loader[l].durable
    <3>1. loader[l].earliest \in Nat /\ loader[l].earliest <= db.earliest
      BY <1>3, <2>1 DEF LoaderRows, ContentInv, WindowInv
    <3>2. loader[l].earliest = db.earliest
      BY <2>4, <3>1, LoadedIsGenuine
    <3>3. AtBoundary(loader[l].durable)
      BY <2>1, <3>2, Offsets DEF TileInv, BoundaryInv
    <3>4. checkpoint.phase = "none"
      BY <2>4 DEF DurabilityInv, HandleInv
    <3> QED
      BY <1>1, <1>2, <2>2, <2>4, <3>3, <3>4 DEF TileInv, BoundaryInv, AtBoundary
  <2> QED
    BY <2>1, <2>3, <2>4
<1> QED
  BY <1>4, <1>5

LEMMA TakeCheckpointTiles ==
  ASSUME DurabilityInv, TileInv, TakeCheckpoint
  PROVE  TileInv'
<1>1. /\ UNCHANGED <<loader, resident, durable_offset, db>> /\ resident
      /\ checkpoint.phase = "none" /\ checkpoint'.phase = "taken"
      /\ checkpoint'.start = MaxOf(durable_offset, ring.earliest)
      /\ checkpoint'.earliest = ring.earliest
  BY DEF TakeCheckpoint, procVars, memVars
<1>2. AtBoundary(durable_offset)
  BY <1>1 DEF TileInv, BoundaryInv
<1>3. checkpoint'.start = checkpoint'.earliest \/ checkpoint'.start = durable_offset
  BY <1>1 DEF MaxOf
<1> QED
  BY <1>1, <1>2, <1>3 DEF TileInv, BoundaryInv, DisjointInv, AtBoundary

LEMMA CommitTransactionTiles ==
  ASSUME DurabilityInv, ContentInv, TileInv, CommitTransaction
  PROVE  TileInv'
<1>1. /\ UNCHANGED <<loader, resident, durable_offset>>
      /\ checkpoint.phase = "taken" /\ Insertable(checkpoint)
      /\ db'.earliest = checkpoint.earliest /\ db'.durable = checkpoint.target
      /\ db'.rows = CommittedRows(db.rows, checkpoint) /\ checkpoint'.phase = "committed"
  BY DEF CommitTransaction, procVars, memVars, DurabilityInv, TypeOK, IsCheckpoint
<1>2. PICK c : c = checkpoint
  OBVIOUS
<1> DEFINE chunk == [start |-> c.start, end |-> c.target, bytes |-> c.chunk]
<1>3. /\ c.start \in Nat /\ c.target \in Nat /\ c.earliest \in Nat
      /\ db.durable \in Nat /\ db.earliest \in Nat
      /\ c.chunk # NoBytes => db.durable <= c.start /\ c.start < c.target
      /\ c.chunk = NoBytes => c.target = db.durable
      /\ db.earliest <= c.earliest
      /\ c.start <= db.durable \/ c.start = c.earliest
  BY <1>1, <1>2, Offsets, Adjoins DEF ContentInv, ChunkInv, DurabilityInv, CheckpointInv
<1>4. chunk.start = c.start /\ chunk.end = c.target
  OBVIOUS
<1> HIDE DEF chunk
<1>5. \A r \in db.rows : /\ r.start \in Nat /\ r.end \in Nat /\ r.start < r.end
                         /\ r.end <= db.durable
  BY Offsets, Rows DEF ContentInv, RowsInv
<1>6. DisjointInv'
  <2>1. \A t, u \in db'.rows :
          t = u \/ \E r, q \in Inserted(c) : r # q /\ Trimmed(c, r, t) /\ Trimmed(c, q, u)
    BY <1>1, <1>2, <1>3, CommittedRow
  <2>2. \A r \in Inserted(c) : r.start \in Nat /\ r.end \in Nat
    BY <1>3, <1>4, <1>5 DEF Inserted, chunk
  <2>3. \A r, q \in Inserted(c) : r = q \/ r.end <= q.start \/ q.end <= r.start
    <3>1. c.chunk # NoBytes => \A r \in db.rows : r.end <= chunk.start
      BY <1>3, <1>4, <1>5
    <3>2. \A r, q \in db.rows : r = q \/ r.end <= q.start \/ q.end <= r.start
      BY DEF TileInv, DisjointInv
    <3> QED
      BY <3>1, <3>2 DEF Inserted, chunk
  <2>4. ASSUME NEW t \in db'.rows, NEW u \in db'.rows, t # u
        PROVE  t.end <= u.start \/ u.end <= t.start
    <3>1. PICK r \in Inserted(c), q \in Inserted(c) : r # q /\ Trimmed(c, r, t) /\ Trimmed(c, q, u)
      BY <2>1, <2>4
    <3>2. r.end <= q.start \/ q.end <= r.start
      BY <2>3, <3>1
    <3>3. /\ t.end = r.end /\ u.end = q.end /\ r.start <= t.start /\ q.start <= u.start
          /\ t.start \in Nat /\ u.start \in Nat
      BY <1>3, <2>2, <3>1 DEF Trimmed
    <3> QED
      BY <2>2, <3>2, <3>3
  <2> QED
    BY <2>4 DEF DisjointInv
<1>7. ASSUME NEW l \in Loaders, loader[l].busy
      PROVE  loader[l].earliest < db'.earliest \/ AtBoundary(loader[l].durable)'
  <2>1. PICK e, d : e = loader[l].earliest /\ d = loader[l].durable
    OBVIOUS
  <2>2. e \in Nat /\ d \in Nat /\ e <= d /\ e <= db.earliest
        /\ (e < db.earliest \/ AtBoundary(d))
    BY <1>7, <2>1, Rows DEF TileInv, BoundaryInv, ContentInv, WindowInv, LoaderRows
  <2>3. CASE e < c.earliest
    BY <1>1, <1>2, <2>1, <2>3
  <2>4. CASE ~(e < c.earliest)
    <3>1. e = c.earliest /\ AtBoundary(d) /\ c.earliest <= d
      BY <1>3, <2>2, <2>4
    <3>2. \A r \in Inserted(c) : r.start = d /\ r.end > c.earliest =>
            \E t \in db'.rows : t.start = d
      <4> SUFFICES ASSUME NEW r \in Inserted(c), r.start = d, r.end > c.earliest
                   PROVE  \E t \in db'.rows : t.start = d
        OBVIOUS
      <4>1. PICK t \in db'.rows : Trimmed(c, r, t)
        BY <1>1, <1>2, <1>3, CommittedRow
      <4>2. t.start = d
        BY <1>3, <2>2, <3>1, <4>1 DEF Trimmed
      <4> QED
        BY <4>2
    <3>3. CASE d = db.durable /\ c.chunk = NoBytes
      BY <1>1, <1>2, <1>3, <2>1, <3>3 DEF AtBoundary
    <3>4. CASE d = db.durable /\ c.chunk # NoBytes
      <4>1. chunk \in Inserted(c) /\ chunk.start = d /\ chunk.end > c.earliest
        BY <1>3, <1>4, <2>2, <3>1, <3>4 DEF Inserted, chunk
      <4> QED
        BY <1>1, <2>1, <3>2, <4>1 DEF AtBoundary
    <3>5. ASSUME NEW r \in db.rows, r.start = d PROVE AtBoundary(loader[l].durable)'
      <4>1. r \in Inserted(c) /\ r.end > c.earliest
        BY <1>3, <1>5, <2>2, <3>1, <3>5 DEF Inserted
      <4>2. \E t \in db'.rows : t.start = loader[l].durable
        BY <2>1, <3>2, <3>5, <4>1
      <4> QED
        BY <1>1, <4>2 DEF AtBoundary
    <3> QED
      BY <3>1, <3>3, <3>4, <3>5 DEF AtBoundary
  <2> QED
    BY <2>3, <2>4
<1>8. BoundaryInv'
  BY <1>1, <1>7 DEF TileInv, BoundaryInv
<1> QED
  BY <1>6, <1>8 DEF TileInv

LEMMA CommitDurableTiles ==
  ASSUME DurabilityInv, TileInv, CommitDurable \/ CommitFails
  PROVE  TileInv'
<1>1. UNCHANGED <<loader, resident, db>> /\ checkpoint'.phase = "none" /\ resident
  BY Offsets DEF CommitDurable, CommitFails, procVars, NoCheckpoint
<1>2. CASE CommitDurable
  <2>1. /\ checkpoint.target = db.durable /\ durable_offset <= db.durable
        /\ durable_offset' = MaxOf(durable_offset, checkpoint.target)
    BY <1>1, <1>2 DEF CommitDurable, DurabilityInv, CheckpointInv, HandleInv
  <2>2. durable_offset' = db.durable
    BY <2>1, Offsets DEF MaxOf
  <2> QED
    BY <1>1, <2>2 DEF TileInv, BoundaryInv, DisjointInv, AtBoundary
<1>3. CASE CommitFails
  BY <1>1, <1>3 DEF CommitFails, TileInv, BoundaryInv, DisjointInv, AtBoundary, memVars
<1> QED
  BY <1>2, <1>3

LEMMA NextTiles ==
  ASSUME DurabilityInv, ContentInv, TileInv, [Next]_vars
  PROVE  TileInv'
<1>1. CASE Elsewhere \/ UNCHANGED vars
  BY <1>1, ElsewhereLeaves, TileUnchanged
<1>2. ASSUME NEW l \in Loaders, ReadRow(l) \/ InsertHandle(l) PROVE TileInv'
  BY <1>2, LoadTiles
<1>3. CASE EvictRetired \/ Crash
  <2>1. /\ resident' = FALSE /\ checkpoint'.phase = "none" /\ db' = db
        /\ \A l \in Loaders : loader'[l].busy => loader'[l] = loader[l]
    BY <1>3 DEF EvictRetired, Crash, NoCheckpoint, NoRow, DurabilityInv, HandleInv
  <2> QED
    BY <2>1 DEF TileInv, BoundaryInv, DisjointInv, AtBoundary
<1>4. CASE ShrinkToCapacity
  BY <1>4, TileUnchanged DEF ShrinkToCapacity, procVars
<1>5. ASSUME NEW p \in Sessions, AppendFrame(p) PROVE TileInv'
  BY <1>5, TileUnchanged DEF AppendFrame, procVars
<1>6. CASE TakeCheckpoint
  BY <1>6, TakeCheckpointTiles
<1>7. CASE CommitTransaction
  BY <1>7, CommitTransactionTiles
<1>8. CASE CommitDurable \/ CommitFails
  BY <1>8, CommitDurableTiles
<1> QED
  BY <1>1, <1>2, <1>3, <1>4, <1>5, <1>6, <1>7, <1>8, NextSplit

LEMMA TilesHold == Spec => []TileInv
<1>1. Init => TileInv
  BY DEF Init, TileInv, BoundaryInv, DisjointInv, AtBoundary, NoRow, NoCheckpoint
<1>2. DurabilityInv /\ ContentInv /\ TileInv /\ [Next]_vars => TileInv'
  BY NextTiles
<1> QED
  BY <1>1, <1>2, DurabilityHolds, ContentHolds, PTL DEF Spec

(* The terminal_output rows tile [earliest, durable) of the terminals row  *)
(* without hole or overlap and hold the accepted bytes: whenever the       *)
(* process dies, load_terminal_output finds one consistent checkpoint.     *)
(* It holds whatever stale row a handle was built by.                      *)
THEOREM StoredOutputIsConsistent == Spec => []StoredIsConsistent
<1>1. ASSUME DurabilityInv, ContentInv, TileInv PROVE StoredIsConsistent
  <2>1. ~HasGap(db.earliest)
    <3> SUFFICES ASSUME NEW r \in Stored(db.earliest), r.start > db.earliest
                 PROVE  \E q \in Stored(db.earliest) : q.start < r.start /\ ~(q.end < r.start)
      BY DEF HasGap
    <3>1. r \in db.rows /\ r.start \in Nat /\ r.end \in Nat /\ db.earliest \in Nat
          /\ db.durable \in Nat /\ r.start < r.end /\ r.end <= db.durable
      BY <1>1, Offsets, Rows DEF Stored, ContentInv, RowsInv
    <3>2. PICK o \in db.earliest .. db.durable - 1 : o = r.start - 1
      BY <3>1
    <3>3. PICK q \in db.rows : q.start <= o /\ o < q.end
      BY <1>1 DEF ContentInv, RowsInv
    <3>4. q.start \in Nat /\ q.end \in Nat
      BY <1>1, Rows
    <3> QED
      BY <3>1, <3>2, <3>3, <3>4 DEF Stored
  <2>2. LoadedEnd(db.earliest) = db.durable
    BY <1>1, <2>1, Offsets, LoadedIsGenuine
  <2> QED
    BY <1>1, <2>1, <2>2 DEF ContentInv, RowsInv, Genuine, TileInv, DisjointInv,
                            StoredIsConsistent
<1> QED
  BY <1>1, DurabilityHolds, ContentHolds, TilesHold, PTL

-----------------------------------------------------------------------------
(* What a stale row can do *)

(* As long as no closed terminal was reopened: a row that was read is the  *)
(* stored one, unless a handle is resident or the row missed the close;    *)
(* and the handle agrees with the database but for a checkpoint in flight. *)
Fresh(row) ==
  row.earliest = db.earliest /\ row.durable = db.durable /\ row.state = db.state

CurrentInv ==
  /\ \A l \in Loaders :
       loader[l].busy /\ (loader[l].state = "closed" \/ (~resident /\ db.state = "open")) =>
         Fresh(loader[l])
  /\ resident /\ checkpoint.phase # "committed" => durable_offset = db.durable
  /\ checkpoint.phase = "taken" => db.durable <= checkpoint.start

CloseInv ==
  /\ resident /\ db.state = "closed" => lifecycle # "open"
  /\ resident /\ lifecycle = "closed" => db.state = "closed"
  /\ checkpoint.phase = "committed" /\ checkpoint.close => db.state = "closed"

AgreeInv == CurrentInv /\ CloseInv

(* A closed terminal is durable to its last byte, and the handle knows of  *)
(* the close or is about to be told by the checkpoint that made it.        *)
EndInv ==
  /\ db.state = "closed" => db.durable = Len(log)
  /\ resident /\ lifecycle = "closed" => checkpoint.phase = "none"
  /\ resident /\ db.state = "closed" =>
       \/ lifecycle = "closed"
       \/ lifecycle = "closing" /\ checkpoint.phase = "committed" /\ checkpoint.close

LEMMA ReopenedStays ==
  ASSUME DurabilityInv, [Next]_vars, ~reopened'
  PROVE  ~reopened
  BY DEF DurabilityInv, TypeOK, Next, ReadRow, InsertHandle, EvictRetired, ChangeCapacity,
         ShrinkToCapacity, OnBinary, WaitEnds, AppendFrame, SendAck, Resize, BeginClose,
         Checkpointing, TakeCheckpoint, CommitTransaction, CommitDurable, CommitFails, Subscribe,
         SendReplay, Deliver, EndOfStream, Disconnect, TerminateSubscribers, Crash, Recover, vars

LEMMA AgreeUnchanged ==
  ASSUME AgreeInv, UNCHANGED <<loader, resident, durable_offset, checkpoint, db>>,
         lifecycle' = lifecycle \/ (lifecycle = "open" /\ lifecycle' = "closing")
  PROVE  AgreeInv'
<1>1. CurrentInv'
  BY DEF AgreeInv, CurrentInv, Fresh
<1>2. CloseInv'
  BY DEF AgreeInv, CloseInv
<1> QED
  BY <1>1, <1>2 DEF AgreeInv

LEMMA ElsewhereLifecycle ==
  ASSUME Elsewhere \/ UNCHANGED vars
  PROVE  lifecycle' = lifecycle \/ (lifecycle = "open" /\ lifecycle' = "closing")
  BY DEF Elsewhere, ChangeCapacity, OnBinary, WaitEnds, SendAck, Resize, BeginClose,
         TerminateSubscribers, Recover, Subscribe, SendReplay, Deliver, EndOfStream, Disconnect,
         vars, procVars, memVars

(* A load either leaves the handle alone, or builds one by the stored row, *)
(* or reopens the terminal.                                                *)
LEMMA LoadOutcome ==
  ASSUME DurabilityInv, AgreeInv, ~reopened', NEW l \in Loaders, InsertHandle(l)
  PROVE  \/ UNCHANGED <<resident, memVars>>
         \/ ~resident /\ durable_offset' = db.durable /\ lifecycle' = db.state
<1>1. CASE resident \/ HasGap(loader[l].earliest)
  BY <1>1 DEF InsertHandle
<1>2. CASE ~(resident \/ HasGap(loader[l].earliest))
  <2>1. /\ loader[l].busy /\ durable_offset' = loader[l].durable /\ lifecycle' = loader[l].state
        /\ reopened' = (reopened \/ (loader[l].state = "open" /\ db.state = "closed"))
    BY <1>2 DEF InsertHandle, FromRow
  <2>2. loader[l].state \in {"open", "closed"} /\ db.state \in {"open", "closed"}
    BY DEF DurabilityInv, TypeOK, LoaderRows, IsStore
  <2>3. Fresh(loader[l])
    BY <1>2, <2>1, <2>2 DEF AgreeInv, CurrentInv
  <2> QED
    BY <1>2, <2>1, <2>3 DEF Fresh
<1> QED
  BY <1>1, <1>2

LEMMA LoadAgree ==
  ASSUME DurabilityInv, AgreeInv, ~reopened', NEW l \in Loaders, ReadRow(l) \/ InsertHandle(l)
  PROVE  AgreeInv'
<1>1. UNCHANGED <<checkpoint, db>>
  BY DEF ReadRow, InsertHandle
<1>2. loader \in [Loaders -> LoaderRows]
  BY DEF DurabilityInv, TypeOK
<1>3. CASE ReadRow(l)
  <2>1. /\ UNCHANGED <<resident, durable_offset, lifecycle>>
        /\ loader' = [loader EXCEPT ![l] = [busy |-> TRUE, earliest |-> db.earliest,
                                            durable |-> db.durable, state |-> db.state]]
    BY <1>3 DEF ReadRow, memVars
  <2>2. CurrentInv'
    BY <1>1, <1>2, <2>1 DEF AgreeInv, CurrentInv, Fresh
  <2>3. CloseInv'
    BY <1>1, <2>1 DEF AgreeInv, CloseInv
  <2> QED
    BY <2>2, <2>3 DEF AgreeInv
<1>4. CASE InsertHandle(l)
  <2>1. loader' = [loader EXCEPT ![l] = NoRow]
    BY <1>4 DEF InsertHandle
  <2>2. \A k \in Loaders : loader'[k].busy => loader'[k] = loader[k]
    BY <1>2, <2>1 DEF NoRow
  <2>3. CASE UNCHANGED <<resident, memVars>>
    BY <1>1, <2>2, <2>3 DEF AgreeInv, CurrentInv, CloseInv, Fresh, memVars
  <2>4. CASE ~resident /\ durable_offset' = db.durable /\ lifecycle' = db.state
    <3>1. checkpoint.phase = "none" /\ db.state \in {"open", "closed"}
      BY <2>4 DEF DurabilityInv, HandleInv, TypeOK, IsStore
    <3>2. CurrentInv'
      BY <1>1, <2>2, <2>4, <3>1 DEF AgreeInv, CurrentInv, Fresh
    <3>3. CloseInv'
      BY <1>1, <2>4, <3>1 DEF CloseInv
    <3> QED
      BY <3>2, <3>3 DEF AgreeInv
  <2> QED
    BY <1>4, <2>3, <2>4, LoadOutcome
<1> QED
  BY <1>3, <1>4

LEMMA TakeCheckpointAgree ==
  ASSUME DurabilityInv, AgreeInv, TakeCheckpoint
  PROVE  AgreeInv'
<1>1. /\ UNCHANGED <<loader, resident, durable_offset, lifecycle, db>> /\ resident
      /\ checkpoint.phase = "none" /\ checkpoint'.phase = "taken"
      /\ checkpoint'.start = MaxOf(durable_offset, ring.earliest)
  BY DEF TakeCheckpoint, procVars, memVars
<1>2. durable_offset = db.durable /\ durable_offset <= MaxOf(durable_offset, ring.earliest)
  <2>1. durable_offset = db.durable
    BY <1>1 DEF AgreeInv, CurrentInv
  <2> QED
    BY <2>1, Offsets DEF MaxOf
<1>3. CurrentInv'
  BY <1>1, <1>2 DEF AgreeInv, CurrentInv, Fresh
<1>4. CloseInv'
  BY <1>1 DEF AgreeInv, CloseInv
<1> QED
  BY <1>3, <1>4 DEF AgreeInv

LEMMA CommitTransactionAgree ==
  ASSUME DurabilityInv, AgreeInv, EndInv, CommitTransaction
  PROVE  AgreeInv'
<1>1. /\ UNCHANGED <<loader, resident, durable_offset, lifecycle>>
      /\ checkpoint.phase = "taken" /\ checkpoint' = [checkpoint EXCEPT !.phase = "committed"]
      /\ db' = [earliest |-> checkpoint.earliest, durable |-> checkpoint.target,
                state |-> IF checkpoint.close THEN "closed" ELSE db.state,
                rows |-> CommittedRows(db.rows, checkpoint)]
  BY DEF CommitTransaction, procVars, memVars
<1>2. /\ db'.state = IF checkpoint.close THEN "closed" ELSE db.state
      /\ checkpoint'.phase = "committed" /\ checkpoint'.close = checkpoint.close
  BY <1>1 DEF DurabilityInv, TypeOK, IsCheckpoint
<1>3. resident /\ (checkpoint.close => lifecycle = "closing")
  BY <1>1 DEF DurabilityInv, HandleInv, CheckpointInv
<1>4. \A l \in Loaders : loader[l].busy => loader[l].state # "closed"
  <2>1. db.state # "closed"
    BY <1>1, <1>3 DEF EndInv
  <2> QED
    BY <2>1 DEF AgreeInv, CurrentInv, Fresh
<1>5. CurrentInv'
  BY <1>1, <1>2, <1>3, <1>4 DEF CurrentInv
<1>6. CloseInv'
  BY <1>1, <1>2, <1>3 DEF AgreeInv, CloseInv
<1> QED
  BY <1>5, <1>6 DEF AgreeInv

LEMMA CommitDurableAgree ==
  ASSUME DurabilityInv, AgreeInv, CommitDurable \/ CommitFails
  PROVE  AgreeInv'
<1>1. UNCHANGED <<loader, resident, db>> /\ checkpoint'.phase = "none" /\ resident
  BY Offsets DEF CommitDurable, CommitFails, procVars, NoCheckpoint
<1>2. durable_offset' = db.durable
  <2>1. CASE CommitDurable
    <3>1. /\ checkpoint.target = db.durable /\ durable_offset <= db.durable
          /\ durable_offset' = MaxOf(durable_offset, checkpoint.target)
      BY <1>1, <2>1 DEF CommitDurable, DurabilityInv, CheckpointInv, HandleInv
    <3> QED
      BY <3>1, Offsets DEF MaxOf
  <2>2. CASE CommitFails
    BY <1>1, <2>2 DEF CommitFails, AgreeInv, CurrentInv, memVars
  <2> QED
    BY <2>1, <2>2
<1>3. CurrentInv'
  BY <1>1, <1>2 DEF AgreeInv, CurrentInv, Fresh
<1>4. CloseInv'
  <2>1. \/ lifecycle' = lifecycle
        \/ lifecycle' = "closed" /\ db.state = "closed"
    BY <1>1 DEF CommitDurable, CommitFails, AgreeInv, CloseInv, memVars
  <2> QED
    BY <1>1, <2>1 DEF AgreeInv, CloseInv
<1> QED
  BY <1>3, <1>4 DEF AgreeInv

LEMMA UnloadAgree ==
  ASSUME DurabilityInv, AgreeInv, EvictRetired \/ Crash
  PROVE  AgreeInv'
<1>1. resident' = FALSE /\ checkpoint'.phase = "none" /\ db' = db
  BY DEF EvictRetired, Crash, NoCheckpoint, DurabilityInv, HandleInv
<1>2. CASE EvictRetired
  <2>1. loader' = loader /\ resident /\ retired
    BY <1>2 DEF EvictRetired
  <2>2. db.state = "closed"
    BY <2>1 DEF DurabilityInv, HandleInv, AgreeInv, CloseInv
  <2> QED
    BY <1>1, <2>1, <2>2 DEF AgreeInv, CurrentInv, CloseInv, Fresh
<1>3. CASE Crash
  <2>1. \A l \in Loaders : ~loader'[l].busy
    BY <1>3 DEF Crash, NoRow
  <2> QED
    BY <1>1, <2>1 DEF AgreeInv, CurrentInv, CloseInv
<1> QED
  BY <1>2, <1>3

LEMMA NextAgree ==
  ASSUME DurabilityInv, AgreeInv, EndInv, ~reopened', [Next]_vars
  PROVE  AgreeInv'
<1>1. CASE Elsewhere \/ UNCHANGED vars
  BY <1>1, ElsewhereLeaves, ElsewhereLifecycle, AgreeUnchanged
<1>2. ASSUME NEW l \in Loaders, ReadRow(l) \/ InsertHandle(l) PROVE AgreeInv'
  BY <1>2, LoadAgree
<1>3. CASE EvictRetired \/ Crash
  BY <1>3, UnloadAgree
<1>4. CASE ShrinkToCapacity
  BY <1>4, AgreeUnchanged DEF ShrinkToCapacity, procVars
<1>5. ASSUME NEW p \in Sessions, AppendFrame(p) PROVE AgreeInv'
  BY <1>5, AgreeUnchanged DEF AppendFrame, procVars
<1>6. CASE TakeCheckpoint
  BY <1>6, TakeCheckpointAgree
<1>7. CASE CommitTransaction
  BY <1>7, CommitTransactionAgree
<1>8. CASE CommitDurable \/ CommitFails
  BY <1>8, CommitDurableAgree
<1> QED
  BY <1>1, <1>2, <1>3, <1>4, <1>5, <1>6, <1>7, <1>8, NextSplit

LEMMA EndUnchanged ==
  ASSUME EndInv, AgreeInv, UNCHANGED <<resident, checkpoint, db, log>>,
         lifecycle' = lifecycle \/ (lifecycle = "open" /\ lifecycle' = "closing")
  PROVE  EndInv'
  BY DEF EndInv, AgreeInv, CloseInv

LEMMA NextEnd ==
  ASSUME DurabilityInv, AgreeInv, EndInv, ~reopened', [Next]_vars
  PROVE  EndInv'
<1>1. CASE Elsewhere \/ UNCHANGED vars
  BY <1>1, ElsewhereLeaves, ElsewhereLifecycle, EndUnchanged
<1>2. ASSUME NEW l \in Loaders, ReadRow(l) \/ InsertHandle(l) PROVE EndInv'
  <2>1. UNCHANGED <<checkpoint, db, log>>
    BY <1>2 DEF ReadRow, InsertHandle
  <2>2. CASE UNCHANGED <<resident, memVars>>
    BY <2>1, <2>2, EndUnchanged DEF memVars
  <2>3. CASE ~resident /\ lifecycle' = db.state
    BY <2>1, <2>3 DEF EndInv, DurabilityInv, HandleInv
  <2>4. CASE InsertHandle(l)
    BY <2>2, <2>3, <2>4, LoadOutcome
  <2> QED
    BY <1>2, <2>2, <2>4 DEF ReadRow
<1>3. CASE EvictRetired
  BY <1>3 DEF EvictRetired, EndInv
<1>4. CASE Crash
  <2>1. resident' = FALSE /\ db' = db /\ log' = SubSeq(log, 1, db.durable)
    BY <1>4 DEF Crash
  <2>2. db.durable <= Len(log)
    BY Offsets DEF DurabilityInv, HandleInv
  <2>3. Len(SubSeq(log, 1, db.durable)) = db.durable
    BY <2>2, Offsets
  <2> QED
    BY <2>1, <2>3 DEF EndInv
<1>5. CASE ShrinkToCapacity
  BY <1>5, EndUnchanged DEF ShrinkToCapacity, procVars
<1>6. ASSUME NEW p \in Sessions, AppendFrame(p) PROVE EndInv'
  <2>1. UNCHANGED <<resident, checkpoint, db, lifecycle>> /\ resident
    BY <1>6 DEF AppendFrame, procVars, DurabilityInv, HandleInv
  <2>2. lifecycle = "open" \/ log' = log
    BY <1>6 DEF AppendFrame, Accepts
  <2> QED
    BY <2>1, <2>2 DEF EndInv
<1>7. CASE TakeCheckpoint
  <2>1. /\ UNCHANGED <<resident, lifecycle, db, log>> /\ resident /\ checkpoint.phase = "none"
        /\ next_offset > durable_offset \/ lifecycle = "closing"
    BY <1>7 DEF TakeCheckpoint, NeedsCheckpoint, procVars, memVars
  <2>2. durable_offset = db.durable /\ Len(log) = next_offset
    BY <2>1 DEF AgreeInv, CurrentInv, DurabilityInv, HandleInv
  <2>3. db.state # "closed"
    BY <2>1, <2>2, Offsets DEF EndInv
  <2> QED
    BY <2>1, <2>3 DEF EndInv, AgreeInv, CloseInv
<1>8. CASE CommitTransaction
  <2>1. /\ UNCHANGED <<resident, lifecycle, log>> /\ checkpoint.phase = "taken" /\ resident
        /\ checkpoint'.phase = "committed" /\ checkpoint'.close = checkpoint.close
        /\ db'.durable = checkpoint.target
        /\ db'.state = IF checkpoint.close THEN "closed" ELSE db.state
    BY <1>8, Offsets DEF CommitTransaction, procVars, memVars, DurabilityInv, TypeOK, IsCheckpoint
  <2>2. lifecycle # "closed" /\ db.state # "closed"
    BY <2>1 DEF EndInv
  <2>3. checkpoint.close => lifecycle = "closing" /\ checkpoint.target = Len(log)
    BY <2>1 DEF DurabilityInv, CheckpointInv, HandleInv
  <2> QED
    BY <2>1, <2>2, <2>3 DEF EndInv
<1>9. CASE CommitDurable \/ CommitFails
  <2>1. /\ UNCHANGED <<resident, db, log>> /\ checkpoint'.phase = "none" /\ resident
        /\ \/ checkpoint.phase = "taken" /\ lifecycle' = lifecycle
           \/ lifecycle' = IF checkpoint.close THEN "closed" ELSE lifecycle
    BY <1>9, Offsets DEF CommitDurable, CommitFails, procVars, memVars, NoCheckpoint
  <2> QED
    BY <2>1 DEF EndInv
<1> QED
  BY <1>1, <1>2, <1>3, <1>4, <1>5, <1>6, <1>7, <1>8, <1>9, NextSplit

(* Handle, checkpoint in flight and database agree until a stale row       *)
(* reopens a closed terminal.                                              *)
LEMMA OrderHolds == Spec => [](~reopened => AgreeInv /\ EndInv)
<1>1. Init => AgreeInv /\ EndInv
  BY DEF Init, AgreeInv, CurrentInv, CloseInv, EndInv, NoRow, NoCheckpoint
<1>2. ASSUME DurabilityInv, ~reopened => AgreeInv /\ EndInv, [Next]_vars
      PROVE  (~reopened => AgreeInv /\ EndInv)'
  BY <1>2, ReopenedStays, NextAgree, NextEnd
<1> QED
  BY <1>1, <1>2, DurabilityHolds, PTL DEF Spec

(* A checkpoint in flight never collides with the UNIQUE and CHECK         *)
(* constraints of the tables: unless a stale row reopened the terminal,    *)
(* its chunk starts past every stored row.                                 *)
THEOREM CheckpointsAreInsertable == Spec => []CheckpointInsertable
<1>1. ASSUME DurabilityInv, ContentInv, ~reopened => AgreeInv /\ EndInv
      PROVE  CheckpointInsertable
  <2> SUFFICES ASSUME checkpoint.phase = "taken", ~reopened PROVE Insertable(checkpoint)
    BY DEF CheckpointInsertable
  <2>1. checkpoint.earliest <= checkpoint.target
    BY <1>1, Offsets DEF DurabilityInv, CheckpointInv
  <2>2. \A r \in db.rows : r.start < r.end /\ r.end <= checkpoint.start
    BY <1>1, Offsets, Rows DEF ContentInv, RowsInv, AgreeInv, CurrentInv
  <2>3. \A r \in db.rows : r.start # checkpoint.start
    BY <1>1, <2>2, Offsets, Rows
  <2> QED
    BY <2>1, <2>2, <2>3 DEF Insertable
<1> QED
  BY <1>1, DurabilityHolds, ContentHolds, OrderHolds, PTL

(* However many loads wait with the row they have read, the row a handle   *)
(* is built by is the stored one as long as the terminal is open: the only *)
(* way to an open handle of a closed terminal is a row read before the     *)
(* close was committed.                                                    *)
THEOREM OnlyStaleRowsReopen == Spec => []OnlyStaleLoadReopens
<1>1. ASSUME DurabilityInv, ~reopened => AgreeInv /\ EndInv
      PROVE  OnlyStaleLoadReopens
  <2>1. ASSUME NEW l \in Loaders, loader[l].busy, ~resident, ~reopened
        PROVE  \/ loader[l] = [busy |-> TRUE, earliest |-> db.earliest,
                              durable |-> db.durable, state |-> db.state]
               \/ loader[l].state = "open" /\ db.state = "closed"
    <3>1. loader[l] \in LoaderRows /\ db.state \in {"open", "closed"}
      BY <1>1 DEF DurabilityInv, TypeOK, IsStore
    <3>2. CASE Fresh(loader[l])
      BY <2>1, <3>1, <3>2 DEF Fresh, LoaderRows
    <3>3. CASE ~Fresh(loader[l])
      BY <1>1, <2>1, <3>1, <3>3 DEF AgreeInv, CurrentInv, LoaderRows
    <3> QED
      BY <3>2, <3>3
  <2>2. resident /\ db.state = "closed" /\ ~reopened => lifecycle # "open"
    BY <1>1 DEF AgreeInv, CloseInv
  <2> QED
    BY <2>1, <2>2 DEF OnlyStaleLoadReopens
<1> QED
  BY <1>1, DurabilityHolds, OrderHolds, PTL

-----------------------------------------------------------------------------
(* The close *)

(* A subscriber has not been told of the close, or it was told last. *)
Untold(sub) == \A i \in DOMAIN sub.queue : sub.queue[i].kind # "closed"
ToldLast(sub, end) ==
  \A i \in DOMAIN sub.queue :
    sub.queue[i].kind = "closed" => i = Len(sub.queue) /\ sub.queue[i].at = end

(* Whoever was told was told the truth, and no handle knows better. *)
ToldInv ==
  \A s \in Subs :
    \/ Untold(subs[s])
    \/ /\ ToldLast(subs[s], db.durable)
       /\ db.state = "closed" /\ (resident => lifecycle = "closed")

(* Between broadcasts a queue stays, loses its oldest event, or is dropped. *)
Drained(old, new) ==
  \/ new.queue = old.queue \/ new.queue = << >>
  \/ old.queue # << >> /\ new.queue = Tail(old.queue)

LEMMA QueueSteps ==
  ASSUME DurabilityInv, [Next]_vars
  PROVE  \/ Resize \/ CommitDurable \/ \E p \in Sessions : AppendFrame(p)
         \/ \A s \in Subs : Drained(subs[s], subs'[s])
<1>1. DOMAIN subs = Subs /\ \A s \in Subs : IsSub(subs[s])
  BY DurabilityInvParts DEF SubsOK
<1>2. CASE subs' = subs
  BY <1>2 DEF Drained
<1>3. ASSUME NEW s \in Subs, NEW sub, subs' = [subs EXCEPT ![s] = sub], Drained(subs[s], sub)
      PROVE  \A k \in Subs : Drained(subs[k], subs'[k])
  BY <1>1, <1>3 DEF Drained
<1>4. \A pos : Unsubscribed(pos).queue = << >>
  BY DEF Unsubscribed
<1>5. CASE TerminateSubscribers
  <2>1. ASSUME NEW s \in Subs PROVE [subs[s] EXCEPT !.phase = "terminated"].queue = subs[s].queue
    BY <1>1 DEF IsSub
  <2>2. \A s \in Subs : subs'[s].queue = subs[s].queue
    BY <1>5, <2>1 DEF TerminateSubscribers
  <2> QED
    BY <2>2 DEF Drained
<1>6. CASE Crash
  <2>1. \A s \in Subs : subs'[s].queue = << >>
    BY <1>4, <1>6 DEF Crash
  <2> QED
    BY <2>1 DEF Drained
<1>7. ASSUME NEW s \in Subs, EndOfStream(s) \/ Disconnect(s)
      PROVE  \A k \in Subs : Drained(subs[k], subs'[k])
  BY <1>3, <1>4, <1>7 DEF EndOfStream, Disconnect, Drained
<1>8. ASSUME NEW s \in Subs, NEW requested, Subscribe(s, requested)
      PROVE  \A k \in Subs : Drained(subs[k], subs'[k])
  <2> DEFINE from == MaxOf(requested, ring.earliest)
             sub  == [Unsubscribed(from) EXCEPT
                        !.phase = "live", !.replay = ReplayChunks(from),
                        !.window = ReadRange(ring, from, next_offset)]
  <2>1. sub.queue = << >>
    BY DEF Unsubscribed
  <2>2. subs' = [subs EXCEPT ![s] = sub]
    BY <1>8 DEF Subscribe
  <2> HIDE DEF sub
  <2> QED
    BY <1>3, <2>1, <2>2 DEF Drained
<1>9. ASSUME NEW s \in Subs, SendReplay(s)
      PROVE  \A k \in Subs : Drained(subs[k], subs'[k])
  <2> DEFINE rest == Tail(subs[s].replay)
             sub == [subs[s] EXCEPT
                       !.pos = Head(subs[s].replay).end, !.replay = rest,
                       !.window = IF rest = << >> THEN NoBytes ELSE subs[s].window]
  <2>1. sub.queue = subs[s].queue
    BY <1>1 DEF IsSub
  <2>2. subs' = [subs EXCEPT ![s] = sub]
    BY <1>9 DEF SendReplay
  <2> HIDE DEF sub
  <2> QED
    BY <1>3, <2>1, <2>2 DEF Drained
<1>10. ASSUME NEW s \in Subs, Deliver(s)
       PROVE  \A k \in Subs : Drained(subs[k], subs'[k])
  <2> DEFINE event == Head(subs[s].queue)
             sub   == [subs[s] EXCEPT
                         !.queue = Tail(subs[s].queue),
                         !.queued = subs[s].queued - Len(event.payload),
                         !.pos = IF event.kind = "output" THEN event.at + Len(event.payload)
                                                          ELSE subs[s].pos]
  <2>1. sub.queue = Tail(subs[s].queue) /\ subs[s].queue # << >>
    BY <1>1, <1>10 DEF IsSub, Deliver
  <2>2. \/ subs' = [subs EXCEPT ![s] = Unsubscribed(subs[s].pos)]
        \/ subs' = [subs EXCEPT ![s] = sub]
    BY <1>10 DEF Deliver
  <2> HIDE DEF sub
  <2> QED
    BY <1>3, <1>4, <2>1, <2>2 DEF Drained
<1>11. \/ Resize \/ CommitDurable \/ TerminateSubscribers \/ Crash
       \/ \E p \in Sessions : AppendFrame(p)
       \/ \E s \in Subs : \/ \E requested : Subscribe(s, requested)
                          \/ SendReplay(s) \/ Deliver(s) \/ EndOfStream(s) \/ Disconnect(s)
       \/ subs' = subs
  BY DEF Next, ReadRow, InsertHandle, EvictRetired, ChangeCapacity, ShrinkToCapacity, OnBinary,
         WaitEnds, SendAck, BeginClose, Checkpointing, TakeCheckpoint, CommitTransaction,
         CommitFails, Recover, vars
<1> QED
  BY <1>2, <1>5, <1>6, <1>7, <1>8, <1>9, <1>10, <1>11

LEMMA DrainedTold ==
  ASSUME NEW old, NEW new, IsSub(old), Drained(old, new), NEW end
  PROVE  /\ Untold(old) => Untold(new)
         /\ ToldLast(old, end) => ToldLast(new, end)
<1>1. old.queue \in Seq(Events)
  BY DEF IsSub
<1>2. CASE new.queue = old.queue
  BY <1>2 DEF Untold, ToldLast
<1>3. CASE new.queue = << >>
  BY <1>3 DEF Untold, ToldLast
<1>4. CASE old.queue # << >> /\ new.queue = Tail(old.queue)
  <2>1. /\ Len(new.queue) = Len(old.queue) - 1
        /\ \A i \in DOMAIN new.queue : /\ i \in Nat /\ i + 1 \in DOMAIN old.queue
                                       /\ new.queue[i] = old.queue[i + 1]
    BY <1>1, <1>4
  <2>2. Len(old.queue) \in Nat
    BY <1>1
  <2> QED
    BY <2>1, <2>2 DEF Untold, ToldLast
<1> QED
  BY <1>2, <1>3, <1>4 DEF Drained

(* Only a close tells of a close. *)
LEMMA OfferTold ==
  ASSUME NEW sub, IsSub(sub), Untold(sub), NEW event \in Events
  PROVE  /\ event.kind # "closed" => Untold(Offer(sub, event))
         /\ ToldLast(Offer(sub, event), event.at)
<1>1. PICK res : res = Offer(sub, event)
  OBVIOUS
<1>2. Refused(sub, res) \/ Queued(sub, event, res)
  BY <1>1, OfferOutcome
<1>3. sub.queue \in Seq(Events)
  BY DEF IsSub
<1>4. /\ event.kind # "closed" => Untold(res)
      /\ ToldLast(res, event.at)
  <2>1. CASE Refused(sub, res)
    BY <2>1 DEF Untold, ToldLast, Refused
  <2>2. CASE Queued(sub, event, res)
    <3>1. PICK n \in Nat : n = Len(sub.queue)
      BY <1>3
    <3>2. /\ DOMAIN res.queue = 1 .. n + 1 /\ Len(res.queue) = n + 1
          /\ res.queue[n + 1] = event /\ DOMAIN sub.queue = 1 .. n
          /\ \A i \in 1 .. n : res.queue[i] = sub.queue[i]
      BY <1>3, <2>2, <3>1 DEF Queued
    <3>3. \A i \in 1 .. n + 1 : i = n + 1 \/ i \in 1 .. n
      OBVIOUS
    <3>4. \A i \in 1 .. n : res.queue[i].kind # "closed"
      BY <3>2 DEF Untold
    <3> QED
      BY <3>2, <3>3, <3>4 DEF Untold, ToldLast
  <2> QED
    BY <1>2, <2>1, <2>2
<1> QED
  BY <1>1, <1>4

LEMMA NextTold ==
  ASSUME DurabilityInv, AgreeInv, EndInv, ToldInv, ~reopened', [Next]_vars
  PROVE  ToldInv'
<1>1. \A s \in Subs : IsSub(subs[s])
  BY DurabilityInvParts DEF SubsOK
<1>2. resident /\ lifecycle # "closed" => \A s \in Subs : Untold(subs[s])
  BY DEF ToldInv
<1>3. CASE Resize
  <2>1. resident /\ lifecycle = "open" /\ Resized \in Events /\ Resized.kind # "closed"
    BY <1>3 DEF Resize, Resized, Events
  <2>2. \A s \in Subs : subs'[s] = Offer(subs[s], Resized)
    BY <1>3 DEF Resize, FanOut
  <2> QED
    BY <1>1, <1>2, <2>1, <2>2, OfferTold DEF ToldInv
<1>4. ASSUME NEW p \in Sessions, AppendFrame(p) PROVE ToldInv'
  <2>1. UNCHANGED <<db, resident, lifecycle>> /\ resident
    BY <1>4 DEF AppendFrame, procVars, DurabilityInv, HandleInv
  <2>2. CASE subs' = subs
    BY <2>1, <2>2 DEF ToldInv
  <2>3. CASE lifecycle = "open" /\ subs' = FanOut(Output(next_offset, session[p].payload))
    <3>1. PICK event : event = Output(next_offset, session[p].payload)
      OBVIOUS
    <3>2. event \in Events /\ event.kind # "closed"
      BY <3>1 DEF Output, Events, DurabilityInv, TypeOK, FrameStates
    <3>3. \A s \in Subs : subs'[s] = Offer(subs[s], event)
      BY <2>3, <3>1 DEF FanOut
    <3> QED
      BY <1>1, <1>2, <2>1, <2>3, <3>2, <3>3, OfferTold DEF ToldInv
  <2> QED
    BY <1>4, <2>2, <2>3 DEF AppendFrame, Accepts
<1>5. CASE CommitDurable
  <2> DEFINE after(s) == IF checkpoint.target > durable_offset
                         THEN Offer(subs[s], Durable(checkpoint.target)) ELSE subs[s]
  <2>1. /\ checkpoint.phase = "committed" /\ UNCHANGED <<db, resident, next_offset>> /\ resident
        /\ lifecycle' = IF checkpoint.close THEN "closed" ELSE lifecycle
        /\ \A s \in Subs : subs'[s] = IF checkpoint.close
                                      THEN Offer(after(s), Closed(next_offset)) ELSE after(s)
    BY <1>5, Offsets DEF CommitDurable, procVars
  <2>2. /\ Durable(checkpoint.target) \in Events /\ Durable(checkpoint.target).kind = "durable"
        /\ Closed(next_offset) \in Events /\ Closed(next_offset).at = next_offset
    BY Offsets DEF Durable, Closed, Events
  <2>3. lifecycle # "closed"
    BY <2>1 DEF EndInv
  <2>4. \A s \in Subs : IsSub(after(s)) /\ Untold(after(s))
    BY <1>1, <1>2, <2>1, <2>2, <2>3, OfferTold, OfferOutcome
  <2> HIDE DEF after
  <2>5. CASE ~checkpoint.close
    BY <2>1, <2>4, <2>5 DEF ToldInv
  <2>6. CASE checkpoint.close
    <3>1. db.state = "closed" /\ db.durable = next_offset
      BY <2>1, <2>6 DEF AgreeInv, CloseInv, DurabilityInv, CheckpointInv
    <3>2. \A s \in Subs : ToldLast(subs'[s], next_offset)
      BY <2>1, <2>2, <2>4, <2>6, OfferTold
    <3> QED
      BY <2>1, <2>6, <3>1, <3>2 DEF ToldInv
  <2> QED
    BY <2>5, <2>6
<1>6. CASE \A s \in Subs : Drained(subs[s], subs'[s])
  <2>1. \/ \A s \in Subs : Untold(subs[s])
        \/ /\ UNCHANGED <<db>> /\ (resident' => lifecycle' = "closed")
           /\ db.state = "closed"
    <3> SUFFICES ASSUME db.state = "closed", resident => lifecycle = "closed"
                 PROVE  db' = db /\ (resident' => lifecycle' = "closed")
      BY DEF ToldInv
    <3>1. ~CommitTransaction
      BY Offsets DEF CommitTransaction, EndInv
    <3>2. CASE Elsewhere \/ UNCHANGED vars
      BY <3>2, ElsewhereLeaves, ElsewhereLifecycle
    <3>3. ASSUME NEW l \in Loaders, ReadRow(l) \/ InsertHandle(l)
          PROVE  db' = db /\ (resident' => lifecycle' = "closed")
      <4>1. db' = db
        BY <3>3 DEF ReadRow, InsertHandle
      <4>2. UNCHANGED <<resident, lifecycle>> \/ lifecycle' = db.state
        BY <3>3, LoadOutcome DEF ReadRow, memVars
      <4> QED
        BY <4>1, <4>2
    <3>4. CASE EvictRetired \/ Crash
      BY <3>4 DEF EvictRetired, Crash
    <3>5. CASE ShrinkToCapacity \/ TakeCheckpoint \/ CommitFails
      BY <3>5 DEF ShrinkToCapacity, TakeCheckpoint, CommitFails, procVars, memVars
    <3>6. ASSUME NEW p \in Sessions, AppendFrame(p)
          PROVE  db' = db /\ (resident' => lifecycle' = "closed")
      BY <3>6 DEF AppendFrame, procVars
    <3>7. CASE CommitDurable
      BY <3>7 DEF CommitDurable, procVars
    <3> QED
      BY <3>1, <3>2, <3>3, <3>4, <3>5, <3>6, <3>7, NextSplit
  <2>2. \A s \in Subs : /\ Untold(subs[s]) => Untold(subs'[s])
                        /\ ToldLast(subs[s], db.durable) => ToldLast(subs'[s], db.durable)
    BY <1>1, <1>6, DrainedTold
  <2> QED
    BY <2>1, <2>2 DEF ToldInv
<1> QED
  BY <1>3, <1>4, <1>5, <1>6, QueueSteps

(* A subscriber hears of the close last, after every accepted byte was     *)
(* queued ahead of it and committed, unless a stale row reopened the       *)
(* terminal.                                                               *)
THEOREM CloseIsLast == Spec => []CloseComesLast
<1>1. Init => ToldInv
  BY DEF Init, ToldInv, Untold, Unsubscribed
<1>2. ASSUME DurabilityInv, ~reopened => AgreeInv /\ EndInv, ~reopened => ToldInv, [Next]_vars
      PROVE  (~reopened => ToldInv)'
  BY <1>2, ReopenedStays, NextTold
<1>3. (~reopened => AgreeInv /\ EndInv) /\ (~reopened => ToldInv) => CloseComesLast
  BY DEF EndInv, ToldInv, Untold, ToldLast, CloseComesLast
<1> QED
  BY <1>1, <1>2, <1>3, DurabilityHolds, OrderHolds, PTL DEF Spec

-----------------------------------------------------------------------------
(* The relay implements OutputLog *)

(* A frame in progress carries a payload of a publisher. *)
FramesInv == \A p \in Sessions : session[p].pc # "idle" => session[p].payload \in Payloads

LEMMA FramesHold == Spec => []FramesInv
<1>1. Init => FramesInv
  BY DEF Init, FramesInv, IdleFrame
<1>2. ASSUME TypeOK, FramesInv, [Next]_vars PROVE FramesInv'
  <2>1. session \in [Sessions -> FrameStates]
    BY <1>2 DEF TypeOK
  <2>2. CASE session' = session
    BY <1>2, <2>2 DEF FramesInv
  <2>3. CASE session' = [p \in Sessions |-> IdleFrame]
    BY <2>3 DEF FramesInv, IdleFrame
  <2>4. ASSUME NEW p \in Sessions, NEW frame, session' = [session EXCEPT ![p] = frame],
               frame.pc # "idle" => frame.payload \in Payloads
        PROVE  FramesInv'
    BY <1>2, <2>1, <2>4 DEF FramesInv
  <2>5. ASSUME NEW p \in Sessions, NEW expected, NEW payload \in Payloads,
               OnBinary(p, expected, payload)
        PROVE  FramesInv'
    <3> DEFINE frame == [pc |-> "passed", expected |-> expected, payload |-> payload,
                         capacity |-> replay_capacity, early |-> expected # next_offset]
               held == [frame EXCEPT !.pc = "waiting"]
    <3>1. frame.payload = payload /\ held.payload = payload
      OBVIOUS
    <3>2. \/ session' = [session EXCEPT ![p] = frame]
          \/ session' = [session EXCEPT ![p] = held]
      BY <2>5 DEF OnBinary
    <3> HIDE DEF frame, held
    <3> QED
      BY <2>4, <3>1, <3>2
  <2>6. ASSUME NEW p \in Sessions, WaitEnds(p) PROVE FramesInv'
    <3> DEFINE passed == [session[p] EXCEPT !.pc = "passed", !.early = session[p].expected # next_offset]
    <3>1. passed.payload = session[p].payload /\ session[p].payload \in Payloads
      BY <1>2, <2>1, <2>6 DEF WaitEnds, FramesInv, FrameStates
    <3>2. \/ session' = [session EXCEPT ![p] = passed]
          \/ session' = [session EXCEPT ![p] = IdleFrame]
      BY <2>6 DEF WaitEnds
    <3> HIDE DEF passed
    <3> QED
      BY <2>4, <3>1, <3>2 DEF IdleFrame
  <2>7. ASSUME NEW p \in Sessions, AppendFrame(p) PROVE FramesInv'
    BY <2>4, <2>7 DEF AppendFrame, IdleFrame
  <2>8. \/ session' = session
        \/ session' = [p \in Sessions |-> IdleFrame]
        \/ \E p \in Sessions : \/ WaitEnds(p) \/ AppendFrame(p)
                               \/ \E expected, payload : payload \in Payloads
                                                         /\ OnBinary(p, expected, payload)
    BY <1>2 DEF Next, ReadRow, InsertHandle, EvictRetired, ChangeCapacity, ShrinkToCapacity,
                SendAck, Resize, BeginClose, Checkpointing, TakeCheckpoint, CommitTransaction,
                CommitDurable, CommitFails, Subscribe, SendReplay, Deliver, EndOfStream,
                Disconnect, TerminateSubscribers, Crash, Recover, vars
  <2> QED
    BY <2>2, <2>3, <2>5, <2>6, <2>7, <2>8
<1> QED
  BY <1>1, <1>2, TypeCorrect, PTL DEF Spec

(* The detailed relay's step, seen as a step of the log. *)
LEMMA StepRefines ==
  ASSUME DurabilityInv, AgreeInv, EndInv, FramesInv, ~reopened', [Next]_vars
  PROVE  [Abstract!Next]_(Abstract!logVars)
<1> USE DEF Abstract!logVars
<1>0. /\ db.state \in {"open", "closed"}
      /\ lifecycle \in {"open", "closing", "closed"}
  BY DEF DurabilityInv, TypeOK, IsStore
<1>1. CASE UNCHANGED <<log, db, acked, resident, lifecycle>>
  BY <1>1 DEF AbstractState
<1>2. CASE SendAck
  <2>1. /\ UNCHANGED <<log, db, resident, lifecycle>> /\ durable_offset > acked
        /\ acked' = durable_offset /\ resident
    BY <1>2 DEF SendAck, procVars, memVars
  <2>2. acked' \in acked .. db.durable
    BY <2>1, Offsets DEF DurabilityInv, TypeOK, HandleInv
  <2>3. Abstract!Acknowledge
    BY <2>1, <2>2 DEF Abstract!Acknowledge, AbstractState
  <2> QED
    BY <2>3, Zenon DEF Abstract!Next
<1>3. CASE BeginClose
  <2>1. /\ UNCHANGED <<log, db, acked, resident>> /\ resident
        /\ lifecycle = "open" /\ lifecycle' = "closing"
    BY <1>3 DEF BeginClose, procVars
  <2>2. db.state = "open"
    BY <1>0, <2>1 DEF AgreeInv, CloseInv
  <2>3. Abstract!BeginClose
    BY <2>1, <2>2 DEF Abstract!BeginClose, AbstractState
  <2> QED
    BY <2>3, Zenon DEF Abstract!Next
<1>4. ASSUME NEW l \in Loaders, ReadRow(l) \/ InsertHandle(l)
      PROVE  UNCHANGED <<log, db.durable, acked, AbstractState>>
  <2>1. UNCHANGED <<log, db, acked>>
    BY <1>4 DEF ReadRow, InsertHandle
  <2>2. \/ UNCHANGED <<resident, lifecycle>>
        \/ ~resident /\ lifecycle' = db.state
    BY <1>4, LoadOutcome DEF ReadRow, memVars
  <2> QED
    BY <1>0, <2>1, <2>2 DEF AbstractState
<1>5. CASE EvictRetired
  <2>1. /\ UNCHANGED <<log, db, acked>> /\ resident /\ retired
    BY <1>5 DEF EvictRetired
  <2>2. db.state = "closed"
    BY <2>1 DEF DurabilityInv, HandleInv, AgreeInv, CloseInv
  <2>3. UNCHANGED AbstractState
    BY <2>1, <2>2 DEF AbstractState
  <2> QED
    BY <2>1, <2>3
<1>6. ASSUME NEW p \in Sessions, AppendFrame(p)
      PROVE  [Abstract!Next]_(Abstract!logVars)
  <2>1. UNCHANGED <<db, acked, resident, lifecycle>> /\ resident /\ session[p].payload \in Payloads
    BY <1>6 DEF AppendFrame, procVars, DurabilityInv, HandleInv, FramesInv
  <2>2. CASE log' = log
    BY <1>1, <2>1, <2>2
  <2>3. CASE lifecycle = "open" /\ log' = log \o session[p].payload
    <3>1. db.state = "open"
      BY <1>0, <2>1, <2>3 DEF AgreeInv, CloseInv
    <3>2. Abstract!Accept(session[p].payload)
      BY <2>1, <2>3, <3>1 DEF Abstract!Accept, AbstractState
    <3> QED
      BY <2>1, <3>2 DEF Abstract!Next
  <2> QED
    BY <1>6, <2>2, <2>3 DEF AppendFrame, Accepts
<1>7. CASE CommitTransaction
  <2>1. /\ UNCHANGED <<log, acked, resident, lifecycle>> /\ checkpoint.phase = "taken"
        /\ resident /\ db'.durable = checkpoint.target
        /\ db'.state = IF checkpoint.close THEN "closed" ELSE db.state
    BY <1>7, Offsets DEF CommitTransaction, procVars, memVars
  <2>2. /\ db.durable <= checkpoint.target /\ checkpoint.target <= Len(log)
        /\ checkpoint.close => lifecycle = "closing" /\ checkpoint.target = Len(log)
    BY <2>1 DEF DurabilityInv, CheckpointInv, HandleInv
  <2>3. db.state = "open"
    BY <1>0, <2>1 DEF EndInv
  <2>4. CASE checkpoint.close
    <3>1. Abstract!Close
      BY <2>1, <2>2, <2>3, <2>4 DEF Abstract!Close, AbstractState
    <3> QED
      BY <3>1, Zenon DEF Abstract!Next
  <2>5. CASE ~checkpoint.close
    <3>1. checkpoint.target \in db.durable .. Len(log)
      BY <2>2, Offsets
    <3>2. Abstract!MakeDurable(checkpoint.target)
      BY <2>1, <2>2, <2>3, <2>5 DEF Abstract!MakeDurable, AbstractState
    <3> QED
      BY <3>1, <3>2 DEF Abstract!Next
  <2> QED
    BY <2>4, <2>5
<1>8. CASE CommitDurable
  <2>1. /\ UNCHANGED <<log, db, acked, resident>> /\ checkpoint.phase = "committed"
        /\ lifecycle' = lifecycle \/ checkpoint.close
    BY <1>8 DEF CommitDurable, procVars
  <2>2. UNCHANGED AbstractState
    BY <2>1 DEF AbstractState, AgreeInv, CloseInv
  <2> QED
    BY <2>1, <2>2
<1>9. CASE Crash
  <2>1. /\ UNCHANGED <<db, acked>> /\ resident' = FALSE /\ log' = SubSeq(log, 1, db.durable)
    BY <1>9 DEF Crash
  <2>2. AbstractState' = IF AbstractState = "closed" THEN "closed" ELSE "open"
    BY <1>0, <2>1 DEF AbstractState, AgreeInv, CloseInv
  <2>3. Abstract!Crash
    BY <2>1, <2>2, Zenon DEF Abstract!Crash
  <2>4. Abstract!Next
    BY <2>3, Zenon DEF Abstract!Next
  <2> QED
    BY <2>4, Zenon
<1>10. CASE Elsewhere \/ UNCHANGED vars
  <2>1. UNCHANGED <<log, db, resident>>
    BY <1>10, ElsewhereLeaves
  <2>2. acked' = acked \/ SendAck
    BY <1>10 DEF Elsewhere, ChangeCapacity, OnBinary, WaitEnds, Resize, BeginClose,
                 TerminateSubscribers, Recover, Subscribe, SendReplay, Deliver, EndOfStream,
                 Disconnect, vars
  <2>3. lifecycle' = lifecycle \/ BeginClose
    BY <1>10 DEF Elsewhere, ChangeCapacity, OnBinary, WaitEnds, SendAck, Resize,
                 TerminateSubscribers, Recover, Subscribe, SendReplay, Deliver, EndOfStream,
                 Disconnect, vars, memVars
  <2> QED
    BY <1>1, <1>2, <1>3, <2>1, <2>2, <2>3
<1>11. CASE ShrinkToCapacity \/ TakeCheckpoint \/ CommitFails
  BY <1>1, <1>11 DEF ShrinkToCapacity, TakeCheckpoint, CommitFails, procVars, memVars
<1> QED
  BY <1>4, <1>5, <1>6, <1>7, <1>8, <1>9, <1>10, <1>11, NextSplit

(* The relay - ring, checkpoints, rows, crashes and reloads - implements   *)
(* OutputLog: every step of it is a step of the abstract log, under the    *)
(* mapping that takes the database's word for what is durable, or leaves   *)
(* the log alone, up to the step by which a stale row reopens a closed     *)
(* terminal.                                                               *)
THEOREM RelayImplementsOutputLog == Spec => ImplementsOutputLog
<1>1. Init => Abstract!Init
  BY DEF Init, Abstract!Init, AbstractState
<1>2. ASSUME DurabilityInv, ~reopened => AgreeInv /\ EndInv, FramesInv, [Next]_vars
      PROVE  [Abstract!Next \/ reopened']_<<log, db.durable, acked, AbstractState>>
  <2>1. CASE reopened'
    BY <2>1
  <2>2. CASE ~reopened'
    <3>1. [Abstract!Next]_(Abstract!logVars)
      BY <1>2, <2>2, ReopenedStays, StepRefines
    <3> QED
      BY <3>1 DEF Abstract!logVars
  <2> QED
    BY <2>1, <2>2
<1> QED
  BY <1>1, <1>2, DurabilityHolds, OrderHolds, FramesHold, PTL DEF Spec, ImplementsOutputLog

-----------------------------------------------------------------------------
(* Mirrors *)

(* What a subscriber is owed lies within the stream. *)
Within(sub, stream) ==
  /\ \A i \in DOMAIN sub.replay : sub.replay[i].end <= Len(stream)
  /\ \A i \in DOMAIN sub.queue :
       sub.queue[i].at + Len(sub.queue[i].payload) <= Len(stream)

Shown(sub, stream, next) ==
  /\ Contiguous(sub, next) /\ BytesGenuine(sub, stream) /\ DurableFollows(sub, stream)
  /\ Within(sub, stream)

(* Only a resident handle has subscribers. *)
MirrorInv ==
  \A s \in Subs : Shown(subs[s], log, next_offset) /\ (Live(s) => resident)

Extended(stream, longer) ==
  Len(stream) <= Len(longer) /\ \A i \in 1 .. Len(stream) : longer[i] = stream[i]

LEMMA SubParts ==
  ASSUME NEW sub, IsSub(sub)
  PROVE  /\ sub.pos \in Nat /\ sub.queue \in Seq(Events) /\ Len(sub.queue) \in Nat
         /\ sub.replay \in Seq([start : Nat, end : Nat]) /\ Len(sub.replay) \in Nat
         /\ DOMAIN sub.queue = 1 .. Len(sub.queue) /\ DOMAIN sub.replay = 1 .. Len(sub.replay)
         /\ \A i \in DOMAIN sub.replay : sub.replay[i].start \in Nat /\ sub.replay[i].end \in Nat
         /\ \A i \in DOMAIN sub.queue :
              /\ sub.queue[i].at \in Nat /\ sub.queue[i].payload \in Seq(Byte)
              /\ Len(sub.queue[i].payload) \in Nat
              /\ DOMAIN sub.queue[i].payload = 1 .. Len(sub.queue[i].payload)
<1>1. /\ sub.pos \in Nat /\ sub.queue \in Seq(Events)
      /\ sub.replay \in Seq([start : Nat, end : Nat])
  BY DEF IsSub
<1>2. /\ \A i \in DOMAIN sub.queue : sub.queue[i] \in Events
      /\ \A i \in DOMAIN sub.replay : sub.replay[i] \in [start : Nat, end : Nat]
      /\ Len(sub.queue) \in Nat /\ DOMAIN sub.queue = 1 .. Len(sub.queue)
      /\ Len(sub.replay) \in Nat /\ DOMAIN sub.replay = 1 .. Len(sub.replay)
  <2>1. ASSUME NEW T, NEW q \in Seq(T)
        PROVE  /\ Len(q) \in Nat /\ DOMAIN q = 1 .. Len(q) /\ \A i \in DOMAIN q : q[i] \in T
    OBVIOUS
  <2>2. /\ Len(sub.queue) \in Nat /\ DOMAIN sub.queue = 1 .. Len(sub.queue)
        /\ \A i \in DOMAIN sub.queue : sub.queue[i] \in Events
    BY <1>1, <2>1, Zenon
  <2>3. /\ Len(sub.replay) \in Nat /\ DOMAIN sub.replay = 1 .. Len(sub.replay)
        /\ \A i \in DOMAIN sub.replay : sub.replay[i] \in [start : Nat, end : Nat]
    BY <1>1, <2>1, Zenon
  <2> QED
    BY <2>2, <2>3
<1>3. \A e \in Events : /\ e.at \in Nat /\ e.payload \in Seq(Byte)
                        /\ Len(e.payload) \in Nat /\ DOMAIN e.payload = 1 .. Len(e.payload)
  BY DEF Events
<1> QED
  BY <1>1, <1>2, <1>3

(* The stream grows behind what was queued. *)
LEMMA ShownGrows ==
  ASSUME NEW sub, IsSub(sub), NEW stream \in Seq(Byte), NEW longer \in Seq(Byte),
         NEW next, NEW later, Extended(stream, longer), Shown(sub, stream, next),
         sub.phase = "live" => later = next
  PROVE  Shown(sub, longer, later)
<1>1. Len(stream) \in Nat /\ Len(longer) \in Nat /\ Len(stream) <= Len(longer)
  BY DEF Extended
<1>2. Contiguous(sub, later)
  BY DEF Shown, Contiguous
<1>3. Within(sub, longer)
  <2>1. \A n \in Nat : n <= Len(stream) => n <= Len(longer)
    BY <1>1
  <2>2. \A i \in DOMAIN sub.queue : sub.queue[i].at + Len(sub.queue[i].payload) \in Nat
    BY SubParts
  <2> QED
    BY <2>1, <2>2, SubParts DEF Shown, Within
<1>4. DurableFollows(sub, longer)
  <2> SUFFICES ASSUME NEW i \in DOMAIN sub.queue, sub.queue[i].kind = "durable"
               PROVE  \E o \in sub.queue[i].at .. Len(longer) : Stands(sub, i, o)
    BY DEF DurableFollows
  <2>1. PICK o \in sub.queue[i].at .. Len(stream) : Stands(sub, i, o)
    BY DEF Shown, DurableFollows
  <2>2. o \in sub.queue[i].at .. Len(longer)
    BY <1>1, <2>1, SubParts
  <2> QED
    BY <2>1, <2>2
<1>5. BytesGenuine(sub, longer)
  <2>1. ASSUME NEW i \in DOMAIN sub.replay,
               NEW o \in sub.replay[i].start .. sub.replay[i].end - 1
        PROVE  sub.window[o] = longer[o + 1]
    <3>1. /\ sub.replay[i].start \in Nat /\ sub.replay[i].end \in Nat
          /\ sub.replay[i].end <= Len(stream) /\ sub.window[o] = stream[o + 1]
      BY SubParts DEF Shown, Within, BytesGenuine
    <3>2. o + 1 \in 1 .. Len(stream)
      BY <1>1, <3>1
    <3> QED
      BY <3>1, <3>2 DEF Extended
  <2>2. ASSUME NEW i \in DOMAIN sub.queue, NEW k \in DOMAIN sub.queue[i].payload
        PROVE  sub.queue[i].payload[k] = longer[sub.queue[i].at + k]
    <3>1. /\ sub.queue[i].at \in Nat /\ k \in 1 .. Len(sub.queue[i].payload)
          /\ Len(sub.queue[i].payload) \in Nat
      BY SubParts
    <3>2. /\ sub.queue[i].at + Len(sub.queue[i].payload) <= Len(stream)
          /\ sub.queue[i].payload[k] = stream[sub.queue[i].at + k]
      BY DEF Shown, Within, BytesGenuine
    <3>3. sub.queue[i].at + k \in 1 .. Len(stream)
      <4>1. PICK a \in Nat, m \in Nat, n \in Nat :
              a = sub.queue[i].at /\ m = Len(sub.queue[i].payload) /\ n = Len(stream)
        BY <1>1, <3>1
      <4>2. k \in 1 .. m /\ a + m <= n
        BY <3>1, <3>2, <4>1
      <4>3. a + k \in 1 .. n
        BY <4>2
      <4> QED
        BY <4>1, <4>3
    <3> QED
      BY <3>2, <3>3 DEF Extended
  <2> QED
    BY <2>1, <2>2 DEF BytesGenuine
<1> QED
  BY <1>2, <1>3, <1>4, <1>5 DEF Shown

(* A subscriber that is cut off is still owed what was queued before. *)
LEMMA CutShown ==
  ASSUME NEW sub, NEW res, NEW stream, NEW next, Shown(sub, stream, next),
         res.pos = sub.pos, res.replay = sub.replay, res.window = sub.window,
         res.queue = sub.queue, res.phase # "live"
  PROVE  Shown(res, stream, next)
<1>1. \A i, o : Stands(res, i, o) <=> Stands(sub, i, o)
  BY DEF Stands
<1>2. Contiguous(res, next)
  BY <1>1 DEF Shown, Contiguous
<1>3. BytesGenuine(res, stream) /\ Within(res, stream)
  BY DEF Shown, BytesGenuine, Within
<1>4. DurableFollows(res, stream)
  BY <1>1 DEF Shown, DurableFollows
<1> QED
  BY <1>2, <1>3, <1>4 DEF Shown

(* An event behind the others moves nobody but whom it reaches. *)
LEMMA StandsQueued ==
  ASSUME NEW sub, IsSub(sub), NEW event, NEW res, Queued(sub, event, res)
  PROVE  /\ \A i \in 0 .. Len(sub.queue) : \A o : Stands(sub, i, o) => Stands(res, i, o)
         /\ event.kind = "output" =>
              Stands(res, Len(sub.queue) + 1, event.at + Len(event.payload))
         /\ event.kind # "output" =>
              \A o : Stands(sub, Len(sub.queue), o) => Stands(res, Len(sub.queue) + 1, o)
<1>1. /\ res.pos = sub.pos /\ res.replay = sub.replay /\ Len(sub.queue) \in Nat
      /\ res.queue[Len(sub.queue) + 1] = event
      /\ \A i \in 1 .. Len(sub.queue) : res.queue[i] = sub.queue[i]
  BY SubParts DEF Queued
<1>2. ASSUME NEW i \in 0 .. Len(sub.queue), NEW o, Stands(sub, i, o) PROVE Stands(res, i, o)
  <2>1. \A j \in 1 .. i : res.queue[j] = sub.queue[j]
    BY <1>1
  <2>2. \A j \in 1 .. i : \A k \in j + 1 .. i : k \in 1 .. i
    BY <1>1
  <2> QED
    BY <1>1, <1>2, <2>1, <2>2 DEF Stands
<1>3. ASSUME event.kind = "output"
      PROVE  Stands(res, Len(sub.queue) + 1, event.at + Len(event.payload))
  BY <1>1, <1>3 DEF Stands
<1>4. ASSUME event.kind # "output", NEW o, Stands(sub, Len(sub.queue), o)
      PROVE  Stands(res, Len(sub.queue) + 1, o)
  <2>1. Stands(res, Len(sub.queue), o)
    BY <1>1, <1>2, <1>4
  <2>2. \A j \in 1 .. Len(sub.queue) + 1 : j \in 1 .. Len(sub.queue) \/ j = Len(sub.queue) + 1
    BY <1>1
  <2>3. \A j \in 1 .. Len(sub.queue) : /\ j \in 1 .. Len(sub.queue) + 1
                                       /\ \A k \in j + 1 .. Len(sub.queue) + 1 :
                                            \/ k \in j + 1 .. Len(sub.queue)
                                            \/ k = Len(sub.queue) + 1
    BY <1>1
  <2> QED
    BY <1>1, <1>4, <2>1, <2>2, <2>3 DEF Stands
<1> QED
  BY <1>2, <1>3, <1>4

(* TerminalInner::fan_out: a subscriber that keeps up is shown the event,  *)
(* one that does not is shown a prefix.                                    *)
LEMMA OfferShown ==
  ASSUME NEW sub, IsSub(sub), NEW event \in Events,
         NEW stream \in Seq(Byte), NEW longer \in Seq(Byte), NEW next \in Nat, NEW later \in Nat,
         Extended(stream, longer), Shown(sub, stream, next),
         later <= Len(longer), event.at + Len(event.payload) <= Len(longer),
         \A k \in DOMAIN event.payload : event.payload[k] = longer[event.at + k],
         IF event.kind = "output"
           THEN event.at = next /\ later = next + Len(event.payload)
           ELSE later = next,
         event.kind = "durable" => event.at <= next
  PROVE  Shown(Offer(sub, event), longer, later)
<1>1. PICK res : res = Offer(sub, event)
  OBVIOUS
<1>2. IsSub(res) /\ (Refused(sub, res) \/ Queued(sub, event, res))
  BY <1>1, OfferOutcome
<1>3. CASE Refused(sub, res)
  <2>1. Shown(res, stream, next)
    BY <1>3, CutShown DEF Refused
  <2> QED
    BY <1>1, <1>2, <1>3, <2>1, ShownGrows DEF Refused
<1>4. CASE Queued(sub, event, res)
  <2>1. PICK n \in Nat : n = Len(sub.queue)
    BY SubParts
  <2>2. /\ res.replay = sub.replay /\ res.window = sub.window /\ res.pos = sub.pos
        /\ DOMAIN res.queue = 1 .. n + 1 /\ Len(res.queue) = n + 1 /\ res.queue[n + 1] = event
        /\ \A i \in 1 .. n : res.queue[i] = sub.queue[i]
        /\ DOMAIN sub.queue = 1 .. n /\ sub.phase = "live"
    <3>1. DOMAIN sub.queue = 1 .. n
      BY <2>1, SubParts, Zenon
    <3> QED
      BY <1>4, <2>1, <3>1, Zenon DEF Queued
  <2>3. \A i \in DOMAIN res.queue :
          \/ i = n + 1
          \/ i \in 1 .. n /\ i - 1 \in 0 .. n /\ i \in 0 .. n
    <3>1. \A i \in 1 .. n + 1 :
            \/ i = n + 1
            \/ i \in 1 .. n /\ i - 1 \in 0 .. n /\ i \in 0 .. n
      OBVIOUS
    <3>2. DOMAIN res.queue = 1 .. n + 1
      BY <2>2, Zenon
    <3> QED
      BY <3>1, <3>2, Zenon
  <2>4. /\ \A i \in 0 .. n : \A o : Stands(sub, i, o) => Stands(res, i, o)
        /\ event.kind = "output" => Stands(res, n + 1, event.at + Len(event.payload))
        /\ event.kind # "output" => \A o : Stands(sub, n, o) => Stands(res, n + 1, o)
    BY <1>4, <2>1, StandsQueued
  <2>5. Shown(sub, longer, next)
    BY ShownGrows
  <2>6. Stands(sub, n, next)
    BY <2>1, <2>2, <2>5 DEF Shown, Contiguous
  <2>7. Stands(res, n + 1, later)
    BY <2>4, <2>6
  <2>8. Contiguous(res, later)
    <3>1. ASSUME NEW i \in DOMAIN res.queue, res.queue[i].kind = "output"
          PROVE  Stands(res, i - 1, res.queue[i].at)
      <4>1. CASE i = n + 1
        <5>1. i - 1 = n /\ n \in 0 .. n
          BY <4>1
        <5> QED
          BY <2>2, <2>4, <2>6, <3>1, <4>1, <5>1
      <4>2. CASE i \in 1 .. n /\ i - 1 \in 0 .. n
        BY <2>2, <2>4, <2>5, <3>1, <4>2 DEF Shown, Contiguous
      <4> QED
        BY <2>3, <4>1, <4>2
    <3> QED
      BY <2>2, <2>5, <2>7, <3>1 DEF Shown, Contiguous
  <2>9. BytesGenuine(res, longer)
    <3>1. ASSUME NEW i \in DOMAIN res.queue, NEW k \in DOMAIN res.queue[i].payload
        PROVE  res.queue[i].payload[k] = longer[res.queue[i].at + k]
      <4>1. CASE i = n + 1
      BY <2>2, <4>1
      <4>2. CASE i \in 1 .. n
      BY <2>2, <2>5, <4>2 DEF Shown, BytesGenuine
      <4> QED
      BY <2>3, <4>1, <4>2
    <3> QED
    BY <2>2, <2>5, <3>1 DEF Shown, BytesGenuine
  <2>10. Within(res, longer)
    BY <2>2, <2>3, <2>5 DEF Shown, Within
  <2>11. DurableFollows(res, longer)
    <3> SUFFICES ASSUME NEW i \in DOMAIN res.queue, res.queue[i].kind = "durable"
                 PROVE  \E o \in res.queue[i].at .. Len(longer) : Stands(res, i, o)
      BY DEF DurableFollows
    <3>1. CASE i = n + 1
      <4>1. res.queue[i] = event /\ event.kind = "durable"
        BY <2>2, <3>1
      <4>2. event.at \in Nat /\ Len(longer) \in Nat
        BY DEF Events
      <4>3. later \in event.at .. Len(longer)
        BY <4>1, <4>2
      <4> QED
        BY <2>7, <3>1, <4>1, <4>3
    <3>2. CASE i \in 1 .. n /\ i \in 0 .. n
      BY <2>2, <2>4, <2>5, <3>2 DEF Shown, DurableFollows
    <3> QED
      BY <2>3, <3>1, <3>2
  <2> QED
    BY <1>1, <2>8, <2>9, <2>10, <2>11 DEF Shown
<1> QED
  BY <1>2, <1>3, <1>4

(* A connection that ended is shown nothing. *)
LEMMA UnsubscribedShown ==
  ASSUME NEW pos, NEW stream, NEW next
  PROVE  Shown(Unsubscribed(pos), stream, next)
<1>1. PICK sub : sub = Unsubscribed(pos)
  OBVIOUS
<1>2. sub.queue = << >> /\ sub.replay = << >> /\ sub.phase # "live"
  BY <1>1 DEF Unsubscribed
<1>3. Shown(sub, stream, next)
  BY <1>2 DEF Shown, Contiguous, BytesGenuine, DurableFollows, Within
<1> QED
  BY <1>1, <1>3

(* What remains of a sequence without its first element. *)
LEMMA TailIsShorter ==
  ASSUME NEW T, NEW q \in Seq(T), q # << >>
  PROVE  \E n \in Nat :
           /\ Len(q) = n + 1 /\ DOMAIN q = 1 .. n + 1 /\ Head(q) = q[1]
           /\ DOMAIN Tail(q) = 1 .. n /\ Len(Tail(q)) = n /\ (Tail(q) = << >> <=> n = 0)
           /\ \A i \in 1 .. n : Tail(q)[i] = q[i + 1]
<1>1. Len(q) - 1 \in Nat /\ Len(q) = (Len(q) - 1) + 1
  BY EmptySeq, LenProperties
<1>2. PICK n \in Nat : Len(q) = n + 1
  BY <1>1
<1>3. /\ Tail(q) \in Seq(T) /\ Len(Tail(q)) = n /\ DOMAIN Tail(q) = 1 .. n
      /\ \A i \in 1 .. n : Tail(q)[i] = q[i + 1]
  BY <1>2
<1>4. Tail(q) = << >> <=> n = 0
  BY <1>3
<1> QED
  BY <1>2, <1>3, <1>4

(* The next chunk of the replay. *)
LEMMA ReplayShown ==
  ASSUME NEW sub, IsSub(sub), NEW res, NEW stream, NEW next, Shown(sub, stream, next),
         sub.replay # << >>, res.replay = Tail(sub.replay), res.pos = Head(sub.replay).end,
         res.queue = sub.queue, res.phase = sub.phase,
         res.replay # << >> => res.window = sub.window
  PROVE  Shown(res, stream, next)
<1>1. sub.replay \in Seq([start : Nat, end : Nat])
  BY SubParts
<1>2. PICK n \in Nat :
        /\ Len(sub.replay) = n + 1 /\ DOMAIN sub.replay = 1 .. n + 1
        /\ Head(sub.replay) = sub.replay[1]
        /\ DOMAIN res.replay = 1 .. n /\ Len(res.replay) = n /\ (res.replay = << >> <=> n = 0)
        /\ \A i \in 1 .. n : res.replay[i] = sub.replay[i + 1]
  BY <1>1, TailIsShorter
<1>3. \A i \in 1 .. n : i + 1 \in 1 .. n + 1 /\ i + 1 # 1 /\ (i + 1) - 1 = i
  OBVIOUS
<1>4. \A i \in Nat : \A o : Stands(sub, i, o) => Stands(res, i, o)
  <2>1. (IF res.replay = << >> THEN res.pos ELSE res.replay[Len(res.replay)].end)
          = sub.replay[Len(sub.replay)].end
    <3>1. CASE n = 0
      BY <1>2, <3>1
    <3>2. CASE n # 0
      <4>1. n \in 1 .. n
        BY <3>2
      <4> QED
        BY <1>2, <3>2, <4>1
    <3> QED
      BY <3>1, <3>2
  <2> QED
    BY <2>1 DEF Stands
<1>5. Contiguous(res, next)
  <2>1. ASSUME NEW i \in DOMAIN res.replay
        PROVE  res.replay[i].start = IF i = 1 THEN res.pos ELSE res.replay[i - 1].end
    <3>1. i \in 1 .. n /\ res.replay[i].start = sub.replay[i].end
      <4>1. i \in 1 .. n /\ res.replay[i] = sub.replay[i + 1] /\ i + 1 \in DOMAIN sub.replay
        BY <1>2, <1>3
      <4>2. sub.replay[i + 1].start =
              IF i + 1 = 1 THEN sub.pos ELSE sub.replay[(i + 1) - 1].end
        BY <4>1 DEF Shown, Contiguous
      <4> QED
        BY <1>3, <4>1, <4>2
    <3>2. CASE i = 1
      BY <1>2, <3>1, <3>2
    <3>3. CASE i # 1
      <4>1. i - 1 \in 1 .. n /\ (i - 1) + 1 = i
        BY <3>1, <3>3
      <4> QED
        BY <1>2, <3>1, <3>3, <4>1
    <3> QED
      BY <3>2, <3>3
  <2>2. \A i \in DOMAIN sub.queue : i - 1 \in Nat
    BY SubParts
  <2>3. Len(sub.queue) \in Nat
    BY SubParts
  <2> QED
    BY <1>4, <2>1, <2>2, <2>3 DEF Shown, Contiguous
<1>6. BytesGenuine(res, stream)
  <2>1. ASSUME NEW i \in DOMAIN res.replay
        PROVE  \A o \in res.replay[i].start .. res.replay[i].end - 1 :
                 res.window[o] = stream[o + 1]
    <3>1. res.replay # << >> /\ i + 1 \in DOMAIN sub.replay /\ res.replay[i] = sub.replay[i + 1]
      BY <1>2, <1>3
    <3> QED
      BY <3>1 DEF Shown, BytesGenuine
  <2> QED
    BY <2>1 DEF Shown, BytesGenuine
<1>7. Within(res, stream)
  BY <1>2, <1>3 DEF Shown, Within
<1>8. DurableFollows(res, stream)
  <2>1. \A i \in DOMAIN sub.queue : i \in Nat
    BY SubParts
  <2> QED
    BY <1>4, <2>1 DEF Shown, DurableFollows
<1> QED
  BY <1>5, <1>6, <1>7, <1>8 DEF Shown

(* deliver, when the replay is over. *)
LEMMA DeliverShown ==
  ASSUME NEW sub, IsSub(sub), NEW res, NEW stream, NEW next, Shown(sub, stream, next),
         sub.replay = << >>, res.replay = << >>, sub.queue # << >>,
         res.queue = Tail(sub.queue), res.phase = sub.phase,
         res.pos = IF Head(sub.queue).kind = "output"
                   THEN Head(sub.queue).at + Len(Head(sub.queue).payload) ELSE sub.pos
  PROVE  Shown(res, stream, next)
<1>1. sub.queue \in Seq(Events)
  BY SubParts
<1>2. PICK n \in Nat :
        /\ Len(sub.queue) = n + 1 /\ DOMAIN sub.queue = 1 .. n + 1
        /\ Head(sub.queue) = sub.queue[1]
        /\ DOMAIN res.queue = 1 .. n /\ Len(res.queue) = n
        /\ \A i \in 1 .. n : res.queue[i] = sub.queue[i + 1]
  BY <1>1, TailIsShorter
<1>3. ASSUME NEW i \in 0 .. n, NEW o, Stands(sub, i + 1, o) PROVE Stands(res, i, o)
  <2>1. \A j \in 1 .. i : j + 1 \in 1 .. i + 1 /\ res.queue[j] = sub.queue[j + 1]
    BY <1>2
  <2>2. CASE /\ \A j \in 1 .. i + 1 : sub.queue[j].kind # "output"
             /\ o = sub.pos
    <3>1. 1 \in 1 .. i + 1
      OBVIOUS
    <3>2. res.pos = sub.pos
      BY <1>2, <2>2, <3>1
    <3> QED
      BY <2>1, <2>2, <3>2 DEF Stands
  <2>3. ASSUME NEW j \in 1 .. i + 1, sub.queue[j].kind = "output",
               \A k \in j + 1 .. i + 1 : sub.queue[k].kind # "output",
               o = sub.queue[j].at + Len(sub.queue[j].payload)
        PROVE  Stands(res, i, o)
    <3>1. CASE j = 1
      <4>1. \A k \in 1 .. i : k + 1 \in j + 1 .. i + 1
        BY <3>1
      <4>2. \A k \in 1 .. i : res.queue[k].kind # "output"
        BY <2>1, <2>3, <4>1
      <4>3. o = res.pos
        BY <1>2, <2>3, <3>1
      <4> QED
        BY <4>2, <4>3 DEF Stands
    <3>2. CASE j # 1
      <4>1. PICK h \in 1 .. i : j = h + 1
        BY <3>2
      <4>2. res.queue[h] = sub.queue[j]
        BY <2>1, <4>1
      <4>3. \A k \in h + 1 .. i : k \in 1 .. i /\ k + 1 \in j + 1 .. i + 1
        BY <4>1
      <4>4. \A k \in h + 1 .. i : res.queue[k].kind # "output"
        BY <2>1, <2>3, <4>3
      <4> QED
        BY <2>3, <4>2, <4>4 DEF Stands
    <3> QED
      BY <3>1, <3>2
  <2> QED
    BY <1>3, <2>2, <2>3 DEF Stands
<1>4. \A i \in 1 .. n : i + 1 \in 1 .. n + 1 /\ i - 1 \in 0 .. n /\ i \in 0 .. n
                        /\ (i + 1) - 1 = (i - 1) + 1
  OBVIOUS
<1>5. Contiguous(res, next)
  <2>1. ASSUME NEW i \in DOMAIN res.queue, res.queue[i].kind = "output"
        PROVE  Stands(res, i - 1, res.queue[i].at)
    <3>1. i \in 1 .. n /\ i + 1 \in DOMAIN sub.queue /\ res.queue[i] = sub.queue[i + 1]
      BY <1>2, <1>4
    <3>2. Stands(sub, (i - 1) + 1, res.queue[i].at)
      BY <1>4, <2>1, <3>1 DEF Shown, Contiguous
    <3> QED
      BY <1>3, <1>4, <3>1, <3>2
  <2>2. res.phase = "live" => Stands(res, Len(res.queue), next)
    BY <1>1, <1>2, <1>3 DEF Shown, Contiguous
  <2> QED
    BY <2>1, <2>2 DEF Contiguous
<1>6. BytesGenuine(res, stream)
  <2>1. ASSUME NEW i \in DOMAIN res.queue, NEW k \in DOMAIN res.queue[i].payload
        PROVE  res.queue[i].payload[k] = stream[res.queue[i].at + k]
    <3>1. i + 1 \in DOMAIN sub.queue /\ res.queue[i] = sub.queue[i + 1]
      BY <1>2, <1>4
    <3> QED
      BY <3>1 DEF Shown, BytesGenuine
  <2> QED
    BY <2>1 DEF BytesGenuine
<1>7. Within(res, stream)
  BY <1>2, <1>4 DEF Shown, Within
<1>8. DurableFollows(res, stream)
  <2> SUFFICES ASSUME NEW i \in DOMAIN res.queue, res.queue[i].kind = "durable"
               PROVE  \E o \in res.queue[i].at .. Len(stream) : Stands(res, i, o)
    BY DEF DurableFollows
  <2>1. i \in 1 .. n /\ i \in 0 .. n /\ i + 1 \in DOMAIN sub.queue
        /\ res.queue[i] = sub.queue[i + 1]
    BY <1>2, <1>4
  <2>2. PICK o \in res.queue[i].at .. Len(stream) : Stands(sub, i + 1, o)
    BY <2>1 DEF Shown, DurableFollows
  <2> QED
    BY <1>3, <2>1, <2>2
<1> QED
  BY <1>5, <1>6, <1>7, <1>8 DEF Shown

(* Division, as the chunks need it: as many as it takes, and no empty one. *)
LEMMA ChunkCount ==
  ASSUME NEW d \in Nat, NEW size \in Nat \ {0}, NEW count, count = (d + size - 1) \div size
  PROVE  /\ count \in Nat /\ d <= count * size /\ (count = 0 => d = 0)
         /\ \A i \in 1 .. count : /\ (i - 1) * size \in Nat /\ (i - 1) * size < d
                                  /\ i * size \in Nat /\ i * size = (i - 1) * size + size
<1>1. PICK n \in Nat : n = d + size - 1
  OBVIOUS
<1>2. count \in Nat /\ count * size \in Nat /\ count * size <= n /\ n < count * size + size
  <2>1. count \in Nat
    BY <1>1
  <2>2. n = size * (n \div size) + (n % size) /\ n % size \in 0 .. size - 1
    BY <1>1
  <2>3. size * count = count * size /\ count * size \in Nat
    BY <2>1
  <2> QED
    BY <1>1, <2>1, <2>2, <2>3
<1>3. d <= count * size
  BY <1>1, <1>2
<1>4. count = 0 => d = 0
  <2>1. count = 0 => count * size = 0
    OBVIOUS
  <2> QED
    BY <1>3, <2>1
<1>5. ASSUME NEW i \in 1 .. count
      PROVE  /\ (i - 1) * size \in Nat /\ (i - 1) * size < d
             /\ i * size \in Nat /\ i * size = (i - 1) * size + size
  <2>1. i \in Nat /\ i - 1 \in Nat /\ i <= count
    BY <1>2
  <2>2. i * size \in Nat /\ (i - 1) * size \in Nat /\ i * size = (i - 1) * size + size
    BY <2>1
  <2>3. i * size <= count * size
    BY <1>2, <2>1
  <2> QED
    BY <1>1, <1>2, <2>2, <2>3
<1> QED
  BY <1>2, <1>3, <1>4, <1>5

(* subscribe: the replay joins the offset asked for to the live stream. *)
LEMMA SubscribeShown ==
  ASSUME DurabilityInv, ContentInv, resident, NEW from \in Nat, NEW res,
         ring.earliest <= from, from <= next_offset,
         res.phase = "live", res.pos = from, res.queue = << >>,
         res.replay = ReplayChunks(from), res.window = ReadRange(ring, from, next_offset)
  PROVE  Shown(res, log, next_offset)
<1>1. /\ next_offset \in Nat /\ ring.end = next_offset /\ ring.earliest \in Nat
      /\ Len(log) = next_offset /\ ChunkBytes \in Nat \ {0}
  BY Offsets, LimitsAssumption DEF DurabilityInv, HandleInv
<1>2. Readable(ring, from, next_offset)
  BY <1>1 DEF Readable
<1>3. PICK count : count = (next_offset - from + ChunkBytes - 1) \div ChunkBytes
  OBVIOUS
<1>4. /\ count \in Nat /\ next_offset - from <= count * ChunkBytes
      /\ (count = 0 => from = next_offset)
      /\ \A i \in 1 .. count :
           /\ (i - 1) * ChunkBytes \in Nat /\ (i - 1) * ChunkBytes < next_offset - from
           /\ i * ChunkBytes \in Nat /\ i * ChunkBytes = (i - 1) * ChunkBytes + ChunkBytes
  <2>1. PICK d \in Nat : d = next_offset - from
    BY <1>1
  <2>2. count = (d + ChunkBytes - 1) \div ChunkBytes
    BY <1>3, <2>1
  <2>3. /\ count \in Nat /\ d <= count * ChunkBytes /\ (count = 0 => d = 0)
        /\ \A i \in 1 .. count :
             /\ (i - 1) * ChunkBytes \in Nat /\ (i - 1) * ChunkBytes < d
             /\ i * ChunkBytes \in Nat /\ i * ChunkBytes = (i - 1) * ChunkBytes + ChunkBytes
    BY <1>1, <2>2, ChunkCount
  <2>4. d = 0 => from = next_offset
    BY <1>1, <2>1
  <2> QED
    BY <2>1, <2>3, <2>4
<1>5. /\ DOMAIN res.replay = 1 .. count /\ Len(res.replay) = count
      /\ (res.replay = << >> <=> count = 0)
      /\ \A i \in 1 .. count :
           /\ res.replay[i].start = from + (i - 1) * ChunkBytes
           /\ res.replay[i].end = MinOf(from + i * ChunkBytes, next_offset)
  <2> DEFINE chunk(i) == [start |-> from + (i - 1) * ChunkBytes,
                          end   |-> MinOf(from + i * ChunkBytes, next_offset)]
  <2>1. res.replay = [i \in 1 .. count |-> chunk(i)]
    BY <1>2, <1>3 DEF ReplayChunks
  <2>2. \A i : /\ chunk(i).start = from + (i - 1) * ChunkBytes
               /\ chunk(i).end = MinOf(from + i * ChunkBytes, next_offset)
    OBVIOUS
  <2> HIDE DEF chunk
  <2>3. PICK f : f = [i \in 1 .. count |-> chunk(i)]
    OBVIOUS
  <2>4. DOMAIN f = 1 .. count /\ Len(f) = count
    <3>1. PICK T : \A i \in 1 .. count : chunk(i) \in T
      <4>1. \A i \in 1 .. count : chunk(i) \in {chunk(j) : j \in 1 .. count}
        OBVIOUS
      <4> QED
        BY <4>1
    <3>2. f \in [1 .. count -> T]
      BY <2>3, <3>1
    <3> HIDE DEF chunk
    <3>3. f \in Seq(T)
      BY <1>4, <3>2
    <3> QED
      BY <1>4, <3>2, <3>3
  <2>5. f = << >> <=> count = 0
    BY <1>4, <2>4, EmptySeq
  <2> QED
    BY <2>1, <2>2, <2>3, <2>4, <2>5
<1>6. \A i \in 1 .. count : /\ from <= res.replay[i].start /\ res.replay[i].start \in Nat
                            /\ res.replay[i].end <= next_offset /\ res.replay[i].end \in Nat
  <2> SUFFICES ASSUME NEW i \in 1 .. count
               PROVE  /\ from <= res.replay[i].start /\ res.replay[i].start \in Nat
                      /\ res.replay[i].end <= next_offset /\ res.replay[i].end \in Nat
    OBVIOUS
  <2>1. PICK a \in Nat, b \in Nat : a = (i - 1) * ChunkBytes /\ b = i * ChunkBytes
    BY <1>4
  <2>2. res.replay[i].start = from + a /\ res.replay[i].end = MinOf(from + b, next_offset)
    BY <1>5, <2>1
  <2> QED
    BY <1>1, <2>2 DEF MinOf
<1>7. Contiguous(res, next_offset)
  <2>1. ASSUME NEW i \in 1 .. count
        PROVE  res.replay[i].start = IF i = 1 THEN res.pos ELSE res.replay[i - 1].end
    <3>1. CASE i = 1
      <4>1. (1 - 1) * ChunkBytes = 0
        BY <1>1
      <4> QED
        BY <1>5, <2>1, <3>1, <4>1
    <3>2. CASE i # 1
      <4>1. i - 1 \in 1 .. count
        BY <1>4, <3>2
      <4>2. from + (i - 1) * ChunkBytes <= next_offset
        BY <1>1, <1>4, <2>1
      <4>3. res.replay[i - 1].end = from + (i - 1) * ChunkBytes
        BY <1>5, <4>1, <4>2 DEF MinOf
      <4> QED
        BY <1>5, <2>1, <3>2, <4>3
    <3> QED
      BY <3>1, <3>2
  <2>2. next_offset = IF res.replay = << >> THEN res.pos ELSE res.replay[Len(res.replay)].end
    <3>1. CASE count = 0
      BY <1>4, <1>5, <3>1
    <3>2. CASE count # 0
      <4>1. count \in 1 .. count
        BY <1>4, <3>2
      <4>2. from + count * ChunkBytes \in Nat /\ next_offset <= from + count * ChunkBytes
        BY <1>1, <1>4, <4>1
      <4>3. MinOf(from + count * ChunkBytes, next_offset) = next_offset
        BY <1>1, <4>2 DEF MinOf
      <4> QED
        BY <1>5, <3>2, <4>1, <4>3
    <3> QED
      BY <3>1, <3>2
  <2>3. Stands(res, Len(res.queue), next_offset)
    BY <2>2 DEF Stands
  <2> QED
    BY <1>5, <2>1, <2>3 DEF Contiguous
<1>8. BytesGenuine(res, log)
  <2> SUFFICES ASSUME NEW i \in 1 .. count,
                      NEW o \in res.replay[i].start .. res.replay[i].end - 1
               PROVE  res.window[o] = log[o + 1]
    BY <1>5 DEF BytesGenuine
  <2>1. o \in from .. next_offset - 1 /\ o \in ring.earliest .. ring.end - 1
    BY <1>1, <1>6
  <2>2. res.window[o] = ring.bytes[o]
    BY <1>2, <2>1 DEF ReadRange
  <2> QED
    BY <2>1, <2>2 DEF ContentInv, WindowInv, Genuine
<1>9. Within(res, log) /\ DurableFollows(res, log)
  BY <1>1, <1>5, <1>6 DEF Within, DurableFollows
<1> QED
  BY <1>7, <1>8, <1>9 DEF Shown

LEMMA MirrorUnchanged ==
  ASSUME DurabilityInv, MirrorInv, UNCHANGED <<subs, log>>,
         \A s \in Subs : Live(s) => next_offset' = next_offset /\ resident'
  PROVE  MirrorInv'
<1>1. log \in Seq(Byte) /\ Extended(log, log)
  <2>1. log \in Seq(Byte) /\ Len(log) \in Nat
    BY Offsets
  <2>2. Len(log) <= Len(log)
    BY <2>1
  <2> QED
    BY <2>1, <2>2 DEF Extended
<1>2. ASSUME NEW s \in Subs PROVE Shown(subs[s], log, next_offset')
  <2>1. IsSub(subs[s]) /\ Shown(subs[s], log, next_offset)
    BY DurabilityInvParts DEF SubsOK, MirrorInv
  <2> QED
    BY <1>1, <2>1, ShownGrows DEF Live
<1> QED
  BY <1>2 DEF MirrorInv, Live

(* The mirror connections' own steps. *)
LEMMA ConnectionShown ==
  ASSUME DurabilityInv, ContentInv, MirrorInv, NEW s \in Subs,
         \/ \E requested \in {ring.earliest, subs[s].pos} : Subscribe(s, requested)
         \/ SendReplay(s) \/ Deliver(s) \/ EndOfStream(s) \/ Disconnect(s)
  PROVE  MirrorInv'
<1>1. /\ UNCHANGED <<log, next_offset, resident>> /\ DOMAIN subs = Subs
      /\ IsSub(subs[s]) /\ Shown(subs[s], log, next_offset) /\ (Live(s) => resident)
  BY DurabilityInvParts
  DEF SubsOK, MirrorInv, Subscribe, SendReplay, Deliver, EndOfStream, Disconnect, procVars, memVars
<1>2. ASSUME NEW res, subs' = [subs EXCEPT ![s] = res], Shown(res, log, next_offset),
             res.phase = "live" => resident
      PROVE  MirrorInv'
  <2>1. \A k \in Subs : subs'[k] = IF k = s THEN res ELSE subs[k]
    BY <1>1, <1>2
  <2> QED
    BY <1>1, <1>2, <2>1 DEF MirrorInv, Live
<1>3. ASSUME subs' = [subs EXCEPT ![s] = Unsubscribed(subs[s].pos)] PROVE MirrorInv'
  <2>1. PICK res : res = Unsubscribed(subs[s].pos)
    OBVIOUS
  <2>2. res.phase # "live"
    BY <2>1 DEF Unsubscribed
  <2>3. Shown(res, log, next_offset)
    BY <2>1, UnsubscribedShown
  <2> QED
    BY <1>2, <1>3, <2>1, <2>2, <2>3
<1>4. ASSUME NEW requested \in {ring.earliest, subs[s].pos}, Subscribe(s, requested)
      PROVE  MirrorInv'
  <2>1. PICK from \in Nat : /\ from = MaxOf(requested, ring.earliest)
                            /\ ring.earliest <= from /\ from <= next_offset
    <3>1. /\ requested \in Nat /\ ring.earliest \in Nat /\ next_offset \in Nat
          /\ ring.earliest <= next_offset /\ requested <= next_offset
      <4>1. subs[s].pos \in Nat
        BY <1>1, SubParts
      <4> QED
        BY <1>4, <4>1, Offsets DEF Subscribe
    <3> QED
      BY <3>1 DEF MaxOf
  <2>2. PICK res : res = [Unsubscribed(from) EXCEPT
                            !.phase = "live", !.replay = ReplayChunks(from),
                            !.window = ReadRange(ring, from, next_offset)]
    OBVIOUS
  <2>3. /\ res.phase = "live" /\ res.pos = from /\ res.queue = << >>
        /\ res.replay = ReplayChunks(from) /\ res.window = ReadRange(ring, from, next_offset)
    BY <2>2 DEF Unsubscribed
  <2>4. resident /\ subs' = [subs EXCEPT ![s] = res]
    BY <1>4, <2>1, <2>2 DEF Subscribe
  <2>5. Shown(res, log, next_offset)
    BY <2>1, <2>3, <2>4, SubscribeShown
  <2> QED
    BY <1>2, <2>4, <2>5
<1>5. CASE SendReplay(s)
  <2>1. PICK rest : rest = Tail(subs[s].replay)
    OBVIOUS
  <2>2. PICK res : res = [subs[s] EXCEPT
                            !.pos = Head(subs[s].replay).end, !.replay = rest,
                            !.window = IF rest = << >> THEN NoBytes ELSE subs[s].window]
    OBVIOUS
  <2>3. subs' = [subs EXCEPT ![s] = res] /\ subs[s].replay # << >>
    BY <1>5, <2>1, <2>2 DEF SendReplay
  <2>4. /\ res.replay = rest /\ res.pos = Head(subs[s].replay).end
        /\ res.queue = subs[s].queue /\ res.phase = subs[s].phase
        /\ rest # << >> => res.window = subs[s].window
    BY <1>1, <2>2 DEF IsSub
  <2>5. Shown(res, log, next_offset)
    BY <1>1, <2>1, <2>3, <2>4, ReplayShown
  <2> QED
    BY <1>1, <1>2, <2>3, <2>4, <2>5 DEF Live
<1>6. CASE Deliver(s)
  <2>1. PICK event : event = Head(subs[s].queue)
    OBVIOUS
  <2>2. PICK res : res = [subs[s] EXCEPT
                            !.queue  = Tail(subs[s].queue),
                            !.queued = subs[s].queued - Len(event.payload),
                            !.pos    = IF event.kind = "output"
                                       THEN event.at + Len(event.payload) ELSE subs[s].pos]
    OBVIOUS
  <2>3. /\ subs[s].replay = << >> /\ subs[s].queue # << >>
        /\ \/ subs' = [subs EXCEPT ![s] = Unsubscribed(subs[s].pos)]
           \/ subs' = [subs EXCEPT ![s] = res]
    BY <1>6, <2>1, <2>2 DEF Deliver
  <2>4. /\ res.replay = subs[s].replay /\ res.queue = Tail(subs[s].queue)
        /\ res.phase = subs[s].phase
        /\ res.pos = IF event.kind = "output" THEN event.at + Len(event.payload) ELSE subs[s].pos
    BY <1>1, <2>2 DEF IsSub
  <2>5. Shown(res, log, next_offset)
    BY <1>1, <2>1, <2>3, <2>4, DeliverShown
  <2> QED
    BY <1>1, <1>2, <1>3, <2>3, <2>4, <2>5 DEF Live
<1>7. CASE EndOfStream(s) \/ Disconnect(s)
  BY <1>3, <1>7 DEF EndOfStream, Disconnect
<1> QED
  BY <1>4, <1>5, <1>6, <1>7

(* An accepted payload, or a change of size, goes to every subscriber. *)
LEMMA BroadcastShown ==
  ASSUME DurabilityInv, MirrorInv, Resize \/ \E p \in Sessions : AppendFrame(p)
  PROVE  MirrorInv'
<1>1. /\ resident' = resident /\ DOMAIN subs = Subs
      /\ \A s \in Subs : /\ IsSub(subs[s]) /\ Shown(subs[s], log, next_offset)
                         /\ (Live(s) => resident)
  BY DurabilityInvParts DEF SubsOK, MirrorInv, Resize, AppendFrame, procVars
<1>2. log \in Seq(Byte) /\ Len(log) \in Nat /\ next_offset \in Nat
  BY Offsets
<1>3. CASE Resize
  <2>1. /\ UNCHANGED <<log, next_offset>> /\ resident
        /\ \A s \in Subs : subs'[s] = Offer(subs[s], Resized)
    BY <1>3 DEF Resize, FanOut, memVars
  <2>2. /\ Resized \in Events /\ Resized.kind = "resize" /\ Resized.at = 0
        /\ Resized.payload = << >>
    BY DEF Resized, Events
  <2>3. Len(log) = next_offset /\ next_offset <= Len(log) /\ 0 + Len(<< >>) <= Len(log)
    <3>1. Len(log) = next_offset
      BY <2>1 DEF DurabilityInv, HandleInv
    <3> QED
      BY <1>2, <3>1
  <2>4. Extended(log, log)
    BY <1>2, <2>3 DEF Extended
  <2>5. \A s \in Subs : Shown(Offer(subs[s], Resized), log, next_offset)
    BY <1>1, <1>2, <2>2, <2>3, <2>4, OfferShown
  <2> QED
    BY <1>1, <2>1, <2>5 DEF MirrorInv
<1>4. ASSUME NEW p \in Sessions, AppendFrame(p) PROVE MirrorInv'
  <2>1. resident /\ Len(log) = next_offset /\ session[p].payload \in Seq(Byte)
    BY <1>4 DEF AppendFrame, DurabilityInv, HandleInv, TypeOK, FrameStates
  <2>2. PICK payload \in Seq(Byte) : payload = session[p].payload
    BY <2>1
  <2>3. CASE ~Accepts(session[p])
    BY <1>1, <1>4, <2>3, MirrorUnchanged DEF AppendFrame
  <2>4. CASE Accepts(session[p])
    <3>1. /\ log' = log \o payload /\ next_offset' = next_offset + Len(payload)
          /\ subs' = IF payload = << >> THEN subs ELSE FanOut(Output(next_offset, payload))
      BY <1>4, <2>2, <2>4 DEF AppendFrame
    <3>2. CASE payload = << >>
      <4>1. log' = log /\ next_offset' = next_offset
        BY <1>2, <3>1, <3>2
      <4> QED
        BY <1>1, <3>1, <3>2, <4>1, MirrorUnchanged
    <3>3. CASE payload # << >>
      <4>1. PICK event : event = Output(next_offset, payload)
        OBVIOUS
      <4>2. /\ event \in Events /\ event.kind = "output" /\ event.at = next_offset
            /\ event.payload = payload
        BY <1>2, <4>1 DEF Output, Events
      <4>3. \A s \in Subs : subs'[s] = Offer(subs[s], event)
        BY <3>1, <3>3, <4>1 DEF FanOut
      <4>4. /\ log' \in Seq(Byte) /\ Len(log') = Len(log) + Len(payload)
            /\ \A i \in 1 .. Len(log) : log'[i] = log[i]
            /\ \A i \in 1 .. Len(payload) : log'[Len(log) + i] = payload[i]
        <5>1. log \o payload \in Seq(Byte)
          BY <1>2
        <5> QED
          BY <1>2, <3>1, <5>1, JoinedStream
      <4>5. Len(payload) \in Nat /\ DOMAIN payload = 1 .. Len(payload)
        OBVIOUS
      <4>6. /\ next_offset' \in Nat /\ next_offset' <= Len(log')
            /\ event.at + Len(event.payload) <= Len(log') /\ Len(log) <= Len(log')
        BY <1>2, <2>1, <3>1, <4>2, <4>4, <4>5
      <4>7. \A k \in DOMAIN event.payload : event.payload[k] = log'[event.at + k]
        BY <2>1, <4>2, <4>4, <4>5
      <4>8. Extended(log, log')
        BY <4>4, <4>6 DEF Extended
      <4>9. PICK longer \in Seq(Byte), later \in Nat : longer = log' /\ later = next_offset'
        BY <4>4, <4>6
      <4>10. \A s \in Subs : Shown(Offer(subs[s], event), longer, later)
        BY <1>1, <1>2, <3>1, <4>2, <4>6, <4>7, <4>8, <4>9, OfferShown
      <4> QED
        BY <1>1, <2>1, <4>3, <4>9, <4>10 DEF MirrorInv
    <3> QED
      BY <3>2, <3>3
  <2> QED
    BY <2>3, <2>4
<1> QED
  BY <1>3, <1>4

(* commit_durable: the notice reaches nobody ahead of the bytes. *)
LEMMA CommitDurableShown ==
  ASSUME DurabilityInv, MirrorInv, CommitDurable
  PROVE  MirrorInv'
<1> DEFINE after(s) == IF checkpoint.target > durable_offset
                       THEN Offer(subs[s], Durable(checkpoint.target)) ELSE subs[s]
<1>1. /\ checkpoint.phase = "committed" /\ UNCHANGED <<resident, log, next_offset>> /\ resident
      /\ \A s \in Subs : subs'[s] = IF checkpoint.close
                                    THEN Offer(after(s), Closed(next_offset)) ELSE after(s)
  BY Offsets DEF CommitDurable, procVars
<1>2. /\ log \in Seq(Byte) /\ Len(log) = next_offset /\ next_offset \in Nat
      /\ checkpoint.target \in Nat /\ checkpoint.target <= next_offset
  BY <1>1, Offsets DEF DurabilityInv, HandleInv, CheckpointInv
<1>3. Extended(log, log) /\ next_offset <= Len(log)
  BY <1>2 DEF Extended
<1>4. PICK told, end : told = Durable(checkpoint.target) /\ end = Closed(next_offset)
  OBVIOUS
<1>5. /\ told \in Events /\ told.kind = "durable" /\ told.at = checkpoint.target
      /\ told.payload = << >>
      /\ end \in Events /\ end.kind = "closed" /\ end.at = next_offset /\ end.payload = << >>
  BY <1>2, <1>4 DEF Durable, Closed, Events
<1>6. /\ told.at + Len(told.payload) <= Len(log) /\ told.at <= next_offset
      /\ end.at + Len(end.payload) <= Len(log)
  BY <1>2, <1>5
<1>7. \A s \in Subs : IsSub(subs[s]) /\ Shown(subs[s], log, next_offset)
  BY DurabilityInvParts DEF SubsOK, MirrorInv
<1>8. \A s \in Subs : /\ IsSub(Offer(subs[s], told))
                      /\ Shown(Offer(subs[s], told), log, next_offset)
  <2> SUFFICES ASSUME NEW s \in Subs
               PROVE  /\ IsSub(Offer(subs[s], told))
                      /\ Shown(Offer(subs[s], told), log, next_offset)
    OBVIOUS
  <2>1. Shown(Offer(subs[s], told), log, next_offset)
    BY <1>2, <1>3, <1>5, <1>6, <1>7, OfferShown
  <2> QED
    BY <1>5, <1>7, <2>1, OfferOutcome
<1>9. \A s \in Subs : IsSub(after(s)) /\ Shown(after(s), log, next_offset)
  BY <1>4, <1>7, <1>8
<1> HIDE DEF after
<1>10. ASSUME NEW s \in Subs PROVE Shown(subs'[s], log, next_offset)
  <2>1. Shown(Offer(after(s), end), log, next_offset)
    BY <1>2, <1>3, <1>5, <1>6, <1>9, OfferShown
  <2> QED
    BY <1>1, <1>4, <1>9, <2>1
<1> QED
  BY <1>1, <1>10 DEF MirrorInv

LEMMA NextMirror ==
  ASSUME DurabilityInv, ContentInv, MirrorInv, [Next]_vars
  PROVE  MirrorInv'
<1>1. CASE \/ Resize \/ \E p \in Sessions : AppendFrame(p)
  BY <1>1, BroadcastShown
<1>2. CASE CommitDurable
  BY <1>2, CommitDurableShown
<1>3. ASSUME NEW s \in Subs,
             \/ \E requested \in {ring.earliest, subs[s].pos} : Subscribe(s, requested)
             \/ SendReplay(s) \/ Deliver(s) \/ EndOfStream(s) \/ Disconnect(s)
      PROVE  MirrorInv'
  BY <1>3, ConnectionShown
<1>4. CASE TerminateSubscribers
  <2>1. UNCHANGED <<log, next_offset, resident>>
    BY <1>4 DEF TerminateSubscribers, procVars, memVars
  <2>2. ASSUME NEW s \in Subs PROVE Shown(subs'[s], log, next_offset) /\ (Live(s)' => resident)
    <3>1. PICK res : res = [subs[s] EXCEPT !.phase = "terminated"]
      OBVIOUS
    <3>2. IsSub(subs[s]) /\ Shown(subs[s], log, next_offset) /\ (Live(s) => resident)
      BY DurabilityInvParts DEF SubsOK, MirrorInv
    <3>3. /\ res.phase = "terminated" /\ res.pos = subs[s].pos /\ res.replay = subs[s].replay
          /\ res.window = subs[s].window /\ res.queue = subs[s].queue
      BY <3>1, <3>2 DEF IsSub
    <3>4. Shown(res, log, next_offset)
      BY <3>2, <3>3, CutShown
    <3>5. subs'[s] = IF Live(s) THEN res ELSE subs[s]
      BY <1>4, <3>1 DEF TerminateSubscribers
    <3> QED
      BY <3>2, <3>3, <3>4, <3>5 DEF Live
  <2> QED
    BY <2>1, <2>2 DEF MirrorInv
<1>5. CASE Crash
  <2>1. ASSUME NEW s \in Subs PROVE Shown(subs'[s], log', next_offset') /\ ~Live(s)'
    <3>1. subs'[s] = Unsubscribed(subs[s].pos)
      BY <1>5 DEF Crash
    <3>2. subs'[s].phase # "live"
      BY <3>1 DEF Unsubscribed
    <3> QED
      BY <3>1, <3>2, UnsubscribedShown DEF Live
  <2> QED
    BY <2>1 DEF MirrorInv
<1>6. CASE /\ UNCHANGED <<subs, log>>
           /\ \/ UNCHANGED <<next_offset, resident>>
              \/ ~resident \/ \A s \in Subs : ~Live(s)
  <2>1. \A s \in Subs : Live(s) => next_offset' = next_offset /\ resident'
    BY <1>6 DEF MirrorInv
  <2> QED
    BY <1>6, <2>1, MirrorUnchanged
<1>7. ASSUME NEW l \in Loaders, ReadRow(l) \/ InsertHandle(l) PROVE MirrorInv'
  BY <1>6, <1>7 DEF ReadRow, InsertHandle, memVars
<1>8. CASE EvictRetired
  BY <1>6, <1>8 DEF EvictRetired
<1>9. CASE ShrinkToCapacity \/ TakeCheckpoint \/ CommitTransaction \/ CommitFails
  BY <1>6, <1>9
  DEF ShrinkToCapacity, TakeCheckpoint, CommitTransaction, CommitFails, procVars, memVars
<1>10. CASE Elsewhere \/ UNCHANGED vars
  <2>1. UNCHANGED <<log, next_offset, resident>>
    BY <1>10, ElsewhereLeaves
  <2>2. \/ Resize \/ TerminateSubscribers \/ subs' = subs
        \/ \E s \in Subs :
             \/ \E requested \in {ring.earliest, subs[s].pos} : Subscribe(s, requested)
             \/ SendReplay(s) \/ Deliver(s) \/ EndOfStream(s) \/ Disconnect(s)
    BY <1>10 DEF Elsewhere, ChangeCapacity, OnBinary, WaitEnds, SendAck, BeginClose, Recover, vars
  <2> QED
    BY <1>1, <1>3, <1>4, <1>6, <2>1, <2>2
<1> QED
  BY <1>1, <1>2, <1>5, <1>7, <1>8, <1>9, <1>10, NextSplit

(* What a mirror is sent - the replay, then the queue - is the terminal's  *)
(* own stream from where the mirror stands, byte for byte, without loss,   *)
(* duplication or reordering, and up to next_offset unless it was cut off; *)
(* a durable notice comes after the bytes it covers.                       *)
THEOREM MirrorsAreFaithful == Spec => []MirrorIsFaithful
<1>1. Init => MirrorInv
  <2> SUFFICES ASSUME Init, NEW s \in Subs
               PROVE  Shown(subs[s], log, next_offset) /\ ~Live(s)
    BY DEF MirrorInv
  <2>1. subs[s] = Unsubscribed(0)
    BY DEF Init
  <2>2. subs[s].phase # "live"
    BY <2>1 DEF Unsubscribed
  <2> QED
    BY <2>1, <2>2, UnsubscribedShown DEF Live
<1>2. DurabilityInv /\ ContentInv /\ MirrorInv /\ [Next]_vars => MirrorInv'
  BY NextMirror
<1>3. MirrorInv => MirrorIsFaithful
  BY DEF MirrorInv, Shown, MirrorIsFaithful
<1> QED
  BY <1>1, <1>2, <1>3, DurabilityHolds, ContentHolds, PTL DEF Spec

-----------------------------------------------------------------------------
(* Backpressure *)

(* A frame that looked at the dirty bytes when the stream stood at its     *)
(* offset, and can still be accepted, fits: nothing was appended since.    *)
Looked(frame) == frame.pc = "passed" /\ ~frame.early
RoomFor(frame) ==
  /\ frame.expected <= next_offset
  /\ frame.expected = next_offset => Dirty <= Headroom(frame)

RoomInv == \A p \in Sessions : Looked(session[p]) => RoomFor(session[p])

(* The room a frame needs grows only with its own payload and capacity. *)
LEMMA RoomKept ==
  ASSUME NEW frame \in FrameStates, RoomFor(frame),
         next_offset \in Nat, durable_offset \in Nat,
         next_offset' \in Nat, durable_offset' \in Nat,
         next_offset <= next_offset', durable_offset <= durable_offset'
  PROVE  /\ frame.expected <= next_offset'
         /\ frame.expected = next_offset' => Dirty' <= Headroom(frame)
<1>1. frame.expected \in Nat /\ frame.capacity \in Nat /\ Len(frame.payload) \in Nat
  BY DEF FrameStates
<1>2. Headroom(frame) \in Nat
  BY <1>1, LimitsAssumption DEF Headroom, SaturatingSub, MinOf
<1>3. frame.expected <= next_offset'
  BY <1>1 DEF RoomFor
<1>4. ASSUME frame.expected = next_offset' PROVE Dirty' <= Headroom(frame)
  <2>1. next_offset' = next_offset /\ Dirty <= Headroom(frame)
    BY <1>1, <1>4 DEF RoomFor
  <2> HIDE DEF Headroom
  <2> QED
    BY <1>2, <2>1 DEF Dirty, SaturatingSub
<1> QED
  BY <1>3, <1>4

(* Ring::append drops no more than what does not fit. *)
LEMMA AppendBytesDrops ==
  ASSUME NEW Value, NEW w, IsRing(w), NEW payload \in Seq(Value), payload # << >>,
         NEW r, r = AppendBytes(w, payload)
  PROVE  /\ r.capacity = w.capacity
         /\ DOMAIN r.bytes = r.earliest .. r.end - 1
         /\ r.end = w.end + Len(payload)
         /\ r.earliest = MaxOf(w.earliest, (w.end + Len(payload)) - w.capacity)
<1> DEFINE newEnd == w.end + Len(payload)
           n      == SaturatingSub(RetainedLen(w) + Len(payload), w.capacity)
           kept   == DropOldest(w, n)
<1>1. /\ w.earliest \in Nat /\ w.end \in Nat /\ w.capacity \in Nat \ {0}
      /\ Len(payload) \in Nat /\ w.earliest <= w.end
      /\ w.end - w.earliest <= w.capacity
      /\ w \in [earliest : Nat, end : Nat, capacity : Nat \ {0}, bytes : {w.bytes}]
  BY DEF IsRing, RetainedLen
<1>2. CASE Len(payload) >= w.capacity
  <2> DEFINE tail == [o \in newEnd - w.capacity .. newEnd - 1
                        |-> payload[o - w.end + 1]]
             res  == [w EXCEPT !.earliest = newEnd - w.capacity,
                                  !.end = newEnd, !.bytes = tail]
  <2>1. r = res
    BY <1>2 DEF AppendBytes
  <2>2. DOMAIN tail = newEnd - w.capacity .. newEnd - 1
    OBVIOUS
  <2>3. w.earliest <= newEnd - w.capacity /\ newEnd \in Nat
    BY <1>1, <1>2
  <2> HIDE DEF tail, newEnd
  <2>4. /\ res.earliest = newEnd - w.capacity /\ res.end = newEnd /\ res.bytes = tail
        /\ res.capacity = w.capacity
    BY <1>1
  <2> HIDE DEF res
  <2>5. MaxOf(w.earliest, newEnd - w.capacity) = newEnd - w.capacity
    BY <1>1, <2>3 DEF MaxOf
  <2>6. /\ res.capacity = w.capacity /\ DOMAIN res.bytes = res.earliest .. res.end - 1
        /\ res.end = newEnd /\ res.earliest = MaxOf(w.earliest, newEnd - w.capacity)
    BY <2>2, <2>4, <2>5, Zenon
  <2> QED
    BY <2>1, <2>6, Zenon DEF newEnd
<1>3. CASE ~(Len(payload) >= w.capacity)
  <2> DEFINE joined == [o \in kept.earliest .. newEnd - 1
                          |-> IF o < w.end THEN w.bytes[o]
                                              ELSE payload[o - w.end + 1]]
             res == [kept EXCEPT !.end = newEnd, !.bytes = joined]
  <2>1. n \in Nat /\ w.earliest + n = MaxOf(w.earliest, newEnd - w.capacity)
    BY <1>1 DEF SaturatingSub, RetainedLen, MaxOf
  <2>2. r = res
    BY <1>3 DEF AppendBytes
  <2>3. DOMAIN joined = kept.earliest .. newEnd - 1
    OBVIOUS
  <2> HIDE DEF joined, newEnd, n
  <2>4. /\ kept.earliest = w.earliest + n
        /\ res.earliest = kept.earliest /\ res.end = newEnd /\ res.bytes = joined
        /\ res.capacity = w.capacity
    <3> DEFINE bytes == [o \in w.earliest + n .. w.end - 1 |-> w.bytes[o]]
    <3>1. kept = [w EXCEPT !.earliest = w.earliest + n, !.bytes = bytes]
      BY DEF DropOldest
    <3> HIDE DEF bytes, kept
    <3> QED
      BY <1>1, <3>1
  <2> HIDE DEF kept, res
  <2>5. /\ res.capacity = w.capacity /\ DOMAIN res.bytes = res.earliest .. res.end - 1
        /\ res.end = newEnd /\ res.earliest = MaxOf(w.earliest, newEnd - w.capacity)
    BY <2>1, <2>3, <2>4, Zenon
  <2> QED
    BY <2>2, <2>5, Zenon DEF newEnd
<1> QED
  BY <1>2, <1>3

(* Ring::set_capacity drops no more than what does not fit. *)
LEMMA SetCapacityDrops ==
  ASSUME NEW w, IsRing(w), NEW capacity \in Nat \ {0}, NEW r, r = SetCapacity(w, capacity)
  PROVE  /\ IsRing(r) /\ r.capacity = capacity /\ r.end = w.end
         /\ r.earliest = MaxOf(w.earliest, w.end - capacity)
<1> DEFINE n     == SaturatingSub(RetainedLen(w), capacity)
           wide  == [w EXCEPT !.capacity = capacity]
           bytes == [o \in wide.earliest + n .. wide.end - 1 |-> wide.bytes[o]]
<1>1. /\ w.earliest \in Nat /\ w.end \in Nat /\ w.capacity \in Nat \ {0}
      /\ w.earliest <= w.end /\ w.end - w.earliest <= w.capacity
      /\ w \in [earliest : Nat, end : Nat, capacity : Nat \ {0}, bytes : {w.bytes}]
  BY DEF IsRing, RetainedLen
<1>2. IsRing(r) /\ r.end = w.end
  BY SetCapacityWindow
<1>3. MaxOf(capacity, 1) = capacity
  BY DEF MaxOf
<1>4. CASE capacity = w.capacity
  <2>1. r = w
    BY <1>3, <1>4 DEF SetCapacity
  <2>2. MaxOf(w.earliest, w.end - capacity) = w.earliest
    BY <1>1, <1>4 DEF MaxOf
  <2> QED
    BY <1>2, <1>4, <2>1, <2>2
<1>5. CASE capacity # w.capacity
  <2>1. r = [wide EXCEPT !.earliest = wide.earliest + n, !.bytes = bytes]
    BY <1>3, <1>5 DEF SetCapacity, DropOldest
  <2>2. w.earliest + n = MaxOf(w.earliest, w.end - capacity)
    BY <1>1 DEF SaturatingSub, RetainedLen, MaxOf
  <2> HIDE DEF n, bytes
  <2>3. /\ wide \in [earliest : Nat, end : Nat, capacity : Nat \ {0}, bytes : {wide.bytes}]
        /\ wide.earliest = w.earliest /\ wide.capacity = capacity
    BY <1>1
  <2> HIDE DEF wide
  <2>4. r.earliest = wide.earliest + n /\ r.capacity = wide.capacity
    BY <2>1, <2>3
  <2> QED
    BY <1>2, <2>2, <2>3, <2>4, Zenon
<1> QED
  BY <1>4, <1>5

LEMMA RoomStep ==
  ASSUME TypeOK, TypeOK', RoomInv,
         next_offset <= next_offset', durable_offset <= durable_offset',
         \A p \in Sessions : Looked(session'[p]) =>
            session'[p] = session[p] \/ RoomFor(session[p])'
  PROVE  RoomInv'
<1> SUFFICES ASSUME NEW p \in Sessions, Looked(session'[p]), session'[p] = session[p]
             PROVE  RoomFor(session[p])'
  BY DEF RoomInv, Looked
<1>1. session[p] \in FrameStates /\ RoomFor(session[p])
  BY DEF TypeOK, RoomInv
<1>2. next_offset \in Nat /\ durable_offset \in Nat /\ next_offset' \in Nat /\ durable_offset' \in Nat
  BY DEF TypeOK
<1>3. /\ session[p].expected <= next_offset'
      /\ session[p].expected = next_offset' => Dirty' <= Headroom(session[p])
  BY <1>1, <1>2, RoomKept, Zenon
<1> QED
  BY <1>3 DEF RoomFor, Headroom

(* A frame that arrives looks at the dirty bytes, or waits. *)
LEMMA OnBinaryRoom ==
  ASSUME TypeOK, NEW p \in Sessions, NEW payload, NEW expected, OnBinary(p, expected, payload)
  PROVE  \A q \in Sessions : Looked(session'[q]) =>
            session'[q] = session[q] \/ RoomFor(session[q])'
<1> DEFINE frame == [pc |-> "passed", expected |-> expected, payload |-> payload,
                     capacity |-> replay_capacity, early |-> expected # next_offset]
           held  == [frame EXCEPT !.pc = "waiting"]
<1>1. /\ session' = [session EXCEPT ![p] = IF Dirty <= Headroom(frame) THEN frame ELSE held]
      /\ UNCHANGED <<next_offset, durable_offset>>
  BY DEF OnBinary, memVars
<1>2. /\ frame.expected = expected
      /\ ~frame.early => expected = next_offset
      /\ held.pc = "waiting"
  OBVIOUS
<1> HIDE DEF frame, held
<1>3. session \in [Sessions -> FrameStates] /\ next_offset \in Nat
  BY DEF TypeOK
<1>4. Dirty' = Dirty
  BY <1>1 DEF Dirty
<1>5. CASE Dirty <= Headroom(frame)
  <2>1. session'[p] = frame
    BY <1>1, <1>3, <1>5
  <2>2. ~frame.early => RoomFor(session[p])'
    BY <1>1, <1>2, <1>3, <1>4, <1>5, <2>1 DEF RoomFor, Headroom
  <2> QED
    BY <1>1, <1>3, <2>1, <2>2 DEF Looked
<1>6. CASE ~(Dirty <= Headroom(frame))
  <2>1. session'[p] = held
    BY <1>1, <1>3, <1>6
  <2> QED
    BY <1>1, <1>2, <1>3, <2>1 DEF Looked
<1> QED
  BY <1>5, <1>6

(* A frame that waited looks at them again. *)
LEMMA WaitEndsRoom ==
  ASSUME TypeOK, NEW p \in Sessions, WaitEnds(p)
  PROVE  \A q \in Sessions : Looked(session'[q]) =>
            session'[q] = session[q] \/ RoomFor(session[q])'
<1> DEFINE looked == [session[p] EXCEPT !.pc = "passed"]
           passed == [looked EXCEPT !.early = session[p].expected # next_offset]
<1>1. /\ session' = [session EXCEPT ![p] = IF Dirty <= Headroom(session[p]) THEN passed
                                                                            ELSE IdleFrame]
      /\ UNCHANGED <<next_offset, durable_offset>>
  BY DEF WaitEnds, memVars
<1>2. session \in [Sessions -> FrameStates] /\ next_offset \in Nat
  BY DEF TypeOK
<1>3. /\ passed.capacity = session[p].capacity /\ passed.expected = session[p].expected
      /\ passed.payload = session[p].payload
      /\ ~passed.early => session[p].expected = next_offset
  BY <1>2 DEF FrameStates
<1> HIDE DEF passed
<1>4. Dirty' = Dirty /\ Headroom(passed) = Headroom(session[p])
  BY <1>1, <1>3 DEF Dirty, Headroom
<1>5. CASE Dirty <= Headroom(session[p])
  <2>1. session'[p] = passed
    BY <1>1, <1>2, <1>5
  <2>2. ~passed.early => RoomFor(session[p])'
    BY <1>1, <1>2, <1>3, <1>4, <1>5, <2>1 DEF RoomFor, Headroom
  <2> QED
    BY <1>1, <1>2, <2>1, <2>2 DEF Looked
<1>6. CASE ~(Dirty <= Headroom(session[p]))
  <2>1. session'[p].pc = "idle"
    BY <1>1, <1>2, <1>6 DEF IdleFrame
  <2> QED
    BY <1>1, <1>2, <2>1 DEF Looked
<1> QED
  BY <1>5, <1>6

LEMMA NextRoom ==
  ASSUME DurabilityInv, DurabilityInv', RoomInv, [Next]_vars
  PROVE  RoomInv'
<1>1. /\ TypeOK /\ TypeOK' /\ next_offset \in Nat /\ durable_offset \in Nat
      /\ session \in [Sessions -> FrameStates]
  BY DEF DurabilityInv, TypeOK
<1>2. ASSUME UNCHANGED <<next_offset, durable_offset>>,
             \A p \in Sessions : Looked(session'[p]) =>
                session'[p] = session[p] \/ RoomFor(session[p])'
      PROVE  RoomInv'
  BY <1>1, <1>2, RoomStep
<1>3. ASSUME \A p \in Sessions : session'[p].pc = "idle" PROVE RoomInv'
  BY <1>3 DEF RoomInv, Looked
<1>4. CASE Elsewhere \/ UNCHANGED vars
  <2>1. UNCHANGED <<next_offset, durable_offset>>
    BY <1>4, ElsewhereLeaves
  <2>2. CASE session' = session
    BY <1>2, <2>1, <2>2
  <2>3. ASSUME NEW p \in Sessions, NEW expected, NEW payload, OnBinary(p, expected, payload)
        PROVE  RoomInv'
    BY <1>1, <1>2, <2>1, <2>3, OnBinaryRoom
  <2>4. ASSUME NEW p \in Sessions, WaitEnds(p) PROVE RoomInv'
    BY <1>1, <1>2, <2>1, <2>4, WaitEndsRoom
  <2> QED
    BY <1>4, <2>2, <2>3, <2>4
       DEF Elsewhere, ChangeCapacity, SendAck, Resize, BeginClose, TerminateSubscribers, Recover,
           Subscribe, SendReplay, Deliver, EndOfStream, Disconnect, vars
<1>5. ASSUME NEW l \in Loaders, ReadRow(l) \/ InsertHandle(l) PROVE RoomInv'
  <2>1. session' = session
    BY <1>5 DEF ReadRow, InsertHandle
  <2>2. CASE UNCHANGED <<next_offset, durable_offset>>
    BY <1>2, <2>1, <2>2
  <2>3. CASE ~resident
    <3>1. \A p \in Sessions : session'[p].pc = "idle"
      BY <2>1, <2>3 DEF DurabilityInv, HandleInv
    <3> QED
      BY <1>3, <3>1
  <2> QED
    BY <1>5, <2>2, <2>3 DEF ReadRow, InsertHandle, memVars
<1>6. CASE EvictRetired \/ Crash
  BY <1>3, <1>6 DEF EvictRetired, Crash, IdleFrame
<1>7. CASE ShrinkToCapacity
  BY <1>2, <1>7 DEF ShrinkToCapacity
<1>8. ASSUME NEW p \in Sessions, AppendFrame(p) PROVE RoomInv'
  <2>1. /\ session' = [session EXCEPT ![p] = IdleFrame]
        /\ UNCHANGED durable_offset
        /\ next_offset' = next_offset \/ next_offset' = next_offset + Len(session[p].payload)
    BY <1>8 DEF AppendFrame
  <2>2. \A q \in Sessions : session'[q].pc # "idle" => session'[q] = session[q]
    BY <1>1, <2>1 DEF IdleFrame
  <2>3. next_offset <= next_offset' /\ durable_offset <= durable_offset'
    <3>1. Len(session[p].payload) \in Nat
      BY <1>1 DEF FrameStates
    <3> QED
      BY <1>1, <2>1, <3>1
  <2> QED
    BY <1>1, <2>2, <2>3, RoomStep DEF Looked
<1>9. CASE TakeCheckpoint \/ CommitTransaction \/ CommitFails
  BY <1>2, <1>9 DEF TakeCheckpoint, CommitTransaction, CommitFails, memVars
<1>10. CASE CommitDurable
  <2>1. /\ UNCHANGED <<next_offset, session>>
        /\ durable_offset' = durable_offset \/ durable_offset' = MaxOf(durable_offset, checkpoint.target)
    BY <1>10 DEF CommitDurable
  <2>2. durable_offset <= durable_offset' /\ next_offset <= next_offset'
    <3>1. checkpoint.target \in Nat
      BY DEF DurabilityInv, TypeOK, IsCheckpoint
    <3> QED
      BY <1>1, <2>1, <3>1 DEF MaxOf
  <2> QED
    BY <1>1, <2>1, <2>2, RoomStep
<1> QED
  BY <1>4, <1>5, <1>6, <1>7, <1>8, <1>9, <1>10, NextSplit

(* An accepted frame drops what does not fit beside it in its capacity. *)
LEMMA AppendFrameDrops ==
  ASSUME DurabilityInv, NEW p \in Sessions, AppendFrame(p), ring' # ring
  PROVE  /\ session[p].pc = "passed" /\ session[p].expected = next_offset
         /\ ring'.earliest = MaxOf(ring.earliest,
              (next_offset + Len(session[p].payload)) - session[p].capacity)
         /\ ring'.end = next_offset + Len(session[p].payload)
         /\ DOMAIN ring'.bytes = ring'.earliest .. ring'.end - 1
<1>1. PICK payload, capacity, w : /\ payload = session[p].payload
                                  /\ capacity = session[p].capacity
                                  /\ w = SetCapacity(ring, capacity)
  OBVIOUS
<1>2. /\ session[p].pc = "passed" /\ session[p].expected = next_offset
      /\ ring' = AppendBytes(w, payload)
  BY <1>1 DEF AppendFrame, Accepts
<1>3. /\ payload \in Seq(Byte) /\ capacity \in Nat \ {0} /\ Len(payload) \in Nat
      /\ IsRing(ring) /\ ring.end = next_offset
  BY <1>1 DEF DurabilityInv, TypeOK, HandleInv, FrameStates
<1>4. /\ IsRing(w) /\ w.capacity = capacity /\ w.end = ring.end
      /\ w.earliest = MaxOf(ring.earliest, ring.end - capacity)
  BY <1>1, <1>3, SetCapacityDrops
<1>5. ring.earliest \in Nat /\ ring.end \in Nat
  BY <1>3 DEF IsRing
<1>6. CASE payload = << >>
  <2>1. ring' = w /\ Len(payload) = 0
    BY <1>2, <1>6 DEF AppendBytes
  <2>2. DOMAIN w.bytes = w.earliest .. w.end - 1
    BY <1>4 DEF IsRing
  <2> QED
    BY <1>1, <1>2, <1>3, <1>4, <1>5, <2>1, <2>2
<1>7. CASE payload # << >>
  <2>1. /\ DOMAIN ring'.bytes = ring'.earliest .. ring'.end - 1
        /\ ring'.end = w.end + Len(payload)
        /\ ring'.earliest = MaxOf(w.earliest, (w.end + Len(payload)) - w.capacity)
    BY <1>2, <1>3, <1>4, <1>7, AppendBytesDrops
  <2>2. MaxOf(w.earliest, (w.end + Len(payload)) - w.capacity)
          = MaxOf(ring.earliest, (ring.end + Len(payload)) - capacity)
    BY <1>3, <1>4, <1>5 DEF MaxOf
  <2> QED
    BY <1>1, <1>2, <1>3, <1>4, <2>1, <2>2
<1> QED
  BY <1>6, <1>7

(* What Headroom leaves beside the payload is durable. *)
LEMMA HeadroomCovers ==
  ASSUME TypeOK, NEW frame \in FrameStates, Dirty <= Headroom(frame), NEW o \in Int,
         o < next_offset, o < (next_offset + Len(frame.payload)) - frame.capacity
  PROVE  o < durable_offset
<1>1. PICK n, c : n = Len(frame.payload) /\ c = frame.capacity
  OBVIOUS
<1>2. n \in Nat /\ c \in Nat /\ next_offset \in Nat /\ durable_offset \in Nat
  BY <1>1 DEF TypeOK, FrameStates
<1>3. Headroom(frame) \in Int /\ Headroom(frame) <= SaturatingSub(c, n)
  BY <1>1, <1>2, LimitsAssumption DEF Headroom, SaturatingSub, MinOf
<1>4. Dirty <= SaturatingSub(c, n)
  <2>1. Dirty \in Int /\ SaturatingSub(c, n) \in Int
    BY <1>2 DEF Dirty, SaturatingSub
  <2> HIDE DEF Headroom, Dirty, SaturatingSub
  <2> QED
    BY <1>3, <2>1
<1> QED
  BY <1>1, <1>2, <1>4 DEF Dirty, SaturatingSub

(* Backpressure keeps a byte in the ring until it is durable, whatever the *)
(* number of sessions, the frames' offsets and lengths, the negotiated     *)
(* limit and the capacity a frame brings along.  The two ways around it    *)
(* are a frame overtaken by another session between its look and its turn, *)
(* and the settings task shrinking a ring that holds dirty bytes.          *)
THEOREM DirtyBytesAreKept == Spec => DirtyBytesStay
<1>1. Init => RoomInv
  BY DEF Init, RoomInv, Looked, IdleFrame
<1>2. DurabilityInv /\ DurabilityInv' /\ RoomInv /\ [Next]_vars => RoomInv'
  BY NextRoom
<1>3. ASSUME DurabilityInv, RoomInv, [Next]_vars, resident, resident', ring' # ring
      PROVE  \/ ShrinkToCapacity
             \/ \E p \in Sessions : AppendFrame(p)
  <2>1. ~(Elsewhere \/ UNCHANGED vars)
    BY <1>3, ElsewhereLeaves
  <2>2. /\ \A l \in Loaders : ~ReadRow(l) /\ ~InsertHandle(l)
        /\ ~TakeCheckpoint /\ ~CommitTransaction /\ ~CommitDurable /\ ~CommitFails
        /\ ~EvictRetired /\ ~Crash
    BY <1>3 DEF ReadRow, InsertHandle, TakeCheckpoint, CommitTransaction, CommitDurable,
                CommitFails, EvictRetired, Crash, memVars
  <2> QED
    BY <1>3, <2>1, <2>2, NextSplit
<1>4. ASSUME DurabilityInv, ShrinkToCapacity
      PROVE  ring'.capacity < ring.capacity /\ next_offset' = next_offset
  <2>1. /\ replay_capacity < ring.capacity /\ ring' = SetCapacity(ring, replay_capacity)
        /\ next_offset' = next_offset
    BY <1>4 DEF ShrinkToCapacity
  <2>2. IsRing(ring) /\ replay_capacity \in Nat \ {0}
    BY <1>4, CapacitiesAssumption DEF DurabilityInv, TypeOK
  <2>3. ring'.capacity = replay_capacity
    BY <2>1, <2>2, SetCapacityDrops
  <2> QED
    BY <2>1, <2>3
<1>5. ASSUME DurabilityInv, RoomInv, NEW p \in Sessions, AppendFrame(p), ring' # ring,
             ~session[p].early, NEW o \in DOMAIN ring.bytes, o \notin DOMAIN ring'.bytes
      PROVE  o < durable_offset'
  <2>1. PICK frame : frame = session[p]
    OBVIOUS
  <2>2. /\ frame.pc = "passed" /\ frame.expected = next_offset
        /\ ring'.earliest = MaxOf(ring.earliest, (next_offset + Len(frame.payload)) - frame.capacity)
        /\ ring'.end = next_offset + Len(frame.payload)
        /\ DOMAIN ring'.bytes = ring'.earliest .. ring'.end - 1
    BY <1>5, <2>1, AppendFrameDrops
  <2>3. /\ frame \in FrameStates /\ TypeOK /\ Len(frame.payload) \in Nat
        /\ frame.capacity \in Nat /\ next_offset \in Nat
        /\ durable_offset' = durable_offset
        /\ IsRing(ring) /\ ring.end = next_offset
    BY <1>5, <2>1 DEF DurabilityInv, TypeOK, HandleInv, FrameStates, AppendFrame
  <2>4. Dirty <= Headroom(frame)
    BY <1>5, <2>1, <2>2 DEF RoomInv, Looked, RoomFor
  <2>5. ring.earliest \in Nat /\ o \in ring.earliest .. next_offset - 1
    BY <1>5, <2>3 DEF IsRing
  <2>6. o < (next_offset + Len(frame.payload)) - frame.capacity
    <3>1. o \notin ring'.earliest .. ring'.end - 1
      BY <1>5, <2>2, Zenon
    <3> QED
      BY <2>2, <2>3, <2>5, <3>1 DEF MaxOf
  <2> QED
    BY <2>3, <2>4, <2>5, <2>6, HeadroomCovers
<1>6. ASSUME DurabilityInv, NEW p \in Sessions, AppendFrame(p), ring' # ring, session[p].early
      PROVE  Overtaken
  <2>1. session[p].pc = "passed" /\ session[p].expected = next_offset
    BY <1>6, AppendFrameDrops
  <2>2. session'[p].pc = "idle"
    BY <1>6 DEF AppendFrame, DurabilityInv, TypeOK, IdleFrame
  <2> QED
    BY <1>6, <2>1, <2>2 DEF Overtaken
<1>7. ASSUME DurabilityInv, RoomInv, [Next]_vars
      PROVE  [resident /\ resident' =>
                \/ \A o \in DOMAIN ring.bytes \ DOMAIN ring'.bytes : o < durable_offset'
                \/ ring'.capacity < ring.capacity /\ next_offset' = next_offset
                \/ Overtaken]_vars
  BY <1>3, <1>4, <1>5, <1>6, <1>7
<1> QED
  BY <1>1, <1>2, <1>7, DurabilityHolds, PTL DEF Spec, DirtyBytesStay
=============================================================================
