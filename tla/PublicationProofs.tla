------------------------- MODULE PublicationProofs -------------------------
(***************************************************************************)
(* What reaches the relay of a shell's output, and what the publisher may  *)
(* forget of it, for any number of bytes, any window, chunk and frame      *)
(* size, any number of outages and crashes, and whatever an earlier        *)
(* process left in the terminal.                                           *)
(*                                                                         *)
(* The argument: the driver's stream has one origin, the offset of the     *)
(* shell's first byte, which it learns with the first terminal.opened and  *)
(* keeps.  Everything it retains or sends is the shell's output counted    *)
(* from that origin.  The relay's terminal has an origin too; either they  *)
(* agree, or the terminal is a later one in which nothing the driver sends *)
(* can be accepted.                                                        *)
(***************************************************************************)
EXTENDS Publication, SequenceTheorems, TLAPS

-----------------------------------------------------------------------------
(* Queues *)

Elems(q) == {q[i] : i \in 1 .. Len(q)}

LEMMA ElemsEmpty == Elems(<< >>) = {}
  BY DEF Elems

LEMMA ElemsType ==
  ASSUME NEW S, NEW q \in Seq(S)
  PROVE  Elems(q) \subseteq S
  BY DEF Elems

LEMMA ElemsAppend ==
  ASSUME NEW S, NEW q \in Seq(S), NEW x \in S
  PROVE  Append(q, x) \in Seq(S) /\ Elems(Append(q, x)) = Elems(q) \cup {x}
<1>1. /\ Append(q, x) \in Seq(S) /\ Len(Append(q, x)) = Len(q) + 1 /\ Len(q) \in Nat
      /\ \A i \in 1 .. Len(q) : Append(q, x)[i] = q[i]
      /\ Append(q, x)[Len(q) + 1] = x
  OBVIOUS
<1> QED
  BY <1>1 DEF Elems

LEMMA ElemsJoin ==
  ASSUME NEW S, NEW q \in Seq(S), NEW r \in Seq(S)
  PROVE  q \o r \in Seq(S) /\ Elems(q \o r) = Elems(q) \cup Elems(r)
<1>1. /\ q \o r \in Seq(S) /\ Len(q \o r) = Len(q) + Len(r) /\ Len(q) \in Nat /\ Len(r) \in Nat
      /\ \A i \in 1 .. Len(q) : (q \o r)[i] = q[i]
      /\ \A i \in 1 .. Len(r) : (q \o r)[Len(q) + i] = r[i]
      /\ \A i \in Len(q) + 1 .. Len(q) + Len(r) : (q \o r)[i] = r[i - Len(q)]
  OBVIOUS
<1> DEFINE j == q \o r
<1> HIDE DEF j
<1>2. /\ Len(j) = Len(q) + Len(r) /\ \A i \in 1 .. Len(q) : j[i] = q[i]
      /\ \A i \in 1 .. Len(r) : j[Len(q) + i] = r[i]
      /\ \A i \in Len(q) + 1 .. Len(q) + Len(r) : j[i] = r[i - Len(q)]
  BY <1>1 DEF j
<1>3. Elems(j) \subseteq Elems(q) \cup Elems(r)
  <2> SUFFICES ASSUME NEW i \in 1 .. Len(j) PROVE j[i] \in Elems(q) \cup Elems(r)
    BY DEF Elems
  <2>1. CASE i \in 1 .. Len(q)
    BY <1>2, <2>1 DEF Elems
  <2>2. CASE i \in Len(q) + 1 .. Len(q) + Len(r)
    <3>1. i - Len(q) \in 1 .. Len(r) /\ j[i] = r[i - Len(q)]
      BY <1>1, <1>2, <2>2
    <3> QED
      BY <3>1 DEF Elems
  <2> QED
    BY <1>1, <1>2, <2>1, <2>2
<1>4. Elems(q) \subseteq Elems(j)
  <2> SUFFICES ASSUME NEW i \in 1 .. Len(q) PROVE q[i] \in Elems(j)
    BY DEF Elems
  <2>1. i \in 1 .. Len(j) /\ j[i] = q[i]
    BY <1>1, <1>2
  <2> QED
    BY <2>1 DEF Elems
<1>5. Elems(r) \subseteq Elems(j)
  <2> SUFFICES ASSUME NEW i \in 1 .. Len(r) PROVE r[i] \in Elems(j)
    BY DEF Elems
  <2>1. Len(q) + i \in 1 .. Len(j) /\ j[Len(q) + i] = r[i]
    BY <1>1, <1>2
  <2> QED
    BY <2>1 DEF Elems
<1> QED
  BY <1>1, <1>3, <1>4, <1>5 DEF j

LEMMA Joined ==
  ASSUME NEW S, NEW q \in Seq(S), NEW r \in Seq(S)
  PROVE  /\ q \o r \in Seq(S) /\ Len(q \o r) = Len(q) + Len(r)
         /\ \A i \in 1 .. Len(q) : (q \o r)[i] = q[i]
         /\ \A i \in 1 .. Len(r) : (q \o r)[Len(q) + i] = r[i]
  OBVIOUS

LEMMA ElemsTail ==
  ASSUME NEW S, NEW q \in Seq(S), q # << >>
  PROVE  /\ Head(q) \in S /\ Tail(q) \in Seq(S)
         /\ Head(q) \in Elems(q) /\ Elems(Tail(q)) \subseteq Elems(q)
<1>1. /\ Head(q) \in S /\ Tail(q) \in Seq(S) /\ Head(q) = q[1] /\ Len(q) \in Nat /\ Len(q) >= 1
      /\ Len(Tail(q)) = Len(q) - 1 /\ \A i \in 1 .. Len(q) - 1 : Tail(q)[i] = q[i + 1]
  OBVIOUS
<1> QED
  BY <1>1 DEF Elems

-----------------------------------------------------------------------------
(* The sending stream *)

Streams == [start : Nat, bytes : Seq(Nat), next : Nat, positioned : BOOLEAN, target : Int]

(* What is retained, and next, are the shell's output counted from b. *)
StreamOK(s, b) ==
  /\ s \in Streams /\ b \in Nat /\ b <= s.start
  /\ s.next = EndOf(s)
  /\ \A i \in 1 .. Len(s.bytes) : s.bytes[i] = (s.start + i) - b

LEMMA Shifted ==
  ASSUME NEW n \in Nat, NEW d \in Nat, d <= n, NEW i \in 1 .. n - d
  PROVE  d + i \in 1 .. n /\ i \in Nat
  OBVIOUS

(* Retained::release_through drops no more than was acknowledged. *)
LEMMA AcknowledgedKeeps ==
  ASSUME NEW b, NEW s, StreamOK(s, b), NEW n \in Nat, NEW a, a = Acknowledged(s, n)
  PROVE  /\ StreamOK(a, b) /\ EndOf(a) = EndOf(s) /\ a.positioned = s.positioned
         /\ s.start <= a.start /\ (a.start = s.start \/ a.start <= n)
<1> DEFINE drop == IF n <= s.start THEN 0
                   ELSE IF n - s.start <= Len(s.bytes) THEN n - s.start ELSE Len(s.bytes)
           rest == SubSeq(s.bytes, drop + 1, Len(s.bytes))
<1>1. s \in Streams /\ s.start \in Nat /\ s.bytes \in Seq(Nat) /\ Len(s.bytes) \in Nat /\ b \in Nat
  BY DEF StreamOK, Streams
<1>2. drop \in Nat /\ drop <= Len(s.bytes) /\ (drop = 0 \/ s.start + drop <= n)
  BY <1>1
<1>3. a = [s EXCEPT !.start = s.start + drop, !.bytes = rest]
  BY DEF Acknowledged
<1> HIDE DEF drop
<1>4. /\ rest \in Seq(Nat) /\ Len(rest) = Len(s.bytes) - drop
      /\ \A i \in 1 .. Len(rest) : rest[i] = s.bytes[drop + i]
  BY <1>1, <1>2
<1> HIDE DEF rest
<1>5. /\ a \in Streams /\ a.start = s.start + drop /\ a.bytes = rest /\ a.next = s.next
      /\ a.positioned = s.positioned
  <2>1. s.start + drop \in Nat
    BY <1>1, <1>2
  <2> QED
    BY <1>1, <1>3, <1>4, <2>1 DEF Streams
<1>6. EndOf(a) = EndOf(s)
  BY <1>1, <1>2, <1>4, <1>5 DEF EndOf
<1>7. \A i \in 1 .. Len(a.bytes) : a.bytes[i] = (a.start + i) - b
  <2> SUFFICES ASSUME NEW i \in 1 .. Len(rest) PROVE rest[i] = ((s.start + drop) + i) - b
    BY <1>5
  <2>1. drop + i \in 1 .. Len(s.bytes) /\ i \in Nat
    <3>1. i \in 1 .. Len(s.bytes) - drop
      BY <1>4, Zenon
    <3> QED
      BY <1>1, <1>2, <3>1, Shifted
  <2>2. s.bytes[drop + i] = (s.start + (drop + i)) - b
    BY <2>1, Zenon DEF StreamOK
  <2>3. s.start \in Nat /\ drop \in Nat /\ i \in Nat /\ b \in Nat
    BY <1>1, <1>2, <2>1
  <2>4. ((s.start + drop) + i) - b = (s.start + (drop + i)) - b
    BY <2>3
  <2> QED
    BY <1>4, <2>2, <2>4, Zenon
<1> QED
  BY <1>1, <1>2, <1>5, <1>6, <1>7 DEF StreamOK

(* Outgoing::send continues the shell's output. *)
LEMMA SentKeeps ==
  ASSUME NEW b, NEW s, StreamOK(s, b), NEW chunk \in Seq(Nat),
         \A i \in 1 .. Len(chunk) : chunk[i] = (EndOf(s) + i) - b,
         NEW a, a = Sent(s, chunk)
  PROVE  /\ StreamOK(a, b) /\ EndOf(a) = EndOf(s) + Len(chunk)
         /\ a.start = s.start /\ a.positioned = s.positioned
<1> DEFINE joined == s.bytes \o chunk
<1>1. /\ s \in Streams /\ s.start \in Nat /\ s.bytes \in Seq(Nat) /\ Len(s.bytes) \in Nat
      /\ b \in Nat /\ s.next \in Nat /\ Len(chunk) \in Nat /\ s.next = EndOf(s)
  BY DEF StreamOK, Streams
<1>2. a = [s EXCEPT !.bytes = joined, !.next = s.next + Len(chunk)]
  BY DEF Sent
<1>3. /\ joined \in Seq(Nat) /\ Len(joined) = Len(s.bytes) + Len(chunk)
      /\ \A i \in 1 .. Len(s.bytes) : joined[i] = s.bytes[i]
      /\ \A i \in 1 .. Len(chunk) : joined[Len(s.bytes) + i] = chunk[i]
  BY <1>1, Joined
<1> HIDE DEF joined
<1>4. /\ a \in Streams /\ a.start = s.start /\ a.bytes = joined /\ a.next = s.next + Len(chunk)
      /\ a.positioned = s.positioned
  <2>1. s.next + Len(chunk) \in Nat
    BY <1>1
  <2> QED
    BY <1>1, <1>2, <1>3, <2>1 DEF Streams
<1>5. EndOf(a) = EndOf(s) + Len(chunk)
  <2>1. EndOf(a) = s.start + (Len(s.bytes) + Len(chunk)) /\ EndOf(s) = s.start + Len(s.bytes)
    BY <1>3, <1>4, Zenon DEF EndOf
  <2> QED
    BY <1>1, <2>1
<1>6. \A i \in 1 .. Len(a.bytes) : a.bytes[i] = (a.start + i) - b
  <2> SUFFICES ASSUME NEW i \in 1 .. Len(joined) PROVE joined[i] = (s.start + i) - b
    BY <1>4
  <2>1. CASE i <= Len(s.bytes)
    BY <1>1, <1>3, <2>1 DEF StreamOK
  <2>2. CASE ~(i <= Len(s.bytes))
    <3>0. i \in 1 .. Len(s.bytes) + Len(chunk)
      BY <1>3
    <3>1. PICK k \in 1 .. Len(chunk) : i = Len(s.bytes) + k
      <4>1. i - Len(s.bytes) \in 1 .. Len(chunk) /\ i = Len(s.bytes) + (i - Len(s.bytes))
        BY <1>1, <2>2, <3>0
      <4> QED
        BY <4>1
    <3>2. joined[i] = chunk[k] /\ chunk[k] = (EndOf(s) + k) - b
      BY <1>3, <3>1
    <3>3. (EndOf(s) + k) - b = (s.start + (Len(s.bytes) + k)) - b
      <4>1. k \in Nat /\ s.start \in Nat /\ Len(s.bytes) \in Nat /\ b \in Nat
        BY <1>1
      <4>2. ((s.start + Len(s.bytes)) + k) - b = (s.start + (Len(s.bytes) + k)) - b
        BY <4>1
      <4> QED
        BY <4>2, Zenon DEF EndOf
    <3> QED
      BY <3>1, <3>2, <3>3, Zenon
  <2> QED
    BY <2>1, <2>2
<1> QED
  BY <1>1, <1>4, <1>5, <1>6 DEF StreamOK

(* Retained::from returns the shell's output from the offset on. *)
LEMMA FromGenuine ==
  ASSUME NEW b, NEW s, StreamOK(s, b), NEW o \in Nat, s.start <= o, o <= EndOf(s)
  PROVE  /\ From(s, o) \in Seq(Nat) /\ Len(From(s, o)) = EndOf(s) - o
         /\ \A i \in 1 .. Len(From(s, o)) : From(s, o)[i] = (o + i) - b
<1>1. s.start \in Nat /\ s.bytes \in Seq(Nat) /\ Len(s.bytes) \in Nat /\ b \in Nat
  BY DEF StreamOK, Streams
<1> DEFINE n == o - s.start
<1>2. n \in Nat /\ n <= Len(s.bytes)
  BY <1>1 DEF EndOf
<1>3. From(s, o) = SubSeq(s.bytes, n + 1, Len(s.bytes))
  BY DEF From
<1>4. o = s.start + n /\ EndOf(s) - o = Len(s.bytes) - n
  BY <1>1 DEF EndOf
<1> HIDE DEF n
<1>5. /\ From(s, o) \in Seq(Nat) /\ Len(From(s, o)) = Len(s.bytes) - n
      /\ \A i \in 1 .. Len(s.bytes) - n : From(s, o)[i] = s.bytes[n + i]
  BY <1>1, <1>2, <1>3
<1>6. \A i \in 1 .. Len(s.bytes) - n : s.bytes[n + i] = (o + i) - b
  <2> SUFFICES ASSUME NEW i \in 1 .. Len(s.bytes) - n PROVE s.bytes[n + i] = (o + i) - b
    OBVIOUS
  <2>1. n + i \in 1 .. Len(s.bytes) /\ i \in Nat
    BY <1>1, <1>2, Shifted
  <2>2. s.bytes[n + i] = (s.start + (n + i)) - b
    BY <2>1, Zenon DEF StreamOK
  <2>3. s.start \in Nat /\ n \in Nat /\ i \in Nat /\ b \in Nat
    BY <1>1, <1>2, <2>1
  <2>4. ((s.start + n) + i) - b = (s.start + (n + i)) - b
    BY <2>3
  <2> QED
    BY <1>4, <2>2, <2>4, Zenon
<1> QED
  BY <1>4, <1>5, <1>6

(* A stream that differs from s only in positioned, target and next. *)
Aimed(r, s, b) ==
  /\ StreamOK(r, b) /\ r.start = s.start /\ r.bytes = s.bytes /\ EndOf(r) = EndOf(s)

(* resume_from changes nothing but next, which was the end already. *)
LEMMA ResumedAimed ==
  ASSUME NEW b, NEW s, StreamOK(s, b), NEW o \in Nat, NEW r, r = Resumed(s, o)
  PROVE  /\ Aimed(r.stream, s, b) /\ r.stream.positioned = s.positioned /\ r.at = o
         /\ r.todo \in {"nothing", "retransmit"}
<1>1. s \in Streams /\ s.next = EndOf(s) /\ EndOf(s) \in Nat
  BY DEF StreamOK, Streams
<1>2. r.stream = [s EXCEPT !.next = EndOf(s)] /\ r.at = o /\ r.todo \in {"nothing", "retransmit"}
  BY DEF Resumed, Answer
<1>3. r.stream = s
  BY <1>1, <1>2 DEF Streams
<1> QED
  BY <1>2, <1>3 DEF Aimed

(* attached, before it looks at what is retained. *)
LEMMA PlacedStream ==
  ASSUME NEW s \in Streams, NEW o \in Nat,
         NEW p, p = [s EXCEPT !.positioned = TRUE, !.target = NoTarget, !.start = o]
  PROVE  /\ p \in Streams /\ p.start = o /\ p.bytes = s.bytes /\ p.next = s.next
         /\ p.positioned
<1>1. PICK p1 : p1 = [s EXCEPT !.positioned = TRUE]
  OBVIOUS
<1>2. PICK p2 : p2 = [p1 EXCEPT !.target = NoTarget]
  OBVIOUS
<1>3. p = [p2 EXCEPT !.start = o]
  BY <1>1, <1>2
<1>4. /\ p1 \in Streams /\ p1.start = s.start /\ p1.bytes = s.bytes /\ p1.next = s.next
      /\ p1.positioned = TRUE
  BY <1>1 DEF Streams
<1>5. /\ p2 \in Streams /\ p2.start = s.start /\ p2.bytes = s.bytes /\ p2.next = s.next
      /\ p2.positioned = TRUE
  BY <1>2, <1>4 DEF Streams, NoTarget
<1>6. /\ p \in Streams /\ p.start = o /\ p.bytes = s.bytes /\ p.next = s.next
      /\ p.positioned = TRUE
  BY <1>3, <1>5 DEF Streams
<1> QED
  BY <1>6

(* The first terminal.opened places the stream. *)
LEMMA AttachedFresh ==
  ASSUME NEW b, NEW s, StreamOK(s, b), EndOf(s) = 0, NEW o \in Nat, NEW r, r = Attached(s, o)
  PROVE  /\ StreamOK(r.stream, o) /\ r.stream.start = o /\ EndOf(r.stream) = o
         /\ r.stream.positioned /\ r.todo = "nothing"
<1>1. s \in Streams /\ s.start = 0 /\ s.bytes \in Seq(Nat) /\ Len(s.bytes) = 0 /\ s.next = 0
  BY DEF StreamOK, Streams, EndOf
<1>2. s.bytes = << >>
  BY <1>1, EmptySeq
<1> DEFINE p == [s EXCEPT !.positioned = TRUE, !.target = NoTarget, !.start = o]
<1>3. /\ p \in Streams /\ p.start = o /\ p.bytes = << >> /\ Len(p.bytes) = 0
      /\ p.next = 0 /\ p.positioned
  <2>1. /\ p \in Streams /\ p.start = o /\ p.bytes = s.bytes /\ p.next = s.next /\ p.positioned
    BY <1>1, PlacedStream, Zenon
  <2> QED
    BY <1>1, <1>2, <2>1, Zenon
<1>4. EndOf(p) = o /\ Holds(p, o) /\ ~(o < p.start)
  BY <1>3 DEF EndOf, Holds
<1>5. r = Resumed(p, o)
  <2>1. r = CASE o < p.start -> Answer(p, "unrecoverable", o)
              [] Holds(p, o) -> Resumed(p, o)
              [] OTHER -> Answer([p EXCEPT !.start = o, !.bytes = << >>, !.next = o], "nothing", o)
    BY <1>1, <1>2, Zenon DEF Attached
  <2> HIDE DEF p
  <2> QED
    BY <1>4, <2>1
<1> HIDE DEF p
<1>6. From(p, o) = << >>
  <2>1. From(p, o) = SubSeq(<< >>, (o - o) + 1, 0)
    BY <1>3 DEF From
  <2> QED
    BY <2>1
<1>7. r.stream = [p EXCEPT !.next = o] /\ r.todo = "nothing"
  BY <1>4, <1>5, <1>6 DEF Resumed, Answer
<1>8. /\ r.stream \in Streams /\ r.stream.start = o /\ r.stream.bytes = << >>
      /\ r.stream.next = o /\ r.stream.positioned
  BY <1>3, <1>7 DEF Streams
<1> QED
  BY <1>7, <1>8 DEF StreamOK, EndOf

(* A later terminal.opened leaves the retained bytes where they are. *)
LEMMA AttachedHeld ==
  ASSUME NEW b, NEW s, StreamOK(s, b), EndOf(s) > 0, NEW o \in Nat, o <= EndOf(s),
         NEW r, r = Attached(s, o)
  PROVE  /\ Aimed(r.stream, s, b) /\ r.stream.positioned /\ r.at = o
         /\ \/ r.todo \in {"nothing", "retransmit"} /\ s.start <= o
            \/ r.todo = "unrecoverable" /\ o < s.start
<1>1. s \in Streams /\ s.start \in Nat /\ s.next = EndOf(s) /\ s.next # 0
  BY DEF StreamOK, Streams
<1> DEFINE p == [s EXCEPT !.positioned = TRUE, !.target = NoTarget, !.start = s.start]
<1>2. /\ p \in Streams /\ p.start = s.start /\ p.bytes = s.bytes /\ p.next = s.next
      /\ p.positioned
  BY <1>1, PlacedStream, Zenon
<1>3. EndOf(p) = EndOf(s)
  BY <1>2, Zenon DEF EndOf
<1>4. Aimed(p, s, b)
  BY <1>2, <1>3, Zenon DEF Aimed, StreamOK
<1>5. r = CASE o < p.start -> Answer(p, "unrecoverable", o)
            [] Holds(p, o) -> Resumed(p, o)
            [] OTHER -> Answer([p EXCEPT !.start = o, !.bytes = << >>, !.next = o], "nothing", o)
  BY <1>1, Zenon DEF Attached
<1> HIDE DEF p
<1>6. CASE o < s.start
  <2>1. o < p.start
    BY <1>2, <1>6
  <2>2. ~Holds(p, o)
    BY <1>1, <1>2, <1>6 DEF Holds
  <2>3. r = Answer(p, "unrecoverable", o)
    BY <1>5, <2>1, <2>2
  <2> QED
    BY <1>2, <1>4, <1>6, <2>3 DEF Answer
<1>7. CASE ~(o < s.start)
  <2>1. r = Resumed(p, o)
    BY <1>1, <1>2, <1>3, <1>5, <1>7 DEF Holds
  <2>2. /\ Aimed(r.stream, p, b) /\ r.stream.positioned /\ r.at = o
        /\ r.todo \in {"nothing", "retransmit"}
    BY <1>2, <1>4, <2>1, ResumedAimed DEF Aimed
  <2>3. s.start <= o
    BY <1>1, <1>7
  <2> QED
    BY <1>4, <2>2, <2>3, Zenon DEF Aimed
<1> QED
  BY <1>6, <1>7

(* Neither does an offset mismatch. *)
LEMMA MismatchedHeld ==
  ASSUME NEW b, NEW s, StreamOK(s, b), NEW o \in Nat, o <= EndOf(s),
         NEW r, r = Mismatched(s, o)
  PROVE  /\ Aimed(r.stream, s, b) /\ r.stream.positioned = s.positioned /\ r.at = o
         /\ \/ r.todo = "nothing"
            \/ r.todo = "retransmit" /\ s.start <= o
            \/ r.todo = "unrecoverable" /\ o < s.start
<1>1. s \in Streams /\ s.start \in Nat /\ Aimed(s, s, b)
  BY DEF StreamOK, Streams, Aimed
<1> DEFINE p == [s EXCEPT !.target = o]
<1>2. /\ p \in Streams /\ p.start = s.start /\ p.bytes = s.bytes /\ p.next = s.next
      /\ p.positioned = s.positioned
  BY <1>1 DEF Streams
<1>3. EndOf(p) = EndOf(s)
  BY <1>2, Zenon DEF EndOf
<1>4. Aimed(p, s, b)
  BY <1>2, <1>3, Zenon DEF Aimed, StreamOK
<1>5. r = CASE s.target = o -> Answer(s, "nothing", o)
            [] s.target # o /\ Holds(s, o) -> Resumed(p, o)
            [] OTHER -> Answer(p, "unrecoverable", o)
  BY Zenon DEF Mismatched
<1> HIDE DEF p
<1>6. CASE s.target = o
  <2>1. r = Answer(s, "nothing", o)
    BY <1>5, <1>6
  <2> QED
    BY <1>1, <2>1 DEF Answer
<1>7. CASE s.target # o /\ s.start <= o
  <2>1. r = Resumed(p, o)
    BY <1>5, <1>7 DEF Holds
  <2>2. /\ Aimed(r.stream, p, b) /\ r.stream.positioned = p.positioned /\ r.at = o
        /\ r.todo \in {"nothing", "retransmit"}
    BY <1>4, <2>1, ResumedAimed DEF Aimed
  <2> QED
    BY <1>2, <1>4, <1>7, <2>2, Zenon DEF Aimed
<1>8. CASE s.target # o /\ ~(s.start <= o)
  <2>1. r = Answer(p, "unrecoverable", o) /\ o < s.start
    BY <1>1, <1>5, <1>8 DEF Holds
  <2> QED
    BY <1>2, <1>4, <2>1 DEF Answer
<1> QED
  BY <1>6, <1>7, <1>8

-----------------------------------------------------------------------------
(* The invariant *)

Kinds == {"none", "open", "output", "close", "opened", "ack", "mismatch", "refused",
          "unopened", "detached", "ended"}
Messages == [kind : Kinds, id : Nat, at : Nat, bytes : Seq(Nat)]
Drivers == [stream : Streams, drawn : Nat, waiting : Seq(Nat), gone : BOOLEAN,
            closed : BOOLEAN, over : {"no", "ended", "unrecoverable"}]

(* What the variables may be. *)
TypeInv ==
  /\ shell \in [written : Nat, exited : BOOLEAN]
  /\ driver \in Drivers
  /\ control \in Seq(Messages) /\ events \in Seq(Messages)
  /\ mux \in [connected : BOOLEAN, hosted : BOOLEAN, terminal_id : Nat, closing : BOOLEAN,
              listed : Nat, missed : BOOLEAN]
  /\ up \in Seq(Messages) /\ down \in Seq(Messages) /\ stale \in Seq(Messages)
  /\ relay \in [open : BOOLEAN, reply : Messages, acked : Nat]
  /\ term \in Nat \ {0} /\ log \in Seq(Nat) /\ durable \in Nat
  /\ secured \in Nat /\ late \in BOOLEAN

(* How many of the shell's bytes have entered the stream, the offset the   *)
(* stream has reached, and the offset its first byte had.                  *)
Taken(d) == d.drawn - Len(d.waiting)
End(d) == EndOf(d.stream)
Org(d) == End(d) - Taken(d)

Placed(d) == End(d) > 0 \/ d.stream.positioned
BaseOf(t) == IF t = 1 THEN OldBytes ELSE 0

(* The chunk that waits and the stream continue the shell's output. *)
DriverOK(d) ==
  /\ d \in Drivers
  /\ Len(d.waiting) <= d.drawn
  /\ \A i \in 1 .. Len(d.waiting) : d.waiting[i] = Taken(d) + i
  /\ StreamOK(d.stream, Org(d))

(* Messages about the first terminal, the opening of a later one, and the  *)
(* answers that carry the relay's offset.                                  *)
Old(m) == m.kind \in {"opened", "ack"} /\ m.id = 1
New(m) == m.kind = "opened" /\ m.id > 1
IsReply(m) == m.kind \in {"opened", "mismatch"}
Inert(m) == m.kind \notin {"opened", "ack", "mismatch"}

(* The stream's origin is the terminal's, or the relay has moved on to a   *)
(* terminal that has accepted nothing.                                     *)
OriginOK(d, path) ==
  Placed(d) =>
    /\ term = 1 => Org(d) = OldBytes
    /\ term > 1 => Org(d) = 0 \/ (Org(d) = OldBytes /\ log = << >>)
    /\ Org(d) = 0 /\ OldBytes > 0 => \A m \in path : ~Old(m)

(* The terminal never holds more than the driver has sent. *)
PlaceOK(d) ==
  /\ IF End(d) = 0 THEN Len(log) = Base ELSE Len(log) <= End(d)
  /\ secured <= Taken(d)

(* What an answer of the relay, however old, can still say. *)
PathOK(m, d) ==
  /\ ~Inert(m) => m.id \in 1 .. term
  /\ m.kind = "opened" => IF End(d) = 0 THEN m.at = BaseOf(m.id) ELSE m.at <= End(d)
  /\ m.kind = "mismatch" => End(d) > 0 /\ m.at <= End(d)
  /\ m.kind = "ack" => /\ m.at - BaseOf(m.id) <= secured
                       /\ m.id > 1 => End(d) > 0 /\ Org(d) = 0
                       /\ m.id = term => m.at <= durable

(* What was released, and what was closed, is durable. *)
GoneOK(d) ==
  /\ d.drawn <= shell.written
  /\ d.gone => shell.exited /\ d.drawn = shell.written
  /\ d.closed => d.gone /\ secured = shell.written
  /\ d.over = "no" => d.stream.start - Org(d) <= secured

(* Unless a lost connection's output came in between, the relay's answers  *)
(* are never below what the driver has released of the first terminal.     *)
RecoverOK(d, path) ==
  ~late /\ term = 1 =>
    /\ d.over # "unrecoverable" /\ d.stream.start <= durable
    /\ End(d) > 0 => \A m \in path : IsReply(m) => d.stream.start <= m.at

DriverInv(d, path) ==
  /\ DriverOK(d) /\ OriginOK(d, path) /\ PlaceOK(d)
  /\ \A m \in path : PathOK(m, d)
  /\ GoneOK(d) /\ RecoverOK(d, path)

(* The relay's terminal: the shell's bytes from the base on. *)
TermInv ==
  /\ \A i \in 1 .. Len(log) : log[i] = IF i <= Base THEN 0 ELSE i - Base
  /\ Base <= durable /\ durable <= Len(log) /\ durable - Base <= secured

(* An output frame on its way carries the shell's bytes for its offset. *)
FrameOK(m, e, b) ==
  m.kind = "output" =>
    /\ e > 0 /\ b <= m.at /\ m.at + Len(m.bytes) <= e
    /\ \A i \in 1 .. Len(m.bytes) : m.bytes[i] = (m.at + i) - b

Sending == Elems(control) \cup Elems(up) \cup Elems(stale)
FramesInv == \A m \in Sending : FrameOK(m, End(driver), Org(driver))

(* What lies between the relay and the driver is in order: the first       *)
(* terminal before the later ones, and no answer behind an ack that went   *)
(* beyond it.                                                              *)
Fits(l, x, y) ==
  /\ New(x) => ~Old(y)
  /\ ~l /\ x.kind = "ack" /\ IsReply(y) /\ x.id = y.id => x.at <= y.at

Before(l, S, T) == \A x \in S, y \in T : Fits(l, x, y)
Ordered(l, q) == \A i, j \in 1 .. Len(q) : i < j => Fits(l, q[i], q[j])

Path == Elems(events) \cup Elems(down) \cup {relay.reply}

OrderInv ==
  /\ Ordered(late, events) /\ Ordered(late, down)
  /\ Before(late, Elems(events), Elems(down))
  /\ Before(late, Elems(events) \cup Elems(down), {relay.reply})

(* A reply not yet written still names the offset the relay is at, unless  *)
(* a lost connection's output came in between.                             *)
ReplyInv ==
  ~late =>
    (IsReply(relay.reply) /\ relay.reply.id = term => relay.reply.at = Len(log))

PublicationInv ==
  /\ TypeInv /\ DriverInv(driver, Path) /\ TermInv /\ FramesInv /\ OrderInv /\ ReplyInv

-----------------------------------------------------------------------------
(* The driver's own steps *)

LEMMA DriverNumbers ==
  ASSUME NEW d, DriverOK(d)
  PROVE  /\ d.drawn \in Nat /\ Len(d.waiting) \in Nat /\ d.drawn = Taken(d) + Len(d.waiting)
         /\ Taken(d) \in Nat /\ End(d) \in Nat /\ Org(d) \in Nat /\ End(d) = Org(d) + Taken(d)
         /\ d.stream.start \in Nat /\ Org(d) <= d.stream.start /\ d.stream.start <= End(d)
         /\ d.stream \in Streams /\ d.stream.next = End(d)
         /\ d.waiting \in Seq(Nat)
<1>1. /\ d.drawn \in Nat /\ d.waiting \in Seq(Nat) /\ Len(d.waiting) \in Nat
      /\ Len(d.waiting) <= d.drawn /\ d.stream \in Streams
  BY DEF DriverOK, Drivers
<1>2. /\ d.stream.start \in Nat /\ Len(d.stream.bytes) \in Nat /\ Org(d) \in Nat
      /\ Org(d) <= d.stream.start /\ d.stream.next = End(d)
  BY <1>1 DEF DriverOK, StreamOK, Streams, End
<1>3. End(d) \in Nat /\ d.stream.start <= End(d)
  BY <1>2 DEF End, EndOf
<1>4. Taken(d) \in Nat /\ d.drawn = Taken(d) + Len(d.waiting)
  BY <1>1 DEF Taken
<1>5. End(d) = Org(d) + Taken(d)
  BY <1>3, <1>4 DEF Org
<1> QED
  BY <1>1, <1>2, <1>3, <1>4, <1>5

(* A step that leaves the stream's end and origin alone. *)
LEMMA DriverCarries ==
  ASSUME NEW d, NEW P, DriverInv(d, P), NEW c, NEW Q, Q \subseteq P,
         DriverOK(c), End(c) = End(d), Org(c) = Org(d), Taken(c) = Taken(d),
         Placed(c) => Placed(d), GoneOK(c), RecoverOK(c, Q)
  PROVE  DriverInv(c, Q)
<1>1. OriginOK(c, Q)
  BY DEF DriverInv, OriginOK
<1>2. PlaceOK(c)
  BY DEF DriverInv, PlaceOK
<1>3. \A m \in Q : PathOK(m, c)
  BY Zenon DEF DriverInv, PathOK
<1> QED
  BY <1>1, <1>2, <1>3 DEF DriverInv

(* A step that sends: the end grows, from where the stream was placed. *)
LEMMA DriverAdvances ==
  ASSUME TypeInv, TermInv, NEW d, NEW P, P \subseteq Messages, DriverInv(d, P),
         d.stream.positioned, NEW c, DriverOK(c), Org(c) = Org(d), End(d) <= End(c),
         c.stream.start = d.stream.start, c.drawn = d.drawn,
         c.gone = d.gone, c.closed = d.closed, c.over = d.over
  PROVE  DriverInv(c, P)
<1>1. /\ End(d) \in Nat /\ End(c) \in Nat /\ Org(d) \in Nat /\ Taken(d) \in Nat
      /\ Taken(d) <= Taken(c) /\ Org(d) <= End(d) /\ Taken(c) \in Nat
      /\ d.stream.start <= End(d) /\ d.stream.start \in Nat
  BY DriverNumbers DEF DriverInv
<1>2. Placed(d)
  BY DEF Placed
<1>3. OriginOK(c, P)
  BY <1>2 DEF DriverInv, OriginOK
<1>4. ASSUME End(d) = 0
      PROVE  Org(d) = 0 /\ Base = 0 /\ \A m \in P : m.kind = "opened" => m.at = 0
  <2>1. Org(d) = 0
    BY <1>1, <1>4
  <2>2. Base = 0
    BY <1>2, <2>1 DEF DriverInv, OriginOK, Base
  <2>3. ASSUME NEW m \in P, m.kind = "opened" PROVE m.at = 0
    <3>1. m.at = BaseOf(m.id)
      BY <1>4, <2>3, Zenon DEF DriverInv, PathOK
    <3>2. OldBytes > 0 => ~Old(m)
      BY <1>2, <2>1 DEF DriverInv, OriginOK
    <3>3. OldBytes \in Nat
      BY BoundsAssumption
    <3> QED
      BY <2>3, <3>1, <3>2, <3>3 DEF BaseOf, Old
  <2> QED
    BY <2>1, <2>2, <2>3
<1>5. PlaceOK(c)
  <2>1. secured <= Taken(d) /\ secured \in Nat /\ Len(log) \in Nat
    BY DEF DriverInv, PlaceOK, TypeInv
  <2>2. CASE End(d) = 0
    BY <1>1, <1>4, <2>1, <2>2 DEF DriverInv, PlaceOK
  <2>3. CASE End(d) # 0
    BY <1>1, <2>1, <2>3 DEF DriverInv, PlaceOK
  <2> QED
    BY <2>2, <2>3
<1>6. ASSUME NEW m \in P PROVE PathOK(m, c)
  <2>0. m.at \in Nat
    BY DEF Messages
  <2>1. PathOK(m, d)
    BY DEF DriverInv
  <2>2. m.kind = "opened" => IF End(c) = 0 THEN m.at = BaseOf(m.id) ELSE m.at <= End(c)
    <3>1. CASE End(d) = 0
      <4>1. m.kind = "opened" => m.at = 0 /\ m.at = BaseOf(m.id)
        BY <1>4, <2>1, <3>1 DEF PathOK
      <4> QED
        BY <1>1, <4>1
    <3>2. CASE End(d) # 0
      BY <1>1, <2>0, <2>1, <3>2 DEF PathOK
    <3> QED
      BY <3>1, <3>2
  <2>3. m.kind = "mismatch" => End(c) > 0 /\ m.at <= End(c)
    BY <1>1, <2>0, <2>1 DEF PathOK
  <2>4. m.kind = "ack" /\ m.id > 1 => End(c) > 0 /\ Org(c) = 0
    BY <1>1, <2>1 DEF PathOK
  <2> QED
    BY <2>1, <2>2, <2>3, <2>4, Zenon DEF PathOK
<1>7. GoneOK(c)
  BY Zenon DEF DriverInv, GoneOK
<1>8. RecoverOK(c, P)
  <2> SUFFICES ASSUME ~late, term = 1, NEW m \in P, IsReply(m)
               PROVE  d.stream.start <= m.at
    BY DEF DriverInv, RecoverOK
  <2>1. m.at \in Nat
    BY DEF Messages
  <2>2. CASE End(d) = 0
    BY <1>1, <2>1, <2>2
  <2>3. CASE End(d) > 0
    BY <2>3 DEF DriverInv, RecoverOK
  <2> QED
    BY <1>1, <2>2, <2>3
<1> QED
  BY <1>3, <1>5, <1>6, <1>7, <1>8 DEF DriverInv

LEMMA FrameCount ==
  ASSUME NEW n \in Nat, NEW k \in 1 .. (n + MaxFrame - 1) \div MaxFrame
  PROVE  (k - 1) * MaxFrame \in Nat /\ (k - 1) * MaxFrame < n
<1>1. MaxFrame \in Nat \ {0}
  BY BoundsAssumption
<1>2. PICK t \in Nat : t = n + MaxFrame - 1
  BY <1>1
<1>3. PICK count \in Nat : count = t \div MaxFrame
  BY <1>1, <1>2
<1>4. count * MaxFrame \in Nat /\ count * MaxFrame <= t
  <2>1. t = MaxFrame * (t \div MaxFrame) + (t % MaxFrame) /\ t % MaxFrame \in 0 .. MaxFrame - 1
    BY <1>1, <1>2
  <2>2. MaxFrame * count = count * MaxFrame /\ count * MaxFrame \in Nat
    BY <1>1, <1>3
  <2> QED
    BY <1>1, <1>2, <1>3, <2>1, <2>2
<1>5. k \in Nat /\ k - 1 \in Nat /\ k <= count
  BY <1>2, <1>3
<1>6. (k - 1) * MaxFrame \in Nat /\ k * MaxFrame = (k - 1) * MaxFrame + MaxFrame
  BY <1>1, <1>5
<1>7. k * MaxFrame <= count * MaxFrame
  BY <1>1, <1>3, <1>5
<1> QED
  BY <1>1, <1>2, <1>4, <1>6, <1>7

LEMMA MsgType ==
  ASSUME NEW kind \in Kinds, NEW id \in Nat, NEW at \in Nat, NEW bytes \in Seq(Nat)
  PROVE  Msg(kind, id, at, bytes) \in Messages
  BY DEF Msg, Messages

LEMMA FrameCountType ==
  ASSUME NEW n \in Nat
  PROVE  (n + MaxFrame - 1) \div MaxFrame \in Nat
<1>1. MaxFrame \in Nat \ {0}
  BY BoundsAssumption
<1>2. PICK t \in Nat : t = n + MaxFrame - 1
  BY <1>1
<1>3. t \div MaxFrame \in Nat
  BY <1>1
<1> QED
  BY <1>2, <1>3

LEMMA Part ==
  ASSUME NEW S, NEW q \in Seq(S), NEW l \in Nat, NEW h \in Nat, l <= h, h <= Len(q)
  PROVE  /\ SubSeq(q, l + 1, h) \in Seq(S) /\ Len(SubSeq(q, l + 1, h)) = h - l
         /\ \A i \in 1 .. h - l : SubSeq(q, l + 1, h)[i] = q[l + i]
<1>1. Len(q) \in Nat
  OBVIOUS
<1> QED
  BY <1>1

LEMMA FrameGenuine ==
  ASSUME NEW start \in Nat, NEW bytes \in Seq(Nat), NEW b \in Nat, NEW e \in Nat,
         b <= start, start + Len(bytes) <= e,
         \A i \in 1 .. Len(bytes) : bytes[i] = (start + i) - b,
         NEW l \in Nat, NEW h \in Nat, l < Len(bytes), l <= h, h <= Len(bytes),
         NEW m, m = Msg("output", NoTerminal, start + l, SubSeq(bytes, l + 1, h))
  PROVE  m \in Messages /\ FrameOK(m, e, b)
<1>1. Len(bytes) \in Nat
  OBVIOUS
<1>2. PICK part : part = SubSeq(bytes, l + 1, h)
  OBVIOUS
<1>3. /\ part \in Seq(Nat) /\ Len(part) = h - l
      /\ \A i \in 1 .. h - l : part[i] = bytes[l + i]
  <2>1. /\ SubSeq(bytes, l + 1, h) \in Seq(Nat) /\ Len(SubSeq(bytes, l + 1, h)) = h - l
        /\ \A i \in 1 .. h - l : SubSeq(bytes, l + 1, h)[i] = bytes[l + i]
    BY Part
  <2> QED
    BY <1>2, <2>1, Zenon
<1>4. m = [kind |-> "output", id |-> 0, at |-> start + l, bytes |-> part]
  BY <1>2 DEF Msg, NoTerminal
<1>5. m \in Messages
  <2>1. start + l \in Nat /\ 0 \in Nat
    OBVIOUS
  <2>2. "output" \in Kinds
    BY DEF Kinds
  <2> QED
    BY <1>2, <1>3, <2>1, <2>2, MsgType, Zenon DEF NoTerminal
<1>6. m.at = start + l /\ m.bytes = part
  BY <1>4
<1>7. ASSUME NEW i \in 1 .. h - l PROVE part[i] = ((start + l) + i) - b
  <2>1. l + i \in 1 .. Len(bytes)
    BY <1>1
  <2>2. bytes[l + i] = (start + (l + i)) - b
    BY <2>1
  <2> QED
    BY <1>3, <2>2
<1>8. e > 0 /\ b <= start + l /\ (start + l) + (h - l) <= e
  BY <1>1
<1> QED
  BY <1>3, <1>5, <1>6, <1>7, <1>8 DEF FrameOK

(* send_output: every frame carries its part of the bytes. *)
LEMMA FramesGenuine ==
  ASSUME NEW start \in Nat, NEW bytes \in Seq(Nat), NEW b \in Nat, NEW e \in Nat,
         b <= start, start + Len(bytes) <= e,
         \A i \in 1 .. Len(bytes) : bytes[i] = (start + i) - b
  PROVE  /\ Frames(start, bytes) \in Seq(Messages)
         /\ \A m \in Elems(Frames(start, bytes)) : FrameOK(m, e, b)
<1> DEFINE n == Len(bytes)
           count == (n + MaxFrame - 1) \div MaxFrame
           lo(k) == (k - 1) * MaxFrame
           hi(k) == IF lo(k) + MaxFrame <= n THEN lo(k) + MaxFrame ELSE n
           frame(k) == Msg("output", NoTerminal, start + lo(k), SubSeq(bytes, lo(k) + 1, hi(k)))
<1>1. n \in Nat /\ MaxFrame \in Nat \ {0}
  BY BoundsAssumption
<1>2. Frames(start, bytes) = [k \in 1 .. count |-> frame(k)]
  BY DEF Frames
<1>3. count \in Nat
  BY <1>1, FrameCountType
<1>4. ASSUME NEW k \in 1 .. count
      PROVE  frame(k) \in Messages /\ FrameOK(frame(k), e, b)
  <2>1. PICK l \in Nat : l = lo(k) /\ l < n
    BY <1>1, FrameCount
  <2>2. PICK h \in Nat : h = hi(k) /\ l <= h /\ h <= n
    <3>1. hi(k) = IF l + MaxFrame <= n THEN l + MaxFrame ELSE n
      BY <2>1
    <3> HIDE DEF hi, n
    <3> QED
      BY <1>1, <2>1, <3>1
  <2>3. frame(k) = Msg("output", NoTerminal, start + l, SubSeq(bytes, l + 1, h))
    BY <2>1, <2>2, Zenon
  <2> HIDE DEF frame, lo, hi
  <2> QED
    BY <2>1, <2>2, <2>3, FrameGenuine
<1> HIDE DEF frame, count
<1>5. PICK f : f = [k \in 1 .. count |-> frame(k)]
  OBVIOUS
<1>6. f \in [1 .. count -> Messages]
  BY <1>4, <1>5
<1>7. f \in Seq(Messages) /\ Len(f) = count
  BY <1>3, <1>6
<1>8. \A k \in 1 .. count : f[k] = frame(k)
  BY <1>5
<1> QED
  BY <1>2, <1>4, <1>5, <1>7, <1>8 DEF Elems

LEMMA FrameGrows ==
  ASSUME NEW m \in Messages, NEW e \in Nat, NEW f \in Nat, NEW b \in Nat, e <= f,
         FrameOK(m, e, b)
  PROVE  FrameOK(m, f, b)
<1>1. m.at \in Nat /\ Len(m.bytes) \in Nat
  BY DEF Messages
<1> QED
  BY <1>1 DEF FrameOK

(* A driver state with requests that agree with it. *)
Sound(r, path) ==
  /\ DriverInv(r.d, path) /\ r.d.over = "no"
  /\ r.out \in Seq(Messages)
  /\ \A m \in Elems(r.out) : FrameOK(m, End(r.d), Org(r.d))

Grown(c, d) == End(d) <= End(c) /\ Org(c) = Org(d)

(* The chunk that waited goes out. *)
LEMMA SendWaitingKeeps ==
  ASSUME TypeInv, TermInv, NEW P, P \subseteq Messages, NEW r, Sound(r, P),
         NEW a, a = SendWaiting(r)
  PROVE  Sound(a, P) /\ Grown(a.d, r.d)
<1> DEFINE d == r.d
           w == d.waiting
<1>1. /\ DriverOK(d) /\ d \in Drivers /\ w \in Seq(Nat) /\ Len(w) \in Nat /\ d.drawn \in Nat
      /\ d.drawn = Taken(d) + Len(w) /\ Taken(d) \in Nat /\ End(d) \in Nat /\ Org(d) \in Nat
      /\ End(d) = Org(d) + Taken(d) /\ Org(d) <= End(d) /\ d.stream.next = End(d)
  BY DriverNumbers DEF Sound, DriverInv, DriverOK
<1>2. CASE ~(w # << >> /\ MaySend(d.stream))
  <2>1. a = r
    BY <1>2 DEF SendWaiting
  <2> QED
    BY <1>1, <2>1 DEF Grown
<1>3. CASE w # << >> /\ MaySend(d.stream)
  <2>1. a.d = [d EXCEPT !.stream = Sent(d.stream, w), !.waiting = << >>]
        /\ a.out = r.out \o Frames(d.stream.next, w)
    BY <1>3 DEF SendWaiting, Then
  <2>2. \A i \in 1 .. Len(w) : w[i] = (End(d) + i) - Org(d)
    <3>1. \A i \in 1 .. Len(w) : w[i] = Taken(d) + i
      BY <1>1 DEF DriverOK
    <3> HIDE DEF d, w
    <3> QED
      BY <1>1, <3>1
  <2>3. PICK s : s = Sent(d.stream, w)
    OBVIOUS
  <2>4. /\ StreamOK(s, Org(d)) /\ EndOf(s) = End(d) + Len(w) /\ s.start = d.stream.start
        /\ s \in Streams
    <3>1. StreamOK(d.stream, Org(d))
      BY <1>1 DEF DriverOK
    <3> QED
      <4>1. \A i \in 1 .. Len(w) : w[i] = (EndOf(d.stream) + i) - Org(d)
        BY <2>2 DEF End
      <4>2. StreamOK(s, Org(d)) /\ EndOf(s) = EndOf(d.stream) + Len(w) /\ s.start = d.stream.start
        <5> HIDE DEF d, w
        <5> QED
          BY <1>1, <2>3, <3>1, <4>1, SentKeeps
      <4> QED
        BY <4>2 DEF End, StreamOK
  <2>5. /\ a.d \in Drivers /\ a.d.stream = s /\ a.d.waiting = << >> /\ a.d.drawn = d.drawn
        /\ a.d.gone = d.gone /\ a.d.closed = d.closed /\ a.d.over = d.over
    <3> HIDE DEF d, w
    <3>1. << >> \in Seq(Nat)
      OBVIOUS
    <3> QED
      BY <1>1, <2>1, <2>3, <2>4, <3>1 DEF Drivers
  <2> HIDE DEF d, w
  <2>6. Taken(a.d) = d.drawn /\ End(a.d) = End(d) + Len(w) /\ Org(a.d) = Org(d)
    <3>1. Len(<< >>) = 0
      OBVIOUS
    <3>2. Taken(a.d) = d.drawn - 0
      BY <2>5, <3>1, Zenon DEF Taken
    <3>3. End(a.d) = End(d) + Len(w)
      BY <2>4, <2>5, Zenon DEF End
    <3>4. Org(a.d) = (End(d) + Len(w)) - (d.drawn - 0)
      BY <3>2, <3>3, Zenon DEF Org
    <3> QED
      BY <1>1, <3>2, <3>3, <3>4
  <2>7. DriverOK(a.d)
    <3>1. Len(a.d.waiting) = 0 /\ Len(a.d.waiting) <= a.d.drawn
      BY <1>1, <2>5
    <3>2. \A i \in 1 .. Len(a.d.waiting) : a.d.waiting[i] = Taken(a.d) + i
      BY <3>1
    <3> QED
      BY <2>4, <2>5, <2>6, <3>1, <3>2 DEF DriverOK
  <2>8. d.stream.positioned
    BY <1>3 DEF MaySend, d
  <2>9. DriverInv(a.d, P)
    <3>1. DriverInv(d, P)
      BY DEF Sound, d
    <3>2. End(d) <= End(a.d) /\ a.d.stream.start = d.stream.start
      BY <1>1, <2>4, <2>5, <2>6
    <3> QED
      BY <2>5, <2>6, <2>7, <2>8, <3>1, <3>2, DriverAdvances
  <2>10. PICK fr : fr = Frames(End(d), w)
    OBVIOUS
  <2>11. fr \in Seq(Messages) /\ \A m \in Elems(fr) : FrameOK(m, End(a.d), Org(a.d))
    <3>1. End(d) + Len(w) \in Nat /\ End(d) + Len(w) <= End(d) + Len(w)
      BY <1>1
    <3> QED
      BY <1>1, <2>2, <2>6, <2>10, <3>1, FramesGenuine
  <2>12. \A m \in Elems(r.out) : FrameOK(m, End(a.d), Org(a.d))
    <3>1. End(a.d) \in Nat /\ End(d) <= End(a.d)
      BY <1>1, <2>6
    <3>2. Elems(r.out) \subseteq Messages
      BY ElemsType DEF Sound
    <3>3. \A m \in Elems(r.out) : FrameOK(m, End(d), Org(d))
      BY DEF Sound, d
    <3> QED
      BY <1>1, <2>6, <3>1, <3>2, <3>3, FrameGrows
  <2>13. a.out \in Seq(Messages) /\ Elems(a.out) = Elems(r.out) \cup Elems(fr)
    <3>1. r.out \in Seq(Messages) /\ a.out = r.out \o fr
      BY <1>1, <2>1, <2>10 DEF Sound, d
    <3> QED
      BY <2>11, <3>1, ElemsJoin
  <2>14. a.d.over = "no"
    BY <2>5 DEF Sound, d
  <2>15. Grown(a.d, r.d)
    <3>1. End(d) <= End(a.d)
      BY <1>1, <2>6
    <3> QED
      BY <2>6, <3>1 DEF Grown, d
  <2> QED
    BY <2>9, <2>11, <2>12, <2>13, <2>14, <2>15 DEF Sound
<1> QED
  BY <1>2, <1>3

(* The close of a finished shell waits for the last acknowledgement. *)
LEMMA SendCloseKeeps ==
  ASSUME TypeInv, TermInv, NEW P, P \subseteq Messages, NEW r, Sound(r, P),
         NEW a, a = SendClose(r)
  PROVE  Sound(a, P) /\ Grown(a.d, r.d)
<1>1. DriverInv(r.d, P) /\ DriverOK(r.d) /\ r.d.over = "no" /\ r.d \in Drivers
  BY DEF Sound, DriverInv, DriverOK
<1>2. PICK d : d = r.d
  OBVIOUS
<1>3. /\ DriverInv(d, P) /\ DriverOK(d) /\ d.over = "no" /\ d \in Drivers
      /\ d.drawn \in Nat /\ Len(d.waiting) \in Nat /\ d.drawn = Taken(d) + Len(d.waiting)
      /\ Taken(d) \in Nat /\ End(d) \in Nat /\ Org(d) \in Nat /\ End(d) = Org(d) + Taken(d)
      /\ d.stream.start \in Nat /\ d.stream.start <= End(d) /\ d.stream.next = End(d)
  BY <1>1, <1>2, DriverNumbers
<1>4. CASE ~(d.gone /\ ~d.closed /\ d.waiting = << >> /\ Unacked(d.stream) = 0)
  <2>1. a = r
    BY <1>2, <1>4 DEF SendClose
  <2> QED
    BY <1>2, <1>3, <2>1 DEF Grown
<1>5. CASE d.gone /\ ~d.closed /\ d.waiting = << >> /\ Unacked(d.stream) = 0
  <2>1. a.d = [d EXCEPT !.closed = TRUE] /\ a.out = Append(r.out, CloseRequest)
    BY <1>2, <1>5 DEF SendClose, Then
  <2>2. PICK c : c = a.d
    OBVIOUS
  <2>3. /\ c \in Drivers /\ c.stream = d.stream /\ c.waiting = d.waiting /\ c.drawn = d.drawn
        /\ c.gone = d.gone /\ c.over = d.over
    BY <1>3, <2>1, <2>2 DEF Drivers
  <2>4. /\ Taken(c) = Taken(d) /\ End(c) = End(d) /\ Org(c) = Org(d)
        /\ (Placed(c) <=> Placed(d))
    BY <2>3, Zenon DEF Taken, End, Org, Placed
  <2>5. DriverOK(c)
    BY <1>3, <2>3, <2>4, Zenon DEF DriverOK
  <2>6. d.stream.start = End(d) /\ Len(d.waiting) = 0
    <3>1. Len(d.waiting) = 0
      BY <1>5
    <3> QED
      BY <1>3, <1>5, <3>1 DEF Unacked
  <2>7. secured = shell.written
    <3>1. secured <= Taken(d) /\ d.drawn <= shell.written /\ d.drawn = shell.written
      BY <1>3, <1>5 DEF DriverInv, PlaceOK, GoneOK
    <3>2. d.stream.start - Org(d) <= secured
      BY <1>3 DEF DriverInv, GoneOK
    <3>3. secured \in Nat
      BY DEF TypeInv
    <3> QED
      BY <1>3, <2>6, <3>1, <3>2, <3>3
  <2>8. GoneOK(c)
    BY <1>3, <1>5, <2>3, <2>4, <2>7, Zenon DEF DriverInv, GoneOK
  <2>9. RecoverOK(c, P)
    BY <1>3, <2>3, <2>4, Zenon DEF DriverInv, RecoverOK
  <2>10. DriverInv(c, P)
    <3>1. P \subseteq P
      OBVIOUS
    <3> QED
      BY <1>3, <2>4, <2>5, <2>8, <2>9, <3>1, DriverCarries
  <2>11. CloseRequest \in Messages /\ CloseRequest.kind = "close"
    BY DEF CloseRequest, Plain, Msg, NoTerminal, Messages, Kinds
  <2>12. /\ a.out \in Seq(Messages)
         /\ \A m \in Elems(a.out) : m \in Elems(r.out) \/ m = CloseRequest
    BY <2>1, <2>11, ElemsAppend DEF Sound
  <2>13. \A m \in Elems(a.out) : FrameOK(m, End(c), Org(c))
    <3>1. FrameOK(CloseRequest, End(c), Org(c))
      BY <2>11 DEF FrameOK
    <3>2. \A m \in Elems(r.out) : FrameOK(m, End(c), Org(c))
      BY <1>2, <2>4 DEF Sound
    <3> QED
      BY <2>12, <3>1, <3>2
  <2>14. Grown(c, r.d)
    BY <1>2, <1>3, <2>4 DEF Grown
  <2> QED
    BY <1>3, <2>2, <2>3, <2>10, <2>12, <2>13, <2>14 DEF Sound
<1> QED
  BY <1>4, <1>5

(* What a step of the driver does to the rest of the system. *)
DriverFrame ==
  UNCHANGED <<shell, mux, wireVars, relay, term, logVars, secured, late, faults>>

(* The top of drive's loop. *)
LEMMA DriveKeeps ==
  ASSUME TypeInv, TermInv, NEW P, P \subseteq Messages, NEW d, DriverInv(d, P), d.over = "no",
         NEW out \in Seq(Messages), \A m \in Elems(out) : FrameOK(m, End(d), Org(d)),
         \A m \in Sending : FrameOK(m, End(d), Org(d)),
         Drive(d, out)
  PROVE  /\ DriverInv(driver', P) /\ control' \in Seq(Messages)
         /\ \A m \in Elems(control') \cup Elems(up) \cup Elems(stale) :
              FrameOK(m, End(driver'), Org(driver'))
<1>1. PICK r1 : r1 = Then(d, out)
  OBVIOUS
<1>2. PICK r2 : r2 = SendWaiting(r1)
  OBVIOUS
<1>3. PICK r3 : r3 = SendClose(r2)
  OBVIOUS
<1>4. driver' = r3.d /\ control' = control \o r3.out
  BY <1>1, <1>2, <1>3, Zenon DEF Drive
<1>5. r1.d = d /\ r1.out = out
  BY <1>1 DEF Then
<1>6. Sound(r1, P)
  BY <1>5 DEF Sound
<1>7. Sound(r2, P) /\ Grown(r2.d, r1.d)
  BY <1>2, <1>6, SendWaitingKeeps
<1>8. Sound(r3, P) /\ Grown(r3.d, r2.d)
  BY <1>3, <1>7, SendCloseKeeps
<1>9. End(d) \in Nat /\ End(r2.d) \in Nat /\ End(r3.d) \in Nat /\ Org(d) \in Nat
  BY <1>7, <1>8, DriverNumbers DEF Sound, DriverInv
<1>10. End(d) <= End(r3.d) /\ Org(r3.d) = Org(d)
  BY <1>5, <1>7, <1>8, <1>9 DEF Grown
<1>11. control \in Seq(Messages) /\ Sending \subseteq Messages
  BY ElemsType DEF TypeInv, Sending
<1>12. \A m \in Sending : FrameOK(m, End(r3.d), Org(r3.d))
  BY <1>9, <1>10, <1>11, FrameGrows
<1>13. /\ control' \in Seq(Messages)
       /\ Elems(control') = Elems(control) \cup Elems(r3.out)
  BY <1>4, <1>8, <1>11, ElemsJoin DEF Sound
<1> QED
  BY <1>4, <1>8, <1>12, <1>13 DEF Sound, Sending

LEMMA Scalars ==
  ASSUME TypeInv
  PROVE  /\ OldBytes \in Nat /\ term \in Nat /\ term > 0 /\ secured \in Nat /\ durable \in Nat
         /\ log \in Seq(Nat) /\ Len(log) \in Nat
  BY BoundsAssumption DEF TypeInv

LEMMA PathType ==
  ASSUME TypeInv
  PROVE  Path \subseteq Messages /\ relay.reply \in Messages
<1>1. relay.reply \in Messages
  BY DEF TypeInv
<1> QED
  BY <1>1, ElemsType DEF TypeInv, Path

(* A step of the driver keeps the invariant when the driver ends up right. *)
LEMMA DriverFrameKeeps ==
  ASSUME PublicationInv, DriverFrame, NEW P, P = Path',
         events' \in Seq(Messages), Ordered(late, events'), Elems(events') \subseteq Elems(events),
         DriverInv(driver', P), control' \in Seq(Messages),
         \A m \in Elems(control') \cup Elems(up) \cup Elems(stale) :
           FrameOK(m, End(driver'), Org(driver'))
  PROVE  PublicationInv'
<1> USE DEF PublicationInv
<1>1. /\ up' = up /\ down' = down /\ stale' = stale /\ relay' = relay /\ shell' = shell
      /\ mux' = mux /\ term' = term /\ log' = log /\ durable' = durable /\ secured' = secured
      /\ late' = late
  BY DEF DriverFrame, wireVars, logVars
<1>2. driver' \in Drivers
  BY DEF DriverInv, DriverOK
<1>3. TypeInv'
  BY <1>1, <1>2 DEF TypeInv
<1>4. DriverInv(driver, Path)'
  <2>1. DriverOK(driver)' /\ OriginOK(driver, Path)' /\ PlaceOK(driver)' /\ GoneOK(driver)'
    BY <1>1 DEF DriverInv, DriverOK, OriginOK, PlaceOK, GoneOK, Placed, Taken, End, Org, Base
  <2>2. RecoverOK(driver, Path)'
    BY <1>1 DEF DriverInv, RecoverOK, End
  <2>3. ASSUME NEW m \in P PROVE PathOK(m, driver)'
    BY <1>1 DEF DriverInv, PathOK, End, Org, Taken, BaseOf
  <2> QED
    BY <2>1, <2>2, <2>3 DEF DriverInv
<1>5. TermInv'
  BY <1>1 DEF TermInv, Base
<1>6. FramesInv'
  BY <1>1 DEF FramesInv, Sending, FrameOK, End, Org, Taken
<1>7. OrderInv'
  BY <1>1 DEF OrderInv, Ordered, Before
<1>8. ReplyInv'
  BY <1>1 DEF ReplyInv
<1> QED
  BY <1>3, <1>4, <1>5, <1>6, <1>7, <1>8

(* A driver whose stream was aimed elsewhere. *)
LEMMA AimedDriver ==
  ASSUME NEW d, NEW P, DriverInv(d, P), NEW Q, Q \subseteq P,
         NEW s, Aimed(s, d.stream, Org(d)), End(d) > 0 \/ (s.positioned => d.stream.positioned),
         NEW c, c = [d EXCEPT !.stream = s]
  PROVE  /\ DriverInv(c, Q) /\ End(c) = End(d) /\ Org(c) = Org(d) /\ c.over = d.over
         /\ c.stream = s /\ c.closed = d.closed
<1>1. d \in Drivers /\ DriverOK(d)
  BY DEF DriverInv, DriverOK
<1>2. s \in Streams
  BY DEF Aimed, StreamOK
<1>3. /\ c \in Drivers /\ c.stream = s /\ c.waiting = d.waiting /\ c.drawn = d.drawn
      /\ c.gone = d.gone /\ c.over = d.over /\ c.closed = d.closed
  BY <1>1, <1>2 DEF Drivers
<1>4. s.start = d.stream.start /\ EndOf(s) = EndOf(d.stream) /\ StreamOK(s, Org(d))
  BY DEF Aimed
<1>5. Taken(c) = Taken(d) /\ End(c) = End(d) /\ Org(c) = Org(d)
  BY <1>3, <1>4, Zenon DEF Taken, End, Org
<1>6. Placed(c) => Placed(d)
  BY <1>3, <1>5, Zenon DEF Placed
<1>7. DriverOK(c)
  BY <1>1, <1>3, <1>4, <1>5, Zenon DEF DriverOK
<1>8. GoneOK(c)
  BY <1>3, <1>4, <1>5, Zenon DEF DriverInv, GoneOK
<1>9. RecoverOK(c, Q)
  BY <1>3, <1>4, <1>5 DEF DriverInv, RecoverOK
<1> QED
  BY <1>3, <1>5, <1>6, <1>7, <1>8, <1>9, DriverCarries

(* Losing the connection only makes the driver hold back. *)
LEMMA DetachedAimed ==
  ASSUME NEW b, NEW s, StreamOK(s, b), NEW a, a = Detached(s)
  PROVE  Aimed(a, s, b) /\ ~a.positioned
<1>1. s \in Streams
  BY DEF StreamOK
<1>2. PICK p : p = [s EXCEPT !.positioned = FALSE]
  OBVIOUS
<1>3. a = [p EXCEPT !.target = NoTarget]
  BY <1>2 DEF Detached
<1>4. /\ p \in Streams /\ p.start = s.start /\ p.bytes = s.bytes /\ p.next = s.next
      /\ p.positioned = FALSE
  BY <1>1, <1>2 DEF Streams
<1>5. /\ a \in Streams /\ a.start = s.start /\ a.bytes = s.bytes /\ a.next = s.next
      /\ a.positioned = FALSE
  BY <1>3, <1>4 DEF Streams, NoTarget
<1>6. EndOf(a) = EndOf(s)
  BY <1>5, Zenon DEF EndOf
<1>7. StreamOK(a, b)
  BY <1>5, <1>6, Zenon DEF StreamOK
<1> QED
  BY <1>5, <1>6, <1>7 DEF Aimed

(* The task returns. *)
LEMMA FinishKeeps ==
  ASSUME TypeInv, NEW P, NEW d, DriverInv(d, P),
         NEW why \in {"ended", "unrecoverable"},
         why = "unrecoverable" => late \/ term # 1,
         \A m \in Sending : FrameOK(m, End(d), Org(d)),
         Finish(d, why)
  PROVE  /\ DriverInv(driver', P) /\ control' \in Seq(Messages)
         /\ \A m \in Elems(control') \cup Elems(up) \cup Elems(stale) :
              FrameOK(m, End(driver'), Org(driver'))
<1>1. PICK c : c = [d EXCEPT !.over = why]
  OBVIOUS
<1>2. driver' = c /\ control' = IF d.closed THEN control ELSE Append(control, CloseRequest)
  BY <1>1 DEF Finish
<1>3. d \in Drivers /\ DriverOK(d)
  BY DEF DriverInv, DriverOK
<1>4. /\ c \in Drivers /\ c.stream = d.stream /\ c.waiting = d.waiting /\ c.drawn = d.drawn
      /\ c.gone = d.gone /\ c.closed = d.closed /\ c.over = why
  BY <1>1, <1>3 DEF Drivers
<1>5. /\ Taken(c) = Taken(d) /\ End(c) = End(d) /\ Org(c) = Org(d)
      /\ (Placed(c) <=> Placed(d))
  BY <1>4, Zenon DEF Taken, End, Org, Placed
<1>6. DriverOK(c)
  BY <1>3, <1>4, <1>5, Zenon DEF DriverOK
<1>7. GoneOK(c)
  BY <1>4, <1>5 DEF DriverInv, GoneOK
<1>8. RecoverOK(c, P)
  BY <1>4, <1>5 DEF DriverInv, RecoverOK
<1>9. DriverInv(c, P)
  <2>1. P \subseteq P
    OBVIOUS
  <2> QED
    BY <1>5, <1>6, <1>7, <1>8, <2>1, DriverCarries
<1>10. CloseRequest \in Messages /\ CloseRequest.kind = "close"
  BY DEF CloseRequest, Plain, Msg, NoTerminal, Messages, Kinds
<1>11. /\ control' \in Seq(Messages)
       /\ \A m \in Elems(control') : m \in Elems(control) \/ m = CloseRequest
  BY <1>2, <1>10, ElemsAppend DEF TypeInv
<1>12. FrameOK(CloseRequest, End(c), Org(c))
  BY <1>10 DEF FrameOK
<1> QED
  BY <1>2, <1>5, <1>9, <1>11, <1>12 DEF Sending

(* attached and mismatch, once the stream has begun. *)
LEMMA ResyncKeeps ==
  ASSUME TypeInv, TermInv, FramesInv, NEW P, DriverInv(driver, P), NEW Q, Q \subseteq P,
         Q \subseteq Messages, driver.over = "no", End(driver) > 0,
         NEW answer, Aimed(answer.stream, driver.stream, Org(driver)),
         answer.at \in Nat, answer.at <= End(driver),
         \/ answer.todo = "nothing"
         \/ answer.todo = "retransmit" /\ driver.stream.start <= answer.at
         \/ answer.todo = "unrecoverable" /\ answer.at < driver.stream.start,
         ~late /\ term = 1 => driver.stream.start <= answer.at,
         Resync(answer)
  PROVE  /\ DriverInv(driver', Q) /\ control' \in Seq(Messages)
         /\ \A m \in Elems(control') \cup Elems(up) \cup Elems(stale) :
              FrameOK(m, End(driver'), Org(driver'))
<1>1. PICK d : d = [driver EXCEPT !.stream = answer.stream]
  OBVIOUS
<1>2. /\ DriverInv(d, Q) /\ End(d) = End(driver) /\ Org(d) = Org(driver) /\ d.over = "no"
      /\ d.stream = answer.stream
  BY <1>1, AimedDriver
<1>3. \A m \in Sending : FrameOK(m, End(d), Org(d))
  BY <1>2 DEF FramesInv
<1>4. End(d) \in Nat /\ Org(d) \in Nat /\ driver.stream.start \in Nat /\ Org(d) <= driver.stream.start
  BY <1>2, DriverNumbers DEF DriverInv
<1>5. CASE answer.todo = "nothing"
  <2>1. Drive(d, << >>)
    BY <1>1, <1>5 DEF Resync
  <2>2. << >> \in Seq(Messages) /\ \A m \in Elems(<< >>) : FrameOK(m, End(d), Org(d))
    BY ElemsEmpty
  <2> QED
    BY <1>2, <1>3, <2>1, <2>2, DriveKeeps
<1>6. CASE answer.todo = "retransmit" /\ driver.stream.start <= answer.at
  <2>1. PICK out : out = Frames(answer.at, From(answer.stream, answer.at))
    OBVIOUS
  <2>2. Drive(d, out)
    BY <1>1, <1>6, <2>1 DEF Resync
  <2>3. PICK bytes : bytes = From(answer.stream, answer.at)
    OBVIOUS
  <2>4. /\ StreamOK(answer.stream, Org(d)) /\ answer.stream.start = driver.stream.start
        /\ EndOf(answer.stream) = End(d)
    BY <1>2 DEF Aimed, End
  <2>5. /\ bytes \in Seq(Nat) /\ Len(bytes) = End(d) - answer.at
        /\ \A i \in 1 .. Len(bytes) : bytes[i] = (answer.at + i) - Org(d)
    BY <1>2, <1>6, <2>3, <2>4, FromGenuine
  <2>6. Org(d) <= answer.at /\ answer.at + Len(bytes) <= End(d)
    BY <1>2, <1>4, <1>6, <2>5
  <2>7. out \in Seq(Messages) /\ \A m \in Elems(out) : FrameOK(m, End(d), Org(d))
    BY <1>4, <2>1, <2>3, <2>5, <2>6, FramesGenuine
  <2> QED
    BY <1>2, <1>3, <2>2, <2>7, DriveKeeps
<1>7. CASE answer.todo = "unrecoverable" /\ answer.at < driver.stream.start
  <2>1. Finish(d, "unrecoverable")
    BY <1>1, <1>7 DEF Resync
  <2>2. late \/ term # 1
    BY <1>4, <1>7
  <2> QED
    BY <1>2, <1>3, <2>1, <2>2, FinishKeeps
<1> QED
  BY <1>5, <1>6, <1>7

(* The first terminal.opened the driver hears of gives the stream its      *)
(* origin.  Messages about the first terminal come before those about a    *)
(* later one, so an origin of zero is never followed by an old message.    *)
LEMMA FreshDriver ==
  ASSUME PublicationInv, End(driver) = 0, NEW e \in Path, e.kind = "opened",
         NEW Q, Q \subseteq Path, Before(late, {e}, Q),
         NEW s, StreamOK(s, e.at), s.start = e.at, EndOf(s) = e.at,
         NEW c, c = [driver EXCEPT !.stream = s]
  PROVE  /\ DriverInv(c, Q) /\ c.over = driver.over
         /\ \A m \in Sending : FrameOK(m, End(c), Org(c))
<1> USE DEF PublicationInv
<1>1. /\ Taken(driver) = 0 /\ Org(driver) = 0 /\ DriverOK(driver) /\ driver \in Drivers
  BY DriverNumbers DEF DriverInv, DriverOK
<1>2. /\ e \in Messages /\ Path \subseteq Messages /\ e.at \in Nat /\ e.id \in Nat
      /\ OldBytes \in Nat /\ term \in Nat /\ term > 0 /\ Len(log) \in Nat /\ secured \in Nat
  <2>1. Path \subseteq Messages
    BY PathType
  <2>2. e.at \in Nat /\ e.id \in Nat
    BY <2>1 DEF Messages
  <2>3. TypeInv
    OBVIOUS
  <2>4. /\ OldBytes \in Nat /\ term \in Nat /\ term > 0 /\ Len(log) \in Nat
        /\ secured \in Nat
    BY <2>3, Scalars
  <2> QED
    BY <2>1, <2>2, <2>4
<1>3. s \in Streams
  BY DEF StreamOK
<1>4. /\ c \in Drivers /\ c.stream = s /\ c.waiting = driver.waiting /\ c.drawn = driver.drawn
      /\ c.gone = driver.gone /\ c.over = driver.over /\ c.closed = driver.closed
  BY <1>1, <1>3 DEF Drivers
<1>5. Taken(c) = 0 /\ End(c) = e.at /\ Org(c) = e.at
  <2>1. Taken(c) = Taken(driver) /\ End(c) = e.at
    BY <1>4, Zenon DEF Taken, End
  <2>2. Org(c) = e.at - 0
    BY <1>1, <2>1, Zenon DEF Org
  <2> QED
    BY <1>1, <1>2, <2>1, <2>2
<1>6. /\ PathOK(e, driver) /\ e.id \in 1 .. term /\ e.at = BaseOf(e.id)
  BY DEF DriverInv, PathOK, Inert
<1>7. Len(log) = Base /\ secured = 0
  BY <1>1, <1>2 DEF DriverInv, PlaceOK
<1>8. DriverOK(c)
  BY <1>1, <1>4, <1>5, Zenon DEF DriverOK
<1>9. OriginOK(c, Q)
  <2>1. term = 1 => Org(c) = OldBytes
    BY <1>2, <1>5, <1>6 DEF BaseOf
  <2>2. term > 1 => Org(c) = 0 \/ (Org(c) = OldBytes /\ log = << >>)
    <3>1. term > 1 => Len(log) = 0
      BY <1>2, <1>7 DEF Base
    <3>2. term > 1 => log = << >>
      BY <3>1, EmptySeq DEF TypeInv
    <3> QED
      BY <1>5, <1>6, <3>2 DEF BaseOf
  <2>3. ASSUME Org(c) = 0, OldBytes > 0, NEW m \in Q PROVE ~Old(m)
    <3>1. New(e)
      BY <1>2, <1>5, <1>6, <2>3 DEF BaseOf, New
    <3> QED
      BY <3>1 DEF Before, Fits
  <2> QED
    BY <2>1, <2>2, <2>3 DEF OriginOK
<1>10. e.at > 0 => e.id = 1 /\ e.at = OldBytes
  BY <1>2, <1>6 DEF BaseOf
<1>11. Base <= OldBytes /\ (Base = 0 \/ Base = OldBytes)
  BY <1>2 DEF Base
<1>12. PlaceOK(c)
  BY <1>2, <1>5, <1>7, <1>10, <1>11 DEF PlaceOK
<1>13. ASSUME NEW m \in Q PROVE PathOK(m, c)
  <2>1. PathOK(m, driver) /\ m.at \in Nat
    BY <1>2 DEF DriverInv, Messages
  <2>2. m.kind # "mismatch" /\ ~(m.kind = "ack" /\ m.id > 1)
    BY <2>1 DEF PathOK
  <2>3. m.kind = "opened" => m.at = BaseOf(m.id)
    BY <2>1 DEF PathOK
  <2>4. m.kind = "opened" => IF End(c) = 0 THEN m.at = BaseOf(m.id) ELSE m.at <= End(c)
    BY <1>2, <1>5, <1>10, <2>1, <2>3 DEF BaseOf
  <2> QED
    BY <2>1, <2>2, <2>4, Zenon DEF PathOK
<1>14. GoneOK(c)
  <2>1. c.stream.start - Org(c) <= secured
    BY <1>2, <1>4, <1>5
  <2> QED
    BY <1>4, <2>1, Zenon DEF DriverInv, GoneOK
<1>15. RecoverOK(c, Q)
  <2> SUFFICES ASSUME ~late, term = 1
               PROVE  /\ c.over # "unrecoverable" /\ c.stream.start <= durable
                      /\ End(c) > 0 => \A m \in Q : IsReply(m) => c.stream.start <= m.at
    BY DEF RecoverOK
  <2>1. e.at = OldBytes /\ Base = OldBytes
    BY <1>2, <1>6 DEF BaseOf, Base
  <2>2. c.stream.start = OldBytes /\ OldBytes <= durable
    BY <1>4, <2>1 DEF TermInv
  <2>3. c.over # "unrecoverable"
    BY <1>4 DEF DriverInv, RecoverOK
  <2>4. ASSUME NEW m \in Q, IsReply(m) PROVE c.stream.start <= m.at
    <3>1. PathOK(m, driver) /\ m.at \in Nat
      BY <1>2 DEF DriverInv, Messages
    <3>2. m.kind = "opened" /\ m.at = BaseOf(m.id) /\ m.id \in 1 .. term
      BY <2>4, <3>1 DEF PathOK, IsReply, Inert
    <3> QED
      BY <1>2, <2>2, <3>2 DEF BaseOf
  <2> QED
    BY <2>2, <2>3, <2>4
<1>16. \A m \in Sending : FrameOK(m, End(c), Org(c))
  BY DEF FramesInv, FrameOK
<1> QED
  BY <1>4, <1>8, <1>9, <1>12, <1>13, <1>14, <1>15, <1>16 DEF DriverInv

(* An acknowledgement releases only what is durable, and nothing that a    *)
(* later answer may still ask for.                                         *)
LEMMA AckDriver ==
  ASSUME PublicationInv, NEW e \in Path, e.kind = "ack",
         NEW Q, Q \subseteq Path, Before(late, {e}, Q),
         NEW c, c = [driver EXCEPT !.stream = Acknowledged(@, e.at)]
  PROVE  DriverInv(c, Q) /\ c.over = driver.over /\ End(c) = End(driver) /\ Org(c) = Org(driver)
<1> USE DEF PublicationInv
<1>1. /\ DriverOK(driver) /\ driver \in Drivers /\ StreamOK(driver.stream, Org(driver))
      /\ End(driver) \in Nat /\ Org(driver) \in Nat /\ driver.stream.start \in Nat
      /\ driver.stream.start <= End(driver) /\ Org(driver) <= driver.stream.start
  BY DriverNumbers DEF DriverInv, DriverOK
<1>2. /\ e \in Messages /\ Path \subseteq Messages /\ e.at \in Nat /\ e.id \in Nat
      /\ OldBytes \in Nat /\ term \in Nat /\ term > 0 /\ secured \in Nat /\ durable \in Nat
  <2>1. Path \subseteq Messages
    BY PathType
  <2>2. e.at \in Nat /\ e.id \in Nat
    BY <2>1 DEF Messages
  <2> QED
    BY <2>1, <2>2, Scalars, Zenon
<1>3. PICK s : s = Acknowledged(driver.stream, e.at)
  OBVIOUS
<1>4. /\ StreamOK(s, Org(driver)) /\ EndOf(s) = End(driver)
      /\ s.positioned = driver.stream.positioned /\ driver.stream.start <= s.start
      /\ s.start = driver.stream.start \/ s.start <= e.at
  <2>1. /\ StreamOK(s, Org(driver)) /\ EndOf(s) = EndOf(driver.stream)
        /\ s.positioned = driver.stream.positioned /\ driver.stream.start <= s.start
        /\ s.start = driver.stream.start \/ s.start <= e.at
    <3>1. StreamOK(driver.stream, Org(driver)) /\ e.at \in Nat
      BY <1>1, <1>2
    <3> QED
      BY <1>3, <3>1, AcknowledgedKeeps, SMTT(30)
  <2> QED
    BY <2>1, Zenon DEF End
<1>5. s \in Streams /\ s.start \in Nat /\ Len(s.bytes) \in Nat
  BY <1>4 DEF StreamOK, Streams
<1>6. /\ c \in Drivers /\ c.stream = s /\ c.waiting = driver.waiting /\ c.drawn = driver.drawn
      /\ c.gone = driver.gone /\ c.over = driver.over /\ c.closed = driver.closed
  BY <1>1, <1>3, <1>5 DEF Drivers
<1>7. /\ Taken(c) = Taken(driver) /\ End(c) = End(driver) /\ Org(c) = Org(driver)
      /\ (Placed(c) <=> Placed(driver))
  BY <1>4, <1>6, Zenon DEF Taken, End, Org, Placed
<1>8. DriverOK(c)
  BY <1>1, <1>4, <1>6, <1>7, Zenon DEF DriverOK
<1>9. /\ e.id \in 1 .. term /\ e.at - BaseOf(e.id) <= secured
      /\ e.id > 1 => Org(driver) = 0
      /\ e.id = term => e.at <= durable
  BY DEF DriverInv, PathOK, Inert
<1>10. End(driver) > 0 => e.at - Org(driver) <= secured
  <2> SUFFICES ASSUME End(driver) > 0 PROVE e.at - Org(driver) <= secured
    OBVIOUS
  <2>1. CASE e.id > 1
    BY <1>2, <1>9, <2>1 DEF BaseOf
  <2>2. CASE e.id = 1
    <3>1. Old(e)
      BY <2>2 DEF Old
    <3>2. Placed(driver)
      BY DEF Placed
    <3>3. OldBytes > 0 => Org(driver) # 0
      BY <3>1, <3>2 DEF DriverInv, OriginOK
    <3>4. Org(driver) = OldBytes \/ Org(driver) = 0
      BY <1>2, <3>2 DEF DriverInv, OriginOK
    <3> QED
      BY <1>2, <1>9, <2>2, <3>3, <3>4 DEF BaseOf
  <2> QED
    BY <1>2, <1>9, <2>1, <2>2
<1>11. s.start = driver.stream.start \/ End(driver) > 0
  <2>1. s.start <= End(driver)
    BY <1>4, <1>5 DEF EndOf
  <2> QED
    BY <1>1, <1>4, <1>5, <2>1
<1>12. GoneOK(c)
  <2>1. driver.over = "no" => c.stream.start - Org(c) <= secured
    <3>1. CASE s.start = driver.stream.start
      BY <1>6, <1>7, <3>1 DEF DriverInv, GoneOK
    <3>2. CASE s.start # driver.stream.start
      BY <1>1, <1>2, <1>4, <1>5, <1>6, <1>7, <1>10, <1>11, <3>2
    <3> QED
      BY <3>1, <3>2
  <2> QED
    BY <1>6, <2>1, Zenon DEF DriverInv, GoneOK
<1>13. RecoverOK(c, Q)
  <2> SUFFICES ASSUME ~late, term = 1
               PROVE  /\ c.over # "unrecoverable" /\ c.stream.start <= durable
                      /\ End(c) > 0 => \A m \in Q : IsReply(m) => c.stream.start <= m.at
    BY DEF RecoverOK
  <2>1. /\ driver.over # "unrecoverable" /\ driver.stream.start <= durable
        /\ End(driver) > 0 => \A m \in Path : IsReply(m) => driver.stream.start <= m.at
    BY DEF DriverInv, RecoverOK
  <2>2. e.id = 1 /\ e.at <= durable
    BY <1>2, <1>9
  <2>3. c.stream.start <= durable
    BY <1>2, <1>4, <1>5, <1>6, <2>1, <2>2
  <2>4. ASSUME End(driver) > 0, NEW m \in Q, IsReply(m) PROVE c.stream.start <= m.at
    <3>1. m \in Messages /\ m.at \in Nat /\ m.id \in Nat
      BY <1>2 DEF Messages
    <3>2. m.id = 1
      BY <1>2, <2>4, <3>1 DEF DriverInv, PathOK, Inert, IsReply
    <3>3. e.at <= m.at
      BY <2>2, <2>4, <3>2 DEF Before, Fits
    <3>4. driver.stream.start <= m.at
      BY <2>1, <2>4
    <3> QED
      BY <1>1, <1>2, <1>4, <1>5, <1>6, <3>1, <3>3, <3>4
  <2> QED
    BY <1>6, <1>7, <2>1, <2>3, <2>4
<1> QED
  BY <1>6, <1>7, <1>8, <1>12, <1>13, DriverCarries

(* A driver that only drew a chunk, or learnt that its owner is gone. *)
LEMMA FedDriver ==
  ASSUME TypeInv, NEW P, DriverInv(driver, P), NEW c \in Drivers,
         c.stream = driver.stream, c.over = "no", driver.over = "no",
         c.closed = driver.closed, ~driver.gone, Taken(c) = Taken(driver),
         Len(c.waiting) <= c.drawn, c.drawn <= shell.written,
         c.gone => shell.exited /\ c.drawn = shell.written,
         \A i \in 1 .. Len(c.waiting) : c.waiting[i] = Taken(c) + i
  PROVE  DriverInv(c, P) /\ End(c) = End(driver) /\ Org(c) = Org(driver)
<1>1. /\ End(c) = End(driver) /\ Org(c) = Org(driver) /\ (Placed(c) <=> Placed(driver))
  BY Zenon DEF End, Org, Placed
<1>2. DriverOK(c)
  BY <1>1 DEF DriverInv, DriverOK
<1>3. GoneOK(c)
  BY <1>1 DEF DriverInv, GoneOK
<1>4. RecoverOK(c, P)
  BY <1>1 DEF DriverInv, RecoverOK
<1>5. P \subseteq P
  OBVIOUS
<1> QED
  BY <1>1, <1>2, <1>3, <1>4, <1>5, DriverCarries

(* The pty's next chunk follows what was drawn before. *)
LEMMA DriverDrawKeeps ==
  ASSUME PublicationInv, NEW n \in 1 .. MaxChunk, DriverDraw(n)
  PROVE  PublicationInv'
<1> USE DEF PublicationInv
<1>1. /\ driver.over = "no" /\ ~driver.gone /\ driver.waiting = << >>
      /\ driver.drawn + n <= shell.written /\ DriverFrame /\ events' = events
  BY DEF DriverDraw, DriverFrame
<1>2. n \in Nat /\ n > 0
  BY BoundsAssumption
<1>3. /\ driver \in Drivers /\ driver.drawn \in Nat /\ shell.written \in Nat
      /\ Taken(driver) \in Nat
  BY DriverNumbers DEF TypeInv, DriverInv, DriverOK
<1>4. Taken(driver) = driver.drawn
  <2>1. Len(driver.waiting) = 0
    BY <1>1
  <2> QED
    BY <1>3, <2>1 DEF Taken
<1>5. PICK w : w = ShellBytes(driver.drawn, driver.drawn + n)
  OBVIOUS
<1>6. w \in Seq(Nat) /\ Len(w) = n /\ \A i \in 1 .. n : w[i] = driver.drawn + i
  <2>1. (driver.drawn + n) - driver.drawn = n
    BY <1>2, <1>3
  <2>2. w = [i \in 1 .. n |-> driver.drawn + i]
    BY <1>5, <2>1 DEF ShellBytes
  <2>3. w \in [1 .. n -> Nat]
    BY <1>2, <1>3, <2>2
  <2>4. w \in Seq(Nat) /\ Len(w) = n
    BY <1>2, <2>3
  <2> QED
    BY <2>2, <2>4
<1>7. PICK c : c = [driver EXCEPT !.drawn = driver.drawn + n, !.waiting = w]
  OBVIOUS
<1>8. Drive(c, << >>)
  BY <1>5, <1>7 DEF DriverDraw
<1>9. driver.drawn + n \in Nat
  BY <1>2, <1>3
<1>10. /\ c \in Drivers /\ c.stream = driver.stream /\ c.waiting = w
       /\ c.drawn = driver.drawn + n /\ c.gone = driver.gone /\ c.over = driver.over
       /\ c.closed = driver.closed
  BY <1>3, <1>6, <1>7, <1>9 DEF Drivers
<1>11. Taken(c) = driver.drawn /\ Len(c.waiting) <= c.drawn
  BY <1>2, <1>3, <1>6, <1>10 DEF Taken
<1>12. DriverInv(c, Path) /\ End(c) = End(driver) /\ Org(c) = Org(driver)
  <2>1. \A i \in 1 .. Len(c.waiting) : c.waiting[i] = Taken(c) + i
    BY <1>6, <1>10, <1>11
  <2>2. c.gone => shell.exited /\ c.drawn = shell.written
    BY <1>1, <1>10
  <2> QED
    BY <1>1, <1>4, <1>10, <1>11, <2>1, <2>2, FedDriver
<1>13. \A m \in Sending : FrameOK(m, End(c), Org(c))
  BY <1>12 DEF FramesInv
<1>14. << >> \in Seq(Messages) /\ \A m \in Elems(<< >>) : FrameOK(m, End(c), Org(c))
  BY ElemsEmpty
<1>15. Path \subseteq Messages
  BY PathType
<1>16. /\ DriverInv(driver', Path) /\ control' \in Seq(Messages)
       /\ \A m \in Elems(control') \cup Elems(up) \cup Elems(stale) :
            FrameOK(m, End(driver'), Org(driver'))
  BY <1>1, <1>8, <1>10, <1>12, <1>13, <1>14, <1>15, DriveKeeps
<1>17. Path' = Path
  BY <1>1 DEF Path, DriverFrame, wireVars
<1>18. events' \in Seq(Messages) /\ Ordered(late, events') /\ Elems(events') \subseteq Elems(events)
  BY <1>1 DEF TypeInv, OrderInv, Ordered
<1> QED
  BY <1>1, <1>16, <1>17, <1>18, DriverFrameKeeps

(* The owner of the shell is gone, and everything was drawn. *)
LEMMA DriverOwnerGoneKeeps ==
  ASSUME PublicationInv, DriverOwnerGone
  PROVE  PublicationInv'
<1> USE DEF PublicationInv
<1>1. /\ driver.over = "no" /\ ~driver.gone /\ driver.waiting = << >>
      /\ shell.exited /\ driver.drawn = shell.written /\ DriverFrame /\ events' = events
  BY DEF DriverOwnerGone, DriverFrame
<1>2. driver \in Drivers /\ DriverOK(driver)
  BY DEF DriverInv, DriverOK
<1>3. PICK c : c = [driver EXCEPT !.gone = TRUE]
  OBVIOUS
<1>4. Drive(c, << >>)
  BY <1>3 DEF DriverOwnerGone
<1>5. /\ c \in Drivers /\ c.stream = driver.stream /\ c.waiting = driver.waiting
      /\ c.drawn = driver.drawn /\ c.over = driver.over /\ c.closed = driver.closed
  BY <1>2, <1>3 DEF Drivers
<1>6. Taken(c) = Taken(driver)
  BY <1>5, Zenon DEF Taken
<1>7. DriverInv(c, Path) /\ End(c) = End(driver) /\ Org(c) = Org(driver)
  <2>1. /\ Len(c.waiting) <= c.drawn /\ c.drawn <= shell.written
        /\ \A i \in 1 .. Len(c.waiting) : c.waiting[i] = Taken(c) + i
    BY <1>2, <1>5, <1>6 DEF DriverOK, DriverInv, GoneOK
  <2> QED
    BY <1>1, <1>5, <1>6, <2>1, FedDriver
<1>8. \A m \in Sending : FrameOK(m, End(c), Org(c))
  BY <1>7 DEF FramesInv
<1>9. << >> \in Seq(Messages) /\ \A m \in Elems(<< >>) : FrameOK(m, End(c), Org(c))
  BY ElemsEmpty
<1>10. Path \subseteq Messages
  BY PathType
<1>11. /\ DriverInv(driver', Path) /\ control' \in Seq(Messages)
       /\ \A m \in Elems(control') \cup Elems(up) \cup Elems(stale) :
            FrameOK(m, End(driver'), Org(driver'))
  BY <1>1, <1>4, <1>5, <1>7, <1>8, <1>9, <1>10, DriveKeeps
<1>12. Path' = Path
  BY <1>1 DEF Path, DriverFrame, wireVars
<1>13. events' \in Seq(Messages) /\ Ordered(late, events') /\ Elems(events') \subseteq Elems(events)
  BY <1>1 DEF TypeInv, OrderInv, Ordered
<1> QED
  BY <1>1, <1>11, <1>12, <1>13, DriverFrameKeeps

LEMMA OrderedTail ==
  ASSUME NEW S, NEW q \in Seq(S), q # << >>, Ordered(late, q)
  PROVE  Ordered(late, Tail(q)) /\ Before(late, {Head(q)}, Elems(Tail(q)))
<1>1. /\ Head(q) = q[1] /\ Len(q) \in Nat /\ Len(q) >= 1
      /\ Len(Tail(q)) = Len(q) - 1 /\ \A i \in 1 .. Len(q) - 1 : Tail(q)[i] = q[i + 1]
  OBVIOUS
<1>2. PICK t : t = Tail(q)
  OBVIOUS
<1> DEFINE n == Len(q)
<1> HIDE DEF n
<1>3. /\ Len(t) = n - 1 /\ \A i \in 1 .. n - 1 : t[i] = q[i + 1] /\ i + 1 \in 1 .. n
      /\ 1 \in 1 .. n
  BY <1>1, <1>2 DEF n
<1>4. ASSUME NEW i \in 1 .. Len(t), NEW j \in 1 .. Len(t), i < j PROVE Fits(late, t[i], t[j])
  <2>1. t[i] = q[i + 1] /\ t[j] = q[j + 1] /\ i + 1 \in 1 .. n /\ j + 1 \in 1 .. n /\ i + 1 < j + 1
    BY <1>3, <1>4
  <2> QED
    BY <2>1 DEF Ordered, n
<1>5. ASSUME NEW i \in 1 .. Len(t) PROVE Fits(late, q[1], t[i])
  <2>1. t[i] = q[i + 1] /\ 1 \in 1 .. n /\ i + 1 \in 1 .. n /\ 1 < i + 1
    BY <1>3
  <2> QED
    BY <2>1 DEF Ordered, n
<1> QED
  BY <1>1, <1>2, <1>4, <1>5 DEF Ordered, Before, Elems

(* What the driver hears first precedes everything else on its way. *)
LEMMA EventHead ==
  ASSUME PublicationInv, events # << >>, events' = Tail(events), down' = down, relay' = relay
  PROVE  /\ Head(events) \in Path /\ Head(events) \in Messages
         /\ Path' \subseteq Path /\ Before(late, {Head(events)}, Path')
         /\ events' \in Seq(Messages) /\ Ordered(late, events') /\ Elems(events') \subseteq Elems(events)
<1>1. PICK e : e = Head(events)
  OBVIOUS
<1>2. events \in Seq(Messages)
  BY DEF PublicationInv, TypeInv
<1>3. /\ e \in Messages /\ events' \in Seq(Messages) /\ e \in Elems(events)
      /\ Elems(events') \subseteq Elems(events)
  BY <1>1, <1>2, ElemsTail
<1>4. Ordered(late, events') /\ Before(late, {e}, Elems(events'))
  BY <1>1, <1>2, OrderedTail DEF PublicationInv, OrderInv
<1>5. e \in Path /\ Path' \subseteq Path
  BY <1>3 DEF Path
<1>6. Before(late, {e}, Path')
  BY <1>3, <1>4 DEF PublicationInv, OrderInv, Before, Path
<1>7. Ordered(late, events')
  BY <1>4 DEF Ordered
<1> QED
  BY <1>1, <1>3, <1>5, <1>6, <1>7

(* Every event the driver can hear. *)
LEMMA DriverEventKeeps ==
  ASSUME PublicationInv, DriverEvent
  PROVE  PublicationInv'
<1> USE DEF PublicationInv
<1>1. /\ driver.over = "no" /\ events # << >> /\ events' = Tail(events) /\ DriverFrame
      /\ down' = down /\ relay' = relay
  BY DEF DriverEvent, DriverFrame, wireVars
<1>2. PICK e, P : e = Head(events) /\ P = Path'
  OBVIOUS
<1>3. /\ e \in Path /\ e \in Messages /\ P \subseteq Path /\ Before(late, {e}, P)
      /\ events' \in Seq(Messages) /\ Ordered(late, events') /\ Elems(events') \subseteq Elems(events)
  BY <1>1, <1>2, EventHead
<1>4. Path \subseteq Messages /\ P \subseteq Messages /\ e.at \in Nat
  <2>1. Path \subseteq Messages
    BY PathType
  <2> QED
    BY <1>3, <2>1 DEF Messages
<1>5. DriverInv(driver, Path) /\ DriverOK(driver) /\ StreamOK(driver.stream, Org(driver))
      /\ End(driver) \in Nat /\ driver \in Drivers
  BY DriverNumbers DEF DriverInv, DriverOK
<1>6. << >> \in Seq(Messages) /\ \A d : \A m \in Elems(<< >>) : FrameOK(m, End(d), Org(d))
  BY ElemsEmpty
<1> DEFINE Goal == /\ DriverInv(driver', P) /\ control' \in Seq(Messages)
                   /\ \A m \in Elems(control') \cup Elems(up) \cup Elems(stale) :
                        FrameOK(m, End(driver'), Org(driver'))
<1>7. ASSUME e.kind = "opened", Resync(Attached(driver.stream, e.at)) PROVE Goal
  <2>1. PICK r : r = Attached(driver.stream, e.at)
    OBVIOUS
  <2>2. CASE End(driver) = 0
    <3>1. /\ StreamOK(r.stream, e.at) /\ r.stream.start = e.at /\ EndOf(r.stream) = e.at
          /\ r.todo = "nothing"
      BY <1>4, <1>5, <2>1, <2>2, AttachedFresh DEF End
    <3>2. PICK c : c = [driver EXCEPT !.stream = r.stream]
      OBVIOUS
    <3>3. Drive(c, << >>)
      BY <1>7, <2>1, <3>1, <3>2 DEF Resync
    <3>4. /\ DriverInv(c, P) /\ c.over = driver.over
          /\ \A m \in Sending : FrameOK(m, End(c), Org(c))
      BY <1>3, <1>7, <2>2, <3>1, <3>2, FreshDriver
    <3> QED
      BY <1>1, <1>4, <1>6, <3>3, <3>4, DriveKeeps
  <2>3. CASE End(driver) > 0
    <3>1. e.at <= End(driver)
      BY <1>3, <1>7, <2>3 DEF DriverInv, PathOK
    <3>2. /\ Aimed(r.stream, driver.stream, Org(driver)) /\ r.at = e.at
          /\ \/ r.todo \in {"nothing", "retransmit"} /\ driver.stream.start <= e.at
             \/ r.todo = "unrecoverable" /\ e.at < driver.stream.start
      BY <1>4, <1>5, <2>1, <2>3, <3>1, AttachedHeld DEF End
    <3>3. ~late /\ term = 1 => driver.stream.start <= e.at
      BY <1>3, <1>7, <2>3 DEF DriverInv, RecoverOK, IsReply
    <3> QED
      BY <1>1, <1>3, <1>4, <1>7, <2>1, <2>3, <3>1, <3>2, <3>3, ResyncKeeps
  <2> QED
    BY <1>5, <2>2, <2>3
<1>8. ASSUME e.kind = "mismatch", Resync(Mismatched(driver.stream, e.at)) PROVE Goal
  <2>1. PICK r : r = Mismatched(driver.stream, e.at)
    OBVIOUS
  <2>2. End(driver) > 0 /\ e.at <= End(driver)
    BY <1>3, <1>8 DEF DriverInv, PathOK
  <2>3. /\ Aimed(r.stream, driver.stream, Org(driver)) /\ r.at = e.at
        /\ \/ r.todo = "nothing"
           \/ r.todo = "retransmit" /\ driver.stream.start <= e.at
           \/ r.todo = "unrecoverable" /\ e.at < driver.stream.start
    BY <1>4, <1>5, <2>1, <2>2, MismatchedHeld DEF End
  <2>4. ~late /\ term = 1 => driver.stream.start <= e.at
    BY <1>3, <1>8, <2>2 DEF DriverInv, RecoverOK, IsReply
  <2> QED
    BY <1>1, <1>3, <1>4, <1>8, <2>1, <2>2, <2>3, <2>4, ResyncKeeps
<1>9. ASSUME e.kind = "ack", Drive([driver EXCEPT !.stream = Acknowledged(@, e.at)], << >>)
      PROVE  Goal
  <2>1. PICK c : c = [driver EXCEPT !.stream = Acknowledged(@, e.at)]
    OBVIOUS
  <2>2. DriverInv(c, P) /\ c.over = driver.over /\ End(c) = End(driver) /\ Org(c) = Org(driver)
    BY <1>3, <1>9, <2>1, AckDriver
  <2>3. \A m \in Sending : FrameOK(m, End(c), Org(c))
    BY <2>2 DEF FramesInv
  <2> QED
    BY <1>1, <1>4, <1>6, <1>9, <2>1, <2>2, <2>3, DriveKeeps
<1>10. ASSUME e.kind = "detached", Drive([driver EXCEPT !.stream = Detached(@)], << >>)
       PROVE  Goal
  <2>1. PICK s, c : s = Detached(driver.stream) /\ c = [driver EXCEPT !.stream = s]
    OBVIOUS
  <2>2. Aimed(s, driver.stream, Org(driver)) /\ ~s.positioned
    BY <1>5, <2>1, DetachedAimed
  <2>3. DriverInv(c, P) /\ c.over = driver.over /\ End(c) = End(driver) /\ Org(c) = Org(driver)
    <3>1. s.positioned => driver.stream.positioned
      BY <2>2
    <3>2. c = [driver EXCEPT !.stream = s]
      BY <2>1
    <3> HIDE DEF PublicationInv
    <3> QED
      <4>1. DriverInv(driver, Path) /\ P \subseteq Path
        BY <1>3, <1>5
      <4>2. Aimed(s, driver.stream, Org(driver))
        BY <2>2
      <4> QED
        BY <3>1, <3>2, <4>1, <4>2, AimedDriver, SMTT(30)
  <2>4. \A m \in Sending : FrameOK(m, End(c), Org(c))
    BY <2>3 DEF FramesInv
  <2> QED
    BY <1>1, <1>4, <1>6, <1>10, <2>1, <2>3, <2>4, DriveKeeps
<1>11. ASSUME e.kind = "ended", Finish(driver, "ended") PROVE Goal
  <2>1. DriverInv(driver, P)
    <3>1. RecoverOK(driver, P)
      BY <1>3 DEF DriverInv, RecoverOK
    <3> QED
      BY <1>3, <1>5, <3>1, DriverCarries DEF DriverInv
  <2>2. \A m \in Sending : FrameOK(m, End(driver), Org(driver))
    BY DEF FramesInv
  <2> QED
    BY <1>11, <2>1, <2>2, FinishKeeps
<1>12. Goal
  BY <1>2, <1>7, <1>8, <1>9, <1>10, <1>11 DEF DriverEvent
<1> QED
  BY <1>1, <1>2, <1>3, <1>12, DriverFrameKeeps

-----------------------------------------------------------------------------
(* The connection, between the driver and the relay *)

Muxes == [connected : BOOLEAN, hosted : BOOLEAN, terminal_id : Nat, closing : BOOLEAN,
          listed : Nat, missed : BOOLEAN]
Sessions == [open : BOOLEAN, reply : Messages, acked : Nat]

LEMMA OrderedJoin ==
  ASSUME NEW S, NEW q \in Seq(S), NEW r \in Seq(S), Ordered(late, q), Ordered(late, r),
         Before(late, Elems(q), Elems(r))
  PROVE  Ordered(late, q \o r)
<1>1. PICK j : j = q \o r
  OBVIOUS
<1>2. /\ Len(j) = Len(q) + Len(r) /\ Len(q) \in Nat /\ Len(r) \in Nat
      /\ \A i \in 1 .. Len(q) : j[i] = q[i]
      /\ \A i \in 1 .. Len(r) : j[Len(q) + i] = r[i]
  BY <1>1, Joined
<1>3. ASSUME NEW i \in 1 .. Len(j), NEW k \in 1 .. Len(j), i < k PROVE Fits(late, j[i], j[k])
  <2>1. i \in 1 .. Len(q) + Len(r) /\ k \in 1 .. Len(q) + Len(r)
    BY <1>2
  <2>2. ASSUME NEW n \in 1 .. Len(j), ~(n <= Len(q))
        PROVE  \E x \in 1 .. Len(r) : n = Len(q) + x /\ j[n] = r[x]
    <3>1. n \in 1 .. Len(q) + Len(r)
      BY <1>2
    <3>2. n - Len(q) \in 1 .. Len(r) /\ n = Len(q) + (n - Len(q))
      BY <1>2, <2>2, <3>1
    <3> QED
      BY <1>2, <3>2
  <2>3. CASE k <= Len(q)
    <3>1. i \in 1 .. Len(q) /\ k \in 1 .. Len(q)
      BY <1>2, <1>3, <2>1, <2>3
    <3> QED
      BY <1>2, <1>3, <3>1 DEF Ordered
  <2>4. CASE i <= Len(q) /\ ~(k <= Len(q))
    <3>1. i \in 1 .. Len(q)
      BY <1>2, <2>1, <2>4
    <3>2. PICK x \in 1 .. Len(r) : k = Len(q) + x /\ j[k] = r[x]
      BY <2>2, <2>4
    <3> QED
      BY <1>2, <3>1, <3>2 DEF Before, Elems
  <2>5. CASE ~(i <= Len(q)) /\ ~(k <= Len(q))
    <3>1. PICK x \in 1 .. Len(r) : i = Len(q) + x /\ j[i] = r[x]
      BY <2>2, <2>5
    <3>2. PICK y \in 1 .. Len(r) : k = Len(q) + y /\ j[k] = r[y]
      BY <2>2, <2>5
    <3>3. x < y
      BY <1>2, <1>3, <3>1, <3>2
    <3> QED
      BY <3>1, <3>2, <3>3 DEF Ordered
  <2> QED
    BY <1>2, <1>3, <2>1, <2>3, <2>4, <2>5
<1> QED
  BY <1>1, <1>3 DEF Ordered

LEMMA InertFits ==
  ASSUME NEW x, NEW y, Inert(x) \/ Inert(y)
  PROVE  Fits(late, x, y)
  BY DEF Inert, Fits, New, Old, IsReply

(* Telling the driver: a FIFO that drops what a finished driver would not  *)
(* read.                                                                   *)
LEMMA ToldKeeps ==
  ASSUME NEW q \in Seq(Messages), Ordered(late, q), NEW e \in Messages, Before(late, Elems(q), {e})
  PROVE  /\ q \o Told(e) \in Seq(Messages) /\ Ordered(late, q \o Told(e))
         /\ Elems(q \o Told(e)) \subseteq Elems(q) \cup {e}
         /\ Told(e) \in Seq(Messages) /\ Elems(Told(e)) \subseteq {e}
<1>1. PICK t, r : t = Told(e) /\ r = q \o t
  OBVIOUS
<1>2. t \in Seq(Messages) /\ Elems(t) \subseteq {e} /\ Ordered(late, t)
  <2>1. CASE driver.over = "no"
    <3>1. t = <<e>>
      BY <1>1, <2>1 DEF Told
    <3>2. t \in Seq(Messages) /\ Len(t) = 1 /\ t[1] = e
      BY <3>1
    <3> QED
      BY <3>2 DEF Elems, Ordered
  <2>2. CASE driver.over # "no"
    <3>1. t = << >>
      BY <1>1, <2>2 DEF Told
    <3>2. t \in Seq(Messages) /\ Len(t) = 0
      BY <3>1
    <3> QED
      BY <3>2 DEF Elems, Ordered
  <2> QED
    BY <2>1, <2>2
<1>3. Before(late, Elems(q), Elems(t))
  BY <1>2 DEF Before
<1>4. r \in Seq(Messages) /\ Elems(r) = Elems(q) \cup Elems(t)
  BY <1>1, <1>2, ElemsJoin
<1>5. Ordered(late, r)
  BY <1>1, <1>2, <1>3, OrderedJoin
<1>6. Elems(r) \subseteq Elems(q) \cup {e}
  BY <1>2, <1>4
<1> QED
  BY <1>1, <1>2, <1>4, <1>5, <1>6, Zenon

LEMMA PlainMsg ==
  ASSUME NEW kind \in Kinds, NEW id \in Nat
  PROVE  Plain(kind, id) \in Messages /\ Plain(kind, id).kind = kind
<1>1. 0 \in Nat /\ << >> \in Seq(Nat)
  OBVIOUS
<1>2. Plain(kind, id) \in Messages
  BY <1>1, MsgType, Zenon DEF Plain
<1> QED
  BY <1>2 DEF Plain, Msg

LEMMA EndedMsg == Ended \in Messages /\ Inert(Ended) /\ NoReply \in Messages /\ Inert(NoReply)
<1>1. 0 \in Nat /\ "ended" \in Kinds /\ "none" \in Kinds
  BY DEF Kinds
<1>2. Ended \in Messages /\ Ended.kind = "ended" /\ NoReply \in Messages /\ NoReply.kind = "none"
  BY <1>1, PlainMsg DEF Ended, NoReply, NoTerminal
<1> QED
  BY <1>2 DEF Inert

LEMMA InertBefore ==
  ASSUME NEW S, NEW e, Inert(e)
  PROVE  Before(late, S, {e}) /\ Before(late, {e}, S)
  BY InertFits DEF Before

LEMMA ToldEnded ==
  ASSUME NEW q \in Seq(Messages), Ordered(late, q)
  PROVE  /\ q \o Told(Ended) \in Seq(Messages) /\ Ordered(late, q \o Told(Ended))
         /\ Elems(q \o Told(Ended)) \subseteq Elems(q) \cup {Ended}
<1>1. PICK e : e = Ended
  OBVIOUS
<1>2. e \in Messages /\ Before(late, Elems(q), {e})
  BY <1>1, EndedMsg, InertBefore
<1>3. /\ q \o Told(e) \in Seq(Messages) /\ Ordered(late, q \o Told(e))
      /\ Elems(q \o Told(e)) \subseteq Elems(q) \cup {e}
  BY <1>2, ToldKeeps
<1> QED
  BY <1>1, <1>3, Zenon

(* close_finished tells the relay and the driver of a close, no more. *)
LEMMA CloseFinishedKeeps ==
  ASSUME TypeInv, NEW m \in Muxes, NEW sent \in Seq(Messages), NEW told \in Seq(Messages),
         Ordered(late, events \o told), CloseFinished(m, sent, told)
  PROVE  /\ mux' \in Muxes /\ up' \in Seq(Messages) /\ events' \in Seq(Messages)
         /\ Ordered(late, events')
         /\ \A x \in Elems(up') : x \in Elems(up) \cup Elems(sent) \/ x.kind = "close"
         /\ \A x \in Elems(events') : x \in Elems(events) \cup Elems(told) \/ Inert(x)
<1>1. up \in Seq(Messages) /\ events \in Seq(Messages)
  BY DEF TypeInv
<1>2. PICK u, v : u = up \o sent /\ v = events \o told
  OBVIOUS
<1>3. /\ u \in Seq(Messages) /\ Elems(u) = Elems(up) \cup Elems(sent)
      /\ v \in Seq(Messages) /\ Elems(v) = Elems(events) \cup Elems(told) /\ Ordered(late, v)
  BY <1>1, <1>2, ElemsJoin
<1>4. CASE m.closing /\ Attachment(m)
  <2>1. PICK c : c = Plain("close", m.terminal_id)
    OBVIOUS
  <2>2. /\ mux' = Forgotten(m) /\ up' = Append(u, c) /\ events' = v \o Told(Ended)
    BY <1>2, <1>4, <2>1 DEF CloseFinished
  <2>3. mux' \in Muxes
    BY <2>2 DEF Forgotten, Muxes, NoTerminal
  <2>4. c \in Messages /\ c.kind = "close"
    <3>1. "close" \in Kinds /\ m.terminal_id \in Nat
      BY DEF Kinds, Muxes
    <3> QED
      BY <2>1, <3>1, PlainMsg
  <2>5. up' \in Seq(Messages) /\ Elems(up') = Elems(u) \cup {c}
    BY <1>3, <2>2, <2>4, ElemsAppend
  <2>6. events' \in Seq(Messages) /\ Ordered(late, events') /\ Elems(events') \subseteq Elems(v) \cup {Ended}
    BY <1>3, <2>2, ToldEnded
  <2>7. Ordered(late, events')
    BY <2>6 DEF Ordered
  <2>8. \A x \in Elems(up') : x \in Elems(up) \cup Elems(sent) \/ x.kind = "close"
    BY <1>3, <2>4, <2>5
  <2>9. \A x \in Elems(events') : x \in Elems(events) \cup Elems(told) \/ Inert(x)
    BY <1>3, <2>6, EndedMsg
  <2> QED
    BY <2>3, <2>5, <2>6, <2>7, <2>8, <2>9
<1>5. CASE ~(m.closing /\ Attachment(m))
  <2>1. mux' = m /\ up' = u /\ events' = v
    BY <1>2, <1>5 DEF CloseFinished
  <2>2. Ordered(late, events')
    BY <1>3, <2>1 DEF Ordered
  <2> QED
    BY <1>3, <2>1, <2>2
<1> QED
  BY <1>4, <1>5

(* A step between the two ends: nothing new is said, and nothing changes   *)
(* places.                                                                 *)
LEMMA WireKeeps ==
  ASSUME PublicationInv,
         shell' = shell, driver' = driver, term' = term, log' = log, durable' = durable,
         secured' = secured, late' = late,
         control' \in Seq(Messages), events' \in Seq(Messages), up' \in Seq(Messages),
         down' \in Seq(Messages), stale' \in Seq(Messages), mux' \in Muxes, relay' \in Sessions,
         \A m \in Path' : m \in Path \/ Inert(m),
         OrderInv',
         \A m \in Sending' : FrameOK(m, End(driver), Org(driver)),
         relay'.reply = relay.reply \/ Inert(relay'.reply)
  PROVE  PublicationInv'
<1> USE DEF PublicationInv
<1>1. TypeInv'
  BY DEF TypeInv, Muxes, Sessions
<1>2. DriverInv(driver, Path)'
  <2>1. DriverOK(driver)' /\ PlaceOK(driver)' /\ GoneOK(driver)'
    BY DEF DriverInv, DriverOK, PlaceOK, GoneOK, Taken, End, Org, Base
  <2>2. OriginOK(driver, Path)'
    <3>1. \A m : Inert(m) => ~Old(m)
      BY DEF Inert, Old
    <3>2. OriginOK(driver, Path)
      BY DEF DriverInv
    <3> HIDE DEF PublicationInv
    <3> QED
      BY <3>1, <3>2 DEF OriginOK, Placed, End, Org, Taken, Old
  <2>3. RecoverOK(driver, Path)'
    <3>1. \A m : Inert(m) => ~IsReply(m)
      BY DEF Inert, IsReply
    <3>2. RecoverOK(driver, Path)
      BY DEF DriverInv
    <3> HIDE DEF PublicationInv
    <3> QED
      BY <3>1, <3>2 DEF RecoverOK, End, IsReply
  <2>4. ASSUME NEW m \in Path' PROVE PathOK(m, driver)'
    <3>1. CASE m \in Path
      <4>1. PathOK(m, driver)
        BY <3>1 DEF DriverInv
      <4> QED
        BY <4>1 DEF PathOK, End, Org, Taken, BaseOf, Inert
    <3>2. CASE Inert(m)
      BY <3>2 DEF PathOK, Inert
    <3> QED
      BY <3>1, <3>2
  <2> QED
    BY <2>1, <2>2, <2>3, <2>4 DEF DriverInv
<1>3. TermInv'
  BY DEF TermInv, Base
<1>4. FramesInv'
  BY DEF FramesInv, FrameOK, End, Org, Taken
<1>5. ReplyInv'
  BY DEF ReplyInv, Inert, IsReply
<1> QED
  BY <1>1, <1>2, <1>3, <1>4, <1>5

LEMMA OrderInert ==
  ASSUME PublicationInv, late' = late, Ordered(late, events'), Ordered(late, down'),
         \A x \in Elems(events') : x \in Elems(events) \/ Inert(x),
         \A x \in Elems(down') : x \in Elems(down) \/ Inert(x),
         relay'.reply = relay.reply \/ Inert(relay'.reply)
  PROVE  OrderInv' /\ \A m \in Path' : m \in Path \/ Inert(m)
<1>1. Before(late, Elems(events'), Elems(down'))
  BY InertFits DEF PublicationInv, OrderInv, Before
<1>2. Before(late, Elems(events') \cup Elems(down'), {relay'.reply})
  BY InertFits DEF PublicationInv, OrderInv, Before
<1>3. OrderInv'
  BY <1>1, <1>2 DEF OrderInv, Before, Fits
<1>4. \A m \in Path' : m \in Path \/ Inert(m)
  BY DEF Path
<1> QED
  BY <1>3, <1>4

(* What the relay's answers are, while nothing is said or heard. *)
LEMMA PathStands ==
  ASSUME PublicationInv, events' = events, down' = down, relay' = relay, late' = late
  PROVE  OrderInv' /\ \A m \in Path' : m \in Path \/ Inert(m)
<1>1. Ordered(late, events') /\ Ordered(late, down')
  BY DEF PublicationInv, OrderInv, Ordered
<1> QED
  BY <1>1, OrderInert

LEMMA WireTypes ==
  ASSUME PublicationInv
  PROVE  /\ control \in Seq(Messages) /\ events \in Seq(Messages) /\ up \in Seq(Messages)
         /\ down \in Seq(Messages) /\ stale \in Seq(Messages)
         /\ mux \in Muxes /\ relay \in Sessions
         /\ Ordered(late, events) /\ Ordered(late, down)
  BY DEF PublicationInv, TypeInv, ReplyInv, OrderInv, Muxes, Sessions

LEMMA CloseFrame ==
  ASSUME NEW m, m.kind # "output", NEW e, NEW b
  PROVE  FrameOK(m, e, b)
  BY DEF FrameOK

(* on_control: the terminal's id is filled in. *)
LEMMA ForwardKeeps ==
  ASSUME PublicationInv, Forward
  PROVE  PublicationInv'
<1>1. /\ control # << >> /\ control' = Tail(control) /\ shell' = shell /\ driver' = driver
      /\ down' = down /\ stale' = stale /\ relay' = relay /\ term' = term /\ log' = log
      /\ durable' = durable /\ secured' = secured /\ late' = late
  BY DEF Forward, logVars
<1>2. PICK c : c = Head(control)
  OBVIOUS
<1>3. /\ control \in Seq(Messages) /\ events \in Seq(Messages) /\ up \in Seq(Messages)
      /\ down \in Seq(Messages) /\ stale \in Seq(Messages) /\ mux \in Muxes
      /\ relay \in Sessions /\ Ordered(late, events) /\ Ordered(late, down)
  BY WireTypes
<1>4. /\ c \in Messages /\ c \in Elems(control) /\ control' \in Seq(Messages)
      /\ Elems(control') \subseteq Elems(control)
  BY <1>1, <1>2, <1>3, ElemsTail
<1>5. \A m \in Sending : FrameOK(m, End(driver), Org(driver))
  BY DEF PublicationInv, FramesInv
<1>6. TypeInv
  BY DEF PublicationInv
<1>7. PICK m, sent, told :
        /\ CloseFinished(m, sent, told) /\ m \in Muxes
        /\ sent \in Seq(Messages) /\ told \in Seq(Messages)
        /\ \A x \in Elems(sent) : FrameOK(x, End(driver), Org(driver))
        /\ \A x \in Elems(told) : Inert(x)
        /\ Ordered(late, told)
  <2>0. << >> \in Seq(Messages) /\ Elems(<< >>) = {} /\ Ordered(late, << >>)
    BY ElemsEmpty DEF Ordered
  <2>1. CASE c.kind = "output" /\
             CloseFinished(mux, IF Attachment(mux) THEN <<[c EXCEPT !.id = mux.terminal_id]>>
                                                   ELSE << >>, << >>)
    <3>1. PICK n : n = [c EXCEPT !.id = mux.terminal_id]
      OBVIOUS
    <3>2. n \in Messages /\ n.kind = c.kind /\ n.at = c.at /\ n.bytes = c.bytes
      <4>1. mux.terminal_id \in Nat
        BY <1>3 DEF Muxes
      <4> QED
        BY <1>4, <3>1, <4>1 DEF Messages
    <3>3. FrameOK(n, End(driver), Org(driver))
      <4>1. FrameOK(c, End(driver), Org(driver))
        BY <1>4, <1>5 DEF Sending
      <4> QED
        BY <3>2, <4>1, Zenon DEF FrameOK
    <3>4. <<n>> \in Seq(Messages) /\ Elems(<<n>>) = {n}
      <4>1. PICK t : t = <<n>>
        OBVIOUS
      <4>2. t \in Seq(Messages) /\ Len(t) = 1 /\ t[1] = n
        BY <3>2, <4>1
      <4> QED
        BY <4>1, <4>2 DEF Elems
    <3>5. CASE Attachment(mux)
      <4>1. CloseFinished(mux, <<n>>, << >>)
        BY <2>1, <3>1, <3>5
      <4> QED
        BY <1>3, <2>0, <3>3, <3>4, <4>1
    <3>6. CASE ~Attachment(mux)
      <4>1. CloseFinished(mux, << >>, << >>)
        BY <2>1, <3>6
      <4> QED
        BY <1>3, <2>0, <4>1
    <3> QED
      BY <3>5, <3>6
  <2>2. CASE c.kind = "close" /\
             CloseFinished([mux EXCEPT !.closing = mux.hosted], << >>,
                           IF mux.hosted THEN Told(Ended) ELSE << >>)
    <3>1. PICK m : m = [mux EXCEPT !.closing = mux.hosted]
      OBVIOUS
    <3>2. m \in Muxes
      BY <1>3, <3>1 DEF Muxes
    <3>3. CASE mux.hosted
      <4>1. CloseFinished(m, << >>, Told(Ended))
        BY <2>2, <3>1, <3>3
      <4>2. Before(late, {}, {Ended})
        BY DEF Before
      <4>3. /\ Told(Ended) \in Seq(Messages) /\ Elems(Told(Ended)) \subseteq {Ended}
        BY <2>0, <4>2, EndedMsg, ToldKeeps
      <4>4. Ordered(late, Told(Ended))
        <5>1. \A i, j \in 1 .. Len(Told(Ended)) : Inert(Told(Ended)[i])
          BY <4>3, EndedMsg DEF Elems
        <5> QED
          BY <5>1, InertFits DEF Ordered
      <4> QED
        BY <2>0, <3>2, <4>1, <4>3, <4>4, EndedMsg
    <3>4. CASE ~mux.hosted
      <4>1. CloseFinished(m, << >>, << >>)
        BY <2>2, <3>1, <3>4
      <4> QED
        BY <2>0, <3>2, <4>1
    <3> QED
      BY <3>3, <3>4
  <2> QED
    BY <1>2, <2>1, <2>2 DEF Forward
<1>8. Ordered(late, events \o told)
  <2>1. Before(late, Elems(events), Elems(told))
    BY <1>7, InertFits DEF Before
  <2> QED
    BY <1>3, <1>7, <2>1, OrderedJoin
<1>9. /\ mux' \in Muxes /\ up' \in Seq(Messages) /\ events' \in Seq(Messages) /\ Ordered(late, events')
      /\ \A x \in Elems(up') : x \in Elems(up) \cup Elems(sent) \/ x.kind = "close"
      /\ \A x \in Elems(events') : x \in Elems(events) \cup Elems(told) \/ Inert(x)
  BY <1>6, <1>7, <1>8, CloseFinishedKeeps
<1>10. Ordered(late, down')
  BY <1>1, <1>3 DEF Ordered
<1>11. OrderInv' /\ \A x \in Path' : x \in Path \/ Inert(x)
  <2>1. \A x \in Elems(events') : x \in Elems(events) \/ Inert(x)
    BY <1>7, <1>9
  <2> QED
    BY <1>1, <1>9, <1>10, <2>1, OrderInert
<1>12. \A x \in Sending' : FrameOK(x, End(driver), Org(driver))
  BY <1>1, <1>4, <1>5, <1>7, <1>9, CloseFrame DEF Sending
<1> QED
  BY <1>1, <1>3, <1>4, <1>9, <1>11, <1>12, WireKeeps

(* stash: output is dropped, a close remembered. *)
LEMMA StashKeeps ==
  ASSUME PublicationInv, Stash
  PROVE  PublicationInv'
<1>1. /\ control # << >> /\ control' = Tail(control) /\ shell' = shell /\ driver' = driver
      /\ up' = up /\ down' = down /\ stale' = stale /\ relay' = relay /\ term' = term
      /\ log' = log /\ durable' = durable /\ secured' = secured /\ late' = late
  BY DEF Stash, logVars, wireVars
<1>2. /\ control \in Seq(Messages) /\ events \in Seq(Messages) /\ up \in Seq(Messages)
      /\ down \in Seq(Messages) /\ stale \in Seq(Messages) /\ mux \in Muxes
      /\ relay \in Sessions /\ Ordered(late, events) /\ Ordered(late, down)
  BY WireTypes
<1>3. control' \in Seq(Messages) /\ Elems(control') \subseteq Elems(control)
  BY <1>1, <1>2, ElemsTail
<1>4. /\ events' \in Seq(Messages) /\ Ordered(late, events') /\ mux' \in Muxes
      /\ \A x \in Elems(events') : x \in Elems(events) \/ Inert(x)
  <2>1. CASE events' = events \o Told(Ended) /\ mux' = [mux EXCEPT !.closing = TRUE]
    <3>1. /\ events' \in Seq(Messages) /\ Ordered(late, events')
          /\ Elems(events') \subseteq Elems(events) \cup {Ended}
      BY <1>2, <2>1, ToldEnded
    <3>2. mux' \in Muxes
      BY <1>2, <2>1 DEF Muxes
    <3> QED
      BY <3>1, <3>2, EndedMsg
  <2>2. CASE UNCHANGED <<mux, events>>
    BY <1>2, <2>2
  <2> QED
    BY <2>1, <2>2 DEF Stash
<1>5. Ordered(late, events') /\ Ordered(late, down')
  BY <1>1, <1>2, <1>4 DEF Ordered
<1>6. OrderInv' /\ \A x \in Path' : x \in Path \/ Inert(x)
  BY <1>1, <1>4, <1>5, OrderInert
<1>7. \A x \in Sending' : FrameOK(x, End(driver), Org(driver))
  BY <1>1, <1>3 DEF Sending, PublicationInv, FramesInv
<1> QED
  BY <1>1, <1>2, <1>3, <1>4, <1>6, <1>7, WireKeeps

LEMMA OrderedAppend ==
  ASSUME NEW S, NEW q \in Seq(S), NEW x \in S, Ordered(late, q), Before(late, Elems(q), {x})
  PROVE  Ordered(late, Append(q, x))
<1>1. PICK a : a = Append(q, x)
  OBVIOUS
<1>2. /\ Len(a) = Len(q) + 1 /\ Len(q) \in Nat
      /\ \A i \in 1 .. Len(q) : a[i] = q[i]
      /\ a[Len(q) + 1] = x
  BY <1>1
<1>3. ASSUME NEW i \in 1 .. Len(a), NEW k \in 1 .. Len(a), i < k PROVE Fits(late, a[i], a[k])
  <2>1. i \in 1 .. Len(q) /\ a[i] = q[i] /\ (k \in 1 .. Len(q) \/ k = Len(q) + 1)
    BY <1>2, <1>3
  <2>2. CASE k \in 1 .. Len(q)
    BY <1>2, <1>3, <2>1, <2>2 DEF Ordered
  <2>3. CASE k = Len(q) + 1
    BY <1>2, <2>1, <2>3 DEF Before, Elems
  <2> QED
    BY <2>1, <2>2, <2>3
<1> QED
  BY <1>1, <1>3 DEF Ordered

(* on_frame: an answer is passed on, or dropped. *)
LEMMA ReceiveKeeps ==
  ASSUME PublicationInv, Receive
  PROVE  PublicationInv'
<1>1. /\ down # << >> /\ down' = Tail(down) /\ shell' = shell /\ driver' = driver
      /\ control' = control /\ stale' = stale /\ relay' = relay /\ term' = term /\ log' = log
      /\ durable' = durable /\ secured' = secured /\ late' = late
  BY DEF Receive, logVars
<1>2. PICK r : r = Head(down)
  OBVIOUS
<1>3. /\ control \in Seq(Messages) /\ events \in Seq(Messages) /\ up \in Seq(Messages)
      /\ down \in Seq(Messages) /\ stale \in Seq(Messages) /\ mux \in Muxes
      /\ relay \in Sessions /\ Ordered(late, events) /\ Ordered(late, down)
  BY WireTypes
<1>4. /\ r \in Messages /\ r \in Elems(down) /\ down' \in Seq(Messages) /\ r.id \in Nat
      /\ Elems(down') \subseteq Elems(down)
  <2>1. /\ r \in Messages /\ r \in Elems(down) /\ down' \in Seq(Messages)
        /\ Elems(down') \subseteq Elems(down)
    BY <1>1, <1>2, <1>3, ElemsTail
  <2> QED
    BY <2>1 DEF Messages
<1>5. Ordered(late, down') /\ Before(late, {r}, Elems(down'))
  BY <1>1, <1>2, <1>3, OrderedTail
<1>6. Before(late, Elems(events), {r}) /\ Before(late, {r}, {relay.reply})
  BY <1>4 DEF PublicationInv, OrderInv, Before
<1>7. TypeInv
  BY DEF PublicationInv
<1>8. /\ events \o Told(r) \in Seq(Messages) /\ Ordered(late, events \o Told(r))
      /\ Elems(events \o Told(r)) \subseteq Elems(events) \cup {r}
      /\ Told(r) \in Seq(Messages) /\ Elems(Told(r)) \subseteq {r}
  BY <1>3, <1>4, <1>6, ToldKeeps
<1> DEFINE Passed ==
             /\ mux' \in Muxes /\ up' \in Seq(Messages) /\ events' \in Seq(Messages)
             /\ Ordered(late, events')
             /\ \A x \in Elems(up') : x \in Elems(up) \/ x.kind = "close"
             /\ \A x \in Elems(events') : x \in Elems(events) \/ x = r \/ Inert(x)
<1>9. Passed
  <2>1. CASE UNCHANGED <<mux, up, events>>
    BY <1>3, <2>1
  <2>2. ASSUME NEW m, m = [mux EXCEPT !.terminal_id = r.id,
                                     !.listed = IF r.id = @ THEN NoTerminal ELSE @],
               CloseFinished(m, << >>, Told(r))
        PROVE  Passed
    <3>1. m \in Muxes
      BY <1>3, <1>4, <2>2 DEF Muxes, NoTerminal
    <3>2. << >> \in Seq(Messages) /\ Elems(<< >>) = {}
      BY ElemsEmpty
    <3>3. /\ mux' \in Muxes /\ up' \in Seq(Messages) /\ events' \in Seq(Messages)
          /\ Ordered(late, events')
          /\ \A x \in Elems(up') : x \in Elems(up) \cup Elems(<< >>) \/ x.kind = "close"
          /\ \A x \in Elems(events') : x \in Elems(events) \cup Elems(Told(r)) \/ Inert(x)
      BY <1>7, <1>8, <2>2, <3>1, <3>2, CloseFinishedKeeps
    <3>4. Ordered(late, events')
      BY <3>3 DEF Ordered
    <3> QED
      BY <1>8, <3>2, <3>3, <3>4
  <2>3. ASSUME events' = IF mux.terminal_id = r.id THEN events \o Told(r) ELSE events,
               mux' = IF r.kind = "ack" THEN [mux EXCEPT !.missed = mux.terminal_id # r.id]
                      ELSE mux,
               up' = up
        PROVE  Passed
    <3>1. mux' \in Muxes
      BY <1>3, <2>3 DEF Muxes
    <3> QED
      BY <1>3, <1>8, <2>3, <3>1
  <2>4. ASSUME mux' = Forgotten(mux), up' = Append(up, Plain("close", r.id)),
               events' = events \o Told(Ended)
        PROVE  Passed
    <3>1. mux' \in Muxes
      BY <1>3, <2>4 DEF Muxes, Forgotten, NoTerminal
    <3>2. Plain("close", r.id) \in Messages /\ Plain("close", r.id).kind = "close"
      <4>1. "close" \in Kinds
        BY DEF Kinds
      <4> QED
        BY <1>4, <4>1, PlainMsg
    <3>3. up' \in Seq(Messages) /\ \A x \in Elems(up') : x \in Elems(up) \/ x.kind = "close"
      BY <1>3, <2>4, <3>2, ElemsAppend
    <3>4. /\ events' \in Seq(Messages) /\ Ordered(late, events')
          /\ Elems(events') \subseteq Elems(events) \cup {Ended}
      BY <1>3, <2>4, ToldEnded
    <3> QED
      BY <3>1, <3>3, <3>4, EndedMsg
  <2>5. ASSUME mux' = Forgotten(mux), up' = up, events' = events \o Told(Ended)
        PROVE  Passed
    <3>1. mux' \in Muxes
      BY <1>3, <2>5 DEF Muxes, Forgotten, NoTerminal
    <3>2. /\ events' \in Seq(Messages) /\ Ordered(late, events')
          /\ Elems(events') \subseteq Elems(events) \cup {Ended}
      BY <1>3, <2>5, ToldEnded
    <3> QED
      BY <1>3, <2>5, <3>1, <3>2, EndedMsg
  <2> HIDE DEF Passed
  <2>6. CASE r.kind = "opened"
    <3>1. \/ UNCHANGED <<mux, up, events>>
          \/ CloseFinished([mux EXCEPT !.terminal_id = r.id,
                                       !.listed = IF r.id = @ THEN NoTerminal ELSE @],
                           << >>, Told(r))
      BY <1>2, <2>6 DEF Receive
    <3> QED
      BY <2>1, <2>2, <3>1
  <2>7. CASE r.kind \in {"ack", "mismatch"}
    BY <1>2, <2>3, <2>7 DEF Receive
  <2>8. CASE r.kind = "refused"
    BY <1>2, <2>1, <2>4, <2>8 DEF Receive
  <2>9. CASE r.kind = "unopened"
    BY <1>2, <2>1, <2>5, <2>9 DEF Receive
  <2> QED
    BY <1>2, <2>6, <2>7, <2>8, <2>9 DEF Receive
<1>10. OrderInv'
  <2>1. Before(late, Elems(events'), Elems(down'))
    BY <1>4, <1>5, <1>9, InertFits DEF PublicationInv, OrderInv, Before
  <2>2. Before(late, Elems(events') \cup Elems(down'), {relay'.reply})
    BY <1>1, <1>4, <1>6, <1>9, InertFits DEF PublicationInv, OrderInv, Before
  <2> QED
    BY <1>1, <1>5, <1>9, <2>1, <2>2 DEF OrderInv
<1>11. \A x \in Path' : x \in Path \/ Inert(x)
  BY <1>1, <1>4, <1>9 DEF Path
<1>12. \A x \in Sending' : FrameOK(x, End(driver), Org(driver))
  BY <1>1, <1>9, CloseFrame DEF Sending, PublicationInv, FramesInv
<1> QED
  BY <1>1, <1>3, <1>4, <1>9, <1>10, <1>11, <1>12, WireKeeps

(* The reply is written behind what the ack task has written. *)
LEMMA RelayRepliesKeeps ==
  ASSUME PublicationInv, RelayReplies
  PROVE  PublicationInv'
<1>1. /\ down' = Append(down, relay.reply) /\ relay' = [relay EXCEPT !.reply = NoReply]
      /\ shell' = shell /\ driver' = driver /\ events' = events /\ mux' = mux /\ up' = up
      /\ control' = control /\ stale' = stale /\ term' = term /\ log' = log
      /\ durable' = durable /\ secured' = secured /\ late' = late
  BY DEF RelayReplies, logVars, pubVars
<1>2. /\ control \in Seq(Messages) /\ events \in Seq(Messages) /\ up \in Seq(Messages)
      /\ down \in Seq(Messages) /\ stale \in Seq(Messages) /\ mux \in Muxes
      /\ relay \in Sessions /\ Ordered(late, events) /\ Ordered(late, down)
  BY WireTypes
<1>3. relay.reply \in Messages /\ relay' \in Sessions /\ relay'.reply = NoReply
  BY <1>1, <1>2, EndedMsg DEF Sessions
<1>4. down' \in Seq(Messages) /\ Elems(down') = Elems(down) \cup {relay.reply}
  BY <1>1, <1>2, <1>3, ElemsAppend
<1>5. Before(late, Elems(down), {relay.reply})
  BY DEF PublicationInv, OrderInv, Before
<1>6. Ordered(late, down')
  BY <1>1, <1>2, <1>3, <1>5, OrderedAppend
<1>7. OrderInv'
  <2>1. Before(late, Elems(events'), Elems(down'))
    BY <1>1, <1>4 DEF PublicationInv, OrderInv, Before
  <2>2. Before(late, Elems(events') \cup Elems(down'), {relay'.reply})
    BY <1>3, EndedMsg, InertBefore
  <2> QED
    BY <1>1, <1>2, <1>6, <2>1, <2>2 DEF OrderInv, Before, Ordered
<1>8. \A x \in Path' : x \in Path \/ Inert(x)
  BY <1>1, <1>3, <1>4, EndedMsg DEF Path
<1>9. \A x \in Sending' : FrameOK(x, End(driver), Org(driver))
  BY <1>1 DEF Sending, PublicationInv, FramesInv
<1> QED
  BY <1>1, <1>2, <1>3, <1>4, <1>7, <1>8, <1>9, EndedMsg, WireKeeps

(* A new connection starts a new session at the relay. *)
LEMMA ConnectKeeps ==
  ASSUME PublicationInv, Connect
  PROVE  PublicationInv'
<1>1. /\ relay' = NewSession /\ shell' = shell /\ driver' = driver /\ events' = events
      /\ control' = control /\ down' = down /\ stale' = stale /\ term' = term /\ log' = log
      /\ durable' = durable /\ secured' = secured /\ late' = late
      /\ up' = <<Plain("open", NoTerminal)>> \/ up' = << >>
  BY DEF Connect, logVars, pubVars
<1>2. /\ control \in Seq(Messages) /\ events \in Seq(Messages) /\ up \in Seq(Messages)
      /\ down \in Seq(Messages) /\ stale \in Seq(Messages) /\ mux \in Muxes
      /\ relay \in Sessions /\ Ordered(late, events) /\ Ordered(late, down)
  BY WireTypes
<1>3. relay' \in Sessions /\ relay'.reply = NoReply
  BY <1>1, EndedMsg DEF Sessions, NewSession
<1>4. mux' \in Muxes
  <2>1. PICK listing \in ListOutcomes :
          mux' = [mux EXCEPT !.connected = TRUE, !.hosted = mux.hosted /\ ~mux.closing,
                             !.closing = FALSE,
                             !.listed = IF listing /\ state # "closed" THEN term ELSE NoTerminal]
    BY DEF Connect
  <2>2. PICK id \in Nat : id = IF listing /\ state # "closed" THEN term ELSE NoTerminal
    BY DEF PublicationInv, TypeInv, NoTerminal
  <2>3. PICK h \in BOOLEAN : h = (mux.hosted /\ ~mux.closing)
    OBVIOUS
  <2>4. PICK m1 : m1 = [mux EXCEPT !.connected = TRUE]
    OBVIOUS
  <2>5. PICK m2 : m2 = [m1 EXCEPT !.hosted = h]
    OBVIOUS
  <2>6. PICK m3 : m3 = [m2 EXCEPT !.closing = FALSE]
    OBVIOUS
  <2>7. mux' = [m3 EXCEPT !.listed = id]
    BY <2>1, <2>2, <2>3, <2>4, <2>5, <2>6
  <2>8. m1 \in Muxes
    BY <1>2, <2>4 DEF Muxes
  <2>9. m2 \in Muxes
    BY <2>5, <2>8 DEF Muxes
  <2>10. m3 \in Muxes
    BY <2>6, <2>9 DEF Muxes
  <2> QED
    BY <2>7, <2>10 DEF Muxes
<1>5. up' \in Seq(Messages) /\ \A x \in Elems(up') : x.kind = "open"
  <2>1. Plain("open", NoTerminal) \in Messages /\ Plain("open", NoTerminal).kind = "open"
    <3>1. "open" \in Kinds /\ NoTerminal \in Nat
      BY DEF Kinds, NoTerminal
    <3> QED
      BY <3>1, PlainMsg
  <2>2. PICK o : o = Plain("open", NoTerminal)
    OBVIOUS
  <2>3. CASE up' = <<o>>
    <3>1. up' \in Seq(Messages) /\ Len(up') = 1 /\ up'[1] = o
      BY <2>1, <2>2, <2>3
    <3> QED
      BY <2>1, <2>2, <3>1 DEF Elems
  <2>4. CASE up' = << >>
    <3>1. up' \in Seq(Messages)
      BY <2>4
    <3> QED
      BY <2>4, <3>1, ElemsEmpty
  <2> QED
    BY <1>1, <2>2, <2>3, <2>4
<1>6. Ordered(late, events') /\ Ordered(late, down')
  BY <1>1, <1>2 DEF Ordered
<1>7. OrderInv' /\ \A x \in Path' : x \in Path \/ Inert(x)
  BY <1>1, <1>3, <1>6, EndedMsg, OrderInert
<1>8. \A x \in Sending' : FrameOK(x, End(driver), Org(driver))
  <2>1. \A x \in Elems(up') : x.kind # "output"
    BY <1>5
  <2> QED
    BY <1>1, <2>1, CloseFrame DEF Sending, PublicationInv, FramesInv
<1> QED
  BY <1>1, <1>2, <1>3, <1>4, <1>5, <1>7, <1>8, EndedMsg, WireKeeps

(* sweep_orphans closes what was not handed back. *)
LEMMA SweepOrphansKeeps ==
  ASSUME PublicationInv, SweepOrphans
  PROVE  PublicationInv'
<1>1. /\ mux' = [mux EXCEPT !.listed = NoTerminal] /\ up' = Append(up, Plain("close", mux.listed))
      /\ relay' = relay /\ shell' = shell /\ driver' = driver /\ events' = events
      /\ control' = control /\ down' = down /\ stale' = stale /\ term' = term /\ log' = log
      /\ durable' = durable /\ secured' = secured /\ late' = late
  BY DEF SweepOrphans, logVars, pubVars
<1>2. /\ control \in Seq(Messages) /\ events \in Seq(Messages) /\ up \in Seq(Messages)
      /\ down \in Seq(Messages) /\ stale \in Seq(Messages) /\ mux \in Muxes
      /\ relay \in Sessions /\ Ordered(late, events) /\ Ordered(late, down)
  BY WireTypes
<1>3. mux' \in Muxes
  BY <1>1, <1>2 DEF Muxes, NoTerminal
<1>4. Plain("close", mux.listed) \in Messages /\ Plain("close", mux.listed).kind = "close"
  <2>1. "close" \in Kinds /\ mux.listed \in Nat
    BY <1>2 DEF Kinds, Muxes
  <2> QED
    BY <2>1, PlainMsg
<1>5. up' \in Seq(Messages) /\ \A x \in Elems(up') : x \in Elems(up) \/ x.kind = "close"
  BY <1>1, <1>2, <1>4, ElemsAppend
<1>6. OrderInv' /\ \A x \in Path' : x \in Path \/ Inert(x)
  BY <1>1, PathStands
<1>7. \A x \in Sending' : FrameOK(x, End(driver), Org(driver))
  BY <1>1, <1>5, CloseFrame DEF Sending, PublicationInv, FramesInv
<1> QED
  BY <1>1, <1>2, <1>3, <1>5, <1>6, <1>7, WireKeeps

(* Either end loses the connection. *)
LEMMA DisconnectedKeeps ==
  ASSUME PublicationInv, Disconnected, late' = late
  PROVE  /\ mux' \in Muxes /\ relay' \in Sessions /\ relay'.reply = NoReply
         /\ up' \in Seq(Messages) /\ Elems(up') = {} /\ down' \in Seq(Messages)
         /\ events' \in Seq(Messages) /\ OrderInv'
         /\ \A x \in Path' : x \in Path \/ Inert(x)
<1>1. /\ mux' = [mux EXCEPT !.connected = FALSE, !.terminal_id = NoTerminal,
                            !.listed = NoTerminal]
      /\ events' = IF mux.hosted THEN events \o Told(Plain("detached", NoTerminal)) ELSE events
      /\ up' = << >> /\ down' = << >> /\ relay' = NewSession
  BY DEF Disconnected
<1>2. events \in Seq(Messages) /\ mux \in Muxes /\ Ordered(late, events)
  BY WireTypes
<1>3. mux' \in Muxes
  <2>1. PICK m1 : m1 = [mux EXCEPT !.connected = FALSE]
    OBVIOUS
  <2>2. mux' = [m1 EXCEPT !.terminal_id = NoTerminal, !.listed = NoTerminal]
    BY <1>1, <2>1
  <2>3. m1 \in Muxes
    BY <1>2, <2>1 DEF Muxes
  <2> QED
    BY <2>2, <2>3 DEF Muxes, NoTerminal
<1>4. relay' \in Sessions /\ relay'.reply = NoReply
  BY <1>1, EndedMsg DEF Sessions, NewSession
<1>5. /\ up' \in Seq(Messages) /\ Elems(up') = {} /\ down' \in Seq(Messages) /\ Elems(down') = {}
      /\ Len(down') = 0
  BY <1>1, ElemsEmpty
<1>6. PICK e : e = Plain("detached", NoTerminal)
  OBVIOUS
<1>7. e \in Messages /\ Inert(e)
  <2>1. "detached" \in Kinds /\ NoTerminal \in Nat
    BY DEF Kinds, NoTerminal
  <2>2. e \in Messages /\ e.kind = "detached"
    BY <1>6, <2>1, PlainMsg
  <2> QED
    BY <2>2 DEF Inert
<1>8. /\ events' \in Seq(Messages) /\ Ordered(late, events')
      /\ \A x \in Elems(events') : x \in Elems(events) \/ Inert(x)
  <2>1. CASE events' = events \o Told(e)
    <3>1. Before(late, Elems(events), {e})
      BY <1>7, InertBefore
    <3>2. /\ events' \in Seq(Messages) /\ Ordered(late, events')
          /\ Elems(events') \subseteq Elems(events) \cup {e}
      <4>1. events \in Seq(Messages) /\ Ordered(late, events) /\ e \in Messages
        BY <1>2, <1>7
      <4>2. /\ events \o Told(e) \in Seq(Messages) /\ Ordered(late, events \o Told(e))
            /\ Elems(events \o Told(e)) \subseteq Elems(events) \cup {e}
        BY <3>1, <4>1, ToldKeeps
      <4> QED
        BY <2>1, <4>2, Zenon
    <3> QED
      BY <1>7, <3>2
  <2>2. CASE events' = events
    BY <1>2, <2>2
  <2> QED
    BY <1>1, <1>6, <2>1, <2>2
<1>9. Ordered(late, events') /\ Ordered(late, down')
  BY <1>5, <1>8 DEF Ordered
<1>10. OrderInv' /\ \A x \in Path' : x \in Path \/ Inert(x)
  <2>1. \A x \in Elems(down') : x \in Elems(down) \/ Inert(x)
    BY <1>5
  <2>2. Inert(relay'.reply)
    BY <1>4, EndedMsg
  <2> QED
    BY <1>8, <1>9, <2>1, <2>2, OrderInert
<1> QED
  BY <1>3, <1>4, <1>5, <1>8, <1>10

(* The relay may go on reading what it had received. *)
LEMMA LoseConnectionKeeps ==
  ASSUME PublicationInv, LoseConnection
  PROVE  PublicationInv'
<1>1. /\ Disconnected /\ shell' = shell /\ driver' = driver /\ control' = control
      /\ term' = term /\ log' = log /\ durable' = durable /\ secured' = secured /\ late' = late
      /\ stale' \in {stale} \cup (IF Overlap THEN {stale \o up} ELSE {})
  BY DEF LoseConnection, logVars
<1>2. /\ control \in Seq(Messages) /\ up \in Seq(Messages) /\ stale \in Seq(Messages)
  BY WireTypes
<1>3. /\ mux' \in Muxes /\ relay' \in Sessions /\ relay'.reply = NoReply
      /\ up' \in Seq(Messages) /\ Elems(up') = {} /\ down' \in Seq(Messages)
      /\ events' \in Seq(Messages) /\ OrderInv'
      /\ \A x \in Path' : x \in Path \/ Inert(x)
  BY <1>1, DisconnectedKeeps
<1>4. /\ stale' \in Seq(Messages) /\ Elems(stale') \subseteq Elems(stale) \cup Elems(up)
  <2>1. CASE stale' = stale
    BY <1>2, <2>1
  <2>2. CASE Overlap /\ stale' = stale \o up
    BY <1>2, <2>2, ElemsJoin
  <2> QED
    BY <1>1, <2>1, <2>2
<1>5. \A x \in Sending' : FrameOK(x, End(driver), Org(driver))
  BY <1>1, <1>3, <1>4 DEF Sending, PublicationInv, FramesInv
<1> QED
  BY <1>1, <1>2, <1>3, <1>4, <1>5, EndedMsg, WireKeeps

(* The shell writes or exits: only what is drawn counts as taken. *)
LEMMA ShellKeeps ==
  ASSUME PublicationInv, Write \/ Exit
  PROVE  PublicationInv'
<1> USE DEF PublicationInv
<1>1. /\ relay' = relay /\ driver' = driver /\ events' = events /\ mux' = mux /\ up' = up
      /\ control' = control /\ down' = down /\ stale' = stale /\ term' = term /\ log' = log
      /\ durable' = durable /\ secured' = secured /\ late' = late
  BY DEF Write, Exit, logVars, wireVars
<1>2. shell \in [written : Nat, exited : BOOLEAN]
  BY DEF TypeInv
<1>3. /\ shell' \in [written : Nat, exited : BOOLEAN] /\ ~shell.exited
      /\ shell.written <= shell'.written
  <2>1. CASE Write
    <3>1. shell.written \in Nat /\ shell.written + 1 \in Nat
      BY <1>2
    <3>2. shell' = [shell EXCEPT !.written = shell.written + 1] /\ ~shell.exited
      BY <2>1 DEF Write
    <3>3. shell'.written = shell.written + 1 /\ shell' \in [written : Nat, exited : BOOLEAN]
      BY <1>2, <3>1, <3>2
    <3> QED
      BY <3>1, <3>2, <3>3
  <2>2. CASE Exit
    <3>1. shell' = [shell EXCEPT !.exited = TRUE] /\ ~shell.exited /\ shell.written \in Nat
      BY <1>2, <2>2 DEF Exit
    <3>2. shell' \in [written : Nat, exited : BOOLEAN]
      BY <1>2, <3>1
    <3>3. shell'.written = shell.written
      BY <1>2, <3>1
    <3> QED
      BY <3>1, <3>2, <3>3
  <2> QED
    BY <2>1, <2>2
<1>4. TypeInv'
  BY <1>1, <1>3 DEF TypeInv
<1>5. Path' = Path /\ Sending' = Sending
  BY <1>1 DEF Path, Sending
<1>6. DriverInv(driver, Path)'
  <2>1. DriverOK(driver)' /\ OriginOK(driver, Path)' /\ PlaceOK(driver)'
    BY <1>1, <1>5 DEF DriverInv, DriverOK, OriginOK, PlaceOK, Placed, Taken, End, Org, Base
  <2>2. RecoverOK(driver, Path)'
    BY <1>1, <1>5 DEF DriverInv, RecoverOK, End
  <2>3. ASSUME NEW m \in Path' PROVE PathOK(m, driver)'
    BY <1>1, <1>5 DEF DriverInv, PathOK, End, Org, Taken, BaseOf
  <2>4. GoneOK(driver)'
    <3>1. driver.drawn \in Nat /\ shell.written \in Nat /\ shell'.written \in Nat
      BY <1>2, <1>3 DEF TypeInv, Drivers
    <3>2. GoneOK(driver)
      BY DEF DriverInv
    <3>3. ~driver.gone /\ ~driver.closed /\ driver.drawn <= shell'.written
      BY <1>3, <3>1, <3>2 DEF GoneOK
    <3> QED
      BY <1>1, <3>2, <3>3 DEF GoneOK, Org, End, Taken
  <2> QED
    BY <2>1, <2>2, <2>3, <2>4 DEF DriverInv
<1>7. TermInv'
  BY <1>1 DEF TermInv, Base
<1>8. FramesInv'
  BY <1>1, <1>5 DEF FramesInv, FrameOK, End, Org, Taken
<1>9. OrderInv'
  BY <1>1 DEF OrderInv, Ordered, Before
<1>10. ReplyInv'
  BY <1>1 DEF ReplyInv
<1> QED
  BY <1>4, <1>6, <1>7, <1>8, <1>9, <1>10

-----------------------------------------------------------------------------
(* The relay *)

(* What the relay may add to the path. *)
Said(m) ==
  /\ PathOK(m, driver)
  /\ Placed(driver) /\ Org(driver) = 0 /\ OldBytes > 0 => ~Old(m)
  /\ ~late /\ term = 1 /\ End(driver) > 0 /\ IsReply(m) => driver.stream.start <= m.at

(* A step of the relay: the old messages stay true, and the new ones are. *)
LEMMA RelayKeeps ==
  ASSUME TypeInv', TermInv', FramesInv', OrderInv', ReplyInv',
         NEW P, NEW Q, Q = Path', DriverInv(driver, P)',
         \A m \in Q : m \in P \/ Said(m)'
  PROVE  PublicationInv'
<1>1. /\ DriverOK(driver)' /\ OriginOK(driver, P)' /\ PlaceOK(driver)'
      /\ GoneOK(driver)' /\ RecoverOK(driver, P)'
      /\ \A m \in P : PathOK(m, driver)'
  BY DEF DriverInv
<1>2. OriginOK(driver, Q)'
  BY <1>1 DEF OriginOK, Said
<1>3. RecoverOK(driver, Q)'
  BY <1>1 DEF RecoverOK, Said
<1>4. \A m \in Q : PathOK(m, driver)'
  BY <1>1 DEF Said
<1>5. OriginOK(driver, Path)' /\ RecoverOK(driver, Path)' /\ \A m \in Path' : PathOK(m, driver)'
  BY <1>2, <1>3, <1>4 DEF OriginOK, RecoverOK
<1>6. DriverInv(driver, Path)'
  BY <1>1, <1>5 DEF DriverInv
<1> QED
  BY <1>6 DEF PublicationInv

(* The driver's part of the invariant, when its terminal stands still. *)
LEMMA DriverStands ==
  ASSUME NEW P, DriverInv(driver, P),
         shell' = shell, driver' = driver, term' = term, log' = log, durable' = durable,
         secured' = secured, late => late'
  PROVE  DriverInv(driver, P)'
<1>1. DriverOK(driver)' /\ OriginOK(driver, P)' /\ PlaceOK(driver)' /\ GoneOK(driver)'
  BY DEF DriverInv, DriverOK, OriginOK, PlaceOK, GoneOK, Placed, Taken, End, Org, Base
<1>2. RecoverOK(driver, P)'
  BY DEF DriverInv, RecoverOK, End
<1>3. ASSUME NEW m \in P PROVE PathOK(m, driver)'
  BY DEF DriverInv, PathOK, End, Org, Taken, BaseOf
<1> QED
  BY <1>1, <1>2, <1>3 DEF DriverInv

(* The frames on their way, when the driver stands still. *)
LEMMA FramesStand ==
  ASSUME PublicationInv, driver' = driver, control' = control,
         Elems(up') \subseteq Elems(up), Elems(stale') \subseteq Elems(stale)
  PROVE  FramesInv'
<1>1. \A m \in Sending' : FrameOK(m, End(driver), Org(driver))
  BY DEF PublicationInv, FramesInv, Sending
<1> QED
  BY <1>1 DEF FramesInv, FrameOK, End, Org, Taken

LEMMA DriverFacts ==
  ASSUME PublicationInv
  PROVE  /\ End(driver) \in Nat /\ Org(driver) \in Nat /\ Taken(driver) \in Nat
         /\ End(driver) = Org(driver) + Taken(driver) /\ driver.stream.start \in Nat
         /\ Org(driver) <= driver.stream.start /\ driver.stream.start <= End(driver)
         /\ driver.drawn \in Nat /\ Taken(driver) <= driver.drawn
         /\ OldBytes \in Nat /\ term \in Nat /\ term > 0 /\ secured \in Nat /\ durable \in Nat
         /\ log \in Seq(Nat) /\ Len(log) \in Nat /\ Base \in Nat /\ Base = BaseOf(term)
         /\ Base <= durable /\ durable <= Len(log) /\ Base <= Len(log)
         /\ durable - Base <= secured /\ secured <= Taken(driver)
<1>1. DriverOK(driver) /\ PlaceOK(driver) /\ TypeInv /\ TermInv
  BY DEF PublicationInv, DriverInv
<1>2. /\ OldBytes \in Nat /\ term \in Nat /\ term > 0 /\ secured \in Nat /\ durable \in Nat
      /\ log \in Seq(Nat) /\ Len(log) \in Nat
  BY <1>1, Scalars
<1>3. Base \in Nat /\ Base = BaseOf(term)
  BY <1>2 DEF Base, BaseOf
<1>4. Base <= durable /\ durable <= Len(log) /\ durable - Base <= secured /\ secured <= Taken(driver)
  BY <1>1 DEF TermInv, PlaceOK
<1>5. Base <= Len(log)
  BY <1>2, <1>3, <1>4
<1>6. /\ End(driver) \in Nat /\ Org(driver) \in Nat /\ Taken(driver) \in Nat
      /\ End(driver) = Org(driver) + Taken(driver) /\ driver.stream.start \in Nat
      /\ Org(driver) <= driver.stream.start /\ driver.stream.start <= End(driver)
      /\ driver.drawn \in Nat /\ Taken(driver) <= driver.drawn
  BY <1>1, DriverNumbers
<1> QED
  BY <1>2, <1>3, <1>4, <1>5, <1>6

(* When the terminal holds one of the shell's bytes, the origins agree. *)
LEMMA OriginsAgree ==
  ASSUME PublicationInv, Len(log) > Base
  PROVE  End(driver) > 0 /\ Org(driver) = Base /\ Len(log) <= End(driver)
<1>1. /\ End(driver) \in Nat /\ term \in Nat /\ term > 0 /\ OldBytes \in Nat
      /\ log \in Seq(Nat) /\ Len(log) \in Nat /\ Base \in Nat
  BY DriverFacts
<1>2. End(driver) > 0 /\ Len(log) <= End(driver)
  BY <1>1 DEF PublicationInv, DriverInv, PlaceOK
<1>3. Placed(driver)
  BY <1>2 DEF Placed
<1>4. log # << >>
  BY <1>1
<1> QED
  BY <1>1, <1>2, <1>3, <1>4 DEF PublicationInv, DriverInv, OriginOK, Base

(* An acknowledgement says what is durable, behind what was said before    *)
(* and ahead of the reply that is still to be written.                     *)
LEMMA AckTaskKeeps ==
  ASSUME PublicationInv, AckTask
  PROVE  PublicationInv'
<1>1. /\ relay' = [relay EXCEPT !.acked = durable] /\ durable > relay.acked
      /\ down' = Append(down, Msg("ack", term, durable, << >>))
      /\ shell' = shell /\ driver' = driver /\ events' = events /\ control' = control
      /\ mux' = mux /\ up' = up /\ stale' = stale /\ term' = term /\ log' = log
      /\ durable' = durable /\ secured' = secured /\ late' = late
  BY DEF AckTask, pubVars
<1>2. /\ control \in Seq(Messages) /\ events \in Seq(Messages) /\ up \in Seq(Messages)
      /\ down \in Seq(Messages) /\ stale \in Seq(Messages) /\ mux \in Muxes
      /\ relay \in Sessions /\ Ordered(late, events) /\ Ordered(late, down)
  BY WireTypes
<1>3. /\ End(driver) \in Nat /\ OldBytes \in Nat /\ term \in Nat /\ term > 0 /\ secured \in Nat
      /\ durable \in Nat /\ log \in Seq(Nat) /\ Len(log) \in Nat /\ Base \in Nat
      /\ Base = BaseOf(term) /\ durable <= Len(log) /\ durable - Base <= secured
  BY DriverFacts
<1>4. PICK a : a = Msg("ack", term, durable, << >>)
  OBVIOUS
<1>5. a \in Messages /\ a.kind = "ack" /\ a.id = term /\ a.at = durable
  <2>1. "ack" \in Kinds /\ << >> \in Seq(Nat)
    BY DEF Kinds
  <2>2. a \in Messages
    BY <1>3, <1>4, <2>1, MsgType
  <2> QED
    BY <1>4, <2>2 DEF Msg
<1>6. relay' \in Sessions /\ relay'.reply = relay.reply /\ relay.reply \in Messages
  BY <1>1, <1>2, <1>3 DEF Sessions
<1>7. down' \in Seq(Messages) /\ Elems(down') = Elems(down) \cup {a}
  BY <1>1, <1>2, <1>4, <1>5, ElemsAppend
<1>8. TypeInv'
  BY <1>1, <1>2, <1>6, <1>7 DEF PublicationInv, TypeInv, Muxes, Sessions
<1>9. TermInv'
  BY <1>1 DEF PublicationInv, TermInv, Base
<1>10. FramesInv'
  BY <1>1, FramesStand
<1>11. \A x \in Path : x \in Messages /\ PathOK(x, driver)
  BY PathType DEF PublicationInv, DriverInv
<1>12. Before(late, Elems(events) \cup Elems(down), {a}) /\ Fits(late, a, relay.reply)
  <2>1. ASSUME NEW x \in Path PROVE Fits(late, x, a)
    <3>1. New(x) => term > 1
      <4>1. x.id \in Nat
        BY <1>11 DEF Messages
      <4>2. New(x) => x.id \in 1 .. term
        BY <1>11 DEF PathOK, New, Inert
      <4> QED
        BY <1>3, <4>1, <4>2 DEF New
    <3>2. term > 1 => ~Old(a)
      BY <1>3, <1>5 DEF Old
    <3>3. ~IsReply(a)
      BY <1>5 DEF IsReply
    <3> QED
      BY <3>1, <3>2, <3>3 DEF Fits
  <2>2. ~New(a)
    BY <1>5 DEF New
  <2>3. ~late /\ IsReply(relay.reply) /\ relay.reply.id = term => durable <= relay.reply.at
    BY <1>3 DEF PublicationInv, ReplyInv
  <2>4. Fits(late, a, relay.reply)
    BY <1>5, <2>2, <2>3 DEF Fits
  <2> QED
    BY <2>1, <2>4 DEF Before, Path
<1>13. OrderInv'
  <2>1. Ordered(late, down')
    <3>1. Before(late, Elems(down), {a})
      BY <1>12 DEF Before
    <3> QED
      BY <1>1, <1>2, <1>4, <1>5, <3>1, OrderedAppend
  <2>2. Before(late, Elems(events'), Elems(down'))
    BY <1>1, <1>7, <1>12 DEF PublicationInv, OrderInv, Before
  <2>3. Before(late, Elems(events') \cup Elems(down'), {relay'.reply})
    BY <1>1, <1>6, <1>7, <1>12 DEF PublicationInv, OrderInv, Before
  <2> QED
    BY <1>1, <1>2, <2>1, <2>2, <2>3 DEF OrderInv, Before, Ordered
<1>14. ReplyInv'
  BY <1>1, <1>6 DEF PublicationInv, ReplyInv
<1>15. Said(a)
  <2>1. term > 1 => End(driver) > 0 /\ Org(driver) = 0
    <3>1. relay.acked \in Nat
      BY <1>2 DEF Sessions
    <3>2. term > 1 => Base = 0 /\ Len(log) > Base
      BY <1>1, <1>3, <3>1 DEF Base
    <3> QED
      BY <3>2, OriginsAgree
  <2>2. PathOK(a, driver)
    <3>1. a.id \in 1 .. term /\ a.at - BaseOf(a.id) <= secured /\ a.at <= durable
      BY <1>3, <1>5
    <3> QED
      BY <1>5, <2>1, <3>1 DEF PathOK
  <2>3. Placed(driver) /\ Org(driver) = 0 /\ OldBytes > 0 => ~Old(a)
    BY <1>3, <1>5 DEF PublicationInv, DriverInv, OriginOK, Old
  <2>4. ~IsReply(a)
    BY <1>5 DEF IsReply
  <2> QED
    BY <2>2, <2>3, <2>4 DEF Said
<1>16. Said(a)'
  BY <1>1, <1>15 DEF Said, PathOK, Placed, End, Org, Taken, BaseOf, Inert
<1>17. PICK P, Q : P = Path /\ Q = Path'
  OBVIOUS
<1>18. DriverInv(driver, P)
  BY <1>17 DEF PublicationInv
<1>19. DriverInv(driver, P)'
  BY <1>1, <1>18, DriverStands
<1>20. \A m \in Q : m \in P \/ m = a
  BY <1>1, <1>6, <1>7, <1>17 DEF Path
<1>21. \A m \in Q : m \in P \/ Said(m)'
  BY <1>16, <1>20
<1> QED
  BY <1>8, <1>9, <1>10, <1>13, <1>14, <1>17, <1>19, <1>21, RelayKeeps

(* The grace runs out: only the terminal's state changes. *)
LEMMA GraceExpiresKeeps ==
  ASSUME PublicationInv, GraceExpires
  PROVE  PublicationInv'
<1>1. /\ shell' = shell /\ driver' = driver /\ events' = events /\ control' = control
      /\ mux' = mux /\ up' = up /\ down' = down /\ stale' = stale /\ relay' = relay
      /\ term' = term /\ log' = log /\ durable' = durable /\ secured' = secured /\ late' = late
  BY DEF GraceExpires, Log!BeginClose, pubVars, wireVars
<1>2. /\ control \in Seq(Messages) /\ events \in Seq(Messages) /\ up \in Seq(Messages)
      /\ down \in Seq(Messages) /\ stale \in Seq(Messages) /\ mux \in Muxes
      /\ relay \in Sessions
  BY WireTypes
<1>3. OrderInv' /\ \A x \in Path' : x \in Path \/ Inert(x)
  BY <1>1, PathStands
<1>4. \A x \in Sending' : FrameOK(x, End(driver), Org(driver))
  BY <1>1 DEF Sending, PublicationInv, FramesInv
<1> QED
  BY <1>1, <1>2, <1>3, <1>4, WireKeeps

(* A checkpoint: the durable prefix grows to the whole log, and what was   *)
(* ever durable of the shell's bytes with it.                              *)
LEMMA FlushKeeps ==
  ASSUME PublicationInv, Flush
  PROVE  PublicationInv'
<1>1. /\ shell' = shell /\ driver' = driver /\ events' = events /\ control' = control
      /\ mux' = mux /\ up' = up /\ down' = down /\ stale' = stale /\ relay' = relay
      /\ term' = term /\ log' = log /\ durable' = Len(log) /\ late' = late
      /\ secured' = IF log # << >> /\ log[Len(log)] > secured THEN log[Len(log)] ELSE secured
  BY DEF Flush, Log!MakeDurable, Log!Close, pubVars, wireVars
<1>2. /\ End(driver) \in Nat /\ Org(driver) \in Nat /\ Taken(driver) \in Nat
      /\ End(driver) = Org(driver) + Taken(driver) /\ driver.stream.start \in Nat
      /\ driver.drawn \in Nat /\ Taken(driver) <= driver.drawn
      /\ OldBytes \in Nat /\ term \in Nat /\ term > 0 /\ secured \in Nat /\ durable \in Nat
      /\ log \in Seq(Nat) /\ Len(log) \in Nat /\ Base \in Nat
      /\ durable <= Len(log) /\ Base <= Len(log) /\ secured <= Taken(driver)
  BY DriverFacts
<1>3. /\ secured' \in Nat /\ secured <= secured' /\ Len(log) - Base <= secured'
      /\ secured' <= Taken(driver)
  <2>1. CASE Len(log) = Base
    <3>1. log # << >> => log[Len(log)] = 0
      <4>1. log # << >> => Len(log) \in 1 .. Len(log)
        BY <1>2
      <4> QED
        BY <1>2, <2>1, <4>1 DEF PublicationInv, TermInv
    <3>2. secured' = secured
      BY <1>1, <1>2, <3>1
    <3> QED
      BY <1>2, <2>1, <3>2
  <2>2. CASE Len(log) > Base
    <3>1. Org(driver) = Base /\ Len(log) <= End(driver)
      BY <2>2, OriginsAgree
    <3>2. log # << >> /\ Len(log) \in 1 .. Len(log) /\ ~(Len(log) <= Base)
      BY <1>2, <2>2
    <3>3. log[Len(log)] = Len(log) - Base
      <4>1. TermInv
        BY DEF PublicationInv
      <4> QED
        BY <3>2, <4>1 DEF TermInv
    <3>4. PICK n \in Nat : n = Len(log) - Base
      <4>1. Len(log) \in Nat /\ Base \in Nat /\ Base <= Len(log)
        BY <1>2
      <4>2. Len(log) - Base \in Nat
        BY <4>1
      <4> QED
        BY <4>2
    <3>5. n <= Taken(driver)
      BY <1>2, <3>1, <3>4
    <3>6. secured' = IF n > secured THEN n ELSE secured
      BY <1>1, <3>2, <3>3, <3>4
    <3> QED
      BY <1>2, <3>4, <3>5, <3>6
  <2> QED
    BY <1>2, <2>1, <2>2
<1>4. TypeInv'
  BY <1>1, <1>2, <1>3 DEF PublicationInv, TypeInv
<1>5. TermInv'
  BY <1>1, <1>2, <1>3 DEF PublicationInv, TermInv, Base
<1>6. FramesInv'
  BY <1>1, FramesStand
<1>7. OrderInv'
  BY <1>1, PathStands
<1>8. ReplyInv'
  BY <1>1 DEF PublicationInv, ReplyInv
<1>9. PICK P : P = Path
  OBVIOUS
<1>10. P = Path' /\ P \subseteq Messages /\ DriverInv(driver, P)
  BY <1>1, <1>9, PathType DEF PublicationInv, Path
<1>11. DriverInv(driver, P)'
  <2>1. DriverOK(driver)' /\ OriginOK(driver, P)'
    BY <1>1, <1>10 DEF DriverInv, DriverOK, OriginOK, Placed, Taken, End, Org
  <2>2. PlaceOK(driver)'
    BY <1>1, <1>3, <1>10 DEF DriverInv, PlaceOK, Taken, End, Base
  <2>3. ASSUME NEW m \in P PROVE PathOK(m, driver)'
    <3>1. m.at \in Nat /\ BaseOf(m.id) \in Nat /\ PathOK(m, driver)
      BY <1>2, <1>10 DEF DriverInv, Messages, BaseOf
    <3>2. m.kind = "ack" => m.at - BaseOf(m.id) <= secured' /\ (m.id = term => m.at <= Len(log))
      BY <1>2, <1>3, <3>1 DEF PathOK
    <3> QED
      BY <1>1, <3>1, <3>2 DEF PathOK, End, Org, Taken, BaseOf, Inert
  <2>4. GoneOK(driver)'
    <3>1. GoneOK(driver) /\ shell.written \in Nat
      BY <1>10 DEF DriverInv, PublicationInv, TypeInv
    <3>2. driver.closed => secured' = shell.written
      BY <1>2, <1>3, <3>1 DEF GoneOK
    <3>3. driver.over = "no" => driver.stream.start - Org(driver) <= secured'
      BY <1>2, <1>3, <3>1 DEF GoneOK
    <3> QED
      BY <1>1, <3>1, <3>2, <3>3 DEF GoneOK, End, Org, Taken
  <2>5. RecoverOK(driver, P)'
    <3>1. driver.stream.start <= durable => driver.stream.start <= Len(log)
      BY <1>2
    <3> QED
      BY <1>1, <1>10, <3>1 DEF DriverInv, RecoverOK, End
  <2> QED
    BY <2>1, <2>2, <2>3, <2>4, <2>5 DEF DriverInv
<1> QED
  BY <1>4, <1>5, <1>6, <1>7, <1>8, <1>10, <1>11, RelayKeeps

(* What is inert says nothing that could be wrong. *)
LEMMA InertSaid ==
  ASSUME NEW m, Inert(m)
  PROVE  Said(m)'
  BY DEF Said, PathOK, Inert, Old, IsReply

(* A crash takes what was not durable, which the driver still has. *)
LEMMA RelayCrashKeeps ==
  ASSUME PublicationInv, RelayCrash
  PROVE  PublicationInv'
<1>1. /\ Disconnected /\ shell' = shell /\ driver' = driver /\ control' = control
      /\ stale' = << >> /\ term' = term /\ log' = SubSeq(log, 1, durable)
      /\ durable' = durable /\ secured' = secured /\ late' = late
  BY DEF RelayCrash, Log!Crash
<1>2. /\ End(driver) \in Nat /\ term \in Nat /\ term > 0 /\ secured \in Nat /\ durable \in Nat
      /\ log \in Seq(Nat) /\ Len(log) \in Nat /\ Base \in Nat
      /\ Base <= durable /\ durable <= Len(log) /\ Base <= Len(log)
  BY DriverFacts
<1>3. /\ mux' \in Muxes /\ relay' \in Sessions /\ relay'.reply = NoReply
      /\ up' \in Seq(Messages) /\ Elems(up') = {} /\ down' \in Seq(Messages)
      /\ events' \in Seq(Messages) /\ OrderInv'
      /\ \A x \in Path' : x \in Path \/ Inert(x)
  BY <1>1, DisconnectedKeeps
<1>4. /\ log' \in Seq(Nat) /\ Len(log') = durable
      /\ \A i \in 1 .. durable : log'[i] = log[i]
  BY <1>1, <1>2
<1>5. log = << >> => log' = << >>
  BY <1>2, <1>4
<1>6. stale' \in Seq(Messages) /\ Elems(stale') = {}
  BY <1>1, ElemsEmpty
<1>7. TypeInv'
  BY <1>1, <1>3, <1>4, <1>6 DEF PublicationInv, TypeInv, Muxes, Sessions
<1>8. TermInv'
  <2>1. Base' = Base
    BY <1>1 DEF Base
  <2>2. \A i \in 1 .. Len(log') : i \in 1 .. Len(log) /\ log'[i] = log[i]
    BY <1>2, <1>4
  <2> QED
    BY <1>1, <1>2, <1>4, <2>1, <2>2 DEF PublicationInv, TermInv
<1>9. FramesInv'
  BY <1>1, <1>3, <1>6, FramesStand
<1>10. ReplyInv'
  BY <1>1, <1>3, EndedMsg DEF ReplyInv, Inert, IsReply
<1>11. PICK P, Q : P = Path /\ Q = Path'
  OBVIOUS
<1>12. DriverInv(driver, P)
  BY <1>11 DEF PublicationInv
<1>13. DriverInv(driver, P)'
  <2>1. DriverOK(driver)' /\ GoneOK(driver)'
    BY <1>1, <1>12 DEF DriverInv, DriverOK, GoneOK, Taken, End, Org
  <2>2. OriginOK(driver, P)'
    BY <1>1, <1>5, <1>12 DEF DriverInv, OriginOK, Placed, Taken, End, Org
  <2>3. PlaceOK(driver)'
    <3>1. PlaceOK(driver)
      BY <1>12 DEF DriverInv
    <3>2. IF End(driver) = 0 THEN Len(log') = Base ELSE Len(log') <= End(driver)
      BY <1>2, <1>4, <3>1 DEF PlaceOK
    <3> QED
      BY <1>1, <3>1, <3>2 DEF PlaceOK, End, Taken, Base
  <2>4. ASSUME NEW m \in P PROVE PathOK(m, driver)'
    BY <1>1, <1>12 DEF DriverInv, PathOK, End, Org, Taken, BaseOf
  <2>5. RecoverOK(driver, P)'
    BY <1>1, <1>12 DEF DriverInv, RecoverOK, End
  <2> QED
    BY <2>1, <2>2, <2>3, <2>4, <2>5 DEF DriverInv
<1>14. \A m \in Q : m \in P \/ Said(m)'
  BY <1>3, <1>11, InertSaid
<1> QED
  BY <1>3, <1>7, <1>8, <1>9, <1>10, <1>11, <1>13, <1>14, RelayKeeps

(* The terminal after a frame was handled. *)
Handled ==
  /\ term' \in Nat \ {0} /\ log' \in Seq(Nat) /\ durable' \in Nat
  /\ \/ term' = term /\ durable' = durable /\ Len(log) <= Len(log')
     \/ term' = term + 1 /\ log' = << >> /\ durable' = 0

(* terminal.open for a closed terminal: the next terminal is empty, and    *)
(* whatever the driver's origin is, nothing of it can be spliced in.       *)
LEMMA ReplacedKeeps ==
  ASSUME PublicationInv, NEW P, P \subseteq Messages, DriverInv(driver, P),
         shell' = shell, driver' = driver, secured' = secured,
         term' = term + 1, log' = << >>, durable' = 0
  PROVE  Handled /\ DriverInv(driver, P)' /\ TermInv'
<1>1. /\ End(driver) \in Nat /\ Org(driver) \in Nat /\ OldBytes \in Nat /\ term \in Nat
      /\ term > 0 /\ secured \in Nat
  BY DriverFacts
<1>2. /\ Len(log') = 0 /\ term' \in Nat /\ term' > 1 /\ term' # 1 /\ Base' = 0
      /\ log' \in Seq(Nat)
  BY <1>1 DEF Base
<1>3. TermInv'
  BY <1>1, <1>2 DEF TermInv
<1>4. DriverOK(driver)' /\ GoneOK(driver)'
  BY DEF DriverInv, DriverOK, GoneOK, Taken, End, Org
<1>5. OriginOK(driver, P)'
  <2>1. Placed(driver) => Org(driver) = 0 \/ Org(driver) = OldBytes
    BY <1>1 DEF DriverInv, OriginOK
  <2>2. Placed(driver) /\ Org(driver) = 0 /\ OldBytes > 0 => \A m \in P : ~Old(m)
    BY DEF DriverInv, OriginOK
  <2> QED
    BY <1>2, <2>1, <2>2 DEF OriginOK, Placed, Taken, End, Org, Old
<1>6. PlaceOK(driver)'
  BY <1>1, <1>2 DEF DriverInv, PlaceOK, Taken, End
<1>7. ASSUME NEW m \in P PROVE PathOK(m, driver)'
  <2>1. PathOK(m, driver) /\ m.id \in Nat
    BY DEF DriverInv, Messages
  <2>2. ~Inert(m) => m.id \in 1 .. term' /\ m.id # term'
    BY <1>1, <2>1 DEF PathOK
  <2> QED
    BY <2>1, <2>2 DEF PathOK, End, Org, Taken, BaseOf, Inert
<1>8. RecoverOK(driver, P)'
  BY <1>2 DEF RecoverOK
<1> QED
  BY <1>1, <1>2, <1>3, <1>4, <1>5, <1>6, <1>7, <1>8 DEF DriverInv, Handled

(* terminal.output at the terminal's offset: the frame's bytes are the     *)
(* ones that come next.                                                    *)
LEMMA AcceptedKeeps ==
  ASSUME PublicationInv, NEW P, P \subseteq Messages, DriverInv(driver, P),
         shell' = shell, driver' = driver, secured' = secured, term' = term,
         durable' = durable, late => late', NEW m \in Messages, m.kind = "output",
         FrameOK(m, End(driver), Org(driver)), m.at = Len(log), log' = log \o m.bytes
  PROVE  Handled /\ DriverInv(driver, P)' /\ TermInv'
<1>1. /\ End(driver) \in Nat /\ Org(driver) \in Nat /\ OldBytes \in Nat /\ term \in Nat
      /\ term > 0 /\ secured \in Nat /\ durable \in Nat /\ log \in Seq(Nat) /\ Len(log) \in Nat
      /\ Base \in Nat /\ Base <= durable /\ durable <= Len(log) /\ Base <= Len(log)
      /\ durable - Base <= secured
  BY DriverFacts
<1>2. PICK bytes \in Seq(Nat) : bytes = m.bytes
  BY DEF Messages
<1>3. /\ End(driver) > 0 /\ Org(driver) <= Len(log) /\ Len(log) + Len(bytes) <= End(driver)
      /\ \A i \in 1 .. Len(bytes) : bytes[i] = (Len(log) + i) - Org(driver)
  BY <1>2 DEF FrameOK
<1>4. Placed(driver)
  BY <1>3 DEF Placed
<1>5. Org(driver) = Base
  <2>1. CASE term = 1
    BY <1>4, <2>1 DEF DriverInv, OriginOK, Base
  <2>2. CASE term > 1
    <3>1. Org(driver) = 0 \/ log = << >>
      BY <1>4, <2>2 DEF DriverInv, OriginOK
    <3>2. Org(driver) = 0
      BY <1>1, <1>3, <3>1
    <3> QED
      BY <2>2, <3>2 DEF Base
  <2> QED
    BY <1>1, <2>1, <2>2
<1>6. /\ log' \in Seq(Nat) /\ Len(log') = Len(log) + Len(bytes) /\ Len(bytes) \in Nat
      /\ \A i \in 1 .. Len(log) : log'[i] = log[i]
      /\ \A i \in 1 .. Len(bytes) : log'[Len(log) + i] = bytes[i]
  BY <1>1, <1>2, Joined
<1>7. Len(log') \in Nat /\ Len(log) <= Len(log') /\ Len(log') <= End(driver)
  BY <1>1, <1>3, <1>6
<1>8. Handled
  BY <1>1, <1>6, <1>7 DEF Handled
<1>9. TermInv'
  <2>1. Base' = Base
    BY DEF Base
  <2>2. ASSUME NEW i \in 1 .. Len(log')
        PROVE  log'[i] = IF i <= Base THEN 0 ELSE i - Base
    <3>1. CASE i <= Len(log)
      <4>1. i \in 1 .. Len(log)
        BY <1>1, <3>1
      <4> QED
        BY <1>6, <4>1 DEF PublicationInv, TermInv
    <3>2. CASE ~(i <= Len(log))
      <4>1. PICK k \in 1 .. Len(bytes) : i = Len(log) + k
        <5>1. i - Len(log) \in 1 .. Len(bytes) /\ i = Len(log) + (i - Len(log))
          BY <1>1, <1>6, <3>2
        <5> QED
          BY <5>1
      <4>2. log'[i] = (Len(log) + k) - Base
        BY <1>3, <1>5, <1>6, <4>1
      <4> QED
        BY <1>1, <3>2, <4>1, <4>2
    <3> QED
      BY <3>1, <3>2
  <2>3. durable <= Len(log')
    BY <1>1, <1>7
  <2> QED
    BY <1>1, <2>1, <2>2, <2>3 DEF TermInv
<1>10. DriverOK(driver)' /\ GoneOK(driver)'
  BY DEF DriverInv, DriverOK, GoneOK, Taken, End, Org
<1>11. OriginOK(driver, P)'
  <2>1. /\ term = 1 => Org(driver) = OldBytes
        /\ term > 1 => Org(driver) = 0
    BY <1>5 DEF Base
  <2>2. Placed(driver) /\ Org(driver) = 0 /\ OldBytes > 0 => \A x \in P : ~Old(x)
    BY DEF DriverInv, OriginOK
  <2> QED
    BY <2>1, <2>2 DEF OriginOK, Placed, Taken, End, Org, Old
<1>12. PlaceOK(driver)'
  BY <1>3, <1>7 DEF DriverInv, PlaceOK, Taken, End
<1>13. ASSUME NEW x \in P PROVE PathOK(x, driver)'
  BY DEF DriverInv, PathOK, End, Org, Taken, BaseOf
<1>14. RecoverOK(driver, P)'
  BY DEF DriverInv, RecoverOK, End
<1> QED
  BY <1>8, <1>9, <1>10, <1>11, <1>12, <1>13, <1>14 DEF DriverInv

(* Whatever frame the relay handles, of this connection or the previous. *)
LEMMA HandleKeeps ==
  ASSUME PublicationInv, NEW m \in Messages, FrameOK(m, End(driver), Org(driver)),
         HandleAtRelay(m), shell' = shell, driver' = driver, secured' = secured,
         late => late', NEW P, P \subseteq Messages, DriverInv(driver, P)
  PROVE  Handled /\ DriverInv(driver, P)' /\ TermInv'
<1>1. CASE state = "closed" /\ term' = term + 1 /\ log' = << >> /\ durable' = 0
  BY <1>1, ReplacedKeeps
<1>2. CASE m.kind = "output" /\ m.at = Len(log) /\ term' = term /\ durable' = durable
           /\ log' = log \o m.bytes
  BY <1>2, AcceptedKeeps
<1>3. CASE term' = term /\ log' = log /\ durable' = durable
  <2>1. DriverInv(driver, P)'
    BY <1>3, DriverStands
  <2>2. TermInv'
    BY <1>3 DEF PublicationInv, TermInv, Base
  <2>3. term \in Nat \ {0} /\ log \in Seq(Nat) /\ Len(log) \in Nat /\ durable \in Nat
    BY DEF PublicationInv, TypeInv
  <2> QED
    BY <1>3, <2>1, <2>2, <2>3 DEF Handled
<1> QED
  BY <1>1, <1>2, <1>3
  DEF HandleAtRelay, OpenAtRelay, OutputAtRelay, CloseAtRelay, Log!Accept, Log!BeginClose, logVars

(* open_terminal failed: the answer names no terminal and no offset. *)
LEMMA RelayRefusesOpenKeeps ==
  ASSUME PublicationInv, RelayRefusesOpen
  PROVE  PublicationInv'
<1>1. /\ up # << >> /\ up' = Tail(up)
      /\ relay' = [relay EXCEPT !.reply = Plain("unopened", NoTerminal)]
      /\ shell' = shell /\ driver' = driver /\ events' = events /\ control' = control
      /\ mux' = mux /\ down' = down /\ stale' = stale /\ term' = term /\ log' = log
      /\ durable' = durable /\ secured' = secured /\ late' = late
  BY DEF RelayRefusesOpen, pubVars, logVars
<1>2. /\ control \in Seq(Messages) /\ events \in Seq(Messages) /\ up \in Seq(Messages)
      /\ down \in Seq(Messages) /\ stale \in Seq(Messages) /\ mux \in Muxes
      /\ relay \in Sessions /\ Ordered(late, events) /\ Ordered(late, down)
  BY WireTypes
<1>3. up' \in Seq(Messages) /\ Elems(up') \subseteq Elems(up)
  BY <1>1, <1>2, ElemsTail
<1>4. PICK r : r = Plain("unopened", NoTerminal)
  OBVIOUS
<1>5. r \in Messages /\ Inert(r)
  <2>1. "unopened" \in Kinds /\ NoTerminal \in Nat
    BY DEF Kinds, NoTerminal
  <2>2. r \in Messages /\ r.kind = "unopened"
    BY <1>4, <2>1, PlainMsg
  <2> QED
    BY <2>2 DEF Inert
<1>6. relay' \in Sessions /\ relay'.reply = r
  BY <1>1, <1>2, <1>4, <1>5 DEF Sessions
<1>7. OrderInv' /\ \A x \in Path' : x \in Path \/ Inert(x)
  BY <1>1, <1>2, <1>5, <1>6, OrderInert
<1>8. \A x \in Sending' : FrameOK(x, End(driver), Org(driver))
  BY <1>1, <1>3 DEF Sending, PublicationInv, FramesInv
<1> QED
  BY <1>1, <1>2, <1>3, <1>5, <1>6, <1>7, <1>8, WireKeeps

(* Less is asked of what is on the path once output came late. *)
LEMMA LateFits ==
  ASSUME NEW l \in BOOLEAN, l => late', NEW x, NEW y, Fits(l, x, y)
  PROVE  Fits(late', x, y)
  BY DEF Fits

(* The previous connection's frames count like any others. *)
LEMMA RelayReadsStaleKeeps ==
  ASSUME PublicationInv, RelayReadsStale
  PROVE  PublicationInv'
<1>1. /\ stale # << >> /\ stale' \in {Tail(stale), << >>} /\ HandleAtRelay(Head(stale))
      /\ shell' = shell /\ driver' = driver /\ events' = events /\ control' = control
      /\ mux' = mux /\ up' = up /\ down' = down /\ relay' = relay /\ secured' = secured
      /\ late' = (late \/ (log' # log /\ relay.reply.kind \in {"opened", "mismatch"}))
  BY DEF RelayReadsStale, pubVars
<1>2. stale \in Seq(Messages)
  BY WireTypes
<1>3. PICK m : m = Head(stale)
  OBVIOUS
<1>4. /\ m \in Messages /\ m \in Elems(stale) /\ stale' \in Seq(Messages)
      /\ Elems(stale') \subseteq Elems(stale)
  <2>1. /\ m \in Messages /\ m \in Elems(stale) /\ Tail(stale) \in Seq(Messages)
        /\ Elems(Tail(stale)) \subseteq Elems(stale)
    BY <1>1, <1>2, <1>3, ElemsTail
  <2>2. << >> \in Seq(Messages) /\ Elems(<< >>) = {}
    BY ElemsEmpty
  <2> QED
    BY <1>1, <2>1, <2>2
<1>5. FrameOK(m, End(driver), Org(driver))
  BY <1>4 DEF PublicationInv, FramesInv, Sending
<1>6. PICK P : P = Path
  OBVIOUS
<1>7. P = Path' /\ P \subseteq Messages /\ DriverInv(driver, P)
  BY <1>1, <1>6, PathType DEF PublicationInv, Path
<1>8. Handled /\ DriverInv(driver, P)' /\ TermInv'
  BY <1>1, <1>3, <1>4, <1>5, <1>7, HandleKeeps
<1>9. TypeInv'
  BY <1>1, <1>4, <1>8 DEF PublicationInv, TypeInv, Handled
<1>10. FramesInv'
  BY <1>1, <1>4, FramesStand
<1>11. OrderInv'
  <2>1. \A x, y : Fits(late, x, y) => Fits(late', x, y)
    BY <1>1, LateFits DEF PublicationInv, TypeInv
  <2> QED
    BY <1>1, <2>1 DEF PublicationInv, OrderInv, Ordered, Before
<1>12. ReplyInv'
  <2> SUFFICES ASSUME ~late', IsReply(relay.reply), relay.reply.id = term'
               PROVE  relay.reply.at = Len(log')
    BY <1>1 DEF ReplyInv, IsReply
  <2>1. ~late /\ log' = log
    BY <1>1 DEF IsReply
  <2>2. term \in Nat /\ relay.reply.id \in 1 .. term
    <3>1. relay.reply \in P /\ term \in Nat
      BY <1>6, DriverFacts DEF Path
    <3> QED
      BY <1>7, <3>1 DEF DriverInv, PathOK, Inert, IsReply
  <2>3. term' = term
    BY <1>8, <2>2 DEF Handled
  <2> QED
    BY <2>1, <2>3 DEF PublicationInv, ReplyInv
<1> QED
  BY <1>7, <1>8, <1>9, <1>10, <1>11, <1>12, RelayKeeps

(* What the relay answers: the offset it is at, or nothing that carries    *)
(* one.                                                                    *)
LEMMA ReplyNames ==
  ASSUME NEW m \in Messages, FrameOK(m, End(driver), Org(driver)), HandleAtRelay(m), Handled,
         NEW r, r = ReplyTo(m)
  PROVE  /\ r \in Messages
         /\ \/ Inert(r)
            \/ IsReply(r) /\ r.id = term' /\ r.at = Len(log')
               /\ (r.kind = "mismatch" => End(driver) > 0)
<1>1. term' \in Nat /\ log' \in Seq(Nat) /\ Len(log') \in Nat /\ << >> \in Seq(Nat)
  BY DEF Handled
<1>2. m.id \in Nat /\ m.kind \in Kinds
  BY DEF Messages
<1>3. CASE m.kind = "open"
  <2>1. r = Msg("opened", term', Len(log'), << >>)
    BY <1>3 DEF ReplyTo
  <2>2. "opened" \in Kinds
    BY DEF Kinds
  <2>3. r \in Messages
    BY <1>1, <2>1, <2>2, MsgType
  <2>4. r.kind = "opened" /\ r.id = term' /\ r.at = Len(log')
    BY <2>1 DEF Msg
  <2> QED
    BY <2>3, <2>4 DEF IsReply
<1>4. CASE m.kind = "output" /\ ~Accepting(m)
  <2>1. r = Plain("refused", m.id)
    BY <1>4 DEF ReplyTo
  <2>2. "refused" \in Kinds
    BY DEF Kinds
  <2>3. r \in Messages /\ r.kind = "refused"
    BY <1>2, <2>1, <2>2, PlainMsg
  <2> QED
    BY <2>3 DEF Inert
<1>5. CASE m.kind = "output" /\ Accepting(m) /\ m.at # Len(log)
  <2>1. r = Msg("mismatch", m.id, Len(log), << >>)
    BY <1>5 DEF ReplyTo
  <2>2. term' = term /\ log' = log /\ m.id = term
    BY <1>5 DEF HandleAtRelay, OutputAtRelay, Accepting, logVars
  <2>3. "mismatch" \in Kinds
    BY DEF Kinds
  <2>4. r \in Messages
    BY <1>1, <1>2, <2>1, <2>2, <2>3, MsgType
  <2>5. r.kind = "mismatch" /\ r.id = term' /\ r.at = Len(log')
    BY <2>1, <2>2 DEF Msg
  <2>6. End(driver) > 0
    BY <1>5 DEF FrameOK
  <2> QED
    BY <2>4, <2>5, <2>6 DEF IsReply
<1>6. CASE ~(m.kind = "open") /\ ~(m.kind = "output" /\ ~Accepting(m))
           /\ ~(m.kind = "output" /\ Accepting(m) /\ m.at # Len(log))
  <2>1. r = NoReply
    BY <1>6 DEF ReplyTo
  <2> QED
    BY <2>1, EndedMsg
<1> QED
  BY <1>3, <1>4, <1>5, <1>6

(* The relay reads a frame and prepares its answer. *)
LEMMA RelayReadsKeeps ==
  ASSUME PublicationInv, RelayReads
  PROVE  PublicationInv'
<1>1. /\ up # << >> /\ up' = Tail(up) /\ HandleAtRelay(Head(up))
      /\ relay' = [relay EXCEPT !.open = relay.open \/ Head(up).kind = "open",
                                !.reply = ReplyTo(Head(up))]
      /\ shell' = shell /\ driver' = driver /\ events' = events /\ control' = control
      /\ mux' = mux /\ down' = down /\ stale' = stale /\ secured' = secured /\ late' = late
  BY DEF RelayReads, pubVars
<1>2. /\ control \in Seq(Messages) /\ events \in Seq(Messages) /\ up \in Seq(Messages)
      /\ down \in Seq(Messages) /\ stale \in Seq(Messages) /\ mux \in Muxes
      /\ relay \in Sessions /\ Ordered(late, events) /\ Ordered(late, down)
  BY WireTypes
<1>3. PICK m, r : m = Head(up) /\ r = ReplyTo(m)
  OBVIOUS
<1>4. /\ m \in Messages /\ m \in Elems(up) /\ up' \in Seq(Messages)
      /\ Elems(up') \subseteq Elems(up)
  BY <1>1, <1>2, <1>3, ElemsTail
<1>5. FrameOK(m, End(driver), Org(driver))
  BY <1>4 DEF PublicationInv, FramesInv, Sending
<1>6. PICK P, Q : P = Path /\ Q = Path'
  OBVIOUS
<1>7. P \subseteq Messages /\ DriverInv(driver, P)
  BY <1>6, PathType DEF PublicationInv
<1>8. Handled /\ DriverInv(driver, P)' /\ TermInv'
  BY <1>1, <1>3, <1>4, <1>5, <1>7, HandleKeeps
<1>9. /\ r \in Messages
      /\ \/ Inert(r)
         \/ IsReply(r) /\ r.id = term' /\ r.at = Len(log')
            /\ (r.kind = "mismatch" => End(driver) > 0)
  BY <1>1, <1>3, <1>4, <1>5, <1>8, ReplyNames
<1>10. relay' \in Sessions /\ relay'.reply = r
  <2>1. PICK s : s = [relay EXCEPT !.open = relay.open \/ m.kind = "open"]
    OBVIOUS
  <2>2. relay' = [s EXCEPT !.reply = r]
    BY <1>1, <1>3, <2>1
  <2>3. s \in Sessions
    BY <1>2, <2>1 DEF Sessions
  <2> QED
    BY <1>9, <2>2, <2>3 DEF Sessions
<1>11. TypeInv'
  BY <1>1, <1>2, <1>4, <1>8, <1>10 DEF PublicationInv, TypeInv, Handled, Muxes, Sessions
<1>12. FramesInv'
  BY <1>1, <1>4, FramesStand
<1>13. /\ term \in Nat /\ term > 0 /\ term' \in Nat /\ term' > 0 /\ term <= term'
       /\ durable' \in Nat /\ Len(log') \in Nat /\ durable' <= Len(log')
       /\ OldBytes \in Nat /\ End(driver) \in Nat /\ driver.stream.start \in Nat
  <2>1. /\ term \in Nat /\ term > 0 /\ OldBytes \in Nat /\ End(driver) \in Nat
        /\ driver.stream.start \in Nat
    BY DriverFacts
  <2>2. /\ term' \in Nat /\ term' > 0 /\ term <= term' /\ durable' \in Nat /\ Len(log') \in Nat
    BY <1>8, <2>1 DEF Handled
  <2>3. durable' <= Len(log')
    BY <1>8 DEF TermInv
  <2> QED
    BY <2>1, <2>2, <2>3
<1>14. ASSUME NEW x \in P PROVE Fits(late, x, r)
  <2>1. x.id \in Nat /\ x.at \in Nat /\ PathOK(x, driver)
    BY <1>7 DEF Messages, DriverInv
  <2>2. PathOK(x, driver)'
    BY <1>8 DEF DriverInv
  <2>3. CASE Inert(r)
    BY <2>3, InertFits
  <2>4. CASE IsReply(r) /\ r.id = term' /\ r.at = Len(log')
    <3>1. New(x) => r.id > 1
      BY <1>13, <2>1, <2>4 DEF PathOK, New, Inert
    <3>2. x.kind = "ack" /\ x.id = r.id => x.at <= r.at
      <4>1. x.kind = "ack" /\ x.id = term' => x.at <= durable'
        BY <2>2 DEF PathOK
      <4> QED
        BY <1>13, <2>1, <2>4, <4>1
    <3>3. New(x) => ~Old(r)
      BY <3>1 DEF Old
    <3> QED
      BY <3>2, <3>3 DEF Fits
  <2> QED
    BY <1>9, <2>3, <2>4
<1>15. OrderInv'
  <2>1. Before(late, Elems(events') \cup Elems(down'), {relay'.reply})
    BY <1>1, <1>6, <1>10, <1>14 DEF Before, Path
  <2>2. Before(late, Elems(events'), Elems(down'))
    BY <1>1 DEF PublicationInv, OrderInv, Before
  <2> QED
    BY <1>1, <1>2, <2>1, <2>2 DEF OrderInv, Before, Ordered
<1>16. ReplyInv'
  <2>1. IsReply(r) => r.at = Len(log')
    BY <1>9 DEF Inert, IsReply
  <2> QED
    BY <1>1, <1>2, <1>10, <2>1 DEF ReplyInv, IsReply
<1>17. Said(r)'
  <2>1. CASE Inert(r)
    BY <2>1, InertSaid
  <2>2. CASE IsReply(r) /\ r.id = term' /\ r.at = Len(log')
             /\ (r.kind = "mismatch" => End(driver) > 0)
    <3>1. OriginOK(driver, P)' /\ PlaceOK(driver)' /\ RecoverOK(driver, P)'
      BY <1>8 DEF DriverInv
    <3>2. End(driver') = End(driver) /\ Base' = BaseOf(r.id)
      BY <1>1, <2>2 DEF Base, BaseOf
    <3>3. IF End(driver) = 0 THEN r.at = BaseOf(r.id) ELSE r.at <= End(driver)
      BY <1>1, <2>2, <3>1, <3>2 DEF PlaceOK, End
    <3>4. PathOK(r, driver)'
      <4>1. r.id \in 1 .. term' /\ r.kind # "ack"
        BY <1>13, <2>2 DEF IsReply
      <4>2. /\ r.kind = "opened" => IF End(driver) = 0 THEN r.at = BaseOf(r.id)
                                                       ELSE r.at <= End(driver)
            /\ r.kind = "mismatch" => End(driver) > 0 /\ r.at <= End(driver)
        BY <1>13, <2>2, <3>3
      <4> QED
        BY <3>2, <4>1, <4>2 DEF PathOK, End, BaseOf
    <3>5. (Placed(driver) /\ Org(driver) = 0 /\ OldBytes > 0 => ~Old(r))'
      <4>1. Old(r) => term' = 1
        BY <2>2 DEF Old
      <4>2. (Placed(driver) /\ term = 1 => Org(driver) = OldBytes)'
        BY <3>1 DEF OriginOK
      <4> QED
        BY <1>13, <4>1, <4>2 DEF Old
    <3>6. (~late /\ term = 1 => driver.stream.start <= durable)'
      BY <3>1 DEF RecoverOK
    <3>7. (~late /\ term = 1 => driver.stream.start <= r.at)'
      BY <1>1, <1>13, <2>2, <3>6
    <3> QED
      BY <3>4, <3>5, <3>7 DEF Said
  <2> QED
    BY <1>9, <2>1, <2>2
<1>18. \A x \in Q : x \in P \/ x = r
  BY <1>1, <1>6, <1>10 DEF Path
<1>19. \A x \in Q : x \in P \/ Said(x)'
  BY <1>17, <1>18
<1> QED
  BY <1>6, <1>8, <1>11, <1>12, <1>15, <1>16, <1>19, RelayKeeps

-----------------------------------------------------------------------------
(* The specification *)

LEMMA InitKeeps == Init => PublicationInv
<1> SUFFICES ASSUME Init PROVE PublicationInv
  OBVIOUS
<1>0. late = FALSE
  BY DEF Init
<1>1. /\ OldBytes \in Nat /\ 0 \in Nat /\ 1 \in Nat \ {0} /\ << >> \in Seq(Nat)
      /\ << >> \in Seq(Messages) /\ Len(<< >>) = 0
  BY BoundsAssumption
<1>2. /\ control = << >> /\ events = << >> /\ up = << >> /\ down = << >> /\ stale = << >>
      /\ relay = NewSession /\ term = 1 /\ durable = OldBytes /\ secured = 0
      /\ shell = [written |-> 0, exited |-> FALSE]
  BY DEF Init
<1>3. /\ log \in Seq(Nat) /\ Len(log) = OldBytes /\ \A i \in 1 .. OldBytes : log[i] = 0
  BY <1>1 DEF Init
<1>4. NewStream \in Streams
  BY <1>1 DEF NewStream, Streams, NoTarget
<1>5. driver \in Drivers
  BY <1>1, <1>4 DEF Init, Drivers
<1>6. /\ driver.stream = NewStream /\ driver.drawn = 0 /\ driver.waiting = << >>
      /\ driver.gone = FALSE /\ driver.closed = FALSE /\ driver.over = "no"
  BY DEF Init
<1>7. /\ driver.stream.start = 0 /\ driver.stream.bytes = << >> /\ driver.stream.next = 0
      /\ driver.stream.positioned = FALSE
  BY <1>6 DEF NewStream
<1>8. End(driver) = 0 /\ Taken(driver) = 0 /\ Org(driver) = 0 /\ ~Placed(driver)
  <2>1. PICK n \in Nat : n = Len(<< >>) /\ n = 0
    BY <1>1
  <2>2. End(driver) = 0 + n /\ Taken(driver) = 0 - n
    BY <1>6, <1>7, <2>1, Zenon DEF End, EndOf, Taken
  <2>3. End(driver) = 0 /\ Taken(driver) = 0
    BY <2>1, <2>2
  <2> QED
    BY <1>7, <2>3 DEF Org, Placed
<1>9. relay \in Sessions /\ relay.reply = NoReply
  BY <1>2, EndedMsg DEF Sessions, NewSession
<1>10. mux \in Muxes
  BY DEF Init, Muxes, NoTerminal
<1>11. TypeInv
  BY <1>0, <1>1, <1>2, <1>3, <1>5, <1>9, <1>10 DEF TypeInv, Muxes, Sessions
<1>12. Path = {NoReply} /\ Sending = {} /\ Elems(events) = {} /\ Elems(down) = {}
  BY <1>2, <1>9, ElemsEmpty DEF Path, Sending
<1>13. Base = OldBytes
  BY <1>2 DEF Base
<1>14. TermInv
  BY <1>1, <1>2, <1>3, <1>13 DEF TermInv
<1>15. FramesInv
  BY <1>12 DEF FramesInv
<1>16. OrderInv
  BY <1>1, <1>2, <1>12 DEF OrderInv, Ordered, Before
<1>17. ReplyInv
  BY <1>2, <1>9, EndedMsg DEF ReplyInv, IsReply, Inert
<1>18. DriverInv(driver, Path)
  <2>1. DriverOK(driver)
    <3>1. StreamOK(driver.stream, Org(driver))
      BY <1>1, <1>4, <1>6, <1>7, <1>8 DEF StreamOK, EndOf
    <3> QED
      BY <1>1, <1>5, <1>6, <3>1 DEF DriverOK
  <2>2. OriginOK(driver, Path)
    BY <1>8 DEF OriginOK
  <2>3. PlaceOK(driver)
    BY <1>2, <1>3, <1>8, <1>13 DEF PlaceOK
  <2>4. \A m \in Path : PathOK(m, driver)
    BY <1>12, EndedMsg DEF PathOK, Inert
  <2>5. GoneOK(driver)
    BY <1>2, <1>6, <1>7, <1>8 DEF GoneOK
  <2>6. RecoverOK(driver, Path)
    BY <1>1, <1>2, <1>6, <1>7, <1>8 DEF RecoverOK
  <2> QED
    BY <2>1, <2>2, <2>3, <2>4, <2>5, <2>6 DEF DriverInv
<1> QED
  BY <1>11, <1>14, <1>15, <1>16, <1>17, <1>18 DEF PublicationInv

LEMMA StutterKeeps ==
  ASSUME PublicationInv, UNCHANGED vars
  PROVE  PublicationInv'
<1>1. /\ shell' = shell /\ driver' = driver /\ events' = events /\ control' = control
      /\ mux' = mux /\ up' = up /\ down' = down /\ stale' = stale /\ relay' = relay
      /\ term' = term /\ log' = log /\ durable' = durable /\ secured' = secured /\ late' = late
  BY DEF vars, pubVars, wireVars, logVars
<1>2. /\ control \in Seq(Messages) /\ events \in Seq(Messages) /\ up \in Seq(Messages)
      /\ down \in Seq(Messages) /\ stale \in Seq(Messages) /\ mux \in Muxes
      /\ relay \in Sessions
  BY WireTypes
<1>3. OrderInv' /\ \A x \in Path' : x \in Path \/ Inert(x)
  BY <1>1, PathStands
<1>4. \A x \in Sending' : FrameOK(x, End(driver), Org(driver))
  BY <1>1 DEF Sending, PublicationInv, FramesInv
<1> QED
  BY <1>1, <1>2, <1>3, <1>4, WireKeeps

LEMMA NextKeeps == PublicationInv /\ [Next]_vars => PublicationInv'
<1> SUFFICES ASSUME PublicationInv, [Next]_vars PROVE PublicationInv'
  OBVIOUS
<1>1. CASE Write \/ Exit
  BY <1>1, ShellKeeps
<1>2. CASE DriverEvent
  BY <1>2, DriverEventKeeps
<1>3. CASE DriverOwnerGone
  BY <1>3, DriverOwnerGoneKeeps
<1>4. ASSUME NEW n \in 1 .. MaxChunk, DriverDraw(n) PROVE PublicationInv'
  BY <1>4, DriverDrawKeeps
<1>5. CASE Forward
  BY <1>5, ForwardKeeps
<1>6. CASE Stash
  BY <1>6, StashKeeps
<1>7. CASE Receive
  BY <1>7, ReceiveKeeps
<1>8. CASE Connect
  BY <1>8, ConnectKeeps
<1>9. CASE SweepOrphans
  BY <1>9, SweepOrphansKeeps
<1>10. CASE LoseConnection
  BY <1>10, LoseConnectionKeeps
<1>11. CASE RelayReads
  BY <1>11, RelayReadsKeeps
<1>12. CASE RelayReplies
  BY <1>12, RelayRepliesKeeps
<1>13. CASE RelayReadsStale
  BY <1>13, RelayReadsStaleKeeps
<1>14. CASE AckTask
  BY <1>14, AckTaskKeeps
<1>15. CASE Flush
  BY <1>15, FlushKeeps
<1>16. CASE GraceExpires
  BY <1>16, GraceExpiresKeeps
<1>17. CASE RelayCrash
  BY <1>17, RelayCrashKeeps
<1>18. CASE UNCHANGED vars
  BY <1>18, StutterKeeps
<1>19. CASE RelayRefusesOpen
  BY <1>19, RelayRefusesOpenKeeps
<1> QED
  BY <1>1, <1>2, <1>3, <1>4, <1>5, <1>6, <1>7, <1>8, <1>9, <1>10, <1>11, <1>12, <1>13, <1>14,
     <1>15, <1>16, <1>17, <1>18, <1>19
  DEF Next, DriverStep

(* The inductive invariant: the types, the driver's stream against the     *)
(* relay's terminal, what the frames on their way carry and in which order *)
(* the relay's answers reach the driver (publish.rs drive, session.rs      *)
(* on_control and on_frame, relay/publisher.rs).                           *)
THEOREM PublicationInvariant == Spec => []PublicationInv
<1> QED
  BY InitKeeps, NextKeeps, PTL DEF Spec

(* No splice: the relay's terminal holds what an earlier process left and  *)
(* then the shell's bytes in order, each once, whatever connections were   *)
(* lost, frames retransmitted or relays restarted, and even while the      *)
(* relay still reads the previous connection (stream.rs Outgoing,          *)
(* terminal.rs append's offset check).                                     *)
THEOREM TerminalHoldsTheShellsBytes == Spec => []StreamIntegrity
<1>1. PublicationInv => StreamIntegrity
  <2> SUFFICES ASSUME PublicationInv PROVE StreamIntegrity
    OBVIOUS
  <2>1. log \in Seq(Nat) /\ Len(log) \in Nat /\ Base \in Nat
    BY DriverFacts
  <2>2. \A i \in 1 .. Len(log) : log[i] = IF i <= Base THEN 0 ELSE i - Base
    BY DEF PublicationInv, TermInv
  <2>3. log = [i \in 1 .. Len(log) |-> log[i]]
    BY <2>1
  <2> QED
    BY <2>2, <2>3 DEF StreamIntegrity
<1> QED
  BY <1>1, PublicationInvariant, PTL

(* The driver releases a byte only once the relay has made it durable      *)
(* (stream.rs Retained::release_through on terminal.ack), so that a relay  *)
(* crash can always be made good.                                          *)
THEOREM ReleasedIsDurable == Spec => []NoByteForgotten
<1>1. PublicationInv => NoByteForgotten
  <2> SUFFICES ASSUME PublicationInv, driver.over = "no"
               PROVE  (driver.drawn - Len(driver.waiting)) - Len(driver.stream.bytes) <= secured
    BY DEF NoByteForgotten
  <2>1. /\ Taken(driver) \in Nat /\ driver.stream.start \in Nat /\ secured \in Nat
        /\ End(driver) = Org(driver) + Taken(driver) /\ Org(driver) \in Nat
    BY DriverFacts
  <2>2. Len(driver.stream.bytes) \in Nat
    BY DEF PublicationInv, TypeInv, Drivers, Streams
  <2>3. End(driver) = driver.stream.start + Len(driver.stream.bytes)
    BY DEF End, EndOf
  <2>4. driver.stream.start - Org(driver) <= secured
    BY DEF PublicationInv, DriverInv, GoneOK
  <2>5. Taken(driver) - Len(driver.stream.bytes) <= secured
    BY <2>1, <2>2, <2>3, <2>4
  <2> QED
    BY <2>5 DEF Taken
<1> QED
  BY <1>1, PublicationInvariant, PTL

(* A close that the driver sends for a finished shell (publish.rs, drive)  *)
(* comes after every byte the shell wrote was durable at the relay.        *)
THEOREM CloseFollowsEveryByte == Spec => []CloseAfterAll
<1>1. PublicationInv => CloseAfterAll
  BY DEF PublicationInv, DriverInv, GoneOK, CloseAfterAll
<1> QED
  BY <1>1, PublicationInvariant, PTL

(* A driver that gives its terminal up as desynchronised has been given a  *)
(* new one, or the relay took a lost connection's output between its look  *)
(* at the offset and its answer: every other answer about the first        *)
(* terminal lies within what is retained (stream.rs attached and           *)
(* mismatch), whatever the connections, crashes and late closes.           *)
THEOREM OneTerminalIsRecoverable == Spec => []OnlyReplacementIsUnrecoverable
<1>1. PublicationInv => OnlyReplacementIsUnrecoverable
  <2> SUFFICES ASSUME PublicationInv, driver.over = "unrecoverable", ~late PROVE term > 1
    BY DEF OnlyReplacementIsUnrecoverable
  <2>1. term \in Nat /\ term > 0
    BY DriverFacts
  <2>2. term # 1
    BY DEF PublicationInv, DriverInv, RecoverOK
  <2> QED
    BY <2>1, <2>2
<1> QED
  BY <1>1, PublicationInvariant, PTL
=============================================================================
