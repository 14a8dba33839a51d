--------------------------- MODULE InputPathProofs ---------------------------
(***************************************************************************)
(* What the shell reads of a subscription's keystrokes, for any number of  *)
(* subscriptions, keystrokes, connections and any size of the queues.      *)
(*                                                                         *)
(* The argument follows a keystroke through the five places it can be in,  *)
(* from the relay's channel to the shell:                                  *)
(*   - Order: in each place and from one to the next, keystrokes of one    *)
(*     subscription are in the order of their numbers, all below the next  *)
(*     number expected;                                                    *)
(*   - Whole: as long as everything on the way still runs, what was        *)
(*     acknowledged on the present connection, after it had its            *)
(*     terminal.open handled, is in one of the places;                     *)
(*   - NoHoles: behind the point where a queue overflowed or a party went  *)
(*     away nothing follows, so that what has come further never has a     *)
(*     hole.                                                               *)
(***************************************************************************)
EXTENDS InputPath, TLAPS

(* An element of a queue. *)
In(x, q) == \E i \in 1..Len(q) : q[i] = x

(* Two keystrokes of one subscription, in order. *)
Less(x, y) == x.m = y.m /\ x.n > 0 /\ y.n > 0 => x.n < y.n

Sorted(q) == \A i, j \in 1..Len(q) : i < j => Less(q[i], q[j])
Before(q, r) == \A x, y : In(x, q) /\ In(y, r) => Less(x, y)

(* Every occurrence of x comes after a terminal.opened. *)
Preceded(x, q) == \A i \in 1..Len(q) : q[i] = x => \E j \in 1..(i - 1) : q[j] = Opened

Keystroke(a) == [m |-> a.m, n |-> a.n, g |-> a.g]

Items == [m : Mirrors, n : Nat, g : Nat \ {0}]
Acknowledgements == [m : Mirrors, n : Nat \ {0}, g : Nat \ {0}, opened : BOOLEAN]

InputTypeOK ==
  /\ expected \in [Mirrors -> Nat \ {0}]
  /\ slot \in Nat /\ conns \in Nat /\ link \in Nat /\ slot <= conns /\ link <= conns
  /\ IF link = 0 THEN socket = <<>> ELSE slot = link
  /\ opened \in BOOLEAN /\ attached \in BOOLEAN /\ hosted \in BOOLEAN
  /\ driver \in {"running", "over"}
  /\ accepted \subseteq Acknowledgements
  /\ channel \in Seq(Items) /\ socket \in Seq(Items \cup {Opened})
  /\ events \in Seq(Items) /\ notices \in Seq(Items) /\ typed \in Seq(Items)

(* The places, nearest to the shell first, and what they can hold. *)
Order ==
  /\ Sorted(typed) /\ Sorted(notices) /\ Sorted(events) /\ Sorted(socket) /\ Sorted(channel)
  /\ Before(typed, notices) /\ Before(typed, events) /\ Before(typed, socket)
  /\ Before(typed, channel) /\ Before(notices, events) /\ Before(notices, socket)
  /\ Before(notices, channel) /\ Before(events, socket) /\ Before(events, channel)
  /\ Before(socket, channel)

Known ==
  /\ \A x : In(x, typed) => x.n > 0 /\ x.n < expected[x.m]
  /\ \A x : In(x, notices) \/ In(x, events) \/ In(x, channel) => x.n < expected[x.m]
  /\ \A x : In(x, socket) => x = Opened \/ (x.n < expected[x.m] /\ x.g = link)
  /\ \A x : In(x, channel) => x.g = slot
  /\ \A a \in accepted : a.n < expected[a.m] /\ a.g <= conns

(* What was acknowledged once the open had been handled follows it. *)
Announced ==
  /\ link # 0 /\ hosted /\ opened => attached \/ In(Opened, socket)
  /\ \A a \in accepted : a.opened /\ a.g = link /\ hosted =>
       /\ attached \/ Preceded(Keystroke(a), socket)
       /\ opened

Flowing == owner = "running" /\ driver = "running" /\ hosted /\ link # 0

Whole ==
  Flowing => \A a \in accepted : a.opened /\ a.g = link =>
    LET k == Keystroke(a)
    IN In(k, typed) \/ In(k, notices) \/ In(k, events) \/ In(k, socket) \/ In(k, channel)

(* a was acknowledged before x, on the same connection. *)
Earlier(a, x) == a.m = x.m /\ a.g = x.g /\ a.n < x.n /\ a.opened

NoHoles ==
  /\ \A x, a : In(x, typed) /\ a \in accepted /\ Earlier(a, x) => In(Keystroke(a), typed)
  /\ \A x, a : In(x, notices) /\ a \in accepted /\ Earlier(a, x) =>
       In(Keystroke(a), typed) \/ In(Keystroke(a), notices)
  /\ owner = "running" => \A x, a : In(x, events) /\ a \in accepted /\ Earlier(a, x) =>
       In(Keystroke(a), typed) \/ In(Keystroke(a), notices) \/ In(Keystroke(a), events)

InputInv == InputTypeOK /\ Order /\ Known /\ Announced /\ Whole /\ NoHoles

-----------------------------------------------------------------------------
(* Queues. *)

LEMMA InType ==
  ASSUME NEW S, NEW q \in Seq(S), NEW x, In(x, q)
  PROVE  x \in S
BY DEF In

LEMMA EmptyIn ==
  /\ \A x : ~In(x, <<>>) /\ Preceded(x, <<>>)
  /\ Sorted(<<>>)
  /\ \A S : <<>> \in Seq(S)
<1>1. Len(<<>>) = 0 /\ 1..0 = {}
  OBVIOUS
<1>2. \A x : ~In(x, <<>>)
  BY <1>1 DEF In
<1>3. \A x : Preceded(x, <<>>)
  BY <1>1 DEF Preceded
<1>4. Sorted(<<>>)
  BY <1>1 DEF Sorted
<1> QED
  BY <1>2, <1>3, <1>4

LEMMA AppendIn ==
  ASSUME NEW S, NEW q \in Seq(S), NEW y \in S
  PROVE  /\ Append(q, y) \in Seq(S)
         /\ \A x : In(x, Append(q, y)) <=> In(x, q) \/ x = y
         /\ Sorted(q) /\ (\A x : In(x, q) => Less(x, y)) => Sorted(Append(q, y))
         /\ \A x : Preceded(x, q) /\ (x = y => In(Opened, q)) => Preceded(x, Append(q, y))
<1> DEFINE r == Append(q, y)
<1>1. /\ r \in Seq(S) /\ Len(r) = Len(q) + 1 /\ Len(q) \in Nat
      /\ \A i \in 1..Len(q) : r[i] = q[i]
      /\ r[Len(q) + 1] = y
  OBVIOUS
<1> HIDE DEF r
<1>2. \A x : In(x, r) <=> In(x, q) \/ x = y
  BY <1>1 DEF In
<1>3. ASSUME Sorted(q), \A x : In(x, q) => Less(x, y) PROVE Sorted(r)
  <2> SUFFICES ASSUME NEW i \in 1..Len(r), NEW j \in 1..Len(r), i < j
               PROVE  Less(r[i], r[j])
    BY DEF Sorted
  <2>1. i \in 1..Len(q) /\ r[i] = q[i]
    BY <1>1
  <2>2. CASE j \in 1..Len(q)
    BY <1>1, <1>3, <2>1, <2>2 DEF Sorted
  <2>3. CASE j = Len(q) + 1
    BY <1>1, <1>3, <2>1, <2>3 DEF In
  <2> QED
    BY <1>1, <2>2, <2>3
<1>4. ASSUME NEW x, Preceded(x, q), x = y => In(Opened, q) PROVE Preceded(x, r)
  <2> SUFFICES ASSUME NEW i \in 1..Len(r), r[i] = x
               PROVE  \E j \in 1..(i - 1) : r[j] = Opened
    BY DEF Preceded
  <2>1. CASE i \in 1..Len(q)
    BY <1>1, <1>4, <2>1 DEF Preceded
  <2>2. CASE i = Len(q) + 1
    BY <1>1, <1>4, <2>2 DEF In
  <2> QED
    BY <1>1, <2>1, <2>2
<1> QED
  BY <1>1, <1>2, <1>3, <1>4 DEF r

LEMMA TailIn ==
  ASSUME NEW S, NEW q \in Seq(S), q # <<>>
  PROVE  /\ Tail(q) \in Seq(S) /\ Head(q) \in S
         /\ \A x : In(x, q) <=> x = Head(q) \/ In(x, Tail(q))
         /\ Sorted(q) => Sorted(Tail(q)) /\ \A x : In(x, Tail(q)) => Less(Head(q), x)
         /\ \A x : Preceded(x, q) => x # Head(q) /\ (Head(q) # Opened => Preceded(x, Tail(q)))
<1> DEFINE r == Tail(q)
<1>1. /\ Len(q) \in Nat /\ Len(q) > 0 /\ Len(r) = Len(q) - 1
      /\ \A i \in 1..Len(r) : r[i] = q[i + 1]
      /\ Head(q) = q[1] /\ r \in Seq(S) /\ Head(q) \in S
  OBVIOUS
<1> HIDE DEF r
<1>2. ASSUME NEW x PROVE In(x, q) <=> x = Head(q) \/ In(x, r)
  <2>1. ASSUME NEW i \in 1..Len(q), q[i] = x PROVE x = Head(q) \/ In(x, r)
    <3>1. CASE i = 1
      BY <1>1, <2>1, <3>1
    <3>2. CASE i # 1
      <4>1. i - 1 \in 1..Len(r) /\ r[i - 1] = q[i]
        BY <1>1, <3>2
      <4> QED
        BY <2>1, <4>1 DEF In
    <3> QED
      BY <3>1, <3>2
  <2>2. In(x, r) => In(x, q)
    BY <1>1 DEF In
  <2>3. x = Head(q) => In(x, q)
    BY <1>1 DEF In
  <2> QED
    BY <2>1, <2>2, <2>3 DEF In
<1>3. ASSUME Sorted(q) PROVE Sorted(r)
  <2> SUFFICES ASSUME NEW i \in 1..Len(r), NEW j \in 1..Len(r), i < j
               PROVE  Less(r[i], r[j])
    BY DEF Sorted
  <2>1. i + 1 \in 1..Len(q) /\ j + 1 \in 1..Len(q) /\ i + 1 < j + 1
    BY <1>1
  <2>2. Less(q[i + 1], q[j + 1])
    BY <1>3, <2>1 DEF Sorted
  <2> QED
    BY <1>1, <2>2
<1>4. ASSUME Sorted(q), NEW x, In(x, r) PROVE Less(Head(q), x)
  <2>1. PICK i \in 1..Len(r) : r[i] = x
    BY <1>4 DEF In
  <2>2. 1 \in 1..Len(q) /\ i + 1 \in 1..Len(q) /\ 1 < i + 1 /\ q[i + 1] = x
    BY <1>1, <2>1
  <2> QED
    BY <1>1, <1>4, <2>2 DEF Sorted
<1>5. ASSUME NEW x, Preceded(x, q)
      PROVE  x # Head(q) /\ (Head(q) # Opened => Preceded(x, r))
  <2>1. x # Head(q)
    BY <1>1, <1>5 DEF Preceded
  <2>2. ASSUME Head(q) # Opened, NEW i \in 1..Len(r), r[i] = x
        PROVE  \E j \in 1..(i - 1) : r[j] = Opened
    <3>1. i + 1 \in 1..Len(q) /\ q[i + 1] = x
      BY <1>1, <2>2
    <3>2. PICK j \in 1..((i + 1) - 1) : q[j] = Opened
      BY <1>5, <3>1 DEF Preceded
    <3>3. j # 1 /\ j \in 1..i
      BY <1>1, <2>2, <3>2
    <3>4. j - 1 \in 1..(i - 1) /\ j - 1 \in 1..Len(r) /\ r[j - 1] = q[j]
      BY <1>1, <3>3
    <3> QED
      BY <3>2, <3>4
  <2> QED
    BY <2>1, <2>2 DEF Preceded
<1> QED
  BY <1>1, <1>2, <1>3, <1>4, <1>5 DEF r

-----------------------------------------------------------------------------
(* Steps that move no keystroke. *)

(* A party stops; whoever stopped does not run again. *)
LEMMA InputStops ==
  ASSUME InputInv, UNCHANGED <<expected, accepted, connVars, events, notices, owner, typed>>,
         hosted' \in BOOLEAN, hosted' => hosted, driver' \in {driver, "over"}
  PROVE  InputInv'
<1> USE DEF connVars
<1>1. InputTypeOK'
  BY DEF InputInv, InputTypeOK, Opened
<1>2. Order'
  BY DEF InputInv, Order
<1>3. Known'
  BY DEF InputInv, Known
<1>4. Announced'
  BY DEF InputInv, Announced
<1>5. Whole'
  BY DEF InputInv, Whole, Flowing
<1>6. NoHoles'
  BY DEF InputInv, NoHoles
<1> QED
  BY <1>1, <1>2, <1>3, <1>4, <1>5, <1>6 DEF InputInv

(* The connection breaks, is replaced, or is forgotten by the relay. *)
LEMMA InputConnection ==
  ASSUME InputInv, Disconnect \/ Connect \/ Detach
  PROVE  InputInv'
<1>1. UNCHANGED <<expected, accepted, hosted, events, notices, driver, owner, typed>>
  BY DEF Disconnect, Connect, Detach, relayVars, hostVars
<1>2. /\ channel' = channel \/ channel' = <<>>
      /\ socket' = socket \/ socket' = <<>>
  BY DEF Disconnect, Connect, Detach
<1>3. \A x : (In(x, channel') => In(x, channel)) /\ (In(x, socket') => In(x, socket))
  BY <1>2, EmptyIn
<1>4. /\ link' = 0 \/ link' = conns + 1
      /\ link' \in Nat /\ slot' \in Nat /\ conns' \in Nat /\ slot' <= conns' /\ link' <= conns'
      /\ conns <= conns' /\ socket' = <<>>
      /\ link' # 0 => slot' = link'
      /\ slot' = slot \/ channel' = <<>>
  <2>1. link \in Nat /\ slot \in Nat /\ conns \in Nat /\ slot <= conns /\ link <= conns
    BY DEF InputInv, InputTypeOK
  <2>2. CASE Disconnect
    BY <2>1, <2>2 DEF Disconnect
  <2>3. CASE Connect
    <3>1. link = 0 /\ socket = <<>>
      BY <2>3 DEF Connect, InputInv, InputTypeOK
    <3> QED
      BY <2>1, <2>3, <3>1 DEF Connect
  <2>4. CASE Detach
    <3>1. link = 0 /\ socket = <<>>
      BY <2>4 DEF Detach, InputInv, InputTypeOK
    <3> QED
      BY <2>1, <2>4, <3>1 DEF Detach
  <2> QED
    BY <2>2, <2>3, <2>4
<1>switches. attached' \in BOOLEAN /\ opened' \in BOOLEAN /\ (link' # 0 => ~opened')
  BY DEF Disconnect, Connect, Detach, InputInv, InputTypeOK
<1>5. \A a \in accepted : a.g # link'
  BY <1>4 DEF InputInv, InputTypeOK, Known, Acknowledgements
<1>6. InputTypeOK'
  <2>1. channel' \in Seq(Items) /\ socket' \in Seq(Items \cup {Opened})
    BY <1>2, EmptyIn DEF InputInv, InputTypeOK
  <2> QED
    BY <1>1, <1>4, <1>switches, <2>1 DEF InputInv, InputTypeOK, Opened
<1>7. Order'
  <2>1. Sorted(channel') /\ Sorted(socket')
    BY <1>2, EmptyIn DEF InputInv, Order
  <2> QED
    BY <1>1, <1>3, <2>1 DEF InputInv, Order, Before
<1>8. Known'
  <2>1. \A x : ~In(x, socket')
    BY <1>4, EmptyIn
  <2>2. \A x : In(x, channel') => x.g = slot'
    BY <1>2, <1>3, <1>4, EmptyIn DEF InputInv, Known
  <2>3. \A a \in accepted : a.g <= conns'
    BY <1>4 DEF InputInv, InputTypeOK, Known, Acknowledgements
  <2> QED
    BY <1>1, <1>3, <2>1, <2>2, <2>3 DEF InputInv, Known
<1>9. Announced'
  <2>1. link' # 0 => ~opened'
    BY <1>switches
  <2> QED
    BY <1>1, <1>5, <2>1 DEF Announced
<1>10. Whole'
  BY <1>1, <1>5 DEF Whole
<1>11. NoHoles'
  BY <1>1 DEF InputInv, NoHoles
<1> QED
  BY <1>6, <1>7, <1>8, <1>9, <1>10, <1>11 DEF InputInv

-----------------------------------------------------------------------------
(* Steps at the relay. *)

(* A resize request, or a keystroke with its acknowledgement, is put into  *)
(* the connection's channel.                                               *)
LEMMA InputAccepted ==
  ASSUME InputInv, NEW m \in Mirrors, RequestResize(m) \/ DeliverInput(m)
  PROVE  InputInv'
<1>1. UNCHANGED <<slot, conns, opened, link, socket, attached, hosted, events, notices, driver,
                  owner, typed>>
  BY DEF RequestResize, DeliverInput, hostVars
<1>2. CASE UNCHANGED <<channel, expected, accepted>>
  BY <1>1, <1>2, InputStops DEF connVars, InputInv, InputTypeOK
<1>3. CASE ~UNCHANGED <<channel, expected, accepted>>
  <2>1. Deliverable /\ slot \in Nat \ {0} /\ expected[m] \in Nat \ {0}
    BY <1>3 DEF RequestResize, DeliverInput, InputInv, InputTypeOK, Deliverable
  <2>2. PICK x \in Items :
          /\ x.m = m /\ x.g = slot /\ x.n \in {0, expected[m]}
          /\ channel' = Append(channel, x)
          /\ expected' = IF x.n = 0 THEN expected ELSE [expected EXCEPT ![m] = @ + 1]
          /\ accepted' = IF x.n = 0 THEN accepted
                         ELSE accepted \cup {[m |-> m, n |-> expected[m], g |-> slot,
                                              opened |-> opened]}
    <3>1. CASE RequestResize(m)
      <4>1. Item(m, 0) \in Items
        BY <2>1 DEF Item, Items
      <4> QED
        BY <2>1, <3>1, <4>1 DEF RequestResize, Delivers, Item
    <3>2. CASE DeliverInput(m)
      <4>1. Item(m, expected[m]) \in Items
        BY <2>1 DEF Item, Items
      <4> QED
        BY <2>1, <3>2, <4>1 DEF DeliverInput, Delivers, Item
    <3> QED
      BY <3>1, <3>2
  <2>3. /\ channel' \in Seq(Items)
        /\ \A y : In(y, channel') <=> In(y, channel) \/ y = x
        /\ Sorted(channel) /\ (\A y : In(y, channel) => Less(y, x)) => Sorted(channel')
    BY <2>2, AppendIn DEF InputInv, InputTypeOK
  <2>4. /\ expected' \in [Mirrors -> Nat \ {0}]
        /\ \A mm \in Mirrors : expected[mm] <= expected'[mm]
        /\ x.n < expected'[m]
    BY <2>1, <2>2 DEF InputInv, InputTypeOK
  <2>5. \A y \in Items \cup {Opened} : y = Opened \/ y.n < expected[y.m] => Less(y, x)
    BY <2>1, <2>2 DEF Less, Items, Opened, InputInv, InputTypeOK
  <2>6. \A a \in accepted' \ accepted :
          /\ x.n > 0 /\ a = [m |-> m, n |-> expected[m], g |-> slot, opened |-> opened]
          /\ Keystroke(a) = x /\ a \in Acknowledgements
    <3> SUFFICES ASSUME NEW a \in accepted' \ accepted
                 PROVE  /\ x.n > 0
                        /\ a = [m |-> m, n |-> expected[m], g |-> slot, opened |-> opened]
                        /\ Keystroke(a) = x /\ a \in Acknowledgements
      OBVIOUS
    <3>1. x.n # 0 /\ a = [m |-> m, n |-> expected[m], g |-> slot, opened |-> opened]
      BY <2>2
    <3>2. opened \in BOOLEAN
      BY DEF InputInv, InputTypeOK
    <3>3. a \in Acknowledgements
      BY <2>1, <3>1, <3>2 DEF Acknowledgements
    <3>4. Keystroke(a) = x
      BY <2>2, <3>1 DEF Keystroke, Items
    <3> QED
      BY <2>2, <3>1, <3>3, <3>4 DEF Items
  <2>7. accepted \subseteq accepted' /\ accepted' \subseteq Acknowledgements
    BY <2>2, <2>6 DEF InputInv, InputTypeOK
  <2>8. \A y : /\ In(y, typed) \/ In(y, notices) \/ In(y, events) \/ In(y, channel) =>
                    y \in Items /\ y.n < expected[y.m]
               /\ In(y, socket) => y \in Items \cup {Opened} /\ (y = Opened \/ y.n < expected[y.m])
    BY InType DEF InputInv, InputTypeOK, Known
  <2>9. InputTypeOK'
    BY <1>1, <2>3, <2>4, <2>7 DEF InputInv, InputTypeOK, Opened
  <2>10. Order'
    <3>1. \A y : In(y, typed) \/ In(y, notices) \/ In(y, events) \/ In(y, socket) \/ In(y, channel)
                   => Less(y, x)
      BY <2>5, <2>8
    <3>2. Sorted(channel')
      BY <2>3, <3>1 DEF InputInv, Order
    <3> QED
      BY <1>1, <2>3, <3>1, <3>2 DEF InputInv, Order, Before
  <2>11. Known'
    <3>1. \A y \in Items : y.n < expected[y.m] => y.n < expected'[y.m]
      <4>1. expected \in [Mirrors -> Nat \ {0}]
        BY DEF InputInv, InputTypeOK
      <4>2. \A mm \in Mirrors : /\ expected[mm] \in Nat /\ expected'[mm] \in Nat
                                 /\ expected[mm] <= expected'[mm]
        BY <2>4, <4>1
      <4> QED
        BY <4>2 DEF Items
    <3>2. \A y : In(y, typed') => y.n > 0 /\ y.n < expected'[y.m]
      BY <1>1, <2>8, <3>1 DEF InputInv, Known
    <3>3. \A y : In(y, notices') \/ In(y, events') \/ In(y, channel') => y.n < expected'[y.m]
      BY <1>1, <2>2, <2>3, <2>4, <2>8, <3>1
    <3>4. \A y : In(y, socket') => y = Opened \/ (y.n < expected'[y.m] /\ y.g = link')
      BY <1>1, <2>8, <3>1 DEF InputInv, Known
    <3>5. \A y : In(y, channel') => y.g = slot'
      BY <1>1, <2>2, <2>3 DEF InputInv, Known
    <3>6. \A a \in accepted' : a.n < expected'[a.m] /\ a.g <= conns'
      <4> SUFFICES ASSUME NEW a \in accepted' PROVE a.n < expected'[a.m] /\ a.g <= conns'
        OBVIOUS
      <4>1. CASE a \in accepted
        BY <1>1, <2>4, <4>1 DEF InputInv, Known, InputTypeOK, Acknowledgements
      <4>2. CASE a \notin accepted
        <5>1. a.m = m /\ a.n = x.n /\ a.g = slot
          BY <2>2, <2>6, <4>2
        <5> QED
          BY <1>1, <2>4, <5>1 DEF InputInv, InputTypeOK
      <4> QED
        BY <4>1, <4>2
    <3> QED
      BY <3>2, <3>3, <3>4, <3>5, <3>6 DEF Known, Opened
  <2>12. Announced'
    <3> SUFFICES ASSUME NEW a \in accepted', a.opened, a.g = link, hosted
                 PROVE  (attached \/ Preceded(Keystroke(a), socket)) /\ opened
      BY <1>1 DEF InputInv, Announced
    <3>1. CASE a \in accepted
      BY <3>1 DEF InputInv, Announced
    <3>2. CASE a \notin accepted
      <4>1. opened /\ Keystroke(a) = x /\ x.n = expected[m]
        BY <2>2, <2>6, <3>2
      <4>2. ~In(x, socket)
        BY <2>1, <2>2, <2>8, <4>1 DEF Opened, InputInv, InputTypeOK
      <4> QED
        BY <4>1, <4>2 DEF Preceded, In
    <3> QED
      BY <3>1, <3>2
  <2>13. Whole'
    <3> SUFFICES ASSUME Flowing, NEW a \in accepted', a.opened, a.g = link
                 PROVE  LET k == Keystroke(a)
                        IN In(k, typed) \/ In(k, notices) \/ In(k, events) \/ In(k, socket)
                           \/ In(k, channel')
      BY <1>1 DEF Whole, Flowing
    <3>1. CASE a \in accepted
      BY <2>3, <3>1 DEF InputInv, Whole
    <3>2. CASE a \notin accepted
      BY <2>3, <2>6, <3>2
    <3> QED
      BY <3>1, <3>2
  <2>14. NoHoles'
    <3>1. \A a, y : a \in accepted' /\ y \in Items /\ y.n < expected[y.m] /\ Earlier(a, y) =>
            a \in accepted
      <4> SUFFICES ASSUME NEW a \in accepted', a \notin accepted, NEW y \in Items,
                          y.n < expected[y.m], Earlier(a, y)
                   PROVE  FALSE
        OBVIOUS
      <4>1. a.m = m /\ a.n = expected[m]
        BY <2>6
      <4> QED
        BY <2>1, <4>1 DEF Earlier, Items
    <3> QED
      BY <1>1, <2>8, <3>1 DEF InputInv, NoHoles
  <2> QED
    BY <2>9, <2>10, <2>11, <2>12, <2>13, <2>14 DEF InputInv
<1> QED
  BY <1>2, <1>3

(* terminal.opened is sent: nothing was acknowledged after it yet. *)
LEMMA InputOpens ==
  ASSUME InputInv, RelayOpens
  PROVE  InputInv'
<1>1. /\ UNCHANGED <<expected, accepted, slot, conns, channel, link, attached, hosted, events,
                     notices, driver, owner, typed>>
      /\ link # 0 /\ ~opened /\ hosted /\ opened' = TRUE /\ socket' = Append(socket, Opened)
  BY DEF RelayOpens, relayVars, hostVars
<1>2. /\ socket' \in Seq(Items \cup {Opened})
      /\ \A y : In(y, socket') <=> In(y, socket) \/ y = Opened
      /\ Sorted(socket) /\ (\A y : In(y, socket) => Less(y, Opened)) => Sorted(socket')
  <2>1. socket \in Seq(Items \cup {Opened}) /\ Opened \in Items \cup {Opened}
    BY DEF InputInv, InputTypeOK
  <2> QED
    BY <1>1, <2>1, AppendIn
<1>3. \A y : Less(y, Opened) /\ Less(Opened, y)
  BY DEF Less, Opened
<1>4. InputTypeOK'
  BY <1>1, <1>2 DEF InputInv, InputTypeOK, Opened
<1>5. Order'
  BY <1>1, <1>2, <1>3 DEF InputInv, Order, Before
<1>6. Known'
  BY <1>1, <1>2 DEF InputInv, Known, Opened
<1>7. Announced'
  <2>1. In(Opened, socket')
    BY <1>2
  <2>2. \A a \in accepted : ~(a.opened /\ a.g = link)
    BY <1>1 DEF InputInv, Announced
  <2> QED
    BY <1>1, <2>1, <2>2 DEF Announced, Opened
<1>8. Whole'
  BY <1>1, <1>2 DEF InputInv, Whole, Flowing
<1>9. NoHoles'
  BY <1>1 DEF InputInv, NoHoles
<1> QED
  BY <1>4, <1>5, <1>6, <1>7, <1>8, <1>9 DEF InputInv

(* An item of the channel is written on the connection, or on a dead one. *)
LEMMA InputForwarded ==
  ASSUME InputInv, Forward
  PROVE  InputInv'
<1>1. UNCHANGED <<expected, accepted, slot, conns, opened, link, attached, hosted, events,
                  notices, driver, owner, typed>>
  BY DEF Forward, relayVars, hostVars
<1>2. PICK x \in Items :
        /\ channel' \in Seq(Items)
        /\ \A y : In(y, channel) <=> y = x \/ In(y, channel')
        /\ Sorted(channel) => Sorted(channel') /\ \A y : In(y, channel') => Less(x, y)
        /\ socket' = IF link = slot THEN Append(socket, x) ELSE socket
  BY TailIn DEF Forward, InputInv, InputTypeOK
<1>3. x.n < expected[x.m] /\ x.g = slot /\ x.g # 0
  BY <1>2 DEF InputInv, Known, Items
<1>4. CASE link = slot
  <2>1. /\ socket' \in Seq(Items \cup {Opened})
        /\ \A y : In(y, socket') <=> In(y, socket) \/ y = x
        /\ Sorted(socket) /\ (\A y : In(y, socket) => Less(y, x)) => Sorted(socket')
        /\ \A y : Preceded(y, socket) /\ (y = x => In(Opened, socket)) => Preceded(y, socket')
    <3>1. socket \in Seq(Items \cup {Opened}) /\ x \in Items \cup {Opened}
      BY DEF InputInv, InputTypeOK
    <3>2. socket' = Append(socket, x)
      BY <1>2, <1>4
    <3> HIDE DEF Opened
    <3> QED
      BY <3>1, <3>2, AppendIn
  <2>2. \A y : In(y, socket) => Less(y, x)
    BY <1>2 DEF InputInv, Order, Before
  <2>3. InputTypeOK'
    <3>1. link # 0
      BY <1>3, <1>4
    <3> QED
      BY <1>1, <1>2, <2>1, <3>1 DEF InputInv, InputTypeOK, Opened
  <2>4. Order'
    BY <1>1, <1>2, <2>1, <2>2 DEF InputInv, Order, Before
  <2>5. Known'
    BY <1>1, <1>2, <1>3, <1>4, <2>1 DEF InputInv, Known, Opened
  <2>6. Announced'
    <3>1. link # 0 /\ hosted /\ opened => attached \/ In(Opened, socket')
      BY <2>1 DEF InputInv, Announced
    <3>2. ASSUME NEW a \in accepted, a.opened, a.g = link, hosted
          PROVE  (attached \/ Preceded(Keystroke(a), socket')) /\ opened
      <4>1. (attached \/ Preceded(Keystroke(a), socket)) /\ opened
        BY <3>2 DEF InputInv, Announced
      <4>2. attached \/ In(Opened, socket)
        BY <1>3, <1>4, <3>2, <4>1 DEF InputInv, Announced
      <4> QED
        BY <2>1, <4>1, <4>2
    <3> QED
      BY <1>1, <3>1, <3>2 DEF Announced, Opened
  <2>7. Whole'
    BY <1>1, <1>2, <2>1 DEF InputInv, Whole, Flowing
  <2>8. NoHoles'
    BY <1>1 DEF InputInv, NoHoles
  <2> QED
    BY <2>3, <2>4, <2>5, <2>6, <2>7, <2>8 DEF InputInv
<1>5. CASE link # slot
  <2>1. link = 0 /\ socket' = socket
    BY <1>2, <1>5 DEF InputInv, InputTypeOK
  <2>2. InputTypeOK'
    BY <1>1, <1>2, <2>1 DEF InputInv, InputTypeOK, Opened
  <2>3. Order'
    BY <1>1, <1>2, <2>1 DEF InputInv, Order, Before
  <2>4. Known'
    BY <1>1, <1>2, <2>1 DEF InputInv, Known, Opened
  <2>5. Announced'
    BY <1>1, <2>1 DEF InputInv, Announced, Opened
  <2>6. Whole'
    BY <1>1, <2>1 DEF Whole, Flowing
  <2>7. NoHoles'
    BY <1>1 DEF InputInv, NoHoles
  <2> QED
    BY <2>2, <2>3, <2>4, <2>5, <2>6, <2>7 DEF InputInv
<1> QED
  BY <1>4, <1>5

-----------------------------------------------------------------------------
(* Steps at the publisher. *)

(* A keystroke that was acknowledged before x is not behind it. *)
LEMMA EarlierIsNotBehind ==
  ASSUME NEW x \in Items, NEW a \in Acknowledgements, Earlier(a, x)
  PROVE  Keystroke(a) # x /\ ~Less(x, Keystroke(a))
BY DEF Earlier, Keystroke, Less, Items, Acknowledgements

(* The connection task reads terminal.opened. *)
LEMMA InputAttached ==
  ASSUME InputInv, Receive, Head(socket) = Opened
  PROVE  InputInv'
<1>1. /\ UNCHANGED <<expected, accepted, slot, conns, channel, opened, link, hosted, events,
                     notices, driver, owner, typed>>
      /\ attached' = hosted
  BY DEF Receive, relayVars
<1>2. /\ socket' \in Seq(Items \cup {Opened})
      /\ \A y : In(y, socket) <=> y = Opened \/ In(y, socket')
      /\ Sorted(socket) => Sorted(socket')
  <2>1. socket \in Seq(Items \cup {Opened}) /\ socket # <<>> /\ socket' = Tail(socket)
    BY DEF InputInv, InputTypeOK, Receive
  <2> HIDE DEF Opened
  <2> QED
    BY <2>1, TailIn
<1>3. link # 0
  BY DEF Receive, InputInv, InputTypeOK
<1>4. InputTypeOK'
  BY <1>1, <1>2, <1>3 DEF InputInv, InputTypeOK, Opened
<1>5. Order'
  BY <1>1, <1>2 DEF InputInv, Order, Before
<1>6. Known'
  BY <1>1, <1>2 DEF InputInv, Known, Opened
<1>7. Announced'
  BY <1>1 DEF InputInv, Announced, Opened
<1>8. Whole'
  <2>1. \A a \in accepted : Keystroke(a) # Opened
    BY DEF InputInv, InputTypeOK, Acknowledgements, Keystroke, Opened
  <2> QED
    BY <1>1, <1>2, <2>1 DEF InputInv, Whole, Flowing
<1>9. NoHoles'
  BY <1>1 DEF InputInv, NoHoles
<1> QED
  BY <1>4, <1>5, <1>6, <1>7, <1>8, <1>9 DEF InputInv

(* The connection task reads a keystroke or a resize: it puts it into the  *)
(* terminal's event queue, forgets the terminal because that is full, or   *)
(* drops what is not for a terminal it knows or a driver that runs.        *)
LEMMA InputReceived ==
  ASSUME InputInv, Receive, Head(socket) # Opened
  PROVE  InputInv'
<1>1. UNCHANGED <<expected, accepted, slot, conns, channel, opened, link, attached, notices,
                  driver, owner, typed>>
  BY DEF Receive, relayVars
<1>2. PICK x \in Items :
        /\ x = Head(socket)
        /\ socket' \in Seq(Items \cup {Opened})
        /\ \A y : In(y, socket) <=> y = x \/ In(y, socket')
        /\ Sorted(socket) => Sorted(socket') /\ \A y : In(y, socket') => Less(x, y)
        /\ \A y : Preceded(y, socket) => y # x /\ Preceded(y, socket')
  <2>1. socket \in Seq(Items \cup {Opened}) /\ socket # <<>> /\ socket' = Tail(socket)
    BY DEF InputInv, InputTypeOK, Receive
  <2> HIDE DEF Opened
  <2> QED
    BY <2>1, TailIn
<1>3. x # Opened /\ In(x, socket) /\ x.n < expected[x.m] /\ x.g = link /\ link # 0
  BY <1>2 DEF Receive, InputInv, InputTypeOK, Known
<1>4. IF attached /\ hosted THEN Deliver(x) ELSE UNCHANGED <<events, hosted>>
  BY <1>2 DEF Receive
<1>5. /\ hosted' \in BOOLEAN /\ (hosted' => hosted)
      /\ events' \in {events, Append(events, x)}
      /\ events' # events => events' = Append(events, x) /\ attached /\ hosted' /\ driver = "running"
      /\ Flowing /\ hosted' /\ attached => events' = Append(events, x)
  <2>1. hosted \in BOOLEAN /\ attached \in BOOLEAN /\ driver \in {"running", "over"}
    BY DEF InputInv, InputTypeOK
  <2>2. CASE ~(attached /\ hosted)
    BY <1>4, <2>1, <2>2 DEF Flowing
  <2>3. CASE attached /\ hosted
    <3>1. Deliver(x)
      BY <1>4, <2>3
    <3>2. CASE driver = "over"
      BY <2>1, <2>3, <3>1, <3>2 DEF Deliver, Flowing
    <3>3. CASE driver = "running" /\ Len(events) < EventQueue
      BY <2>1, <2>3, <3>1, <3>3 DEF Deliver, Flowing
    <3>4. CASE driver = "running" /\ ~(Len(events) < EventQueue)
      BY <2>1, <2>3, <3>1, <3>4 DEF Deliver, Flowing
    <3> QED
      BY <2>1, <3>2, <3>3, <3>4
  <2> QED
    BY <2>2, <2>3
<1>6. Announced'
  <2>1. ASSUME link # 0, hosted', opened PROVE attached \/ In(Opened, socket')
    BY <1>2, <1>3, <1>5, <2>1 DEF InputInv, Announced
  <2>2. ASSUME NEW a \in accepted, a.opened, a.g = link, hosted'
        PROVE  (attached \/ Preceded(Keystroke(a), socket')) /\ opened
    BY <1>2, <1>5, <2>2 DEF InputInv, Announced
  <2> QED
    BY <1>1, <2>1, <2>2 DEF Announced, Opened
<1>7. CASE events' = events
  <2>1. InputTypeOK'
    BY <1>1, <1>2, <1>3, <1>5, <1>7 DEF InputInv, InputTypeOK, Opened
  <2>2. Order'
    BY <1>1, <1>2, <1>7 DEF InputInv, Order, Before
  <2>3. Known'
    BY <1>1, <1>2, <1>7 DEF InputInv, Known, Opened
  <2>4. Whole'
    <3> SUFFICES ASSUME Flowing', NEW a \in accepted, a.opened, a.g = link
                 PROVE  LET k == Keystroke(a)
                        IN In(k, typed) \/ In(k, notices) \/ In(k, events) \/ In(k, socket')
                           \/ In(k, channel)
      BY <1>1, <1>7 DEF Whole
    <3>1. Flowing /\ hosted
      BY <1>1, <1>5 DEF Flowing
    <3>2. ~attached
      <4>1. CASE events' = Append(events, x)
        <5>1. events \in Seq(Items)
          BY DEF InputInv, InputTypeOK
        <5>2. Len(Append(events, x)) = Len(events) + 1 /\ Len(events) \in Nat
          BY <5>1
        <5> QED
          BY <1>7, <4>1, <5>2
      <4> QED
        BY <1>5, <3>1, <4>1 DEF Flowing
    <3>3. Keystroke(a) # x
      BY <1>2, <3>1, <3>2 DEF InputInv, Announced
    <3> QED
      BY <1>2, <3>1, <3>3 DEF InputInv, Whole
  <2>5. NoHoles'
    BY <1>1, <1>7 DEF InputInv, NoHoles
  <2> QED
    BY <1>6, <2>1, <2>2, <2>3, <2>4, <2>5 DEF InputInv
<1>8. CASE events' # events
  <2>1. events' = Append(events, x) /\ attached /\ hosted /\ driver = "running" /\ hosted'
    BY <1>5, <1>8
  <2>2. /\ events' \in Seq(Items)
        /\ \A y : In(y, events') <=> In(y, events) \/ y = x
        /\ Sorted(events) /\ (\A y : In(y, events) => Less(y, x)) => Sorted(events')
    BY <2>1, AppendIn DEF InputInv, InputTypeOK
  <2>3. \A y : In(y, events) => Less(y, x)
    BY <1>3 DEF InputInv, Order, Before
  <2>4. InputTypeOK'
    BY <1>1, <1>2, <1>3, <1>5, <2>2 DEF InputInv, InputTypeOK, Opened
  <2>5. Order'
    BY <1>1, <1>2, <2>2, <2>3 DEF InputInv, Order, Before
  <2>6. Known'
    BY <1>1, <1>2, <1>3, <2>2 DEF InputInv, Known, Opened
  <2>7. Whole'
    BY <1>1, <1>2, <1>5, <2>2 DEF InputInv, Whole, Flowing
  <2>8. NoHoles'
    <3>1. ASSUME owner = "running", NEW a \in accepted, Earlier(a, x)
          PROVE  In(Keystroke(a), typed) \/ In(Keystroke(a), notices) \/ In(Keystroke(a), events)
      <4>1. Flowing /\ a.opened /\ a.g = link /\ a \in Acknowledgements
        BY <1>3, <2>1, <3>1 DEF Flowing, Earlier, InputInv, InputTypeOK
      <4>2. Keystroke(a) # x /\ ~Less(x, Keystroke(a))
        BY <3>1, <4>1, EarlierIsNotBehind
      <4>3. ~In(Keystroke(a), socket) /\ ~In(Keystroke(a), channel)
        BY <1>2, <1>3, <4>2 DEF InputInv, Order, Before
      <4> QED
        BY <4>1, <4>3 DEF InputInv, Whole
    <3> QED
      BY <1>1, <2>2, <3>1 DEF InputInv, NoHoles
  <2> QED
    BY <1>6, <2>4, <2>5, <2>6, <2>7, <2>8 DEF InputInv
<1> QED
  BY <1>7, <1>8

(* The driver hands an event to the tab.  When it does not fit, a resize   *)
(* is dropped and a keystroke ends the driver with all that follows.       *)
LEMMA InputDriven ==
  ASSUME InputInv, Drive
  PROVE  InputInv'
<1>1. UNCHANGED <<expected, accepted, slot, conns, channel, opened, link, socket, attached,
                  hosted, owner, typed>>
  BY DEF Drive, relayVars, connVars
<1>2. PICK x \in Items :
        /\ x = Head(events) /\ Tail(events) \in Seq(Items)
        /\ \A y : In(y, events) <=> y = x \/ In(y, Tail(events))
        /\ Sorted(events) => Sorted(Tail(events)) /\ \A y : In(y, Tail(events)) => Less(x, y)
  <2>1. events \in Seq(Items) /\ events # <<>>
    BY DEF InputInv, InputTypeOK, Drive
  <2> QED
    BY <2>1, TailIn
<1>3. In(x, events) /\ x.n < expected[x.m]
  BY <1>2 DEF InputInv, Known
<1>4. Announced'
  BY <1>1 DEF InputInv, Announced
<1>5. CASE owner = "running" /\ Len(notices) < NoticeQueue
  <2>1. notices' = Append(notices, x) /\ events' = Tail(events) /\ driver' = driver
    BY <1>2, <1>5 DEF Drive
  <2>2. /\ notices' \in Seq(Items)
        /\ \A y : In(y, notices') <=> In(y, notices) \/ y = x
        /\ Sorted(notices) /\ (\A y : In(y, notices) => Less(y, x)) => Sorted(notices')
    BY <2>1, AppendIn DEF InputInv, InputTypeOK
  <2>3. /\ events' \in Seq(Items)
        /\ \A y : In(y, events) <=> y = x \/ In(y, events')
        /\ Sorted(events) => Sorted(events') /\ \A y : In(y, events') => Less(x, y)
    BY <1>2, <2>1
  <2>4. InputTypeOK'
    BY <1>1, <2>1, <2>2, <2>3 DEF InputInv, InputTypeOK, Opened
  <2>5. Order'
    BY <1>1, <1>3, <2>2, <2>3 DEF InputInv, Order, Before
  <2>6. Known'
    BY <1>1, <1>3, <2>2, <2>3 DEF InputInv, Known, Opened
  <2>7. Whole'
    BY <1>1, <2>1, <2>2, <2>3 DEF InputInv, Whole, Flowing
  <2>8. NoHoles'
    <3>1. ASSUME NEW a \in accepted, Earlier(a, x)
          PROVE  In(Keystroke(a), typed) \/ In(Keystroke(a), notices)
      <4>1. a \in Acknowledgements
        BY DEF InputInv, InputTypeOK
      <4>2. Keystroke(a) # x /\ ~Less(x, Keystroke(a))
        BY <3>1, <4>1, EarlierIsNotBehind
      <4>3. ~In(Keystroke(a), events)
        BY <2>3, <4>2 DEF InputInv, Order
      <4> QED
        BY <1>3, <1>5, <3>1, <4>3 DEF InputInv, NoHoles
    <3>2. \A y, a : In(y, typed') /\ a \in accepted' /\ Earlier(a, y) => In(Keystroke(a), typed')
      BY <1>1 DEF InputInv, NoHoles
    <3>3. \A y, a : In(y, notices') /\ a \in accepted' /\ Earlier(a, y) =>
            In(Keystroke(a), typed') \/ In(Keystroke(a), notices')
      BY <1>1, <2>2, <3>1 DEF InputInv, NoHoles
    <3>4. \A y, a : In(y, events') /\ a \in accepted' /\ Earlier(a, y) =>
            In(Keystroke(a), typed') \/ In(Keystroke(a), notices') \/ In(Keystroke(a), events')
      BY <1>1, <1>5, <2>2, <2>3 DEF InputInv, NoHoles
    <3> QED
      BY <3>2, <3>3, <3>4 DEF NoHoles
  <2> QED
    BY <1>4, <2>4, <2>5, <2>6, <2>7, <2>8 DEF InputInv
<1>6. CASE ~(owner = "running" /\ Len(notices) < NoticeQueue)
  <2>1. /\ notices' = notices
        /\ \/ events' = Tail(events) /\ driver' = driver /\ x.n = 0
           \/ events' = <<>> /\ driver' = "over"
    BY <1>2, <1>6 DEF Drive
  <2>2. events' \in Seq(Items) /\ \A y : In(y, events') => In(y, events)
    BY <1>2, <2>1, EmptyIn
  <2>3. Sorted(events')
    BY <1>2, <2>1, EmptyIn DEF InputInv, Order
  <2>4. InputTypeOK'
    <3>1. driver' \in {"running", "over"}
      BY <2>1 DEF InputInv, InputTypeOK
    <3> QED
      BY <1>1, <2>1, <2>2, <3>1 DEF InputInv, InputTypeOK, Opened
  <2>5. Order'
    BY <1>1, <2>1, <2>2, <2>3 DEF InputInv, Order, Before
  <2>6. Known'
    BY <1>1, <2>1, <2>2 DEF InputInv, Known, Opened
  <2>7. \A a \in accepted : driver' = "running" /\ In(Keystroke(a), events)
                              => driver = "running" /\ In(Keystroke(a), events')
    <3> SUFFICES ASSUME NEW a \in accepted, driver' = "running", In(Keystroke(a), events)
                 PROVE  driver = "running" /\ In(Keystroke(a), events')
      OBVIOUS
    <3>1. events' = Tail(events) /\ driver' = driver /\ x.n = 0
      BY <2>1
    <3>2. Keystroke(a).n # 0
      BY DEF InputInv, InputTypeOK, Acknowledgements, Keystroke
    <3> QED
      BY <1>2, <3>1, <3>2
  <2>8. Whole'
    BY <1>1, <2>1, <2>7 DEF InputInv, Whole, Flowing
  <2>9. NoHoles'
    <3>1. ASSUME owner = "running", NEW y, In(y, events'), NEW a \in accepted, Earlier(a, y)
          PROVE  In(Keystroke(a), typed) \/ In(Keystroke(a), notices) \/ In(Keystroke(a), events')
      <4>1. events' = Tail(events) /\ x.n = 0
        BY <2>1, <3>1, EmptyIn
      <4>2. Keystroke(a).n # 0
        BY DEF InputInv, InputTypeOK, Acknowledgements, Keystroke
      <4>3. In(Keystroke(a), typed) \/ In(Keystroke(a), notices) \/ In(Keystroke(a), events)
        BY <2>2, <3>1 DEF InputInv, NoHoles
      <4> QED
        BY <1>2, <4>1, <4>2, <4>3
    <3> QED
      BY <1>1, <2>1, <3>1 DEF InputInv, NoHoles
  <2> QED
    BY <1>4, <2>4, <2>5, <2>6, <2>8, <2>9 DEF InputInv
<1> QED
  BY <1>5, <1>6

(* The tab reads a notice; a resize is not for the shell. *)
LEMMA InputPumped ==
  ASSUME InputInv, Pump
  PROVE  InputInv'
<1>1. UNCHANGED <<expected, accepted, slot, conns, channel, opened, link, socket, attached,
                  hosted, events, driver, owner>>
  BY DEF Pump, relayVars, connVars
<1>2. PICK x \in Items :
        /\ x = Head(notices) /\ notices' \in Seq(Items)
        /\ \A y : In(y, notices) <=> y = x \/ In(y, notices')
        /\ Sorted(notices) => Sorted(notices') /\ \A y : In(y, notices') => Less(x, y)
  <2>1. notices \in Seq(Items) /\ notices # <<>> /\ notices' = Tail(notices)
    BY DEF InputInv, InputTypeOK, Pump
  <2> QED
    BY <2>1, TailIn
<1>3. In(x, notices) /\ x.n < expected[x.m] /\ x.n \in Nat
  BY <1>2 DEF InputInv, Known, Items
<1>4. Announced'
  BY <1>1 DEF InputInv, Announced
<1>5. CASE x.n # 0
  <2>1. typed' = Append(typed, x)
    BY <1>2, <1>5 DEF Pump
  <2>2. /\ typed' \in Seq(Items)
        /\ \A y : In(y, typed') <=> In(y, typed) \/ y = x
        /\ Sorted(typed) /\ (\A y : In(y, typed) => Less(y, x)) => Sorted(typed')
    BY <2>1, AppendIn DEF InputInv, InputTypeOK
  <2>3. InputTypeOK'
    BY <1>1, <1>2, <2>2 DEF InputInv, InputTypeOK, Opened
  <2>4. Order'
    BY <1>1, <1>2, <1>3, <2>2 DEF InputInv, Order, Before
  <2>5. Known'
    BY <1>1, <1>2, <1>3, <1>5, <2>2 DEF InputInv, Known, Opened
  <2>6. Whole'
    BY <1>1, <1>2, <2>2 DEF InputInv, Whole, Flowing
  <2>7. NoHoles'
    <3>1. ASSUME NEW a \in accepted, Earlier(a, x) PROVE In(Keystroke(a), typed)
      <4>1. a \in Acknowledgements
        BY DEF InputInv, InputTypeOK
      <4>2. Keystroke(a) # x /\ ~Less(x, Keystroke(a))
        BY <3>1, <4>1, EarlierIsNotBehind
      <4>3. ~In(Keystroke(a), notices)
        BY <1>2, <4>2 DEF InputInv, Order
      <4> QED
        BY <1>3, <3>1, <4>3 DEF InputInv, NoHoles
    <3>2. \A y, a : In(y, typed') /\ a \in accepted' /\ Earlier(a, y) => In(Keystroke(a), typed')
      BY <1>1, <2>2, <3>1 DEF InputInv, NoHoles
    <3>3. \A y, a : In(y, notices') /\ a \in accepted' /\ Earlier(a, y) =>
            In(Keystroke(a), typed') \/ In(Keystroke(a), notices')
      BY <1>1, <1>2, <2>2 DEF InputInv, NoHoles
    <3>4. owner' = "running" => \A y, a : In(y, events') /\ a \in accepted' /\ Earlier(a, y) =>
            In(Keystroke(a), typed') \/ In(Keystroke(a), notices') \/ In(Keystroke(a), events')
      BY <1>1, <1>2, <2>2 DEF InputInv, NoHoles
    <3> QED
      BY <3>2, <3>3, <3>4 DEF NoHoles
  <2> QED
    BY <1>4, <2>3, <2>4, <2>5, <2>6, <2>7 DEF InputInv
<1>6. CASE x.n = 0
  <2>1. typed' = typed
    BY <1>2, <1>6 DEF Pump
  <2>2. \A a \in accepted : Keystroke(a) # x
    BY <1>6 DEF InputInv, InputTypeOK, Acknowledgements, Keystroke
  <2>3. InputTypeOK'
    BY <1>1, <1>2, <2>1 DEF InputInv, InputTypeOK, Opened
  <2>4. Order'
    BY <1>1, <1>2, <2>1 DEF InputInv, Order, Before
  <2>5. Known'
    BY <1>1, <1>2, <2>1 DEF InputInv, Known, Opened
  <2>6. Whole'
    BY <1>1, <1>2, <2>1, <2>2 DEF InputInv, Whole, Flowing
  <2>7. NoHoles'
    BY <1>1, <1>2, <2>1, <2>2 DEF InputInv, NoHoles
  <2> QED
    BY <1>4, <2>3, <2>4, <2>5, <2>6, <2>7 DEF InputInv
<1> QED
  BY <1>5, <1>6

(* The tab goes, and what it had not read goes with it. *)
LEMMA InputOwnerEnds ==
  ASSUME InputInv, OwnerEnds
  PROVE  InputInv'
<1>1. /\ UNCHANGED <<expected, accepted, slot, conns, channel, opened, link, socket, attached,
                     hosted, events, driver, typed>>
      /\ owner' = "over" /\ notices' = <<>>
  BY DEF OwnerEnds, relayVars, connVars
<1>2. Sorted(notices') /\ notices' \in Seq(Items) /\ \A y : ~In(y, notices')
  BY <1>1, EmptyIn
<1>3. InputTypeOK'
  BY <1>1, <1>2 DEF InputInv, InputTypeOK, Opened
<1>4. Order'
  BY <1>1, <1>2 DEF InputInv, Order, Before
<1>5. Known'
  BY <1>1, <1>2 DEF InputInv, Known, Opened
<1>6. Announced'
  BY <1>1 DEF InputInv, Announced
<1>7. Whole'
  BY <1>1 DEF Whole, Flowing
<1>8. NoHoles'
  BY <1>1, <1>2 DEF InputInv, NoHoles
<1> QED
  BY <1>3, <1>4, <1>5, <1>6, <1>7, <1>8 DEF InputInv

-----------------------------------------------------------------------------
LEMMA InputStart == InputInit => InputInv
<1> SUFFICES ASSUME InputInit PROVE InputInv
  OBVIOUS
<1>1. InputTypeOK
  BY EmptyIn DEF InputInit, InputTypeOK
<1>2. Order
  BY EmptyIn DEF InputInit, Order, Before
<1>3. Known
  BY EmptyIn DEF InputInit, Known
<1>4. Announced
  BY DEF InputInit, Announced
<1>5. Whole
  BY DEF InputInit, Whole
<1>6. NoHoles
  BY DEF InputInit, NoHoles
<1> QED
  BY <1>1, <1>2, <1>3, <1>4, <1>5, <1>6 DEF InputInv

LEMMA InputStep == InputInv /\ [Next]_vars => InputInv'
<1> SUFFICES ASSUME InputInv, [Next]_vars PROVE InputInv'
  OBVIOUS
<1>1. hosted \in BOOLEAN
  BY DEF InputInv, InputTypeOK
<1>2. ASSUME NEW m \in Mirrors, RequestResize(m) \/ DeliverInput(m) PROVE InputInv'
  BY <1>2, InputAccepted
<1>3. ASSUME NEW m \in Mirrors, NEW n \in 1..MaxSequence, CheckFrame(m, n) PROVE InputInv'
  BY <1>1, <1>3, InputStops DEF CheckFrame, connVars, hostVars
<1>4. CASE Forward
  BY <1>4, InputForwarded
<1>5. CASE RelayOpens
  BY <1>5, InputOpens
<1>6. CASE Disconnect \/ Connect \/ Detach
  BY <1>6, InputConnection
<1>7. CASE RelayCloses
  BY <1>1, <1>7, InputStops DEF RelayCloses, connVars, hostVars
<1>8. CASE Receive
  BY <1>8, InputAttached, InputReceived
<1>9. CASE Drive
  BY <1>9, InputDriven
<1>10. CASE DriverEnds
  BY <1>1, <1>10, InputStops DEF DriverEnds, connVars, relayVars
<1>11. CASE CloseTerminal
  BY <1>1, <1>11, InputStops DEF CloseTerminal, connVars, relayVars
<1>12. CASE Pump
  BY <1>12, InputPumped
<1>13. CASE OwnerEnds
  BY <1>13, InputOwnerEnds
<1>14. CASE UNCHANGED vars
  BY <1>1, <1>14, InputStops DEF vars, connVars, relayVars, hostVars
<1> QED
  BY <1>2, <1>3, <1>4, <1>5, <1>6, <1>7, <1>8, <1>9, <1>10, <1>11, <1>12, <1>13, <1>14 DEF Next

(* The shell reads a subscription's keystrokes in order, none twice, and   *)
(* never a later one without every earlier one that was acknowledged on    *)
(* the same connection after its terminal.open: for any number of          *)
(* subscriptions and connections and any capacity of the three queues      *)
(* (mirror.rs handle_input_frame, session.rs deliver, publish.rs drive).   *)
THEOREM InputHasNoHoles == InputSpec => []InputIntegrity
<1>1. InputInv => InputIntegrity
  <2> SUFFICES ASSUME InputInv PROVE InputIntegrity
    OBVIOUS
  <2>1. ASSUME NEW i \in 1..Len(typed)
        PROVE  typed[i] \in Items /\ In(typed[i], typed) /\ typed[i].n > 0
    BY DEF InputInv, InputTypeOK, Known, In
  <2>2. ASSUME NEW i \in 1..Len(typed), NEW j \in 1..Len(typed), i < j, typed[i].m = typed[j].m
        PROVE  typed[i].n < typed[j].n
    BY <2>1, <2>2 DEF InputInv, Order, Sorted, Less
  <2>3. ASSUME NEW i \in 1..Len(typed), NEW a \in accepted, Earlier(a, typed[i])
        PROVE  Read(a.m, a.n, a.g)
    <3>1. In(Keystroke(a), typed)
      BY <2>1, <2>3 DEF InputInv, NoHoles
    <3> QED
      BY <3>1 DEF In, Keystroke, Read
  <2> QED
    BY <2>2, <2>3 DEF InputIntegrity, Earlier
<1> QED
  BY InputStart, InputStep, <1>1, PTL DEF InputSpec

=============================================================================
