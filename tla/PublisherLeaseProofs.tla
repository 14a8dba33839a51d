------------------------ MODULE PublisherLeaseProofs ------------------------
(***************************************************************************)
(* Proofs about PublisherLease, for any number of connections and any      *)
(* grace period: who holds the slot is alive, and a late detach cannot     *)
(* take the slot or the capability away from a newer connection.           *)
(***************************************************************************)
EXTENDS PublisherLease, TLAPS

(* The slot's holder has not detached yet; the capability is the holder's; *)
(* and only a revocation runs enforce_device_revocation.                   *)
LeaseInv ==
  /\ LeaseTypeOK
  /\ SlotIsHeld
  /\ CapabilityIsOwn
  /\ enforcing # "no" => revoked

(* A fresh server has an empty slot, a recovering one a stand-in that is   *)
(* about to detach.                                                        *)
LEMMA InitLease == Init => LeaseInv
<1> SUFFICES ASSUME Init PROVE LeaseInv
  OBVIOUS
<1>1. phase \in [Conns -> Phases] /\ slot \in Conns \cup {NoConn}
  <2>1. "new" \in Phases /\ "closing" \in Phases
    BY DEF Phases
  <2> QED
    BY <2>1 DEF Init
<1>2. LeaseTypeOK
  <2>1. timer \in [Conns -> 0 .. Grace] /\ outage \in 0 .. Grace
    BY TimeAssumption DEF Init
  <2> QED
    BY <1>1, <2>1 DEF Init, LeaseTypeOK
<1>3. SlotIsHeld
  BY ConnsAssumption DEF Init, SlotIsHeld
<1> QED
  BY <1>2, <1>3 DEF Init, LeaseInv, CapabilityIsOwn

(* A connection moves from one place of its task to another. *)
LEMMA PhaseMoves ==
  ASSUME LeaseInv, NEW c \in Conns, NEW p \in Phases, Goes(c, p)
  PROVE  /\ phase' \in [Conns -> Phases] /\ phase'[c] = p
         /\ \A d \in Conns : d # c => phase'[d] = phase[d]
  BY DEF LeaseInv, LeaseTypeOK, Goes

(* A connection that does not hold the slot moves: the holder is as it was. *)
LEMMA OthersMove ==
  ASSUME LeaseInv, NEW c \in Conns, NEW p \in Phases, Goes(c, p), slot # c, slot' = slot
  PROVE  SlotIsHeld'
<1> SUFFICES ASSUME slot # NoConn PROVE phase'[slot] = phase[slot]
  BY DEF LeaseInv, SlotIsHeld
<1>1. slot \in Conns
  BY DEF LeaseInv, LeaseTypeOK
<1> QED
  BY <1>1, PhaseMoves

(* Authorise, Attach, and the turns of the select loop. *)
LEMMA ServingStep ==
  ASSUME LeaseInv, NEW c \in Conns,
         \/ Authorise(c) \/ Attach(c) \/ TakeFrame(c) \/ Poll(c) \/ OpenTerminal(c)
         \/ \E on \in BOOLEAN : SetOpenRequests(c, on)
  PROVE  LeaseInv'
<1> USE DEF connVars, slotVars, graceVars
<1>1. CASE Authorise(c)
  <2>1. Goes(c, "authorised") /\ "authorised" \in Phases /\ slot # c
    BY <1>1, ConnsAssumption DEF Authorise, Phases, LeaseInv, SlotIsHeld
  <2> QED
    BY <1>1, <2>1, PhaseMoves, OthersMove
    DEF Authorise, LeaseInv, LeaseTypeOK, CapabilityIsOwn
<1>2. CASE Attach(c)
  <2>1. Goes(c, "busy") /\ "busy" \in Phases
    BY <1>2 DEF Attach, Phases
  <2>2. Woken(slot) \subseteq Conns
    BY DEF Woken, LeaseInv, LeaseTypeOK
  <2> QED
    BY <1>2, <2>1, <2>2, PhaseMoves, ConnsAssumption
    DEF Attach, LeaseInv, LeaseTypeOK, SlotIsHeld, CapabilityIsOwn
<1>3. CASE TakeFrame(c)
  <2>1. Goes(c, "busy") /\ "busy" \in Phases
    BY <1>3 DEF TakeFrame, Phases
  <2> QED
    BY <1>3, <2>1, PhaseMoves, ConnsAssumption
    DEF TakeFrame, LeaseInv, LeaseTypeOK, SlotIsHeld, CapabilityIsOwn
<1>4. CASE Poll(c)
  <2>1. Goes(c, "polling") /\ "polling" \in Phases
    BY <1>4 DEF Poll, Phases
  <2> QED
    BY <1>4, <2>1, PhaseMoves, ConnsAssumption
    DEF Poll, LeaseInv, LeaseTypeOK, SlotIsHeld, CapabilityIsOwn
<1>5. CASE OpenTerminal(c)
  BY <1>5 DEF OpenTerminal, LeaseInv, LeaseTypeOK, SlotIsHeld, CapabilityIsOwn
<1>6. ASSUME NEW on \in BOOLEAN, SetOpenRequests(c, on) PROVE LeaseInv'
  BY <1>6 DEF SetOpenRequests, LeaseInv, LeaseTypeOK, SlotIsHeld, CapabilityIsOwn
<1> QED
  BY <1>1, <1>2, <1>3, <1>4, <1>5, <1>6

(* The arms of the select that end the session keep the slot until the     *)
(* lease is dropped.                                                       *)
LEMMA EndingStep ==
  ASSUME LeaseInv, NEW c \in Conns,
         Superseded(c) \/ SeesShutdown(c) \/ Recheck(c) \/ InputGone(c) \/ HangUp(c)
  PROVE  LeaseInv'
<1>1. Goes(c, "closing") /\ "closing" \in Phases
  BY DEF Superseded, SeesShutdown, Recheck, InputGone, HangUp, Phases
<1>2. UNCHANGED <<notified, timer, slotVars, graceVars, terminal, revoked, enforcing,
                  shutting_down>>
  BY DEF Superseded, SeesShutdown, Recheck, InputGone, HangUp
<1> QED
  BY <1>1, <1>2, PhaseMoves, ConnsAssumption
  DEF LeaseInv, LeaseTypeOK, SlotIsHeld, CapabilityIsOwn, slotVars, graceVars

(* on_publisher_detached, in its parts. *)
LEMMA DetachStep ==
  ASSUME LeaseInv, NEW c \in Conns,
         Detach(c) \/ GraceEnds(c) \/ CloseDeviceTerminals(c) \/ GraceCloseFails(c)
  PROVE  LeaseInv'
<1> USE DEF slotVars, graceVars
<1>1. CASE Detach(c)
  <2>1. "gone" \in Phases /\ "grace" \in Phases
    BY DEF Phases
  <2>2. timer' \in [Conns -> 0 .. Grace] /\ outage' \in 0 .. Grace
    BY <1>1, TimeAssumption DEF Detach, LeaseInv, LeaseTypeOK
  <2>3. CASE slot = c
    BY <1>1, <2>1, <2>2, <2>3, PhaseMoves
    DEF Detach, LeaseInv, LeaseTypeOK, SlotIsHeld, CapabilityIsOwn
  <2>4. CASE slot # c
    BY <1>1, <2>1, <2>2, <2>4, PhaseMoves, OthersMove
    DEF Detach, LeaseInv, LeaseTypeOK, CapabilityIsOwn
  <2> QED
    BY <2>3, <2>4
<1>2. CASE GraceEnds(c)
  <2>1. /\ "gone" \in Phases /\ "expired" \in Phases
        /\ Goes(c, "gone") \/ Goes(c, "expired")
    BY <1>2 DEF GraceEnds, Phases
  <2>2. slot # c /\ early' \in BOOLEAN
    BY <1>2, ConnsAssumption DEF GraceEnds, LeaseInv, SlotIsHeld
  <2> QED
    BY <1>2, <2>1, <2>2, PhaseMoves, OthersMove
    DEF GraceEnds, LeaseInv, LeaseTypeOK, CapabilityIsOwn
<1>3. CASE CloseDeviceTerminals(c)
  <2>1. "gone" \in Phases /\ Goes(c, "gone")
    BY <1>3 DEF CloseDeviceTerminals, Phases
  <2>2. slot # c
    BY <1>3, ConnsAssumption DEF CloseDeviceTerminals, LeaseInv, SlotIsHeld
  <2> QED
    BY <1>3, <2>1, <2>2, PhaseMoves, OthersMove
    DEF CloseDeviceTerminals, Closed, LeaseInv, LeaseTypeOK, CapabilityIsOwn
<1>4. CASE GraceCloseFails(c)
  <2>1. "gone" \in Phases /\ Goes(c, "gone")
    BY <1>4 DEF GraceCloseFails, Phases
  <2>2. slot # c
    BY <1>4, ConnsAssumption DEF GraceCloseFails, LeaseInv, SlotIsHeld
  <2> QED
    BY <1>4, <2>1, <2>2, PhaseMoves, OthersMove
    DEF GraceCloseFails, LeaseInv, LeaseTypeOK, CapabilityIsOwn
<1> QED
  BY <1>1, <1>2, <1>3, <1>4

(* Revocation, shutdown and the passing of time. *)
LEMMA ServerStep ==
  ASSUME LeaseInv, Revoke \/ DropSlot \/ CloseRevoked \/ Shutdown \/ Tick
  PROVE  LeaseInv'
<1> USE DEF connVars, slotVars, graceVars
<1>1. CASE Revoke
  BY <1>1 DEF Revoke, LeaseInv, LeaseTypeOK, SlotIsHeld, CapabilityIsOwn
<1>2. CASE DropSlot
  <2>1. Woken(slot) \subseteq Conns
    BY DEF Woken, LeaseInv, LeaseTypeOK
  <2> QED
    BY <1>2, <2>1 DEF DropSlot, LeaseInv, LeaseTypeOK, SlotIsHeld, CapabilityIsOwn
<1>3. CASE CloseRevoked
  BY <1>3 DEF CloseRevoked, Closed, LeaseInv, LeaseTypeOK, SlotIsHeld, CapabilityIsOwn
<1>4. CASE Shutdown
  BY <1>4 DEF Shutdown, LeaseInv, LeaseTypeOK, SlotIsHeld, CapabilityIsOwn
<1>5. CASE Tick
  <2>1. timer' \in [Conns -> 0 .. Grace] /\ outage' \in 0 .. Grace
    BY <1>5, TimeAssumption DEF Tick, LeaseInv, LeaseTypeOK
  <2> QED
    BY <1>5, <2>1 DEF Tick, LeaseInv, LeaseTypeOK, SlotIsHeld, CapabilityIsOwn
<1> QED
  BY <1>1, <1>2, <1>3, <1>4, <1>5

(* Every action preserves the lease's invariant. *)
LEMMA NextLease == LeaseInv /\ [Next]_vars => LeaseInv'
<1> SUFFICES ASSUME LeaseInv, [Next]_vars PROVE LeaseInv'
  OBVIOUS
<1>1. CASE UNCHANGED vars
  BY <1>1 DEF vars, connVars, slotVars, graceVars, LeaseInv, LeaseTypeOK, SlotIsHeld,
              CapabilityIsOwn
<1>2. CASE Next
  BY <1>2, ServingStep, EndingStep, DetachStep, ServerStep DEF Next
<1> QED
  BY <1>1, <1>2

(* The lease's invariant holds in every reachable state. *)
THEOREM LeaseHolds == Spec => []LeaseInv
  BY InitLease, NextLease, PTL DEF Spec

(* The slot is never left to a connection whose task has ended, so a       *)
(* device's reconnect grace cannot be suspended for good.                  *)
THEOREM SlotNeverAbandoned == Spec => []SlotIsHeld
<1>1. LeaseInv => SlotIsHeld
  BY DEF LeaseInv
<1> QED
  BY <1>1, LeaseHolds, PTL

(* The open_requests capability in the slot is one that the slot's own     *)
(* connection asserted.                                                    *)
THEOREM CapabilityNeverInherited == Spec => []CapabilityIsOwn
<1>1. LeaseInv => CapabilityIsOwn
  BY DEF LeaseInv
<1> QED
  BY <1>1, LeaseHolds, PTL

(* The generation check of on_publisher_detached: the slot of a serving    *)
(* connection is emptied by a revocation only.                             *)
THEOREM LateDetachIsHarmless == Spec => ServingKeepsSlot
<1> DEFINE Keeps == \A c \in Conns : slot = c /\ Serving(c) /\ slot' = NoConn => revoked
<1>1. ASSUME LeaseInv, [Next]_vars PROVE [Keeps]_vars
  <2> SUFFICES ASSUME Next, NEW c \in Conns, slot = c, Serving(c), slot' = NoConn
               PROVE  revoked
    BY <1>1
  <2>1. slot' # slot
    BY ConnsAssumption
  <2>2. DropSlot \/ \E d \in Conns : (Attach(d) \/ Detach(d))
    BY <2>1
    DEF Next, Authorise, TakeFrame, Poll, OpenTerminal, SetOpenRequests, Superseded,
        SeesShutdown, Recheck, InputGone, HangUp, GraceEnds, CloseDeviceTerminals,
        GraceCloseFails, Revoke, CloseRevoked, Shutdown, Tick, connVars, slotVars
  <2>3. CASE DropSlot
    BY <1>1, <2>3 DEF DropSlot, LeaseInv
  <2>4. ASSUME NEW d \in Conns, Attach(d) \/ Detach(d) PROVE FALSE
    BY <2>1, <2>4, ConnsAssumption DEF Attach, Detach, Serving
  <2> QED
    BY <2>2, <2>3, <2>4
<1> QED
  BY <1>1, LeaseHolds, PTL DEF Spec, ServingKeepsSlot
=============================================================================
