---------------------------- MODULE DaemonProofs ----------------------------
(***************************************************************************)
(* One daemon per machine, for any number of tabs, stops, processes,       *)
(* attempts and crashes.                                                   *)
(*                                                                         *)
(* The argument: only the lock's holder serves, and whoever is connected   *)
(* is connected to it.  A free lock therefore means that nobody serves and *)
(* nobody is connected, which is what a starting daemon relies on when it  *)
(* removes the socket it finds and binds its own.                          *)
(***************************************************************************)
EXTENDS Daemon, TLAPS

(* What the variables that decide who serves can hold. *)
DaemonTypeOK ==
  /\ daemon \in [Daemons -> {"none", "starting", "serving", "standing", "retiring"}]
  /\ lock \in Daemons \cup {NoDaemon}
  /\ path \in Daemons \cup {NoDaemon}
  /\ conn \in [Clients -> Daemons \cup {NoDaemon}]

ServerInv == DaemonTypeOK /\ OneServer

LEMMA NoDaemonIsNone == NoDaemon \notin Daemons
BY DaemonAssumption DEF NoDaemon, Daemons

(* Nothing changes the set of daemons, the lock or a connection. *)
LEMMA QuietStep ==
  ASSUME ServerInv, UNCHANGED <<daemon, lock, conn>>, path' \in Daemons \cup {NoDaemon}
  PROVE  ServerInv'
BY DEF ServerInv, DaemonTypeOK, OneServer, Alive

(* A client connects where the path leads, and that is the lock's holder. *)
LEMMA ConnectsStep ==
  ASSUME ServerInv, NEW c \in Clients, Connects(c)
  PROVE  ServerInv'
<1>1. path \in Daemons /\ lock = path
  BY NoDaemonIsNone
  DEF ServerInv, DaemonTypeOK, OneServer, Connects, Listening, Accepting, Alive
<1>2. UNCHANGED <<daemon, lock, path>> /\ conn' = [conn EXCEPT ![c] = path]
  BY DEF Connects
<1> QED
  BY <1>1, <1>2 DEF ServerInv, DaemonTypeOK, OneServer, Alive

(* Connections break; the daemons and the lock stay. *)
LEMMA BreaksStep ==
  ASSUME ServerInv, NEW cs, UNCHANGED <<daemon, lock, path>>,
         conn' = [c \in Clients |-> IF c \in cs THEN NoDaemon ELSE conn[c]]
  PROVE  ServerInv'
BY NoDaemonIsNone DEF ServerInv, DaemonTypeOK, OneServer, Alive

(* A daemon that holds the lock changes from one way of being alive to     *)
(* another.                                                                *)
LEMMA HolderStep ==
  ASSUME ServerInv, NEW d \in Daemons, Alive(d),
         NEW to \in {"serving", "standing", "retiring"}, DaemonGoes(d, to),
         UNCHANGED lock, path' \in Daemons \cup {NoDaemon},
         \A c \in Clients : conn'[c] \in {conn[c], NoDaemon},
         conn' \in [Clients -> Daemons \cup {NoDaemon}]
  PROVE  ServerInv'
<1>1. lock = d
  BY DEF ServerInv, OneServer
<1>2. daemon' = [daemon EXCEPT ![d] = to]
  BY DEF DaemonGoes
<1>3. DaemonTypeOK'
  BY <1>2 DEF ServerInv, DaemonTypeOK
<1>4. \A e \in Daemons : Alive(e)' => e = d \/ Alive(e)
  BY <1>2 DEF ServerInv, DaemonTypeOK, Alive
<1>5. OneServer'
  BY <1>1, <1>4 DEF ServerInv, OneServer
<1> QED
  BY <1>3, <1>5 DEF ServerInv

(* A process ends: its lock and its connections go with it. *)
LEMMA ExitsStep ==
  ASSUME ServerInv, NEW d \in Daemons, Exits(d), UNCHANGED path
  PROVE  ServerInv'
<1>1. /\ lock' = IF lock = d THEN NoDaemon ELSE lock
      /\ daemon' = [daemon EXCEPT ![d] = "none"]
  BY DEF Exits, DaemonGoes
<1>2. conn' = [c \in Clients |-> IF c \in Connected(d) THEN NoDaemon ELSE conn[c]]
  BY DEF Exits, Breaks
<1>3. \A c \in Clients : conn'[c] # NoDaemon => conn'[c] = lock'
  BY <1>1, <1>2 DEF ServerInv, OneServer, Connected
<1>4. \A e \in Daemons : Alive(e)' => lock' = e
  BY <1>1 DEF ServerInv, DaemonTypeOK, OneServer, Alive
<1>5. DaemonTypeOK'
  BY <1>1, <1>2 DEF ServerInv, DaemonTypeOK
<1> QED
  BY <1>3, <1>4, <1>5 DEF ServerInv, OneServer

(* serve: a free lock means that nobody is alive and nobody is connected.  *)
LEMMA ServeStep ==
  ASSUME ServerInv, NEW d \in Daemons, Serve(d)
  PROVE  ServerInv'
<1>1. CASE lock = NoDaemon
  <2>1. /\ daemon' = [daemon EXCEPT ![d] = "serving"] /\ lock' = d /\ path' = d
        /\ UNCHANGED conn
    BY <1>1 DEF Serve, LockIsFree, DaemonGoes
  <2>2. \A e \in Daemons : ~Alive(e)
    BY <1>1, NoDaemonIsNone DEF ServerInv, OneServer
  <2>3. \A c \in Clients : conn[c] = NoDaemon
    BY <1>1 DEF ServerInv, OneServer
  <2> QED
    BY <2>1, <2>2, <2>3 DEF ServerInv, DaemonTypeOK, OneServer, Alive
<1>2. CASE lock # NoDaemon
  <2>1. /\ daemon' = [daemon EXCEPT ![d] = "none"] /\ UNCHANGED <<lock, path, conn>>
        /\ daemon[d] = "starting"
    BY <1>2 DEF Serve, LockIsFree, DaemonGoes
  <2> QED
    BY <2>1 DEF ServerInv, DaemonTypeOK, OneServer, Alive
<1> QED
  BY <1>1, <1>2

(* connect_or_start: the process that is spawned is not alive before it    *)
(* has the lock.                                                           *)
LEMMA StartStep ==
  ASSUME ServerInv, NEW t \in Tabs, Start(t)
  PROVE  ServerInv'
<1>1. PICK d : daemon' = [daemon EXCEPT ![d] = "starting"]
  BY DEF Start, Spawns, DaemonGoes
<1>2. UNCHANGED <<lock, path, conn>>
  BY DEF Start
<1> QED
  BY <1>1, <1>2 DEF ServerInv, DaemonTypeOK, OneServer, Alive
-----------------------------------------------------------------------------
(* One step of a tab. *)
LEMMA TabKeeps ==
  ASSUME ServerInv, NEW t \in Tabs, TabStep(t) \/ Close(t) \/ Open(t)
  PROVE  ServerInv'
<1>1. CASE Connect(t)
  BY <1>1, ConnectsStep DEF Connect, Clients
<1>2. CASE Start(t)
  BY <1>2, StartStep
<1>3. CASE PollTimesOut(t) \/ Attach(t) \/ HandshakeFails(t) \/ TransportFails(t)
           \/ Close(t) \/ Open(t)
  <2>1. UNCHANGED <<daemon, lock, path, conn>>
    BY <1>3 DEF PollTimesOut, Attach, HandshakeFails, TransportFails, Close, Open
  <2> QED
    BY <2>1, QuietStep DEF ServerInv, DaemonTypeOK
<1> QED
  BY <1>1, <1>2, <1>3 DEF TabStep

(* One step of `daemon --stop`, or of the daemon's answer to it. *)
LEMMA StopKeeps ==
  ASSUME ServerInv, NEW c \in Stops, StopConnects(c) \/ StopEnds(c) \/ Retire(c)
  PROVE  ServerInv'
<1>1. c \in Clients
  BY DEF Clients
<1>2. CASE StopConnects(c)
  BY <1>1, <1>2, ConnectsStep DEF StopConnects
<1>3. CASE StopEnds(c)
  BY <1>3, QuietStep DEF ServerInv, DaemonTypeOK, StopEnds
<1>4. CASE Retire(c)
  <2>1. UNCHANGED <<lock, path, conn>>
    BY <1>4 DEF Retire
  <2>2. CASE UNCHANGED daemon
    BY <2>1, <2>2, QuietStep DEF ServerInv, DaemonTypeOK
  <2>3. CASE DaemonGoes(conn[c], "retiring")
    <3>1. Accepting(conn[c])
      BY <1>4 DEF Retire
    <3>2. CASE conn[c] \in Daemons
      <4>1. Alive(conn[c])
        BY <3>1 DEF Accepting, Alive
      <4> QED
        BY <2>1, <2>3, <3>2, <4>1, HolderStep DEF ServerInv, DaemonTypeOK
    <3>3. CASE conn[c] \notin Daemons
      <4>1. daemon' = daemon
        BY <2>3, <3>3 DEF DaemonGoes, ServerInv, DaemonTypeOK
      <4> QED
        BY <2>1, <4>1, QuietStep DEF ServerInv, DaemonTypeOK
    <3> QED
      BY <3>2, <3>3
  <2> QED
    BY <1>4, <2>2, <2>3 DEF Retire
<1> QED
  BY <1>2, <1>3, <1>4

(* One step of the task that serves a connection. *)
LEMMA TaskKeeps ==
  ASSUME ServerInv, NEW c \in Clients, TaskStep(c)
  PROVE  ServerInv'
<1>1. CASE Accept(c) \/ Greet(c)
  BY <1>1, QuietStep DEF ServerInv, DaemonTypeOK, Accept, Greet
<1>2. CASE Leave(c)
  <2>1. UNCHANGED <<daemon, lock, path>>
    BY <1>2 DEF Leave
  <2>2. CASE UNCHANGED conn
    BY <2>1, <2>2, QuietStep DEF ServerInv, DaemonTypeOK
  <2>3. CASE Breaks({c})
    BY <2>1, <2>3, BreaksStep DEF Breaks
  <2> QED
    BY <1>2, <2>2, <2>3 DEF Leave
<1> QED
  BY <1>1, <1>2 DEF TaskStep

(* One step of a daemon process, its end included. *)
LEMMA DaemonKeeps ==
  ASSUME ServerInv, NEW d \in Daemons, DaemonStep(d) \/ StandDown(d) \/ Crash(d)
  PROVE  ServerInv'
<1>1. CASE Serve(d)
  BY <1>1, ServeStep
<1>2. CASE StandDownExits(d) \/ RetireExits(d) \/ Crash(d)
  <2>1. Exits(d) /\ UNCHANGED path
    BY <1>2 DEF StandDownExits, RetireExits, Crash
  <2> QED
    BY <2>1, ExitsStep
<1>3. ASSUME NEW c \in Clients, StandDownAccepts(d, c) PROVE ServerInv'
  <2>1. /\ Alive(d) /\ DaemonGoes(d, "serving") /\ UNCHANGED lock /\ path' = d
        /\ conn' = [x \in Clients |-> IF x # c /\ conn[x] = d THEN NoDaemon ELSE conn[x]]
    BY <1>3 DEF StandDownAccepts, Alive
  <2>2. /\ \A x \in Clients : conn'[x] \in {conn[x], NoDaemon}
        /\ conn' \in [Clients -> Daemons \cup {NoDaemon}]
    BY <2>1 DEF ServerInv, DaemonTypeOK
  <2> QED
    BY <2>1, <2>2, HolderStep
<1>4. CASE StandDown(d)
  <2>1. /\ Alive(d) /\ DaemonGoes(d, "standing") /\ UNCHANGED <<lock, conn>>
        /\ path' = NoDaemon
    BY <1>4 DEF StandDown, Alive
  <2> QED
    BY <2>1, HolderStep DEF ServerInv, DaemonTypeOK
<1> QED
  BY <1>1, <1>2, <1>3, <1>4 DEF DaemonStep

-----------------------------------------------------------------------------
(* Two daemons never serve at once, and no client is connected to one that *)
(* does not hold the lock, however tabs race to start a daemon and however *)
(* one stands down, is stopped or dies (daemon.rs, serve and Lock).        *)
THEOREM OneDaemonServes == Spec => []OneServer
<1>1. Init => ServerInv
  BY DEF Init, ServerInv, DaemonTypeOK, OneServer, Alive
<1>2. ServerInv /\ [Next]_vars => ServerInv'
  <2> SUFFICES ASSUME ServerInv, [Next]_vars PROVE ServerInv'
    OBVIOUS
  <2>1. CASE UNCHANGED vars
    BY <2>1, QuietStep DEF vars, ServerInv, DaemonTypeOK
  <2>2. CASE Next
    BY <2>2, TabKeeps, StopKeeps, TaskKeeps, DaemonKeeps DEF Next
  <2> QED
    BY <2>1, <2>2
<1>3. ServerInv => OneServer
  BY DEF ServerInv
<1> QED
  BY <1>1, <1>2, <1>3, PTL DEF Spec
=============================================================================
