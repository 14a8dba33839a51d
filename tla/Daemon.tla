------------------------------- MODULE Daemon -------------------------------
(***************************************************************************)
(* One daemon per machine carries the mirrors of all its tabs              *)
(* (publisher/src/daemon.rs): the lock that decides who serves, the socket *)
(* the tabs find it by, the idle stand-down, `daemon --stop`, and the      *)
(* client side in each tab (attach, carry, reattach, connect_or_start),    *)
(* which starts a daemon when it finds none (main.rs run, connect_mirror). *)
(*                                                                         *)
(* The kernel's part is external: flock is freed when its holder dies, a   *)
(* connect is queued in the backlog of the listener the path names and     *)
(* fails when there is none, and both ends see it when the other dies.     *)
(*                                                                         *)
(* Time: a poll for a daemon lasts 5 s and gives up only when no daemon    *)
(* can answer any more; the idle grace of 60 s outlasts every pause of a   *)
(* tab that reattaches (30 s at most).                                     *)
(*                                                                         *)
(* Left out: what the mirror carries (module Publication), protocol        *)
(* errors and another version on the socket, which end a handshake like    *)
(* any failure, a relay connection that ended for good, and shells hosted  *)
(* for a phone: they need remote open, which keeps the daemon from ever    *)
(* standing down.                                                          *)
(***************************************************************************)
EXTENDS Integers, FiniteSets, FiniteSetsExt

CONSTANTS
  Tabs,         \* terminals that want a mirror
  Stops,        \* invocations of `daemon --stop`
  MaxDaemons,   \* daemon processes at a time
  Attempts,     \* attempts of reattach
  MaxCrashes,   \* bound on daemons that die
  RemoteOpen    \* remote.enabled: the daemon never stands down

ASSUME DaemonAssumption ==
  /\ MaxDaemons \in Nat \ {0} /\ Attempts \in Nat /\ MaxCrashes \in Nat
  /\ RemoteOpen \in BOOLEAN /\ Tabs \cap Stops = {}

Daemons == 1..MaxDaemons
NoDaemon == 0
Clients == Tabs \cup Stops

VARIABLES
  daemon,       \* [Daemons -> what the process does]
  lock,         \* the holder of the flock
  path,         \* whose listener the socket path names, alive or not
  spawner,      \* [Daemons -> the tab that started it, while it starts]
  client,       \* [Clients -> where the client is]
  tries,        \* [Tabs -> attempts of this reattach, 0 in the first attach]
  conn,         \* [Clients -> the daemon at the other end of its connection]
  task,         \* [Clients -> the daemon's side of that connection]
  alone,        \* stops that counted no other clients when they said hello
  beaten,       \* tabs whose own daemon found the lock taken
  crashes

vars == <<daemon, lock, path, spawner, client, tries, conn, task, alone, beaten, crashes>>

(* daemon: "none", "starting", "serving", "standing" (down), "retiring"    *)
(* client: "new", "polling", "greeting", "attached", "unmirrored", "gone"  *)
(* task:   "none", "queued", "accepted", "greeted", "claimed", "leaving"   *)

Alive(d) == daemon[d] \in {"serving", "standing", "retiring"}
Accepting(d) == daemon[d] \in {"serving", "retiring"}
Connected(d) == {c \in Clients : conn[c] = d}
ClientsOf(d) == {c \in Connected(d) : task[c] # "queued"}
Listening == path # NoDaemon /\ Accepting(path)

Init ==
  /\ daemon = [d \in Daemons |-> "none"]
  /\ lock = NoDaemon /\ path = NoDaemon
  /\ spawner = [d \in Daemons |-> NoDaemon]
  /\ client = [c \in Clients |-> "new"] /\ tries = [t \in Tabs |-> 0]
  /\ conn = [c \in Clients |-> NoDaemon] /\ task = [c \in Clients |-> "none"]
  /\ alone = {} /\ beaten = {} /\ crashes = 0

ClientGoes(c, to) == client' = [client EXCEPT ![c] = to]
DaemonGoes(d, to) == daemon' = [daemon EXCEPT ![d] = to]
TaskGoes(c, to) == task' = [task EXCEPT ![c] = to]

(* The connections of these clients break. *)
Breaks(cs) ==
  /\ conn' = [c \in Clients |-> IF c \in cs THEN NoDaemon ELSE conn[c]]
  /\ task' = [c \in Clients |-> IF c \in cs THEN "none" ELSE task[c]]

(* A tab that polls for a daemon, or lost its own and is about to. *)
Searching(t) ==
  \/ client[t] = "polling"
  \/ client[t] = "new" /\ tries[t] > 0
  \/ client[t] \in {"greeting", "attached"} /\ conn[t] = NoDaemon

-----------------------------------------------------------------------------
(* A client looks for the daemon. *)

Connects(c) ==
  /\ Listening
  /\ ClientGoes(c, "greeting")
  /\ conn' = [conn EXCEPT ![c] = path] /\ TaskGoes(c, "queued")
  /\ beaten' = beaten \ {c}
  /\ UNCHANGED <<daemon, lock, path, spawner, tries, alone, crashes>>

(* A process of its own, which outlives the tab. *)
Spawns(t) ==
  LET free == {d \in Daemons : daemon[d] = "none" /\ path # d}
  IN /\ free # {}
     /\ DaemonGoes(Min(free), "starting")
     /\ spawner' = [spawner EXCEPT ![Min(free)] = t]

(* connect_or_start: nobody answers, so a daemon is spawned, once. *)
Start(t) ==
  /\ client[t] = "new" /\ ~Listening
  /\ Spawns(t)
  /\ ClientGoes(t, "polling") /\ beaten' = beaten \ {t}
  /\ UNCHANGED <<lock, path, tries, conn, task, alone, crashes>>

Connect(t) == client[t] \in {"new", "polling"} /\ Connects(t)

(* An attempt fails: the first attach is not repeated, a reattach is. *)
AttemptFails(t) ==
  IF tries[t] = 0 \/ tries[t] >= Attempts
  THEN ClientGoes(t, "unmirrored") /\ UNCHANGED tries
  ELSE ClientGoes(t, "new") /\ tries' = [tries EXCEPT ![t] = @ + 1]

PollTimesOut(t) ==
  /\ client[t] = "polling" /\ ~Listening
  /\ \A d \in Daemons : daemon[d] \notin {"starting", "standing"}
  /\ AttemptFails(t)
  /\ UNCHANGED <<daemon, lock, path, spawner, conn, task, alone, beaten, crashes>>

(* handshake: the daemon's HelloOk, answered with Open. *)
Attach(t) ==
  /\ client[t] = "greeting" /\ conn[t] # NoDaemon /\ task[t] = "greeted"
  /\ ClientGoes(t, "attached") /\ tries' = [tries EXCEPT ![t] = 0]
  /\ UNCHANGED <<daemon, lock, path, spawner, conn, task, alone, beaten, crashes>>

(* The socket closed before the greeting. *)
HandshakeFails(t) ==
  /\ client[t] = "greeting" /\ conn[t] = NoDaemon
  /\ AttemptFails(t)
  /\ UNCHANGED <<daemon, lock, path, spawner, conn, task, alone, beaten, crashes>>

(* Mutant: a lost connection ends the mirror. *)
TransportEnds(t) ==
  /\ client[t] = "attached" /\ conn[t] = NoDaemon
  /\ ClientGoes(t, "unmirrored") /\ UNCHANGED tries
  /\ UNCHANGED <<daemon, lock, path, spawner, conn, task, alone, beaten, crashes>>

(* carry: Ended::Transport starts a reattach. *)
TransportFails(t) ==
  /\ client[t] = "attached" /\ conn[t] = NoDaemon
  /\ ClientGoes(t, "new") /\ tries' = [tries EXCEPT ![t] = 1]
  /\ UNCHANGED <<daemon, lock, path, spawner, conn, task, alone, beaten, crashes>>

(* The shell ends, or its tab is killed: the connection is closed. *)
Close(t) ==
  /\ client[t] = "attached"
  /\ ClientGoes(t, "gone")
  /\ UNCHANGED <<daemon, lock, path, spawner, tries, conn, task, alone, beaten, crashes>>

(* stop: connect and say hello; nothing to do when no daemon answers. *)
StopConnects(c) == client[c] = "new" /\ Connects(c)

StopEnds(c) ==
  /\ client[c] = "greeting" /\ conn[c] = NoDaemon
  /\ ClientGoes(c, "gone")
  /\ UNCHANGED <<daemon, lock, path, spawner, tries, conn, task, alone, beaten, crashes>>

-----------------------------------------------------------------------------
(* The daemon. *)

(* Lock::acquire, which does not wait. *)
LockIsFree == lock = NoDaemon

(* Mutant: the daemon that finds the lock taken serves all the same. *)
ServeAnyway(d) ==
  /\ daemon[d] = "starting"
  /\ DaemonGoes(d, "serving") /\ lock' = d /\ path' = d /\ UNCHANGED beaten
  /\ UNCHANGED <<spawner, client, tries, conn, task, alone, crashes>>

(* serve: take the lock and bind, or exit with EXIT_ALREADY_RUNNING. *)
Serve(d) ==
  /\ daemon[d] = "starting"
  /\ IF LockIsFree
     THEN DaemonGoes(d, "serving") /\ lock' = d /\ path' = d /\ UNCHANGED beaten
     ELSE /\ DaemonGoes(d, "none") /\ UNCHANGED <<lock, path>>
          /\ beaten' = IF client[spawner[d]] = "polling" THEN beaten \cup {spawner[d]}
                       ELSE beaten
  /\ spawner' = [spawner EXCEPT ![d] = NoDaemon]
  /\ UNCHANGED <<client, tries, conn, task, alone, crashes>>

Accept(c) ==
  /\ task[c] = "queued" /\ Accepting(conn[c])
  /\ TaskGoes(c, "accepted")
  /\ UNCHANGED <<daemon, lock, path, spawner, client, tries, conn, alone, beaten, crashes>>

(* converse, hello: the other clients are counted here. *)
Greet(c) ==
  /\ task[c] = "accepted" /\ Accepting(conn[c])
  /\ TaskGoes(c, "greeted")
  /\ alone' = IF ClientsOf(conn[c]) = {c} THEN alone \cup ({c} \cap Stops) ELSE alone
  /\ UNCHANGED <<daemon, lock, path, spawner, client, tries, conn, beaten, crashes>>

(* converse, open: the local_ref is claimed and the terminal published. *)
Open(t) ==
  /\ task[t] = "greeted" /\ client[t] = "attached" /\ Accepting(conn[t])
  /\ TaskGoes(t, "claimed")
  /\ UNCHANGED <<daemon, lock, path, spawner, client, tries, conn, alone, beaten, crashes>>

(* converse, retire: exits in 50 ms, or refuses. *)
Retire(c) ==
  /\ task[c] = "greeted" /\ Accepting(conn[c])
  /\ IF c \in alone /\ \A t \in Connected(conn[c]) : task[t] \notin {"claimed", "leaving"}
     THEN DaemonGoes(conn[c], "retiring") ELSE UNCHANGED daemon
  /\ TaskGoes(c, "leaving") /\ ClientGoes(c, "gone")
  /\ UNCHANGED <<lock, path, spawner, tries, conn, alone, beaten, crashes>>

(* The client closed the connection; the claim goes, then the count. *)
Leave(c) ==
  /\ client[c] = "gone" /\ conn[c] # NoDaemon /\ Accepting(conn[c])
  /\ IF task[c] = "leaving" THEN Breaks({c}) ELSE TaskGoes(c, "leaving") /\ UNCHANGED conn
  /\ UNCHANGED <<daemon, lock, path, spawner, client, tries, alone, beaten, crashes>>

(* A process ends: the kernel frees its lock and closes its connections.   *)
Exits(d) ==
  /\ DaemonGoes(d, "none")
  /\ lock' = IF lock = d THEN NoDaemon ELSE lock
  /\ Breaks(Connected(d))

(* serve, idle for IDLE_GRACE: the socket is unlinked first. *)
StandDown(d) ==
  /\ daemon[d] = "serving" /\ ~RemoteOpen /\ ClientsOf(d) = {}
  /\ \A t \in Tabs : ~Searching(t)
  /\ DaemonGoes(d, "standing") /\ path' = NoDaemon
  /\ UNCHANGED <<lock, spawner, client, tries, conn, task, alone, beaten, crashes>>

(* A connection was queued: it is served and the socket bound again, which *)
(* drops the old listener with whatever else is queued there.              *)
StandDownAccepts(d, c) ==
  /\ daemon[d] = "standing" /\ conn[c] = d /\ task[c] = "queued"
  /\ DaemonGoes(d, "serving") /\ path' = d
  /\ conn' = [x \in Clients |-> IF x # c /\ conn[x] = d THEN NoDaemon ELSE conn[x]]
  /\ task' = [x \in Clients |-> IF x = c THEN "accepted"
                                ELSE IF conn[x] = d THEN "none" ELSE task[x]]
  /\ UNCHANGED <<lock, spawner, client, tries, alone, beaten, crashes>>

StandDownExits(d) ==
  /\ daemon[d] = "standing" /\ Connected(d) = {}
  /\ Exits(d)
  /\ UNCHANGED <<path, spawner, client, tries, alone, beaten, crashes>>

(* The socket of a daemon that retired or died stays behind. *)
RetireExits(d) ==
  /\ daemon[d] = "retiring"
  /\ Exits(d)
  /\ UNCHANGED <<path, spawner, client, tries, alone, beaten, crashes>>

(* A daemon dies, or one that starts cannot take the lock file or bind.    *)
Crash(d) ==
  /\ daemon[d] # "none" /\ crashes < MaxCrashes
  /\ Exits(d) /\ crashes' = crashes + 1
  /\ spawner' = [spawner EXCEPT ![d] = NoDaemon]
  /\ UNCHANGED <<path, client, tries, alone, beaten>>

-----------------------------------------------------------------------------
TabStep(t) ==
  \/ Connect(t) \/ PollTimesOut(t) \/ Attach(t) \/ HandshakeFails(t)
  \/ TransportFails(t) \/ Start(t)
TaskStep(c) == Accept(c) \/ Greet(c) \/ Leave(c)
DaemonStep(d) ==
  \/ Serve(d) \/ StandDownExits(d) \/ RetireExits(d)
  \/ \E c \in Clients : StandDownAccepts(d, c)

Next ==
  \/ \E t \in Tabs : TabStep(t) \/ Close(t) \/ Open(t)
  \/ \E c \in Stops : StopConnects(c) \/ StopEnds(c) \/ Retire(c)
  \/ \E c \in Clients : TaskStep(c)
  \/ \E d \in Daemons : DaemonStep(d) \/ StandDown(d) \/ Crash(d)

Spec == Init /\ [][Next]_vars

(* A tab that has been opened goes on. *)
TabContinues(t) == (client[t] = "new" => tries[t] > 0) /\ TabStep(t)

(* Processes that have started keep running.  Nobody has to open or close  *)
(* a tab, and the daemon need not stand down.                              *)
FairSpec ==
  /\ Spec
  /\ \A t \in Tabs : WF_vars(TabContinues(t)) /\ WF_vars(Open(t))
  /\ \A c \in Stops : WF_vars(Retire(c))
  /\ \A c \in Clients : WF_vars(TaskStep(c))
  /\ \A d \in Daemons : WF_vars(DaemonStep(d))

-----------------------------------------------------------------------------
(* Two daemons never serve a device at once, and the socket never leads to *)
(* one that does not hold the lock: not when tabs race to start one, nor   *)
(* when one starts while another stands down or has died.                  *)
OneServer ==
  /\ \A d \in Daemons : Alive(d) => lock = d
  /\ \A c \in Clients : conn[c] # NoDaemon => conn[c] = lock

(* A tab that had its mirror gets it back when the daemon dies or is       *)
(* stopped under it, whoever starts the next one.                          *)
MirrorComesBack ==
  \A t \in Tabs :
    client[t] = "attached" /\ conn[t] = NoDaemon
      ~> client[t] = "gone" \/ (client[t] = "attached" /\ conn[t] # NoDaemon)

(* The tab whose daemon found the lock taken reaches the one that has it.  *)
(* (daemon.rs, serve: "The client that spawned us will reach it.")  Not    *)
(* checked: it does not hold, see the README.                              *)
BeatenIsReached == \A t \in beaten : client[t] # "unmirrored"
=============================================================================
