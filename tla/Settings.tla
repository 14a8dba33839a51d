------------------------------ MODULE Settings ------------------------------
(***************************************************************************)
(* Runtime settings: the committed revision and its rows, the snapshot     *)
(* each server instance publishes (server/src/settings/store.rs), the      *)
(* operators who read and patch it over HTTP (http/admin.rs) or with the   *)
(* settings command (main.rs), the watcher that notices what others commit *)
(* and the listener that is bound again when its configuration changes     *)
(* (server.rs supervise).                                                  *)
(*                                                                         *)
(* Several processes share one database.  A load reads the revision in one *)
(* statement and the rows in another: each is a step, and a commit of      *)
(* anybody may come between them.  A snapshot is [label, of]: the revision *)
(* it says it is and the revision its values were committed with.          *)
(*                                                                         *)
(* The values of a revision are abstracted to the listener configuration   *)
(* they hold, "plain" or "tls".  A tls configuration is valid while the    *)
(* certificate files can be found (validate_combination) and can be served *)
(* while they can also be parsed (load_tls).  Left out: the audit table,   *)
(* sealing of secrets, first initialisation, and the other readers of the  *)
(* snapshot.                                                               *)
(***************************************************************************)
EXTENDS Integers, Sequences

CONSTANTS
  Instances,
  Operators,
  Cli,          \* the host on which the settings command runs
  Configs,      \* the configurations operators may ask for
  MaxRev,       \* bound on committed revisions
  MaxFaults     \* bound on crashes, file changes, failed reads and binds

ASSUME SettingsAssumption ==
  /\ MaxRev \in Nat \ {0} /\ MaxFaults \in Nat
  /\ Configs \subseteq {"plain", "tls"}
  /\ Instances \cap Operators = {} /\ Cli \notin Instances

VARIABLES
  conf,         \* the configuration of each committed revision
  published,    \* [Instances -> the snapshot in the watch channel]
  task,         \* what each instance's loader and each operator's handler is at
  got,          \* the snapshot each of them is holding
  via,          \* [Operators -> where the request or the command is served]
  files,        \* [Instances \cup {Cli} -> the certificate files there]
  listener,     \* [Instances -> [at, cfg]]
  news,         \* [Instances -> the listener has not seen the last publication]
  faults

vars == <<conf, published, task, got, via, files, listener, news, faults>>

revision == Len(conf)
Nothing == [label |-> 0, of |-> 0]
Down == [at |-> "down", cfg |-> "none"]
Config(i) == conf[published[i].of]
Running(i) == task[i] \notin {"off", "booting"}

SettingsInit ==
  /\ conf = <<"plain">>
  /\ published = [i \in Instances |-> [label |-> 1, of |-> 1]]
  /\ task = [x \in Instances \cup Operators |-> IF x \in Instances THEN "asleep" ELSE "idle"]
  /\ got = [x \in Instances \cup Operators |-> Nothing]
  /\ via = [p \in Operators |-> Cli]
  /\ files = [i \in Instances \cup {Cli} |-> "good"]
  /\ listener = [i \in Instances |-> [at |-> "top", cfg |-> "none"]]
  /\ news = [i \in Instances |-> FALSE]
  /\ faults = 0

Goes(x, from, to) == task[x] = from /\ task' = [task EXCEPT ![x] = to]
Forget(x) == got' = [got EXCEPT ![x] = Nothing]
Fault == faults < MaxFaults /\ faults' = faults + 1

(* validate_combination, where the files of i are looked at. *)
Valid(i, cfg) == cfg = "tls" => files[i] # "absent"

Publish(i, snapshot) ==
  /\ published' = [published EXCEPT ![i] = snapshot]
  /\ news' = [news EXCEPT ![i] = TRUE]

(* Mutant: the rows are read first and the revision after them. *)
LoadRowsFirst(x, step) ==
  got' = [got EXCEPT ![x] = IF step = 1 THEN [label |-> 0, of |-> revision]
                            ELSE [@ EXCEPT !.label = revision]]

(* load: the revision is read in the first step, and the rows, all of them *)
(* in one statement, in the second.                                        *)
Load(x, step) ==
  got' = [got EXCEPT ![x] = IF step = 1 THEN [label |-> revision, of |-> 0]
                            ELSE [@ EXCEPT !.of = revision]]

-----------------------------------------------------------------------------
(* The propagation watcher of an instance.                                 *)

(* The poll: anything but the published revision is worth a reload. *)
Poll(i) ==
  /\ revision # published[i].label
  /\ Goes(i, "asleep", "reloading") /\ Load(i, 1)
  /\ UNCHANGED <<conf, published, via, files, listener, news, faults>>

(* reload: the rows must be valid, or the last good snapshot stays. *)
Reload(i) ==
  /\ IF Valid(i, conf[revision])
     THEN Goes(i, "reloading", "comparing") /\ Load(i, 2)
     ELSE Goes(i, "reloading", "asleep") /\ Forget(i)
  /\ UNCHANGED <<conf, published, via, files, listener, news, faults>>

(* The comparison and the publication are two steps: a patch may publish   *)
(* between them.                                                           *)
Compare(i) ==
  /\ IF got[i].label # published[i].label
     THEN Goes(i, "comparing", "publishing") /\ UNCHANGED got
     ELSE Goes(i, "comparing", "asleep") /\ Forget(i)
  /\ UNCHANGED <<conf, published, via, files, listener, news, faults>>

PublishReloaded(i) ==
  /\ Goes(i, "publishing", "asleep")
  /\ Publish(i, got[i]) /\ Forget(i)
  /\ UNCHANGED <<conf, via, files, listener, faults>>

(* A query fails, or no connection is to be had: the watcher tries again at *)
(* its next poll, the operator is told that the patch failed.               *)
ReadFails(x) ==
  /\ Fault
  /\ \/ x \in Instances /\ Goes(x, "reloading", "asleep")
     \/ x \in Operators /\ task[x] \in {"opening", "committed", "loading"} /\ Goes(x, task[x], "idle")
  /\ Forget(x)
  /\ UNCHANGED <<conf, published, via, files, listener, news>>

-----------------------------------------------------------------------------
(* Operators.                                                              *)

(* get_settings: the snapshot of the instance that answers. *)
GetSettings(p, i) ==
  /\ Running(i) /\ Goes(p, "idle", "informed")
  /\ got' = [got EXCEPT ![p] = published[i]]
  /\ via' = [via EXCEPT ![p] = i]
  /\ UNCHANGED <<conf, published, files, listener, news, faults>>

(* settings_command: the command opens the store, which loads a snapshot *)
(* of its own ...                                                        *)
SettingsCommand(p) ==
  /\ Goes(p, "idle", "opening") /\ Load(p, 1)
  /\ via' = [via EXCEPT ![p] = Cli]
  /\ UNCHANGED <<conf, published, files, listener, news, faults>>

(* ... and quotes the revision of that. *)
CommandLoads(p) ==
  /\ IF Valid(Cli, conf[revision])
     THEN Goes(p, "opening", "informed") /\ Load(p, 2)
     ELSE Goes(p, "opening", "idle") /\ Forget(p)
  /\ UNCHANGED <<conf, published, via, files, listener, news, faults>>

(* The operator who read over HTTP may patch through any instance. *)
Serves(p, i) == IF via[p] = Cli THEN i = Cli ELSE i \in Instances /\ Running(i)

(* The command skips a patch that changes nothing. *)
NoOp(p, i, cfg) == i = Cli /\ conf[got[p].of] = cfg

(* patch: the transaction compares the revision the operator quotes,       *)
(* validates and commits the rows and the next revision.                   *)
Patch(p, i, cfg) ==
  /\ Serves(p, i) /\ revision < MaxRev
  /\ Goes(p, "informed", "committed")
  /\ got[p].label = revision /\ Valid(i, cfg) /\ ~NoOp(p, i, cfg)
  /\ conf' = Append(conf, cfg)
  /\ via' = [via EXCEPT ![p] = i]
  /\ Forget(p)
  /\ UNCHANGED <<published, files, listener, news, faults>>

(* A conflict, an invalid combination or a skipped patch leaves everything *)
(* alone; the operator has to read again.                                  *)
PatchRejected(p, i, cfg) ==
  /\ Serves(p, i)
  /\ Goes(p, "informed", "idle") /\ Forget(p)
  /\ got[p].label # revision \/ ~Valid(i, cfg) \/ NoOp(p, i, cfg)
  /\ UNCHANGED <<conf, published, via, files, listener, news, faults>>

(* patch, after the commit: the load, whose failure is reported although   *)
(* the patch is committed ...                                              *)
PatchLoads(p) ==
  /\ Goes(p, "committed", "loading") /\ Load(p, 1)
  /\ UNCHANGED <<conf, published, via, files, listener, news, faults>>

PatchLoadsRows(p) ==
  /\ IF Valid(via[p], conf[revision])
     THEN Goes(p, "loading", "loaded") /\ Load(p, 2)
     ELSE Goes(p, "loading", "idle") /\ Forget(p)
  /\ UNCHANGED <<conf, published, via, files, listener, news, faults>>

(* ... and the publication, whatever has been published since.  The answer *)
(* tells the operator the snapshot, from which it may patch again.  Nobody *)
(* subscribes to the store of the command, which ends.                     *)
PatchPublishes(p) ==
  /\ IF via[p] = Cli
     THEN Goes(p, "loaded", "idle") /\ Forget(p) /\ UNCHANGED <<published, news>>
     ELSE Goes(p, "loaded", "informed") /\ Publish(via[p], got[p]) /\ UNCHANGED got
  /\ UNCHANGED <<conf, via, files, listener, faults>>

-----------------------------------------------------------------------------
(* The listener of an instance: supervise.                                 *)

(* The top of the loop: the configuration of the snapshot of the moment. *)
ReadConfig(i) ==
  /\ listener[i].at = "top"
  /\ listener' = [listener EXCEPT ![i] = [at |-> "binding", cfg |-> Config(i)]]
  /\ UNCHANGED <<conf, published, task, got, via, files, news, faults>>

(* Mutant: the snapshot is read through the receiver that is waited on, and *)
(* only after the listener is bound.                                        *)
BindMarksSeen(i) ==
  /\ listener[i].at = "binding"
  /\ ~(listener[i].cfg = "tls" /\ files[i] # "good")
  /\ listener' = [listener EXCEPT ![i].at = "serving"]
  /\ news' = [news EXCEPT ![i] = FALSE]
  /\ UNCHANGED <<conf, published, task, got, via, files, faults>>

Bind(i) ==
  /\ listener[i].at = "binding"
  /\ ~(listener[i].cfg = "tls" /\ files[i] # "good")
  /\ listener' = [listener EXCEPT ![i].at = "serving"]
  /\ UNCHANGED <<conf, published, task, got, via, files, news, faults>>

(* load_tls fails: nothing but a new revision is waited for.  A failed bind *)
(* is also tried again after five seconds.                                  *)
TlsFails(i) ==
  /\ listener[i].at = "binding" /\ listener[i].cfg = "tls" /\ files[i] # "good"
  /\ listener' = [listener EXCEPT ![i].at = "unloadable"]
  /\ UNCHANGED <<conf, published, task, got, via, files, news, faults>>

BindFails(i) ==
  /\ Fault
  /\ listener[i].at = "binding"
  /\ ~(listener[i].cfg = "tls" /\ files[i] # "good")
  /\ listener' = [listener EXCEPT ![i].at = "unbound"]
  /\ UNCHANGED <<conf, published, task, got, via, files, news>>

BindAgain(i) ==
  /\ listener[i].at = "unbound"
  /\ listener' = [listener EXCEPT ![i].at = "top"]
  /\ UNCHANGED <<conf, published, task, got, via, files, news, faults>>

(* settings_rx.changed(): a listener that waits starts over; one that       *)
(* serves stops, and drains, if its own configuration is another.           *)
SettingsChanged(i) ==
  /\ news[i] /\ news' = [news EXCEPT ![i] = FALSE]
  /\ \/ /\ listener[i].at \in {"unloadable", "unbound"}
        /\ listener' = [listener EXCEPT ![i].at = "top"]
     \/ /\ listener[i].at = "serving"
        /\ listener' = IF Config(i) # listener[i].cfg
                       THEN [listener EXCEPT ![i].at = "draining"] ELSE listener
  /\ UNCHANGED <<conf, published, task, got, via, files, faults>>

Drained(i) ==
  /\ listener[i].at = "draining"
  /\ listener' = [listener EXCEPT ![i].at = "top"]
  /\ UNCHANGED <<conf, published, task, got, via, files, news, faults>>

-----------------------------------------------------------------------------
(* Faults.                                                                 *)

Crash(i) ==
  /\ Fault
  /\ task[i] # "off"
  /\ LET dies == {i} \cup {p \in Operators :
                   task[p] \in {"committed", "loading", "loaded"} /\ via[p] = i}
     IN /\ task' = [x \in DOMAIN task |->
             IF x = i THEN "off" ELSE IF x \in dies THEN "idle" ELSE task[x]]
        /\ got' = [x \in DOMAIN got |-> IF x \in dies THEN Nothing ELSE got[x]]
  /\ listener' = [listener EXCEPT ![i] = Down]
  /\ news' = [news EXCEPT ![i] = FALSE]
  /\ UNCHANGED <<conf, published, via, files>>

(* initialize: the snapshot an instance starts with is loaded like every   *)
(* other one; the process ends if that fails.                              *)
Initialize(i) ==
  /\ Goes(i, "off", "booting") /\ Load(i, 1)
  /\ UNCHANGED <<conf, published, via, files, listener, news, faults>>

Boots(i) ==
  /\ IF Valid(i, conf[revision])
     THEN /\ Goes(i, "booting", "asleep")
          /\ published' = [published EXCEPT ![i] = [got[i] EXCEPT !.of = revision]]
          /\ listener' = [listener EXCEPT ![i].at = "top"]
     ELSE Goes(i, "booting", "off") /\ UNCHANGED <<published, listener>>
  /\ Forget(i)
  /\ UNCHANGED <<conf, via, files, news, faults>>

(* Somebody replaces, damages or removes the certificate files. *)
FilesChange(i, state) ==
  /\ Fault
  /\ state # files[i]
  /\ files' = [files EXCEPT ![i] = state]
  /\ UNCHANGED <<conf, published, task, got, via, listener, news>>

-----------------------------------------------------------------------------
Watcher(i) == Poll(i) \/ Reload(i) \/ Compare(i) \/ PublishReloaded(i) \/ Boots(i)
Handler(p) == CommandLoads(p) \/ PatchLoads(p) \/ PatchLoadsRows(p) \/ PatchPublishes(p)
Listener(i) ==
  ReadConfig(i) \/ Bind(i) \/ TlsFails(i) \/ BindAgain(i) \/ SettingsChanged(i) \/ Drained(i)

Next ==
  \/ \E i \in Instances :
       \/ Watcher(i) \/ Listener(i) \/ ReadFails(i) \/ BindFails(i)
       \/ Crash(i) \/ Initialize(i)
  \/ \E p \in Operators :
       \/ Handler(p) \/ ReadFails(p) \/ SettingsCommand(p)
       \/ \E i \in Instances : GetSettings(p, i)
       \/ \E i \in Instances \cup {Cli}, cfg \in Configs :
            Patch(p, i, cfg) \/ PatchRejected(p, i, cfg)
  \/ \E i \in Instances \cup {Cli}, state \in {"good", "broken", "absent"} :
       FilesChange(i, state)

SettingsSpec == SettingsInit /\ [][Next]_vars

(* The runtime runs tasks that can run; a poll comes round, a drain and a  *)
(* retry have a deadline.  Nothing is assumed of operators, of faults or   *)
(* of whoever starts a process that has ended.                             *)
SettingsFairSpec ==
  /\ SettingsSpec
  /\ \A i \in Instances : WF_vars(Watcher(i)) /\ WF_vars(Listener(i))
  /\ \A p \in Operators : WF_vars(Handler(p))

-----------------------------------------------------------------------------
(* No patch undoes a change its operator has not seen: the values a         *)
(* committed patch was based on are those it replaces, although the         *)
(* revision and the rows of a snapshot are read at two moments, and a       *)
(* late publication may take a snapshot back.                               *)
NoLostUpdate ==
  [][\A p \in Operators :
       task[p] = "informed" /\ task'[p] = "committed" => got[p].of = revision]_vars

(* "All healthy instances converge on a committed revision": every instance *)
(* that runs and can load the newest values ends up publishing them, under  *)
(* their own revision, whoever committed them and whatever failed meanwhile. *)
Convergence ==
  <>[](\A i \in Instances :
         Running(i) /\ Valid(i, conf[revision]) =>
           published[i] = [label |-> revision, of |-> revision])

(* The listener ends up serving the published configuration: a publication *)
(* during a bind, a drain or a retry is not missed.  The one exception is  *)
(* a certificate that could not be loaded.                                 *)
ListenerFollows ==
  <>[](\A i \in Instances : Running(i) =>
         /\ listener[i].cfg = Config(i)
         /\ \/ listener[i].at = "serving"
            \/ listener[i].at = "unloadable" /\ Config(i) = "tls")
=============================================================================
