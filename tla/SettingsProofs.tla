--------------------------- MODULE SettingsProofs ---------------------------
(***************************************************************************)
(* No operator undoes a change it has not seen, for any number of          *)
(* instances, operators, revisions and faults.                             *)
(*                                                                         *)
(* The argument: a snapshot is never older than it says.  load reads the   *)
(* revision before the rows, so the values of a snapshot were committed    *)
(* with the revision it is labelled with or with a later one; a snapshot   *)
(* labelled with the newest revision therefore has the newest values, and  *)
(* that label is what patch compares.                                      *)
(***************************************************************************)
EXTENDS Settings, TLAPS

Snapshots == [label : Nat, of : Nat]
Actors == Instances \cup Operators

Stages == {"asleep", "reloading", "comparing", "publishing", "off", "booting",
           "idle", "informed", "opening", "committed", "loading", "loaded"}

(* The stages at which a snapshot is complete. *)
Complete == {"comparing", "publishing", "informed", "loaded"}

(* A snapshot is never older than it says, nor newer than what is          *)
(* committed.                                                              *)
NotOlder(s) == s.label <= s.of /\ s.of <= revision

(* A load that has read the revision, or nothing. *)
Partial(s) == s.label <= revision

SnapshotInv ==
  /\ conf \in Seq({"plain", "tls"})
  /\ published \in [Instances -> Snapshots]
  /\ got \in [Actors -> Snapshots]
  /\ task \in [Actors -> Stages]
  /\ via \in [Operators -> Instances \cup {Cli}]
  /\ \A i \in Instances : NotOlder(published[i])
  /\ \A x \in Actors : Partial(got[x])
  /\ \A x \in Actors : task[x] \in Complete => NotOlder(got[x])

LEMMA RevisionType == SnapshotInv => revision \in Nat
BY DEF SnapshotInv, revision

(* The two steps of a load. *)
LEMMA LoadStep ==
  ASSUME SnapshotInv, NEW x \in Actors, NEW step \in {1, 2}, Load(x, step)
  PROVE  /\ got' \in [Actors -> Snapshots]
         /\ \A y \in Actors : y # x => got'[y] = got[y]
         /\ Partial(got'[x])
         /\ step = 2 => NotOlder(got'[x])
<1>1. revision \in Nat /\ got[x] \in Snapshots /\ got[x].label <= revision
  BY RevisionType DEF SnapshotInv, Partial
<1>2. CASE step = 1
  <2>1. got' = [got EXCEPT ![x] = [label |-> revision, of |-> 0]]
    BY <1>2 DEF Load
  <2>2. [label |-> revision, of |-> 0] \in Snapshots
    BY <1>1 DEF Snapshots
  <2> HIDE DEF revision
  <2> QED
    BY <1>1, <1>2, <2>1, <2>2 DEF SnapshotInv, Partial
<1>3. CASE step = 2
  <2> DEFINE s == [got[x] EXCEPT !.of = revision]
  <2>1. got' = [got EXCEPT ![x] = s]
    BY <1>3 DEF Load
  <2> HIDE DEF revision
  <2>2. s \in Snapshots /\ s.label = got[x].label /\ s.of = revision
    BY <1>1 DEF Snapshots
  <2>3. s.label <= s.of /\ s.of <= revision
    BY <1>1, <2>2
  <2> HIDE DEF s
  <2> QED
    BY <1>1, <2>1, <2>2, <2>3 DEF SnapshotInv, Partial, NotOlder
<1> QED
  BY <1>2, <1>3

LEMMA ForgetStep ==
  ASSUME SnapshotInv, NEW x \in Actors, Forget(x)
  PROVE  /\ got' \in [Actors -> Snapshots]
         /\ \A y \in Actors : y # x => got'[y] = got[y]
         /\ Partial(got'[x])
<1>1. revision \in Nat /\ Nothing \in Snapshots /\ Nothing.label = 0
  BY RevisionType DEF Nothing, Snapshots
<1> QED
  BY <1>1 DEF Forget, SnapshotInv, Partial

(* One actor moves: what it holds afterwards, and what it publishes, is    *)
(* not older than it says.                                                 *)
LEMMA ActorMoves ==
  ASSUME SnapshotInv, UNCHANGED conf, NEW x \in Actors, NEW to \in Stages,
         task' = [task EXCEPT ![x] = to],
         got' \in [Actors -> Snapshots],
         \A y \in Actors : y # x => got'[y] = got[y],
         Partial(got'[x]), to \in Complete => NotOlder(got'[x]),
         published' \in [Instances -> Snapshots],
         \A i \in Instances : NotOlder(published'[i]),
         via' \in [Operators -> Instances \cup {Cli}]
  PROVE  SnapshotInv'
<1>1. revision' = revision
  BY DEF revision
<1>2. \A y \in Actors : task'[y] = IF y = x THEN to ELSE task[y]
  BY DEF SnapshotInv
<1>4. \A i \in Instances : NotOlder(published[i])'
  BY <1>1 DEF NotOlder
<1>5. \A y \in Actors : Partial(got[y])'
  <2>1. \A y \in Actors : Partial(got'[y])
    BY DEF SnapshotInv
  <2> QED
    BY <1>1, <2>1 DEF Partial
<1>6. \A y \in Actors : task'[y] \in Complete => NotOlder(got[y])'
  <2>1. \A y \in Actors : task'[y] \in Complete => NotOlder(got'[y])
    BY <1>2 DEF SnapshotInv
  <2> QED
    BY <1>1, <2>1 DEF NotOlder
<1> QED
  BY <1>4, <1>5, <1>6 DEF SnapshotInv

(* Nobody's snapshot is touched. *)
LEMMA SnapshotsUnchanged ==
  ASSUME SnapshotInv, UNCHANGED <<conf, published, task, got, via>>
  PROVE  SnapshotInv'
BY DEF SnapshotInv, NotOlder, Partial, revision

(* A commit makes every snapshot older, none older than it says. *)
LEMMA Commits ==
  ASSUME SnapshotInv, NEW p \in Operators, NEW cfg \in Configs,
         task' = [task EXCEPT ![p] = "committed"], conf' = Append(conf, cfg), Forget(p),
         UNCHANGED published, via' \in [Operators -> Instances \cup {Cli}]
  PROVE  SnapshotInv'
<1>1. conf' \in Seq({"plain", "tls"}) /\ revision' = revision + 1 /\ revision \in Nat
  BY SettingsAssumption DEF SnapshotInv, revision
<1>2. p \in Actors
  BY DEF Actors
<1>3. /\ got' \in [Actors -> Snapshots] /\ Partial(got'[p])
      /\ \A y \in Actors : y # p => got'[y] = got[y]
  BY <1>2, ForgetStep
<1>4. \A y \in Actors : task'[y] = IF y = p THEN "committed" ELSE task[y]
  BY DEF SnapshotInv
<1>5. \A s \in Snapshots : /\ s.label <= revision => s.label <= revision'
                           /\ s.of <= revision => s.of <= revision'
  BY <1>1 DEF Snapshots
<1>6. \A i \in Instances : NotOlder(published[i])'
  BY <1>5 DEF SnapshotInv, NotOlder
<1>7. \A y \in Actors : Partial(got[y])'
  BY <1>3, <1>5 DEF SnapshotInv, Partial
<1>8. \A y \in Actors : task'[y] \in Complete => NotOlder(got[y])'
  <2>1. \A y \in Actors : task'[y] \in Complete => NotOlder(got'[y])
    BY <1>3, <1>4 DEF SnapshotInv, Complete
  <2> QED
    BY <1>3, <1>5, <2>1 DEF NotOlder
<1>9. task' \in [Actors -> Stages]
  BY DEF SnapshotInv, Stages
<1> QED
  BY <1>1, <1>3, <1>6, <1>7, <1>8, <1>9 DEF SnapshotInv

-----------------------------------------------------------------------------
(* One lemma for each party. *)

(* The watcher, and an instance that starts. *)
LEMMA WatcherKeeps ==
  ASSUME SnapshotInv, NEW i \in Instances, Watcher(i) \/ Initialize(i) \/ ReadFails(i)
  PROVE  SnapshotInv'
<1> USE DEF Goes, Stages, Complete
<1>1. i \in Actors /\ published \in [Instances -> Snapshots]
      /\ via \in [Operators -> Instances \cup {Cli}] /\ got \in [Actors -> Snapshots]
      /\ Partial(got[i]) /\ \A j \in Instances : NotOlder(published[j])
  BY DEF Actors, SnapshotInv
<1>2. CASE Poll(i) \/ Initialize(i)
  <2>1. PICK to \in {"reloading", "booting"} : task' = [task EXCEPT ![i] = to]
    BY <1>2 DEF Poll, Initialize
  <2>2. Load(i, 1) /\ UNCHANGED <<conf, published, via>>
    BY <1>2 DEF Poll, Initialize
  <2> QED
    BY <1>1, <2>1, <2>2, LoadStep, ActorMoves
<1>3. ASSUME NEW to \in {"asleep", "off", "idle"}, task' = [task EXCEPT ![i] = to], Forget(i),
             UNCHANGED <<conf, via>>, published' \in [Instances -> Snapshots],
             \A j \in Instances : NotOlder(published'[j])
      PROVE  SnapshotInv'
  BY <1>1, <1>3, ForgetStep, ActorMoves
<1>4. CASE Reload(i)
  <2>1. CASE Valid(i, conf[revision])
    <3>1. /\ task' = [task EXCEPT ![i] = "comparing"] /\ Load(i, 2)
          /\ UNCHANGED <<conf, published, via>>
      BY <1>4, <2>1 DEF Reload
    <3> QED
      BY <1>1, <3>1, LoadStep, ActorMoves
  <2>2. CASE ~Valid(i, conf[revision])
    BY <1>1, <1>3, <1>4, <2>2 DEF Reload
  <2> QED
    BY <2>1, <2>2
<1>5. CASE Compare(i)
  <2>1. CASE got[i].label # published[i].label
    <3>1. /\ task[i] = "comparing" /\ task' = [task EXCEPT ![i] = "publishing"]
          /\ UNCHANGED <<conf, published, via, got>>
      BY <1>5, <2>1 DEF Compare
    <3>2. NotOlder(got[i])
      BY <1>1, <3>1 DEF SnapshotInv
    <3> QED
      BY <1>1, <3>1, <3>2, ActorMoves
  <2>2. CASE ~(got[i].label # published[i].label)
    BY <1>1, <1>3, <1>5, <2>2 DEF Compare
  <2> QED
    BY <2>1, <2>2
<1>6. CASE PublishReloaded(i)
  <2>1. /\ task[i] = "publishing" /\ task' = [task EXCEPT ![i] = "asleep"] /\ Forget(i)
        /\ published' = [published EXCEPT ![i] = got[i]] /\ UNCHANGED <<conf, via>>
    BY <1>6 DEF PublishReloaded, Publish
  <2>2. NotOlder(got[i])
    BY <1>1, <2>1 DEF SnapshotInv
  <2>3. published' \in [Instances -> Snapshots] /\ \A j \in Instances : NotOlder(published'[j])
    BY <1>1, <2>1, <2>2
  <2> QED
    BY <1>3, <2>1, <2>3
<1>7. CASE Boots(i)
  <2>1. CASE Valid(i, conf[revision])
    <3> DEFINE s == [got[i] EXCEPT !.of = revision]
    <3>1. /\ task' = [task EXCEPT ![i] = "asleep"] /\ Forget(i)
          /\ published' = [published EXCEPT ![i] = s] /\ UNCHANGED <<conf, via>>
      BY <1>7, <2>1 DEF Boots
    <3>2. revision \in Nat
      BY RevisionType
    <3>3. s \in Snapshots /\ s.label = got[i].label /\ s.of = revision
      BY <1>1, <3>2 DEF Snapshots
    <3>4. NotOlder(s)
      BY <1>1, <3>2, <3>3 DEF NotOlder, Partial
    <3> HIDE DEF s
    <3>5. published' \in [Instances -> Snapshots]
          /\ \A j \in Instances : NotOlder(published'[j])
      BY <1>1, <3>1, <3>3, <3>4
    <3> QED
      BY <1>3, <3>1, <3>5
  <2>2. CASE ~Valid(i, conf[revision])
    BY <1>1, <1>3, <1>7, <2>2 DEF Boots
  <2> QED
    BY <2>1, <2>2
<1>8. CASE ReadFails(i)
  <2>1. PICK to \in {"asleep", "idle"} : task' = [task EXCEPT ![i] = to]
    BY <1>8 DEF ReadFails
  <2>2. Forget(i) /\ UNCHANGED <<conf, published, via>>
    BY <1>8 DEF ReadFails
  <2> QED
    BY <1>1, <1>3, <2>1, <2>2
<1> QED
  BY <1>2, <1>4, <1>5, <1>6, <1>7, <1>8 DEF Watcher

(* An operator, over HTTP or with the command. *)
LEMMA OperatorKeeps ==
  ASSUME SnapshotInv, NEW p \in Operators,
         \/ Handler(p) \/ ReadFails(p) \/ SettingsCommand(p)
         \/ \E i \in Instances : GetSettings(p, i)
         \/ \E i \in Instances \cup {Cli}, cfg \in Configs :
              Patch(p, i, cfg) \/ PatchRejected(p, i, cfg)
  PROVE  SnapshotInv'
<1> USE DEF Goes, Stages, Complete
<1>1. p \in Actors /\ published \in [Instances -> Snapshots]
      /\ via \in [Operators -> Instances \cup {Cli}] /\ got \in [Actors -> Snapshots]
      /\ Partial(got[p]) /\ \A j \in Instances : NotOlder(published[j])
  BY DEF Actors, SnapshotInv
<1>2. ASSUME NEW to \in {"asleep", "idle"}, task' = [task EXCEPT ![p] = to], Forget(p),
             UNCHANGED <<conf, published, via>>
      PROVE  SnapshotInv'
  BY <1>1, <1>2, ForgetStep, ActorMoves
<1>3. ASSUME NEW to \in {"informed", "loaded"}, task' = [task EXCEPT ![p] = to], Load(p, 2),
             UNCHANGED <<conf, published, via>>
      PROVE  SnapshotInv'
  BY <1>1, <1>3, LoadStep, ActorMoves
<1>4. CASE SettingsCommand(p) \/ PatchLoads(p)
  <2>1. PICK to \in {"opening", "loading"} : task' = [task EXCEPT ![p] = to]
    BY <1>4 DEF SettingsCommand, PatchLoads
  <2>2. /\ Load(p, 1) /\ UNCHANGED <<conf, published>>
        /\ via' \in [Operators -> Instances \cup {Cli}]
    BY <1>1, <1>4 DEF SettingsCommand, PatchLoads
  <2> QED
    BY <1>1, <2>1, <2>2, LoadStep, ActorMoves
<1>5. CASE CommandLoads(p) \/ PatchLoadsRows(p)
  BY <1>2, <1>3, <1>5 DEF CommandLoads, PatchLoadsRows
<1>6. CASE PatchPublishes(p)
  <2>1. CASE via[p] = Cli
    BY <1>2, <1>6, <2>1 DEF PatchPublishes
  <2>2. CASE via[p] # Cli
    <3>1. /\ task[p] = "loaded" /\ task' = [task EXCEPT ![p] = "informed"]
          /\ published' = [published EXCEPT ![via[p]] = got[p]]
          /\ UNCHANGED <<conf, via, got>>
      BY <1>6, <2>2 DEF PatchPublishes, Publish
    <3>2. NotOlder(got[p])
      BY <1>1, <3>1 DEF SnapshotInv
    <3>3. published' \in [Instances -> Snapshots]
          /\ \A j \in Instances : NotOlder(published'[j])
      BY <1>1, <3>1, <3>2
    <3> QED
      BY <1>1, <3>1, <3>2, <3>3, ActorMoves
  <2> QED
    BY <2>1, <2>2
<1>7. CASE ReadFails(p)
  <2>1. PICK to \in {"asleep", "idle"} : task' = [task EXCEPT ![p] = to]
    BY <1>7 DEF ReadFails
  <2>2. Forget(p) /\ UNCHANGED <<conf, published, via>>
    BY <1>7 DEF ReadFails
  <2> QED
    BY <1>2, <2>1, <2>2
<1>8. ASSUME NEW i \in Instances, GetSettings(p, i) PROVE SnapshotInv'
  <2>1. /\ task' = [task EXCEPT ![p] = "informed"] /\ got' = [got EXCEPT ![p] = published[i]]
        /\ via' = [via EXCEPT ![p] = i] /\ UNCHANGED <<conf, published>>
    BY <1>8 DEF GetSettings
  <2>2. NotOlder(published[i]) /\ Partial(published[i])
    <3>1. NotOlder(published[i]) /\ published[i] \in Snapshots /\ revision \in Nat
      BY <1>1, RevisionType
    <3> QED
      BY <3>1 DEF NotOlder, Partial, Snapshots
  <2>3. got'[p] = published[i] /\ got' \in [Actors -> Snapshots]
        /\ \A y \in Actors : y # p => got'[y] = got[y]
    BY <1>1, <2>1
  <2> QED
    BY <1>1, <2>1, <2>2, <2>3, ActorMoves
<1>9. ASSUME NEW i \in Instances \cup {Cli}, NEW cfg \in Configs, Patch(p, i, cfg)
      PROVE  SnapshotInv'
  BY <1>1, <1>9, Commits DEF Patch
<1>10. ASSUME NEW i \in Instances \cup {Cli}, NEW cfg \in Configs, PatchRejected(p, i, cfg)
       PROVE  SnapshotInv'
  BY <1>2, <1>10 DEF PatchRejected
<1> QED
  BY <1>4, <1>5, <1>6, <1>7, <1>8, <1>9, <1>10 DEF Handler

(* A process dies: what it held is gone. *)
LEMMA CrashKeeps ==
  ASSUME SnapshotInv, NEW i \in Instances, Crash(i)
  PROVE  SnapshotInv'
<1>1. /\ UNCHANGED <<conf, published, via>> /\ revision \in Nat /\ revision' = revision
      /\ Nothing \in Snapshots /\ Nothing.label = 0
  BY RevisionType DEF Crash, revision, Nothing, Snapshots
<1>2. DOMAIN task = Actors /\ DOMAIN got = Actors
  BY DEF SnapshotInv
<1>3. /\ task' \in [Actors -> Stages] /\ got' \in [Actors -> Snapshots]
      /\ \A y \in Actors : \/ task'[y] = task[y] /\ got'[y] = got[y]
                           \/ task'[y] \in {"off", "idle"} /\ got'[y] = Nothing
  BY <1>1, <1>2 DEF Crash, SnapshotInv, Stages
<1>4. \A y \in Actors : Partial(got[y])'
  BY <1>1, <1>3 DEF SnapshotInv, Partial
<1>5. \A y \in Actors : task'[y] \in Complete => NotOlder(got[y])'
  BY <1>1, <1>3 DEF SnapshotInv, NotOlder, Complete
<1>6. \A j \in Instances : NotOlder(published[j])'
  BY <1>1 DEF SnapshotInv, NotOlder
<1> QED
  BY <1>1, <1>3, <1>4, <1>5, <1>6 DEF SnapshotInv

LEMMA SnapshotKeeps == SnapshotInv /\ [Next]_vars => SnapshotInv'
<1> SUFFICES ASSUME SnapshotInv, [Next]_vars PROVE SnapshotInv'
  OBVIOUS
<1>1. ASSUME NEW i \in Instances, Listener(i) \/ BindFails(i) PROVE SnapshotInv'
  BY <1>1, SnapshotsUnchanged
  DEF Listener, BindFails, ReadConfig, Bind, TlsFails, BindAgain, SettingsChanged, Drained
<1>2. ASSUME NEW i, NEW state, FilesChange(i, state) PROVE SnapshotInv'
  BY <1>2, SnapshotsUnchanged DEF FilesChange
<1>3. CASE UNCHANGED vars
  BY <1>3, SnapshotsUnchanged DEF vars
<1> QED
  BY <1>1, <1>2, <1>3, WatcherKeeps, OperatorKeeps, CrashKeeps DEF Next

(* What a commit was based on. *)
LEMMA CommitSeesAll ==
  ASSUME SnapshotInv, NEW p \in Operators, task[p] = "informed", got[p].label = revision
  PROVE  got[p].of = revision
<1>1. p \in Actors /\ revision \in Nat
  BY RevisionType DEF Actors
<1>2. got[p] \in Snapshots /\ got[p].label <= got[p].of /\ got[p].of <= revision
  BY <1>1 DEF SnapshotInv, Complete, NotOlder
<1> QED
  BY <1>1, <1>2 DEF Snapshots

(* patch alone takes an operator from a snapshot to a commit. *)
LEMMA OnlyPatchCommits ==
  ASSUME SnapshotInv, Next, NEW p \in Operators,
         task[p] = "informed", task'[p] = "committed"
  PROVE  got[p].label = revision
<1>1. p \in Actors /\ task \in [Actors -> Stages]
  BY DEF Actors, SnapshotInv
<1>2. ASSUME NEW x, NEW from, NEW to, Goes(x, from, to)
      PROVE  x = p /\ from = "informed" /\ to = "committed"
  BY <1>1, <1>2 DEF Goes
<1>3. ASSUME NEW i \in Instances,
             Watcher(i) \/ Initialize(i) \/ ReadFails(i)
      PROVE  FALSE
  BY <1>2, <1>3 DEF Watcher, Poll, Reload, Compare, PublishReloaded, Boots, Initialize, ReadFails
<1>4. ASSUME NEW i \in Instances, Crash(i) PROVE FALSE
  BY <1>1, <1>4 DEF Crash
<1>5. ASSUME NEW i \in Instances, Listener(i) \/ BindFails(i) PROVE FALSE
  <2>1. UNCHANGED task
    BY <1>5 DEF Listener, BindFails, ReadConfig, Bind, TlsFails, BindAgain, SettingsChanged,
       Drained
  <2> QED
    BY <2>1
<1>6. ASSUME NEW q \in Operators,
             \/ Handler(q) \/ ReadFails(q) \/ SettingsCommand(q)
             \/ \E i \in Instances : GetSettings(q, i)
             \/ \E i \in Instances \cup {Cli}, cfg \in Configs : PatchRejected(q, i, cfg)
      PROVE  FALSE
  BY <1>2, <1>6
  DEF Handler, CommandLoads, PatchLoads, PatchLoadsRows, PatchPublishes, ReadFails,
      SettingsCommand, GetSettings, PatchRejected
<1>7. ASSUME NEW i, NEW state, FilesChange(i, state) PROVE FALSE
  BY <1>7 DEF FilesChange
<1>8. PICK q \in Operators, i \in Instances \cup {Cli}, cfg \in Configs : Patch(q, i, cfg)
  BY <1>3, <1>4, <1>5, <1>6, <1>7 DEF Next
<1> QED
  BY <1>2, <1>8 DEF Patch

(* NoLostUpdate: the values that an operator's snapshot had are the ones   *)
(* its committed patch replaces, although load is not one read and a late  *)
(* publication may take an instance's snapshot back.                       *)
THEOREM NothingIsLost == SettingsSpec => NoLostUpdate
<1> DEFINE Seen == \A p \in Operators :
             task[p] = "informed" /\ task'[p] = "committed" => got[p].of = revision
<1>1. SettingsInit => SnapshotInv
  <2> SUFFICES ASSUME SettingsInit PROVE SnapshotInv
    OBVIOUS
  <2>1. /\ conf \in Seq({"plain", "tls"}) /\ revision = 1
        /\ [label |-> 1, of |-> 1] \in Snapshots /\ Nothing \in Snapshots
    BY DEF SettingsInit, revision, Snapshots, Nothing
  <2>2. /\ published \in [Instances -> Snapshots] /\ got \in [Actors -> Snapshots]
        /\ task \in [Actors -> Stages] /\ via \in [Operators -> Instances \cup {Cli}]
        /\ \A x \in Actors : task[x] \notin Complete
    BY <2>1 DEF SettingsInit, Actors, Stages, Complete
  <2>3. \A i \in Instances : NotOlder(published[i])
    <3>1. \A i \in Instances : published[i].label = 1 /\ published[i].of = 1
      BY DEF SettingsInit
    <3>2. revision = 1
      BY <2>1
    <3>3. 1 <= 1
      OBVIOUS
    <3>4. \A i \in Instances : /\ published[i].label <= published[i].of
                              /\ published[i].of <= revision
      BY <3>1, <3>2, <3>3
    <3> QED
      BY <3>4 DEF NotOlder
  <2>4. \A x \in Actors : Partial(got[x])
    <3>1. \A x \in Actors : got[x].label = 0
      BY DEF SettingsInit, Actors, Nothing
    <3>2. revision = 1
      BY <2>1
    <3> QED
      BY <3>1, <3>2 DEF Partial
  <2> QED
    BY <2>1, <2>2, <2>3, <2>4 DEF SnapshotInv
<1>2. SnapshotInv /\ [Next]_vars => [Seen]_vars
  BY OnlyPatchCommits, CommitSeesAll
<1> QED
  BY <1>1, <1>2, SnapshotKeeps, PTL DEF SettingsSpec, NoLostUpdate
=============================================================================
