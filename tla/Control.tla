------------------------------ MODULE Control ------------------------------
(***************************************************************************)
(* The control of a rented Colab instance: commands given on the Mac       *)
(* (scripts/colab/control.py), the actions they call there over SSH        *)
(* (scripts/colab/remote.py), the tmux jobs these start, and the lease of  *)
(* the GPU (runtime/gpu_lock.py).  A call may time out on the Mac and go   *)
(* on at the other end; workers die, process groups survive their end, the *)
(* instance may be lost, and copies on the Mac may be damaged.             *)
(***************************************************************************)
EXTENDS Naturals, FiniteSets

CONSTANTS
  Runs,       \* the run identifiers set up on this instance
  Commands,   \* the commands that may be under way on the Mac, and their calls
  Terminals,  \* how many commands wait on the Mac at once
  None,       \* no run, no snapshot
  Free,       \* the lease is not taken
  Inspector,  \* inspect_gpu_lock, which takes the lease to see whether it can
  Unread,     \* the next step on a run does not wait for the result of setup
  MaxJobs,    \* how many runs are launched (bound)
  MaxLate     \* how often what outlived the record of a run's end writes (bound)

ASSUME ControlAssumption ==
  /\ Runs \cap {None, Free, Inspector} = {} /\ Free # Inspector
  /\ Terminals \in Nat \ {0} /\ Unread \in BOOLEAN
  /\ MaxJobs \in Nat /\ MaxLate \in Nat

VARIABLES
  dir,          \* the directory of each run: see DirType
  environment,  \* the virtual environment all runs share, and its ready file
  registry,     \* session.json, under control.lock: see RegistryType
  tmux,         \* the worker of each run in its tmux session
  leader,       \* the runs whose process group has its leader, the child the worker waits for
  job,          \* the training process, a child of the leader
  lease,        \* who has the flock of the GPU
  instance,     \* "running", "stopped" by cli stop, or "lost"
  command,      \* see CommandType
  owner,        \* the runs with an owner.json
  copies,       \* the snapshots whose receipt and verified files the Mac has
  recovered,    \* recovered.json of each run: the snapshot it names
  inventory,    \* stop-inventory.json of each run
  stopped       \* the runs with a stopped.json

remoteVars == <<dir, environment, registry, tmux, leader, job, lease, instance>>
macVars == <<owner, copies, recovered, inventory, stopped>>
vars == <<remoteVars, command, macVars>>

\* The records in a run directory; its value is also its manifest, and a snapshot
\* of it.  What a job writes goes with the record of its launch and its end, but
\* for the files it writes when that record is there already: these are counted.
Nothing == [claimed |-> FALSE, env |-> FALSE, setup |-> "none", launch |-> FALSE,
            error |-> FALSE, exit |-> "none", late |-> 0]
DirType == [claimed : BOOLEAN, env : BOOLEAN, setup : {"none", "ok", "failed"},
            launch : BOOLEAN, error : BOOLEAN, exit : {"none", "ended", "unclean"},
            late : 0..MaxLate]
Snapshots == DirType \cup {None}

ASSUME SnapshotAssumption == None \notin DirType

RegistryType == [exported : [Runs -> Snapshots], recovered : [Runs -> Snapshots],
                 stopping : BOOLEAN]

SettingUp == {"setup", "install", "installing", "identified", "setup_ok", "setup_failed"}
Waiting == {"setup", "launch", "export", "ack", "fence"}
CommandType ==
  [run : Runs \cup {None}, local : Waiting \cup {"idle", "download", "record", "verify", "stop"},
   remote : SettingUp \cup {"idle", "launch", "export", "archiving", "ack", "stop_ready", "inspecting"},
   snap : Snapshots, inv : [Runs -> Snapshots]]

NoSnapshots == [r \in Runs |-> None]
NoCommand == [run |-> None, local |-> "idle", remote |-> "idle", snap |-> None, inv |-> NoSnapshots]

Init ==
  /\ dir = [r \in Runs |-> Nothing] /\ environment = "none"
  /\ registry = [exported |-> NoSnapshots, recovered |-> NoSnapshots, stopping |-> FALSE]
  /\ tmux = [r \in Runs |-> "absent"] /\ leader = {}
  /\ job = [r \in Runs |-> "none"] /\ lease = Free
  /\ instance = "running"
  /\ command = [c \in Commands |-> NoCommand]
  /\ owner = {} /\ copies = [r \in Runs |-> {}] /\ recovered = NoSnapshots
  /\ inventory = [r \in Runs |-> NoSnapshots] /\ stopped = {}

Running == instance = "running"
Locked == \E c \in Commands : command[c].remote = "inspecting"
Claimed == {r \in Runs : dir[r].claimed}
Live == {"starting", "training"}

----------------------------------------------------------------------------
(* The two ends of a command.                                              *)

\* The Mac calls a remote action; its answer, when the Mac still waits for it,
\* is the next step of the command, and an error ends the command.
Call(c, r, local, remote, snap) ==
  command' = [command EXCEPT ![c] = [NoCommand EXCEPT !.run = r, !.local = local,
                                                     !.remote = remote, !.snap = snap]]
Remotely(c, at) == command' = [command EXCEPT ![c].remote = at]
Answer(c, next) ==
  command' = [command EXCEPT ![c] = IF @.local = "idle" THEN NoCommand ELSE next]
Raise(c) == command' = [command EXCEPT ![c] = NoCommand]

\* remote_call gives up (a timeout, a broken connection); the action goes on.
TimeOut(c) ==
  /\ command[c].local \in Waiting
  /\ command' = [command EXCEPT ![c].local = "idle"]
  /\ UNCHANGED <<remoteVars, macVars>>

\* A terminal is free, and so is this slot: nothing given up is at work in it.
Ready(c) ==
  /\ command[c] = NoCommand
  /\ Cardinality({d \in Commands : command[d].local # "idle"}) < Terminals

\* What is asked for a run while its setup or its launch is under way.
Attentive(r) ==
  Unread \/ \A c \in Commands : command[c].run = r => command[c].remote \notin SettingUp \cup {"launch"}

----------------------------------------------------------------------------
(* setup.                                                                  *)

Setup(c, r) ==
  /\ Ready(c) /\ Running /\ Attentive(r)
  /\ Call(c, r, "setup", "setup", None)
  /\ owner' = owner \cup {r}
  /\ UNCHANGED <<remoteVars, copies, recovered, inventory, stopped>>

\* _setup under the registry: fenced, claimed already, or claimed now.
SetupClaim(c) ==
  LET r == command[c].run
  IN /\ command[c].remote = "setup" /\ ~Locked
     /\ IF registry.stopping \/ dir[r].claimed
        THEN Remotely(c, "setup_failed") /\ UNCHANGED dir
        ELSE Remotely(c, "install") /\ dir' = [dir EXCEPT ![r].claimed = TRUE]
     /\ UNCHANGED <<environment, registry, tmux, leader, job, lease, instance, macVars>>

\* A partial environment, another source, lock or platform, or a spent budget.
SetupRefuses(c) ==
  /\ command[c].remote = "install"
  /\ Remotely(c, "setup_failed")
  /\ UNCHANGED <<remoteVars, macVars>>

SetupInstall(c) ==
  /\ command[c].remote = "install" /\ environment # "partial"
  /\ environment' = IF environment = "none" THEN "partial" ELSE environment
  /\ Remotely(c, IF environment = "none" THEN "installing" ELSE "identified")
  /\ UNCHANGED <<dir, registry, tmux, leader, job, lease, instance, macVars>>

SetupInstalled(c) ==
  /\ command[c].remote = "installing"
  /\ \/ environment' = "ready" /\ Remotely(c, "identified")
     \/ UNCHANGED environment /\ Remotely(c, "setup_failed")
  /\ UNCHANGED <<dir, registry, tmux, leader, job, lease, instance, macVars>>

SetupIdentified(c) ==
  /\ command[c].remote = "identified"
  /\ dir' = [dir EXCEPT ![command[c].run].env = TRUE]
  /\ Remotely(c, "setup_ok")
  /\ UNCHANGED <<environment, registry, tmux, leader, job, lease, instance, macVars>>

\* The finally of setup, for whoever has the same control.json.
SetupExit(c) ==
  LET r == command[c].run
      outcome == IF command[c].remote = "setup_ok" THEN "ok" ELSE "failed"
  IN /\ command[c].remote \in {"setup_ok", "setup_failed"}
     /\ dir' = IF dir[r].claimed /\ dir[r].setup = "none"
               THEN [dir EXCEPT ![r].setup = outcome] ELSE dir
     /\ Raise(c)
     /\ UNCHANGED <<environment, registry, tmux, leader, job, lease, instance, macVars>>

----------------------------------------------------------------------------
(* launch, the worker in its tmux session, and the processes it started.    *)

Launch(c, r) ==
  /\ Ready(c) /\ Running /\ r \in owner /\ Attentive(r)
  /\ Call(c, r, "launch", "launch", None)
  /\ UNCHANGED <<remoteVars, macVars>>

\* Mutant: an old claim does not prevent another launch.
LaunchableAgain(r) ==
  /\ dir[r].claimed /\ dir[r].env
  /\ ~registry.stopping /\ registry.recovered[r] = None
  /\ tmux[r] = "absent"

Launchable(r) ==
  /\ dir[r].claimed /\ dir[r].env
  /\ ~registry.stopping /\ registry.recovered[r] = None
  /\ tmux[r] = "absent" /\ ~dir[r].launch

\* remote.launch under the registry; tmux may fail to start.
LaunchLocked(c) ==
  LET r == command[c].run
  IN /\ command[c].remote = "launch" /\ ~Locked /\ Launchable(r)
     /\ Cardinality({q \in Runs \ {r} : dir[q].launch}) < MaxJobs
     /\ \/ /\ dir' = [dir EXCEPT ![r].launch = TRUE]
           /\ tmux' = [tmux EXCEPT ![r] = "new"]
        \/ /\ dir' = [dir EXCEPT ![r].launch = TRUE, ![r].error = TRUE]
           /\ UNCHANGED tmux
     /\ Raise(c)
     /\ UNCHANGED <<environment, registry, leader, job, lease, instance, macVars>>

\* It raises: not launchable, or the remaining allocation is too short.
LaunchRefused(c) ==
  /\ command[c].remote = "launch" /\ ~Locked
  /\ Raise(c)
  /\ UNCHANGED <<remoteVars, macVars>>

\* worker: exit.json in its finally, then its tmux session is gone.
Exit(r, how) ==
  /\ dir' = [dir EXCEPT ![r].exit = how]
  /\ tmux' = [tmux EXCEPT ![r] = "absent"]

\* verify_source, the budget, or the console.log of an earlier start stop it.
WorkerStarts(r) ==
  /\ tmux[r] = "new"
  /\ \/ /\ job[r] = "none"
        /\ job' = [job EXCEPT ![r] = "starting"]
        /\ leader' = leader \cup {r}
        /\ tmux' = [tmux EXCEPT ![r] = "alive"]
        /\ UNCHANGED dir
     \/ Exit(r, "ended") /\ UNCHANGED <<leader, job>>
  /\ UNCHANGED <<environment, registry, lease, instance, command, macVars>>

\* GPULease.__enter__ with timeout 0: the job has the lease or LockBusy.
TakeLease(r) ==
  /\ job[r] = "starting"
  /\ IF lease = Free THEN lease' = r /\ job' = [job EXCEPT ![r] = "training"]
     ELSE UNCHANGED lease /\ job' = [job EXCEPT ![r] = "over"]
  /\ UNCHANGED <<dir, environment, registry, tmux, leader, instance, command, macVars>>

\* The end of the training process; the flock goes with its descriptor.
JobOver(r) ==
  /\ job' = [job EXCEPT ![r] = "over"]
  /\ lease' = IF lease = r THEN Free ELSE lease

JobEnds(r) ==
  /\ job[r] \in Live
  /\ JobOver(r)
  /\ UNCHANGED <<dir, environment, registry, tmux, leader, instance, command, macVars>>

\* The leader ends after its child, or is killed before it: the child goes on.
LeaderEnds(r) ==
  /\ r \in leader
  /\ leader' = leader \ {r}
  /\ UNCHANGED <<dir, environment, registry, tmux, job, lease, instance, command, macVars>>

\* process.wait returns at the end of the leader, whatever it has left behind.
WorkerEnds(r) ==
  /\ tmux[r] = "alive" /\ r \notin leader
  /\ Exit(r, "ended")
  /\ UNCHANGED <<environment, registry, leader, job, lease, instance, command, macVars>>

\* terminate_owned_group confirms that the group is gone, with the training
\* process or, where that has a session of its own, without; or it cannot.
WorkerTimesOut(r) ==
  /\ tmux[r] = "alive" /\ r \in leader
  /\ \/ /\ Exit(r, "ended") /\ leader' = leader \ {r}
        /\ JobOver(r) \/ UNCHANGED <<job, lease>>
     \/ Exit(r, "unclean") /\ UNCHANGED <<leader, job, lease>>
  /\ UNCHANGED <<environment, registry, instance, command, macVars>>

\* Killed, it writes nothing; its group has a session of its own and goes on.
WorkerDies(r) ==
  /\ tmux[r] # "absent"
  /\ tmux' = [tmux EXCEPT ![r] = "absent"]
  /\ UNCHANGED <<dir, environment, registry, leader, job, lease, instance, command, macVars>>

\* A training process that outlived the record of the end of its run.
Orphan(r) == tmux[r] = "absent" /\ r \notin leader /\ job[r] \in Live /\ dir[r].exit = "ended"

\* What it still writes: the console, the checkpoints.
OrphanWrites(r) ==
  /\ Orphan(r) /\ dir[r].late < MaxLate
  /\ dir' = [dir EXCEPT ![r].late = @ + 1]
  /\ UNCHANGED <<environment, registry, tmux, leader, job, lease, instance, command, macVars>>

----------------------------------------------------------------------------
(* recover: export, download and verify, acknowledge, record.              *)

Recover(c, r) ==
  /\ Ready(c) /\ Running /\ r \in owner
  /\ Call(c, r, "export", "export", None)
  /\ UNCHANGED <<remoteVars, macVars>>

\* Mutant: a timed-out group whose end is unconfirmed is exported.
TerminalAnyExit(d) == IF d.launch THEN d.exit # "none" \/ d.error ELSE d.setup # "none"

\* The directory has the record of an end that export relies on.
Terminal(d) ==
  /\ IF d.launch THEN d.exit # "none" \/ d.error ELSE d.setup # "none"
  /\ d.exit # "unclean"

Export(c) ==
  LET d == dir[command[c].run]
  IN /\ command[c].remote = "export"
     /\ IF d.claimed /\ tmux[command[c].run] = "absent" /\ Terminal(d)
        THEN command' = [command EXCEPT ![c].remote = "archiving", ![c].snap = d]
        ELSE Raise(c)
     /\ UNCHANGED <<remoteVars, macVars>>

\* The files are compared again before the lock: a change may come after that.
ExportChanged(c) ==
  /\ command[c].remote = "archiving" /\ dir[command[c].run] # command[c].snap
  /\ Raise(c)
  /\ UNCHANGED <<remoteVars, macVars>>

ExportRegisters(c) ==
  /\ command[c].remote = "archiving" /\ ~Locked
  /\ registry' = [registry EXCEPT !.exported[command[c].run] = command[c].snap]
  /\ Answer(c, [command[c] EXCEPT !.local = "download", !.remote = "idle"])
  /\ UNCHANGED <<dir, environment, tmux, leader, job, lease, instance, macVars>>

\* The archive is read back against its manifest before it is acknowledged.
Download(c) ==
  LET r == command[c].run
  IN /\ command[c].local = "download" /\ Running
     /\ copies' = [copies EXCEPT ![r] = @ \cup {command[c].snap}]
     /\ Call(c, r, "ack", "ack", command[c].snap)
     /\ UNCHANGED <<remoteVars, owner, recovered, inventory, stopped>>

DownloadFails(c) ==
  /\ command[c].local = "download"
  /\ Raise(c)
  /\ UNCHANGED <<remoteVars, macVars>>

\* acknowledge_recovery: only of the export the registry knows.
Acknowledge(c) ==
  LET r == command[c].run
  IN /\ command[c].remote = "ack" /\ ~Locked
     /\ IF command[c].snap = registry.exported[r]
        THEN /\ registry' = [registry EXCEPT !.recovered[r] = command[c].snap]
             /\ Answer(c, [command[c] EXCEPT !.local = "record", !.remote = "idle"])
        ELSE Raise(c) /\ UNCHANGED registry
     /\ UNCHANGED <<dir, environment, tmux, leader, job, lease, instance, macVars>>

Record(c) ==
  /\ command[c].local = "record"
  /\ recovered' = [recovered EXCEPT ![command[c].run] = command[c].snap]
  /\ Raise(c)
  /\ UNCHANGED <<remoteVars, owner, copies, inventory, stopped>>

----------------------------------------------------------------------------
(* stop: the fence, the copies of every run, the end of the instance.      *)

Held(r, snapshot) == recovered[r] = snapshot /\ snapshot \in copies[r]

Stop(c, r) ==
  /\ Ready(c) /\ r \in owner \ stopped
  /\ recovered[r] # None /\ Held(r, recovered[r])
  /\ \/ /\ Running
        /\ Call(c, r, "fence", "stop_ready", recovered[r])
     \/ /\ ~Running /\ inventory[r] # NoSnapshots
        /\ command' = [command EXCEPT ![c] = [NoCommand EXCEPT
             !.run = r, !.local = "verify", !.snap = recovered[r], !.inv = inventory[r]]]
  /\ UNCHANGED <<remoteVars, macVars>>

\* inspect_gpu_lock, under the registry, has the lease for a moment.
Inspect(c) ==
  /\ command[c].remote = "stop_ready" /\ ~Locked
  /\ IF lease = Free THEN lease' = Inspector /\ Remotely(c, "inspecting")
     ELSE Raise(c) /\ UNCHANGED lease
  /\ UNCHANGED <<dir, environment, registry, tmux, leader, job, instance, macVars>>

\* Mutant: a recovery of long ago will do.
UnchangedTrusted(r) == registry.recovered[r] # None

Unchanged(r) == registry.recovered[r] = dir[r]

StopReady(c) ==
  /\ command[c].remote = "inspecting"
  /\ lease' = Free
  /\ IF \A r \in Claimed : tmux[r] = "absent" /\ Unchanged(r)
     THEN /\ registry' = [registry EXCEPT !.stopping = TRUE]
          /\ Answer(c, [command[c] EXCEPT !.local = "verify", !.remote = "idle",
                                          !.inv = registry.recovered])
     ELSE Raise(c) /\ UNCHANGED registry
  /\ UNCHANGED <<dir, environment, tmux, leader, job, instance, macVars>>

\* Mutant: only the run named in the command is verified.
OwnHeld(c) == command[c].snap = command[c].inv[command[c].run]

\* Every run of the inventory has its copy; the command's own was read first.
AllHeld(c) ==
  /\ command[c].snap = command[c].inv[command[c].run]
  /\ \A r \in Runs \ {command[c].run} : command[c].inv[r] # None => Held(r, command[c].inv[r])

Verify(c) ==
  LET r == command[c].run
  IN /\ command[c].local = "verify"
     /\ inventory' = [inventory EXCEPT ![r] = IF command[c].inv[r] = None THEN @ ELSE command[c].inv]
     /\ IF AllHeld(c) /\ Running
        THEN command' = [command EXCEPT ![c].local = "stop"] ELSE Raise(c)
     /\ stopped' = IF AllHeld(c) /\ ~Running THEN stopped \cup {r} ELSE stopped
     /\ UNCHANGED <<remoteVars, owner, copies, recovered>>

\* The machine is gone with its processes, and with them every call.
Gone(how) ==
  /\ instance' = how
  /\ tmux' = [r \in Runs |-> "absent"] /\ leader' = {} /\ lease' = Free
  /\ job' = [r \in Runs |-> IF job[r] \in Live THEN "over" ELSE job[r]]

Survivor(cmd) ==
  IF cmd.local \in Waiting \cup {"idle"} THEN NoCommand ELSE [cmd EXCEPT !.remote = "idle"]

\* cli stop takes effect, and says so or not; or it fails.
StopInstance(c) ==
  /\ command[c].local = "stop"
  /\ \/ /\ Running
        /\ Gone("stopped")
        /\ command' = [d \in Commands |-> IF d = c THEN NoCommand ELSE Survivor(command[d])]
        /\ stopped' \in {stopped, stopped \cup {command[c].run}}
     \/ Raise(c) /\ UNCHANGED <<instance, tmux, leader, lease, job, stopped>>
  /\ UNCHANGED <<dir, environment, registry, owner, copies, recovered, inventory>>

----------------------------------------------------------------------------
(* What nobody asked for.                                                  *)

Lose ==
  /\ Running
  /\ Gone("lost")
  /\ command' = [c \in Commands |-> Survivor(command[c])]
  /\ UNCHANGED <<dir, environment, registry, macVars>>

\* The copies of a run are damaged or lost, between two commands.
Damage(r) ==
  /\ Running /\ copies[r] # {} /\ \A c \in Commands : command[c] = NoCommand
  /\ copies' = [copies EXCEPT ![r] = {}]
  /\ UNCHANGED <<remoteVars, command, owner, recovered, inventory, stopped>>

Ask == \E c \in Commands, r \in Runs : Setup(c, r) \/ Launch(c, r) \/ Recover(c, r) \/ Stop(c, r)
Mac == \E c \in Commands : TimeOut(c) \/ Download(c) \/ DownloadFails(c) \/ Record(c)
                           \/ Verify(c) \/ StopInstance(c)
Remote ==
  \E c \in Commands :
    \/ SetupClaim(c) \/ SetupRefuses(c) \/ SetupInstall(c) \/ SetupInstalled(c)
    \/ SetupIdentified(c) \/ SetupExit(c) \/ LaunchLocked(c) \/ LaunchRefused(c)
    \/ Export(c) \/ ExportChanged(c) \/ ExportRegisters(c) \/ Acknowledge(c)
    \/ Inspect(c) \/ StopReady(c)
Jobs ==
  \E r \in Runs : WorkerStarts(r) \/ TakeLease(r) \/ JobEnds(r) \/ LeaderEnds(r)
                  \/ WorkerEnds(r) \/ WorkerTimesOut(r) \/ WorkerDies(r) \/ OrphanWrites(r)
Misfortune == Lose \/ \E r \in Runs : Damage(r)

Next == Ask \/ Mac \/ Remote \/ Jobs \/ Misfortune

Spec == Init /\ [][Next]_vars

----------------------------------------------------------------------------
(* Properties.                                                             *)

TypeOK ==
  /\ dir \in [Runs -> DirType] /\ environment \in {"none", "partial", "ready"}
  /\ registry \in RegistryType
  /\ tmux \in [Runs -> {"absent", "new", "alive"}]
  /\ leader \subseteq Runs /\ job \in [Runs -> Live \cup {"none", "over"}]
  /\ lease \in Runs \cup {Free, Inspector} /\ instance \in {"running", "stopped", "lost"}
  /\ command \in [Commands -> CommandType]
  /\ owner \subseteq Runs /\ stopped \subseteq Runs
  /\ copies \in [Runs -> SUBSET DirType] /\ recovered \in [Runs -> Snapshots]
  /\ inventory \in [Runs -> [Runs -> Snapshots]]

\* Something may still change the directory of a run.
Active(r) ==
  \/ tmux[r] # "absent" \/ r \in leader \/ job[r] \in Live
  \/ \E c \in Commands : /\ command[c].run = r
                         /\ \/ command[c].remote \in {"install", "installing", "identified"}
                            \/ command[c].remote \in {"setup_ok", "setup_failed"} /\ dir[r].setup = "none"

\* What recover exports is the directory of a run that is over: neither its
\* setup nor its worker nor the processes of its job are still at work on what was
\* exported, save a training process the worker's record of the end has missed,
\* because the process it waited for was gone (remote.export, remote.worker).
OnlyTerminalExported ==
  \A r \in Claimed : registry.exported[r] = dir[r] => ~Active(r) \/ Orphan(r)

\* What a training process that outlived the end of its run has added to d.
Grown(d, e) == e = [d EXCEPT !.late = e.late] /\ d.late <= e.late

\* Behind the fence nothing runs and no file changes, although calls that began
\* before it may still come in; a training process that outlived the end of its
\* run is the one exception, and had not taken the GPU when the fence was set
\* (remote.stop_ready, and what it refuses later).
FenceHolds ==
  [][/\ registry.stopping => \A r \in Runs :
          /\ r \in Claimed /\ Active(r) => Orphan(r)
          /\ dir'[r] # dir[r] => Orphan(r) /\ Grown(dir[r], dir'[r])
     /\ registry'.stopping /\ ~registry.stopping => \A r \in Runs : job'[r] # "training"]_vars

\* An instance that was stopped, or noted as stopped, leaves nothing behind: the
\* Mac has a verified copy of what every run had at the end, save what a training
\* process that outlived the end of its run has added since (control.stop).
SavedWhenStopped ==
  instance = "stopped" \/ stopped # {} =>
    \A r \in Claimed : \E saved \in copies[r] : Grown(saved, dir[r])

\* The records of an end are never written twice: not by a second setup, nor by
\* a second launch whose worker would declare an unconfirmed group ended.
RecordsAreFinal ==
  [][\A r \in Runs : /\ dir[r].setup # "none" => dir'[r].setup = dir[r].setup
                     /\ dir[r].exit # "none" => dir'[r].exit = dir[r].exit
                     /\ dir[r].error => dir'[r].exit = dir[r].exit]_vars
=============================================================================
