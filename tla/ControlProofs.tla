---------------------------- MODULE ControlProofs ----------------------------
(***************************************************************************)
(* That the control of an instance loses nothing, for any number of runs,  *)
(* commands and terminals, as long as nothing is asked for a run whose     *)
(* setup or launch is still under way.                                     *)
(***************************************************************************)
EXTENDS Control, TLAPS

CommandFields == {"run", "local", "remote", "snap", "inv"}

\* As much of a type as the proof needs.
Typed ==
  /\ dir \in [Runs -> DirType]
  /\ DOMAIN command = Commands /\ \A c \in Commands : DOMAIN command[c] = CommandFields
  /\ DOMAIN registry = {"exported", "recovered", "stopping"}
  /\ DOMAIN registry.exported = Runs /\ DOMAIN registry.recovered = Runs
  /\ DOMAIN tmux = Runs /\ DOMAIN job = Runs
  /\ DOMAIN copies = Runs /\ DOMAIN inventory = Runs

\* The stages of a setup that has claimed its run, and of all that owns one.
Working == {"install", "installing", "identified", "setup_ok"}
Owned == SettingUp \cup {"launch"}

\* The Mac is at work, and no call of the command is.
Answered == {"download", "record", "verify", "stop"}
Fencing == {"stop_ready", "inspecting"}

\* At most one setup or launch of a run is under way.
Exclusive ==
  /\ \A c \in Commands : command[c].remote # "idle" => command[c].run \in Runs
  /\ \A c \in Commands : command[c].local # "idle" => command[c].run \in Runs
  /\ \A c \in Commands : command[c].local \in Answered => command[c].remote = "idle"
  /\ \A c \in Commands : command[c].local = "fence" => command[c].remote \in Fencing
  /\ \A c \in Commands : command[c].remote \in Fencing => command[c].local \in {"idle", "fence"}
  /\ \A c, d \in Commands :
       command[c].run = command[d].run /\ command[c].remote \in Owned /\ command[d].remote \in Owned => c = d

\* A run is claimed by the setup that will record its end.
SetupOK ==
  /\ \A c \in Commands : command[c].remote \in Working =>
       dir[command[c].run].claimed /\ dir[command[c].run].setup = "none"
  /\ \A r \in Runs : ~dir[r].claimed => dir[r].setup = "none"
  /\ \A r \in Claimed : Running /\ dir[r].setup = "none" =>
       \E c \in Commands : command[c].run = r /\ command[c].remote \in Working \cup {"setup_failed"}

\* It is launched once, after that end; its worker and its job are of that launch.
LaunchOK ==
  \A r \in Runs :
    /\ dir[r].launch => dir[r].claimed /\ dir[r].setup # "none"
    /\ ~dir[r].launch => /\ tmux[r] = "absent" /\ r \notin leader /\ job[r] = "none"
                         /\ dir[r].exit = "none" /\ ~dir[r].error
    /\ tmux[r] # "absent" => dir[r].exit = "none" /\ ~dir[r].error
    /\ tmux[r] = "new" => job[r] = "none" /\ r \notin leader
    /\ dir[r].exit = "ended" => r \notin leader
    /\ dir[r].error => r \notin leader /\ job[r] \notin Live /\ dir[r].exit = "none"

DeadOK ==
  ~Running => /\ \A c \in Commands : command[c].remote = "idle"
              /\ \A r \in Runs : tmux[r] = "absent" /\ r \notin leader /\ job[r] \notin Live

\* Every snapshot the registry knows, or will know, has the record of an end.
Ends(snapshot) == snapshot = None \/ Terminal(snapshot)
ExportOK ==
  /\ \A r \in Runs : Ends(registry.exported[r]) /\ Ends(registry.recovered[r])
  /\ \A c \in Commands : command[c].remote = "archiving" => Terminal(command[c].snap)

FenceOK == registry.stopping => \A r \in Claimed : ~Active(r) \/ Orphan(r)

\* An inventory is what the fence has found, and found for good, but for what an
\* orphan adds.
Matches(inv) ==
  registry.stopping /\ \A r \in Claimed : inv[r] \in DirType /\ Grown(inv[r], dir[r])
Saved == \A r \in Claimed : \E saved \in copies[r] \cap DirType : Grown(saved, dir[r])

\* A command has gone as far in a stop as it may.
Entitled(c) ==
  /\ command[c].snap \in copies[command[c].run]
  /\ command[c].local \in {"verify", "stop"} => Matches(command[c].inv)
  /\ command[c].local = "stop" => Saved

StopOK ==
  /\ \A c \in Commands : command[c].local \in {"fence", "verify", "stop"} => Entitled(c)
  /\ \A r \in Runs : inventory[r] # NoSnapshots => Matches(inventory[r])

SavedOK == (stopped # {} => ~Running) /\ SavedWhenStopped

CInv == Typed /\ Exclusive /\ SetupOK /\ LaunchOK /\ DeadOK /\ ExportOK /\ FenceOK /\ StopOK /\ SavedOK

----------------------------------------------------------------------------
(* What an action does to a command, and to a directory.                   *)

Cmd(c, run, local, remote, snap, inv) ==
  /\ DOMAIN command' = Commands /\ \A d \in Commands : DOMAIN command'[d] = CommandFields
  /\ command'[c].run = run /\ command'[c].local = local /\ command'[c].remote = remote
  /\ command'[c].snap = snap /\ command'[c].inv = inv
  /\ \A d \in Commands \ {c} : command'[d] = command[d]

LEMMA CallIs ==
  ASSUME Typed, NEW c \in Commands, NEW r, NEW local, NEW remote, NEW snap,
         Call(c, r, local, remote, snap)
  PROVE  Cmd(c, r, local, remote, snap, NoSnapshots)
BY DEF Typed, Call, NoCommand, Cmd, CommandFields

LEMMA RemotelyIs ==
  ASSUME Typed, NEW c \in Commands, NEW at, Remotely(c, at)
  PROVE  Cmd(c, command[c].run, command[c].local, at, command[c].snap, command[c].inv)
BY DEF Typed, Remotely, Cmd, CommandFields

LEMMA RaiseIs ==
  ASSUME Typed, NEW c \in Commands, Raise(c)
  PROVE  Cmd(c, None, "idle", "idle", None, NoSnapshots)
BY DEF Typed, Raise, NoCommand, Cmd, CommandFields

\* Whoever has given up gets no answer.
LEMMA AnswerIs ==
  ASSUME Typed, NEW c \in Commands, NEW next, Answer(c, next), DOMAIN next = CommandFields
  PROVE  \/ command[c].local = "idle" /\ Cmd(c, None, "idle", "idle", None, NoSnapshots)
         \/ command[c].local # "idle" /\ Cmd(c, next.run, next.local, next.remote, next.snap, next.inv)
BY DEF Typed, Answer, NoCommand, Cmd, CommandFields

Dir(r, claimed, env, setup, launch, error, exit) ==
  /\ dir' \in [Runs -> DirType]
  /\ dir'[r].claimed = claimed /\ dir'[r].env = env /\ dir'[r].setup = setup
  /\ dir'[r].launch = launch /\ dir'[r].error = error /\ dir'[r].exit = exit
  /\ \A q \in Runs \ {r} : dir'[q] = dir[q]

LEMMA DirIs ==
  ASSUME Typed, NEW r \in Runs, NEW d \in DirType, dir' = [dir EXCEPT ![r] = d]
  PROVE  Dir(r, d.claimed, d.env, d.setup, d.launch, d.error, d.exit)
<1>1. dir' \in [Runs -> DirType]
  BY DEF Typed
<1>2. dir'[r] = d /\ \A q \in Runs \ {r} : dir'[q] = dir[q]
  BY DEF Typed
<1> QED BY <1>1, <1>2 DEF Dir

LEMMA Fields ==
  ASSUME Typed, NEW r \in Runs
  PROVE  /\ dir[r] \in DirType /\ dir[r] # None
         /\ dir[r].claimed \in BOOLEAN /\ dir[r].env \in BOOLEAN /\ dir[r].launch \in BOOLEAN
         /\ dir[r].error \in BOOLEAN /\ dir[r].setup \in {"none", "ok", "failed"}
         /\ dir[r].exit \in {"none", "ended", "unclean"}
<1>1. dir[r] \in DirType
  BY DEF Typed
<1> QED BY <1>1, SnapshotAssumption DEF SnapshotAssumption, DirType

\* What has grown has the same records, and may grow again.
LEMMA GrownSame == ASSUME NEW d \in DirType PROVE Grown(d, d)
BY ControlAssumption DEF ControlAssumption, DirType, Grown

LEMMA GrownAgain ==
  ASSUME NEW d \in DirType, NEW e \in DirType, NEW f \in DirType, Grown(d, e), Grown(e, f)
  PROVE  Grown(d, f)
<1>1. f = [d EXCEPT !.late = f.late]
  BY DEF Grown, DirType
<1>2. d.late \in Nat /\ e.late \in Nat /\ f.late \in Nat
  BY ControlAssumption DEF ControlAssumption, DirType
<1> QED BY <1>1, <1>2 DEF Grown

\* No directory changes but for what an orphan adds.
Beyond ==
  /\ dir' \in [Runs -> DirType]
  /\ \A r \in Runs : dir'[r].claimed = dir[r].claimed /\ Grown(dir[r], dir'[r])

LEMMA BeyondSame == ASSUME Typed, dir' = dir PROVE Beyond
BY GrownSame DEF Typed, Beyond

----------------------------------------------------------------------------
(* Steps that only pass on what other steps have done.                     *)

\* Nothing on the instance changes, and c begins or ends no setup or launch
\* but, perhaps, a launch that is refused.
Passes(c) ==
  /\ \E run, local, remote, snap, inv :
       /\ Cmd(c, run, local, remote, snap, inv)
       /\ \/ remote \notin Owned /\ command[c].remote \notin Owned \ {"launch"}
          \/ remote = command[c].remote /\ run = command[c].run
       /\ remote # "idle" => Running /\ run \in Runs
       /\ local # "idle" => run \in Runs
       /\ local \in Answered => remote = "idle"
       /\ local = "fence" => remote \in Fencing
       /\ remote \in Fencing => local \in {"idle", "fence"}
  /\ dir' = dir /\ tmux' = tmux /\ leader' = leader /\ job' = job /\ instance' = instance
  /\ registry'.stopping = registry.stopping

LEMMA PassesKeeps ==
  ASSUME CInv, NEW c \in Commands, Passes(c)
  PROVE  (Exclusive /\ SetupOK /\ LaunchOK /\ DeadOK /\ FenceOK)'
<1>1. PICK run, local, remote, snap, inv :
        /\ Cmd(c, run, local, remote, snap, inv)
        /\ \/ remote \notin Owned /\ command[c].remote \notin Owned \ {"launch"}
           \/ remote = command[c].remote /\ run = command[c].run
        /\ remote # "idle" => Running /\ run \in Runs
        /\ local # "idle" => run \in Runs
        /\ local \in Answered => remote = "idle"
        /\ local = "fence" => remote \in Fencing
        /\ remote \in Fencing => local \in {"idle", "fence"}
  BY DEF Passes
<1>2. dir' = dir /\ tmux' = tmux /\ leader' = leader /\ job' = job /\ instance' = instance
      /\ registry'.stopping = registry.stopping
  BY DEF Passes
<1>3. Exclusive /\ SetupOK /\ LaunchOK /\ DeadOK /\ FenceOK
  BY DEF CInv
<1>4. \A d \in Commands : \/ command'[d].run = command[d].run /\ command'[d].remote = command[d].remote
                          \/ command'[d].remote \notin Owned /\ command[d].remote \notin Owned \ {"launch"}
  BY <1>1 DEF Cmd
<1>5. \A d \in Commands : /\ command'[d].remote # "idle" => Running /\ command'[d].run \in Runs
                          /\ command'[d].local # "idle" => command'[d].run \in Runs
                          /\ command'[d].local \in Answered => command'[d].remote = "idle"
                          /\ command'[d].local = "fence" => command'[d].remote \in Fencing
                          /\ command'[d].remote \in Fencing => command'[d].local \in {"idle", "fence"}
  <2>1. \A d \in Commands : /\ command[d].remote # "idle" => Running /\ command[d].run \in Runs
                            /\ command[d].local # "idle" => command[d].run \in Runs
                            /\ command[d].local \in Answered => command[d].remote = "idle"
                            /\ command[d].local = "fence" => command[d].remote \in Fencing
                            /\ command[d].remote \in Fencing => command[d].local \in {"idle", "fence"}
    BY <1>3 DEF Exclusive, DeadOK
  <2> QED BY <1>1, <2>1 DEF Cmd
<1>6. Exclusive'
  BY <1>3, <1>4, <1>5 DEF Exclusive
<1>7. SetupOK'
  <2>1. \A d \in Commands : command'[d].remote \in Working <=> command[d].remote \in Working
    BY <1>4 DEF Owned, SettingUp, Working
  <2>2. \A d \in Commands : command[d].remote \in Working \cup {"setup_failed"} =>
          command'[d].remote = command[d].remote /\ command'[d].run = command[d].run
    BY <1>4 DEF Owned, SettingUp, Working
  <2>3. \A d \in Commands : command'[d].remote \in Working => command'[d].run = command[d].run
    BY <2>1, <2>2
  <2> QED BY <1>2, <1>3, <2>1, <2>2, <2>3 DEF SetupOK, Claimed, Running
<1>8. LaunchOK'
  BY <1>2, <1>3 DEF LaunchOK
<1>9. DeadOK'
  BY <1>2, <1>3, <1>5 DEF DeadOK, Running
<1>10. FenceOK'
  <2>1. \A d \in Commands : command'[d].remote \in SettingUp =>
          command'[d].remote = command[d].remote /\ command'[d].run = command[d].run
    BY <1>4 DEF Owned
  <2>2. \A r \in Runs : (Active(r)' => Active(r)) /\ (Orphan(r) => Orphan(r)')
    BY <1>2, <2>1 DEF Active, Orphan, SettingUp
  <2> QED BY <1>2, <1>3, <2>2 DEF FenceOK, Claimed
<1> QED BY <1>6, <1>7, <1>8, <1>9, <1>10

\* The registry and the snapshot of an export under way stay as they are.
LEMMA ExportStays ==
  ASSUME CInv, registry'.exported = registry.exported, registry'.recovered = registry.recovered,
         \A d \in Commands : command'[d].remote = "archiving" =>
           command'[d].snap = command[d].snap /\ command[d].remote = "archiving"
  PROVE  ExportOK'
BY DEF CInv, ExportOK

\* The fence stands for good; no copy is lost; and a command that enters a stage
\* of a stop, or an inventory that is written, is entitled to it.
LEMMA StopStays ==
  ASSUME CInv, registry.stopping => registry'.stopping /\ (dir' = dir \/ Beyond),
         \A r \in Runs : copies[r] \subseteq copies'[r],
         \A d \in Commands : command'[d].local \in {"fence", "verify", "stop"} =>
           \/ /\ command'[d].local = command[d].local /\ command'[d].run = command[d].run
              /\ command'[d].snap = command[d].snap /\ command'[d].inv = command[d].inv
           \/ Entitled(d)',
         \A r \in Runs : inventory'[r] = inventory[r] \/ Matches(inventory[r])'
  PROVE  StopOK'
<1>1. Exclusive /\ StopOK
  BY DEF CInv
<1>2. \A inv : Matches(inv) => Matches(inv)'
  <2> SUFFICES ASSUME NEW inv, Matches(inv) PROVE Matches(inv)'
    OBVIOUS
  <2>1. registry'.stopping /\ Beyond /\ dir \in [Runs -> DirType]
    BY BeyondSame DEF CInv, Typed, Matches
  <2>2. Claimed' = Claimed
    BY <2>1 DEF Beyond, Claimed
  <2>3. ASSUME NEW r \in Claimed PROVE inv[r] \in DirType /\ Grown(inv[r], dir'[r])
    <3>1. r \in Runs /\ inv[r] \in DirType /\ Grown(inv[r], dir[r])
      BY DEF Claimed, Matches
    <3>2. dir[r] \in DirType /\ dir'[r] \in DirType /\ Grown(dir[r], dir'[r])
      BY <2>1, <3>1 DEF Beyond
    <3> QED BY <3>1, <3>2, GrownAgain
  <2> QED BY <2>1, <2>2, <2>3 DEF Matches
<1>3. ASSUME NEW d \in Commands, command'[d].local \in {"fence", "verify", "stop"}
      PROVE  Entitled(d)'
  <2>1. CASE /\ command'[d].local = command[d].local /\ command'[d].run = command[d].run
             /\ command'[d].snap = command[d].snap /\ command'[d].inv = command[d].inv
    <3>1. command[d].local \in {"fence", "verify", "stop"} /\ command[d].local # "idle"
      BY <1>3, <2>1
    <3>2. Entitled(d) /\ command[d].run \in Runs
      BY <1>1, <3>1 DEF Exclusive, StopOK
    <3>3. command'[d].snap \in copies'[command'[d].run]
      BY <2>1, <3>2 DEF Entitled
    <3>4. command'[d].local \in {"verify", "stop"} => Matches(command[d].inv)'
      BY <1>2, <2>1, <3>2 DEF Entitled
    <3>5. command'[d].local = "stop" => Saved'
      <4> SUFFICES ASSUME Saved, registry.stopping, NEW r \in Claimed'
                   PROVE  \E saved \in copies'[r] \cap DirType : Grown(saved, dir'[r])
        BY <2>1, <3>2 DEF Entitled, Saved, Matches
      <4>1. Beyond /\ dir \in [Runs -> DirType]
        BY BeyondSame DEF CInv, Typed
      <4>2. r \in Claimed /\ r \in Runs
        BY <4>1 DEF Beyond, Claimed
      <4>3. PICK saved \in copies[r] \cap DirType : Grown(saved, dir[r])
        BY <4>2 DEF Saved
      <4>4. dir[r] \in DirType /\ dir'[r] \in DirType /\ Grown(dir[r], dir'[r])
        BY <4>1, <4>2 DEF Beyond
      <4>5. Grown(saved, dir'[r])
        BY <4>3, <4>4, GrownAgain
      <4> QED BY <4>2, <4>3, <4>5
    <3> QED BY <3>3, <3>4, <3>5 DEF Entitled
  <2> QED BY <1>3, <2>1
<1>4. \A r \in Runs : inventory'[r] # NoSnapshots => Matches(inventory[r])'
  <2> SUFFICES ASSUME NEW r \in Runs, inventory'[r] # NoSnapshots PROVE Matches(inventory[r])'
    OBVIOUS
  <2>1. CASE inventory'[r] = inventory[r]
    <3>1. Matches(inventory[r])
      BY <1>1, <2>1 DEF StopOK
    <3>2. Matches(inventory[r])' <=> \E inv : inv = inventory[r] /\ Matches(inv)'
      BY <2>1 DEF Matches
    <3> QED BY <1>2, <3>1, <3>2
  <2> QED BY <2>1
<1> QED BY <1>3, <1>4 DEF StopOK

LEMMA SavedStays ==
  ASSUME CInv, registry.stopping \/ ~Running => dir' = dir, instance' = instance, stopped' = stopped,
         \A r \in Runs : copies[r] \subseteq copies'[r]
  PROVE  SavedOK'
BY DEF CInv, SavedOK, SavedWhenStopped, Running, Claimed

LEMMA TypedStays ==
  ASSUME Typed, NEW c \in Commands, NEW run, NEW local, NEW remote, NEW snap, NEW inv,
         Cmd(c, run, local, remote, snap, inv),
         dir' = dir, registry' = registry, tmux' = tmux, job' = job,
         DOMAIN copies' = Runs, inventory' = inventory
  PROVE  Typed'
BY DEF Typed, Cmd

LEMMA TimeOutKeeps == ASSUME CInv, NEW c \in Commands, TimeOut(c) PROVE CInv'
<1> USE DEF TimeOut, remoteVars, macVars
<1>1. Cmd(c, command[c].run, "idle", command[c].remote, command[c].snap, command[c].inv)
  BY DEF CInv, Typed, Cmd, CommandFields
<1>2. Passes(c)
  <2>1. command[c].remote # "idle" => Running /\ command[c].run \in Runs
    BY DEF CInv, DeadOK, Exclusive
  <2> QED BY <1>1, <2>1 DEF Passes, Answered
<1>3. Typed'
  BY <1>1, TypedStays DEF CInv, Typed
<1>4. ExportOK'
  BY <1>1, ExportStays DEF Cmd
<1>5. (StopOK /\ SavedOK)'
  BY <1>1, StopStays, SavedStays DEF Cmd
<1> QED BY <1>2, <1>3, <1>4, <1>5, PassesKeeps DEF CInv

\* A command that ends, as it does when it is refused or fails.
LEMMA RaiseKeeps ==
  ASSUME CInv, NEW c \in Commands, Raise(c), command[c].remote \notin Owned \ {"launch"},
         UNCHANGED <<dir, registry, tmux, leader, job, instance, copies, inventory, stopped>>
  PROVE  CInv'
<1>1. Cmd(c, None, "idle", "idle", None, NoSnapshots)
  BY RaiseIs DEF CInv
<1>2. Passes(c)
  BY <1>1 DEF Passes, Answered, Owned, SettingUp
<1>3. Typed'
  BY <1>1, TypedStays DEF CInv, Typed
<1>4. ExportOK'
  BY <1>1, ExportStays DEF Cmd
<1>5. (StopOK /\ SavedOK)'
  BY <1>1, StopStays, SavedStays DEF Cmd
<1> QED BY <1>2, <1>3, <1>4, <1>5, PassesKeeps DEF CInv

LEMMA EndsKeep ==
  ASSUME CInv, NEW c \in Commands,
         ExportChanged(c) \/ LaunchRefused(c) \/ DownloadFails(c) \/ Record(c)
  PROVE  CInv'
<1>1. Raise(c) /\ UNCHANGED <<dir, registry, tmux, leader, job, instance, copies, inventory, stopped>>
  BY DEF ExportChanged, LaunchRefused, DownloadFails, Record, remoteVars, macVars
<1>2. command[c].remote \in {"archiving", "launch", "idle"}
  BY DEF ExportChanged, LaunchRefused, DownloadFails, Record, CInv, Exclusive, Answered
<1>3. command[c].remote \notin Owned \ {"launch"}
  BY <1>2 DEF Owned, SettingUp
<1> QED BY <1>1, <1>3, RaiseKeeps

\* A new call; none of a stop.
LEMMA CallKeeps ==
  ASSUME CInv, NEW c \in Commands, NEW r \in Runs, NEW local, NEW snap, Call(c, r, local, local, snap),
         local \in {"export", "ack"}, Running, command[c].remote = "idle",
         UNCHANGED <<dir, registry, tmux, leader, job, instance, inventory, stopped>>,
         DOMAIN copies' = Runs, \A q \in Runs : copies[q] \subseteq copies'[q]
  PROVE  CInv'
<1>1. Cmd(c, r, local, local, snap, NoSnapshots)
  BY CallIs DEF CInv
<1>2. Passes(c)
  BY <1>1 DEF Passes, Answered, Owned, SettingUp, Fencing
<1>3. Typed'
  BY <1>1, TypedStays DEF CInv
<1>4. ExportOK'
  BY <1>1, ExportStays DEF Cmd
<1>5. (StopOK /\ SavedOK)'
  BY <1>1, StopStays, SavedStays DEF Cmd
<1> QED BY <1>2, <1>3, <1>4, <1>5, PassesKeeps DEF CInv

LEMMA RecoverKeeps == ASSUME CInv, NEW c \in Commands, NEW r \in Runs, Recover(c, r) PROVE CInv'
<1>1. command[c].remote = "idle"
  BY DEF Recover, Ready, NoCommand
<1> QED BY <1>1, CallKeeps DEF Recover, remoteVars, macVars, CInv, Typed

LEMMA DownloadKeeps == ASSUME CInv, NEW c \in Commands, Download(c) PROVE CInv'
<1>1. command[c].remote = "idle" /\ command[c].run \in Runs
  BY DEF Download, CInv, Exclusive, Answered
<1>2. DOMAIN copies' = Runs /\ \A q \in Runs : copies[q] \subseteq copies'[q]
  BY DEF Download, CInv, Typed
<1>3. /\ Call(c, command[c].run, "ack", "ack", command[c].snap) /\ Running
      /\ UNCHANGED <<dir, registry, tmux, leader, job, instance, inventory, stopped>>
  BY DEF Download, remoteVars
<1> QED BY <1>1, <1>2, <1>3, CallKeeps

----------------------------------------------------------------------------
(* Exports and their acknowledgements.                                     *)

LEMMA ExportKeeps == ASSUME CInv, NEW c \in Commands, Export(c) PROVE CInv'
<1> DEFINE r == command[c].run
<1>1. command[c].remote = "export" /\ UNCHANGED <<dir, registry, tmux, leader, job, instance, copies, inventory, stopped>>
  BY DEF Export, remoteVars, macVars
<1>2. r \in Runs /\ Running
  BY <1>1 DEF CInv, Exclusive, DeadOK
<1>3. CASE dir[r].claimed /\ tmux[r] = "absent" /\ Terminal(dir[r])
  <2>1. Cmd(c, r, command[c].local, "archiving", dir[r], command[c].inv)
    BY <1>3 DEF Export, CInv, Typed, Cmd, CommandFields
  <2>2. Passes(c)
    <3>1. command[c].local \notin Answered
      BY <1>1 DEF CInv, Exclusive
    <3>2. command[c].local # "fence"
      BY <1>1 DEF CInv, Exclusive, Fencing
    <3> QED BY <1>1, <1>2, <2>1, <3>1, <3>2 DEF Passes, Owned, SettingUp, Fencing
  <2>3. Typed'
    BY <1>1, <2>1, TypedStays DEF CInv, Typed
  <2>4. ExportOK'
    BY <1>1, <1>3, <2>1 DEF Cmd, CInv, ExportOK
  <2>5. (StopOK /\ SavedOK)'
    <3>1. command[c].local \notin {"verify", "stop"}
      BY <1>1 DEF CInv, Exclusive, Answered
    <3>2. command[c].local # "fence"
      BY <1>1 DEF CInv, Exclusive, Fencing
    <3> QED BY <1>1, <2>1, <3>1, <3>2, StopStays, SavedStays DEF Cmd
  <2> QED BY <2>2, <2>3, <2>4, <2>5, PassesKeeps DEF CInv
<1>4. CASE ~(dir[r].claimed /\ tmux[r] = "absent" /\ Terminal(dir[r]))
  <2>1. Raise(c)
    BY <1>4 DEF Export
  <2> QED BY <1>1, <2>1, RaiseKeeps DEF Owned, SettingUp
<1> QED BY <1>3, <1>4

LEMMA ExportRegistersKeeps == ASSUME CInv, NEW c \in Commands, ExportRegisters(c) PROVE CInv'
<1> DEFINE r == command[c].run
           next == [command[c] EXCEPT !.local = "download", !.remote = "idle"]
<1>1. /\ command[c].remote = "archiving"
      /\ registry' = [registry EXCEPT !.exported[r] = command[c].snap] /\ Answer(c, next)
      /\ UNCHANGED <<dir, tmux, leader, job, instance, copies, inventory, stopped>>
  BY DEF ExportRegisters, macVars
<1>2. r \in Runs /\ Running /\ command[c].local \notin {"fence", "verify", "stop"} /\ Terminal(command[c].snap)
  BY <1>1 DEF CInv, Exclusive, DeadOK, Fencing, Answered, ExportOK
<1>3. /\ DOMAIN registry' = {"exported", "recovered", "stopping"}
      /\ DOMAIN registry'.exported = Runs /\ registry'.recovered = registry.recovered
      /\ registry'.stopping = registry.stopping
      /\ registry'.exported[r] = command[c].snap
      /\ \A q \in Runs \ {r} : registry'.exported[q] = registry.exported[q]
  BY <1>1, <1>2 DEF CInv, Typed
<1>4. DOMAIN next = CommandFields /\ next.run = r /\ next.local = "download" /\ next.remote = "idle"
      /\ next.snap = command[c].snap /\ next.inv = command[c].inv
  BY DEF CInv, Typed, CommandFields
<1>5. \/ Cmd(c, None, "idle", "idle", None, NoSnapshots)
      \/ Cmd(c, r, "download", "idle", command[c].snap, command[c].inv)
  <2> HIDE DEF next, r
  <2> QED BY <1>1, <1>4, AnswerIs DEF CInv
<1>6. Passes(c)
  BY <1>1, <1>2, <1>3, <1>5 DEF Passes, Answered, Owned, SettingUp, Fencing
<1>7. Typed'
  BY <1>1, <1>3, <1>5 DEF CInv, Typed, Cmd
<1>8. ExportOK'
  <2>1. \A d \in Commands : command'[d].remote = "archiving" =>
          command'[d].snap = command[d].snap /\ command[d].remote = "archiving"
    BY <1>5 DEF Cmd
  <2>2. \A q \in Runs : Ends(registry'.exported[q]) /\ Ends(registry'.recovered[q])
    BY <1>2, <1>3 DEF CInv, ExportOK, Ends
  <2> QED BY <2>1, <2>2 DEF CInv, ExportOK, Ends
<1>9. (StopOK /\ SavedOK)'
  BY <1>1, <1>2, <1>3, <1>5, StopStays, SavedStays DEF Cmd
<1> QED BY <1>6, <1>7, <1>8, <1>9, PassesKeeps DEF CInv

LEMMA AcknowledgeKeeps == ASSUME CInv, NEW c \in Commands, Acknowledge(c) PROVE CInv'
<1> DEFINE r == command[c].run
           next == [command[c] EXCEPT !.local = "record", !.remote = "idle"]
<1>1. /\ command[c].remote = "ack"
      /\ UNCHANGED <<dir, tmux, leader, job, instance, copies, inventory, stopped>>
  BY DEF Acknowledge, macVars
<1>2. r \in Runs /\ Running /\ command[c].local \notin {"fence", "verify", "stop"}
  BY <1>1 DEF CInv, Exclusive, DeadOK, Fencing, Answered
<1>3. CASE command[c].snap # registry.exported[r]
  BY <1>1, <1>3, RaiseKeeps DEF Acknowledge, Owned, SettingUp
<1>4. CASE command[c].snap = registry.exported[r]
  <2>1. registry' = [registry EXCEPT !.recovered[r] = command[c].snap] /\ Answer(c, next)
    BY <1>4 DEF Acknowledge
  <2>2. Ends(command[c].snap)
    BY <1>2, <1>4 DEF CInv, ExportOK
  <2>3. /\ DOMAIN registry' = {"exported", "recovered", "stopping"}
        /\ DOMAIN registry'.recovered = Runs /\ registry'.exported = registry.exported
        /\ registry'.stopping = registry.stopping
        /\ registry'.recovered[r] = command[c].snap
        /\ \A q \in Runs \ {r} : registry'.recovered[q] = registry.recovered[q]
    BY <1>2, <2>1 DEF CInv, Typed
  <2>4. DOMAIN next = CommandFields /\ next.run = r /\ next.local = "record" /\ next.remote = "idle"
        /\ next.snap = command[c].snap /\ next.inv = command[c].inv
    BY DEF CInv, Typed, CommandFields
  <2>5. \/ Cmd(c, None, "idle", "idle", None, NoSnapshots)
        \/ Cmd(c, r, "record", "idle", command[c].snap, command[c].inv)
    <3> HIDE DEF next, r
    <3> QED BY <2>1, <2>4, AnswerIs DEF CInv
  <2>6. Passes(c)
    BY <1>1, <1>2, <2>3, <2>5 DEF Passes, Answered, Owned, SettingUp, Fencing
  <2>7. Typed'
    BY <1>1, <2>3, <2>5 DEF CInv, Typed, Cmd
  <2>8. ExportOK'
    <3>1. \A d \in Commands : command'[d].remote = "archiving" =>
            command'[d].snap = command[d].snap /\ command[d].remote = "archiving"
      BY <2>5 DEF Cmd
    <3>2. \A q \in Runs : Ends(registry'.exported[q]) /\ Ends(registry'.recovered[q])
      BY <2>2, <2>3 DEF CInv, ExportOK
    <3> QED BY <3>1, <3>2 DEF CInv, ExportOK, Ends
  <2>9. (StopOK /\ SavedOK)'
    BY <1>1, <1>2, <2>3, <2>5, StopStays, SavedStays DEF Cmd
  <2> QED BY <2>6, <2>7, <2>8, <2>9, PassesKeeps DEF CInv
<1> QED BY <1>3, <1>4

----------------------------------------------------------------------------
(* The fence, and what a stop does behind it.                              *)

\* Where the record of an end stands and the worker is gone, nothing is at work
\* but, perhaps, an orphan.
LEMMA TerminalIsOver ==
  ASSUME CInv, NEW r \in Runs, dir[r].claimed, tmux[r] = "absent", Terminal(dir[r])
  PROVE  ~Active(r) \/ Orphan(r)
<1>1. LaunchOK /\ SetupOK
  BY DEF CInv
<1>2. dir[r].setup # "none"
  BY <1>1 DEF LaunchOK, Terminal
<1>3. r \notin leader /\ (job[r] \in Live => dir[r].exit = "ended")
  <2>1. CASE dir[r].launch
    <3>1. dir[r].exit = "ended" \/ dir[r].error
      BY <2>1, Fields DEF Terminal, CInv
    <3> QED BY <1>1, <3>1 DEF LaunchOK
  <2>2. CASE ~dir[r].launch
    BY <1>1, <2>2 DEF LaunchOK, Live
  <2> QED BY <2>1, <2>2
<1> QED BY <1>1, <1>2, <1>3 DEF Active, Orphan, SetupOK, Working

LEMMA InspectKeeps == ASSUME CInv, NEW c \in Commands, Inspect(c) PROVE CInv'
<1>1. /\ command[c].remote = "stop_ready"
      /\ UNCHANGED <<dir, registry, tmux, leader, job, instance, copies, inventory, stopped>>
  BY DEF Inspect, macVars
<1>2. command[c].run \in Runs /\ Running /\ command[c].local \in {"idle", "fence"}
  BY <1>1 DEF CInv, Exclusive, DeadOK, Fencing
<1>3. CASE Raise(c)
  BY <1>1, <1>3, RaiseKeeps DEF Owned, SettingUp
<1>4. CASE Remotely(c, "inspecting")
  <2>1. Cmd(c, command[c].run, command[c].local, "inspecting", command[c].snap, command[c].inv)
    BY <1>4, RemotelyIs DEF CInv
  <2>2. Passes(c)
    BY <1>1, <1>2, <2>1 DEF Passes, Answered, Owned, SettingUp, Fencing
  <2>3. Typed'
    BY <1>1, <2>1, TypedStays DEF CInv, Typed
  <2>4. ExportOK'
    BY <1>1, <2>1, ExportStays DEF Cmd
  <2>5. (StopOK /\ SavedOK)'
    BY <1>1, <2>1, StopStays, SavedStays DEF Cmd
  <2> QED BY <2>2, <2>3, <2>4, <2>5, PassesKeeps DEF CInv
<1> QED BY <1>3, <1>4 DEF Inspect

LEMMA StopKeeps == ASSUME CInv, NEW c \in Commands, NEW r \in Runs, Stop(c, r) PROVE CInv'
<1>1. /\ command[c].remote = "idle" /\ recovered[r] \in copies[r]
      /\ UNCHANGED <<dir, registry, tmux, leader, job, instance, copies, inventory, stopped>>
  BY DEF Stop, Ready, Held, NoCommand, remoteVars, macVars
<1>2. CASE Running /\ Call(c, r, "fence", "stop_ready", recovered[r])
  <2>1. Cmd(c, r, "fence", "stop_ready", recovered[r], NoSnapshots)
    BY <1>2, CallIs DEF CInv
  <2>2. Passes(c)
    BY <1>1, <1>2, <2>1 DEF Passes, Answered, Owned, SettingUp, Fencing
  <2>3. Typed'
    BY <1>1, <2>1, TypedStays DEF CInv, Typed
  <2>4. ExportOK'
    BY <1>1, <2>1, ExportStays DEF Cmd
  <2>5. Entitled(c)'
    BY <1>1, <2>1 DEF Cmd, Entitled
  <2>6. (StopOK /\ SavedOK)'
    BY <1>1, <2>1, <2>5, StopStays, SavedStays DEF Cmd
  <2> QED BY <2>2, <2>3, <2>4, <2>6, PassesKeeps DEF CInv
<1>3. CASE /\ ~Running /\ inventory[r] # NoSnapshots
           /\ command' = [command EXCEPT ![c] = [NoCommand EXCEPT
                !.run = r, !.local = "verify", !.snap = recovered[r], !.inv = inventory[r]]]
  <2>1. Cmd(c, r, "verify", "idle", recovered[r], inventory[r])
    BY <1>3 DEF CInv, Typed, NoCommand, Cmd, CommandFields
  <2>2. Passes(c)
    BY <1>1, <2>1 DEF Passes, Answered, Owned, SettingUp, Fencing
  <2>3. Typed'
    BY <1>1, <2>1, TypedStays DEF CInv, Typed
  <2>4. ExportOK'
    BY <1>1, <2>1, ExportStays DEF Cmd
  <2>5. Entitled(c)'
    <3>1. Matches(inventory[r])
      BY <1>3 DEF CInv, StopOK
    <3>2. Matches(command[c].inv)'
      BY <1>1, <2>1, <3>1 DEF Matches, Claimed, Cmd
    <3> QED BY <1>1, <2>1, <3>2 DEF Cmd, Entitled
  <2>6. (StopOK /\ SavedOK)'
    BY <1>1, <2>1, <2>5, StopStays, SavedStays DEF Cmd
  <2> QED BY <2>2, <2>3, <2>4, <2>6, PassesKeeps DEF CInv
<1> QED BY <1>2, <1>3 DEF Stop

LEMMA StopReadyKeeps == ASSUME CInv, NEW c \in Commands, StopReady(c) PROVE CInv'
<1> DEFINE next == [command[c] EXCEPT !.local = "verify", !.remote = "idle", !.inv = registry.recovered]
<1>1. /\ command[c].remote = "inspecting"
      /\ UNCHANGED <<dir, tmux, leader, job, instance, copies, inventory, stopped>>
  BY DEF StopReady, macVars
<1>2. command[c].run \in Runs /\ Running /\ command[c].local \in {"idle", "fence"}
  BY <1>1 DEF CInv, Exclusive, DeadOK, Fencing
<1>3. CASE ~\A r \in Claimed : tmux[r] = "absent" /\ Unchanged(r)
  BY <1>1, <1>3, RaiseKeeps DEF StopReady, Owned, SettingUp
<1>4. CASE \A r \in Claimed : tmux[r] = "absent" /\ Unchanged(r)
  <2>1. registry' = [registry EXCEPT !.stopping = TRUE] /\ Answer(c, next)
    BY <1>4 DEF StopReady
  <2>2. /\ DOMAIN registry' = {"exported", "recovered", "stopping"} /\ registry'.stopping
        /\ registry'.exported = registry.exported /\ registry'.recovered = registry.recovered
    BY <2>1 DEF CInv, Typed
  <2>3. DOMAIN next = CommandFields /\ next.run = command[c].run /\ next.local = "verify"
        /\ next.remote = "idle" /\ next.snap = command[c].snap /\ next.inv = registry.recovered
    BY DEF CInv, Typed, CommandFields
  <2>4. \/ Cmd(c, None, "idle", "idle", None, NoSnapshots)
        \/ /\ command[c].local = "fence"
           /\ Cmd(c, command[c].run, "verify", "idle", command[c].snap, registry.recovered)
    <3> HIDE DEF next
    <3> QED BY <1>2, <2>1, <2>3, AnswerIs DEF CInv
  <2>5. \A r \in Claimed : ~Active(r) \/ Orphan(r)
    <3> SUFFICES ASSUME NEW r \in Claimed PROVE ~Active(r) \/ Orphan(r)
      OBVIOUS
    <3>1. r \in Runs /\ dir[r].claimed /\ tmux[r] = "absent" /\ registry.recovered[r] = dir[r]
      BY <1>4 DEF Claimed, Unchanged
    <3>2. dir[r] # None
      BY <3>1, Fields DEF CInv
    <3>3. Terminal(dir[r])
      BY <3>1, <3>2 DEF CInv, ExportOK, Ends
    <3> QED BY <3>1, <3>3, TerminalIsOver
  <2>6. (Exclusive /\ SetupOK /\ LaunchOK /\ DeadOK)' /\ FenceOK'
    <3>1. \A d \in Commands : command'[d].remote \in SettingUp => command'[d] = command[d]
      BY <2>4 DEF Cmd, SettingUp
    <3>2. FenceOK'
      <4>1. \A r \in Runs : (Active(r)' => Active(r)) /\ (Orphan(r) => Orphan(r)')
        BY <1>1, <3>1 DEF Active, Orphan, SettingUp
      <4> QED BY <1>1, <2>5, <4>1 DEF FenceOK, Claimed
    <3>3. Exclusive'
      BY <1>1, <1>2, <2>4 DEF CInv, Exclusive, Cmd, Owned, SettingUp, Fencing, Answered
    <3>4. SetupOK'
      <4>1. \A d \in Commands : command[d].remote \in Working \cup {"setup_failed"} => command'[d] = command[d]
        BY <1>1, <2>4 DEF Cmd, Working
      <4>2. \A d \in Commands : command'[d].remote \in Working => command'[d] = command[d]
        BY <3>1 DEF Working, SettingUp
      <4> QED BY <1>1, <4>1, <4>2 DEF CInv, SetupOK, Claimed, Running
    <3>5. LaunchOK' /\ DeadOK'
      BY <1>1, <1>2 DEF CInv, LaunchOK, DeadOK, Running
    <3> QED BY <3>2, <3>3, <3>4, <3>5
  <2>7. Typed'
    BY <1>1, <2>2, <2>4 DEF CInv, Typed, Cmd
  <2>8. ExportOK'
    <3>1. \A d \in Commands : command'[d].remote = "archiving" =>
            command'[d].snap = command[d].snap /\ command[d].remote = "archiving"
      BY <2>4 DEF Cmd
    <3> QED BY <2>2, <3>1, ExportStays
  <2>9. (StopOK /\ SavedOK)'
    <3>1. command'[c].local = "verify" => Entitled(c)'
      <4> SUFFICES ASSUME command'[c].local = "verify" PROVE Entitled(c)'
        OBVIOUS
      <4>1. /\ command[c].local = "fence"
            /\ Cmd(c, command[c].run, "verify", "idle", command[c].snap, registry.recovered)
        BY <2>4 DEF Cmd
      <4>2. command[c].snap \in copies[command[c].run]
        BY <4>1 DEF CInv, StopOK, Entitled
      <4>3. Matches(command[c].inv)'
        <5>1. command'[c].inv = registry.recovered /\ registry'.stopping /\ dir' = dir
          BY <1>1, <2>2, <4>1 DEF Cmd
        <5>2. \A r \in Claimed : registry.recovered[r] = dir[r] /\ dir[r] \in DirType
          BY <1>4 DEF Claimed, Unchanged, CInv, Typed
        <5> QED BY <5>1, <5>2, GrownSame DEF Matches, Claimed
      <4> QED BY <1>1, <4>1, <4>2, <4>3 DEF Cmd, Entitled
    <3>2. \A d \in Commands : command'[d].local \in {"fence", "verify", "stop"} =>
            command'[d] = command[d] \/ Entitled(d)'
      BY <2>4, <3>1 DEF Cmd
    <3> QED BY <1>1, <2>2, <3>2, StopStays, SavedStays
  <2> QED BY <2>6, <2>7, <2>8, <2>9 DEF CInv
<1> QED BY <1>3, <1>4
LEMMA VerifyKeeps == ASSUME CInv, NEW c \in Commands, Verify(c) PROVE CInv'
<1> DEFINE r == command[c].run
<1>1. /\ command[c].local = "verify"
      /\ inventory' = [inventory EXCEPT ![r] = IF command[c].inv[r] = None THEN @ ELSE command[c].inv]
      /\ IF AllHeld(c) /\ Running THEN command' = [command EXCEPT ![c].local = "stop"] ELSE Raise(c)
      /\ stopped' = IF AllHeld(c) /\ ~Running THEN stopped \cup {r} ELSE stopped
      /\ UNCHANGED <<dir, registry, tmux, leader, job, instance, copies>>
  BY DEF Verify, remoteVars
<1>2. r \in Runs /\ command[c].remote = "idle" /\ command[c].snap \in copies[r] /\ Matches(command[c].inv)
  BY <1>1 DEF CInv, Exclusive, Answered, StopOK, Entitled
<1>3. AllHeld(c) => Saved
  <2> SUFFICES ASSUME AllHeld(c), NEW q \in Claimed PROVE command[c].inv[q] \in copies[q]
    BY <1>2 DEF Saved, Matches
  <2>1. q \in Runs /\ command[c].inv[q] \in DirType /\ command[c].inv[q] # None
    BY <1>2, SnapshotAssumption DEF Matches, Claimed, SnapshotAssumption
  <2>2. CASE q = r
    BY <1>2, <2>1, <2>2 DEF AllHeld
  <2>3. CASE q # r
    BY <2>1, <2>3 DEF AllHeld, Held
  <2> QED BY <2>2, <2>3
<1>4. \/ Cmd(c, None, "idle", "idle", None, NoSnapshots)
      \/ /\ AllHeld(c) /\ Running
         /\ Cmd(c, r, "stop", "idle", command[c].snap, command[c].inv)
  <2>1. CASE AllHeld(c) /\ Running
    <3>1. command' = [command EXCEPT ![c].local = "stop"]
      BY <1>1, <2>1
    <3> QED BY <1>2, <2>1, <3>1 DEF CInv, Typed, Cmd, CommandFields
  <2>2. CASE ~(AllHeld(c) /\ Running)
    BY <1>1, <2>2, RaiseIs DEF CInv
  <2> QED BY <2>1, <2>2
<1>5. Passes(c)
  BY <1>1, <1>2, <1>4 DEF Passes, Answered, Owned, SettingUp, Fencing
<1>6. Typed'
  BY <1>1, <1>4 DEF CInv, Typed, Cmd
<1>7. ExportOK'
  BY <1>1, <1>4, ExportStays DEF Cmd
<1>8. StopOK'
  <2>1. command'[c].local = "stop" => Entitled(c)'
    <3> SUFFICES ASSUME command'[c].local = "stop" PROVE Entitled(c)'
      OBVIOUS
    <3>1. AllHeld(c) /\ Cmd(c, r, "stop", "idle", command[c].snap, command[c].inv)
      BY <1>4 DEF Cmd
    <3>2. Matches(command[c].inv)'
      BY <1>1, <1>2, <3>1 DEF Matches, Claimed, Cmd
    <3> QED BY <1>1, <1>2, <1>3, <3>1, <3>2 DEF Cmd, Entitled, Saved, Claimed
  <2>2. \A d \in Commands : command'[d].local \in {"fence", "verify", "stop"} =>
          command'[d] = command[d] \/ Entitled(d)'
    BY <1>4, <2>1 DEF Cmd
  <2>3. \A q \in Runs : inventory'[q] = inventory[q] \/ Matches(inventory[q])'
    <3> SUFFICES ASSUME NEW q \in Runs, inventory'[q] # inventory[q] PROVE Matches(inventory[q])'
      OBVIOUS
    <3>1. inventory'[q] = command[c].inv
      BY <1>1 DEF CInv, Typed
    <3> QED BY <1>1, <1>2, <3>1 DEF Matches, Claimed
  <2> QED BY <1>1, <2>2, <2>3, StopStays
<1>9. SavedOK'
  BY <1>1, <1>3 DEF CInv, SavedOK, SavedWhenStopped, Saved, Running, Claimed
<1> QED BY <1>5, <1>6, <1>7, <1>8, <1>9, PassesKeeps DEF CInv

----------------------------------------------------------------------------
(* The end of the instance, and the loss of copies.                        *)

LEMMA GoneKeeps ==
  ASSUME CInv, NEW how \in {"stopped", "lost"}, Gone(how), Running,
         DOMAIN command' = Commands,
         \A d \in Commands : \/ command'[d] = NoCommand
                             \/ command'[d] = Survivor(command[d]),
         stopped' # {} \/ how = "stopped" => Saved,
         UNCHANGED <<dir, registry, copies, inventory>>
  PROVE  CInv'
<1>1. /\ instance' = how /\ DOMAIN tmux' = Runs /\ DOMAIN job' = Runs /\ leader' = {}
      /\ \A r \in Runs : tmux'[r] = "absent"
      /\ \A r \in Runs : job'[r] = IF job[r] \in Live THEN "over" ELSE job[r]
  BY DEF Gone
<1>2. \A d \in Commands :
        \/ command'[d] = NoCommand
        \/ /\ command[d].local \notin {"idle", "fence"}
           /\ DOMAIN command'[d] = CommandFields /\ command'[d].remote = "idle"
           /\ command'[d].run = command[d].run /\ command'[d].local = command[d].local
           /\ command'[d].snap = command[d].snap /\ command'[d].inv = command[d].inv
           /\ command[d].run \in Runs
  <2> SUFFICES ASSUME NEW d \in Commands, command'[d] # NoCommand
               PROVE  /\ command[d].local \notin {"idle", "fence"}
                      /\ DOMAIN command'[d] = CommandFields /\ command'[d].remote = "idle"
                      /\ command'[d].run = command[d].run /\ command'[d].local = command[d].local
                      /\ command'[d].snap = command[d].snap /\ command'[d].inv = command[d].inv
                      /\ command[d].run \in Runs
    OBVIOUS
  <2>1. /\ command'[d] = [command[d] EXCEPT !.remote = "idle"]
        /\ command[d].local \notin {"idle", "fence"}
    BY DEF Survivor, Waiting
  <2> QED BY <2>1 DEF CInv, Typed, Exclusive, CommandFields
<1>3. \A d \in Commands : command'[d].remote = "idle" /\ DOMAIN command'[d] = CommandFields
  BY <1>2 DEF NoCommand, CommandFields
<1>4. \A d \in Commands : command'[d].local # "idle" =>
        /\ command'[d].run = command[d].run /\ command'[d].local = command[d].local
        /\ command'[d].snap = command[d].snap /\ command'[d].inv = command[d].inv
        /\ command[d].run \in Runs /\ command[d].local # "fence"
  BY <1>2 DEF NoCommand
<1>5. Typed'
  BY <1>1, <1>3 DEF CInv, Typed
<1>6. Exclusive'
  BY <1>3, <1>4 DEF Exclusive, Owned, SettingUp, Fencing, Answered
<1>7. SetupOK'
  BY <1>1, <1>3 DEF CInv, SetupOK, Running, Claimed, Working
<1>8. LaunchOK'
  BY <1>1 DEF CInv, LaunchOK, Live
<1>9. DeadOK'
  BY <1>1, <1>3 DEF DeadOK, Live
<1>10. ExportOK'
  BY <1>3, ExportStays
<1>11. FenceOK'
  BY <1>1, <1>3 DEF FenceOK, Active, Live, Claimed
<1>12. StopOK'
  BY <1>4, StopStays
<1>13. SavedOK'
  BY <1>1 DEF SavedOK, SavedWhenStopped, Saved, Running, Claimed
<1> QED BY <1>5, <1>6, <1>7, <1>8, <1>9, <1>10, <1>11, <1>12, <1>13 DEF CInv

LEMMA StopInstanceKeeps == ASSUME CInv, NEW c \in Commands, StopInstance(c) PROVE CInv'
<1>1. /\ command[c].local = "stop" /\ UNCHANGED <<dir, registry, copies, inventory>>
      /\ DOMAIN command = Commands
  BY DEF StopInstance, CInv, Typed
<1>2. Saved /\ command[c].remote = "idle"
  BY <1>1 DEF CInv, StopOK, Entitled, Exclusive, Answered
<1>3. CASE Raise(c) /\ UNCHANGED <<instance, tmux, leader, lease, job, stopped>>
  BY <1>1, <1>2, <1>3, RaiseKeeps DEF Owned, SettingUp
<1>4. CASE /\ Running /\ Gone("stopped")
           /\ command' = [d \in Commands |-> IF d = c THEN NoCommand ELSE Survivor(command[d])]
  <2>1. DOMAIN command' = Commands
    BY <1>4
  <2>2. \A d \in Commands : command'[d] = NoCommand \/ command'[d] = Survivor(command[d])
    BY <1>4
  <2> QED BY <1>1, <1>2, <1>4, <2>1, <2>2, GoneKeeps
<1> QED BY <1>3, <1>4 DEF StopInstance

LEMMA LoseKeeps == ASSUME CInv, Lose PROVE CInv'
<1>1. /\ Running /\ Gone("lost") /\ command' = [c \in Commands |-> Survivor(command[c])]
      /\ UNCHANGED <<dir, registry, copies, inventory, stopped>>
  BY DEF Lose, macVars
<1>2. stopped = {}
  BY <1>1 DEF CInv, SavedOK
<1> QED BY <1>1, <1>2, GoneKeeps

LEMMA DamageKeeps == ASSUME CInv, NEW r \in Runs, Damage(r) PROVE CInv'
<1>1. /\ Running /\ \A c \in Commands : command[c] = NoCommand
      /\ copies' = [copies EXCEPT ![r] = {}]
      /\ UNCHANGED <<dir, registry, tmux, leader, job, instance, command, inventory, stopped>>
  BY DEF Damage, remoteVars
<1>2. (Typed /\ Exclusive /\ SetupOK /\ LaunchOK /\ DeadOK /\ ExportOK /\ FenceOK)'
  <2>1. Typed'
    BY <1>1 DEF CInv, Typed
  <2>2. (Exclusive /\ SetupOK /\ LaunchOK /\ DeadOK)'
    BY <1>1 DEF CInv, Exclusive, SetupOK, LaunchOK, DeadOK, Claimed, Running
  <2>3. (ExportOK /\ FenceOK)'
    BY <1>1 DEF CInv, ExportOK, FenceOK, Active, Orphan, Claimed
  <2> QED BY <2>1, <2>2, <2>3
<1>3. StopOK'
  BY <1>1 DEF CInv, StopOK, NoCommand, Matches, Claimed
<1>4. SavedOK'
  BY <1>1 DEF CInv, SavedOK, SavedWhenStopped, Running
<1> QED BY <1>2, <1>3, <1>4 DEF CInv
----------------------------------------------------------------------------
(* Setups, launches, and the workers.                                      *)

\* What a step may not do to the directories; see FenceHolds and RecordsAreFinal.
RecordsStep ==
  \A r \in Runs : /\ dir[r].setup # "none" => dir'[r].setup = dir[r].setup
                  /\ dir[r].exit # "none" => dir'[r].exit = dir[r].exit
                  /\ dir[r].error => dir'[r].exit = dir[r].exit
Sealed ==
  /\ RecordsStep
  /\ registry.stopping => \A r \in Runs : dir'[r] # dir[r] => Orphan(r) /\ Grown(dir[r], dir'[r])

\* A command goes on with the setup or launch it has, or begins one that waited
\* for those before it.
LEMMA OwnedMoves ==
  ASSUME CInv, ~Unread, NEW c \in Commands, NEW run, NEW local, NEW remote, NEW snap, NEW inv,
         Cmd(c, run, local, remote, snap, inv),
         run \in Runs, local \notin Answered \cup {"fence"}, remote \in Owned,
         Attentive(run) \/ (command[c].run = run /\ command[c].remote \in Owned)
  PROVE  Exclusive'
<1>1. Exclusive
  BY DEF CInv
<1>2. remote \notin Fencing
  BY DEF Owned, SettingUp, Fencing
<1>3. ASSUME NEW d \in Commands, d # c, command[d].run = run PROVE command[d].remote \notin Owned
  <2>1. CASE Attentive(run)
    BY <1>3, <2>1 DEF Attentive, Owned
  <2>2. CASE command[c].run = run /\ command[c].remote \in Owned
    BY <1>1, <1>3, <2>2 DEF Exclusive
  <2> QED BY <2>1, <2>2
<1>4. \A d, e \in Commands : command'[d].run = command'[e].run /\ command'[d].remote \in Owned
                             /\ command'[e].remote \in Owned => d = e
  BY <1>1, <1>3 DEF Exclusive, Cmd
<1>5. \A d \in Commands : command'[d].remote # "idle" => command'[d].run \in Runs
  BY <1>1 DEF Exclusive, Cmd
<1>6. \A d \in Commands : command'[d].local # "idle" => command'[d].run \in Runs
  BY <1>1 DEF Exclusive, Cmd
<1>7. \A d \in Commands : command'[d].local \in Answered => command'[d].remote = "idle"
  BY <1>1 DEF Exclusive, Cmd
<1>8. \A d \in Commands : /\ command'[d].local = "fence" => command'[d].remote \in Fencing
                          /\ command'[d].remote \in Fencing => command'[d].local \in {"idle", "fence"}
  BY <1>1, <1>2 DEF Exclusive, Cmd
<1> QED BY <1>4, <1>5, <1>6, <1>7, <1>8 DEF Exclusive

\* While a setup is at work on its run, the fence does not stand.
LEMMA OpenForSetup ==
  ASSUME CInv, NEW c \in Commands, command[c].remote \in Working
  PROVE  ~registry.stopping /\ Running /\ command[c].run \in Runs
<1>1. Running /\ command[c].run \in Runs
  BY DEF CInv, Exclusive, DeadOK, Working
<1>2. command[c].run \in Claimed /\ Active(command[c].run) /\ dir[command[c].run].setup = "none"
  BY <1>1 DEF CInv, SetupOK, Claimed, Active, Working
<1>3. ~Orphan(command[c].run)
  BY <1>1, <1>2 DEF CInv, LaunchOK, Orphan
<1> QED BY <1>1, <1>2, <1>3 DEF CInv, FenceOK

\* A claimed run without a record of its setup is the one the setup is at.
LEMMA SetupIsRecorded ==
  ASSUME CInv, NEW c \in Commands, command[c].remote \in Owned,
         dir[command[c].run].claimed, dir[command[c].run].setup = "none"
  PROVE  command[c].remote \in Working \cup {"setup_failed"}
<1>1. Exclusive /\ SetupOK /\ Running /\ command[c].run \in Runs
  BY DEF CInv, Exclusive, DeadOK, Owned, SettingUp
<1>2. PICK d \in Commands : command[d].run = command[c].run /\ command[d].remote \in Working \cup {"setup_failed"}
  BY <1>1 DEF SetupOK, Claimed
<1>3. command[d].remote \in Owned
  BY <1>2 DEF Working, Owned, SettingUp
<1>4. c = d
  BY <1>1, <1>2, <1>3 DEF Exclusive
<1> QED BY <1>2, <1>4

\* A step of a setup or a launch that leaves the fence, the copies and the
\* inventories alone.
LEMMA OwnedKeeps ==
  ASSUME CInv, NEW c \in Commands, NEW run, NEW local, NEW remote, NEW snap, NEW inv,
         Cmd(c, run, local, remote, snap, inv), Running,
         local \notin Answered \cup {"fence"}, remote # "archiving",
         dir' \in [Runs -> DirType], DOMAIN tmux' = Runs, dir' = dir \/ ~registry.stopping,
         UNCHANGED <<registry, leader, job, instance, copies, inventory, stopped>>,
         Exclusive', SetupOK', LaunchOK', FenceOK'
  PROVE  CInv'
<1>1. Typed'
  BY DEF CInv, Typed, Cmd
<1>2. DeadOK'
  BY DEF DeadOK, Running
<1>3. ExportOK'
  BY ExportStays DEF Cmd
<1>4. StopOK'
  <2>1. \A d \in Commands : command'[d].local \in {"fence", "verify", "stop"} => command'[d] = command[d]
    BY DEF Cmd, Answered
  <2> QED BY <2>1, StopStays
<1>5. SavedOK'
  BY SavedStays
<1> QED BY <1>1, <1>2, <1>3, <1>4, <1>5 DEF CInv

LEMMA BeginKeeps ==
  ASSUME CInv, ~Unread, NEW c \in Commands, NEW r \in Runs, Setup(c, r) \/ Launch(c, r)
  PROVE  CInv'
<1>1. /\ command[c].remote = "idle" /\ Running /\ Attentive(r)
      /\ UNCHANGED <<dir, registry, tmux, leader, job, instance, copies, inventory, stopped>>
  BY DEF Setup, Launch, Ready, NoCommand, remoteVars, macVars
<1>2. PICK at \in {"setup", "launch"} : Cmd(c, r, at, at, None, NoSnapshots)
  BY CallIs DEF Setup, Launch, CInv
<1>3. Exclusive'
  <2>1. at \in Owned /\ at \notin Answered \cup {"fence"}
    BY DEF Owned, SettingUp, Answered
  <2> QED BY <1>1, <1>2, <2>1, OwnedMoves
<1>4. SetupOK'
  <2>1. \A d \in Commands : command[d].remote \in Working \cup {"setup_failed"} => command'[d] = command[d]
    BY <1>1, <1>2 DEF Cmd, Working
  <2>2. \A d \in Commands : command'[d].remote \in Working => command'[d] = command[d]
    BY <1>2 DEF Cmd, Working
  <2> QED BY <1>1, <2>1, <2>2 DEF CInv, SetupOK, Claimed, Running
<1>5. LaunchOK'
  BY <1>1 DEF CInv, LaunchOK
<1>6. FenceOK'
  <2>1. \A q \in Runs : (Active(q)' => Active(q)) /\ (Orphan(q) => Orphan(q)')
    BY <1>1, <1>2 DEF Active, Orphan, Cmd
  <2> QED BY <1>1, <2>1 DEF CInv, FenceOK, Claimed
<1>7. dir' \in [Runs -> DirType] /\ DOMAIN tmux' = Runs
  BY <1>1 DEF CInv, Typed
<1> QED BY <1>1, <1>2, <1>3, <1>4, <1>5, <1>6, <1>7, OwnedKeeps DEF Answered
LEMMA SetupClaimKeeps ==
  ASSUME CInv, ~Unread, NEW c \in Commands, SetupClaim(c)
  PROVE  CInv' /\ Sealed
<1> DEFINE r == command[c].run
<1>1. command[c].remote = "setup" /\ UNCHANGED <<registry, tmux, leader, job, instance, copies, inventory, stopped>>
  BY DEF SetupClaim, macVars
<1>2. r \in Runs /\ Running /\ command[c].remote \in Owned /\ command[c].local \notin Answered \cup {"fence"}
  BY <1>1 DEF CInv, Exclusive, DeadOK, Owned, SettingUp, Fencing
<1>3. dir[r].claimed => dir[r].setup # "none"
  BY <1>1, <1>2, SetupIsRecorded DEF Working
<1>4. ASSUME NEW at \in {"install", "setup_failed"}, Remotely(c, at)
      PROVE  Cmd(c, r, command[c].local, at, command[c].snap, command[c].inv) /\ Exclusive'
  <2>1. Cmd(c, r, command[c].local, at, command[c].snap, command[c].inv)
    BY <1>4, RemotelyIs DEF CInv
  <2>2. at \in Owned
    BY DEF Owned, SettingUp
  <2> QED BY <1>2, <2>1, <2>2, OwnedMoves
<1>5. CASE registry.stopping \/ dir[r].claimed
  <2>1. Remotely(c, "setup_failed") /\ dir' = dir
    BY <1>5 DEF SetupClaim
  <2>2. Cmd(c, r, command[c].local, "setup_failed", command[c].snap, command[c].inv) /\ Exclusive'
    BY <1>4, <2>1
  <2>3. SetupOK'
    <3>1. \A d \in Commands : command[d].remote \in Working \cup {"setup_failed"} => command'[d] = command[d]
      BY <1>1, <2>2 DEF Cmd, Working
    <3>2. \A d \in Commands : command'[d].remote \in Working => command'[d] = command[d]
      BY <2>2 DEF Cmd, Working
    <3> QED BY <1>1, <2>1, <3>1, <3>2 DEF CInv, SetupOK, Claimed, Running
  <2>4. LaunchOK'
    BY <1>1, <2>1 DEF CInv, LaunchOK
  <2>5. FenceOK'
    <3>1. \A q \in Claimed : (Active(q)' => Active(q)) /\ (Orphan(q) => Orphan(q)')
      BY <1>1, <1>3, <2>1, <2>2 DEF Active, Orphan, Cmd, Claimed
    <3> QED BY <1>1, <2>1, <3>1 DEF CInv, FenceOK, Claimed
  <2>6. Typed /\ dir' \in [Runs -> DirType] /\ DOMAIN tmux' = Runs /\ Sealed
    BY <1>1, <2>1 DEF CInv, Typed, Sealed, RecordsStep
  <2> QED BY <1>1, <1>2, <2>1, <2>2, <2>3, <2>4, <2>5, <2>6, OwnedKeeps
<1>6. CASE ~(registry.stopping \/ dir[r].claimed)
  <2> DEFINE d == [dir[r] EXCEPT !.claimed = TRUE]
  <2>1. Remotely(c, "install") /\ dir' = [dir EXCEPT ![r] = d]
    BY <1>6 DEF SetupClaim
  <2>2. Cmd(c, r, command[c].local, "install", command[c].snap, command[c].inv) /\ Exclusive'
    BY <1>4, <2>1
  <2>3. d \in DirType /\ d.claimed /\ d.env = dir[r].env /\ d.setup = dir[r].setup /\ d.launch = dir[r].launch
        /\ d.error = dir[r].error /\ d.exit = dir[r].exit
    <3>1. dir[r] \in DirType
      BY <1>2, Fields DEF CInv
    <3> HIDE DEF r
    <3> QED BY <3>1 DEF DirType
  <2>4. Dir(r, d.claimed, dir[r].env, dir[r].setup, dir[r].launch, dir[r].error, dir[r].exit)
    <3> HIDE DEF d, r
    <3> QED BY <1>2, <2>1, <2>3, DirIs DEF CInv
  <2>5. dir[r].setup = "none"
    BY <1>2, <1>6 DEF CInv, SetupOK
  <2>6. /\ dir' \in [Runs -> DirType] /\ DOMAIN tmux' = Runs
        /\ dir'[r].claimed /\ dir'[r].setup = "none" /\ dir'[r].launch = dir[r].launch
        /\ dir'[r].error = dir[r].error /\ dir'[r].exit = dir[r].exit
        /\ \A q \in Runs \ {r} : dir'[q] = dir[q]
    BY <1>1, <2>3, <2>4, <2>5 DEF CInv, Typed, Dir
  <2> HIDE DEF d
  <2>7. SetupOK'
    <3>1. \A e \in Commands : command'[e].remote \in Working =>
            dir'[command'[e].run].claimed /\ dir'[command'[e].run].setup = "none"
      <4> SUFFICES ASSUME NEW e \in Commands, e # c, command'[e].remote \in Working
                   PROVE  dir'[command'[e].run].claimed /\ dir'[command'[e].run].setup = "none"
        BY <2>2, <2>6 DEF Cmd
      <4>1. command'[e] = command[e]
        BY <2>2 DEF Cmd
      <4>2. command[e].run \in Runs
        BY <4>1 DEF CInv, Exclusive, Working
      <4>3. dir[command[e].run].claimed /\ dir[command[e].run].setup = "none"
        BY <4>1 DEF CInv, SetupOK
      <4> QED BY <2>6, <4>1, <4>2, <4>3
    <3>2. \A q \in Runs : ~dir'[q].claimed => dir'[q].setup = "none"
      BY <2>6 DEF CInv, SetupOK
    <3>3. \A q \in Claimed' : dir'[q].setup = "none" =>
            \E e \in Commands : command'[e].run = q /\ command'[e].remote \in Working \cup {"setup_failed"}
      <4> SUFFICES ASSUME NEW q \in Claimed', dir'[q].setup = "none"
                   PROVE  \E e \in Commands : command'[e].run = q /\ command'[e].remote \in Working \cup {"setup_failed"}
        OBVIOUS
      <4>1. CASE q = r
        BY <2>2, <4>1 DEF Cmd, Working
      <4>2. CASE q # r
        <5>1. q \in Claimed /\ dir[q].setup = "none"
          BY <2>6, <4>2 DEF Claimed
        <5>2. PICK e \in Commands : command[e].run = q /\ command[e].remote \in Working \cup {"setup_failed"}
          BY <1>2, <5>1 DEF CInv, SetupOK
        <5>3. command'[e] = command[e]
          BY <1>1, <2>2, <5>2 DEF Cmd, Working
        <5> QED BY <5>2, <5>3
      <4> QED BY <4>1, <4>2
    <3> QED BY <3>1, <3>2, <3>3 DEF SetupOK, Claimed
  <2>8. LaunchOK'
    BY <1>1, <2>5, <2>6 DEF CInv, LaunchOK
  <2>9. FenceOK'
    BY <1>1, <1>6 DEF FenceOK
  <2>10. Sealed
    BY <1>6, <2>5, <2>6 DEF Sealed, RecordsStep
  <2> QED BY <1>1, <1>2, <1>6, <2>2, <2>6, <2>7, <2>8, <2>9, <2>10, OwnedKeeps
<1> QED BY <1>5, <1>6
\* What is under way goes on at the setup of c, or has ended there.
LEMMA SetupOKStays ==
  ASSUME CInv, NEW c \in Commands, NEW run, NEW local, NEW remote, NEW snap, NEW inv,
         Cmd(c, run, local, remote, snap, inv), command[c].run \in Runs,
         \A q \in Runs \ {command[c].run} : dir'[q] = dir[q],
         dir'[command[c].run].claimed, instance' = instance, Exclusive',
         remote \in Working => run = command[c].run /\ dir'[run].setup = "none",
         dir'[command[c].run].setup = "none" =>
           run = command[c].run /\ remote \in Working \cup {"setup_failed"},
         command[c].remote \in Owned
  PROVE  SetupOK'
<1> DEFINE r == command[c].run
<1>1. Exclusive /\ SetupOK
  BY DEF CInv
<1>2. ASSUME NEW d \in Commands, d # c, command[d].remote \in Working \cup {"setup_failed"}
      PROVE  command'[d] = command[d] /\ command[d].run # r /\ command[d].run \in Runs
  <2>1. command[d].remote \in Owned /\ command[d].remote # "idle"
    BY <1>2 DEF Working, Owned, SettingUp
  <2> QED BY <1>1, <1>2, <2>1 DEF Exclusive, Cmd
<1>3. ASSUME NEW d \in Commands, command'[d].remote \in Working
      PROVE  dir'[command'[d].run].claimed /\ dir'[command'[d].run].setup = "none"
  <2>1. CASE d = c
    BY <1>3, <2>1 DEF Cmd
  <2>2. CASE d # c
    <3>1. command'[d] = command[d]
      BY <2>2 DEF Cmd
    <3>2. command[d].remote \in Working \cup {"setup_failed"}
      BY <1>3, <3>1
    <3>3. command[d].run # r /\ command[d].run \in Runs
      BY <1>2, <2>2, <3>2
    <3>4. dir[command[d].run].claimed /\ dir[command[d].run].setup = "none"
      BY <1>1, <1>3, <3>1 DEF SetupOK
    <3> QED BY <3>1, <3>3, <3>4
  <2> QED BY <2>1, <2>2
<1>4. \A q \in Runs : ~dir'[q].claimed => dir'[q].setup = "none"
  BY <1>1 DEF SetupOK
<1>5. ASSUME NEW q \in Claimed', Running', dir'[q].setup = "none"
      PROVE  \E d \in Commands : command'[d].run = q /\ command'[d].remote \in Working \cup {"setup_failed"}
  <2>1. CASE q = r
    BY <1>5, <2>1 DEF Cmd
  <2>2. CASE q # r
    <3>1. q \in Claimed /\ dir[q].setup = "none" /\ Running
      BY <1>5, <2>2 DEF Claimed, Running
    <3>2. PICK d \in Commands : command[d].run = q /\ command[d].remote \in Working \cup {"setup_failed"}
      BY <1>1, <3>1 DEF SetupOK
    <3>3. command'[d] = command[d]
      BY <1>2, <2>2, <3>2
    <3> QED BY <3>2, <3>3
  <2> QED BY <2>1, <2>2
<1> QED BY <1>3, <1>4, <1>5 DEF SetupOK

LEMMA SetupMovesKeep ==
  ASSUME CInv, ~Unread, NEW c \in Commands, SetupRefuses(c) \/ SetupInstall(c) \/ SetupInstalled(c)
  PROVE  CInv'
<1> DEFINE r == command[c].run
<1>1. /\ command[c].remote \in {"install", "installing"}
      /\ UNCHANGED <<dir, registry, tmux, leader, job, instance, copies, inventory, stopped>>
  BY DEF SetupRefuses, SetupInstall, SetupInstalled, remoteVars, macVars
<1>2. PICK at \in {"installing", "identified", "setup_failed"} : Remotely(c, at)
  BY DEF SetupRefuses, SetupInstall, SetupInstalled
<1>3. Cmd(c, r, command[c].local, at, command[c].snap, command[c].inv)
  BY <1>2, RemotelyIs DEF CInv
<1>4. /\ command[c].remote \in Working /\ command[c].remote \in Owned /\ at \in Owned
      /\ at \in Working \cup {"setup_failed"}
  BY <1>1 DEF Working, Owned, SettingUp
<1>5. r \in Runs /\ Running /\ ~registry.stopping /\ dir[r].claimed /\ dir[r].setup = "none"
  BY <1>4, OpenForSetup DEF CInv, SetupOK
<1>6. command[c].local \notin Answered \cup {"fence"}
  BY <1>1 DEF CInv, Exclusive, Fencing
<1>7. Exclusive'
  BY <1>3, <1>4, <1>5, <1>6, OwnedMoves
<1>8. SetupOK'
  BY <1>1, <1>3, <1>4, <1>5, <1>7, SetupOKStays
<1>9. LaunchOK' /\ FenceOK'
  BY <1>1, <1>5 DEF CInv, LaunchOK, FenceOK
<1>10. Typed /\ dir' \in [Runs -> DirType] /\ DOMAIN tmux' = Runs /\ at # "archiving"
  BY <1>1 DEF CInv, Typed
<1> QED BY <1>1, <1>3, <1>5, <1>6, <1>7, <1>8, <1>9, <1>10, OwnedKeeps

LEMMA SetupIdentifiedKeeps ==
  ASSUME CInv, ~Unread, NEW c \in Commands, SetupIdentified(c)
  PROVE  CInv' /\ Sealed
<1> DEFINE r == command[c].run
           d == [dir[r] EXCEPT !.env = TRUE]
<1>1. /\ command[c].remote = "identified" /\ Remotely(c, "setup_ok") /\ dir' = [dir EXCEPT ![r] = d]
      /\ UNCHANGED <<registry, tmux, leader, job, instance, copies, inventory, stopped>>
  BY DEF SetupIdentified, macVars
<1>2. Cmd(c, r, command[c].local, "setup_ok", command[c].snap, command[c].inv)
  BY <1>1, RemotelyIs DEF CInv
<1>3. command[c].remote \in Working /\ command[c].remote \in Owned /\ "setup_ok" \in Owned /\ "setup_ok" \in Working
  BY <1>1 DEF Working, Owned, SettingUp
<1>4. r \in Runs /\ Running /\ ~registry.stopping /\ dir[r].claimed /\ dir[r].setup = "none"
  BY <1>3, OpenForSetup DEF CInv, SetupOK
<1>5. command[c].local \notin Answered \cup {"fence"}
  BY <1>1 DEF CInv, Exclusive, Fencing
<1>6. d \in DirType /\ d.claimed = dir[r].claimed /\ d.setup = dir[r].setup /\ d.launch = dir[r].launch
      /\ d.error = dir[r].error /\ d.exit = dir[r].exit
  <2>1. dir[r] \in DirType
    BY <1>4, Fields DEF CInv
  <2> HIDE DEF r
  <2> QED BY <2>1 DEF DirType
<1>7. Dir(r, dir[r].claimed, d.env, dir[r].setup, dir[r].launch, dir[r].error, dir[r].exit)
  <2> HIDE DEF d, r
  <2> QED BY <1>1, <1>4, <1>6, DirIs DEF CInv
<1> HIDE DEF d
<1>8. /\ dir' \in [Runs -> DirType] /\ DOMAIN tmux' = Runs
      /\ dir'[r].claimed /\ dir'[r].setup = "none" /\ dir'[r].launch = dir[r].launch
      /\ dir'[r].error = dir[r].error /\ dir'[r].exit = dir[r].exit
      /\ \A q \in Runs \ {r} : dir'[q] = dir[q]
  BY <1>1, <1>4, <1>7 DEF CInv, Typed, Dir
<1>9. Exclusive'
  BY <1>2, <1>3, <1>4, <1>5, OwnedMoves
<1>10. SetupOK'
  BY <1>1, <1>2, <1>3, <1>4, <1>8, <1>9, SetupOKStays
<1>11. LaunchOK' /\ FenceOK' /\ Sealed
  BY <1>1, <1>4, <1>8 DEF CInv, LaunchOK, FenceOK, Sealed, RecordsStep
<1> QED BY <1>1, <1>2, <1>4, <1>5, <1>8, <1>9, <1>10, <1>11, OwnedKeeps
\* The end of a setup or a launch.
LEMMA RaiseIsExclusive ==
  ASSUME CInv, NEW c \in Commands, Raise(c)
  PROVE  Exclusive'
<1>1. Cmd(c, None, "idle", "idle", None, NoSnapshots)
  BY RaiseIs DEF CInv
<1> QED BY <1>1 DEF CInv, Exclusive, Cmd, Owned, SettingUp, Fencing, Answered

LEMMA SetupExitKeeps ==
  ASSUME CInv, NEW c \in Commands, SetupExit(c)
  PROVE  CInv' /\ Sealed
<1> DEFINE r == command[c].run
           outcome == IF command[c].remote = "setup_ok" THEN "ok" ELSE "failed"
           d == [dir[r] EXCEPT !.setup = outcome]
<1>1. /\ command[c].remote \in {"setup_ok", "setup_failed"} /\ Raise(c)
      /\ UNCHANGED <<registry, tmux, leader, job, instance, copies, inventory, stopped>>
  BY DEF SetupExit, macVars
<1>2. Cmd(c, None, "idle", "idle", None, NoSnapshots) /\ Exclusive'
  BY <1>1, RaiseIs, RaiseIsExclusive DEF CInv
<1>3. r \in Runs /\ Running /\ command[c].remote \in Owned
  BY <1>1 DEF CInv, Exclusive, DeadOK, Owned, SettingUp
<1>4. DOMAIN tmux' = Runs /\ "idle" \notin Answered \cup {"fence"} /\ "idle" \notin Working
  BY <1>1 DEF CInv, Typed, Answered, Working
<1>5. CASE dir[r].claimed /\ dir[r].setup = "none"
  <2>1. ~registry.stopping
    BY <1>1, <1>3, <1>5 DEF CInv, LaunchOK, FenceOK, Active, Orphan, Claimed
  <2>2. dir' = [dir EXCEPT ![r] = d] /\ outcome \in {"ok", "failed"}
    BY <1>5 DEF SetupExit
  <2>3. d \in DirType /\ d.claimed = dir[r].claimed /\ d.setup = outcome /\ d.launch = dir[r].launch
        /\ d.error = dir[r].error /\ d.exit = dir[r].exit
    <3>1. dir[r] \in DirType
      BY <1>3, Fields DEF CInv
    <3> HIDE DEF r, outcome
    <3> QED BY <2>2, <3>1 DEF DirType
  <2>4. Dir(r, dir[r].claimed, d.env, outcome, dir[r].launch, dir[r].error, dir[r].exit)
    <3> HIDE DEF d, r, outcome
    <3> QED BY <1>3, <2>2, <2>3, DirIs DEF CInv
  <2> HIDE DEF d, outcome
  <2>5. /\ dir' \in [Runs -> DirType]
        /\ dir'[r].claimed /\ dir'[r].setup # "none" /\ dir'[r].launch = dir[r].launch
        /\ dir'[r].error = dir[r].error /\ dir'[r].exit = dir[r].exit
        /\ \A q \in Runs \ {r} : dir'[q] = dir[q]
    BY <1>5, <2>2, <2>4 DEF Dir
  <2>6. SetupOK'
    BY <1>1, <1>2, <1>3, <1>4, <2>5, SetupOKStays
  <2>7. LaunchOK' /\ FenceOK' /\ Sealed
    BY <1>1, <1>5, <2>1, <2>5 DEF CInv, LaunchOK, FenceOK, Sealed, RecordsStep
  <2> QED BY <1>1, <1>2, <1>3, <1>4, <2>1, <2>5, <2>6, <2>7, OwnedKeeps
<1>6. CASE ~(dir[r].claimed /\ dir[r].setup = "none")
  <2>1. dir' = dir
    BY <1>6 DEF SetupExit
  <2>2. \A e \in Commands : command'[e].remote # "idle" => command'[e] = command[e]
    BY <1>2 DEF Cmd
  <2>3. SetupOK'
    <3>1. \A e \in Commands : command'[e].remote \in Working => command'[e] = command[e]
      BY <1>4, <2>2
    <3>2. \A e \in Commands : command[e].run # r => command'[e] = command[e]
      BY <1>2 DEF Cmd
    <3>3. SetupOK
      BY DEF CInv
    <3> QED BY <1>1, <1>6, <2>1, <3>1, <3>2, <3>3 DEF SetupOK, Claimed, Running
  <2>4. LaunchOK' /\ Sealed
    BY <1>1, <2>1 DEF CInv, LaunchOK, Sealed, RecordsStep
  <2>5. FenceOK'
    <3>1. \A q \in Runs : (Active(q)' => Active(q)) /\ (Orphan(q) => Orphan(q)')
      BY <1>1, <2>1, <2>2 DEF Active, Orphan
    <3> QED BY <1>1, <2>1, <3>1 DEF CInv, FenceOK, Claimed
  <2>6. dir' \in [Runs -> DirType]
    BY <2>1 DEF CInv, Typed
  <2> QED BY <1>1, <1>2, <1>3, <1>4, <2>1, <2>3, <2>4, <2>5, <2>6, OwnedKeeps
<1> QED BY <1>5, <1>6

LEMMA LaunchLockedKeeps ==
  ASSUME CInv, NEW c \in Commands, LaunchLocked(c)
  PROVE  CInv' /\ Sealed
<1> DEFINE r == command[c].run
<1>1. /\ command[c].remote = "launch" /\ Launchable(r) /\ Raise(c)
      /\ UNCHANGED <<registry, leader, job, instance, copies, inventory, stopped>>
  BY DEF LaunchLocked, macVars
<1>2. Cmd(c, None, "idle", "idle", None, NoSnapshots) /\ Exclusive'
  BY <1>1, RaiseIs, RaiseIsExclusive DEF CInv
<1>3. r \in Runs /\ Running /\ command[c].remote \in Owned
  BY <1>1 DEF CInv, Exclusive, DeadOK, Owned, SettingUp
<1>4. "idle" \notin Answered \cup {"fence"} /\ "idle" \notin Working
  BY DEF Answered, Working
<1>5. dir[r].claimed /\ ~registry.stopping /\ tmux[r] = "absent" /\ ~dir[r].launch
  BY <1>1 DEF Launchable
<1>6. dir[r].setup # "none"
  BY <1>1, <1>3, <1>5, SetupIsRecorded DEF Working
<1>7. job[r] = "none" /\ r \notin leader /\ dir[r].exit = "none" /\ ~dir[r].error
  BY <1>3, <1>5 DEF CInv, LaunchOK
<1>8. PICK error \in BOOLEAN :
        /\ dir' = [dir EXCEPT ![r] = [dir[r] EXCEPT !.launch = TRUE, !.error = error]]
        /\ tmux' = IF error THEN tmux ELSE [tmux EXCEPT ![r] = "new"]
  <2>1. CASE /\ dir' = [dir EXCEPT ![r].launch = TRUE]
             /\ tmux' = [tmux EXCEPT ![r] = "new"]
    <3>1. dir[r] = [dir[r] EXCEPT !.error = FALSE]
      <4>1. dir[r] \in DirType
        BY <1>3, Fields DEF CInv
      <4> HIDE DEF r
      <4> QED BY <1>7, <4>1 DEF DirType
    <3>2. [dir[r] EXCEPT !.launch = TRUE] = [dir[r] EXCEPT !.launch = TRUE, !.error = FALSE]
      <4>1. dir[r] \in DirType
        BY <1>3, Fields DEF CInv
      <4> HIDE DEF r
      <4> QED BY <1>7, <4>1 DEF DirType
    <3> QED BY <2>1, <3>2
  <2>2. CASE /\ dir' = [dir EXCEPT ![r].launch = TRUE, ![r].error = TRUE]
             /\ UNCHANGED tmux
    <3>1. dir' = [dir EXCEPT ![r] = [dir[r] EXCEPT !.launch = TRUE, !.error = TRUE]]
      BY <1>3, <2>2 DEF CInv, Typed
    <3> QED BY <2>2, <3>1
  <2> QED BY <2>1, <2>2 DEF LaunchLocked
<1> DEFINE d == [dir[r] EXCEPT !.launch = TRUE, !.error = error]
<1>9. d \in DirType /\ d.claimed = dir[r].claimed /\ d.setup = dir[r].setup /\ d.launch
      /\ d.error = error /\ d.exit = dir[r].exit
  <2>1. dir[r] \in DirType
    BY <1>3, Fields DEF CInv
  <2> HIDE DEF r
  <2> QED BY <1>8, <2>1 DEF DirType
<1>10. Dir(r, dir[r].claimed, d.env, dir[r].setup, d.launch, error, dir[r].exit)
  <2> HIDE DEF d, r
  <2>1. dir' = [dir EXCEPT ![r] = d]
    BY <1>8 DEF d
  <2> QED BY <1>3, <1>9, <2>1, DirIs DEF CInv
<1> HIDE DEF d
<1>11. /\ dir' \in [Runs -> DirType] /\ DOMAIN tmux' = Runs
       /\ dir'[r].claimed /\ dir'[r].setup = dir[r].setup /\ dir'[r].launch
       /\ dir'[r].error = error /\ dir'[r].exit = "none"
       /\ tmux'[r] \in {"absent", "new"} /\ (error => tmux'[r] = "absent")
       /\ \A q \in Runs \ {r} : dir'[q] = dir[q] /\ tmux'[q] = tmux[q]
  BY <1>3, <1>5, <1>7, <1>8, <1>9, <1>10 DEF CInv, Typed, Dir
<1>12. SetupOK'
  BY <1>1, <1>2, <1>3, <1>4, <1>6, <1>11, SetupOKStays
<1>13. LaunchOK'
  BY <1>1, <1>6, <1>7, <1>11 DEF CInv, LaunchOK, Live
<1>14. FenceOK' /\ Sealed
  BY <1>1, <1>5, <1>6, <1>7, <1>11 DEF FenceOK, Sealed, RecordsStep
<1> QED BY <1>1, <1>2, <1>3, <1>4, <1>5, <1>11, <1>12, <1>13, <1>14, OwnedKeeps
\* While its worker or its job is at work on a run, the fence does not stand,
\* unless all that is left of them is an orphan.
LEMMA OpenForJob ==
  ASSUME CInv, NEW r \in Runs, tmux[r] # "absent" \/ r \in leader \/ job[r] \in Live
  PROVE  /\ ~registry.stopping \/ Orphan(r)
         /\ Running /\ dir[r].launch /\ dir[r].claimed /\ dir[r].setup # "none"
<1>1. dir[r].launch /\ dir[r].claimed /\ dir[r].setup # "none" /\ Running
  BY DEF CInv, LaunchOK, DeadOK, Live
<1>2. r \in Claimed /\ Active(r)
  BY <1>1 DEF Claimed, Active
<1> QED BY <1>1, <1>2 DEF CInv, FenceOK

\* A step of a worker or a job writes no more than the record of its end.
LEMMA JobKeeps ==
  ASSUME CInv, NEW r \in Runs, ~registry.stopping, Running,
         dir' \in [Runs -> DirType], DOMAIN tmux' = Runs, DOMAIN job' = Runs,
         \A q \in Runs : dir'[q].claimed = dir[q].claimed /\ dir'[q].setup = dir[q].setup
                         /\ dir'[q].launch = dir[q].launch /\ dir'[q].error = dir[q].error,
         LaunchOK',
         UNCHANGED <<registry, instance, command, copies, inventory, stopped>>
  PROVE  CInv'
<1>1. (Typed /\ Exclusive)'
  BY DEF CInv, Typed, Exclusive
<1>2. SetupOK'
  <2>1. \A c \in Commands : command[c].remote \in Working => command[c].run \in Runs
    BY DEF CInv, Exclusive, Working
  <2> QED BY <2>1 DEF CInv, SetupOK, Claimed, Running
<1>3. (DeadOK /\ ExportOK /\ FenceOK)'
  BY DEF CInv, DeadOK, ExportOK, FenceOK, Running
<1>4. StopOK'
  BY StopStays
<1>5. SavedOK'
  BY DEF CInv, SavedOK, SavedWhenStopped, Running
<1> QED BY <1>1, <1>2, <1>3, <1>4, <1>5 DEF CInv

\* The record of an end, where the worker is in its session.
LEMMA ExitIs ==
  ASSUME CInv, NEW r \in Runs, NEW how \in {"ended", "unclean"}, Exit(r, how), tmux[r] # "absent"
  PROVE  /\ dir' \in [Runs -> DirType] /\ DOMAIN tmux' = Runs
         /\ \A q \in Runs : dir'[q].claimed = dir[q].claimed /\ dir'[q].setup = dir[q].setup
                            /\ dir'[q].launch = dir[q].launch /\ dir'[q].error = dir[q].error
         /\ dir'[r].exit = how /\ tmux'[r] = "absent" /\ dir[r].exit = "none" /\ ~dir[r].error
         /\ \A q \in Runs \ {r} : dir'[q] = dir[q] /\ tmux'[q] = tmux[q]
<1> DEFINE d == [dir[r] EXCEPT !.exit = how]
<1>1. dir' = [dir EXCEPT ![r] = d] /\ tmux' = [tmux EXCEPT ![r] = "absent"]
  BY DEF Exit
<1>2. d \in DirType /\ d.claimed = dir[r].claimed /\ d.env = dir[r].env /\ d.setup = dir[r].setup
      /\ d.launch = dir[r].launch /\ d.error = dir[r].error /\ d.exit = how
  <2>1. dir[r] \in DirType
    BY Fields DEF CInv
  <2> QED BY <2>1 DEF DirType
<1>3. Dir(r, dir[r].claimed, dir[r].env, dir[r].setup, dir[r].launch, dir[r].error, how)
  <2> HIDE DEF d
  <2> QED BY <1>1, <1>2, DirIs DEF CInv
<1> HIDE DEF d
<1>4. dir[r].exit = "none" /\ ~dir[r].error
  BY DEF CInv, LaunchOK
<1> QED BY <1>1, <1>3, <1>4 DEF CInv, Typed, Dir

\* A step of an orphan, perhaps behind the fence.
LEMMA OrphanKeeps ==
  ASSUME CInv, NEW r \in Runs, Orphan(r), dir' = dir \/ OrphanWrites(r),
         DOMAIN job' = Runs, \A q \in Runs \ {r} : job'[q] = job[q],
         UNCHANGED <<registry, tmux, leader, instance, command, copies, inventory, stopped>>
  PROVE  CInv' /\ Sealed
<1>1. Running /\ r \notin leader /\ tmux[r] = "absent" /\ dir[r].exit = "ended"
      /\ dir[r].launch /\ ~dir[r].error
  BY DEF CInv, Orphan, DeadOK, LaunchOK
<1>2. /\ Beyond
      /\ \A q \in Runs : /\ dir'[q].setup = dir[q].setup /\ dir'[q].launch = dir[q].launch
                         /\ dir'[q].error = dir[q].error /\ dir'[q].exit = dir[q].exit
                         /\ q # r => dir'[q] = dir[q]
  <2>1. CASE dir' = dir
    BY <2>1, BeyondSame DEF CInv
  <2>2. CASE OrphanWrites(r)
    <3> DEFINE d == [dir[r] EXCEPT !.late = @ + 1]
    <3>1. dir' = [dir EXCEPT ![r] = d] /\ dir[r].late < MaxLate
      BY <2>2 DEF OrphanWrites
    <3>2. dir[r] \in DirType /\ dir[r].late \in 0..MaxLate
      <4>1. dir[r] \in DirType
        BY Fields DEF CInv
      <4> QED BY <4>1 DEF DirType
    <3>3. dir[r].late + 1 \in 0..MaxLate /\ dir[r].late <= dir[r].late + 1
      BY <3>1, <3>2, ControlAssumption DEF ControlAssumption
    <3>4. d \in DirType /\ d.claimed = dir[r].claimed /\ d.env = dir[r].env /\ d.setup = dir[r].setup
          /\ d.launch = dir[r].launch /\ d.error = dir[r].error /\ d.exit = dir[r].exit
          /\ d.late = dir[r].late + 1 /\ d = [dir[r] EXCEPT !.late = d.late]
      BY <3>2, <3>3 DEF DirType
    <3> HIDE DEF d
    <3>5. Dir(r, dir[r].claimed, dir[r].env, dir[r].setup, dir[r].launch, dir[r].error, dir[r].exit)
          /\ dir'[r] = d
      <4>1. Dir(r, d.claimed, d.env, d.setup, d.launch, d.error, d.exit)
        BY <3>1, <3>4, DirIs DEF CInv
      <4>2. dir'[r] = d
        BY <3>1 DEF CInv, Typed
      <4> QED BY <3>4, <4>1, <4>2
    <3>6. \A q \in Runs : q # r => dir[q] \in DirType /\ dir'[q] = dir[q]
      BY <3>5 DEF Dir, CInv, Typed
    <3>7. Grown(dir[r], dir'[r])
      BY <3>3, <3>4, <3>5 DEF Grown
    <3> QED BY <3>5, <3>6, <3>7, GrownSame DEF Dir, Beyond
  <2> QED BY <2>1, <2>2
<1>3. /\ \A q \in Runs : /\ dir'[q].claimed = dir[q].claimed /\ dir'[q].setup = dir[q].setup
                         /\ dir'[q].launch = dir[q].launch /\ dir'[q].error = dir[q].error
                         /\ dir'[q].exit = dir[q].exit
      /\ \A q \in Runs \ {r} : dir'[q] = dir[q] /\ job'[q] = job[q]
  BY <1>2 DEF Beyond
<1>4. LaunchOK /\ SetupOK
  BY DEF CInv
<1>5. UNCHANGED <<tmux, leader, command, instance>>
  OBVIOUS
<1>6. Typed'
  BY <1>2 DEF CInv, Typed, Beyond
<1>7. Exclusive'
  BY DEF CInv, Exclusive
<1>8. Claimed' = Claimed
  BY <1>2 DEF Beyond, Claimed
<1>9. SetupOK'
  <2>1. \A c \in Commands : command[c].remote \in Working => command[c].run \in Runs
    BY DEF CInv, Exclusive, Working
  <2> QED BY <1>3, <1>4, <1>5, <1>8, <2>1 DEF SetupOK, Running, Claimed
<1>10. LaunchOK'
  BY <1>1, <1>3, <1>4, <1>5 DEF LaunchOK
<1>11. DeadOK' /\ ExportOK'
  BY <1>1, ExportStays DEF DeadOK, Running
<1>12. FenceOK'
  <2>1. r \notin Claimed \/ ~Active(r)' \/ Orphan(r)'
    <3>1. CASE job'[r] \in Live
      BY <1>1, <1>3, <1>5, <3>1 DEF Orphan
    <3>2. CASE job'[r] \notin Live
      <4>1. SetupOK /\ dir[r].setup # "none"
        BY <1>1 DEF CInv, LaunchOK
      <4>2. \A c \in Commands : command[c].run = r => command[c].remote \notin Working
        BY <4>1 DEF SetupOK
      <4> QED BY <1>1, <1>3, <1>5, <3>2, <4>1, <4>2 DEF Active, Working
    <3> QED BY <3>1, <3>2
  <2>2. \A q \in Runs \ {r} : (Active(q)' => Active(q)) /\ (Orphan(q) => Orphan(q)')
    BY <1>3, <1>5 DEF Active, Orphan
  <2> QED BY <1>8, <2>1, <2>2 DEF CInv, FenceOK, Claimed
<1>13. StopOK'
  BY <1>2, StopStays
<1>14. SavedOK'
  BY <1>1 DEF CInv, SavedOK, SavedWhenStopped, Running
<1>15. Sealed
  BY <1>2, <1>3 DEF Sealed, RecordsStep, Beyond
<1> QED BY <1>6, <1>7, <1>9, <1>10, <1>11, <1>12, <1>13, <1>14, <1>15 DEF CInv

LEMMA JobsKeep ==
  ASSUME CInv, NEW r \in Runs,
         \/ WorkerStarts(r) \/ TakeLease(r) \/ JobEnds(r) \/ LeaderEnds(r)
         \/ WorkerEnds(r) \/ WorkerTimesOut(r) \/ WorkerDies(r) \/ OrphanWrites(r)
  PROVE  CInv' /\ Sealed
<1>1. UNCHANGED <<registry, instance, command, copies, inventory, stopped>>
  BY DEF WorkerStarts, TakeLease, JobEnds, LeaderEnds, WorkerEnds, WorkerTimesOut, WorkerDies, OrphanWrites, macVars
<1>2. tmux[r] # "absent" \/ r \in leader \/ job[r] \in Live
  BY DEF WorkerStarts, TakeLease, JobEnds, LeaderEnds, WorkerEnds, WorkerTimesOut, WorkerDies, OrphanWrites, Orphan, Live
<1>3. Running /\ dir[r].launch /\ dir[r].claimed /\ dir[r].setup # "none"
      /\ (~registry.stopping \/ Orphan(r))
  BY <1>2, OpenForJob
<1>4. LaunchOK /\ DOMAIN tmux = Runs /\ DOMAIN job = Runs /\ dir \in [Runs -> DirType]
  BY DEF CInv, Typed
<1>5. ASSUME dir' = dir, DOMAIN tmux' = Runs, DOMAIN job' = Runs, LaunchOK', ~registry.stopping
      PROVE  CInv' /\ Sealed
  <2>1. CInv'
    BY <1>1, <1>3, <1>4, <1>5, JobKeeps
  <2> QED BY <1>5, <2>1 DEF Sealed, RecordsStep
<1>6. ASSUME NEW how \in {"ended", "unclean"}, Exit(r, how), tmux[r] # "absent", DOMAIN job' = Runs,
             \A q \in Runs \ {r} : job'[q] = job[q] /\ (q \in leader' <=> q \in leader),
             how = "ended" => r \notin leader'
      PROVE  CInv' /\ Sealed
  <2>1. /\ dir' \in [Runs -> DirType] /\ DOMAIN tmux' = Runs
        /\ \A q \in Runs : dir'[q].claimed = dir[q].claimed /\ dir'[q].setup = dir[q].setup
                           /\ dir'[q].launch = dir[q].launch /\ dir'[q].error = dir[q].error
        /\ dir'[r].exit = how /\ tmux'[r] = "absent" /\ dir[r].exit = "none" /\ ~dir[r].error
        /\ \A q \in Runs \ {r} : dir'[q] = dir[q] /\ tmux'[q] = tmux[q]
    BY <1>6, ExitIs
  <2>2. LaunchOK'
    BY <1>3, <1>4, <1>6, <2>1 DEF LaunchOK
  <2>3. ~registry.stopping
    BY <1>3, <1>6 DEF Orphan
  <2>4. CInv'
    BY <1>1, <1>3, <1>6, <2>1, <2>2, <2>3, JobKeeps
  <2>5. Sealed
    BY <2>1, <2>3 DEF Sealed, RecordsStep
  <2> QED BY <2>4, <2>5
<1>7. CASE WorkerStarts(r)
  <2>1. tmux[r] = "new" /\ ~registry.stopping
    BY <1>3, <1>7 DEF WorkerStarts, Orphan
  <2>2. CASE /\ job[r] = "none"
             /\ job' = [job EXCEPT ![r] = "starting"]
             /\ leader' = leader \cup {r}
             /\ tmux' = [tmux EXCEPT ![r] = "alive"]
             /\ UNCHANGED dir
    <3>1. LaunchOK'
      BY <1>3, <1>4, <2>1, <2>2 DEF LaunchOK, Live
    <3> QED BY <1>4, <1>5, <2>1, <2>2, <3>1
  <2>3. CASE Exit(r, "ended") /\ UNCHANGED <<leader, job>>
    <3>1. r \notin leader'
      BY <1>4, <2>1, <2>3 DEF LaunchOK
    <3> QED BY <1>4, <1>6, <2>1, <2>3, <3>1
  <2> QED BY <1>7, <2>2, <2>3 DEF WorkerStarts
<1>8. ASSUME job[r] \in Live, dir' = dir, tmux' = tmux, leader' = leader,
             NEW at \in {"training", "over"}, job' = [job EXCEPT ![r] = at]
      PROVE  CInv' /\ Sealed
  <2>1. CASE ~registry.stopping
    <3>1. LaunchOK'
      BY <1>3, <1>4, <1>8 DEF LaunchOK, Live
    <3> QED BY <1>4, <1>5, <1>8, <2>1, <3>1
  <2>2. CASE Orphan(r)
    BY <1>1, <1>4, <1>8, <2>2, OrphanKeeps
  <2> QED BY <1>3, <2>1, <2>2
<1>9. CASE TakeLease(r)
  <2>1. /\ job[r] = "starting" /\ dir' = dir /\ tmux' = tmux /\ leader' = leader
        /\ \/ job' = [job EXCEPT ![r] = "training"]
           \/ job' = [job EXCEPT ![r] = "over"]
    BY <1>9 DEF TakeLease
  <2> QED BY <1>8, <2>1 DEF Live
<1>10. CASE JobEnds(r)
  BY <1>8, <1>10 DEF JobEnds, JobOver
<1>11. CASE LeaderEnds(r)
  <2>1. dir' = dir /\ job' = job /\ tmux' = tmux /\ leader' = leader \ {r} /\ r \in leader
    BY <1>11 DEF LeaderEnds
  <2>2. ~registry.stopping
    BY <1>3, <2>1 DEF Orphan
  <2>3. LaunchOK'
    BY <1>3, <1>4, <2>1 DEF LaunchOK
  <2> QED BY <1>4, <1>5, <2>1, <2>2, <2>3
<1>12. CASE WorkerEnds(r)
  BY <1>4, <1>6, <1>12 DEF WorkerEnds
<1>13. CASE WorkerTimesOut(r)
  <2>1. CASE /\ Exit(r, "ended") /\ leader' = leader \ {r}
             /\ JobOver(r) \/ UNCHANGED <<job, lease>>
    <3>1. tmux[r] = "alive" /\ (job' = [job EXCEPT ![r] = "over"] \/ job' = job)
      BY <1>13, <2>1 DEF WorkerTimesOut, JobOver
    <3>2. DOMAIN job' = Runs /\ (\A q \in Runs \ {r} : job'[q] = job[q])
      BY <1>4, <3>1
    <3> QED BY <1>6, <2>1, <3>1, <3>2
  <2>2. CASE Exit(r, "unclean") /\ UNCHANGED <<leader, job, lease>>
    <3>1. tmux[r] = "alive"
      BY <1>13 DEF WorkerTimesOut
    <3> QED BY <1>4, <1>6, <2>2, <3>1
  <2> QED BY <1>13, <2>1, <2>2 DEF WorkerTimesOut
<1>14. CASE WorkerDies(r)
  <2>1. dir' = dir /\ job' = job /\ leader' = leader /\ tmux' = [tmux EXCEPT ![r] = "absent"] /\ tmux[r] # "absent"
    BY <1>14 DEF WorkerDies
  <2>2. ~registry.stopping
    BY <1>3, <2>1 DEF Orphan
  <2>3. LaunchOK'
    BY <1>3, <1>4, <2>1 DEF LaunchOK
  <2> QED BY <1>4, <1>5, <2>1, <2>2, <2>3
<1>15. CASE OrphanWrites(r)
  <2>1. Orphan(r) /\ job' = job /\ UNCHANGED <<tmux, leader>>
    BY <1>15 DEF OrphanWrites
  <2> QED BY <1>1, <1>4, <1>15, <2>1, OrphanKeeps
<1> QED BY <1>7, <1>9, <1>10, <1>11, <1>12, <1>13, <1>14, <1>15

----------------------------------------------------------------------------
(* The lease: a training process has it, or an inspection does.            *)

LeaseOK ==
  /\ \A r \in Runs : job[r] = "training" => lease = r
  /\ \A c \in Commands : command[c].remote = "inspecting" => lease = Inspector
  /\ \A c, d \in Commands : command[c].remote = "inspecting" /\ command[d].remote = "inspecting" => c = d

\* The fence is set while the inspection has the lease.
FenceStep == registry'.stopping /\ ~registry.stopping => \A r \in Runs : job'[r] # "training"

LEMMA LeaseStays ==
  ASSUME LeaseOK, UNCHANGED <<lease, job>>, registry'.stopping = registry.stopping,
         \A c \in Commands : command'[c].remote = "inspecting" => command[c].remote = "inspecting"
  PROVE  LeaseOK' /\ FenceStep
BY DEF LeaseOK, FenceStep

\* A command that goes on to something else than an inspection.
LEMMA LeaseAt ==
  ASSUME LeaseOK, NEW c \in Commands, NEW run, NEW local, NEW remote, NEW snap, NEW inv,
         Cmd(c, run, local, remote, snap, inv), remote # "inspecting" \/ remote = command[c].remote,
         UNCHANGED <<lease, job>>, registry'.stopping = registry.stopping
  PROVE  LeaseOK' /\ FenceStep
BY LeaseStays DEF Cmd

LEMMA CallLease ==
  ASSUME Typed, LeaseOK, NEW c \in Commands, UNCHANGED <<lease, job>>, registry'.stopping = registry.stopping,
         \/ Raise(c)
         \/ \E at : at # "inspecting" /\ Remotely(c, at)
         \/ \E r, local, at, snap : at # "inspecting" /\ Call(c, r, local, at, snap)
         \/ \E next : Answer(c, next) /\ DOMAIN next = CommandFields /\ next.remote # "inspecting"
  PROVE  LeaseOK' /\ FenceStep
<1>1. CASE Raise(c)
  BY <1>1, RaiseIs, LeaseAt
<1>2. ASSUME NEW at, at # "inspecting", Remotely(c, at) PROVE LeaseOK' /\ FenceStep
  BY <1>2, RemotelyIs, LeaseAt
<1>3. ASSUME NEW r, NEW local, NEW at, NEW snap, at # "inspecting", Call(c, r, local, at, snap)
      PROVE  LeaseOK' /\ FenceStep
  BY <1>3, CallIs, LeaseAt
<1>4. ASSUME NEW next, Answer(c, next), DOMAIN next = CommandFields, next.remote # "inspecting"
      PROVE  LeaseOK' /\ FenceStep
  BY <1>4, AnswerIs, LeaseAt
<1> QED BY <1>1, <1>2, <1>3, <1>4

LEMMA GoneLease ==
  ASSUME Typed, NEW how, Gone(how), registry' = registry, DOMAIN command' = Commands,
         \A d \in Commands : command'[d] = NoCommand \/ command'[d] = Survivor(command[d])
  PROVE  LeaseOK' /\ FenceStep
<1>1. \A d \in Commands : command'[d].remote = "idle"
  BY DEF Typed, CommandFields, Survivor, NoCommand
<1>2. \A r \in Runs : job'[r] # "training"
  BY DEF Gone, Live
<1> QED BY <1>1, <1>2 DEF LeaseOK, FenceStep

LEMMA AskLease ==
  ASSUME Typed, LeaseOK, NEW c \in Commands, NEW r \in Runs,
         Setup(c, r) \/ Launch(c, r) \/ Recover(c, r) \/ Stop(c, r)
  PROVE  LeaseOK' /\ FenceStep
<1>1. UNCHANGED <<lease, job, registry>>
  BY DEF Setup, Launch, Recover, Stop, remoteVars
<1>2. CASE Setup(c, r) \/ Launch(c, r) \/ Recover(c, r)
  BY <1>1, <1>2, CallLease DEF Setup, Launch, Recover
<1>3. CASE Stop(c, r)
  <2>1. CASE Call(c, r, "fence", "stop_ready", recovered[r])
    BY <1>1, <2>1, CallLease
  <2>2. CASE command' = [command EXCEPT ![c] = [NoCommand EXCEPT
               !.run = r, !.local = "verify", !.snap = recovered[r], !.inv = inventory[r]]]
    <3>1. \A d \in Commands : command'[d].remote = "inspecting" => command[d].remote = "inspecting"
      BY <2>2 DEF Typed, NoCommand
    <3> QED BY <1>1, <3>1, LeaseStays
  <2> QED BY <1>3, <2>1, <2>2 DEF Stop
<1> QED BY <1>2, <1>3

LEMMA MacLease ==
  ASSUME Typed, LeaseOK, NEW c \in Commands,
         TimeOut(c) \/ Download(c) \/ DownloadFails(c) \/ Record(c) \/ Verify(c) \/ StopInstance(c)
  PROVE  LeaseOK' /\ FenceStep
<1>1. CASE TimeOut(c)
  <2>1. \A d \in Commands : command'[d].remote = "inspecting" => command[d].remote = "inspecting"
    BY <1>1 DEF TimeOut, Typed, CommandFields
  <2> QED BY <1>1, <2>1, LeaseStays DEF TimeOut, remoteVars
<1>2. CASE Download(c) \/ DownloadFails(c) \/ Record(c)
  BY <1>2, CallLease DEF Download, DownloadFails, Record, remoteVars
<1>3. CASE Verify(c)
  <2>1. UNCHANGED <<lease, job, registry>>
    BY <1>3 DEF Verify, remoteVars
  <2>2. CASE Raise(c)
    BY <2>1, <2>2, CallLease
  <2>3. CASE command' = [command EXCEPT ![c].local = "stop"]
    <3>1. \A d \in Commands : command'[d].remote = "inspecting" => command[d].remote = "inspecting"
      BY <2>3 DEF Typed, CommandFields
    <3> QED BY <2>1, <3>1, LeaseStays
  <2> QED BY <1>3, <2>2, <2>3 DEF Verify
<1>4. CASE StopInstance(c)
  <2>1. CASE Raise(c) /\ UNCHANGED <<instance, tmux, leader, lease, job, stopped>>
    BY <1>4, <2>1, CallLease DEF StopInstance
  <2>2. CASE Gone("stopped") /\ command' = [d \in Commands |-> IF d = c THEN NoCommand ELSE Survivor(command[d])]
    <3>1. UNCHANGED registry
      BY <1>4 DEF StopInstance
    <3> QED BY <2>2, <3>1, GoneLease
  <2> QED BY <1>4, <2>1, <2>2 DEF StopInstance
<1> QED BY <1>1, <1>2, <1>3, <1>4

LEMMA RemoteLease ==
  ASSUME Typed, LeaseOK, NEW c \in Commands,
         \/ SetupClaim(c) \/ SetupRefuses(c) \/ SetupInstall(c) \/ SetupInstalled(c)
         \/ SetupIdentified(c) \/ SetupExit(c) \/ LaunchLocked(c) \/ LaunchRefused(c)
         \/ Export(c) \/ ExportChanged(c) \/ ExportRegisters(c) \/ Acknowledge(c)
         \/ Inspect(c) \/ StopReady(c)
  PROVE  LeaseOK' /\ FenceStep
<1>1. CASE SetupClaim(c) \/ SetupRefuses(c) \/ SetupInstall(c) \/ SetupInstalled(c) \/ SetupIdentified(c)
  <2>1. UNCHANGED <<lease, job, registry>>
    BY <1>1 DEF SetupClaim, SetupRefuses, SetupInstall, SetupInstalled, SetupIdentified, remoteVars
  <2>2. PICK at \in {"setup_failed", "install", "installing", "identified", "setup_ok"} : Remotely(c, at)
    BY <1>1 DEF SetupClaim, SetupRefuses, SetupInstall, SetupInstalled, SetupIdentified
  <2> QED BY <2>1, <2>2, CallLease
<1>2. CASE SetupExit(c) \/ LaunchLocked(c) \/ LaunchRefused(c) \/ ExportChanged(c)
  <2>1. UNCHANGED <<lease, job, registry>> /\ Raise(c)
    BY <1>2 DEF SetupExit, LaunchLocked, LaunchRefused, ExportChanged, remoteVars
  <2> QED BY <2>1, CallLease
<1>3. CASE Export(c)
  <2>1. UNCHANGED <<lease, job, registry>>
    BY <1>3 DEF Export, remoteVars
  <2>2. CASE Raise(c)
    BY <2>1, <2>2, CallLease
  <2>3. CASE command' = [command EXCEPT ![c].remote = "archiving", ![c].snap = dir[command[c].run]]
    <3>1. \A d \in Commands : command'[d].remote = "inspecting" => command[d].remote = "inspecting"
      BY <2>3 DEF Typed, CommandFields
    <3> QED BY <2>1, <3>1, LeaseStays
  <2> QED BY <1>3, <2>2, <2>3 DEF Export
<1>4. CASE ExportRegisters(c)
  <2> DEFINE next == [command[c] EXCEPT !.local = "download", !.remote = "idle"]
  <2>1. UNCHANGED <<lease, job>> /\ registry'.stopping = registry.stopping /\ Answer(c, next)
    BY <1>4 DEF ExportRegisters, Typed
  <2>2. DOMAIN next = CommandFields /\ next.remote = "idle"
    BY DEF Typed, CommandFields
  <2> HIDE DEF next
  <2> QED BY <2>1, <2>2, CallLease
<1>5. CASE Acknowledge(c)
  <2> DEFINE next == [command[c] EXCEPT !.local = "record", !.remote = "idle"]
  <2>1. UNCHANGED <<lease, job>> /\ registry'.stopping = registry.stopping /\ (Answer(c, next) \/ Raise(c))
    BY <1>5 DEF Acknowledge, Typed
  <2>2. DOMAIN next = CommandFields /\ next.remote = "idle"
    BY DEF Typed, CommandFields
  <2> HIDE DEF next
  <2> QED BY <2>1, <2>2, CallLease
<1>6. CASE Inspect(c)
  <2>1. UNCHANGED <<job, registry>> /\ \A d \in Commands : command[d].remote # "inspecting"
    BY <1>6 DEF Inspect, Locked
  <2>2. CASE lease = Free /\ lease' = Inspector /\ Remotely(c, "inspecting")
    <3>1. \A d \in Commands : command'[d].remote = "inspecting" => d = c
      BY <2>1, <2>2, RemotelyIs DEF Cmd
    <3>2. \A r \in Runs : job[r] # "training"
      BY <2>2, ControlAssumption DEF LeaseOK, ControlAssumption
    <3> QED BY <2>1, <2>2, <3>1, <3>2 DEF LeaseOK, FenceStep
  <2>3. CASE Raise(c) /\ UNCHANGED lease
    BY <2>1, <2>3, CallLease
  <2> QED BY <1>6, <2>2, <2>3 DEF Inspect
<1>7. CASE StopReady(c)
  <2> DEFINE next == [command[c] EXCEPT !.local = "verify", !.remote = "idle", !.inv = registry.recovered]
  <2>1. command[c].remote = "inspecting" /\ lease' = Free /\ UNCHANGED job /\ (Answer(c, next) \/ Raise(c))
    BY <1>7 DEF StopReady
  <2>2. \A r \in Runs : job[r] # "training"
    BY <2>1, ControlAssumption DEF LeaseOK, ControlAssumption
  <2>3. \A d \in Commands : command'[d].remote # "inspecting"
    <3>1. DOMAIN next = CommandFields /\ next.remote = "idle"
      BY DEF Typed, CommandFields
    <3> HIDE DEF next
    <3>2. command'[c].remote = "idle" /\ \A d \in Commands \ {c} : command'[d] = command[d]
      BY <2>1, <3>1, RaiseIs, AnswerIs DEF Cmd
    <3> QED BY <2>1, <3>2 DEF LeaseOK
  <2> QED BY <2>1, <2>2, <2>3 DEF LeaseOK, FenceStep
<1> QED BY <1>1, <1>2, <1>3, <1>4, <1>5, <1>6, <1>7

LEMMA JobsLease ==
  ASSUME Typed, LeaseOK, NEW r \in Runs,
         \/ WorkerStarts(r) \/ TakeLease(r) \/ JobEnds(r) \/ LeaderEnds(r)
         \/ WorkerEnds(r) \/ WorkerTimesOut(r) \/ WorkerDies(r) \/ OrphanWrites(r)
  PROVE  LeaseOK' /\ FenceStep
<1>1. UNCHANGED <<registry, command>> /\ DOMAIN job = Runs
  BY DEF WorkerStarts, TakeLease, JobEnds, LeaderEnds, WorkerEnds, WorkerTimesOut, WorkerDies, OrphanWrites, Typed
<1>2. CASE UNCHANGED <<lease, job>>
  BY <1>1, <1>2, LeaseStays
<1>3. CASE lease' = lease /\ \E at \in {"starting", "over"} : job' = [job EXCEPT ![r] = at]
  BY <1>1, <1>3 DEF LeaseOK, FenceStep
<1>4. CASE JobOver(r)
  <2>1. job' = [job EXCEPT ![r] = "over"] /\ lease' = IF lease = r THEN Free ELSE lease
    BY <1>4 DEF JobOver
  <2>2. \A q \in Runs : job'[q] = "training" => q # r /\ lease = q
    BY <1>1, <2>1 DEF LeaseOK
  <2>3. \A c \in Commands : command[c].remote = "inspecting" => lease = Inspector /\ lease # r
    BY ControlAssumption DEF LeaseOK, ControlAssumption
  <2> QED BY <1>1, <2>1, <2>2, <2>3 DEF LeaseOK, FenceStep
<1>5. CASE lease = Free /\ lease' = r /\ job' = [job EXCEPT ![r] = "training"]
  <2>1. \A q \in Runs : job[q] # "training"
    BY <1>5, ControlAssumption DEF LeaseOK, ControlAssumption
  <2>2. \A c \in Commands : command[c].remote # "inspecting"
    BY <1>5, ControlAssumption DEF LeaseOK, ControlAssumption
  <2> QED BY <1>1, <1>5, <2>1, <2>2 DEF LeaseOK, FenceStep
<1> QED BY <1>2, <1>3, <1>4, <1>5 DEF WorkerStarts, TakeLease, JobEnds, LeaderEnds, WorkerEnds,
           WorkerTimesOut, WorkerDies, OrphanWrites

----------------------------------------------------------------------------
(* The invariant, and what follows from it.                                *)

LEMMA InitInv == Init => CInv
<1> SUFFICES ASSUME Init PROVE CInv
  OBVIOUS
<1>1. /\ dir = [r \in Runs |-> Nothing]
      /\ registry = [exported |-> NoSnapshots, recovered |-> NoSnapshots, stopping |-> FALSE]
      /\ tmux = [r \in Runs |-> "absent"] /\ leader = {} /\ job = [r \in Runs |-> "none"]
      /\ instance = "running" /\ command = [c \in Commands |-> NoCommand]
      /\ copies = [r \in Runs |-> {}] /\ inventory = [r \in Runs |-> NoSnapshots] /\ stopped = {}
  BY DEF Init
<1>2. /\ Nothing \in DirType /\ ~Nothing.claimed /\ Nothing.setup = "none" /\ ~Nothing.launch
      /\ ~Nothing.error /\ Nothing.exit = "none"
  BY ControlAssumption DEF ControlAssumption, Nothing, DirType
<1>3. \A c \in Commands : /\ DOMAIN command[c] = CommandFields
                          /\ command[c].local = "idle" /\ command[c].remote = "idle"
  BY <1>1 DEF NoCommand, CommandFields
<1>4. \A r \in Runs : NoSnapshots[r] = None
  BY DEF NoSnapshots
<1>5. Typed
  BY <1>1, <1>2, <1>3 DEF Typed, NoSnapshots
<1>6. Exclusive
  BY <1>3 DEF Exclusive, Answered, Fencing, Owned, SettingUp
<1>7. SetupOK /\ LaunchOK /\ DeadOK
  BY <1>1, <1>2, <1>3 DEF SetupOK, LaunchOK, DeadOK, Working, Running, Claimed, Live
<1>8. ExportOK /\ FenceOK
  BY <1>1, <1>3, <1>4 DEF ExportOK, FenceOK, Ends
<1>9. StopOK /\ SavedOK
  BY <1>1, <1>3 DEF StopOK, SavedOK, SavedWhenStopped, Running
<1> QED BY <1>5, <1>6, <1>7, <1>8, <1>9 DEF CInv

LEMMA StepInv == ASSUME ~Unread, CInv, [Next]_vars PROVE CInv' /\ Sealed
<1>1. dir' = dir => Sealed
  BY DEF Sealed, RecordsStep
<1>2. ASSUME NEW c \in Commands, NEW r \in Runs, Setup(c, r) \/ Launch(c, r) \/ Recover(c, r) \/ Stop(c, r)
      PROVE  CInv' /\ Sealed
  <2>1. dir' = dir
    BY <1>2 DEF Setup, Launch, Recover, Stop, remoteVars
  <2> QED BY <1>1, <1>2, <2>1, BeginKeeps, RecoverKeeps, StopKeeps
<1>3. ASSUME NEW c \in Commands,
             \/ TimeOut(c) \/ Download(c) \/ DownloadFails(c) \/ Record(c)
             \/ Verify(c) \/ StopInstance(c)
      PROVE  CInv' /\ Sealed
  <2>1. dir' = dir
    BY <1>3 DEF TimeOut, Download, DownloadFails, Record, Verify, StopInstance, remoteVars
  <2> QED BY <1>1, <1>3, <2>1, TimeOutKeeps, DownloadKeeps, EndsKeep, VerifyKeeps, StopInstanceKeeps
<1>4. ASSUME NEW c \in Commands,
             \/ SetupRefuses(c) \/ SetupInstall(c) \/ SetupInstalled(c) \/ LaunchRefused(c)
             \/ Export(c) \/ ExportChanged(c) \/ ExportRegisters(c) \/ Acknowledge(c)
             \/ Inspect(c) \/ StopReady(c)
      PROVE  CInv' /\ Sealed
  <2>1. dir' = dir
    BY <1>4 DEF SetupRefuses, SetupInstall, SetupInstalled, LaunchRefused, Export, ExportChanged,
                ExportRegisters, Acknowledge, Inspect, StopReady, remoteVars
  <2> QED BY <1>1, <1>4, <2>1, SetupMovesKeep, EndsKeep, ExportKeeps, ExportRegistersKeeps,
             AcknowledgeKeeps, InspectKeeps, StopReadyKeeps
<1>5. ASSUME NEW c \in Commands, SetupClaim(c) \/ SetupIdentified(c) \/ SetupExit(c) \/ LaunchLocked(c)
      PROVE  CInv' /\ Sealed
  BY <1>5, SetupClaimKeeps, SetupIdentifiedKeeps, SetupExitKeeps, LaunchLockedKeeps
<1>6. CASE Jobs
  BY <1>6, JobsKeep DEF Jobs
<1>7. CASE Misfortune
  <2>1. dir' = dir
    BY <1>7 DEF Misfortune, Lose, Damage, remoteVars
  <2> QED BY <1>1, <1>7, <2>1, LoseKeeps, DamageKeeps DEF Misfortune
<1>8. CASE UNCHANGED vars
  <2>1. UNCHANGED <<dir, registry, tmux, leader, job, instance, command, copies, inventory, stopped>>
    BY <1>8 DEF vars, remoteVars, macVars
  <2>2. (Typed /\ Exclusive /\ SetupOK /\ LaunchOK)'
    BY <2>1 DEF CInv, Typed, Exclusive, SetupOK, LaunchOK, Claimed, Running
  <2>3. (DeadOK /\ ExportOK /\ FenceOK)'
    BY <2>1 DEF CInv, DeadOK, ExportOK, FenceOK, Active, Orphan, Claimed, Running
  <2>4. (StopOK /\ SavedOK)'
    BY <2>1, StopStays, SavedStays
  <2> QED BY <1>1, <2>1, <2>2, <2>3, <2>4 DEF CInv
<1> QED BY <1>2, <1>3, <1>4, <1>5, <1>6, <1>7, <1>8 DEF Next, Ask, Mac, Remote

LEMMA StepLease == ASSUME CInv, LeaseOK, [Next]_vars PROVE LeaseOK' /\ FenceStep
<1>1. Typed
  BY DEF CInv
<1>2. CASE Ask
  BY <1>1, <1>2, AskLease DEF Ask
<1>3. CASE Mac
  BY <1>1, <1>3, MacLease DEF Mac
<1>4. CASE Remote
  BY <1>1, <1>4, RemoteLease DEF Remote
<1>5. CASE Jobs
  BY <1>1, <1>5, JobsLease DEF Jobs
<1>6. CASE Lose
  <2>1. /\ Gone("lost") /\ registry' = registry
        /\ command' = [c \in Commands |-> Survivor(command[c])]
    BY <1>6 DEF Lose
  <2> QED BY <1>1, <2>1, GoneLease
<1>7. CASE \E r \in Runs : Damage(r)
  BY <1>7, LeaseStays DEF Damage, remoteVars
<1>8. CASE UNCHANGED vars
  BY <1>8, LeaseStays DEF vars, remoteVars
<1> QED BY <1>2, <1>3, <1>4, <1>5, <1>6, <1>7, <1>8 DEF Next, Misfortune

\* Nothing that still runs is exported: what the registry calls the export of a
\* run has the record of an end, and past it no one is at work but, perhaps, a
\* training process that the worker of the run did not wait for.
THEOREM ExportsAreOver == ASSUME ~Unread PROVE Spec => []OnlyTerminalExported
<1>1. CInv => OnlyTerminalExported
  <2> SUFFICES ASSUME CInv, NEW r \in Claimed, registry.exported[r] = dir[r]
               PROVE  ~Active(r) \/ Orphan(r)
    BY DEF OnlyTerminalExported
  <2>1. r \in Runs /\ dir[r].claimed
    BY DEF Claimed
  <2>2. dir[r] # None
    BY <2>1, Fields DEF CInv
  <2>3. Terminal(dir[r])
    BY <2>1, <2>2 DEF CInv, ExportOK, Ends
  <2>4. tmux[r] = "absent"
    <3>1. CASE dir[r].launch
      BY <2>1, <2>3, <3>1 DEF CInv, LaunchOK, Terminal
    <3>2. CASE ~dir[r].launch
      BY <2>1, <3>2 DEF CInv, LaunchOK
    <3> QED BY <3>1, <3>2
  <2> QED BY <2>1, <2>3, <2>4, TerminalIsOver
<1> QED BY <1>1, InitInv, StepInv, PTL DEF Spec

\* Once the fence stands nothing is at work on any run and no directory is written
\* again, whatever calls of before are still to come in, but by a training process
\* that outlived the end of its run; and none has the GPU when the fence is set.
THEOREM NothingBehindTheFence == ASSUME ~Unread PROVE Spec => FenceHolds
<1>1. Init => LeaseOK
  BY DEF Init, LeaseOK, NoCommand
<1>2. CInv /\ LeaseOK /\ [Next]_vars =>
        [/\ registry.stopping => \A r \in Runs :
              /\ r \in Claimed /\ Active(r) => Orphan(r)
              /\ dir'[r] # dir[r] => Orphan(r) /\ Grown(dir[r], dir'[r])
         /\ registry'.stopping /\ ~registry.stopping => \A r \in Runs : job'[r] # "training"]_vars
  BY StepInv, StepLease DEF CInv, FenceOK, Sealed, FenceStep
<1> QED BY <1>1, <1>2, InitInv, StepInv, StepLease, PTL DEF Spec, FenceHolds

\* An instance stops with a verified copy of every run on the Mac, as the run was
\* at the end but for what an orphan has added; and so it is, when it is found gone
\* and called stopped.
THEOREM EverythingSaved == ASSUME ~Unread PROVE Spec => []SavedWhenStopped
<1>1. CInv => SavedWhenStopped
  BY DEF CInv, SavedOK
<1> QED BY <1>1, InitInv, StepInv, PTL DEF Spec

\* A record of an end stands for good.
THEOREM EndsAreRecordedOnce == ASSUME ~Unread PROVE Spec => RecordsAreFinal
<1>1. CInv /\ [Next]_vars => [RecordsStep]_vars
  BY StepInv DEF Sealed
<1> QED BY <1>1, InitInv, StepInv, PTL DEF Spec, RecordsAreFinal, RecordsStep
=============================================================================
