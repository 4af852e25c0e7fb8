--------------------------- MODULE ServiceProofs ---------------------------
(***************************************************************************)
(* Machine-checked proofs about Service, for every number of records,      *)
(* queue places and generations.                                           *)
(*                                                                         *)
(* The argument: every change a handler or the scheduler makes to the      *)
(* records while it holds the lock is built from Poll, StopLocked,         *)
(* BeginStop, Finish and CancelBoard.  Each of them keeps BoardOK and      *)
(* moves a record only along StatusStep; the control invariant says where  *)
(* the scheduler can be while a job is active.  At the end, while the disk *)
(* takes the packets to the worker, every step is a step of Requests or    *)
(* leaves the records alone, and a terminal record is final.               *)
(***************************************************************************)
EXTENDS ServiceRefinement, FiniteSetTheorems, TLAPS

Open == {"running", "stopping"}

\* How a record ends that was never dispatched.
Unstarted == {"cancelled", "timed_out", "infrastructure_error"}

\* One consistent set of records, for the current active job.
BoardOK(b) ==
  /\ b \in BoardType
  /\ \A j \in Jobs : b.status[j] = "absent" <=> j > records
  /\ \A j \in Jobs : j \in b.pending <=> b.status[j] = "queued"
  /\ b.stopping => b.pending = {} /\ ~b.loaded
  /\ \A j \in Jobs : b.status[j] \in Open => j = active
  /\ active \in Jobs => b.status[active] \notin {"absent", "queued"}

\* How a record moves when the lock holder only polls, stops or cancels.
StatusStep(b, c) ==
  /\ b.stopping => c.stopping
  /\ c.pending \subseteq b.pending
  /\ \A j \in Jobs :
       \/ c.status[j] = b.status[j]
       \/ b.status[j] = "queued" /\ c.status[j] \in Unstarted
       \/ j = active /\ b.status[j] \notin Terminal /\ c.status[j] = "stopping"

Closing == {"close", "reap", "closed"}
Performing == {"request", "collect", "decide", "reaped", "finish"}

\* Where the scheduler can be while a job is active, a worker is owned, or a
\* cleanup is unconfirmed.
ControlOK ==
  /\ active # None =>
       \/ pc \in Performing \cup {"poll", "check", "look", "except", "finally",
                                  "last", "summary", "done"}
       \/ pc \in Closing /\ ret \in {"reaped", "last"}
       \/ pc = "top" /\ board.stopping
  /\ pc \in Performing \/ (pc \in Closing /\ ret = "reaped") => active # None
  /\ pc \in Closing => ret # "none"
  /\ pc = "prepare" => ~owned /\ generations < MaxGenerations
  /\ pc \in {"reap", "closed"} => owned
  /\ pc = "closed" /\ ~unconfirmed => epoch \notin live
  /\ pc \in {"reaped", "last", "start_failed", "dead"} /\ ~unconfirmed => ~owned
  /\ pc \in {"finally", "last", "summary", "done"} \/ (pc \in Closing /\ ret = "last")
       => board.stopping
  /\ pc \in {"summary", "done"} /\ ~unconfirmed => ~owned /\ active = None
  /\ pc = "reap" => ~unconfirmed
  /\ pc = "close" => ~unconfirmed
  /\ unconfirmed => pc \in {"closed", "start_failed", "dead", "dispatch", "reaped",
                            "last", "top", "finally", "summary", "done"}
  /\ pc \in {"decide", "finish"} \/ (pc \in Closing /\ ret = "reaped")
       \/ (pc = "reaped" /\ ~unconfirmed) => outcome # "none"
  /\ active # None /\ pc \in {"poll", "check", "look", "collect"} => calls > 0
  /\ ipc.answered > 0 => ipc.result # "none"
  /\ owned \/ records > 0 => epoch > 0

\* What the records say about workers and their cleanup.
RecordsOK ==
  /\ \A j \in Jobs :
       /\ ranIn[j] = None <=> cleanup[j] = "not_started"
       /\ board.status[j] \in {"absent", "queued"} => ranIn[j] = None
       /\ board.status[j] \in Terminal \ {"completed"} => cleanup[j] \in {"not_started", "reaped"}
       /\ cleanup[j] = "reaped" => ranIn[j] \notin live
       /\ ranIn[j] <= epoch
  /\ active \in Jobs => ranIn[active] # None

\* What the scheduler has done with the active record at each of its steps.
PhaseOK ==
  /\ \A j \in Jobs : board.status[j] = "running" =>
       pc \in {"request", "poll", "check", "look", "collect", "decide", "finish"}
  /\ pc = "finish" /\ outcome # "completed" =>
       cleanup[active] = "reaped" /\ board.status[active] # "running"
  /\ pc = "except" /\ active \in Jobs => board.status[active] \in Terminal

IInv == TypeOK /\ BoardOK(board) /\ OneProcess /\ ControlOK /\ RecordsOK /\ PhaseOK
          /\ UnconfirmedShown

----------------------------------------------------------------------------
(* The transformers.                                                       *)

WhySet == {"none", "signal", "service_budget_exhausted", "worker_start_failed",
           "worker_exited", "cleanup_unconfirmed", "scheduler_error", "http_stopped"}

\* Queued records that end and leave the queue together.
LEMMA LeaveOK ==
  ASSUME NEW b, BoardOK(b), NEW S, S \subseteq b.pending,
         NEW st \in Unstarted
  PROVE  /\ BoardOK(Leave(b, S, st)) /\ StatusStep(b, Leave(b, S, st))
         /\ Leave(b, S, st).stopping = b.stopping
         /\ Leave(b, S, st).pending = b.pending \ S
<1> DEFINE c == Leave(b, S, st)
<1>1. /\ c.status = [j \in Jobs |-> IF j \in S THEN st ELSE b.status[j]]
      /\ c.pending = b.pending \ S /\ c.token = b.token
      /\ c.stopping = b.stopping /\ c.loaded = b.loaded /\ c.why = b.why
  BY DEF Leave, BoardOK, BoardType
<1>2. c \in BoardType
  BY DEF Leave, BoardOK, BoardType, Status, Terminal, Outcomes, Unstarted
<1> HIDE DEF c
<1>3. BoardOK(c)
  BY <1>1, <1>2 DEF BoardOK, BoardType, Unstarted, Open
<1>4. StatusStep(b, c)
  BY <1>1 DEF StatusStep, BoardOK, BoardType
<1>5. QED
  BY <1>1, <1>3, <1>4 DEF c

\* The active record starts stopping.
LEMMA BeginStopOK ==
  ASSUME NEW b, BoardOK(b), active \in Jobs
  PROVE  /\ BoardOK(BeginStop(b, active)) /\ StatusStep(b, BeginStop(b, active))
         /\ BeginStop(b, active).stopping = b.stopping
<1>1. CASE b.status[active] \in Terminal \cup {"stopping"}
  BY <1>1 DEF BeginStop, StatusStep
<1>2. CASE b.status[active] \notin Terminal \cup {"stopping"}
  <2> DEFINE c == [b EXCEPT !.token = @ \cup {active}, !.status[active] = "stopping"]
  <2>1. /\ c.status = [b.status EXCEPT ![active] = "stopping"]
        /\ c.pending = b.pending /\ c.token = b.token \cup {active}
        /\ c.stopping = b.stopping /\ c.loaded = b.loaded /\ c.why = b.why
    BY DEF BoardOK, BoardType
  <2>2. c \in BoardType
    BY DEF BoardOK, BoardType, Status
  <2> HIDE DEF c
  <2>3. BoardOK(c) /\ StatusStep(b, c)
    BY <1>2, <2>1, <2>2 DEF BoardOK, BoardType, Open, StatusStep
  <2>4. c = BeginStop(b, active)
    BY <1>2 DEF BeginStop, c
  <2>5. QED
    BY <2>1, <2>3, <2>4
<1>3. QED
  BY <1>1, <1>2

LEMMA StepTrans ==
  ASSUME NEW a, NEW b, NEW c, StatusStep(a, b), StatusStep(b, c),
         BoardOK(a), BoardOK(b), BoardOK(c)
  PROVE  StatusStep(a, c)
BY DEF StatusStep, Terminal, Outcomes, Unstarted, BoardOK, BoardType

LEMMA StepKeeps ==
  ASSUME NEW b, NEW c, StatusStep(b, c), NEW j \in Jobs
  PROVE  /\ c.status[j] = "running" => b.status[j] = "running"
         /\ b.status[j] \in Terminal => c.status[j] = b.status[j]
BY DEF StatusStep, Unstarted, Terminal, Outcomes

LEMMA StopLockedOK ==
  ASSUME NEW b, BoardOK(b), NEW why \in WhySet, active \in Jobs \cup {None}
  PROVE  /\ BoardOK(StopLocked(b, why)) /\ StatusStep(b, StopLocked(b, why))
         /\ StopLocked(b, why).stopping
<1>1. CASE b.stopping
  BY <1>1 DEF StopLocked, StatusStep
<1>2. CASE ~b.stopping
  <2> DEFINE l == Leave(b, b.pending, "cancelled")
             s == [l EXCEPT !.stopping = TRUE, !.loaded = FALSE, !.why = why]
  <2>1. BoardOK(l) /\ StatusStep(b, l) /\ l.pending = {}
    BY LeaveOK DEF Unstarted
  <2> HIDE DEF l
  <2>2. /\ s.status = l.status /\ s.pending = l.pending /\ s.token = l.token
        /\ s.stopping = TRUE /\ s.loaded = FALSE /\ s.why = why
    BY <2>1 DEF BoardOK, BoardType
  <2>3. s \in BoardType
    BY <2>1 DEF BoardOK, BoardType, WhySet
  <2>4. StopLocked(b, why) = IF active = None THEN s ELSE BeginStop(s, active)
    BY <1>2 DEF StopLocked, l, s
  <2> HIDE DEF s
  <2>5. BoardOK(s) /\ StatusStep(b, s)
    BY <1>2, <2>1, <2>2, <2>3 DEF BoardOK, StatusStep
  <2>6. CASE active = None
    BY <2>2, <2>4, <2>5, <2>6
  <2>7. CASE active \in Jobs
    <3> active # None
      BY <2>7, ServiceAssumption DEF Jobs, None
    <3>1. BoardOK(BeginStop(s, active)) /\ StatusStep(s, BeginStop(s, active))
          /\ BeginStop(s, active).stopping
      BY <2>2, <2>5, <2>7, BeginStopOK
    <3>2. QED
      BY <2>4, <2>5, <3>1, StepTrans
  <2>8. QED
    BY <2>6, <2>7
<1>3. QED
  BY <1>1, <1>2 DEF BoardOK, BoardType

LEMMA PollOK ==
  ASSUME NEW b, BoardOK(b), active \in Jobs \cup {None}
  PROVE  BoardOK(Poll(b)) /\ StatusStep(b, Poll(b))
<1> DEFINE w == IF signal THEN "signal" ELSE "service_budget_exhausted"
           s == IF signal \/ over THEN StopLocked(b, w) ELSE b
<1>1. w \in WhySet
  BY DEF WhySet
<1> HIDE DEF w
<1>2. BoardOK(s) /\ StatusStep(b, s)
  BY <1>1, StopLockedOK DEF StatusStep
<1>3. Poll(b) = Leave(s, s.pending \cap late, "timed_out")
  BY DEF Poll, w
<1> HIDE DEF s
<1>4. BoardOK(Poll(b)) /\ StatusStep(s, Poll(b))
  <2>1. s.pending \cap late \subseteq s.pending /\ "timed_out" \in Unstarted
    BY DEF Unstarted
  <2>2. QED
    BY <1>2, <1>3, <2>1, LeaveOK
<1>5. QED
  BY <1>2, <1>4, StepTrans

LEMMA CancelBoardOK ==
  ASSUME NEW b, BoardOK(b), NEW j \in Jobs
  PROVE  BoardOK(CancelBoard(b, j)) /\ StatusStep(b, CancelBoard(b, j))
<1>1. CASE b.status[j] = "queued"
  <2>1. {j} \subseteq b.pending
    BY <1>1 DEF BoardOK
  <2>2. QED
    BY <1>1, <2>1, LeaveOK DEF CancelBoard, Unstarted
<1>2. CASE b.status[j] = "running"
  <2>1. j = active
    BY <1>2 DEF BoardOK, Open
  <2>2. QED
    BY <1>2, <2>1, BeginStopOK DEF CancelBoard
<1>3. CASE b.status[j] \notin {"queued", "running"}
  BY <1>3 DEF CancelBoard, StatusStep
<1>4. QED
  BY <1>1, <1>2, <1>3

\* The steps that poll, stop or cancel, and change no other record.
LEMMA BoardMoves ==
  ASSUME IInv,
         \/ Top \/ PollWait \/ Spawn \/ SpawnFails \/ CheckReady \/ StartFailed
         \/ WorkerExited \/ Decide \/ Except \/ Close
         \/ Read \/ HttpStop \/ \E j \in Jobs : Cancel(j)
  PROVE  /\ BoardOK(board') /\ StatusStep(board, board')
         /\ StartFailed \/ WorkerExited \/ Except => board'.stopping
<1> BoardOK(board) /\ active \in Jobs \cup {None}
  BY DEF IInv, TypeOK
<1>1. BoardOK(Poll(board)) /\ StatusStep(board, Poll(board))
  BY PollOK
<1>2. CASE Top \/ PollWait \/ Spawn \/ SpawnFails \/ Read
  BY <1>1, <1>2 DEF Top, PollWait, Spawn, SpawnFails, StartFailed, WorkerExited, Except, Read,
                    handlerFrame, schedVars
<1>3. CASE CheckReady \/ Close
  <2>1. \/ board' = board
        \/ board' = [board EXCEPT !.loaded = FALSE]
        \/ ~board.stopping /\ board' = [board EXCEPT !.loaded = TRUE]
    BY <1>3 DEF CheckReady, Close, WorkerReady
  <2>1a. /\ BoardOK(board') /\ board'.status = board.status
         /\ board'.stopping = board.stopping /\ board'.pending = board.pending
    BY <2>1 DEF BoardOK, BoardType
  <2>2. QED
    BY <1>3, <2>1a DEF StatusStep, CheckReady, Close, StartFailed, WorkerExited, Except
<1>4. CASE StartFailed
  <2> DEFINE l == Leave(board, board.pending, "infrastructure_error")
  <2>1. BoardOK(l) /\ StatusStep(board, l)
    BY LeaveOK DEF Unstarted
  <2> HIDE DEF l
  <2>2. CASE board.stopping
    BY <1>4, <2>2 DEF StartFailed, StatusStep
  <2>3. CASE ~board.stopping
    <3>1. board' = StopLocked(l, "worker_start_failed")
      BY <1>4, <2>3 DEF StartFailed, l
    <3>2. QED
      BY <2>1, <3>1, StopLockedOK, StepTrans DEF WhySet
  <2>4. QED
    BY <2>2, <2>3
<1>5. CASE WorkerExited
  BY <1>5, StopLockedOK DEF WorkerExited, WhySet
<1>6. CASE Decide
  <2> DEFINE b == Poll(board)
  <2>1. active \in Jobs
    BY <1>6 DEF Decide, IInv, ControlOK, Performing
  <2> HIDE DEF b
  <2>2. board' = b \/ board' = BeginStop(b, active)
    BY <1>6 DEF Decide, b
  <2>3. BoardOK(board') /\ StatusStep(board, board')
    BY <1>1, <2>1, <2>2, BeginStopOK, StepTrans DEF b
  <2>4. QED
    BY <1>6, <2>3 DEF Decide, StartFailed, WorkerExited, Except
<1>7. CASE Except
  <2> DEFINE c == StopLocked(board, "scheduler_error")
  <2>1. BoardOK(c) /\ StatusStep(board, c) /\ c.stopping
    BY StopLockedOK DEF WhySet
  <2>2. board' = [c EXCEPT !.why = "scheduler_error"]
    BY <1>7 DEF Except
  <2> HIDE DEF c
  <2>3. QED
    BY <2>1, <2>2 DEF BoardOK, BoardType, StatusStep
<1>8. CASE HttpStop
  <2> DEFINE w == IF signal THEN "signal" ELSE "http_stopped"
  <2>1. w \in WhySet
    BY DEF WhySet
  <2>2. board' = StopLocked(board, w)
    BY <1>8 DEF HttpStop
  <2> HIDE DEF w
  <2>3. QED
    BY <2>1, <2>2, StopLockedOK
<1>9. ASSUME NEW j \in Jobs, Cancel(j)
      PROVE  /\ BoardOK(board') /\ StatusStep(board, board')
             /\ ~StartFailed /\ ~WorkerExited /\ ~Except
  BY <1>1, <1>9, CancelBoardOK, StepTrans
     DEF Cancel, handlerFrame, schedVars, StartFailed, WorkerExited, Except
<1>10. QED
  BY <1>2, <1>3, <1>4, <1>5, <1>6, <1>7, <1>8, <1>9

----------------------------------------------------------------------------
(* What each kind of step has to show.                                     *)

\* A step of the worker touches the process, its files and the history only.
LEMMA WorkerStep ==
  ASSUME IInv,
         UNCHANGED <<board, cleanup, ranIn, slot, records, active, generations, epoch, calls,
                     owned, unconfirmed, pc, ret, got, outcome, signal, over, late, startLate, http>>,
         live' \subseteq live, child' \in ChildType, ipc' \in IpcType,
         runs' \in [Jobs -> Nat], ipc'.answered > 0 => ipc'.result # "none"
  PROVE  IInv'
<1> TypeOK /\ BoardOK(board) /\ OneProcess /\ ControlOK /\ RecordsOK /\ PhaseOK /\ UnconfirmedShown
  BY DEF IInv
<1> None \notin Jobs
  BY DEF None, Jobs
<1>2. TypeOK'
  BY DEF TypeOK, SchedType
<1>3. BoardOK(board)'
  BY DEF BoardOK
<1>4. OneProcess'
  BY DEF OneProcess
<1>5. UnconfirmedShown'
  BY DEF UnconfirmedShown
<1>6. ControlOK'
  BY DEF ControlOK
<1>7. RecordsOK'
  BY DEF RecordsOK
<1>8. PhaseOK'
  BY DEF PhaseOK
<1>9. QED
  BY <1>2, <1>3, <1>4, <1>5, <1>6, <1>7, <1>8 DEF IInv

\* A step of a clock, of a signal or of the HTTP thread's join.
LEMMA ClockStep ==
  ASSUME IInv,
         UNCHANGED <<board, cleanup, ranIn, slot, records, active, generations, epoch, calls,
                     owned, unconfirmed, pc, ret, got, outcome, live, child, ipc, runs>>,
         signal' \in BOOLEAN, over' \in BOOLEAN, startLate' \in BOOLEAN, late' \subseteq Jobs,
         http' \in {"serving", "joining", "returned", "raised"}
  PROVE  IInv'
<1> TypeOK /\ BoardOK(board) /\ OneProcess /\ ControlOK /\ RecordsOK /\ PhaseOK /\ UnconfirmedShown
  BY DEF IInv
<1> None \notin Jobs
  BY DEF None, Jobs
<1>2. TypeOK'
  BY DEF TypeOK, SchedType
<1>3. BoardOK(board)'
  BY DEF BoardOK
<1>4. OneProcess'
  BY DEF OneProcess
<1>5. UnconfirmedShown'
  BY DEF UnconfirmedShown
<1>6. ControlOK'
  BY DEF ControlOK
<1>7. RecordsOK'
  BY DEF RecordsOK
<1>8. PhaseOK'
  BY DEF PhaseOK
<1>9. QED
  BY <1>2, <1>3, <1>4, <1>5, <1>6, <1>7, <1>8 DEF IInv

\* A handler that only polls, stops or cancels.
LEMMA RecordStep ==
  ASSUME IInv, BoardOK(board'), StatusStep(board, board'),
         UNCHANGED <<cleanup, ranIn, slot, records, active, generations, epoch, calls, owned,
                     unconfirmed, pc, ret, got, outcome, live, child, ipc, runs, signal, over,
                     late, startLate>>,
         http' \in {"serving", "joining", "returned", "raised"}
  PROVE  IInv'
<1> TypeOK /\ BoardOK(board) /\ OneProcess /\ ControlOK /\ RecordsOK /\ PhaseOK /\ UnconfirmedShown
  BY DEF IInv
<1> None \notin Jobs
  BY DEF None, Jobs
<1>2. TypeOK'
  BY DEF TypeOK, SchedType, BoardOK
<1>3. BoardOK(board)'
  BY DEF BoardOK
<1>4. OneProcess'
  BY DEF OneProcess
<1>5. UnconfirmedShown'
  BY DEF UnconfirmedShown, StatusStep, ControlOK, TypeOK, Terminal, Outcomes, Unstarted
<1>6. ControlOK'
  BY DEF ControlOK, StatusStep
<1>7. RecordsOK'
  BY DEF RecordsOK, StatusStep, Terminal, Outcomes, Unstarted
<1>8. PhaseOK'
  <2>1. pc = "finish" => active \in Jobs
    BY DEF ControlOK, Performing, TypeOK
  <2>2. QED
    BY <2>1, StepKeeps DEF PhaseOK
<1>9. QED
  BY <1>2, <1>3, <1>4, <1>5, <1>6, <1>7, <1>8 DEF IInv

\* A step of the scheduler that moves records only along StatusStep.
LEMMA SchedulerStep ==
  ASSUME IInv, BoardOK(board'), StatusStep(board, board'), SchedType', ControlOK', PhaseOK',
         UNCHANGED <<cleanup, ranIn, slot, records, active, generations, epoch, owned,
                     unconfirmed, live, child, runs, signal, over, late, startLate, http>>,
         calls' \in Nat, ipc' \in IpcType, pc # "closed"
  PROVE  IInv'
<1> TypeOK /\ BoardOK(board) /\ OneProcess /\ ControlOK /\ RecordsOK /\ PhaseOK /\ UnconfirmedShown
  BY DEF IInv
<1> None \notin Jobs
  BY DEF None, Jobs
<1>2. TypeOK'
  BY DEF TypeOK, BoardOK
<1>3. BoardOK(board)'
  BY DEF BoardOK
<1>4. OneProcess'
  BY DEF OneProcess
<1>5. UnconfirmedShown'
  BY DEF UnconfirmedShown, StatusStep, TypeOK, Terminal, Outcomes, Unstarted
<1>6. RecordsOK'
  BY DEF RecordsOK, StatusStep, Terminal, Outcomes, Unstarted
<1>7. QED
  BY <1>2, <1>3, <1>4, <1>5, <1>6 DEF IInv

----------------------------------------------------------------------------
(* The worker, the clock and the handlers.                                 *)

LEMMA ChildReadyOK ==
  ASSUME IInv, NEW kind \in {"ok", "mismatch", "error"}, ChildReady(kind) PROVE IInv'
<1> TypeOK /\ ControlOK
  BY DEF IInv
<1>1. child' \in ChildType /\ ipc' \in IpcType
  BY DEF ChildReady, TypeOK, ChildType, IpcType
<1>2. ipc'.answered > 0 => ipc'.result # "none"
  BY DEF ChildReady, TypeOK, IpcType, ControlOK
<1>3. live' \subseteq live /\ runs' \in [Jobs -> Nat]
  BY DEF ChildReady, TypeOK
<1>4. QED
  BY <1>1, <1>2, <1>3, WorkerStep
     DEF ChildReady, serviceFrame, recordVars, countVars, schedVars, clockVars

LEMMA ChildStartOK == ASSUME IInv, ChildStart PROVE IInv'
<1> TypeOK /\ ControlOK
  BY DEF IInv
<1>1. child' \in ChildType
  BY DEF ChildStart, TypeOK, ChildType
<1>2. runs' \in [Jobs -> Nat]
  <2>1. runs' = [runs EXCEPT ![ipc.job] = runs[ipc.job] + 1] /\ runs \in [Jobs -> Nat]
    BY DEF ChildStart, TypeOK
  <2>2. CASE ipc.job \in Jobs
    BY <2>1, <2>2
  <2>3. CASE ipc.job \notin Jobs
    BY <2>1, <2>3
  <2>4. QED
    BY <2>2, <2>3
<1>3. ipc' \in IpcType /\ live' \subseteq live /\ (ipc'.answered > 0 => ipc'.result # "none")
  BY DEF ChildStart, TypeOK, ControlOK
<1>4. QED
  BY <1>1, <1>2, <1>3, WorkerStep
     DEF ChildStart, serviceFrame, recordVars, countVars, schedVars, clockVars

LEMMA ChildResultOK == ASSUME IInv, NEW kind \in Outputs, ChildResult(kind) PROVE IInv'
<1> TypeOK
  BY DEF IInv
<1>1. kind \in {"unreadable"} \cup Outcomes /\ kind # "none"
  BY ServiceAssumption DEF Outcomes
<1>2. child' \in ChildType
  BY DEF ChildResult, TypeOK, ChildType
<1>3. ipc' \in IpcType /\ ipc'.result # "none"
  <2>1. ipc.answered + 1 \in Nat
    BY DEF TypeOK, IpcType
  <2>2. ipc' = [ipc EXCEPT !.answered = ipc.answered + 1, !.result = kind]
    BY DEF ChildResult
  <2>3. QED
    BY <1>1, <2>1, <2>2 DEF TypeOK, IpcType
<1>4. live' \subseteq live /\ runs' \in [Jobs -> Nat]
  BY DEF ChildResult, TypeOK
<1>5. QED
  BY <1>2, <1>3, <1>4, WorkerStep
     DEF ChildResult, serviceFrame, recordVars, countVars, schedVars, clockVars

LEMMA ChildNextOK == ASSUME IInv, ChildNext PROVE IInv'
<1> TypeOK /\ ControlOK
  BY DEF IInv
<1>1. child' \in ChildType
  <2>1. child.index + 1 \in Nat
    BY DEF TypeOK, ChildType
  <2>2. QED
    BY <2>1 DEF ChildNext, TypeOK, ChildType
<1>2. /\ ipc' \in IpcType /\ (ipc'.answered > 0 => ipc'.result # "none")
      /\ live' \subseteq live /\ runs' \in [Jobs -> Nat]
  BY DEF ChildNext, TypeOK, ControlOK
<1>3. QED
  BY <1>1, <1>2, WorkerStep
     DEF ChildNext, serviceFrame, recordVars, countVars, schedVars, clockVars

LEMMA ChildEndsOK == ASSUME IInv, ChildStops \/ ChildDies PROVE IInv'
<1> TypeOK /\ ControlOK
  BY DEF IInv
<1>1. /\ child' \in ChildType /\ ipc' \in IpcType /\ runs' \in [Jobs -> Nat]
      /\ ipc'.answered > 0 => ipc'.result # "none"
      /\ live' \subseteq live
  BY DEF ChildStops, ChildDies, TypeOK, ControlOK
<1>2. QED
  BY <1>1, WorkerStep
     DEF ChildStops, ChildDies, serviceFrame, recordVars, countVars, schedVars, clockVars

LEMMA ClockOK == ASSUME IInv, Clock \/ Signal \/ HttpJoined PROVE IInv'
<1> TypeOK
  BY DEF IInv
<1>1. 1 .. records \subseteq Jobs
  BY ServiceAssumption DEF Jobs, TypeOK
<1> USE DEF clockFrame, recordVars, countVars, schedVars, workerVars, TypeOK
<1>2. ASSUME NEW j \in Jobs, JobDeadline(j) PROVE IInv'
  BY <1>2, ClockStep DEF JobDeadline
<1>3. CASE DispatchStop
  BY <1>1, <1>3, ClockStep DEF DispatchStop
<1>4. CASE StartDeadline
  BY <1>4, ClockStep DEF StartDeadline
<1>5. CASE Signal
  BY <1>5, ClockStep DEF Signal
<1>6. CASE HttpJoined
  BY <1>6, ClockStep DEF HttpJoined, clockVars
<1>7. QED
  BY <1>2, <1>3, <1>4, <1>5, <1>6 DEF Clock

LEMMA ReadOK == ASSUME IInv, Read PROVE IInv'
<1>1. BoardOK(board') /\ StatusStep(board, board')
  BY BoardMoves
<1>2. http' \in {"serving", "joining", "returned", "raised"}
  BY DEF Read, handlerFrame, IInv, TypeOK
<1>3. QED
  BY <1>1, <1>2, RecordStep
     DEF Read, handlerFrame, recordVars, countVars, schedVars, workerVars

LEMMA CancelOK == ASSUME IInv, NEW j \in Jobs, Cancel(j) PROVE IInv'
<1>1. BoardOK(board') /\ StatusStep(board, board')
  BY BoardMoves
<1>2. http' \in {"serving", "joining", "returned", "raised"}
  BY DEF Cancel, handlerFrame, IInv, TypeOK
<1>3. QED
  BY <1>1, <1>2, RecordStep
     DEF Cancel, handlerFrame, recordVars, countVars, schedVars, workerVars

LEMMA HttpStopOK == ASSUME IInv, HttpStop PROVE IInv'
<1>1. BoardOK(board') /\ StatusStep(board, board')
  BY BoardMoves
<1>2. QED
  BY <1>1, RecordStep DEF HttpStop, recordVars, countVars, schedVars, workerVars

LEMMA SubmitOK == ASSUME IInv, NEW k \in Slots, Submit(k) PROVE IInv'
<1> TypeOK /\ BoardOK(board) /\ OneProcess /\ ControlOK /\ RecordsOK /\ PhaseOK /\ UnconfirmedShown
  BY DEF IInv
<1> DEFINE b == Poll(board)
           j == records + 1
<1>1. BoardOK(b) /\ StatusStep(board, b)
  BY PollOK DEF TypeOK
<1>2. /\ Admits(b)
      /\ board' = [b EXCEPT !.status[j] = "queued", !.pending = @ \cup {j}]
      /\ slot' = [slot EXCEPT ![j] = k]
      /\ records' = j
      /\ UNCHANGED <<active, generations, epoch, calls, owned, unconfirmed, pc, ret, got, outcome,
                     ranIn, cleanup, live, child, ipc, runs, signal, over, late, startLate, http>>
  BY DEF Submit, handlerFrame, countVars, schedVars, workerVars
<1> HIDE DEF b
<1>3. ~b.stopping /\ Alive /\ records < MaxRecords
  BY <1>2 DEF Admits
<1>4. j \in Jobs /\ b.status[j] = "absent" /\ j # active /\ j \notin b.pending
  BY <1>1, <1>3, ServiceAssumption DEF TypeOK, Jobs, BoardOK
<1>5. /\ board'.status = [b.status EXCEPT ![j] = "queued"] /\ board'.pending = b.pending \cup {j}
      /\ board'.stopping = b.stopping /\ board'.loaded = b.loaded
      /\ board' \in BoardType
  BY <1>1, <1>2, <1>4 DEF BoardOK, BoardType, Status
<1>6. \A i \in Jobs : i \in Nat /\ (i > j <=> i > records /\ i # j)
  BY <1>4, ServiceAssumption DEF Jobs, TypeOK
<1> HIDE DEF j
<1>7. BoardOK(board)'
  BY <1>1, <1>2, <1>3, <1>4, <1>5, <1>6 DEF BoardOK, BoardType, Open
<1>8. TypeOK'
  <2>1. records' \in 0 .. MaxRecords
    BY <1>2, <1>3, ServiceAssumption DEF j, TypeOK
  <2>2. QED
    BY <1>2, <1>4, <1>5, <2>1 DEF TypeOK, SchedType
<1>9. OneProcess'
  BY <1>2 DEF OneProcess
<1>10. UnconfirmedShown'
  BY <1>1, <1>2, <1>3 DEF UnconfirmedShown, ControlOK, TypeOK, StatusStep
<1>11. ControlOK'
  BY <1>1, <1>2, <1>3, <1>5 DEF ControlOK, Closing, Performing, Alive, StatusStep
<1>12. board'.status[j] = "queued" /\ \A i \in Jobs \ {j} : board'.status[i] = b.status[i]
  BY <1>1, <1>4, <1>5 DEF BoardOK, BoardType
<1>13. RecordsOK'
  BY <1>1, <1>2, <1>4, <1>12 DEF RecordsOK, StatusStep, Unstarted, BoardOK, Terminal, Outcomes
<1>14. PhaseOK'
  <2>1. pc = "finish" => active \in Jobs
    BY DEF ControlOK, Performing, TypeOK
  <2>2. QED
    BY <1>1, <1>2, <1>4, <1>12, <2>1, StepKeeps DEF PhaseOK
<1>15. QED
  BY <1>7, <1>8, <1>9, <1>10, <1>11, <1>13, <1>14 DEF IInv

----------------------------------------------------------------------------
(* The scheduler.                                                          *)

LEMMA PollingOK == ASSUME IInv, Top \/ PollWait PROVE IInv'
<1> TypeOK /\ BoardOK(board) /\ OneProcess /\ ControlOK /\ RecordsOK /\ PhaseOK /\ UnconfirmedShown
  BY DEF IInv
<1> None \notin Jobs
  BY DEF None, Jobs
<1>1. BoardOK(board') /\ StatusStep(board, board')
  BY BoardMoves
<1> USE DEF Top, PollWait, envFrame, recordVars, countVars, workerVars
<1>2. SchedType' /\ calls' \in Nat /\ ipc' \in IpcType
  BY DEF TypeOK, SchedType, PCs
<1>3. ControlOK'
  BY <1>1 DEF ControlOK, StatusStep, UnconfirmedShown, Closing, Performing, TypeOK
<1>4. PhaseOK'
  BY <1>1 DEF PhaseOK, StatusStep, Terminal, Outcomes, Unstarted
<1>5. QED
  BY <1>1, <1>2, <1>3, <1>4, SchedulerStep

LEMMA WaitingOK == ASSUME IInv, CheckWait \/ LookWait \/ CheckAlive PROVE IInv'
<1> TypeOK /\ BoardOK(board) /\ OneProcess /\ ControlOK /\ RecordsOK /\ PhaseOK /\ UnconfirmedShown
  BY DEF IInv
<1> None \notin Jobs
  BY DEF None, Jobs
<1> USE DEF CheckWait, LookWait, CheckAlive, envFrame, recordVars, countVars, workerVars
<1>1. BoardOK(board') /\ StatusStep(board, board')
  BY DEF StatusStep
<1>2. SchedType' /\ calls' \in Nat /\ ipc' \in IpcType
  BY DEF TypeOK, SchedType, PCs, AfterWait
<1>3. ControlOK'
  BY DEF ControlOK, AfterWait, Closing, Performing
<1>4. PhaseOK'
  BY DEF PhaseOK, AfterWait, BoardOK, Open, ControlOK
<1>5. QED
  BY <1>1, <1>2, <1>3, <1>4, SchedulerStep

LEMMA CheckReadyOK == ASSUME IInv, CheckReady PROVE IInv'
<1> TypeOK /\ BoardOK(board) /\ OneProcess /\ ControlOK /\ RecordsOK /\ PhaseOK /\ UnconfirmedShown
  BY DEF IInv
<1> None \notin Jobs
  BY DEF None, Jobs
<1> USE DEF CheckReady, envFrame, recordVars, countVars, workerVars
<1>1. /\ BoardOK(board') /\ board'.status = board.status /\ board'.stopping = board.stopping
      /\ board'.pending = board.pending
  BY DEF BoardOK, BoardType, WorkerReady
<1>2. SchedType' /\ calls' \in Nat /\ ipc' \in IpcType
  BY DEF TypeOK, SchedType, PCs
<1>3. ControlOK'
  BY <1>1 DEF ControlOK, Closing, Performing
<1>4. PhaseOK'
  BY <1>1 DEF PhaseOK
<1>5. StatusStep(board, board')
  BY <1>1 DEF StatusStep
<1>6. QED
  BY <1>1, <1>2, <1>3, <1>4, <1>5, SchedulerStep

LEMMA StartFailedOK == ASSUME IInv, StartFailed PROVE IInv'
<1> TypeOK /\ BoardOK(board) /\ OneProcess /\ ControlOK /\ RecordsOK /\ PhaseOK /\ UnconfirmedShown
  BY DEF IInv
<1> None \notin Jobs
  BY DEF None, Jobs
<1>1. BoardOK(board') /\ StatusStep(board, board') /\ board'.stopping
  BY BoardMoves
<1> USE DEF StartFailed, envFrame, recordVars, countVars, workerVars
<1>2. SchedType' /\ calls' \in Nat /\ ipc' \in IpcType
  BY DEF TypeOK, SchedType, PCs
<1>3. ControlOK'
  BY <1>1 DEF ControlOK, Closing, Performing
<1>4. PhaseOK'
  BY <1>1 DEF PhaseOK, StatusStep, Terminal, Outcomes, Unstarted
<1>5. QED
  BY <1>1, <1>2, <1>3, <1>4, SchedulerStep

LEMMA WorkerExitedOK == ASSUME IInv, WorkerExited PROVE IInv'
<1> TypeOK /\ BoardOK(board) /\ OneProcess /\ ControlOK /\ RecordsOK /\ PhaseOK /\ UnconfirmedShown
  BY DEF IInv
<1> None \notin Jobs
  BY DEF None, Jobs
<1>1. BoardOK(board') /\ StatusStep(board, board') /\ board'.stopping
  BY BoardMoves
<1> USE DEF WorkerExited, envFrame, recordVars, countVars, workerVars
<1>2. SchedType' /\ calls' \in Nat /\ ipc' \in IpcType
  BY DEF TypeOK, SchedType, PCs
<1>3. ControlOK'
  BY <1>1 DEF ControlOK, Closing, Performing
<1>4. PhaseOK'
  BY <1>1 DEF PhaseOK, StatusStep, Terminal, Outcomes, Unstarted
<1>5. QED
  BY <1>1, <1>2, <1>3, <1>4, SchedulerStep

LEMMA SendRequestOK == ASSUME IInv, SendRequest PROVE IInv'
<1> TypeOK /\ BoardOK(board) /\ OneProcess /\ ControlOK /\ RecordsOK /\ PhaseOK /\ UnconfirmedShown
  BY DEF IInv
<1> None \notin Jobs
  BY DEF None, Jobs
<1> USE DEF SendRequest, envFrame, recordVars
<1>1. BoardOK(board') /\ StatusStep(board, board')
  BY DEF StatusStep
<1>2. /\ ipc' \in IpcType /\ ipc'.answered = ipc.answered /\ ipc'.result = ipc.result
      /\ calls' \in Nat /\ (pc' = "poll" => calls' > 0)
  BY DEF TypeOK, IpcType
<1>3. SchedType'
  BY DEF TypeOK, SchedType, PCs, Outcomes
<1>4. ControlOK'
  BY <1>2 DEF ControlOK, Closing, Performing
<1>5. PhaseOK'
  BY DEF PhaseOK
<1>6. QED
  BY <1>1, <1>2, <1>3, <1>4, <1>5, SchedulerStep

LEMMA CollectOK == ASSUME IInv, Collect PROVE IInv'
<1> TypeOK /\ BoardOK(board) /\ OneProcess /\ ControlOK /\ RecordsOK /\ PhaseOK /\ UnconfirmedShown
  BY DEF IInv
<1> None \notin Jobs
  BY DEF None, Jobs
<1> USE DEF Collect, envFrame, recordVars, countVars, workerVars
<1>1. BoardOK(board') /\ StatusStep(board, board')
  BY DEF StatusStep
<1>2. outcome' \in Outcomes
  <2>1. ipc.result \in {"none", "unreadable"} \cup Outcomes /\ calls > 0
    BY DEF TypeOK, IpcType, ControlOK, Performing
  <2>2. ipc.answered = calls => ipc.result # "none"
    BY <2>1 DEF ControlOK
  <2>3. "infrastructure_error" \in Outcomes
    BY DEF Outcomes
  <2>4. QED
    BY <2>1, <2>2, <2>3
<1>3. SchedType' /\ calls' \in Nat /\ ipc' \in IpcType
  BY <1>2 DEF TypeOK, SchedType, PCs
<1>4. ControlOK'
  BY <1>2 DEF ControlOK, Closing, Performing, Outcomes
<1>5. PhaseOK'
  BY DEF PhaseOK
<1>6. QED
  BY <1>1, <1>3, <1>4, <1>5, SchedulerStep

LEMMA DecideOK == ASSUME IInv, Decide PROVE IInv'
<1> TypeOK /\ BoardOK(board) /\ OneProcess /\ ControlOK /\ RecordsOK /\ PhaseOK /\ UnconfirmedShown
  BY DEF IInv
<1> None \notin Jobs
  BY DEF None, Jobs
<1>1. active \in Jobs /\ outcome' \in Outcomes
  BY DEF Decide, Decided, ControlOK, TypeOK, SchedType, Performing, Outcomes
<1>2. BoardOK(board') /\ StatusStep(board, board')
  BY BoardMoves
<1>a. outcome' # "completed" => board'.status[active] # "running"
  <2> DEFINE b == Poll(board)
  <2>1. BoardOK(b)
    BY PollOK DEF TypeOK
  <2>2. outcome' # "completed" => board' = BeginStop(b, active)
    BY DEF Decide
  <2> HIDE DEF b
  <2>3. BeginStop(b, active).status[active] # "running"
    BY <1>1, <2>1 DEF BeginStop, BoardOK, BoardType, Terminal, Outcomes
  <2>4. QED
    BY <2>2, <2>3
<1> USE DEF Decide, envFrame, recordVars, countVars, workerVars
<1>3. SchedType' /\ calls' \in Nat /\ ipc' \in IpcType
  BY <1>1 DEF TypeOK, SchedType, PCs
<1>4. ControlOK'
  BY <1>1, <1>2 DEF ControlOK, Closing, Performing, StatusStep, Outcomes
<1>5. PhaseOK'
  BY <1>1, <1>2, <1>a DEF PhaseOK, BoardOK, Open
<1>6. QED
  BY <1>2, <1>3, <1>4, <1>5, SchedulerStep

LEMMA ExceptOK == ASSUME IInv, Except PROVE IInv'
<1> TypeOK /\ BoardOK(board) /\ OneProcess /\ ControlOK /\ RecordsOK /\ PhaseOK /\ UnconfirmedShown
  BY DEF IInv
<1> None \notin Jobs
  BY DEF None, Jobs
<1>3. BoardOK(board') /\ StatusStep(board, board') /\ board'.stopping
  BY BoardMoves
<1> USE DEF Except, envFrame, recordVars, countVars, workerVars
<1>4. SchedType' /\ calls' \in Nat /\ ipc' \in IpcType
  BY DEF TypeOK, SchedType, PCs
<1>5. ControlOK'
  BY <1>3 DEF ControlOK, Closing, Performing
<1>6. PhaseOK'
  BY <1>3 DEF PhaseOK, StatusStep, BoardOK, Open, Terminal, Outcomes
<1>7. QED
  BY <1>3, <1>4, <1>5, <1>6, SchedulerStep

LEMMA EndingOK == ASSUME IInv, Finally \/ Summary PROVE IInv'
<1> TypeOK /\ BoardOK(board) /\ OneProcess /\ ControlOK /\ RecordsOK /\ PhaseOK /\ UnconfirmedShown
  BY DEF IInv
<1> None \notin Jobs
  BY DEF None, Jobs
<1> USE DEF Finally, Summary, envFrame, recordVars, countVars, workerVars
<1>1. BoardOK(board') /\ StatusStep(board, board')
  BY DEF StatusStep
<1>2. SchedType' /\ calls' \in Nat /\ ipc' \in IpcType
  BY DEF TypeOK, SchedType, PCs
<1>3. ControlOK'
  BY DEF ControlOK, Closing, Performing
<1>4. PhaseOK'
  BY DEF PhaseOK
<1>5. QED
  BY <1>1, <1>2, <1>3, <1>4, SchedulerStep

LEMMA CloseOK == ASSUME IInv, Close PROVE IInv'
<1> TypeOK /\ BoardOK(board) /\ OneProcess /\ ControlOK /\ RecordsOK /\ PhaseOK /\ UnconfirmedShown
  BY DEF IInv
<1> None \notin Jobs
  BY DEF None, Jobs
<1>1. ipc' \in IpcType /\ ipc'.answered = ipc.answered /\ ipc'.result = ipc.result
  BY DEF Close, TypeOK, IpcType
<1>2. /\ BoardOK(board') /\ board'.status = board.status /\ board'.stopping = board.stopping
      /\ board'.pending = board.pending
  BY DEF Close, BoardOK, BoardType
<1> USE DEF Close, envFrame, recordVars, countVars
<1>3. SchedType' /\ calls' \in Nat
  BY DEF TypeOK, SchedType, PCs, ControlOK, Closing
<1>4. ControlOK'
  BY <1>1, <1>2 DEF ControlOK, Closing, Performing, TypeOK, SchedType
<1>5. PhaseOK'
  BY <1>2 DEF PhaseOK, ControlOK, Closing, TypeOK, SchedType
<1>6. StatusStep(board, board')
  BY <1>2 DEF StatusStep
<1>7. QED
  BY <1>1, <1>2, <1>3, <1>4, <1>5, <1>6, SchedulerStep

LEMMA SpawnOK == ASSUME IInv, Spawn PROVE IInv'
<1> TypeOK /\ BoardOK(board) /\ OneProcess /\ ControlOK /\ RecordsOK /\ PhaseOK /\ UnconfirmedShown
  BY DEF IInv
<1> None \notin Jobs
  BY DEF None, Jobs
<1>1. BoardOK(board') /\ StatusStep(board, board')
  BY BoardMoves
<1>2. CASE board'.stopping
  <2> USE <1>2 DEF Spawn, countVars, recordVars, envFrame
  <2>1. SchedType' /\ calls' \in Nat /\ ipc' \in IpcType
    BY DEF TypeOK, SchedType, PCs
  <2>2. ControlOK'
    BY DEF ControlOK, Closing, Performing
  <2>3. PhaseOK'
    BY <1>1 DEF PhaseOK, StatusStep, Terminal, Outcomes, Unstarted
  <2>4. QED
    BY <1>1, <2>1, <2>2, <2>3, SchedulerStep
<1>3. CASE ~board'.stopping
  <2>1. /\ pc = "prepare" /\ pc' = "poll"
        /\ epoch' = epoch + 1 /\ calls' = 0 /\ owned' = TRUE /\ generations' = generations
        /\ live' = live \cup {epoch + 1}
        /\ child' = NewChild(MaxGenerations - generations)
        /\ ipc' = NoFiles
        /\ startLate' = (epoch = 0 /\ startLate)
        /\ UNCHANGED <<cleanup, ranIn, slot, records, active, unconfirmed, ret, got, outcome,
                       runs, signal, over, late, http>>
    BY <1>3 DEF Spawn, recordVars, envFrame
  <2>2. ~owned /\ live = {} /\ active = None /\ ~unconfirmed /\ generations < MaxGenerations
    BY <2>1 DEF ControlOK, OneProcess, Closing, Performing
  <2>3. child' \in ChildType
    <3>1. MaxGenerations - generations \in Nat
      BY <2>2, ServiceAssumption DEF TypeOK
    <3>2. QED
      BY <2>1, <3>1 DEF NewChild, ChildType
  <2>4. ipc' \in IpcType /\ ipc'.answered = 0
    BY <2>1 DEF NoFiles, IpcType
  <2>5. SchedType' /\ epoch' \in Nat /\ epoch' > 0 /\ live' = {epoch'} /\ calls' \in Nat
        /\ startLate' \in BOOLEAN
    BY <2>1, <2>2 DEF TypeOK, SchedType, PCs
  <2>6. TypeOK'
    BY <1>1, <2>1, <2>3, <2>4, <2>5 DEF TypeOK, BoardOK
  <2>7. BoardOK(board)'
    BY <1>1, <2>1 DEF BoardOK
  <2>8. OneProcess' /\ UnconfirmedShown'
    BY <2>1, <2>2, <2>5 DEF OneProcess, UnconfirmedShown
  <2>9. ControlOK'
    BY <1>3, <2>1, <2>2, <2>4, <2>5 DEF ControlOK, Closing, Performing
  <2>10. RecordsOK'
    <3>1. \A j \in Jobs : ranIn[j] \in Nat /\ ranIn[j] <= epoch
      BY DEF TypeOK, RecordsOK
    <3>2. \A j \in Jobs : ranIn[j] \notin live' /\ ranIn[j] <= epoch'
      BY <2>1, <2>5, <3>1 DEF TypeOK
    <3>3. QED
      BY <1>1, <2>1, <3>2 DEF RecordsOK, StatusStep, Terminal, Outcomes, Unstarted
  <2>11. PhaseOK'
    BY <1>1, <2>1 DEF PhaseOK, StatusStep, Terminal, Outcomes, Unstarted
  <2>12. QED
    BY <2>6, <2>7, <2>8, <2>9, <2>10, <2>11 DEF IInv
<1>4. QED
  BY <1>2, <1>3

LEMMA SpawnFailsOK == ASSUME IInv, SpawnFails PROVE IInv'
<1> TypeOK /\ BoardOK(board) /\ OneProcess /\ ControlOK /\ RecordsOK /\ PhaseOK /\ UnconfirmedShown
  BY DEF IInv
<1> None \notin Jobs
  BY DEF None, Jobs
<1>1. BoardOK(board') /\ StatusStep(board, board') /\ ~board'.stopping /\ ~board.stopping
  BY PollOK DEF SpawnFails, TypeOK, StatusStep
<1> USE DEF SpawnFails, envFrame, recordVars, workerVars
<1>2. SchedType' /\ epoch' \in Nat /\ calls' \in Nat
  BY DEF TypeOK, SchedType, PCs
<1>3. ~owned /\ live = {} /\ active = None /\ ~unconfirmed
  BY DEF ControlOK, OneProcess, Closing, Performing
<1>4. TypeOK'
  BY <1>1, <1>2 DEF TypeOK, BoardOK
<1>5. BoardOK(board)'
  BY <1>1 DEF BoardOK
<1>6. OneProcess' /\ UnconfirmedShown'
  BY <1>3 DEF OneProcess, UnconfirmedShown
<1>7. ControlOK'
  BY <1>1, <1>2, <1>3 DEF ControlOK, Closing, Performing, TypeOK
<1>8. RecordsOK'
  BY <1>1, <1>3 DEF RecordsOK, StatusStep, Terminal, Outcomes, Unstarted, TypeOK
<1>9. PhaseOK'
  BY <1>1, <1>3 DEF PhaseOK, StatusStep, Terminal, Outcomes, Unstarted
<1>10. QED
  BY <1>4, <1>5, <1>6, <1>7, <1>8, <1>9 DEF IInv

LEMMA ReapedOK == ASSUME IInv, Reaped PROVE IInv'
<1> TypeOK /\ BoardOK(board) /\ OneProcess /\ ControlOK /\ RecordsOK /\ PhaseOK /\ UnconfirmedShown
  BY DEF IInv
<1> None \notin Jobs
  BY DEF None, Jobs
<1> USE DEF Reaped, envFrame, recordVars, countVars, workerVars
<1>1. active \in Jobs
  BY DEF ControlOK, TypeOK, Performing
<1>2. SchedType' /\ cleanup' \in [Jobs -> {"not_started", "live", "reaped", "unconfirmed"}]
  BY <1>1 DEF TypeOK, SchedType, PCs
<1>3. TypeOK'
  BY <1>2 DEF TypeOK
<1>4. BoardOK(board)'
  BY DEF BoardOK
<1>5. OneProcess' /\ UnconfirmedShown'
  BY DEF OneProcess, UnconfirmedShown
<1>6. ControlOK'
  BY DEF ControlOK, Closing, Performing, UnconfirmedShown
<1>7. RecordsOK'
  BY <1>1 DEF RecordsOK, TypeOK, ControlOK, OneProcess
<1>8. PhaseOK'
  BY <1>1 DEF PhaseOK, TypeOK
<1>9. QED
  BY <1>3, <1>4, <1>5, <1>6, <1>7, <1>8 DEF IInv

LEMMA ReapOK == ASSUME IInv, Reap PROVE IInv'
<1> TypeOK /\ BoardOK(board) /\ OneProcess /\ ControlOK /\ RecordsOK /\ PhaseOK /\ UnconfirmedShown
  BY DEF IInv
<1> None \notin Jobs
  BY DEF None, Jobs
<1> USE DEF Reap, envFrame, recordVars, countVars
<1>1. SchedType' /\ live' \subseteq live /\ unconfirmed' \in BOOLEAN
  BY DEF TypeOK, SchedType, PCs
<1>2. TypeOK'
  BY <1>1 DEF TypeOK
<1>3. BoardOK(board)'
  BY DEF BoardOK
<1>4. OneProcess' /\ UnconfirmedShown'
  BY DEF OneProcess, UnconfirmedShown
<1>5. ControlOK'
  BY DEF ControlOK, Closing, Performing
<1>6. RecordsOK' /\ PhaseOK'
  BY DEF RecordsOK, PhaseOK
<1>7. QED
  BY <1>2, <1>3, <1>4, <1>5, <1>6 DEF IInv

LEMMA DispatchOK == ASSUME IInv, Dispatch PROVE IInv'
<1> TypeOK /\ BoardOK(board) /\ OneProcess /\ ControlOK /\ RecordsOK /\ PhaseOK /\ UnconfirmedShown
  BY DEF IInv
<1> None \notin Jobs
  BY DEF None, Jobs
<1> DEFINE b == Poll(board)
<1>1. BoardOK(b) /\ StatusStep(board, b)
  BY PollOK DEF TypeOK
<1>u. /\ UNCHANGED <<slot, records, epoch, calls, owned, unconfirmed, ret, got, outcome, live, child, ipc,
                     runs, signal, over, late, startLate, http>>
      /\ pc = "dispatch"
  BY DEF Dispatch, recordVars, workerVars, envFrame
<1>2. CASE /\ b.stopping \/ b.pending = {}
           /\ board' = b
           /\ pc' = IF b.stopping THEN "finally" ELSE "top"
           /\ UNCHANGED <<active, generations, ranIn, cleanup>>
  <2> HIDE DEF b
  <2> USE <1>2, <1>u
  <2>1. SchedType' /\ calls' \in Nat /\ ipc' \in IpcType
    BY DEF TypeOK, SchedType, PCs
  <2>2. ControlOK'
    BY <1>1 DEF ControlOK, StatusStep, UnconfirmedShown, Closing, Performing, TypeOK
  <2>3. PhaseOK'
    BY <1>1 DEF PhaseOK, StatusStep, Terminal, Outcomes, Unstarted
  <2>4. QED
    BY <1>1, <2>1, <2>2, <2>3, SchedulerStep
<1>3. CASE \E j \in Oldest(b.pending) :
              /\ ~b.stopping
              /\ board' = [b EXCEPT !.pending = @ \ {j}, !.status[j] = "running"]
              /\ pc' = "request"
              /\ active' = j
              /\ generations' = generations + 1
              /\ ranIn' = [ranIn EXCEPT ![j] = epoch]
              /\ cleanup' = [cleanup EXCEPT ![j] = "live"]
  <2> PICK j \in Oldest(b.pending) :
              /\ ~b.stopping
              /\ board' = [b EXCEPT !.pending = @ \ {j}, !.status[j] = "running"]
              /\ pc' = "request"
              /\ active' = j
              /\ generations' = generations + 1
              /\ ranIn' = [ranIn EXCEPT ![j] = epoch]
              /\ cleanup' = [cleanup EXCEPT ![j] = "live"]
    BY <1>3
  <2> HIDE DEF b
  <2>2. j \in Jobs /\ b.status[j] = "queued" /\ ranIn[j] = None
    BY <1>1 DEF Oldest, BoardOK, BoardType, StatusStep, RecordsOK, PhaseOK, Terminal, Outcomes
  <2>3. active = None /\ epoch > 0 /\ epoch \in Nat /\ ~unconfirmed
    <3>1. active = None
      BY <1>u DEF ControlOK, Performing, Closing
    <3>2. j <= records
      BY <1>1, <2>2 DEF BoardOK, Jobs, TypeOK
    <3>3. epoch > 0
      BY <2>2, <3>2, ServiceAssumption DEF ControlOK, Jobs, TypeOK
    <3>4. ~unconfirmed
      BY <1>1, <1>u DEF UnconfirmedShown, StatusStep
    <3>5. QED
      BY <3>1, <3>3, <3>4 DEF TypeOK
  <2>4. /\ board'.status = [b.status EXCEPT ![j] = "running"] /\ board'.pending = b.pending \ {j}
        /\ board'.stopping = b.stopping /\ board'.loaded = b.loaded
        /\ board' \in BoardType
    BY <1>1, <2>2 DEF BoardOK, BoardType, Status
  <2>5. BoardOK(board)'
    BY <1>1, <1>u, <2>2, <2>3, <2>4 DEF BoardOK, BoardType, Open
  <2>6. TypeOK'
    BY <1>u, <2>2, <2>3, <2>4 DEF TypeOK, SchedType, PCs
  <2>7. OneProcess'
    BY <1>u DEF OneProcess
  <2>8. UnconfirmedShown'
    BY <1>u, <2>3 DEF UnconfirmedShown
  <2>9. ControlOK'
    BY <1>u, <2>2, <2>3 DEF ControlOK, Closing, Performing
  <2>10. RecordsOK' /\ PhaseOK'
    <3>1. /\ board'.status[j] = "running" /\ ranIn'[j] = epoch /\ cleanup'[j] = "live"
          /\ \A i \in Jobs \ {j} : /\ board'.status[i] = b.status[i]
                                  /\ ranIn'[i] = ranIn[i] /\ cleanup'[i] = cleanup[i]
      BY <1>1, <2>2, <2>4 DEF BoardOK, BoardType, TypeOK
    <3>2. \A i \in Jobs \ {j} : b.status[i] # "running"
      BY <1>1, <2>3 DEF BoardOK, Open, None, Jobs
    <3>3. QED
      BY <1>1, <1>u, <2>2, <2>3, <3>1, <3>2 DEF RecordsOK, PhaseOK, StatusStep, Terminal, Outcomes, Unstarted, None
  <2>11. QED
    BY <2>5, <2>6, <2>7, <2>8, <2>9, <2>10 DEF IInv
<1>4. QED
  BY <1>2, <1>3 DEF Dispatch

LEMMA FinishActiveOK == ASSUME IInv, FinishActive PROVE IInv'
<1> TypeOK /\ BoardOK(board) /\ OneProcess /\ ControlOK /\ RecordsOK /\ PhaseOK /\ UnconfirmedShown
  BY DEF IInv
<1> None \notin Jobs
  BY DEF None, Jobs
<1>1. active \in Jobs /\ outcome \in Outcomes /\ ~unconfirmed
  BY DEF FinishActive, ControlOK, Performing, TypeOK, SchedType
<1>2. /\ board' = Finish(board, active, outcome)
      /\ UNCHANGED <<slot, records, generations, epoch, calls, owned, unconfirmed, ret, got,
                     ranIn, cleanup, live, child, runs, signal, over, late, startLate, http>>
      /\ outcome' = "none"
      /\ \/ pc' = "top" /\ active' = None
         \/ pc' = "except" /\ UNCHANGED active
  BY DEF FinishActive, recordVars, countVars, envFrame
<1>3. /\ board' \in BoardType /\ board'.pending = board.pending /\ board'.stopping = board.stopping
      /\ board'.loaded = board.loaded
      /\ board'.status = [board.status EXCEPT ![active] = board'.status[active]]
      /\ board'.status[active] \in Terminal
      /\ board.status[active] \in Terminal \/ board'.status[active] = outcome
  <2>1. CASE board.status[active] \in Terminal
    BY <1>1, <1>2, <2>1 DEF Finish, BoardOK, BoardType
  <2>2. CASE board.status[active] \notin Terminal
    <3>1. board' = [board EXCEPT !.status[active] = outcome]
      BY <1>2, <2>2 DEF Finish
    <3>2. outcome \in Status /\ outcome \in Terminal
      BY <1>1 DEF Status, Terminal
    <3>3. QED
      BY <1>1, <3>1, <3>2 DEF BoardOK, BoardType
  <2>3. QED
    BY <2>1, <2>2
<1>4. ipc' \in IpcType /\ ipc'.answered = ipc.answered /\ ipc'.result = ipc.result
  <2>1. CASE ipc' = ipc
    BY <2>1 DEF TypeOK
  <2>2. CASE ipc' = [ipc EXCEPT !.acked = @ + 1]
    <3>1. ipc.acked + 1 \in Nat
      BY DEF TypeOK, IpcType
    <3>2. ipc' = [ipc EXCEPT !.acked = ipc.acked + 1]
      BY <2>2
    <3>3. QED
      BY <3>1, <3>2 DEF TypeOK, IpcType
  <2>3. QED
    BY <2>1, <2>2 DEF FinishActive
<1>5. Terminal \cap {"absent", "queued", "running", "stopping"} = {}
  BY DEF Terminal, Outcomes
<1>6. TypeOK'
  BY <1>1, <1>2, <1>3, <1>4 DEF TypeOK, SchedType, PCs
<1>7. BoardOK(board)'
  <2>1. \A j \in Jobs : board'.status[j] = board.status[j] \/ j = active
    BY <1>3 DEF BoardOK, BoardType
  <2>2. \A j \in Jobs : board'.status[j] = "absent" <=> j > records
    BY <1>1, <1>3, <1>5, <2>1 DEF BoardOK
  <2>3. \A j \in Jobs : j \in board'.pending <=> board'.status[j] = "queued"
    BY <1>1, <1>3, <1>5, <2>1 DEF BoardOK
  <2>4. \A j \in Jobs : board'.status[j] \notin Open
    BY <1>3, <1>5, <2>1 DEF BoardOK, Open
  <2>5. QED
    BY <1>1, <1>2, <1>3, <1>5, <2>2, <2>3, <2>4 DEF BoardOK, None
<1>8. OneProcess'
  BY <1>2 DEF OneProcess
<1>9. UnconfirmedShown'
  BY <1>1, <1>2 DEF UnconfirmedShown
<1>10. ControlOK'
  BY <1>1, <1>2, <1>3, <1>4 DEF FinishActive, ControlOK, Closing, Performing
<1>11. RecordsOK' /\ PhaseOK'
  <2>1. \A j \in Jobs : board'.status[j] = board.status[j] \/ j = active
    BY <1>3 DEF BoardOK, BoardType
  <2>2. \A j \in Jobs : board'.status[j] # "running"
    BY <1>3, <1>5, <2>1 DEF BoardOK, Open
  <2>3. board'.status[active] # "completed" => cleanup[active] \in {"not_started", "reaped"}
    <3>1. CASE board.status[active] \in Terminal
      <4>1. board' = board
        BY <1>2, <3>1 DEF Finish
      <4>2. QED
        BY <1>1, <3>1, <4>1 DEF RecordsOK, PhaseOK
    <3>2. CASE board'.status[active] = outcome
      BY <3>2 DEF FinishActive, RecordsOK, PhaseOK
    <3>3. QED
      BY <1>3, <3>1, <3>2
  <2>4. \A j \in Jobs :
          /\ board'.status[j] \in {"absent", "queued"} => ranIn'[j] = None
          /\ board'.status[j] \in Terminal \ {"completed"} => cleanup'[j] \in {"not_started", "reaped"}
    BY <1>2, <1>3, <1>5, <2>1, <2>3 DEF RecordsOK, PhaseOK
  <2>5. QED
    BY <1>1, <1>2, <1>3, <2>2, <2>4 DEF RecordsOK, PhaseOK
<1>12. QED
  BY <1>6, <1>7, <1>8, <1>9, <1>10, <1>11 DEF IInv

LEMMA LastOK == ASSUME IInv, Last PROVE IInv'
<1> TypeOK /\ BoardOK(board) /\ OneProcess /\ ControlOK /\ RecordsOK /\ PhaseOK /\ UnconfirmedShown
  BY DEF IInv
<1> None \notin Jobs
  BY DEF None, Jobs
<1>u. UNCHANGED <<slot, records, generations, epoch, calls, owned, unconfirmed, ret, got, outcome,
                  ranIn, live, child, ipc, runs, signal, over, late, startLate, http>>
      /\ pc' = "summary"
  BY DEF Last, recordVars, countVars, workerVars, clockVars, envFrame
<1>1. CASE active = None \/ unconfirmed
  <2>1. UNCHANGED <<board, cleanup, active>>
    BY <1>1 DEF Last
  <2> USE <1>u, <1>1, <2>1
  <2>2. TypeOK'
    BY DEF TypeOK, SchedType, PCs
  <2>3. BoardOK(board)'
    BY DEF BoardOK
  <2>4. OneProcess' /\ UnconfirmedShown'
    BY DEF OneProcess, UnconfirmedShown, Last
  <2>5. ControlOK'
    BY DEF Last, ControlOK, Closing, Performing
  <2>6. RecordsOK' /\ PhaseOK'
    BY DEF Last, RecordsOK, PhaseOK
  <2>7. QED
    BY <2>2, <2>3, <2>4, <2>5, <2>6 DEF IInv
<1>2. CASE active # None /\ ~unconfirmed
  <2>1. /\ board' = Finish(board, active, "infrastructure_error")
        /\ cleanup' = [cleanup EXCEPT ![active] = "reaped"]
        /\ active' = None
    BY <1>2 DEF Last
  <2>2. active \in Jobs /\ ~owned /\ live = {}
    BY <1>2 DEF Last, TypeOK, ControlOK, OneProcess
  <2>3. /\ board' \in BoardType /\ board'.pending = board.pending /\ board'.stopping = board.stopping
        /\ board'.loaded = board.loaded
        /\ board'.status = [board.status EXCEPT ![active] = board'.status[active]]
        /\ board'.status[active] \in Terminal
    <3>1. CASE board.status[active] \in Terminal
      BY <2>1, <2>2, <3>1 DEF Finish, BoardOK, BoardType
    <3>2. CASE board.status[active] \notin Terminal
      <4>1. board' = [board EXCEPT !.status[active] = "infrastructure_error"]
        BY <2>1, <3>2 DEF Finish
      <4>2. "infrastructure_error" \in Status /\ "infrastructure_error" \in Terminal
        BY DEF Status, Terminal, Outcomes
      <4>3. QED
        BY <2>2, <4>1, <4>2 DEF BoardOK, BoardType
    <3>3. QED
      BY <3>1, <3>2
  <2>4. Terminal \cap {"absent", "queued", "running", "stopping"} = {}
    BY DEF Terminal, Outcomes
  <2>5. \A j \in Jobs : board'.status[j] = board.status[j] \/ j = active
    BY <2>3 DEF BoardOK, BoardType
  <2>6. TypeOK'
    BY <1>u, <2>1, <2>2, <2>3 DEF TypeOK, SchedType, PCs
  <2>7. BoardOK(board)'
    <3>1. \A j \in Jobs : board'.status[j] = "absent" <=> j > records
      BY <2>2, <2>3, <2>4, <2>5 DEF BoardOK
    <3>2. \A j \in Jobs : j \in board'.pending <=> board'.status[j] = "queued"
      BY <2>2, <2>3, <2>4, <2>5 DEF BoardOK
    <3>3. \A j \in Jobs : board'.status[j] \notin Open
      BY <2>3, <2>4, <2>5 DEF BoardOK, Open
    <3>4. QED
      BY <1>u, <2>1, <2>3, <3>1, <3>2, <3>3 DEF BoardOK
  <2>8. OneProcess' /\ UnconfirmedShown'
    BY <1>u, <1>2 DEF OneProcess, UnconfirmedShown
  <2>9. ControlOK'
    BY <1>u, <1>2, <2>1, <2>2, <2>3 DEF Last, ControlOK, Closing, Performing
  <2>10. RecordsOK' /\ PhaseOK'
    <3>1. /\ cleanup'[active] = "reaped"
          /\ \A j \in Jobs \ {active} : cleanup'[j] = cleanup[j]
      BY <2>1, <2>2 DEF TypeOK
    <3>2. \A j \in Jobs : board'.status[j] \notin Open
      BY <2>3, <2>4, <2>5 DEF BoardOK, Open
    <3>3. ranIn[active] # None
      BY <2>2 DEF RecordsOK, PhaseOK
    <3>4. QED
      BY <1>u, <2>1, <2>2, <2>3, <2>4, <2>5, <3>1, <3>2, <3>3 DEF RecordsOK, PhaseOK, Open
  <2>11. QED
    BY <2>6, <2>7, <2>8, <2>9, <2>10 DEF IInv
<1>3. QED
  BY <1>1, <1>2

LEMMA ClosedOK == ASSUME IInv, Closed PROVE IInv'
<1> TypeOK /\ BoardOK(board) /\ OneProcess /\ ControlOK /\ RecordsOK /\ PhaseOK /\ UnconfirmedShown
  BY DEF IInv
<1> None \notin Jobs
  BY DEF None, Jobs
<1>u. UNCHANGED <<slot, records, active, generations, epoch, calls, unconfirmed, got, outcome,
                  ranIn, live, child, ipc, runs, signal, over, late, startLate, http>>
      /\ pc = "closed" /\ pc' = ret /\ ret' = "none" /\ owned
      /\ ret \in {"start_failed", "dead", "dispatch", "reaped", "last"}
  BY DEF Closed, ControlOK, Closing, TypeOK, SchedType, recordVars, countVars, workerVars, clockVars, envFrame
<1>1. CASE ~unconfirmed
  <2>1. UNCHANGED <<board, cleanup>> /\ owned' = FALSE
    BY <1>1 DEF Closed
  <2>2. live = {}
    BY <1>u, <1>1 DEF ControlOK, OneProcess
  <2>3. TypeOK'
    <3>1. SchedType'
      BY <1>u DEF TypeOK, SchedType, PCs
    <3>2. QED
      BY <1>u, <2>1, <3>1 DEF TypeOK
  <2>4. BoardOK(board)'
    BY <1>u, <2>1 DEF BoardOK
  <2>5. OneProcess' /\ UnconfirmedShown'
    BY <1>u, <1>1, <2>2 DEF OneProcess, UnconfirmedShown
  <2>6. ControlOK'
    BY <1>u, <1>1, <2>1 DEF ControlOK, Closing, Performing
  <2>7. RecordsOK' /\ PhaseOK'
    BY <1>u, <2>1 DEF RecordsOK, PhaseOK
  <2>8. QED
    BY <2>3, <2>4, <2>5, <2>6, <2>7 DEF IInv
<1>2. CASE unconfirmed
  <2> DEFINE marked == IF active = None THEN board
                       ELSE [board EXCEPT !.status[active] = "stopping"]
  <2>1. /\ board' = StopLocked(marked, "cleanup_unconfirmed")
        /\ cleanup' = IF active = None THEN cleanup
                      ELSE [cleanup EXCEPT ![active] = "unconfirmed"]
        /\ owned' = owned
    BY <1>2 DEF Closed
  <2>2. BoardOK(marked) /\ (active \in Jobs => marked.status[active] = "stopping")
        /\ \A j \in Jobs : marked.status[j] = board.status[j] \/ j = active
    <3>1. CASE active = None
      BY <3>1
    <3>2. CASE active \in Jobs
      <4>1. marked = [board EXCEPT !.status[active] = "stopping"]
        BY <3>2
      <4>2. /\ marked.status = [board.status EXCEPT ![active] = "stopping"]
            /\ marked.pending = board.pending /\ marked.stopping = board.stopping
            /\ marked.loaded = board.loaded /\ marked \in BoardType
        BY <3>2, <4>1 DEF BoardOK, BoardType, Status
      <4>3. QED
        BY <3>2, <4>2 DEF BoardOK, BoardType, Open
    <3>3. QED
      BY <3>1, <3>2 DEF TypeOK
  <2> HIDE DEF marked
  <2>3. BoardOK(board') /\ StatusStep(marked, board') /\ board'.stopping
    BY <2>1, <2>2, StopLockedOK DEF TypeOK, WhySet
  <2>4. /\ cleanup' \in [Jobs -> {"not_started", "live", "reaped", "unconfirmed"}]
        /\ active \in Jobs => cleanup'[active] = "unconfirmed"
        /\ \A j \in Jobs : cleanup'[j] = cleanup[j] \/ j = active
    BY <2>1 DEF TypeOK
  <2>5. active \in Jobs => board'.status[active] = "stopping"
    BY <2>2, <2>3 DEF StatusStep
  <2>6. TypeOK'
    BY <1>u, <2>1, <2>3, <2>4 DEF TypeOK, SchedType, PCs, BoardOK
  <2>7. BoardOK(board)'
    BY <1>u, <2>3 DEF BoardOK
  <2>8. OneProcess'
    BY <1>u, <2>1 DEF OneProcess
  <2>9. UnconfirmedShown'
    BY <1>u, <2>3, <2>4, <2>5 DEF UnconfirmedShown, TypeOK
  <2>10. ControlOK'
    BY <1>u, <1>2, <2>1, <2>3 DEF ControlOK, Closing, Performing
  <2>11. RecordsOK' /\ PhaseOK'
    <3>1. \A j \in Jobs \ {active} :
            \/ board'.status[j] = board.status[j]
            \/ board.status[j] = "queued" /\ board'.status[j] \in Unstarted
      BY <2>2, <2>3 DEF StatusStep
    <3>2. Terminal \cap {"absent", "queued", "running", "stopping"} = {}
      BY DEF Terminal, Outcomes
    <3>3. \A j \in Jobs : j = active =>
            /\ board'.status[j] = "stopping" /\ cleanup'[j] = "unconfirmed" /\ ranIn[j] # None
      BY <2>4, <2>5 DEF RecordsOK, PhaseOK
    <3>4. \A j \in Jobs \ {active} : cleanup'[j] = cleanup[j] /\ board'.status[j] # "running"
      BY <2>3, <2>4, <1>u DEF BoardOK, Open
    <3>5. QED
      BY <1>u, <3>1, <3>2, <3>3, <3>4 DEF RecordsOK, PhaseOK, Unstarted, Terminal, Outcomes
  <2>12. QED
    BY <2>6, <2>7, <2>8, <2>9, <2>10, <2>11 DEF IInv
<1>3. QED
  BY <1>1, <1>2

LEMMA InitOK == Init => IInv
<1> SUFFICES ASSUME Init PROVE IInv
  OBVIOUS
<1> None \notin Jobs
  BY DEF None, Jobs
<1>1. /\ board.status = [j \in Jobs |-> "absent"] /\ board.token = {} /\ board.pending = {}
      /\ board.stopping = FALSE /\ board.loaded = FALSE /\ board.why = "none"
      /\ board \in BoardType
  BY DEF Init, BoardType, Status
<1>2. child \in ChildType /\ ipc \in IpcType /\ ipc.answered = 0
  BY DEF Init, NewChild, NoFiles, ChildType, IpcType
<1>3. TypeOK
  <2>1. /\ cleanup \in [Jobs -> {"not_started", "live", "reaped", "unconfirmed"}]
        /\ ranIn \in [Jobs -> Nat] /\ runs \in [Jobs -> Nat]
        /\ slot \in [Jobs -> Slots \cup {NoOne}]
    BY DEF Init, None
  <2>2. records \in 0 .. MaxRecords /\ active \in Jobs \cup {None}
    BY ServiceAssumption DEF Init
  <2>3. /\ generations \in Nat /\ epoch \in Nat /\ calls \in Nat
        /\ owned \in BOOLEAN /\ unconfirmed \in BOOLEAN
        /\ live \subseteq Nat /\ late \subseteq Jobs
        /\ signal \in BOOLEAN /\ over \in BOOLEAN /\ startLate \in BOOLEAN
    BY DEF Init
  <2>4. /\ pc \in PCs
        /\ ret \in {"none", "start_failed", "dead", "dispatch", "reaped", "last"}
        /\ got \in {"none", "cancelled", "timed_out", "completed", "error"}
        /\ outcome \in {"none"} \cup Outcomes
        /\ http \in {"serving", "joining", "returned", "raised"}
    BY DEF Init, PCs
  <2>5. QED
    BY <1>1, <1>2, <2>1, <2>2, <2>3, <2>4 DEF TypeOK, SchedType
<1>4. BoardOK(board)
  BY <1>1 DEF Init, BoardOK, Open, Jobs, None
<1>5. OneProcess /\ UnconfirmedShown
  BY DEF Init, OneProcess, UnconfirmedShown
<1>6. ControlOK
  BY <1>2 DEF Init, ControlOK, Closing, Performing
<1>7. RecordsOK /\ PhaseOK
  BY <1>1 DEF Init, RecordsOK, PhaseOK, Terminal, Outcomes, None
<1>8. QED
  BY <1>3, <1>4, <1>5, <1>6, <1>7 DEF IInv

----------------------------------------------------------------------------
(* The invariant, and what it gives.                                       *)

LEMMA StepOK == ASSUME IInv, [Next]_vars PROVE IInv'
<1>1. CASE Handler
  BY <1>1, SubmitOK, ReadOK, CancelOK DEF Handler
<1>2. CASE Scheduler
  BY <1>2, PollingOK, SpawnOK, SpawnFailsOK, WaitingOK, CheckReadyOK, StartFailedOK,
     WorkerExitedOK, DispatchOK, SendRequestOK, CollectOK, DecideOK, ReapedOK, FinishActiveOK,
     ExceptOK, EndingOK, LastOK, CloseOK, ReapOK, ClosedOK
     DEF Scheduler
<1>3. CASE Child
  BY <1>3, ChildReadyOK, ChildStartOK, ChildResultOK, ChildNextOK, ChildEndsOK DEF Child
<1>4. CASE Clock \/ Signal \/ HttpJoined
  BY <1>4, ClockOK
<1>5. CASE HttpStop
  BY <1>5, HttpStopOK
<1>6. CASE UNCHANGED vars
  <2>1. TypeOK
    BY DEF IInv
  <2>2. QED
    BY <1>6, <2>1, ClockStep
       DEF vars, recordVars, countVars, schedVars, workerVars, clockVars, TypeOK
<1>7. QED
  BY <1>1, <1>2, <1>3, <1>4, <1>5, <1>6 DEF Next, Ended

LEMMA Inductive == Spec => []IInv
<1>1. Init => IInv
  BY InitOK
<1>2. IInv /\ [Next]_vars => IInv'
  BY StepOK
<1>3. QED
  BY <1>1, <1>2, PTL DEF Spec

\* Every variable of the service keeps its type, whatever the number of
\* clients, queue places and generations.
THEOREM TypeCorrect == Spec => []TypeOK
<1>1. IInv => TypeOK
  BY DEF IInv
<1>2. QED
  BY <1>1, Inductive, PTL

\* No interleaving of submissions, cancellations, expiries, drains and
\* dispatches forgets a record or leaves it in two places.
THEOREM RecordsHaveOneHome == Spec => []OneHome
<1>1. IInv => OneHome
  <2> SUFFICES ASSUME IInv PROVE OneHome
    OBVIOUS
  <2>1. BoardOK(board)
    BY DEF IInv
  <2>2. board.pending = Queued
    BY <2>1 DEF BoardOK, BoardType, Queued
  <2>3. QED
    BY <2>1, <2>2 DEF BoardOK, OneHome, Dispatched, Open
<1>2. QED
  BY <1>1, Inductive, PTL

\* _prepare_worker never starts a process while another may still exist.
THEOREM OneProcessAlways == Spec => []OneProcess
<1>1. IInv => OneProcess
  BY DEF IInv
<1>2. QED
  BY <1>1, Inductive, PTL

\* A cancelled, late or failed record is only written once its worker is gone.
THEOREM TerminalOnlyAfterReap == Spec => []TerminalAfterReap
<1>1. IInv => TerminalAfterReap
  <2> SUFFICES ASSUME IInv, NEW j \in Jobs, board.status[j] \in Terminal \ {"completed"}
               PROVE  /\ cleanup[j] \in {"not_started", "reaped"}
                      /\ cleanup[j] = "not_started" <=> ranIn[j] = None
                      /\ ranIn[j] \notin live
    BY DEF TerminalAfterReap
  <2>1. /\ cleanup[j] \in {"not_started", "reaped"}
        /\ ranIn[j] = None <=> cleanup[j] = "not_started"
        /\ cleanup[j] = "reaped" => ranIn[j] \notin live
    BY DEF IInv, RecordsOK
  <2>2. None \notin live
    BY DEF IInv, OneProcess, ControlOK, None
  <2>3. QED
    BY <2>1, <2>2
<1>2. QED
  BY <1>1, Inductive, PTL

\* An unconfirmed cleanup stays visible in the active record, and the service
\* accepts nothing any more.
THEOREM UnconfirmedStaysShown == Spec => []UnconfirmedShown
<1>1. IInv => UnconfirmedShown
  BY DEF IInv
<1>2. QED
  BY <1>1, Inductive, PTL

\* A scheduler that ends with confirmed cleanup has reaped its worker and
\* answered every accepted request.
THEOREM EndsClean == Spec => []CleanEnd
<1>1. IInv => CleanEnd
  <2> SUFFICES ASSUME IInv, pc = "done", ~unconfirmed PROVE CleanEnd
    BY DEF CleanEnd
  <2>1. ~owned /\ active = None /\ board.stopping
    BY DEF IInv, ControlOK
  <2>2. live = {}
    BY <2>1 DEF IInv, OneProcess
  <2>3. ASSUME NEW j \in 1 .. records PROVE board.status[j] \in Terminal
    <3>1. j \in Jobs /\ ~(j > records)
      BY ServiceAssumption DEF IInv, TypeOK, Jobs
    <3>2. board.status[j] \in Status
      BY <3>1 DEF IInv, BoardOK, BoardType
    <3>3. board.status[j] # "absent" /\ board.status[j] # "queued"
      BY <3>1, <2>1 DEF IInv, BoardOK
    <3>4. board.status[j] \notin Open
      BY <3>1, <2>1 DEF IInv, BoardOK, Jobs, None
    <3>5. QED
      BY <3>2, <3>3, <3>4 DEF Status, Open
  <2>4. QED
    BY <2>2, <2>3 DEF CleanEnd
<1>2. QED
  BY <1>1, Inductive, PTL

\* Every record is marked stopping before the service closes the worker that
\* runs it, so no client reads "running" of a worker that is being reaped.
THEOREM NoSilentReap == Spec => NoReapUnderRunning
<1>1. IInv => [Reap => \A j \in Jobs : board.status[j] # "running"]_vars
  BY DEF IInv, PhaseOK, Reap
<1>2. QED
  BY <1>1, Inductive, PTL DEF NoReapUnderRunning

----------------------------------------------------------------------------
(* The budget of generations, and one generation for each request.         *)
(*                                                                         *)
(* Only Submit adds to the queue, under the admission test, and only       *)
(* Dispatch takes from it and counts a generation.  The request, result    *)
(* and acknowledgement packets of one worker are numbered: at any time at  *)
(* most one request is unacknowledged (Acks), where the scheduler is says  *)
(* which one (Turn), and while the worker has not started on it, nobody    *)
(* ever generated for its job (Once).                                      *)

\* The packets of the owned worker, by number.
Acks ==
  owned =>
    /\ ipc.acked <= ipc.answered /\ ipc.answered <= calls /\ calls <= ipc.acked + 1
    /\ child.pc \in {"preparing", "polling", "generating"} => child.index = ipc.answered
    /\ child.pc = "acknowledged" => child.index + 1 = ipc.answered
    /\ child.pc = "generating" => ipc.answered < calls

\* What the scheduler has written and seen of them at each of its steps.
Turn ==
  /\ owned /\ active = None => calls = ipc.acked
  /\ pc = "request" => owned /\ calls = ipc.acked
  /\ owned /\ active # None /\ pc \in {"poll", "check", "look", "collect"} =>
       calls = ipc.acked + 1
  /\ owned /\ pc \in {"decide", "finish"} /\ outcome = "completed" =>
       calls = ipc.acked + 1 /\ ipc.answered = calls
  /\ pc = "finish" /\ outcome # "completed" => ~owned
  /\ pc \in {"alive", "dispatch"} /\ ~owned => generations >= MaxGenerations
  /\ pc \in Closing /\ ret = "dispatch" => generations >= MaxGenerations

\* Generations counted by job.
Once ==
  /\ \A j \in Jobs : runs[j] <= 1 /\ (ranIn[j] = None => runs[j] = 0)
  /\ pc = "request" => runs[active] = 0
  /\ owned /\ child.pc \in {"preparing", "polling", "acknowledged"} /\ ipc.answered < calls =>
       ipc.job \in Jobs /\ runs[ipc.job] = 0 /\ ranIn[ipc.job] # None

OInv == Acks /\ Turn /\ Once

----------------------------------------------------------------------------
(* The budget.                                                             *)

\* Nothing but an admitted submission and a dispatch touches the budget.
LEMMA QuietStep ==
  ASSUME IInv, [Next]_vars, \A k \in Slots : ~Submit(k), ~Dispatch
  PROVE  /\ board'.pending \subseteq board.pending
         /\ ranIn' = ranIn /\ generations' = generations
<1> BoardOK(board) /\ active \in Jobs \cup {None}
  BY DEF IInv, TypeOK
<1>1. CASE \/ Top \/ PollWait \/ Spawn \/ SpawnFails \/ CheckReady \/ StartFailed
           \/ WorkerExited \/ Decide \/ Except \/ Close
           \/ Read \/ HttpStop \/ \E j \in Jobs : Cancel(j)
  <2>1. board'.pending \subseteq board.pending
    BY <1>1, BoardMoves DEF StatusStep
  <2>2. ranIn' = ranIn /\ generations' = generations
    BY <1>1 DEF Top, PollWait, Spawn, SpawnFails, CheckReady, StartFailed, WorkerExited,
                Decide, Except, Close, Read, HttpStop, Cancel, handlerFrame, countVars
  <2>3. QED
    BY <2>1, <2>2
<1>2. CASE CheckWait \/ LookWait \/ CheckAlive \/ SendRequest \/ Collect \/ Reaped
           \/ Finally \/ Summary \/ Reap
  BY <1>2 DEF CheckWait, LookWait, CheckAlive, SendRequest, Collect, Reaped, Finally, Summary,
              Reap, countVars
<1>3. CASE FinishActive \/ Last
  <2>1. ranIn' = ranIn /\ generations' = generations
    BY <1>3 DEF FinishActive, Last, countVars
  <2>2. \/ board' = board
        \/ \E st : board' = [board EXCEPT !.status[active] = st]
    BY <1>3 DEF FinishActive, Last, Finish
  <2>3. QED
    BY <2>1, <2>2 DEF BoardOK, BoardType
<1>4. CASE Closed
  <2>1. ranIn' = ranIn /\ generations' = generations
    BY <1>4 DEF Closed, countVars
  <2>2. CASE ~unconfirmed
    BY <1>4, <2>1, <2>2 DEF Closed
  <2>3. CASE unconfirmed
    <3> DEFINE marked == IF active = None THEN board
                         ELSE [board EXCEPT !.status[active] = "stopping"]
    <3>1. board' = StopLocked(marked, "cleanup_unconfirmed")
      BY <1>4, <2>3 DEF Closed
    <3>2. /\ marked.pending = board.pending /\ marked.stopping = board.stopping
          /\ marked.loaded = board.loaded /\ marked \in BoardType
          /\ active \in Jobs => marked.status = [board.status EXCEPT ![active] = "stopping"]
          /\ active \notin Jobs => marked = board
      <4>1. CASE active = None
        <5>1. active \notin Jobs
          BY <4>1 DEF Jobs, None
        <5>2. QED
          BY <4>1, <5>1 DEF BoardOK
      <4>2. CASE active \in Jobs
        <5>1. marked = [board EXCEPT !.status[active] = "stopping"]
          BY <4>2 DEF Jobs, None
        <5> HIDE DEF marked
        <5>2. QED
          BY <4>2, <5>1 DEF BoardOK, BoardType, Status
      <4>3. QED
        BY <4>1, <4>2
    <3> HIDE DEF marked
    <3>3. BoardOK(marked)
      BY <3>2 DEF BoardOK, BoardType, Open
    <3>4. StatusStep(marked, board')
      BY <3>1, <3>3, StopLockedOK DEF WhySet
    <3>5. QED
      BY <2>1, <3>2, <3>4 DEF StatusStep
  <2>4. QED
    BY <2>2, <2>3
<1>5. CASE Child
  BY <1>5 DEF Child, ChildReady, ChildStart, ChildResult, ChildNext, ChildStops, ChildDies,
              serviceFrame, countVars
<1>6. CASE Clock \/ Signal \/ HttpJoined
  BY <1>6 DEF Clock, Signal, HttpJoined, JobDeadline, DispatchStop, StartDeadline, clockFrame,
              countVars
<1>7. CASE UNCHANGED vars
  BY <1>7 DEF vars, countVars
<1>8. QED
  BY <1>1, <1>2, <1>3, <1>4, <1>5, <1>6, <1>7 DEF Next, Handler, Scheduler, Ended

\* A part of the queue is no longer than the queue.
LEMMA QueueSize ==
  ASSUME NEW S, S \subseteq Jobs
  PROVE  /\ IsFiniteSet(S) /\ Cardinality(S) \in Nat
         /\ \A T \in SUBSET S : Cardinality(T) \in Nat /\ Cardinality(T) <= Cardinality(S)
<1>1. IsFiniteSet(Jobs)
  BY FS_Interval, ServiceAssumption DEF Jobs
<1>2. IsFiniteSet(S)
  BY <1>1, FS_Subset
<1>3. QED
  BY <1>2, FS_Subset, FS_CardinalityType

LEMMA BudgetStep == ASSUME IInv, BudgetKept, [Next]_vars PROVE BudgetKept'
<1> DEFINE Ran == {j \in Jobs : ranIn[j] # None}
<1>t. /\ BoardOK(board) /\ active \in Jobs \cup {None} /\ board.pending \subseteq Jobs
      /\ ranIn \in [Jobs -> Nat] /\ generations \in Nat /\ MaxGenerations \in Nat
      /\ records \in Nat
  BY ServiceAssumption DEF IInv, TypeOK, BoardOK, BoardType
<1>b. /\ generations + Cardinality(board.pending) <= MaxGenerations
      /\ generations = Cardinality(Ran)
  BY DEF BudgetKept
<1>p. BoardOK(Poll(board)) /\ StatusStep(board, Poll(board))
  BY <1>t, PollOK
<1>q. Poll(board).pending \subseteq board.pending
  BY <1>p DEF StatusStep
<1>1. CASE \E k \in Slots : Submit(k)
  <2> DEFINE b == Poll(board)
             j == records + 1
  <2>1. PICK k \in Slots : Submit(k)
    BY <1>1
  <2>2. /\ Admits(b) /\ ranIn' = ranIn /\ generations' = generations
        /\ board' = [b EXCEPT !.status[j] = "queued", !.pending = @ \cup {j}]
    BY <2>1 DEF Submit, handlerFrame, countVars
  <2>3. generations + Cardinality(b.pending) < MaxGenerations
    BY <2>2 DEF Admits
  <2>4. board'.pending = b.pending \cup {j}
    BY <2>2, <1>p DEF BoardOK, BoardType
  <2>5. IsFiniteSet(b.pending) /\ Cardinality(b.pending) \in Nat
    BY <1>p, <1>q, <1>t, QueueSize
  <2>6. Cardinality(board'.pending) <= Cardinality(b.pending) + 1
    <3>1. Cardinality(b.pending \cup {j}) =
            IF j \in b.pending THEN Cardinality(b.pending) ELSE Cardinality(b.pending) + 1
      BY <2>5, FS_AddElement
    <3> HIDE DEF b, j
    <3>2. QED
      BY <2>4, <2>5, <3>1
  <2>6a. Cardinality(board'.pending) \in Nat
    BY <2>4, <2>5, FS_AddElement, FS_CardinalityType
  <2> HIDE DEF b, j
  <2>7. generations' + Cardinality(board'.pending) <= MaxGenerations
    BY <2>2, <2>3, <2>5, <2>6, <2>6a, <1>t
  <2>8. QED
    BY <2>2, <2>7, <1>b DEF BudgetKept
<1>2. CASE Dispatch
  <2> DEFINE b == Poll(board)
  <2>1. CASE board' = b /\ ranIn' = ranIn /\ generations' = generations
    <3>1. Cardinality(board'.pending) \in Nat /\ Cardinality(board'.pending) <= Cardinality(board.pending)
          /\ Cardinality(board.pending) \in Nat
      BY <2>1, <1>q, <1>t, QueueSize
    <3>2. QED
      BY <2>1, <3>1, <1>b, <1>t DEF BudgetKept
  <2>2. ASSUME NEW j \in Oldest(b.pending), generations' = generations + 1,
               board' = [b EXCEPT !.pending = @ \ {j}, !.status[j] = "running"],
               ranIn' = [ranIn EXCEPT ![j] = epoch]
        PROVE  BudgetKept'
    <3>1. j \in b.pending /\ j \in Jobs /\ j \in board.pending
      BY <1>q, <1>t DEF Oldest
    <3>2. board'.pending = b.pending \ {j}
      BY <2>2, <1>p DEF BoardOK, BoardType
    <3>3. ranIn[j] = None
      BY <3>1, <1>t DEF BoardOK, IInv, RecordsOK
    <3>4. epoch # None
      <4>1. board.status[j] # "absent"
        BY <3>1, <1>t DEF BoardOK
      <4>2. records > 0
        BY <3>1, <4>1, <1>t DEF BoardOK, Jobs
      <4>3. QED
        BY <4>2 DEF IInv, ControlOK, None
    <3>5. {i \in Jobs : ranIn'[i] # None} = Ran \cup {j}
      BY <2>2, <3>1, <3>4, <1>t
    <3>6. IsFiniteSet(Ran) /\ Cardinality(Ran) \in Nat /\ j \notin Ran
      BY <3>3, QueueSize
    <3>7. Cardinality({i \in Jobs : ranIn'[i] # None}) = generations'
      BY <3>5, <3>6, FS_AddElement, <1>b, <2>2
    <3>8. /\ IsFiniteSet(b.pending) /\ Cardinality(b.pending) \in Nat
          /\ Cardinality(board.pending) \in Nat
          /\ Cardinality(b.pending) <= Cardinality(board.pending)
      BY <1>q, <1>t, QueueSize
    <3>9. Cardinality(board'.pending) = Cardinality(b.pending) - 1
      BY <3>1, <3>2, <3>8, FS_RemoveElement
    <3>10. generations' + Cardinality(board'.pending) <= MaxGenerations
      BY <2>2, <3>8, <3>9, <1>b, <1>t
    <3>11. QED
      BY <3>7, <3>10 DEF BudgetKept
  <2>3. QED
    BY <1>2, <2>1, <2>2 DEF Dispatch
<1>3. CASE (\A k \in Slots : ~Submit(k)) /\ ~Dispatch
  <2>1. /\ board'.pending \subseteq board.pending
        /\ ranIn' = ranIn /\ generations' = generations
    BY <1>3, QuietStep
  <2>2. Cardinality(board'.pending) \in Nat /\ Cardinality(board'.pending) <= Cardinality(board.pending)
        /\ Cardinality(board.pending) \in Nat
    BY <2>1, <1>t, QueueSize
  <2>3. QED
    BY <2>1, <2>2, <1>b, <1>t DEF BudgetKept
<1>4. QED
  BY <1>1, <1>2, <1>3

\* What is dispatched and what waits never exceed max_generations, and every
\* dispatched record was counted once: an accepted request finds its generation.
THEOREM BudgetNeverOverdrawn == Spec => []BudgetKept
<1>1. Init => BudgetKept
  <2> SUFFICES ASSUME Init PROVE BudgetKept
    OBVIOUS
  <2>1. board.pending = {} /\ generations = 0
    BY DEF Init
  <2>2. {j \in Jobs : ranIn[j] # None} = {}
    BY DEF Init, None
  <2>3. QED
    BY <2>1, <2>2, FS_EmptySet, ServiceAssumption DEF BudgetKept
<1>2. IInv /\ BudgetKept /\ [Next]_vars => BudgetKept'
  BY BudgetStep
<1>3. QED
  BY <1>1, <1>2, Inductive, PTL DEF Spec

----------------------------------------------------------------------------
(* One generation for one request.                                         *)

\* What OInv reads of the worker's files and of the worker.
LEMMA Shapes ==
  ASSUME IInv
  PROVE  /\ ipc.acked \in Nat /\ ipc.answered \in Nat /\ ipc.job \in Jobs \cup {None}
         /\ child.index \in Nat /\ calls \in Nat /\ runs \in [Jobs -> Nat]
         /\ ranIn \in [Jobs -> Nat] /\ active \in Jobs \cup {None} /\ None \notin Jobs
         /\ generations \in Nat /\ MaxGenerations \in Nat /\ owned \in BOOLEAN
BY ServiceAssumption DEF IInv, TypeOK, IpcType, ChildType, Jobs, None

\* A step of a handler, of a clock, of a signal, or of the scheduler's polling
\* that changes nothing OInv is about, except the place of the scheduler.
LEMMA AsideStep ==
  ASSUME IInv, OInv,
         UNCHANGED <<owned, calls, ipc, child, active, generations, runs, ranIn>>,
         Turn', pc' = "request" => pc = "request"
  PROVE  OInv'
<1>1. Acks'
  BY DEF OInv, Acks
<1>2. Once'
  BY DEF OInv, Once
<1>3. QED
  BY <1>1, <1>2 DEF OInv

LEMMA StutterStep ==
  ASSUME IInv, OInv,
         UNCHANGED <<owned, calls, ipc, child, active, generations, runs, ranIn, pc, ret, outcome>>
  PROVE  OInv'
<1>1. Turn'
  BY DEF OInv, Turn
<1>2. QED
  BY <1>1, AsideStep

\* The handlers, the clocks and the end of the HTTP thread.
LEMMA OutsideOnce ==
  ASSUME IInv, OInv, Handler \/ Clock \/ Signal \/ HttpStop \/ HttpJoined \/ UNCHANGED vars
  PROVE  OInv'
<1>1. UNCHANGED <<owned, calls, ipc, child, active, generations, runs, ranIn, pc, ret, outcome>>
  BY DEF Handler, Submit, Read, Cancel, handlerFrame, Clock, Signal, HttpStop, HttpJoined,
         JobDeadline, DispatchStop, StartDeadline, clockFrame, vars, countVars, schedVars, workerVars
<1>2. QED
  BY <1>1, StutterStep

\* The scheduler's steps between the packets.
LEMMA BetweenOnce ==
  ASSUME IInv, OInv,
         \/ Top \/ PollWait \/ CheckWait \/ LookWait \/ CheckReady \/ StartFailed \/ CheckAlive
         \/ WorkerExited \/ Except \/ Finally \/ Summary
  PROVE  OInv'
<1> Turn /\ ControlOK
  BY DEF OInv, IInv
<1>u. UNCHANGED <<owned, calls, ipc, child, active, generations, runs, ranIn, outcome>>
  BY DEF Top, PollWait, CheckWait, LookWait, CheckReady, StartFailed, CheckAlive, WorkerExited,
         Except, Finally, Summary, countVars, workerVars
<1>1. Turn' /\ pc' # "request"
  <2>1. CASE Top
    BY <1>u, <2>1, Shapes DEF Top, Turn, Closing
  <2>2. CASE PollWait \/ CheckWait \/ LookWait
    BY <1>u, <2>2, Shapes DEF PollWait, CheckWait, LookWait, AfterWait, Turn, Closing
  <2>3. CASE CheckReady
    BY <1>u, <2>3, Shapes DEF CheckReady, WorkerReady, Alive, Turn, Closing
  <2>4. CASE CheckAlive
    BY <1>u, <2>4, Shapes DEF CheckAlive, Turn, Closing
  <2>5. CASE StartFailed \/ WorkerExited \/ Except \/ Finally \/ Summary
    BY <1>u, <2>5, Shapes DEF StartFailed, WorkerExited, Except, Finally, Summary, Turn, Closing
  <2>6. QED
    BY <2>1, <2>2, <2>3, <2>4, <2>5
<1>2. QED
  BY <1>u, <1>1, AsideStep

\* A new worker has an empty directory.
LEMMA SpawnOnce == ASSUME IInv, OInv, Spawn \/ SpawnFails PROVE OInv'
<1> Turn /\ ControlOK /\ Acks /\ Once
  BY DEF OInv, IInv
<1>1. CASE pc' = "poll"
  <2>1. /\ calls' = 0 /\ owned' = TRUE /\ child' = NewChild(MaxGenerations - generations)
        /\ ipc' = NoFiles
        /\ UNCHANGED <<active, generations, runs, ranIn, outcome, ret>> /\ pc = "prepare"
    BY <1>1 DEF Spawn, SpawnFails
  <2>2. /\ ipc'.acked = 0 /\ ipc'.answered = 0 /\ child'.pc = "preparing" /\ child'.index = 0
    BY <2>1 DEF NoFiles, NewChild
  <2>3. active = None
    BY <2>1, Shapes DEF ControlOK, Performing, Closing
  <2>4. Acks' /\ Turn' /\ Once'
    BY <1>1, <2>1, <2>2, <2>3 DEF Acks, Turn, Once, Closing
  <2>5. QED
    BY <2>4 DEF OInv
<1>2. CASE pc' # "poll"
  <2>1. /\ UNCHANGED <<active, generations, runs, ranIn, outcome, ret, owned, ipc, child>>
        /\ pc = "prepare" /\ pc' \in {"finally", "except"} /\ ~owned
    BY <1>2 DEF Spawn, SpawnFails, countVars, workerVars, ControlOK
  <2>2. Acks' /\ Turn' /\ Once'
    BY <2>1 DEF Acks, Turn, Once, Closing
  <2>3. QED
    BY <2>2 DEF OInv
<1>3. QED
  BY <1>1, <1>2

\* The oldest queued request has never run, and the packet before it is acknowledged.
LEMMA DispatchOnce == ASSUME IInv, BudgetKept, OInv, Dispatch PROVE OInv'
<1> Turn /\ ControlOK /\ Acks /\ Once
  BY DEF OInv, IInv
<1> DEFINE b == Poll(board)
<1>u. UNCHANGED <<owned, calls, ipc, child, runs, outcome, ret>> /\ pc = "dispatch"
  BY DEF Dispatch, workerVars
<1>1. CASE UNCHANGED <<active, generations, ranIn>> /\ pc' \in {"finally", "top"}
  <2>1. Turn'
    BY <1>u, <1>1 DEF Turn, Closing
  <2>2. QED
    BY <1>u, <1>1, <2>1, AsideStep
<1>2. ASSUME NEW j \in Oldest(b.pending), pc' = "request", active' = j,
             generations' = generations + 1, ranIn' = [ranIn EXCEPT ![j] = epoch]
      PROVE  OInv'
  <2>1. /\ BoardOK(board) /\ board.pending \subseteq Jobs
    BY DEF IInv, BoardOK, BoardType
  <2>2. j \in board.pending /\ j \in Jobs
    BY <2>1, PollOK, Shapes DEF Oldest, StatusStep
  <2>3. ranIn[j] = None /\ runs[j] = 0
    BY <2>1, <2>2 DEF BoardOK, IInv, RecordsOK, Once
  <2>4. owned /\ active = None /\ calls = ipc.acked
    <3>1. Cardinality(board.pending) \in Nat /\ Cardinality(board.pending) # 0
      BY <2>1, <2>2, QueueSize, FS_EmptySet
    <3>2. generations + Cardinality(board.pending) <= MaxGenerations
      BY DEF BudgetKept
    <3>3. ~(generations >= MaxGenerations)
      <4> DEFINE waiting == Cardinality(board.pending)
      <4>1. generations \in Nat /\ MaxGenerations \in Nat
        BY Shapes
      <4>2. waiting \in Nat /\ waiting # 0 /\ generations + waiting <= MaxGenerations
        BY <3>1, <3>2
      <4> HIDE DEF waiting
      <4>3. QED
        BY <4>1, <4>2
    <3>4. active = None
      BY <1>u DEF ControlOK, Performing, Closing
    <3>5. owned
      BY <1>u, <3>3 DEF Turn
    <3>6. QED
      BY <3>4, <3>5 DEF Turn
  <2>5. Acks'
    BY <1>u DEF Acks
  <2>6. Turn'
    BY <1>u, <1>2, <2>4 DEF Turn, Closing
  <2>7. \A k \in Jobs : k # j => ranIn'[k] = ranIn[k]
    BY <1>2, Shapes
  <2>8. Once'
    BY <1>u, <1>2, <2>2, <2>3, <2>7 DEF Once
  <2>9. QED
    BY <2>5, <2>6, <2>8 DEF OInv
<1>3. QED
  BY <1>1, <1>2 DEF Dispatch

\* The request packet names a job that never ran.
LEMMA SendRequestOnce == ASSUME IInv, OInv, SendRequest PROVE OInv'
<1> Turn /\ ControlOK /\ Acks /\ Once
  BY DEF OInv, IInv
<1>u. /\ UNCHANGED <<owned, child, active, generations, runs, ranIn, ret>>
      /\ pc = "request" /\ outcome' = "infrastructure_error"
  BY DEF SendRequest
<1>0. owned /\ calls = ipc.acked /\ active \in Jobs /\ runs[active] = 0 /\ ranIn[active] # None
  BY <1>u, Shapes DEF Turn, ControlOK, Performing, Once, IInv, RecordsOK
<1>1. CASE pc' = "poll"
  <2>1. calls' = calls + 1 /\ ipc' = [ipc EXCEPT !.job = active]
    BY <1>1 DEF SendRequest
  <2>2. ipc'.acked = ipc.acked /\ ipc'.answered = ipc.answered /\ ipc'.job = active
    BY <2>1 DEF IInv, TypeOK, IpcType
  <2>3. Acks'
    BY <1>u, <1>0, <2>1, <2>2, Shapes DEF Acks
  <2>4. Turn'
    BY <1>u, <1>0, <1>1, <2>1, <2>2, Shapes DEF Turn, Closing
  <2>5. Once'
    BY <1>u, <1>0, <1>1, <2>2 DEF Once
  <2>6. QED
    BY <2>3, <2>4, <2>5 DEF OInv
<1>2. CASE pc' # "poll"
  <2>1. pc' = "decide" /\ UNCHANGED <<calls, ipc>>
    BY <1>2 DEF SendRequest
  <2>2. Turn'
    BY <1>u, <1>0, <2>1, Shapes DEF Turn, Closing
  <2>3. QED
    BY <1>u, <2>1, <2>2, AsideStep
<1>3. QED
  BY <1>1, <1>2

\* An outcome is "completed" only with the answer of the last packet written.
LEMMA CollectOnce == ASSUME IInv, OInv, Collect \/ Decide \/ Reaped PROVE OInv'
<1> Turn /\ ControlOK
  BY DEF OInv, IInv
<1>u. UNCHANGED <<owned, calls, ipc, child, active, generations, runs, ranIn>>
  BY DEF Collect, Decide, Reaped, countVars, workerVars
<1>1. Turn' /\ pc' # "request"
  <2>1. CASE Collect
    <3>1. pc = "collect" /\ pc' = "decide" /\ ret' = ret
          /\ (outcome' = "completed" => ipc.answered = calls)
      BY <2>1 DEF Collect
    <3>2. active # None
      BY <3>1 DEF ControlOK, Performing
    <3>3. QED
      BY <1>u, <3>1, <3>2, Shapes DEF Turn, Closing
  <2>2. CASE Decide
    <3>1. /\ pc = "decide" /\ ret' = "reaped" /\ pc' \in {"finish", "close"}
          /\ (outcome' = "completed" => outcome = "completed")
          /\ (pc' = "finish" <=> outcome' = "completed")
      BY <2>2 DEF Decide, Decided
    <3>2. QED
      BY <1>u, <3>1, Shapes DEF Turn, Closing
  <2>3. CASE Reaped
    <3>1. /\ pc = "reaped" /\ ret' = ret /\ pc' \in {"top", "finish"}
          /\ (pc' = "finish" => ~unconfirmed)
      BY <2>3 DEF Reaped
    <3>2. pc' = "finish" => ~owned
      BY <3>1 DEF ControlOK
    <3>3. QED
      BY <1>u, <3>1, <3>2, Shapes DEF Turn, Closing
  <2>4. QED
    BY <2>1, <2>2, <2>3
<1>2. QED
  BY <1>u, <1>1, AsideStep

\* The acknowledgement follows its answer.
LEMMA FinishOnce == ASSUME IInv, OInv, FinishActive PROVE OInv'
<1> Turn /\ ControlOK /\ Acks /\ Once
  BY DEF OInv, IInv
<1>u. /\ UNCHANGED <<owned, child, calls, generations, runs, ranIn, ret>>
      /\ pc = "finish" /\ pc' \in {"top", "except"} /\ outcome' = "none"
  BY DEF FinishActive, countVars
<1>1. CASE UNCHANGED ipc
  <2>1. active' = None => ~owned
    BY <1>1, <1>u DEF FinishActive, Turn, IInv, TypeOK, IpcType, ControlOK, Performing
  <2>2. active' = active \/ active' = None
    BY DEF FinishActive
  <2>3. Acks' /\ Turn' /\ Once'
    BY <1>1, <1>u, <2>1, <2>2, Shapes DEF Acks, Turn, Once, Closing
  <2>4. QED
    BY <2>3 DEF OInv
<1>2. CASE ~UNCHANGED ipc
  <2>1. outcome = "completed" /\ ipc' = [ipc EXCEPT !.acked = @ + 1] /\ pc' = "top"
    BY <1>2 DEF FinishActive
  <2>2. ipc'.acked = ipc.acked + 1 /\ ipc'.answered = ipc.answered /\ ipc'.job = ipc.job
    BY <2>1 DEF IInv, TypeOK, IpcType
  <2>3. owned => calls = ipc.acked + 1 /\ ipc.answered = calls
    BY <1>u, <2>1 DEF Turn
  <2>4. Acks'
    BY <1>u, <2>2, <2>3, Shapes DEF Acks
  <2>5. Turn'
    BY <1>u, <2>1, <2>2, <2>3 DEF Turn, Closing
  <2>6. Once'
    BY <1>u, <2>1, <2>2 DEF Once
  <2>7. QED
    BY <2>4, <2>5, <2>6 DEF OInv
<1>3. QED
  BY <1>1, <1>2

\* Closing a worker, and the end of the scheduler.
LEMMA ClosingOnce == ASSUME IInv, OInv, Close \/ Reap \/ Closed \/ Last PROVE OInv'
<1> Turn /\ ControlOK /\ Acks /\ Once
  BY DEF OInv, IInv
<1>u. UNCHANGED <<calls, child, generations, runs, ranIn, outcome>>
  BY DEF Close, Reap, Closed, Last, countVars, workerVars
<1>i. ipc'.acked = ipc.acked /\ ipc'.answered = ipc.answered /\ ipc'.job = ipc.job
  BY DEF Close, Reap, Closed, Last, workerVars, IInv, TypeOK, IpcType
<1>o. owned' => owned
  BY DEF Close, Reap, Closed, Last
<1>r. pc' \notin {"request", "poll", "check", "look", "collect", "decide", "finish", "alive"}
  BY DEF Close, Reap, Closed, Last, IInv, TypeOK, SchedType, ControlOK, Closing
<1>1. Acks'
  BY <1>u, <1>i, <1>o DEF Acks
<1>2. Once'
  BY <1>u, <1>i, <1>o, <1>r DEF Once
<1>3. Turn'
  <2>1. owned' /\ active' = None => calls = ipc.acked
    BY <1>o DEF Close, Reap, Closed, Last, ControlOK, Turn
  <2>2. pc' = "dispatch" /\ ~owned' => generations >= MaxGenerations
    BY DEF Close, Reap, Closed, Last, Turn, Closing
  <2>3. pc' \in Closing /\ ret' = "dispatch" => generations >= MaxGenerations
    BY DEF Close, Reap, Closed, Last, Turn, Closing
  <2>4. QED
    BY <1>u, <1>i, <1>r, <2>1, <2>2, <2>3 DEF Turn
<1>4. QED
  BY <1>1, <1>2, <1>3 DEF OInv

\* A worker starts on a packet once, answers it once and waits for its
\* acknowledgement.
LEMMA ChildOnce == ASSUME IInv, OInv, Child PROVE OInv'
<1> Turn /\ ControlOK /\ Acks /\ Once
  BY DEF OInv, IInv
<1>u. UNCHANGED <<owned, calls, active, generations, ranIn, pc, ret, outcome>>
  BY DEF Child, ChildReady, ChildStart, ChildResult, ChildNext, ChildStops, ChildDies,
         serviceFrame, countVars, schedVars
<1>t. ipc \in IpcType /\ child \in ChildType
  BY DEF IInv, TypeOK
<1>o. epoch \in live => owned
  BY DEF IInv, OneProcess
<1>1. ASSUME NEW kind \in {"ok", "mismatch", "error"}, ChildReady(kind) PROVE OInv'
  <2>1. /\ ipc'.acked = ipc.acked /\ ipc'.answered = ipc.answered /\ ipc'.job = ipc.job
        /\ child.pc = "preparing" /\ child'.pc = "polling" /\ child'.index = child.index
        /\ runs' = runs /\ owned
    BY <1>1, <1>t, <1>o DEF ChildReady, Running, IpcType, ChildType
  <2>2. Acks' /\ Turn' /\ Once'
    BY <1>u, <2>1 DEF Acks, Turn, Once
  <2>3. QED
    BY <2>2 DEF OInv
<1>2. CASE ChildStart
  <2>1. /\ ipc' = ipc /\ child.pc = "polling" /\ child'.pc = "generating"
        /\ child'.index = child.index /\ child.index < calls /\ owned
        /\ runs' = [runs EXCEPT ![ipc.job] = @ + 1]
    BY <1>2, <1>t, <1>o DEF ChildStart, Running, ChildType
  <2>2. ipc.answered < calls
    BY <2>1 DEF Acks
  <2>3. ipc.job \in Jobs /\ runs[ipc.job] = 0 /\ ranIn[ipc.job] # None
    BY <2>1, <2>2 DEF Once
  <2>4. pc # "request"
    BY <2>1, <2>2, Shapes DEF Turn, Acks
  <2>5. runs'[ipc.job] = 1 /\ \A j \in Jobs : j # ipc.job => runs'[j] = runs[j]
    BY <2>1, <2>3, Shapes
  <2>6. Acks' /\ Turn'
    BY <1>u, <2>1, <2>2 DEF Acks, Turn
  <2>7. Once'
    BY <1>u, <2>1, <2>3, <2>4, <2>5 DEF Once
  <2>8. QED
    BY <2>6, <2>7 DEF OInv
<1>3. ASSUME NEW kind \in Outputs, ChildResult(kind) PROVE OInv'
  <2>1. /\ ipc'.acked = ipc.acked /\ ipc'.answered = ipc.answered + 1
        /\ child.pc = "generating" /\ child'.pc = "acknowledged" /\ child'.index = child.index
        /\ runs' = runs /\ owned
    BY <1>3, <1>t, <1>o DEF ChildResult, Running, IpcType, ChildType
  <2>2. ipc.answered < calls /\ calls <= ipc.acked + 1 /\ ipc.acked <= ipc.answered
        /\ child.index = ipc.answered
    BY <2>1 DEF Acks
  <2>3. ipc'.answered = calls /\ ipc.acked = ipc.answered
    BY <2>1, <2>2, Shapes
  <2>4. Acks'
    BY <1>u, <2>1, <2>2, <2>3, Shapes DEF Acks
  <2>5. Turn'
    BY <1>u, <2>1, <2>2, <2>3, Shapes DEF Turn
  <2>6. Once'
    BY <1>u, <2>1, <2>3, Shapes DEF Once
  <2>7. QED
    BY <2>4, <2>5, <2>6 DEF OInv
<1>4. CASE ChildNext
  <2>1. /\ ipc' = ipc /\ runs' = runs /\ owned /\ child.pc = "acknowledged"
        /\ child'.index = child.index + 1 /\ child'.pc \in {"polling", "exhausted"}
    BY <1>4, <1>t, <1>o DEF ChildNext, Running, ChildType
  <2>2. Acks' /\ Turn' /\ Once'
    BY <1>u, <2>1 DEF Acks, Turn, Once
  <2>3. QED
    BY <2>2 DEF OInv
<1>5. CASE ChildStops \/ ChildDies
  BY <1>5, <1>u, StutterStep DEF ChildStops, ChildDies
<1>6. QED
  BY <1>1, <1>2, <1>3, <1>4, <1>5 DEF Child

LEMMA OnceStep == ASSUME IInv, BudgetKept, OInv, [Next]_vars PROVE OInv'
BY OutsideOnce, BetweenOnce, SpawnOnce, DispatchOnce, SendRequestOnce, CollectOnce, FinishOnce,
   ClosingOnce, ChildOnce
   DEF Next, Scheduler, Ended

LEMMA OnceInit == Init => OInv
<1> SUFFICES ASSUME Init PROVE OInv
  OBVIOUS
<1>1. ~owned /\ pc = "top" /\ (\A j \in Jobs : runs[j] = 0)
  BY DEF Init
<1>2. QED
  BY <1>1 DEF OInv, Acks, Turn, Once, Closing

\* A step that accepts, dispatches and finishes nothing.
Quiet ==
  /\ StatusStep(board, board')
  /\ \A j \in Jobs : cleanup'[j] = cleanup[j] \/ j = active
  /\ UNCHANGED <<active, slot, records>>

LEMMA StepKinds ==
  ASSUME IInv, [Next]_vars
  PROVE  \/ Quiet
         \/ \E k \in Slots : Submit(k)
         \/ Dispatch \/ FinishActive \/ Last \/ Closed
<1>1. StatusStep(board, board)
  BY DEF StatusStep
<1>2. CASE \/ Top \/ PollWait \/ Spawn \/ SpawnFails \/ CheckReady \/ StartFailed
           \/ WorkerExited \/ Decide \/ Except \/ Close
           \/ Read \/ HttpStop \/ \E j \in Jobs : Cancel(j)
  <2>1. StatusStep(board, board')
    BY <1>2, BoardMoves
  <2>2. UNCHANGED <<cleanup, active, slot, records>>
    BY <1>2 DEF Top, PollWait, Spawn, SpawnFails, CheckReady, StartFailed, WorkerExited, Decide,
                Except, Close, Read, HttpStop, Cancel, envFrame, handlerFrame, recordVars
  <2>3. QED
    BY <2>1, <2>2 DEF Quiet
<1>3. CASE \/ CheckWait \/ LookWait \/ CheckAlive \/ SendRequest \/ Collect \/ Finally \/ Summary
           \/ Reap \/ Child \/ Clock \/ Signal \/ HttpJoined \/ UNCHANGED vars
  <2>1. UNCHANGED <<board, cleanup, active, slot, records>>
    BY <1>3 DEF CheckWait, LookWait, CheckAlive, SendRequest, Collect, Finally, Summary, Reap,
                Child, ChildReady, ChildStart, ChildResult, ChildNext, ChildStops, ChildDies,
                Clock, JobDeadline, DispatchStop, StartDeadline, Signal, HttpJoined,
                envFrame, serviceFrame, clockFrame, recordVars, vars
  <2>2. QED
    BY <1>1, <2>1 DEF Quiet
<1>4. CASE Reaped
  <2>1. UNCHANGED <<board, active, slot, records>>
    BY <1>4 DEF Reaped, envFrame, recordVars
  <2>2. \A j \in Jobs : cleanup'[j] = cleanup[j] \/ j = active
    BY <1>4 DEF Reaped, IInv, TypeOK
  <2>3. QED
    BY <1>1, <2>1, <2>2 DEF Quiet
<1>5. QED
  BY <1>2, <1>3, <1>4 DEF Next, Handler, Scheduler, Ended

\* A record becomes completed only where the scheduler records that outcome.
LEMMA BecomesCompleted ==
  ASSUME IInv, [Next]_vars, NEW j \in Jobs,
         board'.status[j] = "completed", board.status[j] # "completed"
  PROVE  FinishActive /\ outcome = "completed"
<1> BoardOK(board) /\ active \in Jobs \cup {None} /\ None \notin Jobs
  BY Shapes DEF IInv
<1>p. BoardOK(Poll(board)) /\ StatusStep(board, Poll(board))
  BY PollOK
<1>1. CASE Quiet
  BY <1>1 DEF Quiet, StatusStep, Unstarted
<1>2. ASSUME NEW k \in Slots, Submit(k) PROVE FALSE
  <2> DEFINE b == Poll(board)
  <2>1. board' = [b EXCEPT !.status[records + 1] = "queued", !.pending = @ \cup {records + 1}]
    BY <1>2 DEF Submit
  <2>2. board'.status[j] = "queued" \/ board'.status[j] = b.status[j]
    BY <1>p, <2>1 DEF BoardOK, BoardType
  <2>3. QED
    BY <1>p, <2>2 DEF StatusStep, Unstarted
<1>3. CASE Dispatch
  <2> DEFINE b == Poll(board)
  <2>1. \/ board' = b
        \/ \E i \in Oldest(b.pending) :
             board' = [b EXCEPT !.pending = @ \ {i}, !.status[i] = "running"]
    BY <1>3 DEF Dispatch
  <2>2. b \in BoardType /\ StatusStep(board, b)
    BY <1>p DEF BoardOK
  <2> HIDE DEF b
  <2>3. board'.status[j] = "running" \/ board'.status[j] = b.status[j]
    <3>1. CASE board' = b
      BY <3>1
    <3>2. ASSUME NEW i \in Oldest(b.pending),
                 board' = [b EXCEPT !.pending = @ \ {i}, !.status[i] = "running"]
          PROVE  board'.status[j] = "running" \/ board'.status[j] = b.status[j]
      BY <2>2, <3>2 DEF BoardType
    <3>3. QED
      BY <2>1, <3>1, <3>2
  <2>4. QED
    BY <2>2, <2>3 DEF StatusStep, Unstarted
<1>4. CASE FinishActive
  <2>1. board' = board \/ board' = [board EXCEPT !.status[active] = outcome]
    BY <1>4 DEF FinishActive, Finish
  <2>2. board'.status[j] = outcome \/ board'.status[j] = board.status[j]
    BY <2>1 DEF BoardOK, BoardType
  <2>3. QED
    BY <1>4, <2>2
<1>5. CASE Last
  <2>1. board' = board \/ board' = [board EXCEPT !.status[active] = "infrastructure_error"]
    BY <1>5 DEF Last, Finish
  <2>2. QED
    BY <2>1 DEF BoardOK, BoardType
<1>6. CASE Closed
  <2>1. CASE ~unconfirmed
    BY <1>6, <2>1 DEF Closed
  <2>2. CASE unconfirmed
    <3> DEFINE marked == IF active = None THEN board
                         ELSE [board EXCEPT !.status[active] = "stopping"]
    <3>1. board' = StopLocked(marked, "cleanup_unconfirmed")
      BY <1>6, <2>2 DEF Closed
    <3>2. marked.status[j] # "completed" /\ BoardOK(marked)
      <4>1. CASE active = None
        BY <4>1
      <4>2. CASE active \in Jobs
        BY <4>2 DEF BoardOK, BoardType, Open, Status
      <4>3. QED
        BY <4>1, <4>2
    <3> HIDE DEF marked
    <3>3. StatusStep(marked, board')
      BY <3>1, <3>2, StopLockedOK DEF WhySet
    <3>4. QED
      BY <3>2, <3>3 DEF StatusStep, Unstarted
  <2>3. QED
    BY <2>1, <2>2
<1>7. QED
  BY <1>1, <1>2, <1>3, <1>4, <1>5, <1>6, StepKinds

\* A record whose generation is still to be answered was given to this worker,
\* and is not completed.
Fresh ==
  /\ pc = "request" => ranIn[active] = epoch /\ board.status[active] # "completed"
  /\ owned /\ ipc.answered < calls =>
       /\ ipc.job \in Jobs
       /\ ranIn[ipc.job] = epoch
       /\ board.status[ipc.job] # "completed"

LEMMA FreshStep == ASSUME IInv, OInv, Fresh, [Next]_vars PROVE Fresh'
<1> Turn /\ ControlOK /\ Acks /\ BoardOK(board)
  BY DEF OInv, IInv
<1>t. ipc \in IpcType /\ owned \in BOOLEAN /\ active \in Jobs \cup {None} /\ None \notin Jobs
  BY Shapes DEF IInv, TypeOK
<1>1. CASE Spawn \/ SpawnFails
  <2>1. pc' # "request" /\ (~owned' \/ (calls' = 0 /\ ipc'.answered = 0))
    BY <1>1 DEF Spawn, SpawnFails, NoFiles, ControlOK, workerVars
  <2>2. QED
    BY <2>1 DEF Fresh
<1>2. CASE Dispatch
  <2>1. CASE board' = Poll(board) /\ UNCHANGED <<active, ranIn>> /\ pc' \in {"finally", "top"}
    <3>1. UNCHANGED <<owned, calls, ipc, epoch>>
      BY <1>2 DEF Dispatch, workerVars
    <3>2. StatusStep(board, board')
      BY <1>t, <2>1, PollOK
    <3>3. QED
      BY <2>1, <3>1, <3>2 DEF Fresh, StatusStep, Unstarted
  <2>2. ASSUME NEW j \in Oldest(Poll(board).pending), pc' = "request", active' = j,
               board' = [Poll(board) EXCEPT !.pending = @ \ {j}, !.status[j] = "running"],
               ranIn' = [ranIn EXCEPT ![j] = epoch]
        PROVE  Fresh'
    <3>1. UNCHANGED <<owned, calls, ipc, epoch>> /\ pc = "dispatch"
      BY <1>2 DEF Dispatch, workerVars
    <3>2. BoardOK(Poll(board)) /\ StatusStep(board, Poll(board))
      BY <1>t, PollOK
    <3>3. j \in Jobs
      BY <3>2 DEF Oldest, BoardOK, BoardType
    <3>4. ranIn'[j] = epoch' /\ board'.status[j] = "running"
      BY <2>2, <3>1, <3>2, <3>3, Shapes DEF BoardOK, BoardType
    <3>5. active = None
      BY <3>1 DEF ControlOK, Performing, Closing
    <3>6. ~(owned /\ ipc.answered < calls)
      BY <3>5, Shapes DEF Turn, Acks
    <3>7. QED
      BY <2>2, <3>1, <3>4, <3>6 DEF Fresh
  <2>3. QED
    BY <1>2, <2>1, <2>2 DEF Dispatch
<1>3. CASE SendRequest
  <2>1. pc = "request" /\ UNCHANGED <<board, owned, active, ranIn, epoch>>
    BY <1>3 DEF SendRequest
  <2>2. active \in Jobs
    BY <2>1, <1>t DEF ControlOK, Performing
  <2>3. \/ pc' = "poll" /\ ipc'.job = active
        \/ pc' = "decide" /\ UNCHANGED <<calls, ipc>>
    BY <1>3, <1>t DEF SendRequest, IpcType
  <2>4. QED
    BY <2>1, <2>2, <2>3 DEF Fresh
<1>4. CASE FinishActive
  <2>1. /\ pc = "finish" /\ pc' # "request" /\ UNCHANGED <<owned, calls, ranIn, epoch>>
        /\ ipc'.answered = ipc.answered /\ ipc'.job = ipc.job
    BY <1>4, <1>t DEF FinishActive, IpcType, countVars
  <2>2. CASE outcome = "completed"
    <3>1. ~(owned /\ ipc.answered < calls)
      BY <2>1, <2>2, Shapes DEF Turn
    <3>2. QED
      BY <2>1, <3>1 DEF Fresh
  <2>3. CASE outcome # "completed"
    <3>1. \A j \in Jobs : board'.status[j] = "completed" => board.status[j] = "completed"
      BY <2>3, <1>4, BecomesCompleted
    <3>2. QED
      BY <2>1, <3>1 DEF Fresh
  <2>4. QED
    BY <2>2, <2>3
<1>5. CASE ~(Spawn \/ SpawnFails \/ Dispatch \/ SendRequest \/ FinishActive)
  <2>1. /\ UNCHANGED <<ranIn, epoch, calls>> /\ (owned' => owned)
        /\ ipc'.job = ipc.job /\ (owned => ipc'.answered >= ipc.answered)
        /\ (pc' = "request" => pc = "request" /\ active' = active)
    <3>1. CASE Child
      <4>1. UNCHANGED <<ranIn, epoch, calls, owned, pc, active>>
        BY <3>1 DEF Child, ChildReady, ChildStart, ChildResult, ChildNext, ChildStops, ChildDies,
                    serviceFrame, countVars, schedVars
      <4>2. \/ ipc' = ipc
            \/ \E kind \in {"ok", "mismatch", "error"} : ipc' = [ipc EXCEPT !.ready = kind]
            \/ \E kind \in Outputs : ipc' = [ipc EXCEPT !.answered = @ + 1, !.result = kind]
        BY <3>1 DEF Child, ChildReady, ChildStart, ChildResult, ChildNext, ChildStops, ChildDies
      <4>3. ipc'.job = ipc.job /\ (ipc'.answered = ipc.answered \/ ipc'.answered = ipc.answered + 1)
        BY <1>t, <4>2 DEF IpcType
      <4>4. QED
        BY <4>1, <4>3, Shapes
    <3>2. CASE Handler \/ Clock \/ Signal \/ HttpStop \/ HttpJoined \/ UNCHANGED vars
      BY <3>2, <1>t DEF Handler, Submit, Read, Cancel, handlerFrame, Clock, JobDeadline, DispatchStop,
                  StartDeadline, Signal, HttpStop, HttpJoined, clockFrame, countVars, schedVars,
                  workerVars, vars, IpcType
    <3>3. CASE \/ Top \/ PollWait \/ CheckWait \/ LookWait \/ CheckReady \/ StartFailed
               \/ CheckAlive \/ WorkerExited \/ Except \/ Finally \/ Summary
               \/ Collect \/ Decide \/ Reaped
      BY <3>3, <1>t DEF Top, PollWait, CheckWait, LookWait, CheckReady, StartFailed, CheckAlive,
                  WorkerExited, Except, Finally, Summary, Collect, Decide, Reaped, AfterWait,
                  countVars, workerVars, IpcType
    <3>4. CASE Close \/ Reap \/ Closed \/ Last
      <4>1. pc' # "request"
        BY <3>4 DEF Close, Reap, Closed, Last, IInv, TypeOK, SchedType
      <4>2. QED
        BY <3>4, <4>1, <1>t DEF Close, Reap, Closed, Last, countVars, workerVars, IpcType
    <3>5. QED
      BY <1>5, <3>1, <3>2, <3>3, <3>4 DEF Next, Scheduler, Ended
  <2>2. \A j \in Jobs : board'.status[j] = "completed" => board.status[j] = "completed"
    BY <1>5, BecomesCompleted
  <2>3. pc = "request" => active \in Jobs
    BY <1>t DEF ControlOK, Performing
  <2>4. owned' /\ ipc'.answered < calls' => owned /\ ipc.answered < calls
    <3>1. ipc'.answered \in Nat
      BY StepOK, Shapes DEF IInv, TypeOK, IpcType
    <3>2. QED
      BY <2>1, <3>1, Shapes
  <2>5. QED
    BY <2>1, <2>2, <2>3, <2>4 DEF Fresh
<1>6. QED
  BY <1>1, <1>2, <1>3, <1>4, <1>5

\* The record of a generation is open: a record that ended otherwise than
\* completed has lost its worker first.
LEMMA FreshIsOpen == ASSUME IInv, OInv, Fresh, TerminalAfterReap PROVE AtMostOnce
<1>1. ASSUME Running("generating")
      PROVE  ranIn[ipc.job] = epoch /\ ipc.job \in Dispatched
  <2>1. epoch \in live /\ owned /\ child.pc = "generating"
    BY <1>1 DEF Running, IInv, OneProcess
  <2>2. ipc.job \in Jobs /\ ranIn[ipc.job] = epoch /\ board.status[ipc.job] # "completed"
    BY <2>1 DEF OInv, Acks, Fresh
  <2>3. board.status[ipc.job] \notin Terminal
    BY <2>1, <2>2 DEF TerminalAfterReap
  <2>4. epoch # None
    BY <2>1 DEF IInv, ControlOK, None
  <2>5. board.status[ipc.job] \notin {"absent", "queued"}
    BY <2>2, <2>4 DEF IInv, RecordsOK
  <2>6. board.status[ipc.job] \in Status
    BY <2>2 DEF IInv, BoardOK, BoardType
  <2>7. QED
    BY <2>2, <2>3, <2>5, <2>6 DEF Dispatched, Status
<1>2. QED
  BY <1>1 DEF OInv, Once, AtMostOnce

\* No accepted request is ever generated twice, nor one that was not
\* dispatched, and a worker generates only for an open record it was given,
\* whatever clients, deadlines, signals, the disk and the worker do.
THEOREM GeneratedAtMostOnce == Spec => []AtMostOnce
<1>1. Init => OInv /\ Fresh
  BY OnceInit DEF Init, Fresh
<1>2. IInv /\ BudgetKept /\ OInv /\ Fresh /\ [Next]_vars => OInv' /\ Fresh'
  BY OnceStep, FreshStep
<1>3. IInv /\ OInv /\ Fresh /\ TerminalAfterReap => AtMostOnce
  BY FreshIsOpen
<1>4. QED
  BY <1>1, <1>2, <1>3, Inductive, BudgetNeverOverdrawn, TerminalOnlyAfterReap, PTL DEF Spec

----------------------------------------------------------------------------
(* The service implements Requests.                                        *)

\* Without disk faults the active record is never terminal: _finish and the
\* release of the active slot are one step.
ActiveOpen == active \in Jobs => board.status[active] \notin Terminal

RInv == IInv /\ ActiveOpen

\* A step that ends the active record, or gives up on its cleanup.
EndsActive ==
  /\ \A j \in Jobs :
       \/ board'.status[j] = board.status[j]
       \/ board.status[j] = "queued" /\ board'.status[j] \in Unstarted
       \/ /\ j = active
          /\ \/ board.status[j] = "running" /\ board'.status[j] = "completed"
             \/ board.status[j] = "stopping" /\ board'.status[j] \in Terminal
  /\ \A j \in Jobs : cleanup'[j] = cleanup[j] \/ j = active
  /\ board.stopping => board'.stopping
  /\ \/ active' = None
     \/ UNCHANGED active /\ (active \in Jobs => board'.status[active] = board.status[active])
  /\ UNCHANGED <<slot, records>>

LEMMA Finishing ==
  ASSUME ~DiskFaults, RInv, FinishActive \/ Last \/ Closed
  PROVE  EndsActive
<1> /\ IInv /\ ActiveOpen /\ BoardOK(board) /\ ControlOK /\ PhaseOK /\ TypeOK
    /\ active \in Jobs \cup {None}
  BY DEF RInv, IInv, TypeOK
<1> None \notin Jobs
  BY DEF None, Jobs
<1>o. active \in Jobs => board.status[active] \in Open
  BY DEF BoardOK, BoardType, ActiveOpen, Status, Open
<1>1. CASE FinishActive
  <2>1. /\ board' = Finish(board, active, outcome) /\ active' = None /\ pc = "finish"
        /\ UNCHANGED <<cleanup, slot, records>>
    BY <1>1 DEF FinishActive, envFrame, recordVars
  <2>2. active \in Jobs /\ outcome \in Terminal
    BY <2>1 DEF ControlOK, Performing, TypeOK, SchedType, Terminal
  <2>3. board' = [board EXCEPT !.status[active] = outcome]
    BY <2>1, <2>2 DEF ActiveOpen, Finish
  <2>4. /\ board'.stopping = board.stopping /\ board'.status[active] = outcome
        /\ \A j \in Jobs \ {active} : board'.status[j] = board.status[j]
    BY <2>2, <2>3 DEF BoardOK, BoardType
  <2>5. board.status[active] = "running" => outcome = "completed"
    BY <2>1 DEF PhaseOK
  <2>6. \/ board.status[active] = "running" /\ board'.status[active] = "completed"
        \/ board.status[active] = "stopping" /\ board'.status[active] \in Terminal
    BY <1>o, <2>2, <2>4, <2>5 DEF Open
  <2>7. \A j \in Jobs : cleanup'[j] = cleanup[j] \/ j = active
    BY <2>1
  <2>8. QED
    BY <2>1, <2>2, <2>4, <2>6, <2>7 DEF EndsActive
<1>2. CASE Last
  <2>0. pc = "last" /\ UNCHANGED <<slot, records>>
    BY <1>2 DEF Last, envFrame, recordVars
  <2>1. CASE active = None \/ unconfirmed
    BY <1>2, <2>0, <2>1 DEF Last, EndsActive
  <2>2. CASE active # None /\ ~unconfirmed
    <3>1. /\ board' = Finish(board, active, "infrastructure_error") /\ active' = None
          /\ cleanup' = [cleanup EXCEPT ![active] = "reaped"]
      BY <1>2, <2>2 DEF Last
    <3>2. active \in Jobs
      BY <2>2
    <3>3. board' = [board EXCEPT !.status[active] = "infrastructure_error"]
      BY <3>1, <3>2 DEF ActiveOpen, Finish
    <3>4. /\ board'.stopping = board.stopping
          /\ board'.status[active] = "infrastructure_error"
          /\ \A j \in Jobs \ {active} : board'.status[j] = board.status[j]
      BY <3>2, <3>3 DEF BoardOK, BoardType
    <3>5. board.status[active] = "stopping"
      BY <1>o, <2>0, <3>2 DEF PhaseOK, Open
    <3>6. \A j \in Jobs : cleanup'[j] = cleanup[j] \/ j = active
      BY <3>1 DEF TypeOK
    <3>7. board'.status[active] \in Terminal
      BY <3>4 DEF Terminal, Outcomes
    <3>8. QED
      BY <2>0, <3>1, <3>2, <3>4, <3>5, <3>6, <3>7 DEF EndsActive
  <2>3. QED
    BY <2>1, <2>2
<1>3. CASE Closed
  <2>0. pc = "closed" /\ UNCHANGED <<active, slot, records>>
    BY <1>3 DEF Closed, envFrame, recordVars
  <2>1. CASE ~unconfirmed
    BY <1>3, <2>0, <2>1 DEF Closed, EndsActive
  <2>2. CASE unconfirmed
    <3> DEFINE marked == IF active = None THEN board
                         ELSE [board EXCEPT !.status[active] = "stopping"]
    <3>1. /\ board' = StopLocked(marked, "cleanup_unconfirmed")
          /\ cleanup' = IF active = None THEN cleanup
                        ELSE [cleanup EXCEPT ![active] = "unconfirmed"]
      BY <1>3, <2>2 DEF Closed
    <3>2. active \in Jobs => board.status[active] = "stopping"
      BY <1>o, <2>0 DEF PhaseOK, Open
    <3>3. marked = board
      <4>1. ASSUME active \in Jobs PROVE [board EXCEPT !.status[active] = "stopping"] = board
        <5>1. [board.status EXCEPT ![active] = "stopping"] = board.status
          BY <3>2, <4>1 DEF BoardOK, BoardType
        <5>2. QED
          BY <5>1 DEF BoardOK, BoardType
      <4>2. QED
        BY <4>1
    <3> HIDE DEF marked
    <3>4. StatusStep(board, board')
      BY <3>1, <3>3, StopLockedOK DEF WhySet
    <3>5. \A j \in Jobs : cleanup'[j] = cleanup[j] \/ j = active
      BY <3>1 DEF TypeOK
    <3>6. active \in Jobs => board'.status[active] = "stopping"
      BY <3>2, <3>4 DEF StatusStep
    <3>7. QED
      BY <2>0, <3>2, <3>4, <3>5, <3>6 DEF EndsActive, StatusStep
  <2>3. QED
    BY <2>1, <2>2
<1>4. QED
  BY <1>1, <1>2, <1>3

\* Submit adds one queued record to what _poll left.
LEMMA Accepting ==
  ASSUME RInv, NEW k \in Slots, Submit(k)
  PROVE  LET b == Poll(board)
             j == records + 1
         IN  /\ BoardOK(b) /\ StatusStep(board, b) /\ ~b.stopping /\ records < MaxRecords
             /\ \A i \in 1 .. records : slot[i] # k
             /\ j \in Jobs /\ j # active /\ records' = j
             /\ slot' = [slot EXCEPT ![j] = k]
             /\ board'.stopping = b.stopping
             /\ board'.status[j] = "queued"
             /\ \A i \in Jobs \ {j} : board'.status[i] = b.status[i]
             /\ UNCHANGED <<active, cleanup>>
<1> IInv /\ BoardOK(board) /\ TypeOK /\ active \in Jobs \cup {None}
  BY DEF RInv, IInv, TypeOK
<1> DEFINE b == Poll(board)
           j == records + 1
<1>1. BoardOK(b) /\ StatusStep(board, b)
  BY PollOK
<1>2. /\ Admits(b) /\ records' = j
      /\ board' = [b EXCEPT !.status[j] = "queued", !.pending = @ \cup {j}]
      /\ slot' = [slot EXCEPT ![j] = k]
      /\ \A i \in 1 .. records : slot[i] # k
      /\ UNCHANGED <<active, cleanup>>
  BY DEF Submit, handlerFrame
<1> HIDE DEF b
<1>3. ~b.stopping /\ records < MaxRecords
  BY <1>2 DEF Admits
<1>4. j \in Jobs /\ j # active
  BY <1>1, <1>3, ServiceAssumption DEF TypeOK, Jobs, BoardOK
<1> HIDE DEF j
<1>5. /\ board'.stopping = b.stopping /\ board'.status[j] = "queued"
      /\ \A i \in Jobs \ {j} : board'.status[i] = b.status[i]
  BY <1>1, <1>2, <1>4 DEF BoardOK, BoardType
<1>6. QED
  BY <1>1, <1>2, <1>3, <1>4, <1>5 DEF b, j

\* A dispatch that starts a record: the oldest waiting one, with none active.
Starts(b, j) ==
  /\ ~b.stopping /\ active = None /\ active' = j /\ j \in Jobs
  /\ b.status[j] = "queued" /\ board'.status[j] = "running"
  /\ \A i \in Jobs : i < j => b.status[i] # "queued"
  /\ \A i \in Jobs \ {j} : board'.status[i] = b.status[i] /\ cleanup'[i] = cleanup[i]
  /\ board'.stopping = b.stopping
  /\ UNCHANGED <<slot, records>>

LEMMA Dispatching ==
  ASSUME RInv, Dispatch
  PROVE  /\ BoardOK(Poll(board)) /\ StatusStep(board, Poll(board))
         /\ Quiet \/ \E j \in Jobs : Starts(Poll(board), j)
<1> IInv /\ BoardOK(board) /\ TypeOK /\ ControlOK /\ active \in Jobs \cup {None}
  BY DEF RInv, IInv, TypeOK
<1> DEFINE b == Poll(board)
<1>1. BoardOK(b) /\ StatusStep(board, b)
  BY PollOK
<1>2. pc = "dispatch" /\ UNCHANGED <<slot, records>>
  BY DEF Dispatch, envFrame, recordVars
<1>3. CASE board' = b /\ UNCHANGED <<active, cleanup>>
  BY <1>1, <1>2, <1>3 DEF Quiet
<1>4. ASSUME NEW j \in Oldest(b.pending), ~b.stopping, active' = j,
             board' = [b EXCEPT !.pending = @ \ {j}, !.status[j] = "running"],
             cleanup' = [cleanup EXCEPT ![j] = "live"]
      PROVE  Starts(b, j) /\ j \in Jobs
  <2> HIDE DEF b
  <2>1. j \in b.pending /\ \A i \in b.pending : j <= i
    BY DEF Oldest
  <2>2. j \in Jobs /\ b.status[j] = "queued"
    BY <1>1, <2>1 DEF BoardOK, BoardType
  <2>3. \A i \in Jobs : i < j => b.status[i] # "queued"
    BY <1>1, <2>1, <2>2 DEF BoardOK, Jobs
  <2>4. active = None
    BY <1>2 DEF ControlOK, Performing, Closing
  <2>5. /\ board'.status[j] = "running" /\ board'.stopping = b.stopping
        /\ \A i \in Jobs \ {j} : board'.status[i] = b.status[i]
    BY <1>1, <1>4, <2>2 DEF BoardOK, BoardType
  <2>6. \A i \in Jobs \ {j} : cleanup'[i] = cleanup[i]
    BY <1>4 DEF TypeOK
  <2>7. QED
    BY <1>2, <1>4, <2>2, <2>3, <2>4, <2>5, <2>6 DEF Starts
<1>5. QED
  BY <1>1, <1>3, <1>4 DEF Dispatch

LEMMA ActiveOpenKept ==
  ASSUME ~DiskFaults, RInv, [Next]_vars
  PROVE  ActiveOpen'
<1> IInv /\ ActiveOpen /\ BoardOK(board) /\ active \in Jobs \cup {None}
  BY DEF RInv, IInv, TypeOK
<1> None \notin Jobs
  BY DEF None, Jobs
<1>1. CASE Quiet
  BY <1>1 DEF Quiet, ActiveOpen, StatusStep, BoardOK, Unstarted, Terminal, Outcomes
<1>2. ASSUME NEW k \in Slots, Submit(k) PROVE ActiveOpen'
  <2> DEFINE b == Poll(board)
  <2>1. /\ StatusStep(board, b) /\ active' = active
        /\ active \in Jobs => board'.status[active] = b.status[active]
    BY <1>2, Accepting
  <2> HIDE DEF b
  <2>2. QED
    BY <2>1 DEF ActiveOpen, StatusStep, BoardOK, Unstarted, Terminal, Outcomes
<1>3. CASE Dispatch
  BY <1>1, <1>3, Dispatching DEF Starts, ActiveOpen, Terminal, Outcomes
<1>4. CASE FinishActive \/ Last \/ Closed
  BY <1>4, Finishing DEF EndsActive, ActiveOpen
<1>5. QED
  BY <1>1, <1>2, <1>3, <1>4, StepKinds

LEMMA RInductive == ASSUME ~DiskFaults PROVE Spec => []RInv
<1>1. Init => RInv
  BY InitOK DEF Init, RInv, ActiveOpen, Jobs, None
<1>2. RInv /\ [Next]_vars => RInv'
  BY StepOK, ActiveOpenKept DEF RInv
<1>3. QED
  BY <1>1, <1>2, PTL DEF Spec

----------------------------------------------------------------------------
(* The refinement.                                                         *)

\* What moves a record without starting it is a move of Requests.
LEMMA MoveSettles ==
  ASSUME NEW s \in Status, NEW t \in Status,
         \/ s = t
         \/ s = "queued" /\ t \in Unstarted
         \/ s = "running" /\ t \in {"stopping", "completed"}
         \/ s = "stopping" /\ t \in Terminal
  PROVE  t = s \/ <<s, t>> \in R!Moves
BY DEF R!Moves, R!Terminal, Unstarted, Terminal, Outcomes

LEMMA SameStatus == R!Status = Status /\ R!Jobs = Jobs /\ R!Open = Open
BY DEF R!Status, R!Terminal, R!Open, R!Jobs, Status, Terminal, Outcomes, Jobs, Open

\* Every record moves as Requests allows when the lock holder polls.
LEMMA StepSettles ==
  ASSUME RInv, NEW c, StatusStep(board, c), c.status \in [Jobs -> Status]
  PROVE  \A j \in Jobs : c.status[j] = board.status[j]
                           \/ <<board.status[j], c.status[j]>> \in R!Moves
<1> BoardOK(board)
  BY DEF RInv, IInv
<1> SUFFICES ASSUME NEW j \in Jobs
             PROVE  c.status[j] = board.status[j] \/ <<board.status[j], c.status[j]>> \in R!Moves
  OBVIOUS
<1>1. board.status[j] \in Status /\ c.status[j] \in Status
  BY DEF BoardOK, BoardType
<1>2. \/ c.status[j] = board.status[j]
      \/ board.status[j] = "queued" /\ c.status[j] \in Unstarted
      \/ board.status[j] \in Open /\ c.status[j] = "stopping"
  BY <1>1 DEF StatusStep, BoardOK, Status, Open
<1>3. QED
  BY <1>1, <1>2, MoveSettles DEF Open

LEMMA StepRefines ==
  ASSUME ~DiskFaults, RInv, [Next]_vars
  PROVE  [R!Next]_(R!vars)
<1> IInv /\ IInv' /\ BoardOK(board) /\ active \in Jobs \cup {None}
  BY StepOK DEF RInv, IInv, TypeOK
<1> None \notin Jobs
  BY DEF None, Jobs
<1>t. /\ board'.status \in [Jobs -> Status] /\ board.status \in [Jobs -> Status]
      /\ board'.stopping \in BOOLEAN /\ board.stopping \in BOOLEAN
  BY DEF IInv, BoardOK, BoardType
<1> USE SameStatus
<1>1. CASE Quiet
  <2>1. \A j \in Jobs : R!Settles(j)
    BY <1>1, <1>t, StepSettles DEF Quiet, R!Settles
  <2>2. board'.stopping \in {board.stopping, TRUE}
    BY <1>1, <1>t DEF Quiet, StatusStep
  <2>3. QED
    BY <1>1, <1>t, <2>1, <2>2 DEF Quiet, R!Settle, R!Next
<1>2. ASSUME NEW k \in Slots, Submit(k) PROVE R!Accept(k)
  <2> DEFINE b == Poll(board)
             j == records + 1
  <2>1. /\ BoardOK(b) /\ StatusStep(board, b) /\ ~b.stopping /\ records < MaxRecords
        /\ \A i \in 1 .. records : slot[i] # k
        /\ j \in Jobs /\ records' = j
        /\ slot' = [slot EXCEPT ![j] = k]
        /\ board'.stopping = b.stopping
        /\ board'.status[j] = "queued"
        /\ \A i \in Jobs \ {j} : board'.status[i] = b.status[i]
    BY <1>2, Accepting
  <2> HIDE DEF b
  <2>2. \A i \in Jobs \ {j} : R!Settles(i)
    BY <2>1, StepSettles DEF BoardOK, BoardType, R!Settles
  <2>3. ~board.stopping /\ board'.stopping = board.stopping
    BY <2>1, <1>t DEF StatusStep, BoardOK, BoardType
  <2>4. QED
    BY <1>t, <2>1, <2>2, <2>3 DEF R!Accept, R!Unused
<1>3. ASSUME NEW j \in Jobs, BoardOK(Poll(board)), StatusStep(board, Poll(board)),
             Starts(Poll(board), j)
      PROVE  R!Start(j)
  <2> DEFINE b == Poll(board)
  <2> HIDE DEF b
  <2>1. BoardOK(b) /\ StatusStep(board, b) /\ Starts(b, j)
    BY <1>3 DEF b
  <2>2. \A i \in Jobs \ {j} : R!Settles(i)
    BY <2>1, StepSettles DEF BoardOK, BoardType, R!Settles, Starts
  <2>3. board.status[j] = "queued" /\ \A i \in Jobs : i < j => board'.status[i] # "queued"
    <3>1. board.status[j] = "queued"
      BY <2>1, <1>t DEF StatusStep, Starts, Unstarted, BoardOK
    <3>2. \A i \in Jobs : i < j => i # j
      BY DEF Jobs
    <3>3. QED
      BY <2>1, <3>1, <3>2 DEF Starts
  <2>4. ~board.stopping /\ board'.stopping = board.stopping
    BY <2>1, <1>t DEF StatusStep, BoardOK, BoardType, Starts
  <2>5. R!Idle
    BY <2>1 DEF R!Idle, BoardOK, Starts
  <2>6. QED
    BY <1>t, <2>1, <2>2, <2>3, <2>4, <2>5 DEF R!Start, Starts
<1>4. CASE FinishActive \/ Last \/ Closed
  <2>1. EndsActive
    BY <1>4, Finishing
  <2>2. \A j \in Jobs : R!Settles(j)
    BY <1>t, <2>1, MoveSettles DEF EndsActive, R!Settles
  <2>3. board'.stopping \in {board.stopping, TRUE}
    BY <2>1, <1>t DEF EndsActive
  <2>4. QED
    BY <1>t, <2>1, <2>2, <2>3 DEF EndsActive, R!Settle, R!Next
<1>5. QED
  BY <1>1, <1>2, <1>3, <1>4, StepKinds, Dispatching DEF R!Next

\* The service implements the life of requests it promises, whatever the
\* interleaving of handlers, scheduler, worker and clock: one record at a time
\* is started, in order of acceptance, at most one exists per Idempotency-Key,
\* and nothing starts or is accepted once it stops.
THEOREM Refinement == ASSUME ~DiskFaults PROVE Spec => ImplementsRequests
<1>1. Init => R!Init
  BY DEF Init, R!Init, R!Jobs, Jobs
<1>2. RInv /\ [Next]_vars => [R!Next]_(R!vars)
  BY StepRefines
<1>3. QED
  BY <1>1, <1>2, RInductive, PTL DEF Spec, ImplementsRequests, R!Spec

\* A client that saw a terminal record sees the same one ever after: with a
\* disk that takes the acknowledgement, no later step rewrites it.
THEOREM TerminalIsFinal == ASSUME ~DiskFaults PROVE Spec => TerminalFinal
<1> DEFINE Same == \A j \in Jobs : board.status[j] \in Terminal =>
                     board'.status[j] = board.status[j] /\ cleanup'[j] = cleanup[j]
<1>1. RInv /\ [Next]_vars => [Same]_vars
  <2> SUFFICES ASSUME RInv, [Next]_vars, NEW j \in Jobs, board.status[j] \in Terminal
               PROVE  board'.status[j] = board.status[j] /\ cleanup'[j] = cleanup[j]
    OBVIOUS
  <2>0. /\ board.status[j] \notin {"absent", "queued", "running", "stopping"}
        /\ j # active /\ BoardOK(board)
    BY DEF RInv, IInv, ActiveOpen, Terminal, Outcomes
  <2>1. CASE Quiet
    BY <2>0, <2>1 DEF Quiet, StatusStep
  <2>2. ASSUME NEW k \in Slots, Submit(k)
        PROVE  board'.status[j] = board.status[j] /\ cleanup'[j] = cleanup[j]
    <3> DEFINE b == Poll(board)
    <3>1. /\ StatusStep(board, b) /\ cleanup' = cleanup /\ records' \in Jobs
          /\ records' = records + 1
          /\ \A i \in Jobs \ {records'} : board'.status[i] = b.status[i]
      BY <2>2, Accepting
    <3> HIDE DEF b
    <3>2. board.status[records'] = "absent"
      BY <3>1, ServiceAssumption DEF RInv, IInv, BoardOK, TypeOK, Jobs
    <3>3. QED
      BY <2>0, <3>1, <3>2 DEF StatusStep
  <2>3. CASE Dispatch
    <3>1. ASSUME NEW i \in Jobs, Starts(Poll(board), i), StatusStep(board, Poll(board))
          PROVE  board'.status[j] = board.status[j] /\ cleanup'[j] = cleanup[j]
      BY <2>0, <3>1 DEF Starts, StatusStep
    <3>2. QED
      BY <2>1, <2>3, <3>1, Dispatching
  <2>4. CASE FinishActive \/ Last \/ Closed
    BY <2>0, <2>4, Finishing DEF EndsActive
  <2>5. QED
    BY <2>1, <2>2, <2>3, <2>4, StepKinds DEF RInv
<1>2. QED
  BY <1>1, RInductive, PTL DEF Spec, TerminalFinal

----------------------------------------------------------------------------
(* What the life of requests guarantees a client, whichever service leads it. *)

\* Only what was accepted has a slot and a life; the rest is still absent.
RequestsInv ==
  /\ R!TypeOK
  /\ \A j \in R!Jobs : board.status[j] = "absent" <=> j > records
  /\ R!OneOpen
  /\ R!OnePerSlot

LEMMA SettleMoves ==
  ASSUME NEW j \in R!Jobs, R!Settles(j)
  PROVE  /\ board.status[j] = "absent" <=> board'.status[j] = "absent"
         /\ board'.status[j] \in R!Open => board.status[j] \in R!Open
         /\ board.status[j] \in R!Terminal => board'.status[j] = board.status[j]
         /\ board.status[j] \in R!Open => board'.status[j] # "queued"
BY DEF R!Settles, R!Moves, R!Open, R!Terminal

LEMMA RequestsStep == ASSUME RequestsInv, [R!Next]_(R!vars) PROVE RequestsInv'
<1> USE DEF R!Jobs, R!Status, R!Open, R!Terminal
<1> R!TypeOK /\ R!OneOpen /\ R!OnePerSlot /\ \A j \in R!Jobs : board.status[j] = "absent" <=> j > records
  BY DEF RequestsInv
<1>1. CASE R!Settle
  <2>1. R!TypeOK'
    BY <1>1 DEF R!Settle, R!TypeOK
  <2>2. \A j \in R!Jobs : /\ board.status[j] = "absent" <=> board'.status[j] = "absent"
                          /\ board'.status[j] \in R!Open => board.status[j] \in R!Open
    BY <1>1, SettleMoves DEF R!Settle
  <2>3. QED
    BY <1>1, <2>1, <2>2 DEF R!Settle, RequestsInv, R!OneOpen, R!OnePerSlot
<1>2. ASSUME NEW k \in Slots, R!Accept(k) PROVE RequestsInv'
  <2>1. /\ records' = records + 1 /\ records' \in R!Jobs /\ records' \in 0 .. MaxRecords
        /\ \A j \in R!Jobs : j \in Nat
    BY <1>2, ServiceAssumption DEF R!Accept, R!TypeOK
  <2>2. /\ slot' = [slot EXCEPT ![records'] = k] /\ board'.status[records'] = "queued"
        /\ board'.status \in [R!Jobs -> R!Status] /\ UNCHANGED board.stopping /\ R!Unused(k)
    BY <1>2 DEF R!Accept
  <2>3. \A j \in R!Jobs \ {records'} : /\ board.status[j] = "absent" <=> board'.status[j] = "absent"
                                       /\ board'.status[j] \in R!Open => board.status[j] \in R!Open
    BY <1>2, SettleMoves DEF R!Accept
  <2>4. R!TypeOK'
    BY <2>1, <2>2 DEF R!TypeOK
  <2>5. R!OneOpen'
    BY <2>2, <2>3 DEF R!OneOpen
  <2>6. R!OnePerSlot'
    <3>1. slot'[records'] = k /\ \A i \in 1 .. records : slot'[i] = slot[i] /\ slot[i] # k
      BY <2>1, <2>2 DEF R!TypeOK, R!Unused
    <3>2. \A i \in 1 .. records' : i = records' \/ i \in 1 .. records
      BY <2>1 DEF R!TypeOK
    <3>3. QED
      BY <3>1, <3>2 DEF R!OnePerSlot
  <2>7. \A j \in R!Jobs : board'.status[j] = "absent" <=> j > records'
    BY <2>1, <2>2, <2>3 DEF R!TypeOK
  <2>8. QED
    BY <2>4, <2>5, <2>6, <2>7 DEF RequestsInv
<1>3. ASSUME NEW j \in R!Jobs, R!Start(j) PROVE RequestsInv'
  <2>1. /\ board.status[j] = "queued" /\ board'.status[j] = "running" /\ board'.status \in [R!Jobs -> R!Status]
        /\ UNCHANGED <<slot, records, board.stopping>> /\ R!Idle
    BY <1>3 DEF R!Start
  <2>2. \A i \in R!Jobs \ {j} : /\ board.status[i] = "absent" <=> board'.status[i] = "absent"
                                /\ board'.status[i] \notin R!Open
    BY <1>3, <2>1, SettleMoves DEF R!Start, R!Idle
  <2>3. R!OneOpen'
    BY <2>2 DEF R!OneOpen
  <2>4. QED
    BY <2>1, <2>2, <2>3 DEF RequestsInv, R!TypeOK, R!OnePerSlot
<1>4. CASE UNCHANGED R!vars
  BY <1>4 DEF R!vars, RequestsInv, R!TypeOK, R!OneOpen, R!OnePerSlot
<1>5. QED
  BY <1>1, <1>2, <1>3, <1>4 DEF R!Next

LEMMA RequestsInductive == R!Spec => []RequestsInv
<1> USE DEF R!Jobs, R!Status, R!Open, R!Terminal
<1>1. R!Init => RequestsInv
  <2> SUFFICES ASSUME R!Init PROVE RequestsInv
    OBVIOUS
  <2>1. R!TypeOK
    <3>1. board.status \in [R!Jobs -> R!Status] /\ slot \in [R!Jobs -> Slots \cup {NoOne}]
      BY DEF R!Init
    <3>2. records = 0 /\ board.stopping = FALSE
      BY DEF R!Init
    <3>3. 0 \in 0 .. MaxRecords
      BY ServiceAssumption
    <3>4. QED
      BY <3>1, <3>2, <3>3 DEF R!TypeOK
  <2>2. R!OneOpen /\ R!OnePerSlot
    BY DEF R!Init, R!OneOpen, R!OnePerSlot
  <2>3. \A j \in R!Jobs : board.status[j] = "absent" /\ j > records
    BY DEF R!Init
  <2>4. QED
    BY <2>1, <2>2, <2>3 DEF RequestsInv
<1>2. QED
  BY <1>1, RequestsStep, PTL DEF R!Spec

\* Whatever clients send again, a (principal, Idempotency-Key) pair names at
\* most one record.
THEOREM KeysAreUnique == R!Spec => []R!OnePerSlot
<1>1. RequestsInv => R!OnePerSlot
  BY DEF RequestsInv
<1>2. QED
  BY <1>1, RequestsInductive, PTL

\* The single model process never works for two records, and a record that is
\* still stopping keeps it.
THEOREM OneAtATime == R!Spec => []R!OneOpen
<1>1. RequestsInv => R!OneOpen
  BY DEF RequestsInv
<1>2. QED
  BY <1>1, RequestsInductive, PTL

\* A terminal answer stays, and nothing that ran is queued again.
THEOREM AnswersAreFinal == R!Spec => R!Final
<1> USE DEF R!Jobs, R!Status, R!Open, R!Terminal
<1> DEFINE Same == \A j \in R!Jobs : /\ board.status[j] \in R!Terminal => (board.status)'[j] = board.status[j]
                                     /\ board.status[j] \in R!Open => (board.status)'[j] # "queued"
<1>1. RequestsInv /\ [R!Next]_(R!vars) => [Same]_(R!vars)
  <2> SUFFICES ASSUME RequestsInv, R!Next, NEW j \in R!Jobs
               PROVE  /\ board.status[j] \in R!Terminal => (board.status)'[j] = board.status[j]
                      /\ board.status[j] \in R!Open => (board.status)'[j] # "queued"
    OBVIOUS
  <2>1. R!Settles(j) \/ board.status[j] \in {"absent", "queued"}
    <3>1. ASSUME NEW k \in Slots, R!Accept(k) PROVE R!Settles(j) \/ board.status[j] = "absent"
      <4>1. \A i \in R!Jobs \ {records'} : R!Settles(i)
        BY <3>1 DEF R!Accept
      <4>2. records' = records + 1
        BY <3>1 DEF R!Accept
      <4>3. QED
        BY <4>1, <4>2 DEF RequestsInv, R!TypeOK
    <3>2. ASSUME NEW i \in R!Jobs, R!Start(i) PROVE R!Settles(j) \/ board.status[j] = "queued"
      BY <3>2 DEF R!Start
    <3>3. QED
      BY <3>1, <3>2 DEF R!Next, R!Settle
  <2>2. QED
    BY <2>1, SettleMoves DEF R!Terminal
<1>2. QED
  BY <1>1, RequestsInductive, PTL DEF R!Spec, R!Final

\* What the service thereby promises, while the disk takes the packets.
THEOREM PromisesKept ==
  ASSUME ~DiskFaults PROVE Spec => []R!OnePerSlot /\ []R!OneOpen /\ R!Final
  BY Refinement, KeysAreUnique, OneAtATime, AnswersAreFinal, PTL DEF ImplementsRequests
=============================================================================
