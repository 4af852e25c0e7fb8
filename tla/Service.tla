------------------------------ MODULE Service ------------------------------
(***************************************************************************)
(* The restricted model service (service/runtime.py, service/http.py):     *)
(* one scheduler thread owns the only model process; the HTTP thread, one  *)
(* handler at a time, reads and changes the bounded request records under  *)
(* the same condition lock.  The model process (inference/worker.py) talks *)
(* to the scheduler through files of a directory that is its own.          *)
(*                                                                         *)
(* Every critical section of the code is one action.  What happens between *)
(* two critical sections is one action too, so that handlers, signals,     *)
(* deadlines and the worker interleave exactly where the lock is free.     *)
(***************************************************************************)
EXTENDS Naturals, FiniteSets

CONSTANTS
  Slots,           \* the (principal, Idempotency-Key) pairs clients use
  MaxRecords,      \* MAX_RECORDS: accepted requests of one service run
  MaxPending,      \* MAX_PENDING: length of the dispatch queue
  MaxGenerations,  \* max_generations of the run's configuration
  OutputRecords,   \* how many REQUEST_RESERVEs max_output_bytes leaves room for
  Outputs,         \* the gated outcomes a result packet of the worker can have
  DiskFaults       \* TRUE: the disk may refuse a packet to the worker

Outcomes == {"completed", "parse_failure", "budget_exhausted", "cancelled",
             "timed_out", "infrastructure_error"}

NoOne == "no_one"  \* the slot of a record not yet made

ASSUME ServiceAssumption ==
  /\ NoOne \notin Slots
  /\ MaxRecords \in Nat /\ MaxPending \in Nat
  /\ MaxGenerations \in Nat \ {0} /\ OutputRecords \in Nat
  /\ Outputs \subseteq Outcomes \cup {"unreadable"}
  /\ DiskFaults \in BOOLEAN

Jobs == 1 .. MaxRecords       \* request records, numbered in acceptance order
None == 0                     \* no job, no worker
Epochs == 1 .. MaxGenerations \* a worker lifetime precedes every generation
Terminal == Outcomes          \* TERMINAL of service/protocol.py
Status == {"absent", "queued", "running", "stopping"} \cup Terminal

VARIABLES
  board,       \* [status, token, pending, stopping, loaded, why]: see BoardType
  cleanup,     \* state["worker_cleanup"] of each job
  ranIn,       \* state["worker_epoch"] of each job, None until it is dispatched
  slot,        \* _keys: the (principal, key) each job was accepted for
  records,     \* len(_jobs)
  active,      \* _active: the dispatched job
  generations, \* _generations
  epoch,       \* _epoch
  calls,       \* _worker_calls: request packets written to this worker
  owned,       \* _worker is not None
  unconfirmed, \* _cleanup_unconfirmed
  pc, ret,     \* where the scheduler thread is; where _close_worker returns to
  got,         \* status local to _wait's caller
  outcome,     \* outcome local to _perform
  live,        \* epochs whose operating-system process exists
  child,       \* the current worker: [pc, index, quota] of service_child
  ipc,         \* the files of its directory: [ready, job, answered, result,
               \* acked, stop]; packets of one kind are numbered, and counted here
  runs,        \* history: how often a worker generated for each job
  signal,      \* the SIGINT/SIGTERM cancellation token
  over,        \* dispatch_stop has passed
  late,        \* jobs whose expiry has passed
  startLate,   \* the start deadline of the current worker has passed
  http         \* the HTTP thread's serve()

schedVars == <<pc, ret, got, outcome>>
recordVars == <<slot, records>>
countVars == <<generations, epoch, calls>>
workerVars == <<live, child, ipc, runs>>
clockVars == <<signal, over, late, startLate>>
vars == <<board, cleanup, ranIn, recordVars, active, countVars, owned,
          unconfirmed, schedVars, workerVars, clockVars, http>>

NewChild(quota) == [pc |-> "preparing", index |-> 0, quota |-> quota]
NoFiles == [ready |-> "none", job |-> None, answered |-> 0, result |-> "none",
            acked |-> 0, stop |-> FALSE]

Init ==
  /\ board = [status |-> [j \in Jobs |-> "absent"], token |-> {},
              pending |-> {}, stopping |-> FALSE, loaded |-> FALSE,
              why |-> "none"]
  /\ cleanup = [j \in Jobs |-> "not_started"]
  /\ ranIn = [j \in Jobs |-> None]
  /\ slot = [j \in Jobs |-> NoOne]
  /\ records = 0 /\ active = None
  /\ generations = 0 /\ epoch = 0 /\ calls = 0
  /\ owned = FALSE /\ unconfirmed = FALSE
  /\ pc = "top" /\ ret = "none" /\ got = "none" /\ outcome = "none"
  /\ live = {} /\ child = NewChild(0) /\ ipc = NoFiles
  /\ runs = [j \in Jobs |-> 0]
  /\ signal = FALSE /\ over = FALSE /\ late = {} /\ startLate = FALSE
  /\ http = "serving"

----------------------------------------------------------------------------
(* What the code does to the records while it holds the lock.  The queue   *)
(* appends at one end and pops at the other, and jobs are numbered as they *)
(* are appended: the set "pending" with its least member is that deque.    *)

\* _begin_stop: the cancellation token is set once, on the way to stopping.
BeginStop(b, j) ==
  IF b.status[j] \in Terminal \cup {"stopping"} THEN b
  ELSE [b EXCEPT !.token = @ \cup {j}, !.status[j] = "stopping"]

\* _finish: a terminal record is left alone.
Finish(b, j, st) ==
  IF b.status[j] \in Terminal THEN b ELSE [b EXCEPT !.status[j] = st]

\* The same for queued jobs, which leave the queue.
Leave(b, S, st) ==
  [b EXCEPT !.status = [j \in Jobs |-> IF j \in S THEN st ELSE b.status[j]],
            !.pending = @ \ S]

\* _stop_locked: drains the queue and starts stopping the active job.
StopLocked(b, why) ==
  IF b.stopping THEN b
  ELSE LET stopped == [Leave(b, b.pending, "cancelled")
                         EXCEPT !.stopping = TRUE, !.loaded = FALSE, !.why = why]
       IN  IF active = None THEN stopped ELSE BeginStop(stopped, active)

\* _poll: a signal or the end of the dispatch budget stops the service; then
\* what still waits past its own deadline times out without being dispatched.
Poll(b) ==
  LET s == IF signal \/ over
             THEN StopLocked(b, IF signal THEN "signal" ELSE "service_budget_exhausted")
             ELSE b
  IN  Leave(s, s.pending \cap late, "timed_out")

\* The worker's process exists: _worker.process.is_alive().
Alive == owned /\ epoch \in live

\* Mutant: one request more than the generation budget is accepted.
AdmitsOverBudget(b) ==
  /\ ~b.stopping /\ ~signal /\ ~over
  /\ records < MaxRecords /\ records < OutputRecords
  /\ generations + Cardinality(b.pending) <= MaxGenerations
  /\ b.loaded /\ Alive
  /\ Cardinality(b.pending) < MaxPending

\* _admission_error() is None, for the records b.
Admits(b) ==
  /\ ~b.stopping /\ ~signal /\ ~over
  /\ records < MaxRecords
  /\ generations + Cardinality(b.pending) < MaxGenerations
  /\ records < OutputRecords
  /\ b.loaded /\ Alive
  /\ Cardinality(b.pending) < MaxPending

----------------------------------------------------------------------------
(* HTTP handlers; each begins with _poll.                                  *)

handlerFrame == <<active, countVars, owned, unconfirmed, schedVars, ranIn,
                  workerVars, signal, over, startLate, http>>

\* submit of a key that has no record, admitted: a new queued record.  Every
\* other submission (replay, conflict, refusal) is a Read.
Submit(k) ==
  LET b == Poll(board)
      j == records + 1
  IN  /\ http = "serving"
      /\ \A i \in 1 .. records : slot[i] # k
      /\ Admits(b)
      /\ board' = [b EXCEPT !.status[j] = "queued", !.pending = @ \cup {j}]
      /\ slot' = [slot EXCEPT ![j] = k]
      /\ records' = j
      /\ UNCHANGED <<late, cleanup, handlerFrame>>

\* readiness, lookup, and every submission that creates nothing.
Read ==
  /\ http = "serving"
  /\ board' = Poll(board)
  /\ UNCHANGED <<recordVars, late, cleanup, handlerFrame>>

\* Mutants: a running job is terminal at once; a terminal record is reopened.
CancelBoardAtOnce(b, j) ==
  IF b.status[j] \in {"queued", "running"} THEN Leave(b, {j}, "cancelled") ELSE b

\* cancel: at once for a queued job, a stop for the running one, and nothing
\* for a job that is stopping or terminal.
CancelBoard(b, j) ==
  IF b.status[j] = "queued" THEN Leave(b, {j}, "cancelled")
  ELSE IF b.status[j] = "running" THEN BeginStop(b, j)
  ELSE b

Cancel(j) ==
  /\ http = "serving"
  /\ j <= records
  /\ board' = CancelBoard(Poll(board), j)
  /\ UNCHANGED <<recordVars, late, cleanup, handlerFrame>>

----------------------------------------------------------------------------
(* The scheduler thread: _run, _prepare_worker, _wait, _perform and        *)
(* _close_worker.  "pc" names the next critical section or step.           *)

envFrame == <<recordVars, signal, over, late, http>>

\* The head of the loop.
Top ==
  /\ pc = "top"
  /\ board' = Poll(board)
  /\ pc' = IF board'.stopping THEN "finally"
                 ELSE IF ~owned /\ generations < MaxGenerations THEN "prepare"
                 ELSE "alive"
  /\ UNCHANGED <<cleanup, ranIn, active, countVars, owned, unconfirmed, ret,
                 got, outcome, workerVars, startLate, envFrame>>

\* _prepare_worker: a new epoch with a process and a directory of its own.  The
\* deadline of the first start runs from the start of the service.
Spawn ==
  /\ pc = "prepare"
  /\ board' = Poll(board)
  /\ IF board'.stopping
     THEN /\ pc' = "finally"
          /\ UNCHANGED <<countVars, owned, live, child, ipc, startLate>>
     ELSE /\ pc' = "poll"
          /\ epoch' = epoch + 1 /\ calls' = 0 /\ owned' = TRUE
          /\ live' = live \cup {epoch + 1}
          /\ child' = NewChild(MaxGenerations - generations)
          /\ ipc' = NoFiles
          /\ startLate' = (epoch = 0 /\ startLate)
          /\ UNCHANGED generations
  /\ UNCHANGED <<cleanup, ranIn, active, unconfirmed, ret, got, outcome, runs,
                 envFrame>>

\* The process cannot be started: the scheduler's exception handler takes over.
SpawnFails ==
  /\ pc = "prepare"
  /\ board' = Poll(board) /\ ~board'.stopping
  /\ pc' = "except"
  /\ epoch' = epoch + 1 /\ calls' = 0
  /\ UNCHANGED <<cleanup, ranIn, active, generations, owned, unconfirmed, ret,
                 got, outcome, workerVars, startLate, envFrame>>

\* _wait: poll with the lock, then look for the file in a bounded slice.  It is
\* the ready packet that is awaited when no job is active, else the result.
PollWait ==
  /\ pc = "poll"
  /\ board' = Poll(board)
  /\ pc' = "check"
  /\ UNCHANGED <<cleanup, ranIn, active, countVars, owned, unconfirmed, ret,
                 got, outcome, workerVars, startLate, envFrame>>

WaitCancelled == board.stopping \/ signal \/ active \in board.token
\* Mutant: the wait for a result has no deadline of its own.
WaitLateStartOnly == active = None /\ (startLate \/ over)

WaitLate == IF active = None THEN startLate \/ over ELSE active \in late
Awaited == IF active = None THEN ipc.ready # "none" ELSE ipc.answered = calls
AfterWait == IF active = None THEN "ready" ELSE "collect"

CheckWait ==
  /\ pc = "check"
  /\ got' = IF WaitCancelled THEN "cancelled" ELSE IF WaitLate THEN "timed_out" ELSE "none"
  /\ pc' = IF got' = "none" THEN "look" ELSE AfterWait
  /\ UNCHANGED <<board, cleanup, ranIn, active, countVars, owned, unconfirmed,
                 ret, outcome, workerVars, startLate, envFrame>>

LookWait ==
  /\ pc = "look"
  /\ got' = IF Awaited
              THEN IF active # None /\ ipc.result = "unreadable" THEN "error" ELSE "completed"
              ELSE IF Alive THEN "none" ELSE "error"
  /\ \E to \in IF got' = "none" THEN {"poll", "check"} ELSE {AfterWait} : pc' = to
  /\ UNCHANGED <<board, cleanup, ranIn, active, countVars, owned, unconfirmed,
                 ret, outcome, workerVars, startLate, envFrame>>

\* The ready packet admits requests only for this epoch, while nothing stops.
WorkerReady == got = "completed" /\ ipc.ready = "ok" /\ Alive /\ ~board.stopping

CheckReady ==
  /\ pc = "ready"
  /\ board' = [board EXCEPT !.loaded = WorkerReady]
  /\ pc' = IF WorkerReady THEN "alive" ELSE "close"
  /\ ret' = "start_failed" /\ got' = "none"
  /\ UNCHANGED <<cleanup, ranIn, active, countVars, owned, unconfirmed, outcome,
                  workerVars, startLate, envFrame>>

StartFailed ==
  /\ pc = "start_failed"
  /\ board' = IF board.stopping THEN board
               ELSE StopLocked(Leave(board, board.pending, "infrastructure_error"),
                               "worker_start_failed")
  /\ pc' = "finally"
  /\ UNCHANGED <<cleanup, ranIn, active, countVars, owned, unconfirmed, ret,
                 got, outcome, workerVars, startLate, envFrame>>

\* A worker that died between two jobs ends the service; a worker without a
\* generation left is closed while the service goes on answering reads.
CheckAlive ==
  /\ pc = "alive"
  /\ LET dead == owned /\ epoch \notin live
         spent == owned /\ generations >= MaxGenerations
     IN  /\ pc' = IF dead \/ spent THEN "close" ELSE "dispatch"
         /\ ret' = IF dead THEN "dead" ELSE IF spent THEN "dispatch" ELSE ret
  /\ UNCHANGED <<board, cleanup, ranIn, active, countVars, owned, unconfirmed,
                 got, outcome, workerVars, startLate, envFrame>>

WorkerExited ==
  /\ pc = "dead"
  /\ board' = StopLocked(board, "worker_exited")
  /\ pc' = "finally"
  /\ UNCHANGED <<cleanup, ranIn, active, countVars, owned, unconfirmed, ret,
                 got, outcome, workerVars, startLate, envFrame>>

\* Mutant: the deque is popped at the end it grows at.
Newest(S) == {j \in S : \A i \in S : i <= j}

\* The oldest queued job becomes the active one.
Oldest(S) == {j \in S : \A i \in S : j <= i}

\* Mutant: the head of the queue is read and not popped.
DispatchPeeks ==
  LET b == Poll(board)
  IN  /\ pc = "dispatch"
      /\ \/ /\ b.stopping \/ b.pending = {}
            /\ board' = b
            /\ pc' = IF b.stopping THEN "finally" ELSE "top"
            /\ UNCHANGED <<active, generations, ranIn, cleanup>>
         \/ \E j \in Oldest(b.pending) :
              /\ ~b.stopping
              /\ board' = [b EXCEPT !.status[j] = "running"]
              /\ pc' = "request"
              /\ active' = j
              /\ generations' = generations + 1
              /\ ranIn' = [ranIn EXCEPT ![j] = epoch]
              /\ cleanup' = [cleanup EXCEPT ![j] = "live"]
      /\ UNCHANGED <<epoch, calls, owned, unconfirmed, ret, got, outcome,
                     workerVars, startLate, envFrame>>

Dispatch ==
  LET b == Poll(board)
  IN  /\ pc = "dispatch"
      /\ \/ /\ b.stopping \/ b.pending = {}
            /\ board' = b
            /\ pc' = IF b.stopping THEN "finally" ELSE "top"
            /\ UNCHANGED <<active, generations, ranIn, cleanup>>
         \/ \E j \in Oldest(b.pending) :
              /\ ~b.stopping
              /\ board' = [b EXCEPT !.pending = @ \ {j}, !.status[j] = "running"]
              /\ pc' = "request"
              /\ active' = j
              /\ generations' = generations + 1
              /\ ranIn' = [ranIn EXCEPT ![j] = epoch]
              /\ cleanup' = [cleanup EXCEPT ![j] = "live"]
      /\ UNCHANGED <<epoch, calls, owned, unconfirmed, ret, got, outcome,
                     workerVars, startLate, envFrame>>

\* _perform: the request packet, which the disk may refuse.
SendRequest ==
  /\ pc = "request"
  /\ outcome' = "infrastructure_error"
  /\ \/ /\ pc' = "poll"
        /\ calls' = calls + 1
        /\ ipc' = [ipc EXCEPT !.job = active]
     \/ /\ DiskFaults
        /\ pc' = "decide"
        /\ UNCHANGED <<calls, ipc>>
  /\ UNCHANGED <<board, cleanup, ranIn, active, generations, epoch, owned,
                 unconfirmed, ret, got, live, child, runs, startLate, envFrame>>

\* The packet, a late one included, decides the outcome; a dead worker or an
\* unreadable packet makes it an infrastructure error.
Collect ==
  /\ pc = "collect"
  /\ outcome' = IF ipc.answered = calls /\ ipc.result # "unreadable" /\ got # "error"
                THEN ipc.result ELSE "infrastructure_error"
  /\ got' = "none"
  /\ pc' = "decide"
  /\ UNCHANGED <<board, cleanup, ranIn, active, countVars, owned, unconfirmed,
                 ret, workerVars, startLate, envFrame>>

\* A stop or the deadline overrides whatever the packet said.
Decided(b) ==
  IF b.status[active] = "stopping" THEN "cancelled"
  ELSE IF active \in late \/ outcome = "timed_out" THEN "timed_out"
  ELSE outcome

Decide ==
  LET b == Poll(board)
  IN  /\ pc = "decide"
      /\ outcome' = Decided(b)
      /\ board' = IF outcome' = "completed" THEN b ELSE BeginStop(b, active)
      /\ pc' = IF outcome' = "completed" THEN "finish" ELSE "close"
      /\ ret' = "reaped"
      /\ UNCHANGED <<cleanup, ranIn, active, countVars, owned, unconfirmed, got,
                     workerVars, startLate, envFrame>>

\* Mutant: the terminal record is written whether or not the worker was reaped.
ReapedAnyway ==
  /\ pc = "reaped"
  /\ pc' = "finish"
  /\ cleanup' = [cleanup EXCEPT ![active] = "reaped"]
  /\ UNCHANGED <<board, ranIn, active, countVars, owned, unconfirmed, ret, got,
                 outcome, workerVars, startLate, envFrame>>

\* Without a confirmed cleanup the job stays active, and stopping.
Reaped ==
  /\ pc = "reaped"
  /\ pc' = IF unconfirmed THEN "top" ELSE "finish"
  /\ outcome' = IF unconfirmed THEN "none" ELSE outcome
  /\ cleanup' = IF unconfirmed THEN cleanup ELSE [cleanup EXCEPT ![active] = "reaped"]
  /\ UNCHANGED <<board, ranIn, active, countVars, owned, unconfirmed, ret, got,
                 workerVars, startLate, envFrame>>

\* The terminal record, then the acknowledgement, then the active slot; an
\* acknowledgement that cannot be written leaves the job in the active slot.
FinishActive ==
  /\ pc = "finish"
  /\ outcome' = "none"
  /\ board' = Finish(board, active, outcome)
  /\ \/ /\ pc' = "top"
        /\ active' = None
        /\ ipc' = IF outcome = "completed" THEN [ipc EXCEPT !.acked = @ + 1] ELSE ipc
     \/ /\ DiskFaults /\ outcome = "completed"
        /\ pc' = "except"
        /\ UNCHANGED <<active, ipc>>
  /\ UNCHANGED <<cleanup, ranIn, countVars, owned, unconfirmed, ret, got,
                 live, child, runs, startLate, envFrame>>

\* The exception handler of _run.
Except ==
  /\ pc = "except"
  /\ board' = [StopLocked(board, "scheduler_error") EXCEPT !.why = "scheduler_error"]
  /\ pc' = "finally"
  /\ UNCHANGED <<cleanup, ranIn, active, countVars, owned, unconfirmed, ret,
                 got, outcome, workerVars, startLate, envFrame>>

\* Mutant: the scheduler ends without closing its worker.
FinallyLeaves ==
  /\ pc = "finally"
  /\ pc' = "summary"
  /\ UNCHANGED <<board, cleanup, ranIn, active, countVars, owned, unconfirmed,
                 ret, got, outcome, workerVars, startLate, envFrame>>

Finally ==
  /\ pc = "finally"
  /\ pc' = IF unconfirmed THEN "summary" ELSE "close"
  /\ ret' = "last"
  /\ UNCHANGED <<board, cleanup, ranIn, active, countVars, owned, unconfirmed,
                 got, outcome, workerVars, startLate, envFrame>>

\* The end of the finally block: a job an exception left active gets its record.
Last ==
  /\ pc = "last"
  /\ IF active = None \/ unconfirmed
     THEN UNCHANGED <<board, cleanup, active>>
     ELSE /\ board' = Finish(board, active, "infrastructure_error")
          /\ cleanup' = [cleanup EXCEPT ![active] = "reaped"]
          /\ active' = None
  /\ pc' = "summary"
  /\ UNCHANGED <<ranIn, countVars, owned, unconfirmed, ret, got, outcome,
                 workerVars, startLate, envFrame>>

Summary ==
  /\ pc = "summary"
  /\ pc' = "done"
  /\ UNCHANGED <<board, cleanup, ranIn, active, countVars, owned, unconfirmed,
                 ret, got, outcome, workerVars, startLate, envFrame>>

\* _close_worker, first part: no admission any more, then the stop packet.
Close ==
  /\ pc = "close"
  /\ pc' = IF owned THEN "reap" ELSE ret
  /\ ret' = IF owned THEN ret ELSE "none"
  /\ board' = IF owned THEN [board EXCEPT !.loaded = FALSE] ELSE board
  /\ ipc' = IF owned THEN [ipc EXCEPT !.stop = TRUE] ELSE ipc
  /\ UNCHANGED <<cleanup, ranIn, active, countVars, owned, unconfirmed, got,
                  outcome, live, child, runs, startLate, envFrame>>

\* Mutant: the process is joined without a time limit and never terminated.
ReapJoinsForever ==
  /\ pc = "reap" /\ epoch \notin live
  /\ pc' = "closed"
  /\ unconfirmed' \in BOOLEAN
  /\ UNCHANGED <<board, cleanup, ranIn, active, countVars, owned, ret, got,
                 outcome, live, child, ipc, runs, startLate, envFrame>>

\* The process is joined, terminated, killed; then the lease is inspected and
\* the directory removed.  Either half can fail: the process is gone with a
\* failed check after it, or it cannot be reaped at all.
Reap ==
  /\ pc = "reap"
  /\ pc' = "closed"
  /\ \/ live' = live \ {epoch} /\ UNCHANGED unconfirmed
     \/ live' \in {live, live \ {epoch}} /\ unconfirmed' = TRUE
  /\ UNCHANGED <<board, cleanup, ranIn, active, countVars, owned, ret, got,
                 outcome, child, ipc, runs, startLate, envFrame>>

\* Last part: an unconfirmed cleanup is recorded on the active job, whatever
\* its status, and stops the service; the worker then stays owned.
Closed ==
  /\ pc = "closed"
  /\ IF unconfirmed
     THEN /\ board' = LET marked == IF active = None THEN board
                                    ELSE [board EXCEPT !.status[active] = "stopping"]
                      IN  StopLocked(marked, "cleanup_unconfirmed")
          /\ cleanup' = IF active = None THEN cleanup
                        ELSE [cleanup EXCEPT ![active] = "unconfirmed"]
          /\ UNCHANGED owned
     ELSE owned' = FALSE /\ UNCHANGED <<board, cleanup>>
  /\ pc' = ret /\ ret' = "none"
  /\ UNCHANGED <<ranIn, active, countVars, unconfirmed, got, outcome,
                 workerVars, startLate, envFrame>>

Scheduler ==
  \/ Top \/ Spawn \/ SpawnFails \/ PollWait \/ CheckWait \/ LookWait
  \/ CheckReady \/ StartFailed \/ CheckAlive \/ WorkerExited \/ Dispatch
  \/ SendRequest \/ Collect \/ Decide \/ Reaped \/ FinishActive \/ Except
  \/ Finally \/ Last \/ Summary \/ Close \/ Reap \/ Closed

----------------------------------------------------------------------------
(* The worker: service_child of inference/worker.py.                       *)

serviceFrame == <<board, cleanup, ranIn, recordVars, active, countVars, owned,
                  unconfirmed, schedVars, clockVars, http>>

Running(at) == epoch \in live /\ child.pc = at

\* prepare: a good ready packet, one with another model identity, or an error
\* packet followed by the end of the process.
ChildReady(kind) ==
  /\ Running("preparing")
  /\ ipc' = [ipc EXCEPT !.ready = kind]
  /\ child' = [child EXCEPT !.pc = "polling"]
  /\ live' = IF kind = "error" THEN live \ {epoch} ELSE live
  /\ UNCHANGED <<runs, serviceFrame>>

\* The request packet of this index exists: generation starts.
ChildStart ==
  /\ Running("polling") /\ child.index < calls
  /\ child' = [child EXCEPT !.pc = "generating"]
  /\ runs' = [runs EXCEPT ![ipc.job] = @ + 1]
  /\ UNCHANGED <<live, ipc, serviceFrame>>

ChildResult(kind) ==
  /\ Running("generating")
  /\ ipc' = [ipc EXCEPT !.answered = @ + 1, !.result = kind]
  /\ child' = [child EXCEPT !.pc = "acknowledged"]
  /\ UNCHANGED <<live, runs, serviceFrame>>

\* Acknowledged: the four files of this index go, and the next index follows,
\* or the wait for the stop packet once the authorised number is used up.
ChildNext ==
  /\ Running("acknowledged") /\ child.index < ipc.acked
  /\ child' = [child EXCEPT !.index = @ + 1,
                 !.pc = IF child.index + 1 < child.quota THEN "polling" ELSE "exhausted"]
  /\ UNCHANGED <<live, ipc, runs, serviceFrame>>

\* The stop packet is only looked at while the awaited packet does not exist.
ChildStops ==
  /\ ipc.stop
  /\ \/ Running("polling") /\ child.index >= calls
     \/ Running("acknowledged") /\ child.index >= ipc.acked
     \/ Running("exhausted")
  /\ live' = live \ {epoch}
  /\ UNCHANGED <<child, ipc, runs, serviceFrame>>

\* Killed by the system, or ended by an error outside its try block.
ChildDies ==
  /\ epoch \in live
  /\ live' = live \ {epoch}
  /\ UNCHANGED <<child, ipc, runs, serviceFrame>>

Child ==
  \/ \E kind \in {"ok", "mismatch", "error"} : ChildReady(kind)
  \/ ChildStart
  \/ \E kind \in Outputs : ChildResult(kind)
  \/ ChildNext \/ ChildStops \/ ChildDies

----------------------------------------------------------------------------
(* Time, signals and the life of the HTTP thread.                          *)

clockFrame == <<board, cleanup, ranIn, recordVars, active, countVars, owned,
                unconfirmed, schedVars, workerVars>>

\* The deadline of a terminal record is never looked at again.
JobDeadline(j) ==
  /\ j \in 1 .. records \ late /\ board.status[j] \notin Terminal
  /\ late' = late \cup {j}
  /\ UNCHANGED <<signal, over, startLate, http, clockFrame>>

\* No expiry is later than dispatch_stop.
DispatchStop ==
  /\ ~over
  /\ over' = TRUE /\ late' = 1 .. records
  /\ UNCHANGED <<signal, startLate, http, clockFrame>>

StartDeadline ==
  /\ ~startLate
  /\ startLate' = TRUE
  /\ UNCHANGED <<signal, over, late, http, clockFrame>>

Signal ==
  /\ ~signal
  /\ signal' = TRUE
  /\ UNCHANGED <<over, late, startLate, http, clockFrame>>

\* serve leaves its loop when the scheduler is done or a signal came, and stops
\* the service; stop then joins the thread for a bounded time.
HttpStop ==
  /\ http = "serving" /\ (signal \/ pc = "done")
  /\ board' = StopLocked(board, IF signal THEN "signal" ELSE "http_stopped")
  /\ http' = "joining"
  /\ UNCHANGED <<recordVars, late, cleanup, active, countVars, owned, unconfirmed,
                 schedVars, ranIn, workerVars, signal, over, startLate>>

HttpJoined ==
  /\ http = "joining"
  /\ http' = IF pc = "done" THEN "returned" ELSE "raised"
  /\ UNCHANGED <<clockVars, clockFrame>>

Handler ==
  \/ \E k \in Slots : Submit(k)
  \/ Read
  \/ \E j \in Jobs : Cancel(j)

Clock == (\E j \in Jobs : JobDeadline(j)) \/ DispatchStop \/ StartDeadline

\* The program has ended.
Ended == pc = "done" /\ http \in {"returned", "raised"} /\ UNCHANGED vars

Next == Handler \/ Scheduler \/ Child \/ Clock \/ Signal \/ HttpStop \/ HttpJoined \/ Ended

Spec == Init /\ [][Next]_vars

\* The threads go on while they can, and time passes: a thread of the operating
\* system, and a monotonic clock.  Nothing is assumed of the worker, which may
\* hang, of clients and signals, which may never come, nor of the end of the
\* service's own budget, so that no answer depends on it.
\* Every statement of the scheduler moves its pc.
Fairness ==
  /\ WF_pc(Scheduler)
  /\ \A j \in Jobs : WF_vars(JobDeadline(j))
  /\ WF_vars(StartDeadline)
  /\ WF_http(HttpStop \/ HttpJoined)

FairSpec == Spec /\ Fairness

----------------------------------------------------------------------------
(* Correctness.                                                            *)

PCs == {"top", "prepare", "poll", "check", "look", "ready", "start_failed",
        "alive", "dead", "dispatch", "request", "collect", "decide", "reaped",
        "finish", "except", "finally", "last", "summary", "done", "close",
        "reap", "closed"}

BoardType ==
  [status : [Jobs -> Status], token : SUBSET Jobs, pending : SUBSET Jobs,
   stopping : BOOLEAN, loaded : BOOLEAN,
   why : {"none", "signal", "service_budget_exhausted", "worker_start_failed",
          "worker_exited", "cleanup_unconfirmed", "scheduler_error", "http_stopped"}]

ChildType ==
  [pc : {"preparing", "polling", "generating", "acknowledged", "exhausted"},
   index : Nat, quota : Nat]

IpcType ==
  [ready : {"none", "ok", "mismatch", "error"}, job : Jobs \cup {None},
   answered : Nat, result : {"none", "unreadable"} \cup Outcomes, acked : Nat,
   stop : BOOLEAN]

SchedType ==
  /\ pc \in PCs
  /\ ret \in {"none", "start_failed", "dead", "dispatch", "reaped", "last"}
  /\ got \in {"none", "cancelled", "timed_out", "completed", "error"}
  /\ outcome \in {"none"} \cup Outcomes

\* Every variable has the type the code gives it.
TypeOK ==
  /\ board \in BoardType
  /\ cleanup \in [Jobs -> {"not_started", "live", "reaped", "unconfirmed"}]
  /\ ranIn \in [Jobs -> Nat]
  /\ slot \in [Jobs -> Slots \cup {NoOne}]
  /\ records \in 0 .. MaxRecords /\ active \in Jobs \cup {None}
  /\ generations \in Nat /\ epoch \in Nat /\ calls \in Nat
  /\ owned \in BOOLEAN /\ unconfirmed \in BOOLEAN
  /\ SchedType
  /\ live \subseteq Nat
  /\ child \in ChildType /\ ipc \in IpcType
  /\ runs \in [Jobs -> Nat]
  /\ signal \in BOOLEAN /\ over \in BOOLEAN /\ startLate \in BOOLEAN
  /\ late \subseteq Jobs
  /\ http \in {"serving", "joining", "returned", "raised"}

Queued == {j \in Jobs : board.status[j] = "queued"}
Dispatched == {j \in Jobs : board.status[j] \in {"running", "stopping"}}

\* The queue holds exactly the queued records, nothing waits once the service
\* stops, and only the active record is running or stopping: no path (cancel,
\* expiry, drain, dispatch) forgets a record or leaves it in two places.
OneHome ==
  /\ board.pending = Queued
  /\ board.stopping => Queued = {} /\ ~board.loaded
  /\ Dispatched \subseteq {active}

\* The generation budget is never promised twice: what was dispatched and what
\* still waits fit into max_generations, so an accepted request never finds
\* the budget spent, and every dispatched record was counted once.
BudgetKept ==
  /\ generations + Cardinality(board.pending) <= MaxGenerations
  /\ generations = Cardinality({j \in Jobs : ranIn[j] # None})

\* docs/18: an active cancellation, timeout or failure is terminal only when its
\* worker process is gone; completed alone may leave it live.
TerminalAfterReap ==
  \A j \in Jobs :
    board.status[j] \in Terminal \ {"completed"} =>
      /\ cleanup[j] \in {"not_started", "reaped"}
      /\ cleanup[j] = "not_started" <=> ranIn[j] = None
      /\ ranIn[j] \notin live

\* At most one model process exists, and none is started beside an unreaped one.
OneProcess == \A e \in live : e = epoch /\ owned

\* Each accepted request is generated at most once; and whatever a worker is
\* generating was given to it, to no worker before it, and its record is still
\* open: no generation starts or goes on after the terminal record.
AtMostOnce ==
  /\ \A j \in Jobs :
       /\ runs[j] <= 1
       /\ runs[j] = 1 => ranIn[j] # None
  /\ Running("generating") =>
       /\ ranIn[ipc.job] = epoch
       /\ ipc.job \in Dispatched

\* An unconfirmed cleanup is never dressed up: the service no longer accepts,
\* and the record of the active job says so and stays open.
UnconfirmedShown ==
  unconfirmed /\ pc # "closed" =>
    /\ board.stopping
    /\ active # None => board.status[active] = "stopping" /\ cleanup[active] = "unconfirmed"

\* A scheduler that ends with confirmed cleanup leaves no process and no open record.
CleanEnd ==
  pc = "done" /\ ~unconfirmed =>
    /\ live = {}
    /\ \A j \in 1 .. records : board.status[j] \in Terminal

\* A terminal record is final: its status and its cleanup are never rewritten.
TerminalFinal ==
  [][\A j \in Jobs : board.status[j] \in Terminal =>
       board'.status[j] = board.status[j] /\ cleanup'[j] = cleanup[j]]_vars

\* A worker is only reaped, or dropped, by the service when no job is running in it.
NoReapUnderRunning ==
  [][Reap => \A j \in Jobs : board.status[j] # "running"]_vars

\* Every accepted request gets its terminal record, or the service admits that
\* it could not confirm its cleanup; a worker that hangs delays neither.
Answered ==
  \A j \in Jobs : j <= records ~> board.status[j] \in Terminal \/ unconfirmed

\* A signal ends the program's serving.
SignalEnds == signal ~> pc = "done" /\ http \in {"returned", "raised"}
============================================================================
