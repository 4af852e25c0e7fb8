# ToolAlign: a verification development

TLA+ modules of the parts of ToolAlign in which order, failure and bounds
decide whether a result can be believed; TLC configurations that check them on
small instances; and TLAPS proofs of what matters most for every value of the
constants.  `PROJECT.json` lists the components, the runs, the mutants, the
hazards and, for every definition, the source lines it stands for.

Paths are relative to `src/src/toolalign/` unless they start with `docs/`,
`tests/`, `scripts/` or `reports/` (all under `src/`).

- [1. The system](#1-the-system)
- [2. Modules and code](#2-modules-and-code)
- [3. Runs](#3-runs)
- [4. Proofs](#4-proofs)
- [5. Where code and text disagree](#5-where-code-and-text-disagree)
- [6. What is not modelled](#6-what-is-not-modelled)
- [7. Plan](#7-plan)

## 1. The system

ToolAlign trains and evaluates a small model that calls tools.  A corpus of
conversations is split into groups, a model is fine-tuned on it (SFT), tasks of
its own are run by a harness and judged, the judged runs become preference
pairs, a sample of these is reviewed, and the pairs train the model once more
(DPO).  A restricted CUDA service answers single decisions over HTTP, and a
client on another machine drives conversations with it.  The GPU is a rented
Colab instance, which is set up, used, emptied and stopped from a Mac.
Everything that runs a model or a tool does so in a process of its own, under
deadlines, and must be able to say afterwards what happened.

| Component | State it keeps | Operations | Talks to |
|---|---|---|---|
| Scheduler, `service/runtime.py` | bounded request records with status, cancellation token and cleanup; the queue; the active job; the worker with its epoch, generations and calls; stop reason; unconfirmed cleanup | `submit`, `get`, `cancel`, `readyz`, `request_stop`; the thread `_run` with `_perform`, `_wait`, `_close_worker`, `_poll`, `_stop_locked` | HTTP handlers (shared state under one condition), worker (files) |
| HTTP control plane, `service/http.py` | the server's `serve` loop | one request at a time, every handler takes the lock; SIGINT/SIGTERM handlers | scheduler, client |
| Worker, `inference/worker.py` | packets it answered, its quota of generations | `service_child`: ready, collect a job, result, wait for the acknowledgement, stop | scheduler (files), prefix cache, GPU lease |
| Prefix cache, `model_io/prefix_cache.py`, `cuda_evaluation.py` | one entry: key, prefix, attention states | `take`, `publish`, `clear`, around one generation | worker, batch sessions |
| Owned process, `tools/isolation.py` | one child process, one directory of packets | start, wait under token and deadline, close: terminate, kill, reap | service, harness, client |
| Remote client, `client/remote.py`, `client/http.py` | a durable receipt per decision: key, posts, request id, state, cleanup | `decision`, `cleanup`; `cancel` after a crash | service through a lossy tunnel |
| Remote trajectory, `client/trajectory.py` | prefix, budgets, seen identifiers, summary | ask, check a batch, run its calls, observe | client, tool executor |
| Harness, `evaluation/harness.py` | trace, budgets, token accounting, model child, tool records | `run` with `finish` | model child (packets), tool children, oracle |
| Oracles, `evaluation/oracles/`; verdicts, `data/preferences/extract.py` | none | replay of a trace against the truth; a verdict on each decision of it | harness, preferences |
| Batch runners, `evaluation/cuda_eval/runner.py`, `training/cuda_generate/runner.py` | an output directory per segment with started, terminal and report files | import, settle, run units, report | earlier segments' directories, model session |
| Checkpoint store, `training/cuda_sft/checkpoint.py`, `runtime.py` | two roots with checkpoint directories and an index; records, best | `save`, `seed`, `_write`, `_publish`, `_retain`; `execute`, `supervise` | earlier segments' directories, GPU lease |
| Data pipeline, `data/pipeline.py`, `data/grouping.py` | records with keys, groups, splits | `build_groups`, `validate_isolation` | preferences |
| Preferences, `data/preferences/` | tasks, pool of pairs, sample, judgments, the list to train on, each frozen under its hash | audit, extract, `review-sample`, `apply-review` | data pipeline, harness, DPO |
| DPO, `training/cuda_dpo/` | a directory per segment: request, checkpoints with seals, `summary.json` | parent `supervise`; child: lease, inspect, load, train, save, rotate, seal, report | earlier segments' directories, GPU lease |
| GPU lease, `runtime/gpu_lock.py` | an flock and its metadata | enter, exit, inspect | every model process, Colab control |
| Colab control, `scripts/colab/` | on the instance: run directories, `session.json`, a tmux worker with its process group; on the Mac: owner, copies with receipts, inventories | environment, smoke, launch, wait, recover (export, download, acknowledge), stop (fence, verify, `cli stop`) | a remote machine over SSH |
| Registry, `tools/registry.py` | issued and consumed calls | validate, authorize | harness, trajectory, executor |
| Analysis, BFCL, MLX, model input format, contracts | results and files | conversions | - |

What is hard about it:

- **Interleaving.** The scheduler releases its lock in the middle of a job: it
  decides an outcome, closes the worker (up to several seconds) and only then
  writes the record.  Handlers, signals and deadlines come in between.  Two
  commands on the Mac meet on the same instance; the inspection of the lease
  holds it for a moment.
- **Partial failure.** A worker that cannot be reaped, a packet that cannot be
  written, a directory that cannot be removed, one refused call of a batch.
- **Unreliable delivery.** The tunnel loses requests and replies, and a POST
  the client gave up on may still be handled afterwards.  A call over SSH that
  timed out goes on at the other end.
- **Crash and resume.** Client, batch segments, training runs and the instance
  die anywhere and are continued by another process, which knows only the files.
- **Stale state.** A review is amended after its list was written, a snapshot is
  acknowledged after the job was launched, a cache entry belongs to somebody
  else, a child outlives the parent that supervised it.
- **Timeouts.** A late answer races the deadline that gave up on it.
- **Bounds.** Records, queue, authorised generations, decisions, tool rounds,
  retained checkpoints, classes smaller than their share of a sample.
- **Liveness.** Every request gets its terminal record, every run ends, though
  the child it waits for may hang forever.

And what makes each part correct: a record has one home and one life; a
terminal record is the answer for good and is not written before the process
behind it is gone; nothing is generated twice, by the service, by a retry, or
by a resumed batch; no call is executed twice and every call is answered
before the model is asked again; nothing one principal had computed shows in
the answer to another; what a receipt, a trace, a report or a summary claims is
what happened; what an index or a seal names is complete, and the best and the
latest checkpoint are never lost; nothing that is held out or was not reviewed
is trained on, and each pair is learned once; an instance is stopped only when
the Mac has everything that is on it.

## 2. Modules and code

| Module | Models | Role |
|---|---|---|
| `Service` | `service/runtime.py`, `service/http.py`, `inference/worker.py`, the use of `tools/isolation.py` | detailed state machine |
| `Requests` | what the service promises about its records | abstract specification |
| `ServiceRefinement` | `Service` with `Requests` instantiated over it | composition |
| `ServiceProofs` | - | proofs of `Service`, of `Requests` and of the refinement |
| `Client`, `ClientProofs` | `client/remote.py`, `client/http.py` over `Requests` | composition with the abstract service, proofs |
| `Dialogue` | what a bounded conversation promises | abstract specification |
| `Oracle` | `evaluation/oracles/semantic.py` | operators over traces |
| `Verdict` | `data/preferences/extract.py`, extends `Oracle` | operators over traces |
| `Harness` | `evaluation/harness.py`, `tools/executor.py`, `tools/isolation.py`, extends `Verdict` | detailed, implements `Dialogue` |
| `HarnessProofs` | - | proofs of `Harness`, of the refinement and of `Dialogue` |
| `Trajectory` | `client/trajectory.py` | detailed, implements `Dialogue` |
| `PrefixCache` | `model_io/prefix_cache.py`, `cuda_evaluation.py`, `cuda_generation.py`, `inference/cuda.py` | state machine of one model process |
| `Serving`, `ServingProofs` | a trajectory whose decisions are made by that process, between the requests of others | composition, proofs of it and of both its parts |
| `Batch`, `BatchProofs` | `evaluation/cuda_eval/runner.py`, `training/cuda_generate/runner.py` | state machine with crashes, proofs |
| `Checkpoint`, `CheckpointProofs` | `training/cuda_sft/checkpoint.py`, `training/cuda_sft/runtime.py` | state machine with crashes, proofs |
| `Grouping` | `data/grouping.py` | operators: union-find, keys, isolation |
| `Preferences` | `data/pipeline.py` (splits), `data/preferences/`, `training/cuda_dpo/data.py`, extends `Grouping` | state machine of files frozen one after the other |
| `Dpo` | `training/cuda_dpo/`, extends `Preferences` | segments with crashes, on the list that was bound |
| `DpoProofs` | - | proofs of `Grouping`, `Preferences` and `Dpo` |
| `Control`, `ControlProofs` | `scripts/colab/control.py`, `remote.py`, `support.py`, `runtime/gpu_lock.py` | state machine of both sides, proofs |
| `MC*` | - | instances for TLC |

**Service.** One action per critical section, and one per stretch between two
of them.  `pc` names the statement of `_run` the scheduler thread is at; `ret`
is where `_close_worker` returns to.  `board` is what the lock protects and
clients see (`status`, the set `token` of cancelled jobs, `pending`, the stop
flag and its reason).  Because jobs are numbered in the order they are
appended, the set `pending` with its least element is the deque.  `Poll` is
applied first in every critical section, as `_poll` is in the code.  The
worker (`child`, `ipc`, `live`) answers, hangs or dies at any point; what the
model computes is a free choice of outcome.  Deadlines are flags set by
actions of their own (`late`, `startLate`, `over`), so that the flag may be
set between any two steps.  The journals a handler writes are left out, except
for the packets to the worker, which `DiskFaults` lets fail: those are the
writes whose failure the code handles in the middle of a job.

A race worth knowing, which the model has and no property forbids: a cancel
that arrives between the block of `_perform` that decides and the one that
finishes is answered 202 `stopping`, and the record may still end `completed`.
`Requests` allows exactly that.

**Requests** is the abstract life of records: absent, queued, running,
stopping, terminal.  One step may settle several records at once since every
critical section of the code first ends whatever waited too long.

**Client.** The service of the client model is `Requests` and not `Service`;
`ServiceProofs` shows that this is enough.  A POST is an element of
`wire` until the service handles it, at any later time or never; replies may
be lost, stale or malformed.  `saved` is what the receipt file holds when the
process dies; the `cancel` command continues from there.  Deadlines and the
cleanup budget are flags; the 30 seconds the service allows a decision have no
clock here, the abstract service may end a record whenever it wants.

**Dialogue, Harness, Trajectory.** `Dialogue` is the conversation itself; both
loops are shown to implement it.  In `Harness` the model child and the tool
child are processes that may hang, die or answer late; the caller's token and
the clock interrupt between any two steps; the close of either child may fail.
`authorize` of the registry passes for every call that was just validated, and
is part of the step that validates.  The `RuntimeError` of a tool child that
cannot be reaped leaves `run` as in the code.  `Oracle` replays the trace of
the run it is called from; `Verdict` reconstructs the same trace from the
decisions, as extraction does with finished runs, and judges each of these.
`SuccessIsLegal` relates the two: a run the oracle calls a success is one
extraction can choose, retried failures included.  `Trajectory` checks a whole
batch before it runs its first call, `Harness` each call in its turn, which is
why `NothingOfARefusedBatch` is a property of the former only.  The harness asks
for token and clock once more before it calls the oracle; a cancellation that
arrives while the oracle scores changes nothing, in the code as in `Conclude`,
which is one step: `SuccessIsClean` speaks of what came before it.

**PrefixCache, Serving.** A `DynamicCache` is the sequence of the positions the
model computed, each with its token and the principal it was computed for; that
second part is auxiliary and what `AsIfUncached` speaks of.  One action per
stretch of `generate`: bound, consumed by `take`, grown by the forward and
cropped by `publish`, then cleared by whatever did not end as a complete action.
`Serving` puts a `Trajectory` in front of it: a decision that is delivered as
completed is one this process has made for exactly the trajectory's prompt;
requests of others, and of the same principal from elsewhere, come in between,
and the process may be replaced at any time.  That the service works on one
request at a time is shown in `Service`, and is the guard of `Bind` here.

**Batch.** A segment's directory holds files that are written once, by an
atomic rename.  `Write` is one of those; `Die` may follow any of them.  The
operator's choice of `resume_from` is the newest segment that finished its
import, or with `ResumePartial` any segment with a `batch.json`.  A segment
that dies before its `batch.json` exists can never be resumed from and is left
out.  With `MaxRequests = 0` the module is the generation runner.

**Checkpoint.** A checkpoint is the pair of `state.pt` and the best state it
carries; a directory name (step and hash) is the step and the segment that
wrote it.  `Publish` is the rename in one root, `PutIndex` the replacement of
an index, `Tear` and `Remove` the two halves of `rmtree`; `Die` may follow any
of them.  `seen` is auxiliary: the validated records on the way to a state,
across segments, which the code does not keep and `BestKept` compares with.

**Grouping, Preferences.** `Grouping` is the union-find of `build_groups` as a
fold over the edges that common keys and near texts give.  `Preferences` runs
the stages in their order, each reading what the stage before has frozen: the
splits of `build`; the audit of the authored tasks, which share tools with
everything through the registry; the pool of pairs, under one error class each;
the sample that the quotas and floors of the classes determine; judgments,
which may be amended until the list is bound; `apply-review`; and the binding of
the list to a run, which reads the review again.  A key is a raw or normalized
schema or a template; that two texts are near is a free relation.

**Dpo.** A segment is a request, a child and a parent.  The native trainer saves
a checkpoint, removes what exceeds `save_total_limit`, and only then calls
`on_save`, which seals it: `SaveBegin`, `SaveEnd`, `Rotate`, `Seal`.  A child
holds the GPU lease from its start to its death, and may outlive its parent; a
new segment may be asked for then.  `weights` is the sequence of pairs learned.
`GiveUp` stands for whatever makes the parent kill the child: timeout, size of
the output, a signal.

**Control.** A command on the Mac is where it is there (`local`) and where its
call is on the instance (`remote`); one that gives up has `local = "idle"` while
the other goes on, and what the call answers then reaches nobody.  A snapshot is
the value of the run directory it was taken from.  The worker in tmux starts a
process group of its own and waits for its leader, the parent of the training
process (`leader`, `job`).  The worker may die without its exit record; the group
may survive SIGKILL; the leader may be killed before its child, whose run then
has the record of an end while the child goes on (`Orphan`), as a training
process with a session of its own does after a timeout.  `late` counts what such
a process still writes to the directory.  The instance may be lost at any time, and copies on the Mac be
damaged (`Damage`, between commands).  `Unread` says whether the next step on a
run may be asked for before the result of its setup or launch was read.

## 3. Runs

| Run | Instance | Question |
|---|---|---|
| `service_safety` | 3 keys, 3 records, queue of 2, 2 generations, 3 kinds of result; 2.7 million states | do records, budget, worker and terminal states stay consistent, and does it implement `Requests`? |
| `service_live` | 2 keys, 2 records, queue of 1, 2 generations, disk faults, fair | does every accepted request get its terminal record, and does a signal end both threads from every point? |
| `service_ack_fault` | 1 key, disk faults; expects a violation | is a terminal record final when the acknowledgement cannot be written? |
| `client_decision` | 2 service records, 2 creation attempts, fair | is nothing left behind unreported, is the receipt true, does the decision end? |
| `harness` | 3 decisions, 2 rounds, 5 calls (a retry, another tool, a repeated, a refused one), 2 truths, fair; 2.8 million states | do trace, accounting, verdict and end tell what happened, is it a `Dialogue`, and does it end? |
| `trajectory` | 3 decisions, 2 rounds, 5 calls; 2 principals, prompts of 3 to 7 tokens; 1.7 million states | does it implement `Dialogue`, whole batches only, with answers that no cache entry changes? |
| `batch` | 2 units of 2 requests, 3 segments | is nothing run twice, no result changed, every report true? |
| `batch_partial_import` | 2 units, 3 segments; expects a violation | does that hold when a half-imported segment is resumed from? |
| `checkpoint` | 4 steps, 2 segments, 2 losses, cadences 1 and 2 | are indexes, selection, resume and retention sound at every point of a crash? |
| `control` | 2 runs, 2 commands, one of which waits, 1 run launched; 4.8 million states | is only what is over exported, is the fence tight, and everything saved before the stop? |
| `control_unread` | 1 run, 2 commands that both wait; expects a violation | does that hold when a setup is repeated while it is under way? |
| `preferences_dpo` | 3 records, 3 tasks, 2 classes, batches of 2, 2 segments, cadences 1 and 2; 2.1 million states | is only what was reviewed and not held out trained on, each pair once, and does a PASS mean it? |

What the properties say stands before each of them in the modules; what could
make them fail is listed under "hazards" in `PROJECT.json`, at its line.

**Why these bounds are enough.**  In the service, two jobs are needed for a
queue behind an active job, the third for one that is refused by a full queue
and for the budget (two generations are fewer than three records, so that
admission must refuse); two generations give a worker that is replaced.  Keys
are symmetric.  Clients need a second attempt to have one that is handled late,
and a second service record that the first can be confused with.  The harness
needs a second batch for a retry and a repeated identifier, and a third decision
to be refused the third round.  The trajectory's calls include an identifier
used before and one that is refused, first and second in their batch; its
prompts are asked again, have a common beginning, are the same for two
principals, or do not fit.  Three segments let a batch be cut short, resumed, cut short again and
reported.  Four steps are the fewest with which a scored checkpoint is pruned
(three are always kept), and the second segment's own publications include the
copy of the best that a third one would resume from like any first-generation
checkpoint.  Two runs on one instance are needed for a stop that must have saved
the other one too, two commands for calls that overtake each other; runs and
commands are symmetric.  With one terminal a second command is only ever a call
that was given up; two terminals are what `control_unread` needs.  One of the
runs is launched (`MaxJobs`): a second job would compete for the lease, as
inspections do anyway; and one late write tells a snapshot from the directory.  In
`preferences_dpo` three tasks are the fewest with a chain (task, task, held-out
record), with a sample smaller than its pool and with a class that has no seat
of its own; the sizes of the sample and of the tolerance are scaled to that.
`MinPairs = 3` lets only full lists be trained: two optimizer steps of the list,
three of the capacity plan, one more than `save_total_limit`, so that the
rotation removes something.  Names of other bounds: `MaxDecisions`,
`MaxJobs`, `MaxLate`, `MaxToolRounds`, `MaxSegments`, `MaxPosts`, `NewTokens`, `PlanLength`.

**Deadlock** is checked except in the batch, checkpoint, control and DPO runs:
there no further segment or command is started once the bound is reached or the
instance is gone, and the program really stops.  Elsewhere a stuttering action
marks the states in which the program is over; in `trajectory` the process may
always be replaced.

**Fairness.**  `service_live`: weak fairness of the scheduler thread, of the HTTP
thread's stop and join, of each job's deadline and of the start deadline: threads
run and a monotonic clock passes.  None of the worker, of clients, of signals or
of the end of the service's budget.  `client_decision`: weak fairness of the
client's own steps and of its two clocks (the decision's deadline, the cleanup
budget); none of the service or the tunnel.  `harness`: of the loop and of the
expiry; none of the children, of which both may hang, and none of the token.

Every property of a passing run has a mutant, a definition next to the one it
replaces that a plausible bug would produce (a dropped guard, a swapped order,
the newest for the oldest); with it TLC violates the property.

## 4. Proofs

TLAPS proves the following for every value of the constants that meet the
assumptions named in the modules.

**The service** (`ServiceProofs`, from `ServiceAssumption`).  `TypeCorrect`,
`RecordsHaveOneHome`, `OneProcessAlways`, `TerminalOnlyAfterReap`,
`UnconfirmedStaysShown`, `EndsClean`, `NoSilentReap`, `BudgetNeverOverdrawn`,
`GeneratedAtMostOnce`.  None of these is inductive by itself: that a record is
only terminal once its process is gone depends on where the scheduler is.  The
inductive invariant `IInv` is the conjunction of

- `TypeOK`;
- `BoardOK`: the records after the last accepted one are absent, the queue holds
  exactly the queued ones, a stopping service has none of these, only the active
  record is running or stopping;
- `OneProcess`: at most one process exists, of the owned worker's epoch;
- `ControlOK`: what every `pc` knows about the worker, the active job and the
  way back from `_close_worker`;
- `RecordsOK`: what the epoch and the cleanup field of a record say about its
  dispatch, its outcome and its process;
- `PhaseOK`: where the scheduler may be while a record is running, and what it
  has done about the worker by the time it writes an outcome;
- `UnconfirmedShown`.

One lemma per action, under it a step for each part that the action can
disturb; the operators on the board (`Poll`, `StopLocked`, `Finish`, ...) have
lemmas of their own, cited by the actions that use them.

`BudgetKept` is inductive relative to `IInv`: only `Submit` adds to the queue,
under the admission test, and only `Dispatch` takes from it and counts.  That a
request is generated at most once, and only while its record is open
(`AtMostOnce`), needs the protocol of the packets, `OInv`: the request, result and acknowledgement packets of one worker
are numbered, at most one request is unacknowledged at any time (`Acks`), where
the scheduler is says which one (`Turn`), and as long as the worker has not
started on it nobody has ever generated for its job (`Once`); the record of a
request the worker has not answered was given to this epoch and is not completed
(`Fresh`).  With `TerminalAfterReap` that record cannot be terminal in another
way either: a process that generates is not reaped.

**Its refinement** (`ServiceProofs`).  `Refinement`: with `~DiskFaults` every
step of `Service` is a step of `Requests` or stutters.  The invariant is `IInv`
and `ActiveOpen`: the active record is open until the scheduler has cleared
`_active`; this is what the disk fault of section 5 breaks, and why the
assumption is there.  `TerminalIsFinal` follows along the same line.  What the
abstract specification promises, `KeysAreUnique`, `OneAtATime` and
`AnswersAreFinal`, is proved of `Requests` alone, and `PromisesKept` draws the
conclusion for the service.

**The client** (`ClientProofs`, with `ClientAssumption` as a hypothesis, since
`Client` instantiates `Requests`).  `AlwaysRecoverable`, `RejectionProvesNothing`,
`NothingIsLeft`, `ReceiptsAreTrue`, for any number of attempts and service
records, whatever is lost or late and wherever the client dies.  The inductive
invariant has a part for each place a piece of the truth may be: the service's
records (`ServerOK`: one key names at most one), the receipt in memory
(`ReceiptOK`), the file, which is never ahead of it (`SavedOK`), an answer under
way (`ReplyOK`), the tunnel (`WireOK`: a cancellation is only posted in the
cleanup), and the cleanup (`CleanupOK`).  `ReplyOK` carries the argument for
rejections: a refusal of the only attempt was given while there was neither a
record nor another POST.  `NothingLeftSilently` is inductive only from the last
write on (`NothingLeft`).

**The harness** (`HarnessProofs`, from `HarnessAssumption`).  For any calls,
batches, truths and budgets, whatever the two children and the caller do:
`CompleteMeansCounted`, `EndsAreHonest`, `TraceIsInOrder`,
`NothingOutlivesSuccess`, `SuccessIsUsable`.  The invariant `IInv`:

- `Typed`;
- `Counting`: how many requests were asked, taken and replied to at each point
  of the loop;
- `Batching`: which part of a batch is done where;
- `Blamed`: who is responsible for an ending or a result that blames the caller
  or the clock;
- `Remains`: which processes are left at which point;
- `Tracing`: the trace is made of whole calls, in the order of the batches;
- `Said`: the history holds the batches of the model's replies, in order;
- `Told`: the trace, without the outcomes, is the one the replies tell;
- `Fresh`: what was run was marked as seen before;
- `OneEnd`: terminal events stand only at the last place of a returned run, and a
  finalized one was not interrupted before its verdict;
- `SuccessIsLegal` itself.

`SuccessIsUsable` needs the most: the trace the oracle replays and the trace
that extraction rebuilds from the decisions are two computations, and `Told` is
why they agree, retried calls included.

`RunsWindDown` is the part of `Ends` that is not fairness: every step of `run`
and `finish` makes `Remaining` smaller (the decisions still open, the place in
the loop or in `finish`, what is left of the batch), and nothing the children,
the caller or the clock do makes it larger.  `LessIsWellFounded` says that it cannot
go down for ever.  It needs `Remains`: `finish` is entered a second time only by
a finalized run, whose cleanup was attempted the first time.

**Conversations.**  `Dialogue` promises `NoCallTwice`, `AnswersComeFirst` and
`BudgetsHold` (`HarnessProofs`, with `DialogueAssumption` as a hypothesis; the
invariant ties the number of decisions to the number of rounds).
`RunIsADialogue` and `TrajectoryIsDialogue`: every step of the harness, and every
step of a served trajectory, is a step of `Dialogue` or stutters, so that both
keep these promises.

**Trajectory and prefix cache** (`ServingProofs`, from `PrefixCacheAssumption`).
`CacheNeverShows`: `AsIfUncached` for any principals and prompts of any length,
whatever is asked in whatever order.  The invariant says what was computed for
whom: the entry token by token for its tenant (`EntryOK`), the cache of a
running forward for the request that is served (`ForwardOK`), whose principal is
the tenant bound last (`BoundOK`).  That theorem is about `CacheSpec`, the
process under every possible sequence of requests; `ServedAsIfUncached` is the
same of `Serving`, whose every step on the cache is one of those.
`WholeBatches` is `NothingOfARefusedBatch`: no batch that enters the conversation
holds a call that is refused or repeats an identifier of an earlier one (`Noted`
says that these are all in `seen`), and a call is only started from a batch of the
conversation, because the check is over before the first start.

**The batches** (`BatchProofs`, from `BatchAssumption`).  `NothingRunTwice`:
with `~ResumePartial`, `NeverRetried` for any number of units, requests and
segments.  The invariant says that the newest directory whose import finished
knows everything that was ever run (`Handover`), and how much of that the
segment under way has taken over (`Importing`), holds in its records (`Looping`)
and has asked (`Asking`).

`ResultsStay` and `ReportsAreTrue`, under the same hypothesis, need a second
invariant `KInv`: the directory that is handed on holds, or will settle to,
every row that any directory holds (`Carried`); an import under way has copied
exactly what is not left to do (`Copying`, `Settling`); a unit that runs has no
row yet (`RowsOfRecords`); and rows and results say what happened to each
request (`TrueRows`).

**The checkpoint store** (`CheckpointProofs`, from `CheckpointAssumption`).
`TypeCorrect`, `IndexAlwaysSound`, `BestAlwaysKept`, `AlwaysResumable`,
`AlwaysRecoverable`, for any number of steps, segments, losses and cadences.
The inductive invariant `CInv` adds to `TypeOK` and `IndexSound`

- `Selected`: the store's own best, every complete directory and every one it
  is about to write is the best of what was validated on the way to it, and
  bound to that selection;
- `Ordered`: what is being written is later than every record the store counts,
  and the best is among those or being written;
- `Placed`: which records each of the two roots holds at every stage of a save.

`Ordered` is why the best cannot be pruned and why `Latest` is the one just
written; without `Placed` nothing says that the second index is written over
directories that exist.  `Recoverable` needs `Recovered` on top of these: while
a save is under way, the events name nothing later than the record that is
written, and the indexes already replaced name that one.

**Colab control** (`ControlProofs`, from `ControlAssumption`, each theorem with
`~Unread` as its hypothesis).  `ExportsAreOver`, `NothingBehindTheFence`,
`EverythingSaved`, `EndsAreRecordedOnce`, for any number of runs, commands and
terminals.  The invariant `CInv`:

- `Exclusive`: at most one setup or launch of a run is under way, on either side;
- `SetupOK`, `LaunchOK`: a claimed run has its end recorded by the setup that
  claimed it; a launch comes after that end and once, and worker, leader,
  training process and exit record are of that launch;
- `DeadOK`: on an instance that is gone nothing is under way;
- `ExportOK`: every snapshot the registry names, or is about to, is of a run with
  the record of an end;
- `FenceOK`: behind the fence nothing is active but orphans;
- `StopOK`: how far a command may have come in a stop, and that the inventory it
  goes by is what the fence has found for good, but for what an orphan adds;
- `SavedOK`.

A second invariant, `LeaseOK`, says that a training process has the lease and
that an inspection excludes it: no training process has the GPU when the fence
is set.  An orphan that has not asked for it yet may take it later, which is why
the exception stands in these three theorems.

`Exclusive` is where `~Unread` is needed: without it the refusal of a second
setup is recorded as the end of the first (section 5).

**What DPO trains on** (`DpoProofs`, from `PreferencesAssumption`), in three parts.

*Groups.*  `GroupedJoins`: for any number of records, the union-find over the
inverted index and the near pairs puts all that is linked into one group.  A
forest is an array in which every node points to itself or to a smaller one
(`Forest`); a join keeps that, joins the roots of its two nodes and separates
nothing.  `HeldOutStaysOut` has the
invariant `Splitting`: records of one group are in one split, and nothing that
is kept is in the component of a group that is held out.  The witness for the
property, a set closed under links with every kept task and no held-out record,
is the union of the components without one.  A link is a common key, a common
normalized key or, between two records, nearly the same text.  What the code does
not promise is not stated either: records of two splits may have a normalized key
in common (`cross_split_bridge_keys`; the build sets them aside), and the texts of
tasks are not compared with those of the corpus (`audit.py` calls the keys of their
templates lexical, "not semantic recall").

*The review.*  `ReviewedTrains` has the invariant `Reviewing`: each pair has an
error class, and what is bound was confirmed on the judgments that stand.  That
the sample is complete is arithmetic: `SeatsFit` (the floors leave no more seats
than there are classes with room, since each such class loses less than one seat
to its floor) and `SampleIsFull` (the sample has exactly its size and a pair of
every class).  `PreferencesAssumption` says of the classes what holds of
`ERROR_CLASSES`: they differ, and are no more than the smallest sample.

*The segments.*  `LearnedInOrder`, `SummariesAreTrue`, `SummariesStay`,
`LatestStays`, for any list, plan, cadence and number of segments, wherever a
parent or a child dies.  The invariant `SInv`:

- `Typed`;
- `Requested`: a segment nobody asked for has left nothing, one that was asked for
  has a frozen list, and formal ones that of the bound input;
- `Leased`: whoever works holds the lease, so that at most one child does;
- `Resuming`: what a child has inspected is still complete when it loads it;
- `Learning`: weights and checkpoints hold the beginning of the order, up to
  their step, and a child stops at its last step;
- `Standing`: which directories there are at each point of a save, and how many
  when one is half removed;
- `Reported`: a success that is reported, received or written is of a sealed
  checkpoint at the last step, which nobody will change.

`LatestStays` assumes `SaveLimit >= 2`, as `training/cuda_dpo/trainer.py` sets it:
with one checkpoint kept, the Trainer would remove the newest sealed one before
the next is sealed.

**Induction over data.**  The library's induction theorems take operators as
parameters and cannot be used with these provers.  Where a fold, a path in a
forest or a sum over a set needs induction, the proofs take the smallest
counterexample: a set of natural numbers that is not empty has a least member
(`Least`), so that what holds of the empty set, and of every set of whose rest it
holds, holds of all subsets of a finite set (`BySize`, with a set of sets in
place of the predicate).

**Only model-checked.**  Liveness under fairness (`Answered`, `SignalEnds`,
`Ends`), which is out of the prover's reach; of `Ends`, that a run takes only
finitely many steps is proved (`RunsWindDown`), and that one of them can be
taken until it is over (`ENABLED`) is not.  Every invariant and action property of
a passing run is a theorem.

## 5. Where code and text disagree

- **A completed record can be reopened** (`service_ack_fault`).  `_perform`
  writes the acknowledgement packet after the terminal record is journalled
  and before `_active` is cleared.  When that write fails, `_run`'s handler
  finds the completed job still active, rewrites its cleanup, and with an
  unconfirmed cleanup turns `completed` back into `stopping`.
- **A started unit can be run again** (`batch_partial_import`).  `batch.json`
  is written before the import begins, and `recover` accepts every directory
  that has one: a segment that died while it copied the started records is
  accepted as `resume_from`, and the units whose records it lacks are run
  again, which two docstrings exclude.  Resuming from the older segment, whose
  directory is complete, avoids it (`batch`).
- **A run still being set up can be exported** (`control_unread`).  The `finally`
  of `remote.setup` writes `setup-exit.json` also for a repetition that was
  refused because the first call had claimed the run; if that call is still
  installing, the run counts as over and is exported as it is.  Whoever waits for
  the result of a setup before the next step on that run is safe (`control`).

One more disagreement has no run of its own, because the properties that would
show it say what does hold, with the exception spelled out:

- **A run can be exported while its training process goes on.**
  `docs/18_CUDA_RUNTIME.md:121` says that `recover` exports only terminal runs, and
  line 123 that the instance is stopped when all copies are confirmed.  `worker`
  (`remote.py:309`) waits for the leader of the group alone.  When the leader is
  killed and its child is not (the CUDA DPO child stays in the group,
  `cuda_dpo/runtime.py:153`, the SFT child has a session of its own,
  `cuda_sft/runtime.py:215`), `exit.json` says `timed_out: false`, `export` takes
  the run for terminal, and `stop_ready` sets the fence if the child has not taken
  the lease yet.  In `control`, without `\/ Orphan(r)` in `OnlyTerminalExported`
  TLC finds such an export after 14 steps, and a stopped instance whose last
  files the Mac does not have after 23.

Worth knowing, and nobody claims otherwise: a training segment that dies while
it seeds its store has an index whose `last` is the copy of the best, older than
the checkpoint the segment resumed from.  `Recoverable` speaks of the
checkpoints a segment's own events name; after such a death the earlier
segment's directory is the one to resume from.

## 6. What is not modelled

- Parsing of HTTP requests, authentication, the connection timer: they change
  no record.
- What the model computes, tensors, optimizers, losses, tokenisation, the load
  of a model and the checks of its adapter: a free choice of outcome.
- Hashes and identities of runs, sources, models and data: inputs are those
  whose identities match, and the refusals happen before any state changes.  The
  hash of a state is the record that determines it.
- Numbers a trace or a summary only reports (timings, memory, provenance).
- In Colab control: the contents of outputs, transport and provenance, a failing
  write of `process.json` after the group was started, and the reuse of an
  instance's name.
- In DPO: more than one `supervise` at a time (a child may be orphaned all the
  same), tasks without an acceptable example, clones of more than one task.
- The registry's table of issued calls: a harness makes one registry for each
  run and uses every call it validates at once.
- The observation oracle, which compares texts with each other; the parsing of
  sources, the selection for training and the revisions of quality, which are
  conversions of one pinned corpus; the statistics of evaluation and the BFCL
  adapters; MLX training and the compatibility probes; the catalogues and their
  schemas.  None of them keeps state or meets another actor.
- The review and audit scripts under `reports/`, which are a large part of the
  repository's lines and were each run once.

## 7. Plan

Done, in this order: `Service`, `Requests`, `ServiceRefinement` and their
proofs; `Client`; `Dialogue`, `Harness`, `Oracle`, `Trajectory`; `Batch`;
`Checkpoint` and its proofs; `Control` and its proofs; `Grouping`,
`Preferences`, `Dpo`; `Verdict`; `PrefixCache` and `Serving`; then the proofs of
the batches, of trajectory and cache, of the client, of the harness, and of the
preferences and DPO.

Next, by weight:

1. The protocol check of message histories (`model_io/format.py`) as a promise
   of `Dialogue`: every prefix either loop builds passes it.
2. The liveness of the scheduler reduced to an invariant as far as that goes, as
   `RunsWindDown` does it for the harness: a bound on the steps a request can
   still take, which leaves only fairness to the runs.
