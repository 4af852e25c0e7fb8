-------------------------------- MODULE Dpo --------------------------------
(***************************************************************************)
(* DPO training on the bound input (training/cuda_dpo): one request after  *)
(* the other, each a segment with an output directory of its own, a child  *)
(* that trains under the GPU lease and a parent (supervise) that bounds it *)
(* and writes summary.json.  The native Trainer saves a checkpoint, then   *)
(* removes old ones, and only then calls on_save, which seals it.  Either  *)
(* process may die at any point; a child may outlive its parent.           *)
(***************************************************************************)
EXTENDS Preferences

CONSTANTS
  Batch,        \* pairs of an optimizer step (8 in the code)
  SaveLimit,    \* save_total_limit (2 in the code)
  PlanLength,   \* the pairs of a capacity plan, with repetitions
  Cadences,     \* values of checkpoint_every_steps
  MaxSegments,  \* bounds the number of requests
  MinPairs,     \* bounds the inputs that are trained, from below
  NoOne,        \* the lease is free
  Fresh         \* a request that resumes nothing

ASSUME DpoAssumption ==
  /\ {Batch, SaveLimit, PlanLength, MaxSegments, MinPairs} \subseteq Nat \ {0}
  /\ Cadences \subseteq Nat \ {0} /\ NoOne \notin Nat

Segments == 1..MaxSegments
StepsOf(n) == (n + Batch - 1) \div Batch
AllSteps == 1 .. StepsOf(Max({PlanLength, TaskCount}))

VARIABLES
  request,  \* the request of each segment
  child,    \* where the child is, and what it has in memory
  files,    \* the checkpoint directories of each segment
  parent,   \* where supervise is, and its result
  summary,  \* summary.json of each segment
  lease     \* the segment whose child has the GPU

dpoVars == <<request, child, files, parent, summary, lease>>
vars == <<preferenceVars, dpoVars>>

NoRequest == [kind |-> "none", order |-> <<>>, every |-> 1, stop |-> 0, from |-> Fresh]
NoChild == [at |-> "none", step |-> 0, weights |-> <<>>, pipe |-> "empty", exit |-> "none"]
NoFile == [state |-> "none", trained |-> <<>>]
NoParent == [at |-> "none", result |-> "none"]

Init ==
  /\ PreferencesInit
  /\ request = [s \in Segments |-> NoRequest] /\ child = [s \in Segments |-> NoChild]
  /\ files = [s \in Segments |-> [n \in AllSteps |-> NoFile]]
  /\ parent = [s \in Segments |-> NoParent] /\ summary = [s \in Segments |-> "none"]
  /\ lease = NoOne

Over == {"closed", "raised", "dead"}
Alive(s) == child[s].at \notin {"none", "gone"}
Sealed(s, n) == files[s][n].state = "sealed"
Order(s) == request[s].order

----------------------------------------------------------------------------
(* The request.                                                            *)

\* select_pairs: the formal order, or a diagnostic plan that may repeat pairs
\* and begins with the longest, here the first.
Plan == [i \in 1..PlanLength |-> input[((i - 1) % Len(input)) + 1]]
OrderOf(kind) == IF kind = "dpo" THEN input ELSE Plan

\* supervise has started its process; no other supervise is at work.  A resumed
\* checkpoint was complete when the request was written.  Of the input, only
\* the pairs matter from now on.
Begin(s, kind, every, stop, from) ==
  /\ stage \in {"bound", "frozen"} /\ stage' = "frozen" /\ Len(input) >= MinPairs
  /\ request[s] = NoRequest /\ \A t \in Segments : t < s => parent[t].at \in Over
  /\ stop <= StepsOf(Len(OrderOf(kind)))
  /\ from # Fresh => Sealed(from[1], from[2])
  /\ request' = [request EXCEPT ![s] = [kind |-> kind, order |-> OrderOf(kind), every |-> every,
                                        stop |-> stop, from |-> from]]
  /\ child' = [child EXCEPT ![s].at = "starting"]
  /\ parent' = [parent EXCEPT ![s].at = "poll"]
  /\ pool' = <<>> /\ review' = <<>> /\ applied' = NotApplied
  /\ UNCHANGED <<corpus, keys, kept, input, files, summary, lease>>

----------------------------------------------------------------------------
(* The child: execute, the native Trainer and SegmentBoundary.             *)

Goes(s, at) == child' = [child EXCEPT ![s].at = at]

LeaseFree == lease = NoOne

\* GPULease with timeout 0; a busy one makes the child fail.
Lease(s) ==
  /\ child[s].at = "starting" /\ LeaseFree
  /\ lease' = s
  /\ Goes(s, IF request[s].from = Fresh THEN "training" ELSE "leased")
  /\ UNCHANGED <<preferenceVars, request, files, parent, summary>>

\* Mutant: a checkpoint of any plan on the same input will do.
SameCadence(q, r) == q.every = r.every

\* The identity of a checkpoint is that of the request that wrote it.
SameIdentity(q, r) == q.kind = r.kind /\ q.order = r.order /\ q.every = r.every

\* inspect: complete, of this identity, and something is left to do.
Inspect(s) ==
  LET from == request[s].from
  IN /\ child[s].at = "leased"
     /\ Sealed(from[1], from[2])
     /\ SameIdentity(request[from[1]], request[s])
     /\ from[2] < request[s].stop
     /\ Goes(s, "inspected")
     /\ UNCHANGED <<preferenceVars, request, files, parent, summary, lease>>

\* The models are loaded meanwhile; then the Trainer loads the checkpoint.
Load(s) ==
  LET from == request[s].from
  IN /\ child[s].at = "inspected" /\ Sealed(from[1], from[2])
     /\ child' = [child EXCEPT ![s].at = "training", ![s].step = from[2],
                               ![s].weights = files[from[1]][from[2]].trained]
     /\ UNCHANGED <<preferenceVars, request, files, parent, summary, lease>>

Cursor(s, n) == Min({n * Batch, Len(Order(s))})

Saves(s, n) == n % request[s].every = 0 \/ n = request[s].stop

\* One optimizer step on the next pairs in order; on_step_end asks for a
\* checkpoint at the last one, the Trainer at every so many.
Train(s) ==
  LET n == child[s].step + 1
  IN /\ child[s].at = "training" /\ child[s].step < request[s].stop
     /\ child' = [child EXCEPT ![s].step = n,
                               ![s].at = IF Saves(s, n) THEN "saving" ELSE "training",
                               ![s].weights = @ \o SubSeq(Order(s), Cursor(s, n - 1) + 1, Cursor(s, n))]
     /\ UNCHANGED <<preferenceVars, request, files, parent, summary, lease>>

\* The Trainer writes a directory file by file.
SaveBegin(s) ==
  /\ child[s].at = "saving"
  /\ files' = [files EXCEPT ![s][child[s].step] = [state |-> "partial", trained |-> child[s].weights]]
  /\ Goes(s, "writing")
  /\ UNCHANGED <<preferenceVars, request, parent, summary, lease>>

SaveEnd(s) ==
  /\ child[s].at = "writing"
  /\ files' = [files EXCEPT ![s][child[s].step].state = "native"]
  /\ Goes(s, "rotating")
  /\ UNCHANGED <<preferenceVars, request, parent, summary, lease>>

Directories(s) == {n \in AllSteps : files[s][n].state # "none"}

\* Mutant: only one checkpoint is to be kept.
KeepOne == 1

Keep == SaveLimit

\* The Trainer removes the oldest beyond its limit, file by file.
Rotate(s) ==
  LET oldest == Min(Directories(s))
  IN /\ child[s].at = "rotating" /\ Cardinality(Directories(s)) > Keep
     /\ files' = [files EXCEPT ![s][oldest] =
                    IF @.state = "torn" THEN NoFile ELSE [@ EXCEPT !.state = "torn"]]
     /\ UNCHANGED <<preferenceVars, request, child, parent, summary, lease>>

\* on_save: the manifest is renamed into place.
Seal(s) ==
  /\ child[s].at = "rotating" /\ Cardinality(Directories(s)) <= Keep
  /\ files' = [files EXCEPT ![s][child[s].step].state = "sealed"]
  /\ Goes(s, IF child[s].step = request[s].stop THEN "reporting" ELSE "training")
  /\ UNCHANGED <<preferenceVars, request, parent, summary, lease>>

Released(s) == IF lease = s THEN NoOne ELSE lease

\* The end of execute: the lease is free before the result is sent.
Report(s) ==
  /\ child[s].at = "reporting"
  /\ child' = [child EXCEPT ![s].at = "sent", ![s].pipe = "PASS"]
  /\ lease' = Released(s)
  /\ UNCHANGED <<preferenceVars, request, files, parent, summary>>

\* Any exception of execute is sent, too, and the exit code is 0 all the same.
ChildFails(s) ==
  /\ Alive(s) /\ child[s].at # "sent"
  /\ child' = [child EXCEPT ![s].at = "sent", ![s].pipe = "FAIL"]
  /\ lease' = Released(s)
  /\ UNCHANGED <<preferenceVars, request, files, parent, summary>>

\* Its memory is gone, what it sent is still in the pipe.
Gone(s, exit) ==
  child' = [child EXCEPT ![s] = [NoChild EXCEPT !.at = "gone", !.exit = exit, !.pipe = child[s].pipe]]

ChildExits(s) ==
  /\ child[s].at = "sent"
  /\ Gone(s, "ok")
  /\ UNCHANGED <<preferenceVars, request, files, parent, summary, lease>>

ChildDies(s) ==
  /\ Alive(s)
  /\ Gone(s, "bad") /\ lease' = Released(s)
  /\ UNCHANGED <<preferenceVars, request, files, parent, summary>>

----------------------------------------------------------------------------
(* The parent: supervise.                                                  *)

\* The loop ends with a result, or with the process.
Receive(s) ==
  /\ parent[s].at = "poll"
  /\ child[s].pipe # "empty" \/ child[s].at = "gone"
  /\ parent' = [parent EXCEPT ![s] = [at |-> "join", result |-> child[s].pipe]]
  /\ UNCHANGED <<preferenceVars, request, child, files, summary, lease>>

\* Mutant: the exit code decides.
ExitDecides(s) == child[s].exit = "ok"

Passed(s) == child[s].exit = "ok" /\ parent[s].result = "PASS"

\* The process has ended within its time; a child that reported a failure,
\* or nothing, has failed.
Joined(s) ==
  /\ parent[s].at = "join" /\ child[s].at = "gone"
  /\ parent' = [parent EXCEPT ![s] = [at |-> "stopping", result |-> IF Passed(s) THEN "PASS" ELSE "FAIL"]]
  /\ UNCHANGED <<preferenceVars, request, child, files, summary, lease>>

\* A signal, the deadline, the output budget, a late exit, a broken pipe.
GiveUp(s) ==
  /\ parent[s].at \in {"poll", "join"}
  /\ parent' = [parent EXCEPT ![s] = [at |-> "stopping", result |-> "FAIL"]]
  /\ UNCHANGED <<preferenceVars, request, child, files, summary, lease>>

\* terminate, then kill.
Kill(s) ==
  /\ parent[s].at = "stopping" /\ Alive(s)
  /\ Gone(s, "bad") /\ lease' = Released(s)
  /\ UNCHANGED <<preferenceVars, request, files, parent, summary>>

Ended(how) == [NoParent EXCEPT !.at = how]

\* Mutant: the process object is not closed.
NeverRaises(s) == TRUE

Reaped(s) == ~Alive(s)

\* process.close raises when the process is still there: no summary then.
\* An over-long receipt is replaced by a failure.
Receipt(s) ==
  /\ parent[s].at = "stopping"
  /\ IF Reaped(s)
     THEN /\ \E receipt \in {parent[s].result, "FAIL"} : summary' = [summary EXCEPT ![s] = receipt]
          /\ parent' = [parent EXCEPT ![s] = Ended("closed")]
     ELSE parent' = [parent EXCEPT ![s] = Ended("raised")] /\ UNCHANGED summary
  /\ UNCHANGED <<preferenceVars, request, child, files, lease>>

ParentDies(s) ==
  /\ parent[s].at \in {"poll", "join", "stopping"}
  /\ parent' = [parent EXCEPT ![s] = Ended("dead")]
  /\ UNCHANGED <<preferenceVars, request, child, files, summary, lease>>

----------------------------------------------------------------------------

Ask ==
  \E s \in {t \in Segments : request[t] = NoRequest}, kind \in {"dpo", "dpo_capacity"} :
    \E every \in Cadences, stop \in AllSteps, from \in {Fresh} \cup Segments \X AllSteps :
      Begin(s, kind, every, stop, from)
Child ==
  \E s \in Segments :
    \/ Lease(s) \/ Inspect(s) \/ Load(s) \/ Train(s) \/ SaveBegin(s) \/ SaveEnd(s) \/ Rotate(s)
    \/ Seal(s) \/ Report(s) \/ ChildFails(s) \/ ChildExits(s) \/ ChildDies(s)
Supervise ==
  \E s \in Segments : Receive(s) \/ Joined(s) \/ GiveUp(s) \/ Kill(s) \/ Receipt(s) \/ ParentDies(s)

Next == (Prepare /\ UNCHANGED dpoVars) \/ Ask \/ Child \/ Supervise

Spec == Init /\ [][Next]_vars

----------------------------------------------------------------------------
(* Properties.                                                             *)

\* A sealed checkpoint has learned the first pairs of its order, each as often
\* as it stands there, over all the segments it continues; the order of a
\* formal run is the bound input; and what a segment inspected is still there
\* when it loads it, even if the child that wrote it outlived its parent
\* (trainer.on_step_end, checkpoint.inspect, GPULease).
EachPairOnce ==
  \A s \in Segments :
    /\ child[s].at = "inspected" => Sealed(request[s].from[1], request[s].from[2])
    /\ \A n \in AllSteps :
         Sealed(s, n) => /\ files[s][n].trained = SubSeq(Order(s), 1, Cursor(s, n))
                         /\ request[s].kind = "dpo" => Order(s) = input

Newest(s, fs) == Max({0} \cup {n \in AllSteps : fs[s][n].state = "sealed"})

\* Whatever fails or dies: the last complete checkpoint of a segment is only
\* given up for a later complete one (the rotation before on_save).
LatestSealedKept == [][\A s \in Segments : Newest(s, files') >= Newest(s, files)]_vars

\* A summary that says PASS stands for a child that is gone and a complete
\* checkpoint at the step it was to stop at (runtime.supervise).
PassMeansDone ==
  \A s \in Segments :
    summary[s] = "PASS" => ~Alive(s) /\ Sealed(s, request[s].stop)

\* Once a summary is written, the directory is final: no child of this segment
\* or a later one changes it, and the summary is not written again.
SummaryIsFinal ==
  [][\A s \in Segments : summary[s] # "none" => summary'[s] = summary[s] /\ files'[s] = files[s]]_vars
=============================================================================
