----------------------------- MODULE Checkpoint -----------------------------
(***************************************************************************)
(* The checkpoints of SFT training (training/cuda_sft/checkpoint.py) and   *)
(* the run that writes them (training/cuda_sft/runtime.py).                *)
(*                                                                         *)
(* A training runs in segments.  Each has a local and a persistent root of *)
(* its own, and may resume from any complete checkpoint of an earlier one. *)
(* A checkpoint is a directory that is renamed into place, first in the    *)
(* local root, then in the persistent one; then each root's index is       *)
(* replaced and the directories it no longer names are removed.  The       *)
(* segment may die between any two of these steps, and within a removal.   *)
(* The GPU lease, held by the training process itself until it ends, keeps *)
(* a second segment from starting before the first is gone.                *)
(***************************************************************************)
EXTENDS Naturals, Sequences, FiniteSets

CONSTANTS
  TrainSteps,    \* the optimizer steps of an epoch
  Cadences,      \* values of validation_every_steps and checkpoint_every_steps
  Scores,        \* the validation losses, ordered
  MaxSegments    \* bounds the number of segments

ASSUME CheckpointAssumption ==
  /\ TrainSteps \in Nat \ {0}
  /\ Cadences \subseteq Nat \ {0}
  /\ Scores \subseteq Nat \ {0}
  /\ MaxSegments \in Nat

Roots == {"local", "persistent"}

VARIABLES
  shelf,       \* the complete directories that earlier segments left
  published,   \* root -> the complete directories of the current segment
  torn,        \* root -> records of directories that are half removed
  index,       \* root -> its index.json
  segment,     \* the current segment
  pc,          \* where it is, "idle" between segments
  root,        \* the root it is busy with
  request,     \* its max_optimizer_steps and cadences
  step,        \* optimizer_step
  writes,      \* the directories _write still has to write
  records,     \* CheckpointStore.records
  best,        \* CheckpointStore.best and best_bytes
  seen,        \* auxiliary: the validated records on the way to this point
  saved,       \* the last checkpoint events.jsonl names
  outcome      \* what supervise said of the segment

disk == <<published, torn, index>>
store == <<writes, records, best>>
vars == <<shelf, disk, segment, pc, root, request, step, store, seen, saved, outcome>>

\* The content of a state.pt.  Segment and step stand for the hash of its
\* bytes; a validation_ce of 0 is None.  seen is auxiliary.
NoRecord == [step |-> 0, ce |-> 0, by |-> 0]
State(r, h, known) ==
  [step |-> r.step, ce |-> r.ce, by |-> r.by, historical |-> h, seen |-> known]
NoState == State(NoRecord, NoRecord, {})
Record(s) == [step |-> s.step, ce |-> s.ce, by |-> s.by]

NoIndex == [best |-> NoRecord, last |-> NoRecord, retained |-> {}]
NoRequest == [limit |-> 0, validate |-> 1, save |-> 1]

\* A directory: state.pt and the state of the best checkpoint, which is in
\* best.pt unless it is the same one.
Directory(s, b) == [state |-> s, best |-> b]

Init ==
  /\ shelf = {} /\ published = [r \in Roots |-> {}] /\ torn = [r \in Roots |-> {}]
  /\ index = [r \in Roots |-> NoIndex]
  /\ segment = 0 /\ pc = "idle" /\ root = "local" /\ request = NoRequest /\ step = 0
  /\ writes = <<>> /\ records = {} /\ best = NoState
  /\ seen = {} /\ saved = NoRecord /\ outcome = "none"

\* finite_score, compared without the hash: the lower loss, then the earlier.
Better(r, s) == r.ce < s.ce \/ (r.ce = s.ce /\ r.step < s.step)

Latest(R) == CHOOSE r \in R : \A s \in R : s.step <= r.step

\* deserialize: the selection its manifest shows, a best.pt or the state.pt
\* itself, is the one the state is bound to.
Restores(d) ==
  IF d.state.historical # NoRecord
  THEN Record(d.best) = d.state.historical /\ d.best # d.state
  ELSE d.best = IF d.state.ce # 0 THEN d.state ELSE NoState

Complete == shelf \cup UNION {published[r] : r \in Roots}

\* A segment starts in two fresh roots, from the first step.
Begin(q) ==
  /\ pc = "idle" /\ segment < MaxSegments
  /\ segment' = segment + 1 /\ request' = q
  /\ shelf' = Complete
  /\ published' = [r \in Roots |-> {}] /\ torn' = [r \in Roots |-> {}]
  /\ index' = [r \in Roots |-> NoIndex]
  /\ root' = "local" /\ records' = {} /\ saved' = NoRecord /\ outcome' = "none"

Start(q) ==
  /\ Begin(q)
  /\ step' = 0 /\ writes' = <<>> /\ best' = NoState /\ seen' = {}
  /\ pc' = "train"

\* seed: the best checkpoint of the chain gets a directory here, too.
\* Mutant: only the one resumed from does.
SeedForgets(d) == <<d>>
Seed(d) ==
  IF d.best # NoState /\ d.best # d.state
  THEN <<Directory(d.best, d.best), d>> ELSE <<d>>

Resume(q, d) ==
  /\ Begin(q)
  /\ Restores(d) /\ d.state.step < q.limit
  /\ step' = d.state.step /\ best' = d.best /\ seen' = d.state.seen
  /\ writes' = Seed(d)
  /\ pc' = "publish"

Final(n) == n = request.limit \/ n = TrainSteps
Validates(n) == Final(n) \/ n % request.validate = 0
Saves(n) == Validates(n) \/ n % request.save = 0

Train ==
  /\ pc = "train" /\ ~Final(step)
  /\ ~Saves(step + 1)
  /\ step' = step + 1
  /\ UNCHANGED <<shelf, disk, segment, pc, root, request, store, seen, saved, outcome>>

\* The group is trained, validated with the loss ce or, with ce = 0, not at
\* all, and the store decides what is best before it writes anything.
\* Mutants: a tie goes to the later one; a new best names the one before.
NewBestOnTie(r) == r.ce # 0 /\ (best = NoState \/ r.ce <= best.ce)
NewBest(r) == r.ce # 0 /\ (best = NoState \/ Better(r, best))

HistoricalBefore(r) == Record(best)
Historical(r) == IF NewBest(r) THEN NoRecord ELSE Record(best)

Save(ce) ==
  LET r == [step |-> step + 1, ce |-> ce, by |-> segment]
      known == seen \cup {x \in {r} : x.ce # 0}
      s == State(r, Historical(r), known)
  IN /\ pc = "train" /\ ~Final(step)
     /\ Saves(step + 1) /\ (ce # 0 <=> Validates(step + 1))
     /\ \A x \in records : x.step < step + 1
     /\ step' = step + 1 /\ seen' = known
     /\ best' = IF NewBest(r) THEN s ELSE best
     /\ writes' = <<Directory(s, best')>>
     /\ pc' = "publish" /\ root' = "local"
     /\ UNCHANGED <<shelf, disk, segment, request, records, saved, outcome>>

\* _publish: the complete directory is renamed into place.  After the second
\* one the store counts the checkpoint among its own.
Publish ==
  /\ pc = "publish"
  /\ \A d \in published[root] : Record(d.state) # Record(Head(writes).state)
  /\ published' = [published EXCEPT ![root] = @ \cup {Head(writes)}]
  /\ IF root = "local"
     THEN pc' = "publish" /\ root' = "persistent" /\ UNCHANGED records
     ELSE pc' = "index" /\ root' = "local" /\ records' = records \cup {Record(Head(writes).state)}
  /\ UNCHANGED <<shelf, torn, index, segment, request, step, writes, best, seen, saved, outcome>>

\* _retain: the last, the best, and the latest other one with a score.
\* Mutants: the last goes when there is a best; every one with a score stays.
RetainedBest ==
  IF best = NoState THEN {Latest(records)} ELSE {r \in records : r = Record(best)}

Retained ==
  LET kept == {r \in records : r = Latest(records) \/ r = Record(best)}
      rollback == {r \in records : r.ce # 0} \ kept
  IN kept \cup {r \in rollback : r = Latest(rollback)}

Index == [best |-> Record(best), last |-> Latest(records), retained |-> Retained]

PutIndex ==
  /\ pc = "index"
  /\ index' = [index EXCEPT ![root] = Index]
  /\ pc' = "prune"
  /\ UNCHANGED <<shelf, published, torn, segment, root, request, step, store, seen, saved, outcome>>

\* rmtree of the directories the index does not name, one after the other,
\* each of them first incomplete and then gone.
Surplus == {d \in published[root] : Record(d.state) \notin Retained}

Tear ==
  /\ pc = "prune" /\ torn[root] = {}
  /\ \E d \in Surplus :
       /\ \A e \in Surplus : d.state.step <= e.state.step
       /\ published' = [published EXCEPT ![root] = @ \ {d}]
       /\ torn' = [torn EXCEPT ![root] = {Record(d.state)}]
  /\ UNCHANGED <<shelf, index, segment, pc, root, request, step, store, seen, saved, outcome>>

Remove ==
  /\ pc = "prune" /\ torn[root] # {}
  /\ torn' = [torn EXCEPT ![root] = {}]
  /\ UNCHANGED <<shelf, published, index, segment, pc, root, request, step, store, seen, saved, outcome>>

\* The other root follows; then _write is done, and seed or the loop goes on.
\* Only the loop names the checkpoint in events.jsonl.
Pruned ==
  /\ pc = "prune" /\ torn[root] = {} /\ Surplus = {}
  /\ root = "local"
  /\ pc' = "index" /\ root' = "persistent"
  /\ UNCHANGED <<shelf, disk, segment, request, step, store, seen, saved, outcome>>

Written ==
  /\ pc = "prune" /\ torn[root] = {} /\ Surplus = {}
  /\ root = "persistent"
  /\ root' = "local"
  /\ records' = Retained
  /\ writes' = Tail(writes)
  /\ pc' = IF Len(writes) > 1 THEN "publish" ELSE "train"
  /\ saved' = IF Head(writes).state.by = segment THEN Record(Head(writes).state) ELSE saved
  /\ UNCHANGED <<shelf, disk, segment, request, step, best, seen, outcome>>

\* The summary is written, the child sends its result and ends, in time.
Finish ==
  /\ pc = "train" /\ Final(step)
  /\ pc' = "idle" /\ outcome' = "PASS"
  /\ UNCHANGED <<shelf, disk, segment, root, request, step, store, seen, saved>>

\* The machine fails, the wall budget or a signal ends the child, the byte
\* budget or anything else raises; supervise reports an error, or nothing at
\* all.  A finished child that ends too late is a failed one.
Die ==
  /\ pc # "idle"
  /\ pc' = "idle" /\ outcome' = "FAIL"
  /\ UNCHANGED <<shelf, disk, segment, root, request, step, store, seen, saved>>

Runs == [limit : 1 .. TrainSteps, validate : Cadences, save : Cadences]

Next ==
  \/ \E q \in Runs : Start(q) \/ \E d \in Complete : Resume(q, d)
  \/ \E ce \in Scores \cup {0} : Save(ce)
  \/ Train \/ Publish \/ PutIndex \/ Tear \/ Remove \/ Pruned \/ Written \/ Finish \/ Die

Spec == Init /\ [][Next]_vars

----------------------------------------------------------------------------
(* Properties.                                                             *)

Records == [step : 0 .. TrainSteps, ce : Scores \cup {0}, by : 0 .. MaxSegments]
States == [step : 0 .. TrainSteps, ce : Scores \cup {0}, by : 0 .. MaxSegments,
           historical : Records, seen : SUBSET Records]
Directories == [state : States, best : States]
Indexes == [best : Records, last : Records, retained : SUBSET Records]

\* Every variable has the type the code gives it.
TypeOK ==
  /\ shelf \subseteq Directories /\ published \in [Roots -> SUBSET Directories]
  /\ torn \in [Roots -> SUBSET Records] /\ index \in [Roots -> Indexes]
  /\ segment \in 0 .. MaxSegments /\ pc \in {"idle", "train", "publish", "index", "prune"}
  /\ root \in Roots /\ request \in Runs \cup {NoRequest} /\ step \in 0 .. TrainSteps
  /\ writes \in Seq(Directories) /\ records \subseteq Records /\ best \in States
  /\ seen \subseteq Records /\ saved \in Records /\ outcome \in {"none", "PASS", "FAIL"}

Held(r) == {Record(d.state) : d \in published[r]}

\* Whatever an index names is complete in its root, at whatever point the
\* segment died: the index never runs ahead of the publication or behind the
\* removal (_write, _retain).
IndexSound ==
  \A r \in Roots : index[r] # NoIndex =>
    /\ index[r].retained \subseteq Held(r)
    /\ index[r].last \in index[r].retained
    /\ index[r].best # NoRecord => index[r].best \in index[r].retained

\* Every checkpoint anyone could resume from carries the best one of all that
\* were validated on the way to it, across segments and rollbacks, a tie going
\* to the earlier (save, seed); a pruned directory never takes it away.
BestKept ==
  \A d \in Complete :
    IF d.state.seen = {} THEN d.best = NoState
    ELSE /\ Record(d.best) \in d.state.seen
         /\ \A r \in d.state.seen : ~Better(r, Record(d.best))

\* The store publishes nothing that deserialize would refuse: also the copy of
\* the best checkpoint seed writes can be resumed from.
Resumable == \A d \in Complete : Restores(d)

\* A checkpoint the events name is not lost again: both roots hold, and their
\* indexes name, that one or a later one, even if the next save dies half way.
\* A run that passed ends with its last step.
Recoverable ==
  /\ saved # NoRecord =>
       \A r \in Roots : index[r].last.step >= saved.step /\ index[r].last \in Held(r)
  /\ outcome = "PASS" => saved.step = step /\ Final(step)

=============================================================================
