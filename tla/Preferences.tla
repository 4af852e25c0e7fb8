---------------------------- MODULE Preferences ----------------------------
(***************************************************************************)
(* The way of a preference pair into DPO training: the split of the corpus *)
(* into groups (data/pipeline.py, data/grouping.py), the audit of new      *)
(* tasks against these groups, the extraction of pairs, the review of a    *)
(* frozen sample (data/preferences) and the input that is bound to it      *)
(* (training/cuda_dpo/data.py).  Each stage reads files the stage before   *)
(* has frozen under their hashes; what no later stage reads is forgotten.  *)
(***************************************************************************)
EXTENDS Grouping, Sequences

CONSTANTS
  Size,       \* the number of records of the corpus
  Schemas,    \* the parameter schemas of tools, annotations apart
  Normal,     \* the normalized schema of each
  Templates,  \* the templates of user messages
  Registry,   \* the schemas of the local registry, which every task offers
  Profiles,   \* the sets of keys a record of the corpus may have
  Splits,     \* the splits, of which the first trains
  TrainSplit,      \* that split
  TaskCount,  \* the number of authored tasks
  Classes,    \* ERROR_CLASSES, in their order
  MinSample,  \* the sample holds at least so many, or all pairs
  Share,      \* or one pair of so many, when these are more
  Tolerance   \* one error among so many is tolerated

ASSUME PreferencesAssumption ==
  /\ Size \in Nat \ {0} /\ TaskCount \in Nat \ {0}
  /\ Registry \subseteq Schemas /\ DOMAIN Normal = Schemas
  /\ \A p \in Profiles : p \subseteq Schemas \cup Templates
  /\ TrainSplit \in Splits /\ Classes \in Seq({Classes[c] : c \in DOMAIN Classes})
  /\ \A c, d \in DOMAIN Classes : Classes[c] = Classes[d] => c = d
  /\ MinSample \in Nat /\ Len(Classes) <= MinSample
  /\ {Share, Tolerance} \subseteq Nat \ {0}

Records == 1..Size
Tasks == 1..TaskCount
Verdicts == {"pass", "fail", "unknown"}

VARIABLES
  stage,     \* "start", "built" or "refused", "packaged", "extracted",
             \* "bound", "frozen" when training began
  corpus,    \* the records of the corpus with their groups and splits
  keys,      \* the keys of every task
  kept,      \* the tasks that are not quarantined
  pool,      \* the pair of a task is in the pool under its error class
  review,    \* the judgments of the reviewer
  applied,   \* what apply-review has written
  input      \* the pairs that are trained, in order

preferenceVars == <<stage, corpus, keys, kept, pool, review, applied, input>>

NoCorpus == [keys |-> <<>>, near |-> {}, group |-> <<>>, split |-> <<>>]
NoKeys == [t \in Tasks |-> {}]
NotApplied == [pass |-> FALSE, excluded |-> {}, training |-> {}]

PreferencesInit ==
  /\ stage = "start" /\ corpus = NoCorpus /\ keys = NoKeys /\ kept = {}
  /\ pool = <<>> /\ review = <<>> /\ applied = NotApplied /\ input = <<>>

----------------------------------------------------------------------------
(* build: groups, splits, and the examples that are accepted.              *)

Normalized(K) == {Normal[k] : k \in K \cap Schemas}

\* Every record has an example that could be accepted.  Splits are drawn by a hash
\* of the group.
Build(k, near) ==
  /\ stage = "start"
  /\ LET group == Grouped(k, near)
         normal == [i \in Records |-> Normalized(k[i])]
         bridges == Bridges(normal, group)
     IN \E drawn \in [{group[i] : i \in Records} -> Splits] :
          LET split == [i \in Records |-> drawn[group[i]]]
          IN IF Isolated(k, split)
                /\ Isolated([i \in Records |-> IF i \in bridges THEN {} ELSE normal[i]], split)
             THEN /\ corpus' = [keys |-> k, near |-> near, group |-> group, split |-> split]
                  /\ stage' = "built"
             ELSE stage' = "refused" /\ UNCHANGED corpus
  /\ UNCHANGED <<keys, kept, pool, review, applied, input>>

----------------------------------------------------------------------------
(* build_package: tasks are audited against the groups of the corpus.      *)

AllKeys(K) == K \cup Normalized(K)

\* After the tasks come the groups; each stands where its first record does.
Audited(taskKeys) ==
  [n \in 1 .. TaskCount + Size |->
     IF n <= TaskCount THEN AllKeys(taskKeys[n])
     ELSE UNION {AllKeys(corpus.keys[i]) : i \in {j \in Records : corpus.group[j] = n - TaskCount}}]

\* Mutant: only a task that itself has a key of a held-out group is held back.
DirectOverlap(taskKeys) ==
  {t \in Tasks : \E i \in Records :
     corpus.split[i] # TrainSplit /\ Audited(taskKeys)[t] \cap Audited(taskKeys)[TaskCount + corpus.group[i]] # {}}

\* audit_groups: the whole component of a held-out group is quarantined.
Quarantined(taskKeys) ==
  LET root == Grouped(Audited(taskKeys), {})
  IN {t \in Tasks : \E i \in Records :
        corpus.split[i] # TrainSplit /\ root[TaskCount + corpus.group[i]] = root[t]}

\* Clones are tasks of the public development set.
Package(taskKeys, clones) ==
  /\ stage = "built"
  /\ keys' = taskKeys
  /\ kept' = Tasks \ (Quarantined(taskKeys) \cup clones)
  /\ stage' = "packaged"
  /\ UNCHANGED <<corpus, pool, review, applied, input>>

----------------------------------------------------------------------------
(* extract and freeze_review.                                              *)

\* At most one pair of candidates of a task is selected.
Extract(pairs) ==
  /\ stage = "packaged"
  /\ DOMAIN pairs \subseteq kept
  /\ pool' = pairs
  /\ corpus' = NoCorpus /\ keys' = NoKeys /\ kept' = {}
  /\ stage' = "extracted"
  /\ UNCHANGED <<review, applied, input>>

Stratum(c) == {t \in DOMAIN pool : pool[t] = Classes[c]}
Strata == {c \in DOMAIN Classes : Stratum(c) # {}}
Total == Cardinality(DOMAIN pool)
SampleSize == Min({Total, Max({MinSample, (Total + Share - 1) \div Share})})

\* One seat for every class that occurs, then proportional floors.
\* Mutant: proportional to the class from the beginning.
FloorsOnly(c) == (SampleSize * Cardinality(Stratum(c))) \div Max({Total, 1})
Floors(c) ==
  1 + ((SampleSize - Cardinality(Strata)) * (Cardinality(Stratum(c)) - 1))
      \div Max({Total - Cardinality(Strata), 1})

\* The seats left go to the classes in their order, where they fit.
Fits(c) == Floors(c) < Cardinality(Stratum(c))
Left == SampleSize - MapThenSumSet(Floors, Strata)
Quota(c) ==
  IF Fits(c) /\ Cardinality({d \in Strata : d < c /\ Fits(d)}) < Left THEN Floors(c) + 1 ELSE Floors(c)

\* The rank of a pair in its class, by a hash, is the number of its task.
Sample == UNION {{t \in Stratum(c) : Cardinality({u \in Stratum(c) : u < t}) < Quota(c)} : c \in Strata}

----------------------------------------------------------------------------
(* The reviewer, apply-review and bind-input.                              *)

\* Any part of the pool is judged; until it is bound, it may be judged again.
Judge(judgments) ==
  /\ stage = "extracted"
  /\ DOMAIN judgments \subseteq DOMAIN pool
  /\ review' = judgments
  /\ UNCHANGED <<stage, corpus, keys, kept, pool, applied, input>>

Excluded == {t \in DOMAIN review : review[t] # "pass"}
Blocked ==
  \/ ~(Sample \subseteq DOMAIN review)
  \/ SampleSize = 0
  \/ Cardinality(Sample \cap Excluded) * Tolerance > SampleSize

\* apply_review
Reviewed ==
  [pass |-> ~Blocked, excluded |-> Excluded,
   training |-> IF Blocked THEN {} ELSE DOMAIN pool \ Excluded]

Apply ==
  /\ stage = "extracted"
  /\ applied' = Reviewed
  /\ UNCHANGED <<stage, corpus, keys, kept, pool, review, input>>

\* reviewed_input: what apply-review wrote is computed again.
Confirmed == applied.pass /\ Reviewed = applied /\ applied.training # {}

\* In the order of the tasks: each stands behind as many as are before it.
Ordered(S) ==
  [i \in 1 .. Cardinality(S) |-> CHOOSE t \in S : Cardinality({u \in S : u < t}) = i - 1]

\* bind_input, and prepare_rows: a pair too long for the context is left out.
Bind(overflow) ==
  /\ stage = "extracted" /\ Confirmed
  /\ applied.training \ overflow # {}
  /\ input' = Ordered(applied.training \ overflow)
  /\ stage' = "bound"
  /\ UNCHANGED <<corpus, keys, kept, pool, review, applied>>

Prepare ==
  /\ stage # "frozen"
  /\ \/ \E k \in [Records -> Profiles], near \in SUBSET {e \in Records \X Records : e[1] < e[2]} :
           Build(k, near)
     \/ \E own \in [Tasks -> SUBSET Templates], clones \in {{}} \cup {{t} : t \in Tasks} :
           Package([t \in Tasks |-> Registry \cup own[t]], clones)
     \/ \E S \in SUBSET kept : \E pairs \in [S -> {Classes[c] : c \in DOMAIN Classes}] : Extract(pairs)
     \/ \E S \in SUBSET DOMAIN pool : \E judgments \in [S -> Verdicts] : Judge(judgments)
     \/ Apply
     \/ \E overflow \in SUBSET Tasks : Bind(overflow)

----------------------------------------------------------------------------
(* Properties.                                                             *)

\* What links two nodes, tasks before records, in any step of a chain.
KeysOf(n) == AllKeys(IF n <= TaskCount THEN keys[n] ELSE corpus.keys[n - TaskCount])
Linked(m, n) == KeysOf(m) \cap KeysOf(n) # {} \/ <<m - TaskCount, n - TaskCount>> \in corpus.near
HeldOut == {TaskCount + i : i \in {j \in Records : corpus.split[j] # TrainSplit}}

\* Two records of the corpus with a common key or nearly the same text are in the
\* same split, and the build's own checks find nothing to refuse (build_groups);
\* a normalized key may still be common to records of two splits, which are then
\* set aside as bridges.  No chain of common keys, common normalized keys and
\* near records leads from a task that is kept to a record that is held out
\* (audit_groups).  Only records are ever compared by their texts: that a task is
\* not near a held-out text is neither checked by the code nor stated here.
NothingHeldOutIsTrained ==
  /\ stage # "refused"
  /\ stage = "built" =>
       /\ \A e \in corpus.near : corpus.split[e[1]] = corpus.split[e[2]]
       /\ \A i, j \in Records :
            corpus.keys[i] \cap corpus.keys[j] # {} => corpus.split[i] = corpus.split[j]
  /\ stage = "packaged" =>
       \E S \in SUBSET (1 .. TaskCount + Size) :
         /\ kept \subseteq S /\ S \cap HeldOut = {}
         /\ \A m \in S, n \in 1 .. TaskCount + Size : Linked(m, n) \/ Linked(n, m) => n \in S

\* What is bound for training was reviewed: the judgments that stand when it is
\* bound cover a sample with every error class, which failed no more often than
\* tolerated, and none of them rejects or doubts a pair that is trained.
OnlyReviewedTrains ==
  stage = "bound" =>
    /\ Sample \subseteq DOMAIN review /\ Cardinality(Sample) = SampleSize
    /\ \A t \in DOMAIN pool : \E u \in Sample : pool[u] = pool[t]
    /\ Cardinality({t \in Sample : review[t] # "pass"}) * Tolerance <= SampleSize
    /\ \A i \in DOMAIN input : input[i] \in DOMAIN pool /\ (input[i] \in DOMAIN review => review[input[i]] = "pass")
=============================================================================
