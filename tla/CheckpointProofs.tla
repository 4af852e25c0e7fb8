--------------------------- MODULE CheckpointProofs ---------------------------
(***************************************************************************)
(* Proofs about Checkpoint for any number of steps, segments and losses.   *)
(***************************************************************************)
EXTENDS Checkpoint, SequenceTheorems, TLAPS

\* b is the best of the validated records S.
Best(S, b) ==
  IF S = {} THEN b = NoState
  ELSE b # NoState /\ Record(b) \in S /\ \A r \in S : ~Better(r, Record(b))

\* A best state is its own best, and bound to no earlier one.
OwnBest(b) == b # NoState => b.ce # 0 /\ b.historical = NoRecord /\ Best(b.seen, b)

\* A directory anyone may resume from.
Sound(d) ==
  /\ Best(d.state.seen, d.best) /\ OwnBest(d.best) /\ Restores(d)
  /\ d.best # NoState /\ d.best # d.state => d.best.step < d.state.step

\* Selection: what the store is about to write is as sound as what it wrote.
Selected ==
  /\ Best(seen, best) /\ OwnBest(best) /\ best.step <= step
  /\ \A d \in Complete : Sound(d)
  /\ \A i \in 1 .. Len(writes) : Sound(writes[i])

H == Record(Head(writes).state)

\* Order: the record being written is the latest one, and the best one is
\* among those the store counts or is about to.
Ordered ==
  /\ pc \in {"publish", "index", "prune"} => writes # <<>>
  /\ Len(writes) <= 2
  /\ Len(writes) = 2 => writes[1].state.step < writes[2].state.step
  /\ pc = "publish" =>
       /\ \A x \in records : x.step < H.step
       /\ best # NoState => Record(best) \in records \cup {H}
  /\ pc \in {"index", "prune"} =>
       /\ H \in records /\ \A x \in records \ {H} : x.step < H.step
       /\ best # NoState => Record(best) \in records
  /\ pc = "train" /\ best # NoState => Record(best) \in records

\* Place: which records each root holds while the two are changed in turn.
Placed ==
  /\ pc \in {"train", "publish"} => \A r \in Roots : records \subseteq Held(r)
  /\ pc = "publish" /\ root = "persistent" => H \in Held("local")
  /\ pc \in {"index", "prune"} => \A r \in Roots : Retained \subseteq Held(r)
  /\ pc \in {"index", "prune"} /\ root = "local" => records \subseteq Held("persistent")
  /\ pc = "prune" => index[root] = Index

CInv == TypeOK /\ Selected /\ Ordered /\ Placed /\ IndexSound

----------------------------------------------------------------------------
(* Records, states and directories.                                        *)

LEMMA NaturalConstants ==
  /\ TrainSteps \in Nat \ {0} /\ MaxSegments \in Nat
  /\ \A n \in Scores \cup {0} : n \in Nat
BY CheckpointAssumption DEF CheckpointAssumption

LEMMA Null ==
  /\ NoRecord \in Records /\ NoState \in States /\ Record(NoState) = NoRecord
  /\ NoState.ce = 0 /\ NoState.step = 0 /\ NoState.historical = NoRecord /\ NoState.seen = {}
<1>1. NoRecord \in Records
  BY NaturalConstants DEF NoRecord, Records
<1>2. NoState = [step |-> 0, ce |-> 0, by |-> 0, historical |-> NoRecord, seen |-> {}]
  BY DEF NoState, State, NoRecord
<1> QED BY <1>1, <1>2, NaturalConstants DEF States, Record, NoRecord

LEMMA RecordOf ==
  ASSUME NEW s \in States
  PROVE  /\ Record(s) \in Records
         /\ Record(s).step = s.step /\ Record(s).ce = s.ce /\ Record(s).by = s.by
         /\ s.step \in Nat /\ s.ce \in Nat /\ s.seen \subseteq Records /\ s.historical \in Records
<1>1. s.step \in 0 .. TrainSteps /\ s.ce \in Scores \cup {0} /\ s.by \in 0 .. MaxSegments
      /\ s.historical \in Records /\ s.seen \subseteq Records
  BY DEF States
<1>2. Record(s) = [step |-> s.step, ce |-> s.ce, by |-> s.by]
  BY DEF Record
<1>3. Record(s) \in Records
  BY <1>1, <1>2 DEF Records
<1> QED BY <1>1, <1>2, <1>3, NaturalConstants

LEMMA RecordNumbers ==
  ASSUME NEW r \in Records PROVE r.step \in Nat /\ r.ce \in Nat
BY NaturalConstants DEF Records

LEMMA StateOf ==
  ASSUME NEW r \in Records, NEW h \in Records, NEW k \in SUBSET Records
  PROVE  /\ State(r, h, k) \in States /\ Record(State(r, h, k)) = r
         /\ State(r, h, k).step = r.step /\ State(r, h, k).ce = r.ce
         /\ State(r, h, k).historical = h /\ State(r, h, k).seen = k
<1> DEFINE s == State(r, h, k)
<1>1. s = [step |-> r.step, ce |-> r.ce, by |-> r.by, historical |-> h, seen |-> k]
  BY DEF State
<1>2. r = [step |-> r.step, ce |-> r.ce, by |-> r.by]
  BY DEF Records
<1>3. r.step \in 0 .. TrainSteps /\ r.ce \in Scores \cup {0} /\ r.by \in 0 .. MaxSegments
  BY DEF Records
<1>4. Record(s) = r
  BY <1>1, <1>2 DEF Record
<1> QED BY <1>1, <1>3, <1>4 DEF States

LEMMA DirectoryOf ==
  ASSUME NEW s \in States, NEW b \in States
  PROVE  /\ Directory(s, b) \in Directories
         /\ Directory(s, b).state = s /\ Directory(s, b).best = b
BY DEF Directory, Directories

LEMMA Parts ==
  ASSUME NEW d \in Directories PROVE d.state \in States /\ d.best \in States
BY DEF Directories

\* What is being written, and what may follow it.
LEMMA Writing ==
  ASSUME writes \in Seq(Directories), writes # <<>>
  PROVE  /\ Head(writes) = writes[1] /\ Head(writes) \in Directories /\ 1 \in 1 .. Len(writes)
         /\ H \in Records /\ H.step = writes[1].state.step
         /\ Tail(writes) \in Seq(Directories) /\ Len(Tail(writes)) = Len(writes) - 1
         /\ \A i \in 1 .. Len(Tail(writes)) : Tail(writes)[i] = writes[i + 1] /\ i + 1 \in 1 .. Len(writes)
<1>1. Head(writes) = writes[1] /\ Len(writes) \in Nat \ {0} /\ writes[1] \in Directories
  OBVIOUS
<1>2. Tail(writes) \in Seq(Directories) /\ Len(Tail(writes)) = Len(writes) - 1
  OBVIOUS
<1>3. \A i \in 1 .. Len(Tail(writes)) : Tail(writes)[i] = writes[i + 1] /\ i + 1 \in 1 .. Len(writes)
  BY <1>1, <1>2
<1>4. H \in Records /\ H.step = writes[1].state.step
  BY <1>1, Parts, RecordOf DEF H
<1> QED BY <1>1, <1>2, <1>3, <1>4

\* The latest record is the one that was published last.
LEMMA LatestIsLast ==
  ASSUME NEW R \in SUBSET Records, NEW h \in R, \A x \in R \ {h} : x.step < h.step
  PROVE  Latest(R) = h
<1>1. \A x \in R : x.step \in Nat
  BY RecordNumbers
<1>2. \A x \in R : x.step <= h.step
  BY <1>1
<1>3. Latest(R) \in R /\ \A x \in R : x.step <= Latest(R).step
  BY <1>2 DEF Latest
<1> QED BY <1>1, <1>3

\* A sound directory's best state is what seed publishes on its own.
LEMMA BestIsSound ==
  ASSUME NEW b \in States, OwnBest(b), b # NoState
  PROVE  Sound(Directory(b, b))
BY DirectoryOf DEF Sound, OwnBest, Restores

LEMMA Persistent == "local" \in Roots /\ "persistent" \in Roots
BY DEF Roots

LEMMA RetainedSome == Retained \subseteq records
BY DEF Retained
----------------------------------------------------------------------------
(* A segment starts.                                                       *)

LEMMA CompleteTyped == ASSUME TypeOK PROVE Complete \subseteq Directories
BY DEF TypeOK, Complete

LEMMA Fresh ==
  ASSUME TypeOK, NEW q \in Runs, Begin(q)
  PROVE  /\ shelf' \subseteq Directories /\ Complete' = Complete
         /\ published' \in [Roots -> SUBSET Directories] /\ torn' \in [Roots -> SUBSET Records]
         /\ index' \in [Roots -> Indexes] /\ \A r \in Roots : index'[r] = NoIndex
         /\ segment' \in 0 .. MaxSegments /\ root' = "local" /\ root' \in Roots
         /\ request' \in Runs \cup {NoRequest} /\ records' = {} /\ saved' \in Records
         /\ outcome' \in {"none", "PASS", "FAIL"}
<1>1. NoIndex \in Indexes
  BY Null DEF NoIndex, Indexes
<1>2. shelf' = Complete /\ published' = [r \in Roots |-> {}] /\ index' = [r \in Roots |-> NoIndex]
      /\ torn' = [r \in Roots |-> {}]
  BY DEF Begin
<1>3. Complete' = Complete
  BY <1>2 DEF Complete
<1>4. segment' \in 0 .. MaxSegments
  BY NaturalConstants DEF Begin, TypeOK
<1> QED BY <1>1, <1>2, <1>3, <1>4, Null, CompleteTyped DEF Begin, Roots

LEMMA StartStep ==
  ASSUME CInv, NEW q \in Runs, Start(q) PROVE CInv'
<1> USE DEF CInv
<1>1. Begin(q) /\ step' = 0 /\ writes' = <<>> /\ best' = NoState /\ seen' = {} /\ pc' = "train"
  BY DEF Start
<1>2. TypeOK'
  BY <1>1, Fresh, Null, NaturalConstants DEF TypeOK
<1>3. Selected'
  <2>1. Best({}, NoState) /\ OwnBest(NoState)
    BY DEF Best, OwnBest
  <2>2. \A d \in Complete' : Sound(d)
    BY <1>1, Fresh DEF Selected
  <2> QED BY <1>1, <2>1, <2>2, Null DEF Selected
<1>4. Ordered'
  BY <1>1 DEF Ordered
<1>5. Placed' /\ IndexSound'
  BY <1>1, Fresh DEF Placed, IndexSound
<1> QED BY <1>2, <1>3, <1>4, <1>5

LEMMA SeedSound ==
  ASSUME NEW d \in Directories, Sound(d)
  PROVE  /\ Seed(d) \in Seq(Directories) /\ Seed(d) # <<>> /\ Len(Seed(d)) <= 2
         /\ \A i \in 1 .. Len(Seed(d)) : Sound(Seed(d)[i])
         /\ Len(Seed(d)) = 2 => Seed(d)[1].state.step < Seed(d)[2].state.step
         /\ d.best # NoState => Record(d.best) = Record(Head(Seed(d)).state)
<1>1. d.state \in States /\ d.best \in States
  BY Parts
<1>2. CASE d.best # NoState /\ d.best # d.state
  <2> DEFINE b == Directory(d.best, d.best)
  <2>1. Seed(d) = <<b, d>>
    BY <1>2 DEF Seed
  <2>2. b \in Directories /\ b.state = d.best /\ Sound(b)
    BY <1>1, <1>2, DirectoryOf, BestIsSound DEF Sound
  <2>3. d.best.step < d.state.step
    BY <1>2 DEF Sound
  <2> HIDE DEF b
  <2> QED BY <2>1, <2>2, <2>3
<1>3. CASE ~(d.best # NoState /\ d.best # d.state)
  <2>1. Seed(d) = <<d>>
    BY <1>3 DEF Seed
  <2>2. d.best # NoState => d.best = d.state
    BY <1>3
  <2> QED BY <2>1, <2>2
<1> QED BY <1>2, <1>3

LEMMA ResumeStep ==
  ASSUME CInv, NEW q \in Runs, NEW d \in Complete, Resume(q, d) PROVE CInv'
<1> USE DEF CInv
<1>1. /\ Begin(q) /\ step' = d.state.step /\ best' = d.best /\ seen' = d.state.seen
      /\ writes' = Seed(d) /\ pc' = "publish"
  BY DEF Resume
<1>2. d \in Directories /\ Sound(d) /\ d.state \in States /\ d.best \in States
  BY CompleteTyped, Parts DEF Selected
<1>3. TypeOK'
  <2>1. d.state.step \in 0 .. TrainSteps /\ d.state.seen \subseteq Records
    BY <1>2 DEF States
  <2> QED BY <1>1, <1>2, <2>1, Fresh, SeedSound DEF TypeOK
<1>4. Selected'
  <2>1. Best(d.state.seen, d.best) /\ OwnBest(d.best)
    BY <1>2 DEF Sound
  <2>2. d.best.step <= d.state.step
    <3>1. d.best.step \in Nat /\ d.state.step \in Nat
      BY <1>2, RecordOf
    <3>2. CASE d.best = NoState
      BY <3>1, <3>2, Null
    <3>3. CASE d.best = d.state
      BY <3>1, <3>3
    <3>4. CASE d.best # NoState /\ d.best # d.state
      BY <1>2, <3>1, <3>4 DEF Sound
    <3> QED BY <3>2, <3>3, <3>4
  <2>3. \A x \in Complete' : Sound(x)
    BY <1>1, Fresh DEF Selected
  <2> QED BY <1>1, <1>2, <2>1, <2>2, <2>3, SeedSound DEF Selected
<1>5. Ordered'
  BY <1>1, <1>2, Fresh, SeedSound DEF Ordered, H
<1>6. Placed' /\ IndexSound'
  BY <1>1, Fresh DEF Placed, IndexSound
<1> QED BY <1>3, <1>4, <1>5, <1>6
----------------------------------------------------------------------------
(* Training and saving.                                                    *)

LEMMA TrainStep ==
  ASSUME CInv, Train PROVE CInv'
<1> USE DEF CInv
<1>1. pc = "train" /\ pc' = "train" /\ ~Final(step) /\ step' = step + 1
      /\ UNCHANGED <<shelf, published, torn, index, segment, root, request, writes, records, best,
                     seen, saved, outcome>>
  BY DEF Train, disk, store
<1>2. step + 1 \in 0 .. TrainSteps /\ step <= step + 1
  BY <1>1, NaturalConstants DEF TypeOK, Final
<1>3. TypeOK'
  BY <1>1, <1>2 DEF TypeOK
<1>4. Selected'
  <2>1. best.step \in Nat
    BY RecordOf DEF TypeOK
  <2>2. best.step <= step + 1
    BY <1>2, <2>1 DEF Selected, TypeOK
  <2> QED BY <1>1, <2>2 DEF Selected, Complete
<1>5. Ordered'
  BY <1>1 DEF Ordered, H
<1>6. Placed' /\ IndexSound'
  BY <1>1 DEF Placed, IndexSound, Held
<1> QED BY <1>3, <1>4, <1>5, <1>6

\* The heart of the selection: a validated record is compared with the best.
LEMMA BestOfMore ==
  ASSUME NEW S \in SUBSET Records, NEW b \in States, Best(S, b), b.ce # 0 <=> b # NoState,
         NEW r \in Records, r.ce # 0, NEW s \in States, Record(s) = r,
         b = NoState \/ Better(r, b)
  PROVE  Best(S \cup {r}, s)
<1>1. r.ce \in Nat /\ r.step \in Nat /\ b.ce \in Nat /\ b.step \in Nat
  BY RecordNumbers, RecordOf
<1>2. ~Better(r, r)
  BY <1>1 DEF Better
<1>3. ASSUME NEW x \in S PROVE ~Better(x, r)
  <2>1. b # NoState /\ ~Better(x, Record(b)) /\ x.ce \in Nat /\ x.step \in Nat
    BY <1>3, RecordNumbers DEF Best
  <2>2. Record(b).ce = b.ce /\ Record(b).step = b.step
    BY RecordOf
  <2> QED BY <1>1, <2>1, <2>2 DEF Better
<1>4. s # NoState
  <2>1. s.ce = r.ce
    BY RecordOf
  <2> QED BY <2>1, Null
<1> QED BY <1>2, <1>3, <1>4 DEF Best

LEMMA BestOfSame ==
  ASSUME NEW S \in SUBSET Records, NEW b \in States, Best(S, b), b # NoState,
         NEW r \in Records, ~Better(r, b)
  PROVE  Best(S \cup {r}, b)
<1>1. Record(b).ce = b.ce /\ Record(b).step = b.step
  BY RecordOf
<1>2. ~Better(r, Record(b))
  BY <1>1 DEF Better
<1> QED BY <1>2 DEF Best

LEMMA SaveStep ==
  ASSUME CInv, NEW ce \in Scores \cup {0}, Save(ce) PROVE CInv'
<1> USE DEF CInv
<1> DEFINE r == [step |-> step + 1, ce |-> ce, by |-> segment]
           known == seen \cup {x \in {r} : x.ce # 0}
           s == State(r, Historical(r), known)
<1>1. /\ pc = "train" /\ ~Final(step) /\ \A x \in records : x.step < step + 1
      /\ step' = step + 1 /\ seen' = known /\ best' = IF NewBest(r) THEN s ELSE best
      /\ writes' = <<Directory(s, best')>> /\ pc' = "publish" /\ root' = "local"
      /\ UNCHANGED <<shelf, published, torn, index, segment, request, records, saved, outcome>>
  BY DEF Save, disk
<1>2. step + 1 \in 0 .. TrainSteps /\ step < step + 1 /\ step \in Nat
  BY <1>1, NaturalConstants DEF TypeOK, Final
<1>3. r \in Records /\ r.step = step + 1 /\ r.ce = ce
  BY <1>2 DEF Records, TypeOK
<1> HIDE DEF r
<1>4. known \in SUBSET Records
  BY <1>3 DEF TypeOK
<1>5. best \in States /\ Record(best) \in Records /\ best.ce \in Nat /\ best.step \in Nat
      /\ Record(best).ce = best.ce /\ Record(best).step = best.step
  BY RecordOf DEF TypeOK
<1>6. Historical(r) \in Records
  BY <1>5, Null DEF Historical
<1>7. /\ s \in States /\ Record(s) = r /\ s.step = step + 1 /\ s.ce = ce
      /\ s.historical = Historical(r) /\ s.seen = known
  BY <1>3, <1>4, <1>6, StateOf
<1>8. known = IF ce = 0 THEN seen ELSE seen \cup {r}
  BY <1>3
<1> HIDE DEF s, known
<1>9. best.ce # 0 <=> best # NoState
  <2>1. best # NoState => best.ce # 0
    BY DEF Selected, OwnBest
  <2> QED BY <2>1, Null
<1>10. best' \in States /\ best'.step <= step + 1
  BY <1>1, <1>2, <1>5, <1>7 DEF Selected, TypeOK
<1>11. Best(known, best') /\ OwnBest(best')
  <2>1. CASE NewBest(r)
    <3>1. ce # 0 /\ (best = NoState \/ Better(r, best))
      BY <2>1, <1>3 DEF NewBest
    <3>2. Best(known, s)
      BY <3>1, <1>3, <1>5, <1>7, <1>8, <1>9, BestOfMore DEF Selected, TypeOK
    <3>3. s.historical = NoRecord
      BY <2>1, <1>7 DEF Historical
    <3> QED BY <2>1, <3>1, <3>2, <3>3, <1>1, <1>7 DEF OwnBest
  <2>2. CASE ~NewBest(r)
    <3>1. CASE ce = 0
      BY <2>2, <3>1, <1>1, <1>8 DEF Selected
    <3>2. CASE ce # 0
      <4>1. best # NoState /\ ~Better(r, best)
        BY <2>2, <3>2, <1>3 DEF NewBest
      <4> QED BY <2>2, <3>2, <4>1, <1>1, <1>3, <1>5, <1>8, BestOfSame DEF Selected, TypeOK
    <3> QED BY <3>1, <3>2
  <2> QED BY <2>1, <2>2
<1>12. Sound(Directory(s, best'))
  <2> DEFINE d == Directory(s, best')
  <2>1. d.state = s /\ d.best = best'
    BY <1>7, <1>10, DirectoryOf
  <2> HIDE DEF d
  <2>2. CASE NewBest(r)
    <3>1. best' = s /\ ce # 0 /\ s.historical = NoRecord
      BY <2>2, <1>1, <1>3, <1>7 DEF NewBest, Historical
    <3>2. Restores(d)
      BY <2>1, <3>1, <1>7 DEF Restores
    <3> QED BY <2>1, <3>1, <3>2, <1>7, <1>11 DEF Sound, d
  <2>3. CASE ~NewBest(r)
    <3>1. best' = best /\ s.historical = Record(best)
      BY <2>3, <1>1, <1>7 DEF Historical
    <3>2. CASE best = NoState
      <4>1. ce = 0
        BY <2>3, <3>2, <1>3 DEF NewBest
      <4>2. Restores(d)
        BY <2>1, <3>1, <3>2, <4>1, <1>7, Null DEF Restores
      <4> QED BY <2>1, <3>1, <3>2, <4>2, <1>7, <1>11 DEF Sound, d
    <3>3. CASE best # NoState
      <4>1. best.historical = NoRecord /\ Record(best) # NoRecord
        BY <3>3, <1>5, <1>9 DEF Selected, OwnBest, NoRecord
      <4>2. best # s
        BY <3>1, <4>1
      <4>3. Restores(d)
        BY <2>1, <3>1, <4>1, <4>2 DEF Restores
      <4>4. best.step < s.step
        BY <1>2, <1>5, <1>7 DEF Selected, TypeOK
      <4> QED BY <2>1, <3>1, <4>3, <4>4, <1>7, <1>11 DEF Sound, d
    <3> QED BY <3>2, <3>3
  <2> QED BY <2>2, <2>3
<1>13. Directory(s, best') \in Directories /\ Directory(s, best').state = s
  BY <1>7, <1>10, DirectoryOf
<1>14. writes' \in Seq(Directories) /\ Len(writes') = 1 /\ Head(writes') = Directory(s, best')
       /\ writes'[1] = Directory(s, best')
  BY <1>1, <1>13
<1>15. TypeOK'
  BY <1>1, <1>2, <1>4, <1>10, <1>14 DEF TypeOK, Roots
<1>16. Selected'
  <2>1. \A d \in Complete' : Sound(d)
    BY <1>1 DEF Selected, Complete
  <2>2. \A i \in 1 .. Len(writes') : Sound(writes'[i])
    BY <1>12, <1>14
  <2> QED BY <1>1, <1>10, <1>11, <2>1, <2>2 DEF Selected
<1>17. Ordered'
  <2>1. H' = r
    BY <1>7, <1>13, <1>14 DEF H
  <2>2. best' # NoState => Record(best') \in records \cup {r}
    BY <1>1, <1>7 DEF Ordered
  <2> QED BY <1>1, <1>3, <1>14, <2>1, <2>2 DEF Ordered
<1>18. Placed' /\ IndexSound'
  BY <1>1 DEF Placed, IndexSound, Held
<1> QED BY <1>15, <1>16, <1>17, <1>18
----------------------------------------------------------------------------
(* Publication, retention, the end.                                        *)

LEMMA PublishStep ==
  ASSUME CInv, Publish PROVE CInv'
<1> USE DEF CInv
<1> DEFINE d == Head(writes)
<1>1. /\ pc = "publish" /\ published' = [published EXCEPT ![root] = @ \cup {d}]
      /\ UNCHANGED <<shelf, torn, index, segment, request, step, writes, best, seen, saved, outcome>>
  BY DEF Publish
<1>2. writes # <<>> /\ writes \in Seq(Directories)
  BY <1>1 DEF Ordered, TypeOK
<1>3. /\ d = writes[1] /\ d \in Directories /\ 1 \in 1 .. Len(writes)
      /\ H \in Records /\ H = Record(d.state) /\ H' = H /\ H.step = writes[1].state.step
  BY <1>1, <1>2, Writing DEF H
<1>4. Sound(d)
  BY <1>3 DEF Selected
<1> HIDE DEF d
<1>5. published \in [Roots -> SUBSET Directories] /\ root \in Roots
  BY DEF TypeOK
<1>6. /\ published' \in [Roots -> SUBSET Directories]
      /\ \A x \in Roots : published'[x] = IF x = root THEN published[x] \cup {d} ELSE published[x]
  BY <1>1, <1>3, <1>5
<1>7. \A x \in Roots : Held(x)' = IF x = root THEN Held(x) \cup {H} ELSE Held(x)
  BY <1>3, <1>6 DEF Held
<1>8. Complete' \subseteq Complete \cup {d}
  BY <1>1, <1>6 DEF Complete
<1>9. Selected'
  BY <1>1, <1>4, <1>8 DEF Selected
<1>10. IndexSound'
  BY <1>1, <1>7 DEF IndexSound
<1>11. CASE root = "local"
  <2>1. pc' = "publish" /\ root' = "persistent" /\ records' = records
    BY <1>11 DEF Publish
  <2>2. TypeOK'
    BY <1>1, <1>6, <2>1 DEF TypeOK, Roots
  <2>3. Ordered'
    BY <1>1, <1>3, <2>1 DEF Ordered
  <2>4. Placed'
    BY <1>1, <1>3, <1>7, <1>11, <2>1 DEF Placed, Roots
  <2> QED BY <1>9, <1>10, <2>2, <2>3, <2>4
<1>12. CASE root = "persistent"
  <2>1. pc' = "index" /\ root' = "local" /\ records' = records \cup {H}
    BY <1>3, <1>12 DEF Publish
  <2>2. TypeOK'
    BY <1>1, <1>3, <1>6, <2>1 DEF TypeOK, Roots
  <2>3. Ordered'
    BY <1>1, <1>3, <2>1 DEF Ordered
  <2>4. \A x \in Roots : records' \subseteq Held(x)'
    BY <1>1, <1>7, <1>12, <2>1 DEF Placed, Roots
  <2>5. Retained' \subseteq records'
    BY DEF Retained
  <2>6. Placed'
    BY <2>1, <2>4, <2>5 DEF Placed, Roots
  <2> QED BY <1>9, <1>10, <2>2, <2>3, <2>6
<1> QED BY <1>5, <1>11, <1>12 DEF Roots

\* The index about to be written names its last and its best.
LEMMA IndexOf ==
  ASSUME CInv, pc \in {"index", "prune"}
  PROVE  /\ Latest(records) = H /\ Index \in Indexes
         /\ Index.retained = Retained /\ Index.last \in Retained
         /\ Index.best # NoRecord => Index.best \in Retained
<1> USE DEF CInv
<1>1. H \in records /\ (\A x \in records \ {H} : x.step < H.step)
      /\ (best # NoState => Record(best) \in records) /\ records \in SUBSET Records
  BY DEF Ordered, TypeOK
<1>2. Latest(records) = H
  BY <1>1, LatestIsLast
<1>3. H \in Retained /\ (Record(best) \in records => Record(best) \in Retained)
  BY <1>1, <1>2 DEF Retained
<1>4. Record(best) \in Records /\ Retained \subseteq Records
  BY RecordOf, RetainedSome DEF TypeOK
<1>5. best = NoState => Record(best) = NoRecord
  BY Null
<1>6. Index = [best |-> Record(best), last |-> H, retained |-> Retained]
  BY <1>2 DEF Index
<1> HIDE DEF CInv
<1> QED BY <1>1, <1>2, <1>3, <1>4, <1>5, <1>6 DEF Indexes

LEMMA PutIndexStep ==
  ASSUME CInv, PutIndex PROVE CInv'
<1>1. /\ pc = "index" /\ pc' = "prune" /\ index' = [index EXCEPT ![root] = Index]
      /\ UNCHANGED <<shelf, published, torn, segment, root, request, step, writes, records, best,
                     seen, saved, outcome>>
  BY DEF PutIndex, store
<1>2. /\ Index \in Indexes /\ Index.retained = Retained /\ Index.last \in Retained
      /\ Index.best # NoRecord => Index.best \in Retained
  BY <1>1, IndexOf
<1> USE DEF CInv
<1>3. index \in [Roots -> Indexes] /\ root \in Roots
  BY DEF TypeOK
<1>4. index' \in [Roots -> Indexes] /\ \A x \in Roots : index'[x] = IF x = root THEN Index ELSE index[x]
  BY <1>1, <1>2, <1>3
<1>5. TypeOK'
  BY <1>1, <1>4 DEF TypeOK
<1>6. Selected'
  BY <1>1 DEF Selected, Complete
<1>7. Ordered'
  BY <1>1 DEF Ordered, H
<1>8. Retained' = Retained /\ Index' = Index
  BY <1>1 DEF Retained, Index
<1>9. \A x \in Roots : Held(x)' = Held(x)
  BY <1>1 DEF Held
<1>10. /\ \A x \in Roots : Retained \subseteq Held(x)
       /\ root = "local" => records \subseteq Held("persistent")
  BY <1>1 DEF Placed
<1>11. Placed'
  <2>1. \A x \in Roots : Retained' \subseteq Held(x)'
    BY <1>8, <1>9, <1>10
  <2>2. root' = "local" => records' \subseteq Held("persistent")'
    BY <1>1, <1>9, <1>10 DEF Roots
  <2>3. index'[root'] = Index'
    BY <1>1, <1>3, <1>4, <1>8
  <2> QED BY <1>1, <2>1, <2>2, <2>3 DEF Placed
<1>12. IndexSound'
  BY <1>2, <1>4, <1>9, <1>10 DEF IndexSound
<1> QED BY <1>5, <1>6, <1>7, <1>11, <1>12
LEMMA TearStep ==
  ASSUME CInv, Tear PROVE CInv'
<1>1. PICK d \in Surplus :
        /\ pc = "prune" /\ published' = [published EXCEPT ![root] = @ \ {d}]
        /\ torn' = [torn EXCEPT ![root] = {Record(d.state)}]
        /\ UNCHANGED <<shelf, index, segment, pc, root, request, step, writes, records, best,
                       seen, saved, outcome>>
  BY DEF Tear, store
<1> USE DEF CInv
<1>2. published \in [Roots -> SUBSET Directories] /\ root \in Roots
      /\ torn \in [Roots -> SUBSET Records]
  BY DEF TypeOK
<1>3. d \in published[root] /\ d \in Directories /\ Record(d.state) \notin Retained
  BY <1>2 DEF Surplus
<1>4. Record(d.state) \in Records
  BY <1>3, Parts, RecordOf
<1>5. /\ published' \in [Roots -> SUBSET Directories] /\ torn' \in [Roots -> SUBSET Records]
      /\ \A x \in Roots : published'[x] = IF x = root THEN published[x] \ {d} ELSE published[x]
  BY <1>1, <1>2, <1>4
<1>6. ASSUME NEW x \in Roots, NEW R \in SUBSET Retained, R \subseteq Held(x) PROVE R \subseteq Held(x)'
  BY <1>3, <1>5, <1>6 DEF Held
<1>7. \A x \in Roots : x # root => Held(x)' = Held(x)
  BY <1>5 DEF Held
<1>8. Retained' = Retained /\ Index' = Index
  BY <1>1 DEF Retained, Index
<1>9. /\ index[root] = Index /\ Index.retained = Retained
      /\ \A x \in Roots : Retained \subseteq Held(x)
      /\ root = "local" => records \subseteq Held("persistent")
  BY <1>1, IndexOf DEF Placed
<1>10. TypeOK'
  BY <1>1, <1>5 DEF TypeOK
<1>11. Selected'
  <2>1. Complete' \subseteq Complete
    BY <1>1, <1>5 DEF Complete
  <2> QED BY <1>1, <2>1 DEF Selected
<1>12. Ordered'
  BY <1>1 DEF Ordered, H
<1>13. Placed'
  <2>1. \A x \in Roots : Retained' \subseteq Held(x)'
    BY <1>6, <1>8, <1>9
  <2>2. root' = "local" => records' \subseteq Held("persistent")'
    BY <1>1, <1>7, <1>9 DEF Roots
  <2>3. index'[root'] = Index'
    BY <1>1, <1>8, <1>9
  <2> QED BY <1>1, <2>1, <2>2, <2>3 DEF Placed
<1>14. IndexSound'
  <2>1. ASSUME NEW x \in Roots, index[x] # NoIndex PROVE index[x].retained \subseteq Held(x)'
    BY <1>6, <1>7, <1>9, <2>1 DEF IndexSound
  <2> QED BY <1>1, <2>1 DEF IndexSound
<1> QED BY <1>10, <1>11, <1>12, <1>13, <1>14

LEMMA RemoveStep ==
  ASSUME CInv, Remove PROVE CInv'
<1> USE DEF CInv
<1>1. /\ torn' = [torn EXCEPT ![root] = {}]
      /\ UNCHANGED <<shelf, published, index, segment, pc, root, request, step, writes, records, best,
                     seen, saved, outcome>>
  BY DEF Remove, store
<1>2. torn' \in [Roots -> SUBSET Records]
  BY <1>1 DEF TypeOK
<1>3. TypeOK'
  BY <1>1, <1>2 DEF TypeOK
<1>4. Selected' /\ Ordered'
  BY <1>1 DEF Selected, Complete, Ordered, H
<1>5. Placed' /\ IndexSound'
  <2>1. Retained' = Retained /\ Index' = Index /\ \A x \in Roots : Held(x)' = Held(x)
    BY <1>1 DEF Retained, Index, Held
  <2>2. pc' = pc /\ root' = root /\ records' = records /\ index' = index /\ H' = H
    BY <1>1 DEF H
  <2>3. Placed'
    BY <2>1, <2>2, Persistent DEF Placed
  <2>4. IndexSound'
    BY <2>1, <2>2 DEF IndexSound
  <2> QED BY <2>3, <2>4
<1> QED BY <1>3, <1>4, <1>5

LEMMA PrunedStep ==
  ASSUME CInv, Pruned PROVE CInv'
<1> USE DEF CInv
<1>1. /\ pc = "prune" /\ pc' = "index" /\ root' = "persistent"
      /\ UNCHANGED <<shelf, published, torn, index, segment, request, step, writes, records, best,
                     seen, saved, outcome>>
  BY DEF Pruned, disk, store
<1>2. TypeOK'
  BY <1>1 DEF TypeOK, Roots
<1>3. Selected' /\ Ordered'
  BY <1>1 DEF Selected, Complete, Ordered, H
<1>4. Placed' /\ IndexSound'
  BY <1>1 DEF Placed, IndexSound, Held, Retained
<1> QED BY <1>2, <1>3, <1>4

LEMMA WrittenStep ==
  ASSUME CInv, Written PROVE CInv'
<1> USE DEF CInv
<1>1. /\ pc = "prune" /\ root' = "local" /\ records' = Retained /\ writes' = Tail(writes)
      /\ pc' = IF Len(writes) > 1 THEN "publish" ELSE "train"
      /\ saved' = IF Head(writes).state.by = segment THEN H ELSE saved
      /\ UNCHANGED <<shelf, published, torn, index, segment, request, step, best, seen, outcome>>
  BY DEF Written, disk, H
<1>2. writes # <<>> /\ writes \in Seq(Directories) /\ Len(writes) <= 2 /\ Len(writes) \in Nat \ {0}
  BY <1>1 DEF Ordered, TypeOK
<1>3. /\ writes' \in Seq(Directories) /\ Len(writes') = Len(writes) - 1 /\ H \in Records
      /\ \A i \in 1 .. Len(writes') : writes'[i] = writes[i + 1] /\ i + 1 \in 1 .. Len(writes)
  BY <1>1, <1>2, Writing
<1>4. TypeOK'
  BY <1>1, <1>3, RetainedSome DEF TypeOK, Roots
<1>5. Selected'
  <2>1. \A i \in 1 .. Len(writes') : Sound(writes'[i])
    BY <1>3 DEF Selected
  <2> QED BY <1>1, <2>1 DEF Selected, Complete
<1>6. best # NoState => Record(best) \in Retained
  <2>1. best # NoState => Record(best) \in records
    BY <1>1 DEF Ordered
  <2> QED BY <2>1 DEF Retained
<1>7. Ordered'
  <2>1. CASE Len(writes) = 1
    BY <1>1, <1>3, <1>6, <2>1 DEF Ordered
  <2>2. CASE Len(writes) = 2
    <3>1. writes' # <<>> /\ Len(writes') = 1 /\ 1 \in 1 .. Len(writes') /\ Head(writes') = writes[2]
      BY <1>3, <2>2
    <3>2. H.step < writes[2].state.step /\ writes[2] \in Directories
      <4>1. writes[1].state.step < writes[2].state.step
        BY <2>2 DEF Ordered
      <4>2. H.step = writes[1].state.step
        BY <1>2, Writing
      <4>3. writes[2] \in Directories
        BY <1>2, <2>2
      <4> QED BY <4>1, <4>2, <4>3
    <3>3. H' = Record(writes[2].state) /\ H'.step = writes[2].state.step /\ H'.step \in Nat
      BY <3>1, <3>2, Parts, RecordOf DEF H
    <3>4. \A x \in records : x.step <= H.step /\ x.step \in Nat /\ H.step \in Nat
      BY <1>1, <1>3, RecordNumbers DEF Ordered, TypeOK
    <3>5. \A x \in records' : x.step < H'.step
      BY <1>1, <3>2, <3>3, <3>4, RetainedSome
    <3>6. pc' = "publish" /\ best' = best
      BY <1>1, <2>2
    <3> QED BY <1>1, <1>6, <3>1, <3>5, <3>6 DEF Ordered
  <2>3. Len(writes) = 1 \/ Len(writes) = 2
    <3>1. \A n \in Nat \ {0} : n <= 2 => n = 1 \/ n = 2
      OBVIOUS
    <3> QED BY <1>2, <3>1
  <2> QED BY <2>1, <2>2, <2>3
<1>8. Placed' /\ IndexSound'
  <2>1. \A x \in Roots : Held(x)' = Held(x)
    BY <1>1 DEF Held
  <2>2. \A x \in Roots : records' \subseteq Held(x)'
    BY <1>1, <2>1 DEF Placed
  <2>3. pc' \in {"publish", "train"}
    BY <1>1
  <2>4. Placed'
    BY <1>1, <2>2, <2>3 DEF Placed
  <2> QED BY <1>1, <2>1, <2>4 DEF IndexSound
<1> QED BY <1>4, <1>5, <1>7, <1>8

LEMMA EndStep ==
  ASSUME CInv, Finish \/ Die PROVE CInv'
<1> USE DEF CInv
<1>1. /\ pc' = "idle" /\ outcome' \in {"PASS", "FAIL"}
      /\ UNCHANGED <<shelf, published, torn, index, segment, root, request, step, writes, records,
                     best, seen, saved>>
  BY DEF Finish, Die, disk, store
<1>2. TypeOK'
  BY <1>1 DEF TypeOK
<1>3. Selected' /\ Ordered'
  BY <1>1 DEF Selected, Complete, Ordered
<1>4. Placed' /\ IndexSound'
  BY <1>1 DEF Placed, IndexSound, Held
<1> QED BY <1>2, <1>3, <1>4

LEMMA StutterStep ==
  ASSUME CInv, UNCHANGED vars PROVE CInv'
<1> USE DEF CInv
<1>1. UNCHANGED <<shelf, published, torn, index, segment, pc, root, request, step, writes, records,
                  best, seen, saved, outcome>>
  BY DEF vars, disk, store
<1>2. TypeOK'
  BY <1>1 DEF TypeOK
<1>3. Selected' /\ Ordered'
  BY <1>1 DEF Selected, Complete, Ordered, H
<1>4. Placed' /\ IndexSound'
  <2>1. Retained' = Retained /\ Index' = Index /\ \A x \in Roots : Held(x)' = Held(x)
    BY <1>1 DEF Retained, Index, Held
  <2>2. pc' = pc /\ root' = root /\ records' = records /\ index' = index /\ H' = H
    BY <1>1 DEF H
  <2>3. Placed'
    BY <2>1, <2>2, Persistent DEF Placed
  <2>4. IndexSound'
    BY <2>1, <2>2 DEF IndexSound
  <2> QED BY <2>3, <2>4
<1> QED BY <1>2, <1>3, <1>4

LEMMA Initially == Init => CInv
<1> SUFFICES ASSUME Init PROVE CInv
  OBVIOUS
<1>1. NoIndex \in Indexes
  BY Null DEF NoIndex, Indexes
<1>2. TypeOK
  BY <1>1, Null, NaturalConstants DEF Init, TypeOK, Roots
<1>3. Selected
  BY Null DEF Init, Selected, Complete, Best, OwnBest
<1>4. Ordered /\ Placed /\ IndexSound
  BY DEF Init, Ordered, Placed, IndexSound
<1> QED BY <1>2, <1>3, <1>4 DEF CInv

LEMMA Inductive == CInv /\ [Next]_vars => CInv'
<1> SUFFICES ASSUME CInv, [Next]_vars PROVE CInv'
  OBVIOUS
<1>1. CASE \E q \in Runs : Start(q)
  BY <1>1, StartStep
<1>2. CASE \E q \in Runs : \E d \in Complete : Resume(q, d)
  BY <1>2, ResumeStep
<1>3. CASE \E ce \in Scores \cup {0} : Save(ce)
  BY <1>3, SaveStep
<1>4. CASE Train \/ Publish \/ PutIndex
  BY <1>4, TrainStep, PublishStep, PutIndexStep
<1>5. CASE Tear \/ Remove \/ Pruned \/ Written
  BY <1>5, TearStep, RemoveStep, PrunedStep, WrittenStep
<1>6. CASE Finish \/ Die \/ UNCHANGED vars
  BY <1>6, EndStep, StutterStep
<1> QED BY <1>1, <1>2, <1>3, <1>4, <1>5, <1>6 DEF Next

LEMMA Always == Spec => []CInv
BY Initially, Inductive, PTL DEF Spec

----------------------------------------------------------------------------
\* Every variable of the store and its run keeps its type.
THEOREM TypeCorrect == Spec => []TypeOK
<1>1. CInv => TypeOK
  BY DEF CInv
<1> QED BY <1>1, Always, PTL

\* At every point at which a segment may die, what an index names is complete
\* in its root, the last and the best checkpoint among it (_write, _retain).
THEOREM IndexAlwaysSound == Spec => []IndexSound
<1>1. CInv => IndexSound
  BY DEF CInv
<1> QED BY <1>1, Always, PTL

\* However often a training is cut short and resumed, every checkpoint carries
\* the best of all that were validated on the way to it (save, seed).
THEOREM BestAlwaysKept == Spec => []BestKept
<1>1. CInv => BestKept
  <2> SUFFICES ASSUME CInv, NEW d \in Complete
               PROVE  IF d.state.seen = {} THEN d.best = NoState
                      ELSE /\ Record(d.best) \in d.state.seen
                           /\ \A r \in d.state.seen : ~Better(r, Record(d.best))
    BY DEF BestKept
  <2>1. Best(d.state.seen, d.best)
    BY DEF CInv, Selected, Sound
  <2> QED BY <2>1 DEF Best
<1> QED BY <1>1, Always, PTL

\* Nothing the store publishes is refused when it is resumed from.
THEOREM AlwaysResumable == Spec => []Resumable
<1>1. CInv => Resumable
  BY DEF CInv, Selected, Sound, Resumable
<1> QED BY <1>1, Always, PTL
----------------------------------------------------------------------------
(* What the events name is not lost.  Given CInv this is inductive, too.   *)

Busy == {"publish", "index", "prune"}
Named(i, h) == i.last = h /\ i.last \in i.retained

Recovered ==
  /\ saved.step <= step
  /\ saved # NoRecord =>
       \A r \in Roots : index[r].last.step >= saved.step /\ index[r].last \in index[r].retained
  /\ pc \in Busy =>
       /\ saved.step <= H.step
       /\ \A i \in 1 .. Len(writes) : writes[i].state.step <= step
       /\ Final(step) => Head(writes).state.by = segment /\ H.step = step /\ Len(writes) = 1
  /\ pc = "index" /\ root = "persistent" => Named(index["local"], H)
  /\ pc = "prune" => Named(index[root], H) /\ Named(index["local"], H)
  /\ pc = "train" /\ Final(step) => saved.step = step
  /\ outcome = "PASS" => pc = "idle" /\ saved.step = step /\ Final(step)

LEMMA SavedTyped == ASSUME TypeOK PROVE saved.step \in Nat /\ step \in Nat
BY RecordNumbers, NaturalConstants DEF TypeOK

LEMMA InitiallyRecovered == Init => Recovered
BY DEF Init, Recovered, Busy, NoRecord

LEMMA StartRecovers ==
  ASSUME CInv, NEW q \in Runs, Start(q) PROVE Recovered'
<1>1. /\ request' = q /\ saved' = NoRecord /\ outcome' = "none"
      /\ step' = 0 /\ pc' = "train"
  BY DEF Start, Begin
<1>2. q.limit \in 1 .. TrainSteps
  BY DEF Runs
<1>3. ~Final(step)'
  BY <1>1, <1>2, NaturalConstants DEF Final
<1> QED BY <1>1, <1>3 DEF Recovered, Busy, NoRecord

LEMMA ResumeRecovers ==
  ASSUME CInv, NEW q \in Runs, NEW d \in Complete, Resume(q, d) PROVE Recovered'
<1>1. /\ request' = q /\ saved' = NoRecord /\ outcome' = "none"
      /\ step' = d.state.step /\ pc' = "publish" /\ d.state.step < q.limit
      /\ writes' = Seed(d) /\ best' = d.best
  BY DEF Resume, Begin
<1>2. q.limit \in 1 .. TrainSteps
  BY DEF Runs
<1>3. d \in Directories /\ Sound(d) /\ d.state \in States /\ d.best \in States
  BY CompleteTyped, Parts DEF CInv, Selected
<1>4. d.state.step \in Nat /\ d.best.step \in Nat
  BY <1>3, RecordOf
<1>5. ~Final(step)'
  BY <1>1, <1>2, <1>4, NaturalConstants DEF Final
<1>6. \A i \in 1 .. Len(Seed(d)) : Seed(d)[i].state.step <= d.state.step
  <2>1. CASE d.best # NoState /\ d.best # d.state
    <3> DEFINE b == Directory(d.best, d.best)
    <3>1. Seed(d) = <<b, d>>
      BY <2>1 DEF Seed
    <3>2. b.state = d.best
      BY <1>3, DirectoryOf
    <3>3. d.best.step < d.state.step
      BY <2>1, <1>3 DEF Sound
    <3> HIDE DEF b
    <3>4. /\ d.best.step <= d.state.step /\ d.state.step <= d.state.step
          /\ \A i \in 1 .. Len(<<b, d>>) : <<b, d>>[i] = b \/ <<b, d>>[i] = d
      BY <1>4, <3>3
    <3> QED BY <3>1, <3>2, <3>4
  <2>2. CASE ~(d.best # NoState /\ d.best # d.state)
    <3>1. Seed(d) = <<d>>
      BY <2>2 DEF Seed
    <3> QED BY <1>4, <3>1
  <2> QED BY <2>1, <2>2
<1>7. H'.step \in Nat
  <2>1. Seed(d) \in Seq(Directories) /\ Seed(d) # <<>>
    BY <1>3, SeedSound
  <2>2. Head(Seed(d)).state \in States
    BY <2>1, Parts
  <2> QED BY <1>1, <2>2, RecordOf DEF H
<1>8. saved'.step = 0 /\ saved'.step <= step' /\ saved'.step <= H'.step
  BY <1>1, <1>4, <1>7 DEF NoRecord
<1>9. \A i \in 1 .. Len(writes') : writes'[i].state.step <= step'
  BY <1>1, <1>6
<1> QED BY <1>1, <1>5, <1>8, <1>9 DEF Recovered, Busy

LEMMA SaveRecovers ==
  ASSUME CInv, Recovered, NEW ce \in Scores \cup {0}, Save(ce) PROVE Recovered'
<1> DEFINE r == [step |-> step + 1, ce |-> ce, by |-> segment]
           s == State(r, Historical(r), seen \cup {x \in {r} : x.ce # 0})
           d == Directory(s, best')
<1>1. /\ pc = "train" /\ pc' = "publish" /\ step' = step + 1 /\ writes' = <<d>>
      /\ UNCHANGED <<index, segment, request, saved, outcome>>
  BY DEF Save, disk
<1>2. d.state.step = step + 1 /\ d.state.by = segment
  BY DEF Directory, State
<1> HIDE DEF d
<1>3. Len(writes') = 1 /\ Head(writes') = d /\ writes'[1] = d
  BY <1>1
<1>4. H'.step = step + 1
  BY <1>2, <1>3 DEF H, Record
<1>5. saved.step <= step + 1 /\ step + 1 <= step + 1
  BY SavedTyped DEF Recovered, CInv
<1> QED BY <1>1, <1>2, <1>3, <1>4, <1>5 DEF Recovered, Busy

LEMMA TrainRecovers ==
  ASSUME CInv, Recovered, Train PROVE Recovered'
<1>1. /\ pc = "train" /\ pc' = "train" /\ step' = step + 1 /\ ~Final(step + 1)
      /\ UNCHANGED <<index, segment, request, saved, outcome>>
  BY DEF Train, disk, Saves, Validates
<1>2. saved.step <= step + 1
  BY SavedTyped DEF Recovered, CInv
<1>3. ~Final(step)'
  BY <1>1 DEF Final
<1> QED BY <1>1, <1>2, <1>3 DEF Recovered, Busy

LEMMA PublishRecovers ==
  ASSUME CInv, Recovered, Publish PROVE Recovered'
<1>1. /\ pc = "publish" /\ pc' \in {"publish", "index"}
      /\ pc' = "index" => root' = "local"
      /\ UNCHANGED <<index, segment, request, step, writes, saved, outcome>>
  BY DEF Publish
<1>2. H' = H /\ (Final(step)' <=> Final(step))
  BY <1>1 DEF H, Final
<1> QED BY <1>1, <1>2 DEF Recovered, Busy

LEMMA PutIndexRecovers ==
  ASSUME CInv, Recovered, PutIndex PROVE Recovered'
<1>1. /\ pc = "index" /\ pc' = "prune" /\ index' = [index EXCEPT ![root] = Index]
      /\ UNCHANGED <<segment, root, request, step, writes, saved, outcome>>
  BY DEF PutIndex, store
<1>2. H' = H /\ (Final(step)' <=> Final(step))
  BY <1>1 DEF H, Final
<1>3. Named(Index, H)
  BY <1>1, IndexOf DEF Named, Index
<1>4. \A x \in Roots : index'[x] = IF x = root THEN Index ELSE index[x]
  BY <1>1 DEF CInv, TypeOK
<1>5. root \in Roots /\ "local" \in Roots
  BY Persistent DEF CInv, TypeOK
<1>6. Named(index'[root], H) /\ Named(index'["local"], H)
  BY <1>1, <1>3, <1>4, <1>5 DEF Recovered, Roots
<1>7. saved # NoRecord => \A x \in Roots : index'[x].last.step >= saved.step
                                          /\ index'[x].last \in index'[x].retained
  <2>1. H.step >= saved.step
    <3>1. H.step \in Nat
      BY <1>1, Writing, RecordNumbers DEF CInv, TypeOK, Ordered
    <3> QED BY <1>1, <3>1, SavedTyped DEF Recovered, Busy, CInv
  <2> QED BY <1>3, <1>4, <2>1 DEF Recovered, Named
<1> QED BY <1>1, <1>2, <1>6, <1>7 DEF Recovered, Busy

LEMMA PruneRecovers ==
  ASSUME CInv, Recovered, Tear \/ Remove \/ Pruned PROVE Recovered'
<1>1. /\ pc = "prune"
      /\ (pc' = "prune" /\ root' = root) \/ pc' = "index"
      /\ UNCHANGED <<index, segment, request, step, writes, saved, outcome>>
  BY DEF Tear, Remove, Pruned, disk, store
<1>2. H' = H /\ (Final(step)' <=> Final(step))
  BY <1>1 DEF H, Final
<1> QED BY <1>1, <1>2 DEF Recovered, Busy

LEMMA WrittenRecovers ==
  ASSUME CInv, Recovered, Written PROVE Recovered'
<1>1. /\ pc = "prune" /\ root = "persistent" /\ writes' = Tail(writes)
      /\ pc' = IF Len(writes) > 1 THEN "publish" ELSE "train"
      /\ saved' = IF Head(writes).state.by = segment THEN H ELSE saved
      /\ UNCHANGED <<index, segment, request, step, outcome>>
  BY DEF Written, disk, H
<1>2. writes # <<>> /\ writes \in Seq(Directories) /\ Len(writes) \in Nat
  BY <1>1 DEF CInv, TypeOK, Ordered
<1>3. /\ H.step = writes[1].state.step /\ H \in Records /\ H.step \in Nat
      /\ 1 \in 1 .. Len(writes)
  BY <1>2, Writing, RecordNumbers
<1>4. Final(step)' <=> Final(step)
  BY <1>1 DEF Final
<1>5. saved.step <= H.step /\ \A i \in 1 .. Len(writes) : writes[i].state.step <= step
  BY <1>1 DEF Recovered, Busy
<1>6. saved'.step <= step' /\ saved'.step <= H.step /\ saved'.step \in Nat
  BY <1>1, <1>3, <1>5, SavedTyped DEF Recovered, CInv
<1>7. Named(index["local"], H) /\ Named(index["persistent"], H)
  BY <1>1 DEF Recovered
<1>8. saved' # NoRecord => \A x \in Roots : index'[x].last.step >= saved'.step
                                           /\ index'[x].last \in index'[x].retained
  BY <1>1, <1>3, <1>6, <1>7 DEF Named, Roots
<1>9. outcome # "PASS"
  BY <1>1 DEF Recovered
<1>10. CASE Len(writes) > 1
  <2>1. Len(writes) = 2
    <3>1. \A n \in Nat : n > 1 /\ n <= 2 => n = 2
      OBVIOUS
    <3>2. Len(writes) <= 2
      BY DEF CInv, Ordered
    <3> QED BY <1>2, <1>10, <3>1, <3>2
  <2>2. ~Final(step)
    BY <1>1, <2>1 DEF Recovered, Busy
  <2>3. H'.step = writes[2].state.step
    <3>1. /\ Tail(writes) \in Seq(Directories) /\ Len(Tail(writes)) = Len(writes) - 1
          /\ \A i \in 1 .. Len(Tail(writes)) : Tail(writes)[i] = writes[i + 1]
      BY <1>2, Writing
    <3>2. Len(Tail(writes)) = 1 /\ Tail(writes)[1] = writes[2]
      BY <2>1, <3>1
    <3>3. Head(Tail(writes)) = writes[2]
      BY <3>1, <3>2
    <3> QED BY <1>1, <3>3 DEF H, Record
  <2>4. saved'.step <= H'.step
    <3>1. writes[2].state.step \in Nat /\ H.step < writes[2].state.step
      <4>1. writes[2] \in Directories
        <5>1. 2 \in 1 .. Len(writes)
          BY <2>1
        <5>2. \A i \in 1 .. Len(writes) : writes[i] \in Directories
          BY <1>2
        <5> QED BY <5>1, <5>2
      <4> QED BY <2>1, <4>1, <1>3, Parts, RecordOf DEF CInv, Ordered
    <3> QED BY <1>3, <1>6, <2>3, <3>1
  <2>5. \A i \in 1 .. Len(writes') : writes'[i].state.step <= step
    <3>1. \A i \in 1 .. Len(Tail(writes)) : Tail(writes)[i] = writes[i + 1] /\ i + 1 \in 1 .. Len(writes)
      BY <1>2, Writing
    <3> QED BY <1>1, <1>5, <3>1
  <2>6. pc' = "publish"
    BY <1>1, <1>10
  <2> QED BY <1>1, <1>4, <1>6, <1>8, <1>9, <2>2, <2>4, <2>5, <2>6 DEF Recovered, Busy
<1>11. CASE ~(Len(writes) > 1)
  <2>1. pc' = "train"
    BY <1>1, <1>11
  <2>2. Final(step) => saved'.step = step
    BY <1>1 DEF Recovered, Busy
  <2> QED BY <1>1, <1>4, <1>6, <1>8, <1>9, <2>1, <2>2 DEF Recovered, Busy
<1> QED BY <1>10, <1>11

LEMMA EndRecovers ==
  ASSUME CInv, Recovered, Finish \/ Die PROVE Recovered'
<1>1. /\ pc' = "idle" /\ UNCHANGED <<index, segment, request, step, saved>>
      /\ outcome' = "PASS" => pc = "train" /\ Final(step)
  BY DEF Finish, Die, disk
<1>2. Final(step)' <=> Final(step)
  BY <1>1 DEF Final
<1> QED BY <1>1, <1>2 DEF Recovered, Busy

LEMMA StutterRecovers ==
  ASSUME CInv, Recovered, UNCHANGED vars PROVE Recovered'
<1>1. UNCHANGED <<index, segment, pc, root, request, step, writes, saved, outcome>>
  BY DEF vars, disk, store
<1>2. H' = H /\ (Final(step)' <=> Final(step))
  BY <1>1 DEF H, Final
<1> QED BY <1>1, <1>2 DEF Recovered, Busy

LEMMA InductiveRecovery == CInv /\ Recovered /\ [Next]_vars => Recovered'
<1> SUFFICES ASSUME CInv, Recovered, [Next]_vars PROVE Recovered'
  OBVIOUS
<1>1. CASE \E q \in Runs : Start(q)
  BY <1>1, StartRecovers
<1>2. CASE \E q \in Runs : \E d \in Complete : Resume(q, d)
  BY <1>2, ResumeRecovers
<1>3. CASE \E ce \in Scores \cup {0} : Save(ce)
  BY <1>3, SaveRecovers
<1>4. CASE Train \/ Publish \/ PutIndex
  BY <1>4, TrainRecovers, PublishRecovers, PutIndexRecovers
<1>5. CASE Tear \/ Remove \/ Pruned \/ Written
  BY <1>5, PruneRecovers, WrittenRecovers
<1>6. CASE Finish \/ Die \/ UNCHANGED vars
  BY <1>6, EndRecovers, StutterRecovers
<1> QED BY <1>1, <1>2, <1>3, <1>4, <1>5, <1>6 DEF Next

LEMMA RecoveredMeans == CInv /\ Recovered => Recoverable
<1> SUFFICES ASSUME CInv, Recovered PROVE Recoverable
  OBVIOUS
<1>1. ASSUME saved # NoRecord, NEW r \in Roots
      PROVE  index[r].last.step >= saved.step /\ index[r].last \in Held(r)
  <2>1. index[r].last \in index[r].retained /\ index[r].last.step >= saved.step
    BY <1>1 DEF Recovered
  <2>2. index[r] # NoIndex
    BY <2>1 DEF NoIndex
  <2> QED BY <2>1, <2>2 DEF CInv, IndexSound
<1> QED BY <1>1 DEF Recovered, Recoverable

\* A checkpoint the events name, or a later one, stays in both roots and their
\* indexes, and a run that passed ends with its last step.
THEOREM AlwaysRecoverable == Spec => []Recoverable
BY Always, InitiallyRecovered, InductiveRecovery, RecoveredMeans, PTL DEF Spec
===============================================================================
