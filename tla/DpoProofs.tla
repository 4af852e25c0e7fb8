------------------------------ MODULE DpoProofs ------------------------------
(***************************************************************************)
(* That DPO trains on what it may, and once: for any corpus, tasks, pool,  *)
(* judgments, cadences and segments, and wherever a parent or a child dies.*)
(***************************************************************************)
EXTENDS Dpo, FiniteSetTheorems, WellFoundedInduction, TLAPS

----------------------------------------------------------------------------
(* The invariant of the segments.                                          *)

\* Where a child has the lease, and where it has pairs in its weights.
Working == {"leased", "inspected", "training", "saving", "writing", "rotating", "reporting"}
Training == {"training", "saving", "writing", "rotating", "reporting"}
ChildPlaces == {"none", "starting", "sent", "gone"} \cup Working
ParentPlaces == {"none", "poll", "join", "stopping"} \cup Over
Pipes == {"empty", "PASS", "FAIL"}
Froms == {Fresh} \cup Segments \X AllSteps

Kinds == {"none", "dpo", "dpo_capacity"}
RequestType == [kind : Kinds, order : Seq(Tasks), every : Nat \ {0}, stop : Nat, from : Froms]
ChildType == [at : ChildPlaces, step : Nat, weights : Seq(Tasks), pipe : Pipes, exit : {"none", "ok", "bad"}]
FileType == [state : {"none", "partial", "native", "sealed", "torn"}, trained : Seq(Tasks)]
ParentType == [at : ParentPlaces, result : {"none"} \cup Pipes]

Typed ==
  /\ input \in Seq(Tasks)
  /\ request \in [Segments -> RequestType]
  /\ child \in [Segments -> ChildType]
  /\ files \in [Segments -> [AllSteps -> FileType]]
  /\ parent \in [Segments -> ParentType]
  /\ summary \in [Segments -> {"none", "PASS", "FAIL"}]

\* What was not requested has left nothing; what was is from a frozen list.
RequestedAt(s) ==
  IF request[s] = NoRequest
  THEN /\ child[s] = NoChild /\ parent[s] = NoParent /\ summary[s] = "none"
       /\ \A n \in AllSteps : files[s][n] = NoFile
  ELSE /\ stage = "frozen" /\ request[s].kind # "none" /\ request[s].stop \in AllSteps
       /\ child[s].at # "none" /\ parent[s].at # "none"
       /\ request[s].kind = "dpo" => request[s].order = input

\* The lease is with whoever works.
LeasedAt(s) == child[s].at \in Working => lease = s

\* What a segment goes on from is as it was inspected, and of its own order.
ResumingAt(s) ==
  LET from == request[s].from
  IN /\ child[s].at \in {"leased", "inspected"} => from \in Segments \X AllSteps
     /\ child[s].at = "inspected" =>
          /\ Sealed(from[1], from[2]) /\ from[2] < request[s].stop
          /\ SameIdentity(request[from[1]], request[s])

\* The first pairs of the order, as many as n steps take.
Learned(s, n) == SubSeq(Order(s), 1, Cursor(s, n))

\* What is learned and what was written is the beginning of the order.
LearningAt(s) ==
  /\ child[s].at \in Training =>
       /\ child[s].weights = Learned(s, child[s].step) /\ child[s].step <= request[s].stop
       /\ child[s].at = "training" => child[s].step < request[s].stop
       /\ child[s].at \in {"saving", "writing", "rotating"} => child[s].step > 0
  /\ \A n \in AllSteps : files[s][n].state \notin {"none", "torn"} => files[s][n].trained = Learned(s, n)

\* While a child is at work: below its step stand sealed checkpoints, of which
\* the oldest may be half removed while there are too many; none is above it.
StandingAt(s, n) ==
  LET step == child[s].step
      state == files[s][n].state
  IN /\ child[s].at \in {"starting", "leased", "inspected"} => state = "none"
     /\ child[s].at \in Training /\ n > step => state = "none"
     /\ child[s].at = "training" => state \in {"none", "sealed"}
     /\ child[s].at = "saving" => state \in {"none", "sealed"} /\ (n = step => state = "none")
     /\ child[s].at = "writing" => IF n = step THEN state = "partial" ELSE state \in {"none", "sealed"}
     /\ child[s].at = "rotating" =>
          /\ n = step <=> state = "native"
          /\ n < step => state \in {"none", "sealed", "torn"}
          /\ state = "torn" => /\ \A m \in Directories(s) : n <= m
                               /\ Cardinality(Directories(s)) > Keep

\* A child starts without steps.
Starting(s) == child[s].at \in {"starting", "leased", "inspected"} => child[s].step = 0 /\ child[s].weights = <<>>

\* A success is only reported, received and written of a checkpoint that is
\* complete and will stay so.
ReportedAt(s) ==
  /\ child[s].at = "reporting" \/ child[s].pipe = "PASS" => Sealed(s, request[s].stop)
  /\ child[s].pipe # "empty" => child[s].at \in {"sent", "gone"}
  /\ parent[s].at = "join" /\ parent[s].result = "PASS" => child[s].pipe = "PASS"
  /\ parent[s].at = "stopping" /\ parent[s].result = "PASS" =>
       child[s].at = "gone" /\ Sealed(s, request[s].stop)
  /\ parent[s].at = "stopping" => parent[s].result \in {"PASS", "FAIL"}
  /\ summary[s] # "none" => parent[s].at = "closed" /\ child[s].at = "gone"
  /\ summary[s] = "PASS" => Sealed(s, request[s].stop)

Requested == \A s \in Segments : RequestedAt(s)
Leased == \A s \in Segments : LeasedAt(s)
Resuming == \A s \in Segments : ResumingAt(s)
Learning == \A s \in Segments : LearningAt(s) /\ Starting(s)
Standing == \A s \in Segments : \A n \in AllSteps : StandingAt(s, n)
Reported == \A s \in Segments : ReportedAt(s)

SInv == Typed /\ Requested /\ Leased /\ Resuming /\ Learning /\ Standing /\ Reported

----------------------------------------------------------------------------
(* Sets of numbers, and the order of a request.                            *)

\* A set of natural numbers that is not empty has a least one.
LEMMA Least == ASSUME NEW T \in SUBSET Nat, T # {} PROVE \E n \in T : \A m \in T : n <= m
<1> DEFINE R == {p \in Nat \X Nat : p[1] < p[2]}
<1>1. IsWellFoundedOn(R, Nat)
  BY NatLessThanWellFounded DEF OpToRel
<1>2. \A m, n \in Nat : m < n => <<m, n>> \in R
  OBVIOUS
<1> HIDE DEF R
<1>3. PICK n \in T : \A m \in T : <<m, n>> \notin R
  BY <1>1, WFMin
<1>4. \A m \in T : ~(m < n)
  BY <1>2, <1>3
<1>5. \A m \in T : n <= m
  <2> TAKE m \in T
  <2>1. m \in Nat /\ n \in Nat /\ ~(m < n)
    BY <1>4
  <2> QED BY <2>1
<1> QED BY <1>5

LEMMA LeastIsMin == ASSUME NEW T \in SUBSET Nat, T # {} PROVE Min(T) \in T /\ \A m \in T : Min(T) <= m
  BY Least DEF Min

\* The bounded ones have a greatest one.
LEMMA GreatestIsMax ==
  ASSUME NEW T \in SUBSET Nat, T # {}, NEW b \in Nat, \A m \in T : m <= b
  PROVE  Max(T) \in T /\ \A m \in T : m <= Max(T)
<1> DEFINE U == {b - m : m \in T}
<1>1. U \in SUBSET Nat /\ U # {}
  <2>1. \A m \in T : m \in Nat /\ m <= b /\ b - m \in Nat
    OBVIOUS
  <2> QED BY <2>1
<1>2. PICK u \in U : \A v \in U : u <= v
  BY <1>1, Least
<1>3. PICK m \in T : u = b - m
  BY <1>2
<1>4. \A k \in T : m >= k
  <2> TAKE k \in T
  <2>1. b - m <= b - k /\ m \in Nat /\ k \in Nat
    BY <1>2, <1>3
  <2> QED BY <2>1
<1> QED BY <1>3, <1>4 DEF Max

LEMMA MinOfTwo == ASSUME NEW a \in Nat, NEW b \in Nat PROVE Min({a, b}) = IF a <= b THEN a ELSE b
  BY DEF Min

LEMMA MaxOfTwo == ASSUME NEW a \in Nat, NEW b \in Nat PROVE Max({a, b}) = IF a >= b THEN a ELSE b
  BY DEF Max

\* The steps there may be are the numbers up to some number.
LEMMA StepsAre ==
  /\ \A n \in AllSteps : n \in Nat /\ n > 0
  /\ \A n \in AllSteps, m \in Nat : 0 < m /\ m <= n => m \in AllSteps
  /\ \E last \in Nat : \A n \in AllSteps : n <= last
<1>1. Max({PlanLength, TaskCount}) \in Nat
  BY DpoAssumption, PreferencesAssumption, MaxOfTwo
<1>2. ASSUME NEW n \in Nat PROVE StepsOf(n) \in Nat
  BY DpoAssumption DEF StepsOf
<1>3. PICK last \in Nat : AllSteps = 1 .. last
  BY <1>1, <1>2 DEF AllSteps
<1>4. \A n \in 1 .. last : n \in Nat /\ n > 0 /\ n <= last
  BY <1>3
<1>5. \A n \in 1 .. last, m \in Nat : 0 < m /\ m <= n => m \in 1 .. last
  BY <1>3
<1> HIDE DEF AllSteps
<1> QED BY <1>3, <1>4, <1>5

LEMMA StepsFinite == IsFiniteSet(AllSteps)
<1>1. Max({PlanLength, TaskCount}) \in Nat
  BY DpoAssumption, PreferencesAssumption, MaxOfTwo
<1>2. ASSUME NEW n \in Nat PROVE StepsOf(n) \in Nat
  BY DpoAssumption DEF StepsOf
<1> QED BY <1>1, <1>2, FS_Interval DEF AllSteps

\* A sequence without its end and its end.
LEMMA PrefixGrows ==
  ASSUME NEW T, NEW q \in Seq(T), NEW i \in Nat, NEW j \in Nat, i <= j, j <= Len(q)
  PROVE  SubSeq(q, 1, i) \o SubSeq(q, i + 1, j) = SubSeq(q, 1, j)
<1>1. /\ SubSeq(q, 1, i) = [k \in 1 .. i |-> q[k]] /\ SubSeq(q, i + 1, j) = [k \in 1 .. j - i |-> q[i + k]]
      /\ SubSeq(q, 1, j) = [k \in 1 .. j |-> q[k]]
  OBVIOUS
<1> QED BY <1>1

LEMMA CursorIs ==
  ASSUME NEW s, Len(Order(s)) \in Nat, NEW n \in Nat
  PROVE  /\ Cursor(s, n) = IF n * Batch <= Len(Order(s)) THEN n * Batch ELSE Len(Order(s))
         /\ Cursor(s, n) \in Nat /\ Cursor(s, n) <= Len(Order(s))
         /\ Cursor(s, n) <= Cursor(s, n + 1)
<1> DEFINE N == n * Batch
<1> DEFINE M == (n + 1) * Batch
<1>1. N \in Nat /\ M \in Nat /\ N <= M
  <2>1. Batch \in Nat
    BY DpoAssumption
  <2>2. n * Batch \in Nat /\ (n + 1) * Batch = n * Batch + Batch
    BY <2>1
  <2> QED BY <2>1, <2>2
<1>2. Cursor(s, n) = Min({N, Len(Order(s))}) /\ Cursor(s, n + 1) = Min({M, Len(Order(s))})
  BY DEF Cursor
<1> HIDE DEF N, M
<1>3. Cursor(s, n) = IF N <= Len(Order(s)) THEN N ELSE Len(Order(s))
  BY <1>1, <1>2, MinOfTwo
<1>4. Cursor(s, n + 1) = IF M <= Len(Order(s)) THEN M ELSE Len(Order(s))
  BY <1>1, <1>2, MinOfTwo
<1>5. Cursor(s, n) \in Nat /\ Cursor(s, n) <= Len(Order(s)) /\ Cursor(s, n) <= Cursor(s, n + 1)
  BY <1>1, <1>3, <1>4
<1>6. Cursor(s, n) = IF n * Batch <= Len(Order(s)) THEN n * Batch ELSE Len(Order(s))
  BY <1>3 DEF N
<1> QED BY <1>5, <1>6

\* The plan is made of pairs of the list, which is not empty.
LEMMA PlanTyped == ASSUME input \in Seq(Tasks), Len(input) > 0 PROVE Plan \in Seq(Tasks)
  BY DpoAssumption DEF Plan

----------------------------------------------------------------------------
(* Every step keeps the types.                                             *)

\* A sequence of the members of a finite set of numbers.
LEMMA RankedOnce ==
  ASSUME NEW S \in SUBSET Nat, IsFiniteSet(S)
  PROVE  /\ Cardinality(S) \in Nat
         /\ \A i \in 1 .. Cardinality(S) : \E t \in S : Cardinality({u \in S : u < t}) = i - 1
<1> DEFINE before(t) == {u \in S : u < t}
<1> DEFINE rank == [t \in S |-> Cardinality(before(t)) + 1]
<1>1. Cardinality(S) \in Nat
  BY FS_CardinalityType
<1>2. ASSUME NEW t \in S
      PROVE  IsFiniteSet(before(t)) /\ Cardinality(before(t)) \in Nat /\ Cardinality(before(t)) < Cardinality(S)
  <2>1. before(t) \in SUBSET S /\ before(t) # S
    <3>1. t \in Nat /\ t \in S /\ t \notin before(t)
      OBVIOUS
    <3> QED BY <3>1
  <2>2. IsFiniteSet(before(t)) /\ Cardinality(before(t)) <= Cardinality(S)
    BY <2>1, FS_Subset
  <2>3. Cardinality(S) # Cardinality(before(t))
    BY <2>1, FS_Subset
  <2>4. Cardinality(before(t)) \in Nat
    BY <2>2, FS_CardinalityType
  <2> QED BY <1>1, <2>2, <2>3, <2>4
<1>3. ASSUME NEW t \in S, NEW u \in S, t < u PROVE Cardinality(before(t)) < Cardinality(before(u))
  <2>1. before(t) \in SUBSET before(u) /\ before(t) # before(u)
    <3>1. t \in before(u) /\ t \notin before(t)
      BY <1>3
    <3>2. before(t) \subseteq before(u)
      <4>1. ASSUME NEW v \in S, v < t PROVE v < u
        <5>1. v \in Nat /\ t \in Nat /\ u \in Nat
          OBVIOUS
        <5> QED BY <1>3, <4>1, <5>1
      <4> QED BY <4>1
    <3> QED BY <3>1, <3>2
  <2>2. IsFiniteSet(before(u))
    BY <1>2
  <2>3. Cardinality(before(t)) <= Cardinality(before(u)) /\ Cardinality(before(u)) # Cardinality(before(t))
    BY <2>1, <2>2, FS_Subset
  <2> QED BY <1>2, <2>3
<1> HIDE DEF before
<1>4. rank \in [S -> 1 .. Cardinality(S)]
  BY <1>1, <1>2
<1>5. ASSUME NEW t \in S, NEW u \in S, rank[t] = rank[u] PROVE t = u
  <2>1. ~(t < u) /\ ~(u < t)
    BY <1>2, <1>3, <1>5
  <2> QED BY <2>1
<1>6. rank \in Injection(S, 1 .. Cardinality(S))
  BY <1>4, <1>5 DEF Injection, IsInjective
<1>7. IsFiniteSet(1 .. Cardinality(S)) /\ Cardinality(1 .. Cardinality(S)) = Cardinality(S)
  BY <1>1, FS_Interval
<1>8. rank \in Surjection(S, 1 .. Cardinality(S))
  BY <1>6, <1>7, FS_Injection
<1>9. ASSUME NEW i \in 1 .. Cardinality(S) PROVE \E t \in S : Cardinality({u \in S : u < t}) = i - 1
  <2>1. PICK t \in S : rank[t] = i
    BY <1>8 DEF Surjection
  <2>2. Cardinality(before(t)) = i - 1
    BY <2>1, <1>2
  <2> QED BY <2>2 DEF before
<1> QED BY <1>1, <1>9

LEMMA OrderedTyped ==
  ASSUME NEW S \in SUBSET Tasks PROVE Ordered(S) \in Seq(S) /\ \A i \in DOMAIN Ordered(S) : Ordered(S)[i] \in S
<1>1. S \in SUBSET Nat /\ IsFiniteSet(S)
  <2>1. IsFiniteSet(Tasks) /\ Tasks \subseteq Nat
    <3>1. TaskCount \in Nat
      BY PreferencesAssumption
    <3> QED BY <3>1, FS_Interval DEF Tasks
  <2> QED BY <2>1, FS_Subset
<1>2. Ordered(S) \in [1 .. Cardinality(S) -> S]
  BY <1>1, RankedOnce DEF Ordered
<1> QED BY <1>1, <1>2, RankedOnce

\* Only tasks have pairs.
Authored == kept \subseteq Tasks /\ DOMAIN pool \subseteq Tasks

LEMMA AuthoredKept == ASSUME Authored, [Next]_vars PROVE Authored'
<1>1. CASE Prepare
  BY <1>1 DEF Authored, Prepare, Build, Package, Extract, Judge, Apply, Bind
<1>2. ASSUME NEW s \in Segments, NEW kind, NEW every, NEW stop, NEW from, Begin(s, kind, every, stop, from)
      PROVE  Authored'
  BY <1>2 DEF Authored, Begin
<1>3. CASE UNCHANGED preferenceVars
  BY <1>3 DEF Authored, preferenceVars
<1> QED BY <1>1, <1>2, <1>3 DEF Next, Ask, Child, Supervise, vars, Lease, Inspect, Load, Train, SaveBegin,
           SaveEnd, Rotate, Seal, Report, ChildFails, ChildExits, ChildDies, Receive, Joined, GiveUp,
           Kill, Receipt, ParentDies

LEMMA InputTyped == ASSUME Authored, input \in Seq(Tasks), [Next]_vars PROVE input' \in Seq(Tasks)
<1>1. ASSUME NEW overflow, Bind(overflow) PROVE input' \in Seq(Tasks)
  <2>1. applied.training \ overflow \in SUBSET Tasks
    BY <1>1 DEF Bind, Confirmed, Reviewed, Authored
  <2>2. input' = Ordered(applied.training \ overflow)
    BY <1>1 DEF Bind
  <2> HIDE DEF Ordered
  <2> DEFINE S == applied.training \ overflow
  <2>3. Ordered(S) \in Seq(S) /\ Seq(S) \subseteq Seq(Tasks)
    BY <2>1, OrderedTyped
  <2> QED BY <2>2, <2>3
<1>2. CASE UNCHANGED input
  BY <1>2
<1> QED BY <1>1, <1>2 DEF Next, Prepare, Build, Package, Extract, Judge, Apply, Ask, Begin, Child, Supervise,
           vars, preferenceVars, Lease, Inspect, Load, Train, SaveBegin, SaveEnd, Rotate, Seal, Report,
           ChildFails, ChildExits, ChildDies, Receive, Joined, GiveUp, Kill, Receipt, ParentDies

(* What the steps of a child do to its record and to its directory.         *)

Same(s) == \A t \in Segments \ {s} : child'[t] = child[t]
Untouched(s, n) ==
  /\ \A t \in Segments \ {s} : files'[t] = files[t]
  /\ \A m \in AllSteps \ {n} : files'[s][m] = files[s][m]

LEMMA Replaced ==
  ASSUME Typed, NEW s \in Segments, NEW c \in ChildType, child' = [child EXCEPT ![s] = c]
  PROVE  child' \in [Segments -> ChildType] /\ child'[s] = c /\ Same(s)
  BY DEF Typed, Same

LEMMA Going ==
  ASSUME Typed, NEW s \in Segments, NEW at \in ChildPlaces, Goes(s, at)
  PROVE  /\ child' \in [Segments -> ChildType] /\ Same(s)
         /\ child'[s].at = at /\ child'[s].step = child[s].step /\ child'[s].weights = child[s].weights
         /\ child'[s].pipe = child[s].pipe /\ child'[s].exit = child[s].exit
<1>1. child' = [child EXCEPT ![s] = [child[s] EXCEPT !.at = at]] /\ child[s] \in ChildType
  BY DEF Goes, Typed
<1>2. [child[s] EXCEPT !.at = at] \in ChildType
  BY <1>1 DEF ChildType
<1> QED BY <1>1, <1>2, Replaced DEF ChildType

LEMMA Sending ==
  ASSUME Typed, NEW s \in Segments, NEW p \in Pipes, child' = [child EXCEPT ![s].at = "sent", ![s].pipe = p]
  PROVE  child' \in [Segments -> ChildType] /\ Same(s) /\ child'[s].at = "sent" /\ child'[s].pipe = p
<1>1. child' = [child EXCEPT ![s] = [child[s] EXCEPT !.at = "sent", !.pipe = p]] /\ child[s] \in ChildType
  BY DEF Typed
<1>2. [child[s] EXCEPT !.at = "sent", !.pipe = p] \in ChildType
  BY <1>1 DEF ChildType, ChildPlaces
<1> QED BY <1>1, <1>2, Replaced DEF ChildType

LEMMA Leaving ==
  ASSUME Typed, NEW s \in Segments, NEW exit \in {"ok", "bad"}, Gone(s, exit)
  PROVE  /\ child' \in [Segments -> ChildType] /\ Same(s)
         /\ child'[s].at = "gone" /\ child'[s].pipe = child[s].pipe /\ child'[s].exit = exit
<1> DEFINE c == [NoChild EXCEPT !.at = "gone", !.exit = exit, !.pipe = child[s].pipe]
<1>1. child' = [child EXCEPT ![s] = c]
  BY DEF Gone
<1>2. NoChild \in ChildType /\ child[s].pipe \in Pipes
  BY DEF Typed, ChildType, NoChild, ChildPlaces, Pipes
<1>3. c \in ChildType /\ c.at = "gone" /\ c.pipe = child[s].pipe /\ c.exit = exit
  BY <1>2 DEF ChildType, ChildPlaces
<1> HIDE DEF c
<1> QED BY <1>1, <1>3, Replaced

LEMMA Filing ==
  ASSUME Typed, NEW s \in Segments, NEW n \in AllSteps, NEW f \in FileType, files' = [files EXCEPT ![s][n] = f]
  PROVE  files' \in [Segments -> [AllSteps -> FileType]] /\ files'[s][n] = f /\ Untouched(s, n)
  BY DEF Typed, Untouched

LEMMA Marking ==
  ASSUME Typed, NEW s \in Segments, NEW n \in AllSteps, NEW state \in {"native", "sealed", "torn"},
         files' = [files EXCEPT ![s][n].state = state]
  PROVE  /\ files' \in [Segments -> [AllSteps -> FileType]] /\ Untouched(s, n)
         /\ files'[s][n].state = state /\ files'[s][n].trained = files[s][n].trained
<1>1. files' = [files EXCEPT ![s][n] = [files[s][n] EXCEPT !.state = state]] /\ files[s][n] \in FileType
  BY DEF Typed
<1>2. [files[s][n] EXCEPT !.state = state] \in FileType
  BY <1>1 DEF FileType
<1>3. files'[s][n] = [files[s][n] EXCEPT !.state = state] /\ Untouched(s, n)
  BY <1>1, <1>2, Filing
<1>4. files' \in [Segments -> [AllSteps -> FileType]]
  BY <1>1, <1>2, Filing
<1> QED BY <1>1, <1>3, <1>4 DEF FileType

LEMMA PartTyped ==
  ASSUME NEW q \in Seq(Tasks), NEW i \in Nat, NEW j \in Nat, j <= Len(q)
  PROVE  SubSeq(q, i + 1, j) \in Seq(Tasks)
  OBVIOUS

\* The step of a child that saves is one of its request.
LEMMA AtWork ==
  ASSUME Typed, Requested, Learning, NEW s \in Segments, child[s].at \in {"saving", "writing", "rotating"}
  PROVE  child[s].step \in AllSteps /\ request[s].stop \in AllSteps /\ child[s].step <= request[s].stop
<1>1. child[s].step \in Nat \ {0} /\ child[s].step <= request[s].stop
  BY DEF Typed, ChildType, Learning, LearningAt, Training
<1>2. request[s].stop \in AllSteps
  BY DEF Requested, RequestedAt, NoChild
<1> QED BY <1>1, <1>2, StepsAre

\* An optimizer step: the next pairs are in the weights.
LEMMA Learns ==
  ASSUME Typed, NEW s \in Segments, Train(s)
  PROVE  /\ child' \in [Segments -> ChildType] /\ Same(s)
         /\ child'[s].step = child[s].step + 1 /\ child'[s].pipe = child[s].pipe
         /\ child'[s].at = IF Saves(s, child[s].step + 1) THEN "saving" ELSE "training"
         /\ child'[s].weights = child[s].weights \o
              SubSeq(Order(s), Cursor(s, child[s].step) + 1, Cursor(s, child[s].step + 1))
<1> DEFINE w == SubSeq(Order(s), Cursor(s, child[s].step) + 1, Cursor(s, child[s].step + 1))
           at == IF Saves(s, child[s].step + 1) THEN "saving" ELSE "training"
           v == child[s].weights \o w
           c == [child[s] EXCEPT !.step = child[s].step + 1, !.at = at, !.weights = v]
<1>1. child[s] \in ChildType /\ child[s].step \in Nat /\ child[s].weights \in Seq(Tasks)
  BY DEF Typed, ChildType
<1>2. Order(s) \in Seq(Tasks)
  BY DEF Typed, RequestType, Order
<1>3. w \in Seq(Tasks)
  <2>1. Len(Order(s)) \in Nat /\ child[s].step + 1 \in Nat
    BY <1>1, <1>2
  <2>2. Cursor(s, child[s].step) \in Nat
    BY <1>1, <2>1, CursorIs
  <2>3. Cursor(s, child[s].step + 1) \in Nat /\ Cursor(s, child[s].step + 1) <= Len(Order(s))
    BY <2>1, CursorIs
  <2> QED BY <1>2, <2>2, <2>3, PartTyped
<1>4. at \in ChildPlaces
  BY DEF ChildPlaces, Working
<1>5. child' = [child EXCEPT ![s].step = child[s].step + 1, ![s].at = at, ![s].weights = v]
  <2> DEFINE n == child[s].step + 1
             next == SubSeq(Order(s), Cursor(s, n - 1) + 1, Cursor(s, n))
             to == IF Saves(s, n) THEN "saving" ELSE "training"
  <2>1. child' = [child EXCEPT ![s].step = n, ![s].at = to, ![s].weights = child[s].weights \o next]
    BY Zenon DEF Train
  <2>2. n - 1 = child[s].step
    BY <1>1
  <2>3. next = w /\ to = at
    BY <2>2
  <2> HIDE DEF w, at, next, to
  <2> QED BY <2>1, <2>3
<1>6. v \in Seq(Tasks)
  BY <1>1, <1>3
<1> HIDE DEF w, at, v
<1>7. child' = [child EXCEPT ![s] = c] /\ c \in ChildType
  <2>1. c \in ChildType
    <3>1. ASSUME NEW r \in ChildType, NEW n \in Nat, NEW a \in ChildPlaces, NEW u \in Seq(Tasks)
          PROVE  [r EXCEPT !.step = n, !.at = a, !.weights = u] \in ChildType
      BY DEF ChildType
    <3>2. child[s].step + 1 \in Nat
      BY <1>1
    <3> QED BY <1>1, <1>4, <1>6, <3>1, <3>2
  <2>2. child' = [child EXCEPT ![s] = c]
    BY <1>1, <1>5 DEF Typed, ChildType
  <2> QED BY <2>1, <2>2
<1>8. c.step = child[s].step + 1 /\ c.at = at /\ c.weights = v /\ c.pipe = child[s].pipe
  BY <1>1 DEF ChildType
<1> HIDE DEF c
<1> QED BY <1>7, <1>8, Replaced DEF w, at, v

\* There is something to remove when there is too much.
LEMMA Oldest ==
  ASSUME NEW s, Cardinality(Directories(s)) > Keep
  PROVE  Min(Directories(s)) \in Directories(s) /\ \A m \in Directories(s) : Min(Directories(s)) <= m
<1>1. Directories(s) \in SUBSET Nat
  BY StepsAre DEF Directories
<1>2. Directories(s) # {}
  BY DpoAssumption, FS_EmptySet DEF Keep
<1> QED BY <1>1, <1>2, LeastIsMin

----------------------------------------------------------------------------
(* What each step of a child does.                                         *)

\* Only where it is changes.
Turns(s, at) ==
  /\ Same(s) /\ child'[s].at = at /\ child'[s].step = child[s].step
  /\ child'[s].weights = child[s].weights /\ child'[s].pipe = child[s].pipe
Ends(s, at, pipe) == Same(s) /\ child'[s].at = at /\ child'[s].pipe = pipe

\* Only one directory changes.
Becomes(s, n, state, trained) ==
  Untouched(s, n) /\ files'[s][n].state = state /\ files'[s][n].trained = trained

LEMMA LeaseDoes ==
  ASSUME Typed, NEW s \in Segments, Lease(s)
  PROVE  Turns(s, IF request[s].from = Fresh THEN "training" ELSE "leased")
  BY Going DEF Lease, ChildPlaces, Working, Turns

LEMMA InspectDoes == ASSUME Typed, NEW s \in Segments, Inspect(s) PROVE Turns(s, "inspected")
  BY Going DEF Inspect, ChildPlaces, Working, Turns

LEMMA LoadDoes ==
  ASSUME Typed, Resuming, NEW s \in Segments, Load(s)
  PROVE  LET from == request[s].from
         IN /\ Same(s) /\ child' \in [Segments -> ChildType] /\ child'[s].at = "training"
            /\ child'[s].step = from[2] /\ child'[s].pipe = child[s].pipe
            /\ child'[s].weights = files[from[1]][from[2]].trained
<1> DEFINE f == files[request[s].from[1]][request[s].from[2]]
           c == [child[s] EXCEPT !.at = "training", !.step = request[s].from[2], !.weights = f.trained]
<1>1. request[s].from[2] \in Nat /\ f \in FileType /\ child[s] \in ChildType
  BY StepsAre DEF Load, Resuming, ResumingAt, Typed
<1>2. child' = [child EXCEPT ![s] = c]
  BY DEF Load, Typed
<1> HIDE DEF f
<1>3. c \in ChildType
  BY <1>1 DEF ChildType, ChildPlaces, Working, FileType
<1>4. c.at = "training" /\ c.step = request[s].from[2] /\ c.pipe = child[s].pipe /\ c.weights = f.trained
  BY <1>1 DEF ChildType
<1> HIDE DEF c
<1> QED BY <1>2, <1>3, <1>4, Replaced DEF f

LEMMA SaveBeginDoes ==
  ASSUME Typed, Requested, Learning, NEW s \in Segments, SaveBegin(s)
  PROVE  Turns(s, "writing") /\ Becomes(s, child[s].step, "partial", child[s].weights)
         /\ child' \in [Segments -> ChildType] /\ files' \in [Segments -> [AllSteps -> FileType]]
<1>1. [state |-> "partial", trained |-> child[s].weights] \in FileType
  BY DEF Typed, ChildType, FileType
<1>2. child[s].step \in AllSteps
  BY AtWork DEF SaveBegin
<1>3. Turns(s, "writing") /\ child' \in [Segments -> ChildType]
  BY Going DEF SaveBegin, ChildPlaces, Working, Turns
<1> QED BY <1>1, <1>2, <1>3, Filing DEF SaveBegin, Becomes

LEMMA SaveEndDoes ==
  ASSUME Typed, Requested, Learning, NEW s \in Segments, SaveEnd(s)
  PROVE  Turns(s, "rotating") /\ Becomes(s, child[s].step, "native", files[s][child[s].step].trained)
         /\ child' \in [Segments -> ChildType] /\ files' \in [Segments -> [AllSteps -> FileType]]
<1>1. child[s].step \in AllSteps
  BY AtWork DEF SaveEnd
<1>2. Turns(s, "rotating") /\ child' \in [Segments -> ChildType]
  BY Going DEF SaveEnd, ChildPlaces, Working, Turns
<1> QED BY <1>1, <1>2, Marking DEF SaveEnd, Becomes

LEMMA SealDoes ==
  ASSUME Typed, Requested, Learning, NEW s \in Segments, Seal(s)
  PROVE  Turns(s, IF child[s].step = request[s].stop THEN "reporting" ELSE "training")
         /\ Becomes(s, child[s].step, "sealed", files[s][child[s].step].trained)
         /\ child' \in [Segments -> ChildType] /\ files' \in [Segments -> [AllSteps -> FileType]]
<1>1. child[s].step \in AllSteps
  BY AtWork DEF Seal
<1>2. Turns(s, IF child[s].step = request[s].stop THEN "reporting" ELSE "training")
      /\ child' \in [Segments -> ChildType]
  BY Going DEF Seal, ChildPlaces, Working, Turns
<1> QED BY <1>1, <1>2, Marking DEF Seal, Becomes

LEMMA RotateDoes ==
  ASSUME Typed, NEW s \in Segments, Rotate(s)
  PROVE  LET o == Min(Directories(s))
         IN /\ o \in AllSteps /\ o \in Directories(s) /\ \A m \in Directories(s) : o <= m
            /\ Untouched(s, o) /\ files' \in [Segments -> [AllSteps -> FileType]]
            /\ files[s][o].state = "torn" => files'[s][o] = NoFile
            /\ files[s][o].state # "torn" => files'[s][o].state = "torn"
<1> DEFINE o == Min(Directories(s))
<1>1. o \in Directories(s) /\ \A m \in Directories(s) : o <= m
  BY Oldest DEF Rotate
<1>2. o \in AllSteps
  BY <1>1 DEF Directories
<1> HIDE DEF o
<1>3. files' = [files EXCEPT ![s][o] = IF @.state = "torn" THEN NoFile ELSE [@ EXCEPT !.state = "torn"]]
  BY DEF Rotate, o
<1>4. CASE files[s][o].state = "torn"
  <2>1. NoFile \in FileType
    BY DEF NoFile, FileType
  <2>2. files' = [files EXCEPT ![s][o] = NoFile]
    BY <1>3, <1>4
  <2> QED BY <1>1, <1>2, <1>4, <2>1, <2>2, Filing DEF o
<1>5. CASE files[s][o].state # "torn"
  <2>1. files' = [files EXCEPT ![s][o].state = "torn"]
    BY <1>3, <1>5
  <2> QED BY <1>1, <1>2, <1>5, <2>1, Marking DEF o
<1> QED BY <1>4, <1>5

LEMMA ReportDoes == ASSUME Typed, NEW s \in Segments, Report(s) PROVE Ends(s, "sent", "PASS")
  BY Sending DEF Report, Pipes, Ends

LEMMA FailsDoes == ASSUME Typed, NEW s \in Segments, ChildFails(s) PROVE Ends(s, "sent", "FAIL")
  BY Sending DEF ChildFails, Pipes, Ends

LEMMA ExitsDoes ==
  ASSUME Typed, NEW s \in Segments, ChildExits(s) \/ ChildDies(s) \/ Kill(s)
  PROVE  Ends(s, "gone", child[s].pipe)
<1>1. CASE ChildExits(s)
  BY <1>1, Leaving DEF ChildExits, Ends
<1>2. CASE ChildDies(s)
  BY <1>2, Leaving DEF ChildDies, Ends
<1>3. CASE Kill(s)
  BY <1>3, Leaving DEF Kill, Ends
<1> QED BY <1>1, <1>2, <1>3

LEMMA TypedKept == ASSUME SInv, Authored, [Next]_vars PROVE Typed'
<1> USE DEF Typed, preferenceVars, SInv
<1>1. CASE Prepare /\ UNCHANGED dpoVars
  BY <1>1, InputTyped DEF dpoVars
<1>2. ASSUME NEW t \in Segments, NEW kind \in {"dpo", "dpo_capacity"}, NEW every \in Cadences,
            NEW stop \in AllSteps, NEW from \in Froms, Begin(t, kind, every, stop, from)
     PROVE  Typed'
  <2>1. OrderOf(kind) \in Seq(Tasks)
    BY <1>2, PlanTyped, DpoAssumption DEF Begin, OrderOf
  <2>2. request' \in [Segments -> RequestType]
    BY <1>2, <2>1, DpoAssumption, StepsAre DEF Begin, RequestType, Kinds
  <2>3. child' \in [Segments -> ChildType] /\ parent' \in [Segments -> ParentType]
    BY <1>2 DEF Begin, ChildPlaces, ParentPlaces, ChildType, ParentType
  <2> QED BY <1>2, <2>2, <2>3 DEF Begin
<1>3. ASSUME NEW t \in Segments, Lease(t) PROVE Typed'
  <2>1. child' \in [Segments -> ChildType]
    BY <1>3, Going DEF Lease, ChildPlaces, Working
  <2> QED BY <1>3, <2>1 DEF Lease
<1>4. ASSUME NEW t \in Segments, Inspect(t) PROVE Typed'
  <2>1. child' \in [Segments -> ChildType]
    BY <1>4, Going DEF Inspect, ChildPlaces, Working
  <2> QED BY <1>4, <2>1 DEF Inspect
<1>5. ASSUME NEW t \in Segments, Load(t) PROVE Typed'
  BY <1>5, LoadDoes DEF Load
<1>6. ASSUME NEW t \in Segments, Train(t) PROVE Typed'
  BY <1>6, Learns DEF Train
<1>7. ASSUME NEW t \in Segments, SaveBegin(t) PROVE Typed'
  BY <1>7, SaveBeginDoes DEF SaveBegin
<1>8. ASSUME NEW t \in Segments, SaveEnd(t) PROVE Typed'
  BY <1>8, SaveEndDoes DEF SaveEnd
<1>9. ASSUME NEW t \in Segments, Rotate(t) PROVE Typed'
  BY <1>9, RotateDoes DEF Rotate
<1>10. ASSUME NEW t \in Segments, Seal(t) PROVE Typed'
  BY <1>10, SealDoes DEF Seal
<1>11. ASSUME NEW t \in Segments, Report(t) PROVE Typed'
  <2>1. child' \in [Segments -> ChildType]
    BY <1>11, Sending DEF Report, Pipes
  <2> QED BY <1>11, <2>1 DEF Report
<1>12. ASSUME NEW t \in Segments, ChildFails(t) PROVE Typed'
  <2>1. child' \in [Segments -> ChildType]
    BY <1>12, Sending DEF ChildFails, Pipes
  <2> QED BY <1>12, <2>1 DEF ChildFails
<1>13. ASSUME NEW t \in Segments, ChildExits(t) PROVE Typed'
  <2>1. child' \in [Segments -> ChildType]
    BY <1>13, Leaving DEF ChildExits
  <2> QED BY <1>13, <2>1 DEF ChildExits
<1>14. ASSUME NEW t \in Segments, ChildDies(t) PROVE Typed'
  <2>1. child' \in [Segments -> ChildType]
    BY <1>14, Leaving DEF ChildDies
  <2> QED BY <1>14, <2>1 DEF ChildDies
<1>15. ASSUME NEW t \in Segments, Receive(t) PROVE Typed'
  BY <1>15 DEF Receive, ParentType, ParentPlaces, Over, Pipes, ChildType
<1>16. ASSUME NEW t \in Segments, Joined(t) PROVE Typed'
  BY <1>16 DEF Joined, ParentType, ParentPlaces, Over, Pipes
<1>17. ASSUME NEW t \in Segments, GiveUp(t) PROVE Typed'
  BY <1>17 DEF GiveUp, ParentType, ParentPlaces, Over, Pipes
<1>18. ASSUME NEW t \in Segments, Kill(t) PROVE Typed'
  <2>1. child' \in [Segments -> ChildType]
    BY <1>18, Leaving DEF Kill
  <2> QED BY <1>18, <2>1 DEF Kill
<1>19. ASSUME NEW t \in Segments, Receipt(t) PROVE Typed'
  <2>1. parent' \in [Segments -> ParentType]
    <3>1. Ended("closed") \in ParentType /\ Ended("raised") \in ParentType
      BY DEF Ended, NoParent, ParentType, ParentPlaces, Over
    <3> QED BY <1>19, <3>1 DEF Receipt
  <2>2. parent[t].result \in {"none"} \cup Pipes /\ parent[t].at = "stopping"
    BY <1>19 DEF Receipt, ParentType
  <2>3. summary' \in [Segments -> {"none", "PASS", "FAIL"}]
    BY <1>19, <2>2 DEF Receipt, Reported, ReportedAt
  <2> QED BY <1>19, <2>1, <2>3 DEF Receipt
<1>20. ASSUME NEW t \in Segments, ParentDies(t) PROVE Typed'
  BY <1>20 DEF ParentDies, Ended, NoParent, ParentType, ParentPlaces, Over, Pipes
<1>21. CASE UNCHANGED vars
  BY <1>21 DEF vars, preferenceVars, dpoVars, dpoVars
<1> QED BY <1>1, <1>2, <1>3, <1>4, <1>5, <1>6, <1>7, <1>8, <1>9, <1>10, <1>11, <1>12, <1>13, <1>14,
       <1>15, <1>16, <1>17, <1>18, <1>19, <1>20, <1>21 DEF Next, Ask, Child, Supervise, Froms

----------------------------------------------------------------------------
(* What the steps of a child, and those of a parent, have in common.       *)

ByChild(s) ==
  \/ Lease(s) \/ Inspect(s) \/ Load(s) \/ Train(s) \/ SaveBegin(s) \/ SaveEnd(s) \/ Rotate(s)
  \/ Seal(s) \/ Report(s) \/ ChildFails(s) \/ ChildExits(s) \/ ChildDies(s) \/ Kill(s)
ByParent(s) == Receive(s) \/ Joined(s) \/ GiveUp(s) \/ Receipt(s) \/ ParentDies(s)

\* A child changes its own record, its own directory while it saves, and the
\* lease when it takes it or ends.
Works(s) ==
  /\ stage' = stage /\ input' = input /\ request' = request /\ parent' = parent /\ summary' = summary
  /\ child[s].at \notin {"none", "gone"} /\ child'[s].at # "none" /\ Same(s)
  /\ \A t \in Segments \ {s} : files'[t] = files[t]
  /\ files' = files \/ child[s].at \in {"saving", "writing", "rotating"}
  /\ \/ lease' = lease /\ (child'[s].at \in Working => child[s].at \in Working)
     \/ lease = NoOne /\ lease' = s
     \/ lease' = Released(s) /\ child'[s].at \in {"sent", "gone"}

\* A parent that is at work changes its own record and writes its summary.
Supervises(s) ==
  /\ stage' = stage /\ input' = input /\ request' = request /\ child' = child /\ files' = files /\ lease' = lease
  /\ parent[s].at \in {"poll", "join", "stopping"} /\ parent'[s].at # "none"
  /\ \A t \in Segments \ {s} : parent'[t] = parent[t] /\ summary'[t] = summary[t]

LEMMA ChildWorks == ASSUME SInv, NEW s \in Segments, ByChild(s) PROVE Works(s)
<1> USE DEF Works, SInv, preferenceVars
<1>1. CASE Lease(s)
  BY <1>1, LeaseDoes DEF Lease, Turns, Ends, Becomes, Untouched, Working, Alive, LeaseFree
<1>2. CASE Inspect(s)
  BY <1>2, InspectDoes DEF Inspect, Turns, Ends, Becomes, Untouched, Working, Alive
<1>3. CASE Load(s)
  BY <1>3, LoadDoes DEF Load, Turns, Ends, Becomes, Untouched, Working, Alive
<1>4. CASE Train(s)
  <2>1. Same(s) /\ child'[s].at \in Working
    BY <1>4, Learns DEF Working
  <2> QED BY <1>4, <2>1 DEF Train, Working
<1>5. CASE SaveBegin(s)
  BY <1>5, SaveBeginDoes DEF SaveBegin, Turns, Ends, Becomes, Untouched, Working, Alive
<1>6. CASE SaveEnd(s)
  BY <1>6, SaveEndDoes DEF SaveEnd, Turns, Ends, Becomes, Untouched, Working, Alive
<1>7. CASE Rotate(s)
  <2>1. \A t \in Segments \ {s} : files'[t] = files[t]
    BY <1>7, RotateDoes DEF Untouched
  <2>2. Same(s) /\ child'[s].at = "rotating"
    BY <1>7 DEF Rotate, Same
  <2> QED BY <1>7, <2>1, <2>2 DEF Rotate, Working
<1>8. CASE Seal(s)
  BY <1>8, SealDoes DEF Seal, Turns, Ends, Becomes, Untouched, Working, Alive
<1>9. CASE Report(s)
  BY <1>9, ReportDoes DEF Report, Turns, Ends, Becomes, Untouched, Working, Alive
<1>10. CASE ChildFails(s)
  BY <1>10, FailsDoes DEF ChildFails, Turns, Ends, Becomes, Untouched, Working, Alive
<1>11. CASE ChildExits(s)
  BY <1>11, ExitsDoes DEF ChildExits, Turns, Ends, Becomes, Untouched, Working, Alive
<1>12. CASE ChildDies(s)
  BY <1>12, ExitsDoes DEF ChildDies, Turns, Ends, Becomes, Untouched, Working, Alive
<1>13. CASE Kill(s)
  BY <1>13, ExitsDoes DEF Kill, Turns, Ends, Becomes, Untouched, Working, Alive
<1> QED BY <1>1, <1>2, <1>3, <1>4, <1>5, <1>6, <1>7, <1>8, <1>9, <1>10, <1>11, <1>12, <1>13 DEF ByChild

LEMMA ParentWorks == ASSUME SInv, NEW s \in Segments, ByParent(s) PROVE Supervises(s)
<1> USE DEF Supervises, SInv, Typed, preferenceVars
<1>1. CASE Receive(s)
  BY <1>1 DEF Receive
<1>2. CASE Joined(s)
  BY <1>2 DEF Joined
<1>3. CASE GiveUp(s)
  BY <1>3 DEF GiveUp
<1>4. CASE Receipt(s)
  BY <1>4 DEF Receipt, Ended, NoParent
<1>5. CASE ParentDies(s)
  BY <1>5 DEF ParentDies, Ended, NoParent
<1> QED BY <1>1, <1>2, <1>3, <1>4, <1>5 DEF ByParent

\* While tasks are prepared there is no request, and a new one is the first of
\* its segment.
LEMMA Preparing ==
  ASSUME SInv, Prepare, UNCHANGED dpoVars
  PROVE  \A s \in Segments : request[s] = NoRequest
  BY DEF SInv, Requested, RequestedAt, Prepare

Asks(s) ==
  /\ request[s] = NoRequest /\ request'[s] # NoRequest /\ stage' = "frozen" /\ input' = input
  /\ files' = files /\ summary' = summary /\ lease' = lease
  /\ request'[s].kind \in {"dpo", "dpo_capacity"} /\ request'[s].stop \in AllSteps
  /\ request'[s].kind = "dpo" => request'[s].order = input
  /\ child'[s].at = "starting" /\ child'[s].step = 0 /\ child'[s].weights = <<>> /\ child'[s].pipe = "empty"
  /\ parent'[s].at = "poll"
  /\ \A t \in Segments \ {s} : request'[t] = request[t] /\ child'[t] = child[t] /\ parent'[t] = parent[t]

LEMMA Beginning ==
  ASSUME SInv, NEW s \in Segments, NEW kind \in {"dpo", "dpo_capacity"}, NEW every \in Cadences,
         NEW stop \in AllSteps, NEW from \in Froms, Begin(s, kind, every, stop, from)
  PROVE  Asks(s)
<1>1. child[s] = NoChild
  BY DEF SInv, Requested, RequestedAt, Begin
<1> QED BY <1>1 DEF SInv, Typed, Begin, Asks, NoRequest, NoChild, NoParent, OrderOf

LEMMA FiveKinds ==
  ASSUME SInv, [Next]_vars
  PROVE  \/ Prepare /\ UNCHANGED dpoVars
         \/ \E s \in Segments : Asks(s)
         \/ \E s \in Segments : Works(s) /\ ByChild(s)
         \/ \E s \in Segments : Supervises(s) /\ ByParent(s)
         \/ UNCHANGED vars
<1>1. ASSUME Ask PROVE \E s \in Segments : Asks(s)
  <2>1. PICK s \in Segments, kind \in {"dpo", "dpo_capacity"}, every \in Cadences, stop \in AllSteps, from \in Froms :
          Begin(s, kind, every, stop, from)
    BY <1>1 DEF Ask, Froms
  <2> QED BY <2>1, Beginning
<1>2. ASSUME Child PROVE \E s \in Segments : Works(s) /\ ByChild(s)
  BY <1>2, ChildWorks DEF Child, ByChild
<1>3. ASSUME Supervise
      PROVE  \E s \in Segments : (Works(s) /\ ByChild(s)) \/ (Supervises(s) /\ ByParent(s))
  <2>1. PICK s \in Segments : ByChild(s) \/ ByParent(s)
    BY <1>3 DEF Supervise, ByChild, ByParent
  <2>2. (Works(s) /\ ByChild(s)) \/ (Supervises(s) /\ ByParent(s))
    <3>1. CASE ByChild(s)
      <4>1. Works(s)
        BY <3>1, ChildWorks
      <4> QED BY <3>1, <4>1
    <3>2. CASE ByParent(s)
      BY <3>2, ParentWorks
    <3> QED BY <2>1, <3>1, <3>2
  <2> QED BY <2>2
<1>4. Next \/ UNCHANGED vars
  OBVIOUS
<1> QED BY <1>1, <1>2, <1>3, <1>4 DEF Next

----------------------------------------------------------------------------
(* Every step keeps the rest of the invariant.                             *)

LEMMA RequestedKept == ASSUME SInv, [Next]_vars PROVE Requested'
<1> USE DEF SInv, Requested, RequestedAt
<1>1. CASE Prepare /\ UNCHANGED dpoVars
  BY <1>1, Preparing DEF dpoVars
<1>2. ASSUME NEW t \in Segments, Asks(t) PROVE Requested'
  <2> TAKE s \in Segments
  <2>1. CASE s = t
    BY <1>2, <2>1, StepsAre DEF Asks
  <2>2. CASE s # t
    BY <1>2, <2>2 DEF Asks, Typed, RequestType, NoRequest
  <2> QED BY <2>1, <2>2
<1>3. ASSUME NEW t \in Segments, Works(t) PROVE Requested'
  <2> TAKE s \in Segments
  <2>1. CASE s = t
    BY <1>3, <2>1 DEF Works, NoChild
  <2>2. CASE s # t
    BY <1>3, <2>2 DEF Works, Same
  <2> QED BY <2>1, <2>2
<1>4. ASSUME NEW t \in Segments, Supervises(t) PROVE Requested'
  <2> TAKE s \in Segments
  <2>1. CASE s = t
    BY <1>4, <2>1 DEF Supervises, NoParent
  <2>2. CASE s # t
    BY <1>4, <2>2 DEF Supervises
  <2> QED BY <2>1, <2>2
<1>5. CASE UNCHANGED vars
  BY <1>5 DEF vars, preferenceVars, dpoVars
<1> QED BY <1>1, <1>2, <1>3, <1>4, <1>5, FiveKinds

LEMMA LeasedKept == ASSUME SInv, [Next]_vars PROVE Leased'
<1> USE DEF SInv, Leased, LeasedAt
<1>1. CASE Prepare /\ UNCHANGED dpoVars
  BY <1>1 DEF dpoVars
<1>2. ASSUME NEW t \in Segments, Asks(t) PROVE Leased'
  BY <1>2 DEF Asks, Working
<1>3. ASSUME NEW t \in Segments, Works(t) PROVE Leased'
  <2> TAKE s \in Segments
  <2>1. NoOne \notin Segments
    BY DpoAssumption DEF Segments
  <2> QED BY <1>3, <2>1 DEF Works, Same, Released, Working
<1>4. ASSUME NEW t \in Segments, Supervises(t) PROVE Leased'
  BY <1>4 DEF Supervises
<1>5. CASE UNCHANGED vars
  BY <1>5 DEF vars, dpoVars
<1> QED BY <1>1, <1>2, <1>3, <1>4, <1>5, FiveKinds

\* Whoever saves has the lease: nobody inspects meanwhile.
LEMMA NobodySaves ==
  ASSUME SInv, NEW s \in Segments, NEW t \in Segments, s # t, Works(t), child[s].at \in {"leased", "inspected"}
  PROVE  files' = files
  BY DEF SInv, Leased, LeasedAt, Works, Working

LEMMA ResumingKept == ASSUME SInv, [Next]_vars PROVE Resuming'
<1> USE DEF SInv, Resuming, ResumingAt, Sealed, SameIdentity
<1>1. CASE Prepare /\ UNCHANGED dpoVars
  BY <1>1 DEF dpoVars
<1>2. ASSUME NEW t \in Segments, Asks(t) PROVE Resuming'
  <2> TAKE s \in Segments
  <2>1. CASE s = t
    BY <1>2, <2>1 DEF Asks
  <2>2. CASE s # t
    <3> DEFINE f == request[s].from
    <3>1. request'[s] = request[s] /\ child'[s] = child[s] /\ files' = files
      BY <1>2, <2>2 DEF Asks
    <3>2. child[s].at = "inspected" => f[1] # t
      <4>1. \A n \in AllSteps : files[t][n].state = "none"
        BY <1>2 DEF Asks, Requested, RequestedAt, NoFile
      <4> QED BY <4>1
    <3>3. child[s].at = "inspected" => request'[f[1]] = request[f[1]]
      BY <1>2, <3>2 DEF Asks
    <3> QED BY <3>1, <3>3
  <2> QED BY <2>1, <2>2
<1>3. ASSUME NEW t \in Segments, Works(t), ByChild(t) PROVE Resuming'
  <2>1. CASE Lease(t)
    <3>1. child'[t].at = IF request[t].from = Fresh THEN "training" ELSE "leased"
      BY <2>1, LeaseDoes DEF Turns
    <3>2. request[t].from \in {Fresh} \cup Segments \X AllSteps
      BY DEF Typed, RequestType, Froms
    <3>3. request' = request /\ files' = files /\ Same(t)
      BY <1>3, <2>1 DEF Works, Lease
    <3> QED BY <3>1, <3>2, <3>3 DEF Same
  <2>2. CASE Inspect(t)
    <3>1. child'[t].at = "inspected" /\ child[t].at = "leased" /\ request' = request /\ files' = files /\ Same(t)
      BY <1>3, <2>2, InspectDoes DEF Turns, Works, Inspect
    <3> QED BY <2>2, <3>1 DEF Inspect, Same
  <2>3. ASSUME child'[t].at \notin {"leased", "inspected"} PROVE Resuming'
    <3> TAKE s \in Segments
    <3>1. CASE s = t
      BY <2>3, <3>1
    <3>2. CASE s # t
      <4>1. child'[s] = child[s] /\ request' = request
        BY <1>3, <3>2 DEF Works, Same
      <4>2. child[s].at \in {"leased", "inspected"} => files' = files
        BY <1>3, <3>2, NobodySaves
      <4> QED BY <4>1, <4>2
    <3> QED BY <3>1, <3>2
  <2>4. Lease(t) \/ Inspect(t) \/ child'[t].at \notin {"leased", "inspected"}
    BY <1>3, LoadDoes, Learns, SaveBeginDoes, SaveEndDoes, SealDoes, ReportDoes, FailsDoes, ExitsDoes
       DEF ByChild, Turns, Ends, Rotate
  <2> QED BY <2>1, <2>2, <2>3, <2>4
<1>4. ASSUME NEW t \in Segments, Supervises(t) PROVE Resuming'
  BY <1>4 DEF Supervises
<1>5. CASE UNCHANGED vars
  BY <1>5 DEF vars, dpoVars
<1> QED BY <1>1, <1>2, <1>3, <1>4, <1>5, FiveKinds

\* What is learned depends on the order and on the number of steps.
LEMMA LearnedAt ==
  ASSUME NEW s, NEW t, NEW n, Order(s) = Order(t)
  PROVE  Learned(s, n) = Learned(t, n)
  BY DEF Learned, Cursor

LEMMA NothingLearned == ASSUME NEW s, Order(s) \in Seq(Tasks) PROVE Learned(s, 0) = <<>>
<1>1. Cursor(s, 0) = 0
  <2>1. Len(Order(s)) \in Nat /\ 0 * Batch = 0
    BY DpoAssumption
  <2> QED BY <2>1, CursorIs
<1>2. SubSeq(Order(s), 1, 0) = <<>>
  OBVIOUS
<1> QED BY <1>1, <1>2 DEF Learned

LEMMA LearnedNext ==
  ASSUME NEW s, Order(s) \in Seq(Tasks), NEW n \in Nat
  PROVE  Learned(s, n) \o SubSeq(Order(s), Cursor(s, n) + 1, Cursor(s, n + 1)) = Learned(s, n + 1)
<1>1. Len(Order(s)) \in Nat /\ n + 1 \in Nat
  OBVIOUS
<1>2. Cursor(s, n) \in Nat /\ Cursor(s, n) <= Cursor(s, n + 1)
  BY <1>1, CursorIs
<1>3. Cursor(s, n + 1) \in Nat /\ Cursor(s, n + 1) <= Len(Order(s))
  BY <1>1, CursorIs
<1> QED BY <1>2, <1>3, PrefixGrows DEF Learned

\* The order of a request that stands stays.
LEMMA LearnedKept ==
  ASSUME NEW s, NEW n, request'[s] = request[s]
  PROVE  Learned(s, n)' = Learned(s, n)
  BY DEF Learned, Cursor, Order

LearnsAt(s) == LearningAt(s) /\ Starting(s)

LEMMA LearnsElsewhere ==
  ASSUME NEW s, LearnsAt(s), request'[s] = request[s], child'[s] = child[s], files'[s] = files[s]
  PROVE  LearnsAt(s)'
<1>1. \A n : Learned(s, n)' = Learned(s, n)
  BY DEF Learned, Cursor, Order
<1> QED BY <1>1 DEF LearnsAt, LearningAt, Starting

\* What was written in the directory of a segment.
Written(s) ==
  \A n \in AllSteps : files[s][n].state \notin {"none", "torn"} => files[s][n].trained = Learned(s, n)

LEMMA LearnsHere == ASSUME SInv, NEW t \in Segments, Works(t), ByChild(t) PROVE LearnsAt(t)'
<1> USE DEF Written
<1>1. LearnsAt(t) /\ child[t] \in ChildType /\ files[t] \in [AllSteps -> FileType] /\ Order(t) \in Seq(Tasks)
  BY DEF SInv, Learning, LearnsAt, Typed, RequestType, Order
<1>2. request' = request /\ \A n : Learned(t, n)' = Learned(t, n)
  BY DEF Works, Learned, Cursor, Order
<1>13. Learned(t, child[t].step)' = Learned(t, child'[t].step)
  BY <1>2 DEF Learned, Cursor, Order
<1>3. ASSUME files'[t] = files[t] PROVE Written(t)'
  BY <1>1, <1>2, <1>3 DEF LearnsAt, LearningAt
<1>4. CASE Lease(t)
  <2>1. Turns(t, IF request[t].from = Fresh THEN "training" ELSE "leased") /\ files' = files /\ child[t].at = "starting"
    BY <1>4, LeaseDoes DEF Lease, SInv
  <2>2. child[t].step = 0 /\ child[t].weights = Learned(t, 0)
    BY <1>1, <2>1, NothingLearned DEF LearnsAt, Starting
  <2>3. request[t].stop \in Nat /\ request[t].stop > 0
    BY <2>1, StepsAre DEF SInv, Requested, RequestedAt, NoChild
  <2>4. Written(t)'
    BY <1>3, <2>1
  <2>5. child'[t].at \in {"training", "leased"} /\ child'[t].step = 0 /\ child'[t].weights = Learned(t, 0)'
        /\ child'[t].weights = <<>>
    BY <1>1, <1>2, <2>1, <2>2 DEF Turns, LearnsAt, Starting
  <2> QED BY <1>2, <2>3, <2>4, <2>5 DEF LearnsAt, LearningAt, Starting
<1>5. CASE Inspect(t)
  <2>1. Turns(t, "inspected") /\ files' = files /\ child[t].at = "leased"
    BY <1>5, InspectDoes DEF Inspect, SInv
  <2>2. Written(t)'
    BY <1>3, <2>1
  <2> QED BY <1>1, <2>1, <2>2 DEF LearnsAt, LearningAt, Starting, Turns, Training
<1>6. CASE Load(t)
  <2> DEFINE from == request[t].from
  <2>1. /\ child'[t].at = "training" /\ child'[t].step = from[2]
        /\ child'[t].weights = files[from[1]][from[2]].trained /\ files' = files
    BY <1>6, LoadDoes DEF Load, SInv
  <2>2. /\ from[1] \in Segments /\ from[2] \in AllSteps /\ Sealed(from[1], from[2])
        /\ from[2] < request[t].stop /\ Order(from[1]) = Order(t)
    BY <1>6 DEF Load, SInv, Resuming, ResumingAt, SameIdentity, Order
  <2>3. files[from[1]][from[2]].trained = Learned(from[1], from[2])
    BY <2>2 DEF SInv, Learning, LearningAt, Sealed
  <2>4. Learned(from[1], from[2]) = Learned(t, from[2])
    BY <2>2, LearnedAt
  <2>5. Written(t)'
    BY <1>3, <2>1
  <2>6. from[2] \in Nat /\ request[t].stop \in Nat
    BY <2>2, StepsAre DEF SInv, Typed, RequestType
  <2> HIDE DEF from
  <2>7. child'[t].weights = Learned(t, child'[t].step)
    BY <1>2, <2>1, <2>3, <2>4
  <2> QED BY <1>13, <1>2, <2>1, <2>2, <2>5, <2>6, <2>7 DEF LearnsAt, LearningAt, Starting
<1>7. CASE Train(t)
  <2>1. /\ child'[t].step = child[t].step + 1 /\ files' = files
        /\ child'[t].at = IF Saves(t, child[t].step + 1) THEN "saving" ELSE "training"
        /\ child'[t].weights = child[t].weights \o
             SubSeq(Order(t), Cursor(t, child[t].step) + 1, Cursor(t, child[t].step + 1))
    BY <1>7, Learns DEF Train, SInv
  <2>2. child[t].step \in Nat /\ child[t].step < request[t].stop /\ child[t].weights = Learned(t, child[t].step)
    BY <1>1, <1>7 DEF Train, ChildType, LearnsAt, LearningAt, Training
  <2>3. child'[t].weights = Learned(t, child'[t].step)
    BY <1>1, <2>1, <2>2, LearnedNext
  <2>4. Written(t)'
    BY <1>3, <2>1
  <2>5. request[t].stop \in Nat
    BY DEF SInv, Typed, RequestType
  <2>6. child'[t].step <= request'[t].stop /\ child'[t].step > 0
    BY <1>2, <2>1, <2>2, <2>5
  <2>7. child'[t].at = "training" => child'[t].step < request'[t].stop
    BY <1>2, <2>1, <2>2, <2>5 DEF Saves
  <2>8. child'[t].at \in {"training", "saving"}
    BY <2>1
  <2> QED BY <1>13, <2>3, <2>4, <2>6, <2>7, <2>8 DEF LearnsAt, LearningAt, Starting
<1>8. CASE SaveBegin(t)
  <2>1. Turns(t, "writing") /\ Becomes(t, child[t].step, "partial", child[t].weights) /\ child[t].at = "saving"
    BY <1>8, SaveBeginDoes DEF SaveBegin, SInv
  <2>2. child[t].weights = Learned(t, child[t].step)
    BY <1>1, <2>1 DEF LearnsAt, LearningAt, Training
  <2>3. Written(t)'
    BY <1>1, <1>2, <2>1, <2>2 DEF Becomes, Untouched, LearnsAt, LearningAt
  <2> QED BY <1>1, <1>2, <2>1, <2>3 DEF LearnsAt, LearningAt, Starting, Turns, Training
<1>9. CASE SaveEnd(t)
  <2>1. /\ Turns(t, "rotating") /\ child[t].at = "writing" /\ child[t].step \in AllSteps
        /\ Becomes(t, child[t].step, "native", files[t][child[t].step].trained)
    BY <1>9, SaveEndDoes, AtWork DEF SaveEnd, SInv
  <2>2. files[t][child[t].step].trained = Learned(t, child[t].step)
    BY <1>1, <2>1 DEF LearnsAt, LearningAt, SInv, Standing, StandingAt
  <2>3. Written(t)'
    BY <1>1, <1>2, <2>1, <2>2 DEF Becomes, Untouched, LearnsAt, LearningAt
  <2> QED BY <1>1, <1>2, <2>1, <2>3 DEF LearnsAt, LearningAt, Starting, Turns, Training
<1>10. CASE Rotate(t)
  <2> DEFINE o == Min(Directories(t))
  <2>1. o \in AllSteps /\ Untouched(t, o) /\ files'[t][o].state \in {"none", "torn"} /\ child' = child
    BY <1>10, RotateDoes DEF Rotate, SInv, NoFile
  <2> HIDE DEF o
  <2>2. Written(t)'
    BY <1>1, <1>2, <2>1 DEF Untouched, LearnsAt, LearningAt
  <2> QED BY <1>1, <1>2, <2>1, <2>2 DEF LearnsAt, LearningAt, Starting
<1>11. CASE Seal(t)
  <2>1. /\ Turns(t, IF child[t].step = request[t].stop THEN "reporting" ELSE "training")
        /\ child[t].at = "rotating" /\ child[t].step \in AllSteps
        /\ Becomes(t, child[t].step, "sealed", files[t][child[t].step].trained)
    BY <1>11, SealDoes, AtWork DEF Seal, SInv
  <2>2. files[t][child[t].step].trained = Learned(t, child[t].step)
    BY <1>1, <2>1 DEF LearnsAt, LearningAt, SInv, Standing, StandingAt
  <2>3. Written(t)'
    BY <1>1, <1>2, <2>1, <2>2 DEF Becomes, Untouched, LearnsAt, LearningAt
  <2>4. /\ child[t].weights = Learned(t, child[t].step) /\ child[t].step <= request[t].stop
        /\ child[t].step \in Nat /\ request[t].stop \in Nat
    BY <1>1, <2>1 DEF LearnsAt, LearningAt, Training, ChildType, SInv, Typed, RequestType
  <2>5. /\ child'[t].weights = Learned(t, child'[t].step) /\ child'[t].step <= request'[t].stop
        /\ child'[t].at \in {"reporting", "training"}
        /\ child'[t].at = "training" => child'[t].step < request'[t].stop
    BY <1>2, <2>1, <2>4 DEF Turns
  <2> QED BY <1>13, <2>3, <2>5 DEF LearnsAt, LearningAt, Starting
<1>12. CASE Report(t) \/ ChildFails(t) \/ ChildExits(t) \/ ChildDies(t) \/ Kill(t)
  <2>1. files' = files
    BY <1>12 DEF Report, ChildFails, ChildExits, ChildDies, Kill
  <2>2. child'[t].at \in {"sent", "gone"}
    BY <1>12, ReportDoes, FailsDoes, ExitsDoes DEF SInv, Ends
  <2>3. Written(t)'
    BY <1>3, <2>1
  <2> QED BY <2>2, <2>3 DEF LearnsAt, LearningAt, Starting, Training
<1> QED BY <1>4, <1>5, <1>6, <1>7, <1>8, <1>9, <1>10, <1>11, <1>12 DEF ByChild

LEMMA LearningKept == ASSUME SInv, [Next]_vars PROVE Learning'
<1>1. SUFFICES ASSUME NEW s \in Segments PROVE LearnsAt(s)'
  BY DEF Learning, LearnsAt
<1>2. LearnsAt(s)
  BY DEF SInv, Learning, LearnsAt
<1>3. CASE UNCHANGED dpoVars
  BY <1>2, <1>3, LearnsElsewhere DEF dpoVars
<1>4. ASSUME NEW t \in Segments, Asks(t) PROVE LearnsAt(s)'
  <2>1. CASE s = t
    <3>1. \A n \in AllSteps : files'[s][n].state = "none"
      BY <1>4, <2>1 DEF Asks, SInv, Requested, RequestedAt, NoFile
    <3>2. child'[s].at = "starting" /\ child'[s].step = 0 /\ child'[s].weights = <<>>
      BY <1>4, <2>1 DEF Asks
    <3> QED BY <3>1, <3>2 DEF LearnsAt, LearningAt, Starting, Training
  <2>2. CASE s # t
    BY <1>2, <1>4, <2>2, LearnsElsewhere DEF Asks
  <2> QED BY <2>1, <2>2
<1>5. ASSUME NEW t \in Segments, Works(t), ByChild(t) PROVE LearnsAt(s)'
  <2>1. CASE s = t
    BY <1>5, <2>1, LearnsHere
  <2>2. CASE s # t
    BY <1>2, <1>5, <2>2, LearnsElsewhere DEF Works, Same
  <2> QED BY <2>1, <2>2
<1>6. ASSUME NEW t \in Segments, Supervises(t) PROVE LearnsAt(s)'
  BY <1>2, <1>6, LearnsElsewhere DEF Supervises
<1> QED BY <1>3, <1>4, <1>5, <1>6, FiveKinds DEF vars, dpoVars

StandsAt(s) == \A n \in AllSteps : StandingAt(s, n)

LEMMA StandsElsewhere ==
  ASSUME NEW s, StandsAt(s), child'[s] = child[s], files'[s] = files[s]
  PROVE  StandsAt(s)'
  BY DEF StandsAt, StandingAt, Directories

\* Too many directories are more than the one being written.
LEMMA AnotherDirectory ==
  ASSUME NEW s, NEW n, Cardinality(Directories(s)) > Keep
  PROVE  \E m \in Directories(s) : m # n
<1>1. SUFFICES ASSUME Directories(s) \subseteq {n} PROVE FALSE
  OBVIOUS
<1>2. Directories(s) = {} \/ Directories(s) = {n}
  BY <1>1
<1>3. Cardinality({}) = 0 /\ Cardinality({n}) = 1
  BY FS_EmptySet, FS_Singleton
<1> QED BY <1>2, <1>3, DpoAssumption DEF Keep

LEMMA ThirdDirectory ==
  ASSUME SaveLimit >= 2, NEW s, NEW a, NEW b, Cardinality(Directories(s)) > Keep
  PROVE  \E m \in Directories(s) : m # a /\ m # b
<1>1. SUFFICES ASSUME Directories(s) \subseteq {a, b} PROVE FALSE
  OBVIOUS
<1>2. IsFiniteSet({a}) /\ Cardinality({a}) = 1 /\ {a} \cup {b} = {a, b}
  BY FS_Singleton
<1>3. IsFiniteSet({a, b}) /\ Cardinality({a, b}) <= 2
  <2>1. /\ IsFiniteSet({a} \cup {b})
        /\ Cardinality({a} \cup {b}) = IF b \in {a} THEN Cardinality({a}) ELSE Cardinality({a}) + 1
    BY <1>2, FS_AddElement
  <2> QED BY <1>2, <2>1
<1>4. Cardinality(Directories(s)) <= Cardinality({a, b}) /\ IsFiniteSet(Directories(s))
  BY <1>1, <1>3, FS_Subset
<1>5. Cardinality(Directories(s)) \in Nat /\ Cardinality({a, b}) \in Nat /\ SaveLimit \in Nat
  BY <1>3, <1>4, FS_CardinalityType, DpoAssumption
<1> QED BY <1>3, <1>4, <1>5 DEF Keep

LEMMA StandsHere == ASSUME SInv, NEW t \in Segments, Works(t), ByChild(t) PROVE StandsAt(t)'
<1>1. StandsAt(t) /\ child[t].step \in Nat /\ \A n \in AllSteps : n \in Nat /\ n > 0
  BY StepsAre DEF SInv, Standing, StandsAt, Typed, ChildType
<1> USE DEF StandsAt, StandingAt
<1>2. CASE Lease(t)
  <2>1. Turns(t, IF request[t].from = Fresh THEN "training" ELSE "leased") /\ files' = files /\ child[t].at = "starting"
    BY <1>2, LeaseDoes DEF Lease, SInv
  <2>2. child'[t].at \in {"training", "leased"} /\ \A n \in AllSteps : files'[t][n].state = "none"
    BY <1>1, <2>1 DEF Turns
  <2> QED BY <2>2
<1>3. CASE Inspect(t)
  <2>1. Turns(t, "inspected") /\ files' = files /\ child[t].at = "leased"
    BY <1>3, InspectDoes DEF Inspect, SInv
  <2>2. child'[t].at = "inspected" /\ \A n \in AllSteps : files'[t][n].state = "none"
    BY <1>1, <2>1 DEF Turns
  <2> QED BY <2>2
<1>4. CASE Load(t)
  <2>1. child'[t].at = "training" /\ \A n \in AllSteps : files'[t][n].state = "none"
    BY <1>1, <1>4, LoadDoes DEF Load, SInv
  <2> QED BY <2>1
<1>5. CASE Train(t)
  <2>1. /\ child'[t].step = child[t].step + 1 /\ files' = files /\ child[t].at = "training"
        /\ child'[t].at \in {"saving", "training"}
    BY <1>5, Learns DEF Train, SInv
  <2>2. \A n \in AllSteps :
          files'[t][n].state \in {"none", "sealed"} /\ (n > child[t].step => files'[t][n].state = "none")
    BY <1>1, <2>1 DEF Training
  <2>3. \A n \in AllSteps : n = child'[t].step \/ n > child'[t].step => n > child[t].step
    BY <1>1, <2>1
  <2> QED BY <2>1, <2>2, <2>3
<1>6. CASE SaveBegin(t)
  <2>1. Turns(t, "writing") /\ Becomes(t, child[t].step, "partial", child[t].weights) /\ child[t].at = "saving"
    BY <1>6, SaveBeginDoes DEF SaveBegin, SInv
  <2>2. child'[t].at = "writing" /\ child'[t].step = child[t].step /\ files'[t][child[t].step].state = "partial"
    BY <2>1 DEF Turns, Becomes
  <2>3. \A n \in AllSteps : n # child[t].step =>
          files'[t][n].state \in {"none", "sealed"} /\ (n > child[t].step => files'[t][n].state = "none")
    BY <1>1, <2>1 DEF Becomes, Untouched, Training
  <2>4. \A n \in AllSteps : n > child[t].step => n # child[t].step
    BY <1>1
  <2> QED BY <2>2, <2>3, <2>4
<1>7. CASE SaveEnd(t)
  <2>1. /\ Turns(t, "rotating") /\ child[t].at = "writing"
        /\ Becomes(t, child[t].step, "native", files[t][child[t].step].trained)
    BY <1>7, SaveEndDoes DEF SaveEnd, SInv
  <2>2. child'[t].at = "rotating" /\ child'[t].step = child[t].step /\ files'[t][child[t].step].state = "native"
    BY <2>1 DEF Turns, Becomes
  <2>3. \A n \in AllSteps : n # child[t].step =>
          files'[t][n].state \in {"none", "sealed"} /\ (n > child[t].step => files'[t][n].state = "none")
    BY <1>1, <2>1 DEF Becomes, Untouched, Training
  <2>4. \A n \in AllSteps : n > child[t].step => n # child[t].step
    BY <1>1
  <2> QED BY <2>2, <2>3, <2>4
<1>8. CASE Rotate(t)
  <2> DEFINE o == Min(Directories(t))
             step == child[t].step
  <2>1. /\ child' = child /\ child[t].at = "rotating" /\ Cardinality(Directories(t)) > Keep
        /\ o \in AllSteps /\ o \in Directories(t) /\ (\A m \in Directories(t) : o <= m) /\ Untouched(t, o)
        /\ files[t][o].state = "torn" => files'[t][o] = NoFile
        /\ files[t][o].state # "torn" => files'[t][o].state = "torn"
    BY <1>8, RotateDoes DEF Rotate, SInv
  <2> HIDE DEF o
  <2>2. o < step
    <3>1. PICK m \in Directories(t) : m # step
      BY <2>1, AnotherDirectory
    <3>2. m \in AllSteps /\ files[t][m].state # "none"
      BY <3>1 DEF Directories
    <3>3. ~(m > step)
      BY <1>1, <2>1, <3>2 DEF Training
    <3>4. m \in Nat /\ o \in Nat /\ o <= m
      BY <1>1, <2>1, <3>2
    <3> QED BY <1>1, <3>1, <3>3, <3>4
  <2>3. ASSUME NEW n \in AllSteps, files[t][n].state = "torn" PROVE n = o
    <3>1. n <= o /\ o <= n /\ n \in Nat /\ o \in Nat
      BY <1>1, <2>1, <2>3 DEF Directories
    <3> QED BY <3>1
  <2>4. \A n \in AllSteps : n # o => files'[t][n] = files[t][n]
    BY <2>1 DEF Untouched
  <2>5. o # step /\ ~(o > step) /\ o \in Nat
    BY <1>1, <2>1, <2>2
  <2>6. CASE files[t][o].state = "torn"
    <3>1. \A n \in AllSteps : files'[t][n].state # "torn"
      BY <2>1, <2>3, <2>4, <2>6 DEF NoFile
    <3> QED BY <1>1, <2>1, <2>4, <2>5, <2>6, <3>1 DEF NoFile, Training
  <2>7. CASE files[t][o].state # "torn"
    <3>1. files'[t][o].state = "torn" /\ \A n \in AllSteps : n # o => files'[t][n].state # "torn"
      BY <2>1, <2>3, <2>4, <2>7
    <3>2. Directories(t)' = Directories(t)
      <4>1. ASSUME NEW n \in AllSteps PROVE files'[t][n].state # "none" <=> files[t][n].state # "none"
        BY <2>1, <2>4, <3>1 DEF Directories
      <4> QED BY <4>1 DEF Directories
    <3>3. Keep' = Keep
      BY DEF Keep
    <3>4. (\A m \in Directories(t)' : o <= m) /\ Cardinality(Directories(t)') > Keep'
      BY <2>1, <3>2, <3>3
    <3> HIDE DEF StandsAt, StandingAt
    <3>5. \A n \in AllSteps : files'[t][n].state = "torn" =>
            (\A m \in Directories(t)' : n <= m) /\ Cardinality(Directories(t)') > Keep'
      BY <3>1, <3>4
    <3>6. \A n \in AllSteps : n > step => files'[t][n].state = "none"
      BY <1>1, <2>1, <2>4, <2>5 DEF StandsAt, StandingAt, Training
    <3>7. \A n \in AllSteps : n = step <=> files'[t][n].state = "native"
      BY <1>1, <2>1, <2>4, <2>5, <3>1 DEF StandsAt, StandingAt
    <3>8. \A n \in AllSteps : n < step => files'[t][n].state \in {"none", "sealed", "torn"}
      BY <1>1, <2>1, <2>4, <3>1 DEF StandsAt, StandingAt
    <3>9. child'[t].at = "rotating" /\ child'[t].step = step
      BY <2>1
    <3> QED BY <3>5, <3>6, <3>7, <3>8, <3>9 DEF StandsAt, StandingAt
  <2> QED BY <2>6, <2>7
<1>9. CASE Seal(t)
  <2>1. /\ Turns(t, IF child[t].step = request[t].stop THEN "reporting" ELSE "training")
        /\ child[t].at = "rotating" /\ Cardinality(Directories(t)) <= Keep
        /\ Becomes(t, child[t].step, "sealed", files[t][child[t].step].trained)
    BY <1>9, SealDoes DEF Seal, SInv
  <2>2. child'[t].at \in {"reporting", "training"} /\ child'[t].step = child[t].step
        /\ files'[t][child[t].step].state = "sealed"
    BY <2>1 DEF Turns, Becomes
  <2>3. ~(Cardinality(Directories(t)) > Keep)
    <3>1. Cardinality(Directories(t)) \in Nat /\ Keep \in Nat
      <4>1. Directories(t) \subseteq AllSteps
        BY DEF Directories
      <4>2. IsFiniteSet(AllSteps)
        BY StepsFinite
      <4> QED BY <4>1, <4>2, FS_Subset, FS_CardinalityType, DpoAssumption DEF Keep
    <3> QED BY <2>1, <3>1
  <2>4. \A n \in AllSteps : n # child[t].step =>
          files'[t][n].state \in {"none", "sealed"} /\ (n > child[t].step => files'[t][n].state = "none")
    <3> TAKE n \in AllSteps
    <3>1. n < child[t].step \/ n = child[t].step \/ n > child[t].step
      BY <1>1
    <3> QED BY <1>1, <2>1, <2>3, <3>1 DEF Becomes, Untouched, Training
  <2>5. \A n \in AllSteps : n > child[t].step => n # child[t].step
    BY <1>1
  <2> QED BY <2>2, <2>4, <2>5
<1>10. CASE Report(t) \/ ChildFails(t) \/ ChildExits(t) \/ ChildDies(t) \/ Kill(t)
  <2>1. child'[t].at \in {"sent", "gone"}
    BY <1>10, ReportDoes, FailsDoes, ExitsDoes DEF SInv, Ends
  <2> QED BY <2>1 DEF Training
<1> QED BY <1>2, <1>3, <1>4, <1>5, <1>6, <1>7, <1>8, <1>9, <1>10 DEF ByChild

LEMMA StandingKept == ASSUME SInv, [Next]_vars PROVE Standing'
<1>1. SUFFICES ASSUME NEW s \in Segments PROVE StandsAt(s)'
  BY DEF Standing, StandsAt
<1>2. StandsAt(s)
  BY DEF SInv, Standing, StandsAt
<1>3. CASE UNCHANGED dpoVars
  BY <1>2, <1>3, StandsElsewhere DEF dpoVars
<1>4. ASSUME NEW t \in Segments, Asks(t) PROVE StandsAt(s)'
  <2>1. CASE s = t
    <3>1. child'[s].at = "starting" /\ \A n \in AllSteps : files'[s][n].state = "none"
      BY <1>4, <2>1 DEF Asks, SInv, Requested, RequestedAt, NoFile
    <3> QED BY <3>1 DEF StandsAt, StandingAt, Training
  <2>2. CASE s # t
    BY <1>2, <1>4, <2>2, StandsElsewhere DEF Asks
  <2> QED BY <2>1, <2>2
<1>5. ASSUME NEW t \in Segments, Works(t), ByChild(t) PROVE StandsAt(s)'
  <2>1. CASE s = t
    BY <1>5, <2>1, StandsHere
  <2>2. CASE s # t
    BY <1>2, <1>5, <2>2, StandsElsewhere DEF Works, Same
  <2> QED BY <2>1, <2>2
<1>6. ASSUME NEW t \in Segments, Supervises(t) PROVE StandsAt(s)'
  BY <1>2, <1>6, StandsElsewhere DEF Supervises
<1> QED BY <1>3, <1>4, <1>5, <1>6, FiveKinds DEF vars, dpoVars

LEMMA ReportedElsewhere ==
  ASSUME NEW s, ReportedAt(s), request'[s] = request[s], child'[s] = child[s], files'[s] = files[s],
         parent'[s] = parent[s], summary'[s] = summary[s]
  PROVE  ReportedAt(s)'
  BY DEF ReportedAt, Sealed

LEMMA ReportsHere == ASSUME SInv, NEW t \in Segments, Works(t), ByChild(t) PROVE ReportedAt(t)'
<1>1. ReportedAt(t) /\ request' = request /\ parent' = parent /\ summary' = summary
      /\ child[t].at \notin {"none", "gone"}
  BY DEF SInv, Reported, Works
<1>2. CASE Report(t) \/ ChildFails(t) \/ ChildExits(t) \/ ChildDies(t) \/ Kill(t)
  <2>1. files' = files
    BY <1>2 DEF Report, ChildFails, ChildExits, ChildDies, Kill
  <2>2. CASE Report(t)
    <3>1. child[t].at = "reporting" /\ child'[t].at = "sent" /\ child'[t].pipe = "PASS"
      BY <2>2, ReportDoes DEF SInv, Ends, Report
    <3> QED BY <1>1, <2>1, <3>1 DEF ReportedAt, Sealed
  <2>3. CASE ChildFails(t)
    <3>1. child[t].at # "sent" /\ child'[t].at = "sent" /\ child'[t].pipe = "FAIL"
      BY <2>3, FailsDoes DEF SInv, Ends, ChildFails
    <3> QED BY <1>1, <2>1, <3>1 DEF ReportedAt, Sealed
  <2>4. CASE ChildExits(t) \/ ChildDies(t) \/ Kill(t)
    <3>1. child'[t].at = "gone" /\ child'[t].pipe = child[t].pipe
      BY <2>4, ExitsDoes DEF SInv, Ends
    <3> QED BY <1>1, <2>1, <3>1 DEF ReportedAt, Sealed
  <2> QED BY <1>2, <2>2, <2>3, <2>4
<1>3. CASE Seal(t)
  <2>1. /\ Turns(t, IF child[t].step = request[t].stop THEN "reporting" ELSE "training")
        /\ child[t].at = "rotating"
        /\ Becomes(t, child[t].step, "sealed", files[t][child[t].step].trained)
    BY <1>3, SealDoes DEF Seal, SInv
  <2>2. /\ child'[t].pipe = child[t].pipe /\ child'[t].at \in {"reporting", "training"}
        /\ child'[t].at = "reporting" => files'[t][request'[t].stop].state = "sealed"
    BY <1>1, <2>1 DEF Turns, Becomes
  <2>3. /\ child[t].pipe = "empty" /\ summary[t] = "none"
        /\ ~(parent[t].at \in {"join", "stopping"} /\ parent[t].result = "PASS")
        /\ parent[t].at = "stopping" => parent[t].result \in {"PASS", "FAIL"}
    BY <1>1, <2>1 DEF ReportedAt
  <2> QED BY <1>1, <2>2, <2>3 DEF ReportedAt, Sealed
<1>4. CASE Lease(t) \/ Inspect(t) \/ Load(t) \/ Train(t) \/ SaveBegin(t) \/ SaveEnd(t) \/ Rotate(t)
  <2>1. child[t].at \notin {"sent", "gone"} /\ child'[t].at # "reporting" /\ child'[t].pipe = child[t].pipe
    BY <1>4, LeaseDoes, InspectDoes, LoadDoes, Learns, SaveBeginDoes, SaveEndDoes
       DEF SInv, Turns, Rotate, Lease, Inspect, Load, Train, SaveBegin, SaveEnd
  <2> QED BY <1>1, <2>1 DEF ReportedAt, Sealed
<1> QED BY <1>2, <1>3, <1>4 DEF ByChild

LEMMA ReceivedHere == ASSUME SInv, NEW t \in Segments, Supervises(t), ByParent(t) PROVE ReportedAt(t)'
<1>1. /\ ReportedAt(t) /\ request' = request /\ child' = child /\ files' = files
      /\ parent[t].at \in {"poll", "join", "stopping"} /\ child[t].at # "none" /\ summary[t] = "none"
  BY DEF SInv, Requested, RequestedAt, NoParent, Reported, ReportedAt, Supervises
<1>2. parent \in [Segments -> ParentType] /\ summary \in [Segments -> {"none", "PASS", "FAIL"}]
  BY DEF SInv, Typed
<1>3. CASE Receive(t)
  <2>1. parent'[t].at = "join" /\ parent'[t].result = child[t].pipe /\ summary' = summary
    BY <1>2, <1>3 DEF Receive
  <2> QED BY <1>1, <2>1 DEF ReportedAt, Sealed
<1>4. CASE Joined(t)
  <2>1. /\ parent'[t].at = "stopping" /\ parent'[t].result = (IF Passed(t) THEN "PASS" ELSE "FAIL")
        /\ summary' = summary /\ child[t].at = "gone" /\ parent[t].at = "join"
    BY <1>2, <1>4 DEF Joined
  <2> QED BY <1>1, <2>1 DEF ReportedAt, Sealed, Passed
<1>5. CASE GiveUp(t)
  <2>1. parent'[t].at = "stopping" /\ parent'[t].result = "FAIL" /\ summary' = summary
    BY <1>2, <1>5 DEF GiveUp
  <2> QED BY <1>1, <2>1 DEF ReportedAt, Sealed
<1>6. CASE Receipt(t)
  <2>1. CASE Reaped(t)
    <3>1. PICK receipt \in {parent[t].result, "FAIL"} : summary' = [summary EXCEPT ![t] = receipt]
      BY <1>6, <2>1 DEF Receipt
    <3>2. /\ summary'[t] \in {parent[t].result, "FAIL"} /\ parent'[t].at = "closed"
          /\ parent[t].at = "stopping" /\ child[t].at = "gone"
      BY <1>1, <1>2, <1>6, <2>1, <3>1 DEF Receipt, Ended, NoParent, Reaped, Alive
    <3> QED BY <1>1, <3>2 DEF ReportedAt, Sealed
  <2>2. CASE ~Reaped(t)
    <3>1. parent'[t].at = "raised" /\ summary' = summary
      BY <1>2, <1>6, <2>2 DEF Receipt, Ended, NoParent
    <3> QED BY <1>1, <3>1 DEF ReportedAt, Sealed
  <2> QED BY <2>1, <2>2
<1>7. CASE ParentDies(t)
  <2>1. parent'[t].at = "dead" /\ summary' = summary
    BY <1>2, <1>7 DEF ParentDies, Ended, NoParent
  <2> QED BY <1>1, <2>1 DEF ReportedAt, Sealed
<1> QED BY <1>3, <1>4, <1>5, <1>6, <1>7 DEF ByParent

LEMMA ReportedKept == ASSUME SInv, [Next]_vars PROVE Reported'
<1>1. SUFFICES ASSUME NEW s \in Segments PROVE ReportedAt(s)'
  BY DEF Reported
<1>2. ReportedAt(s)
  BY DEF SInv, Reported
<1>3. CASE UNCHANGED dpoVars
  BY <1>2, <1>3, ReportedElsewhere DEF dpoVars
<1>4. ASSUME NEW t \in Segments, Asks(t) PROVE ReportedAt(s)'
  <2>1. CASE s = t
    <3>1. child'[s].at = "starting" /\ child'[s].pipe = "empty" /\ parent'[s].at = "poll" /\ summary'[s] = "none"
      BY <1>4, <2>1 DEF Asks, SInv, Requested, RequestedAt
    <3> QED BY <3>1 DEF ReportedAt
  <2>2. CASE s # t
    BY <1>2, <1>4, <2>2, ReportedElsewhere DEF Asks
  <2> QED BY <2>1, <2>2
<1>5. ASSUME NEW t \in Segments, Works(t), ByChild(t) PROVE ReportedAt(s)'
  <2>1. CASE s = t
    BY <1>5, <2>1, ReportsHere
  <2>2. CASE s # t
    BY <1>2, <1>5, <2>2, ReportedElsewhere DEF Works, Same
  <2> QED BY <2>1, <2>2
<1>6. ASSUME NEW t \in Segments, Supervises(t), ByParent(t) PROVE ReportedAt(s)'
  <2>1. CASE s = t
    BY <1>6, <2>1, ReceivedHere
  <2>2. CASE s # t
    BY <1>2, <1>6, <2>2, ReportedElsewhere DEF Supervises
  <2> QED BY <2>1, <2>2
<1> QED BY <1>3, <1>4, <1>5, <1>6, FiveKinds DEF vars, dpoVars

----------------------------------------------------------------------------
(* The theorems.                                                           *)

LEMMA InitHolds == ASSUME Init PROVE SInv /\ Authored
<1> USE DEF Init, PreferencesInit, NoRequest, NoChild, NoParent, NoFile
<1>1. Typed
  BY DEF Typed, RequestType, ChildType, FileType, ParentType, Kinds, Froms, ChildPlaces, ParentPlaces, Pipes
<1>2. Requested /\ Leased /\ Resuming /\ Reported
  BY DEF Requested, RequestedAt, Leased, LeasedAt, Resuming, ResumingAt, Reported, ReportedAt, Working
<1>3. Learning /\ Standing
  BY DEF Learning, LearningAt, Starting, Standing, StandingAt, Training
<1>4. Authored
  BY DEF Authored
<1> QED BY <1>1, <1>2, <1>3, <1>4 DEF SInv

\* The invariant of the segments holds in every state: types, requests, the
\* lease, what is resumed, learned, stands on the disk and is reported.
THEOREM SegmentsInvariant == Spec => [](SInv /\ Authored)
<1>1. Init => SInv /\ Authored
  BY InitHolds
<1>2. (SInv /\ Authored) /\ [Next]_vars => (SInv /\ Authored)'
  BY TypedKept, AuthoredKept, RequestedKept, LeasedKept, ResumingKept, LearningKept, StandingKept, ReportedKept
     DEF SInv
<1> QED BY <1>1, <1>2, PTL DEF Spec

\* A sealed checkpoint has learned the first pairs of its order, each as often
\* as it stands there, over all the segments it continues; the order of a
\* formal run is the bound input; and what was inspected is still there when it
\* is loaded (trainer.on_step_end, checkpoint.inspect, GPULease).
THEOREM LearnedInOrder == Spec => []EachPairOnce
<1>1. SInv => EachPairOnce
  <2> SUFFICES ASSUME SInv, NEW s \in Segments
               PROVE  /\ child[s].at = "inspected" => Sealed(request[s].from[1], request[s].from[2])
                      /\ \A n \in AllSteps : Sealed(s, n) =>
                           /\ files[s][n].trained = SubSeq(Order(s), 1, Cursor(s, n))
                           /\ request[s].kind = "dpo" => Order(s) = input
    BY DEF EachPairOnce
  <2>1. child[s].at = "inspected" => Sealed(request[s].from[1], request[s].from[2])
    BY DEF SInv, Resuming, ResumingAt
  <2>2. ASSUME NEW n \in AllSteps, Sealed(s, n)
        PROVE  /\ files[s][n].trained = SubSeq(Order(s), 1, Cursor(s, n))
               /\ request[s].kind = "dpo" => Order(s) = input
    <3>1. files[s][n].trained = Learned(s, n)
      BY <2>2 DEF SInv, Learning, LearningAt, Sealed
    <3>2. request[s] # NoRequest
      BY <2>2 DEF SInv, Requested, RequestedAt, Sealed, NoFile
    <3> QED BY <3>1, <3>2 DEF SInv, Requested, RequestedAt, Learned, Order
  <2> QED BY <2>1, <2>2
<1> QED BY <1>1, SegmentsInvariant, PTL

\* A summary that says PASS stands for a child that is gone and a complete
\* checkpoint at the step it was to stop at (runtime.supervise).
THEOREM SummariesAreTrue == Spec => []PassMeansDone
<1>1. SInv => PassMeansDone
  BY DEF SInv, Reported, ReportedAt, PassMeansDone, Alive
<1> QED BY <1>1, SegmentsInvariant, PTL

\* Once a summary is written, the directory is final and the summary stays.
THEOREM SummariesStay == Spec => SummaryIsFinal
<1>1. SInv /\ [Next]_vars =>
        \A s \in Segments : summary[s] # "none" => summary'[s] = summary[s] /\ files'[s] = files[s]
  <2> SUFFICES ASSUME SInv, [Next]_vars, NEW s \in Segments, summary[s] # "none"
               PROVE  summary'[s] = summary[s] /\ files'[s] = files[s]
    OBVIOUS
  <2>1. child[s].at = "gone" /\ parent[s].at = "closed"
    BY DEF SInv, Reported, ReportedAt
  <2>2. CASE UNCHANGED dpoVars
    BY <2>2 DEF dpoVars
  <2>3. ASSUME NEW t \in Segments, Asks(t) \/ Works(t) \/ Supervises(t)
        PROVE  summary'[s] = summary[s] /\ files'[s] = files[s]
    BY <2>1, <2>3 DEF Asks, Works, Supervises
  <2> QED BY <2>2, <2>3, FiveKinds DEF vars, dpoVars
<1> QED BY <1>1, SegmentsInvariant, PTL DEF Spec, SummaryIsFinal

\* Whatever fails or dies: the last complete checkpoint of a segment is only
\* given up for a later complete one; as two are kept, the one before the
\* checkpoint that is written stands until that one is sealed.
THEOREM LatestStays == ASSUME SaveLimit >= 2 PROVE Spec => LatestSealedKept
<1> DEFINE At(s) == {0} \cup {n \in AllSteps : files[s][n].state = "sealed"}
           Then(s) == {0} \cup {n \in AllSteps : files'[s][n].state = "sealed"}
<1>1. PICK last \in Nat : \A n \in AllSteps : n \in Nat /\ n <= last
  BY StepsAre
<1>2. ASSUME NEW s
      PROVE  Max(At(s)) \in At(s) /\ \A m \in At(s) : m <= Max(At(s))
  <2>1. At(s) \in SUBSET Nat /\ At(s) # {} /\ \A m \in At(s) : m <= last
    BY <1>1
  <2> HIDE DEF At
  <2> QED BY <2>1, GreatestIsMax
<1>3. ASSUME NEW s
      PROVE  Max(Then(s)) \in Then(s) /\ \A m \in Then(s) : m <= Max(Then(s))
  <2>1. Then(s) \in SUBSET Nat /\ Then(s) # {} /\ \A m \in Then(s) : m <= last
    BY <1>1
  <2> HIDE DEF Then
  <2> QED BY <2>1, GreatestIsMax
<1>4. ASSUME SInv, [Next]_vars, NEW s \in Segments PROVE Max(At(s)) \in Then(s)
  <2> HIDE DEF At, Then
  <2>1. Max(At(s)) \in At(s) /\ \A m \in At(s) : m <= Max(At(s))
    BY <1>4, <1>2
  <2>2. CASE files'[s] = files[s]
    BY <1>4, <2>1, <2>2 DEF At, Then
  <2>3. ASSUME NEW t \in Segments, Works(t), ByChild(t), s = t PROVE Max(At(s)) \in Then(s)
    <3>1. CASE Rotate(s)
      <4> DEFINE o == Min(Directories(s))
                 step == child[s].step
      <4>1. /\ child[s].at = "rotating" /\ Cardinality(Directories(s)) > Keep
            /\ o \in AllSteps /\ o \in Directories(s) /\ (\A m \in Directories(s) : o <= m) /\ Untouched(s, o)
        BY <1>4, <3>1, RotateDoes DEF Rotate, SInv
      <4> HIDE DEF o
      <4>2. PICK m \in Directories(s) : m # o /\ m # step
        BY <1>4, <4>1, ThirdDirectory
      <4>3. m \in AllSteps /\ files[s][m].state # "none" /\ m \in Nat /\ step \in Nat /\ o \in Nat /\ o <= m
        BY <1>4, <1>1, <4>1, <4>2 DEF Directories, SInv, Typed, ChildType
      <4>4. StandingAt(s, m)
        BY <1>4, <4>3 DEF SInv, Standing
      <4>5. m < step
        <5>1. ~(m > step)
          BY <1>4, <4>1, <4>3, <4>4 DEF StandingAt, Training
        <5> QED BY <1>4, <4>2, <4>3, <5>1
      <4>6. files[s][m].state = "sealed"
        <5>1. files[s][m].state \in {"sealed", "torn"}
          BY <1>4, <4>1, <4>3, <4>4, <4>5 DEF StandingAt
        <5>2. files[s][m].state = "torn" => m <= o
          BY <1>4, <4>1, <4>4 DEF StandingAt
        <5> QED BY <1>4, <4>2, <4>3, <5>1, <5>2
      <4>7. m \in At(s)
        BY <1>4, <4>3, <4>6 DEF At
      <4>8. Max(At(s)) # o
        <5>1. m <= Max(At(s))
          BY <1>4, <2>1, <4>7
        <5> QED BY <1>4, <4>2, <4>3, <5>1
      <4> QED BY <1>4, <2>1, <4>1, <4>8 DEF At, Then, Untouched
    <3>2. CASE SaveBegin(s)
      <4>1. Becomes(s, child[s].step, "partial", child[s].weights) /\ child[s].at = "saving"
              /\ child[s].step \in AllSteps
        BY <1>4, <3>2, SaveBeginDoes, AtWork DEF SaveBegin, SInv
      <4>2. files[s][child[s].step].state # "sealed"
        BY <1>4, <4>1 DEF SInv, Standing, StandingAt
      <4> QED BY <1>4, <2>1, <4>1, <4>2 DEF At, Then, Becomes, Untouched
    <3>3. CASE SaveEnd(s)
      <4>1. /\ Becomes(s, child[s].step, "native", files[s][child[s].step].trained) /\ child[s].at = "writing"
            /\ child[s].step \in AllSteps
        BY <1>4, <3>3, SaveEndDoes, AtWork DEF SaveEnd, SInv
      <4>2. files[s][child[s].step].state # "sealed"
        BY <1>4, <4>1 DEF SInv, Standing, StandingAt
      <4> QED BY <1>4, <2>1, <4>1, <4>2 DEF At, Then, Becomes, Untouched
    <3>4. CASE Seal(s)
      <4>1. Becomes(s, child[s].step, "sealed", files[s][child[s].step].trained)
        BY <1>4, <3>4, SealDoes DEF SInv
      <4> QED BY <1>4, <2>1, <4>1 DEF At, Then, Becomes, Untouched
    <3>5. CASE files' = files
      BY <1>4, <2>2, <3>5
    <3> QED BY <1>4, <2>3, <3>1, <3>2, <3>3, <3>4, <3>5
        DEF ByChild, Lease, Inspect, Load, Train, Report, ChildFails, ChildExits, ChildDies, Kill
  <2>4. CASE UNCHANGED files
    BY <1>4, <2>2, <2>4
  <2>5. ASSUME NEW t \in Segments, Works(t), ByChild(t), s # t PROVE Max(At(s)) \in Then(s)
    BY <1>4, <2>2, <2>5 DEF Works
  <2> QED BY <1>4, <2>3, <2>4, <2>5, FiveKinds DEF Asks, Supervises, vars, dpoVars
<1>5. SInv /\ [Next]_vars => \A s \in Segments : Newest(s, files') >= Newest(s, files)
  <2> SUFFICES ASSUME SInv, [Next]_vars, NEW s \in Segments PROVE Newest(s, files') >= Newest(s, files)
    OBVIOUS
  <2>1. Newest(s, files) = Max(At(s)) /\ Newest(s, files') = Max(Then(s))
    BY DEF Newest
  <2>2. At(s) \in SUBSET Nat /\ Then(s) \in SUBSET Nat
    BY <1>1
  <2> HIDE DEF At, Then
  <2>3. Max(At(s)) \in Then(s) /\ Max(At(s)) \in Nat /\ Max(Then(s)) \in Nat
    BY <1>2, <1>3, <1>4, <2>2
  <2>4. Max(At(s)) <= Max(Then(s))
    BY <1>3, <2>3
  <2> QED BY <2>1, <2>3, <2>4
<1> QED BY <1>5, SegmentsInvariant, PTL DEF Spec, LatestSealedKept

----------------------------------------------------------------------------
(* Recursion over the members of a finite set, and over numbers.           *)

LEMMA Division ==
  ASSUME NEW a \in Nat, NEW d \in Nat, d > 0
  PROVE  a \div d \in Nat /\ d * (a \div d) <= a /\ a < d * (a \div d) + d
  OBVIOUS

Pick(s) == CHOOSE x \in s : TRUE
Rest(s) == s \ {Pick(s)}

\* What holds of the empty set, and of a set when it holds of the rest of it,
\* holds of every subset.
LEMMA BySize ==
  ASSUME NEW E, IsFiniteSet(E), NEW P, {} \in P, \A s \in SUBSET E : s # {} /\ Rest(s) \in P => s \in P
  PROVE  SUBSET E \subseteq P
<1> SUFFICES ASSUME ~(SUBSET E \subseteq P) PROVE FALSE
  OBVIOUS
<1> DEFINE Bad == {s \in SUBSET E : s \notin P}
           T == {Cardinality(s) : s \in Bad}
<1>1. \A s \in SUBSET E : IsFiniteSet(s) /\ Cardinality(s) \in Nat
  BY FS_Subset, FS_CardinalityType
<1>2. T \in SUBSET Nat /\ T # {}
  BY <1>1
<1>3. PICK n \in T : \A m \in T : n <= m
  BY <1>2, Least
<1>4. PICK s \in Bad : Cardinality(s) = n
  BY <1>3
<1>5. s \in SUBSET E /\ s \notin P /\ s # {}
  BY <1>4
<1>6. Pick(s) \in s
  BY <1>5 DEF Pick
<1>7. Rest(s) \in SUBSET E /\ Cardinality(Rest(s)) = Cardinality(s) - 1
  BY <1>1, <1>5, <1>6, FS_RemoveElement DEF Rest
<1>8. Rest(s) \in Bad
  BY <1>5, <1>7
<1>9. Cardinality(Rest(s)) \in T /\ Cardinality(s) \in Nat
  BY <1>1, <1>5, <1>8
<1> QED BY <1>3, <1>4, <1>7, <1>9

\* The fold f of a function g over the subsets of a finite set.
IsFold(f, E, base, g) == \A s \in SUBSET E : f[s] = IF s = {} THEN base ELSE g[<<Pick(s), f[Rest(s)]>>]

LEMMA FoldExists ==
  ASSUME NEW E, IsFiniteSet(E), NEW V, NEW base \in V, NEW g \in [E \X V -> V]
  PROVE  \E f \in [SUBSET E -> V] : IsFold(f, E, base, g)
<1> DEFINE Fold(f, D) == \A s \in D : f[s] = IF s = {} THEN base ELSE g[<<Pick(s), f[Rest(s)]>>]
           Sub(m) == {s \in SUBSET E : Cardinality(s) <= m}
           T == {m \in Nat : ~\E f \in [Sub(m) -> V] : Fold(f, Sub(m))}
<1>1. \A s \in SUBSET E : IsFiniteSet(s) /\ Cardinality(s) \in Nat /\ Cardinality(s) <= Cardinality(E)
  BY FS_Subset, FS_CardinalityType
<1>2. \A s \in SUBSET E : s # {} => Pick(s) \in E /\ Rest(s) \in SUBSET E /\ Cardinality(Rest(s)) = Cardinality(s) - 1
  <2> SUFFICES ASSUME NEW s \in SUBSET E, s # {}
               PROVE  Pick(s) \in E /\ Rest(s) \in SUBSET E /\ Cardinality(Rest(s)) = Cardinality(s) - 1
    OBVIOUS
  <2>1. Pick(s) \in s
    BY DEF Pick
  <2> QED BY <1>1, <2>1, FS_RemoveElement DEF Rest
<1>3. T = {}
  <2> SUFFICES ASSUME T # {} PROVE FALSE
    OBVIOUS
  <2>1. PICK m \in T : \A k \in T : m <= k
    <3>1. T \in SUBSET Nat
      OBVIOUS
    <3> HIDE DEF T
    <3> QED BY <3>1, Least
  <2>2. m \in Nat /\ ~\E f \in [Sub(m) -> V] : Fold(f, Sub(m))
    BY <2>1
  <2>3. CASE m = 0
    <3>1. \A s \in Sub(m) : s = {}
      BY <1>1, <2>3, FS_EmptySet
    <3>2. [s \in Sub(m) |-> base] \in [Sub(m) -> V] /\ Fold([s \in Sub(m) |-> base], Sub(m))
      BY <3>1
    <3> QED BY <2>2, <3>2
  <2>4. CASE m > 0
    <3>1. m - 1 \in Nat /\ m - 1 \notin T
      <4>1. m \in Nat /\ m > 0 /\ \A k \in T : m <= k
        BY <2>1, <2>2, <2>4
      <4> HIDE DEF T
      <4> QED BY <4>1
    <3>2. PICK f \in [Sub(m - 1) -> V] : Fold(f, Sub(m - 1))
      BY <3>1
    <3> DEFINE h == [s \in Sub(m) |-> IF s \in Sub(m - 1) THEN f[s] ELSE g[<<Pick(s), f[Rest(s)]>>]]
    <3>3. ASSUME NEW s \in Sub(m), s # {} PROVE Pick(s) \in E /\ Rest(s) \in Sub(m - 1) /\ Rest(s) \in Sub(m)
      <4>1. s \in SUBSET E /\ Cardinality(s) <= m /\ Cardinality(s) \in Nat
        BY <1>1
      <4>2. Pick(s) \in E /\ Rest(s) \in SUBSET E /\ Cardinality(Rest(s)) = Cardinality(s) - 1
        BY <1>2, <3>3, <4>1
      <4> QED BY <2>2, <4>1, <4>2
    <3>4. {} \in Sub(m - 1) /\ Sub(m - 1) \subseteq Sub(m)
      <4>1. {} \in SUBSET E /\ Cardinality({}) = 0
        BY FS_EmptySet
      <4>2. \A s \in SUBSET E : Cardinality(s) <= m - 1 => Cardinality(s) <= m
        BY <1>1, <2>2
      <4> QED BY <3>1, <4>1, <4>2
    <3> HIDE DEF Sub
    <3>5. h \in [Sub(m) -> V]
      BY <3>2, <3>3, <3>4
    <3>6. ASSUME NEW s \in Sub(m) PROVE h[s] = IF s = {} THEN base ELSE g[<<Pick(s), h[Rest(s)]>>]
      <4>1. CASE s = {}
        BY <3>2, <3>4, <4>1
      <4>2. CASE s # {}
        <5>1. h[Rest(s)] = f[Rest(s)]
          BY <3>3, <4>2
        <5>2. h[s] = g[<<Pick(s), f[Rest(s)]>>]
          BY <3>2, <4>2
        <5> QED BY <4>2, <5>1, <5>2
      <4> QED BY <4>1, <4>2
    <3>7. Fold(h, Sub(m))
      BY <3>6
    <3> QED BY <2>2, <3>5, <3>7
  <2> QED BY <2>2, <2>3, <2>4
<1>4. Sub(Cardinality(E)) = SUBSET E /\ Cardinality(E) \in Nat
  BY <1>1
<1>5. PICK f \in [Sub(Cardinality(E)) -> V] : Fold(f, Sub(Cardinality(E)))
  BY <1>3, <1>4
<1> QED BY <1>4, <1>5 DEF IsFold

----------------------------------------------------------------------------
(* Groups: what an edge joins has one root.                                *)

\* Every node points to itself or to a smaller one.
Forest(n) == {p \in [1 .. n -> 1 .. n] : \A i \in 1 .. n : p[i] <= i}

\* The recursion of Root has a solution: it is built from the smallest node up.
LEMMA UpExists ==
  ASSUME NEW n \in Nat, NEW p \in Forest(n)
  PROVE  \E f : f = [j \in 1 .. n |-> IF p[j] = j THEN j ELSE f[p[j]]]
<1> DEFINE Up(f, m) == f = [j \in 1 .. m |-> IF p[j] = j THEN j ELSE f[p[j]]]
           T == {m \in 0 .. n : ~\E f : Up(f, m)}
<1>1. T = {}
  <2> SUFFICES ASSUME T # {} PROVE FALSE
    OBVIOUS
  <2>1. PICK m \in T : \A k \in T : m <= k
    <3>1. T \in SUBSET Nat
      OBVIOUS
    <3> HIDE DEF T
    <3> QED BY <3>1, Least
  <2>2. m \in 0 .. n /\ ~\E f : Up(f, m)
    BY <2>1
  <2>3. CASE m = 0
    <3>1. Up([j \in 1 .. m |-> j], m)
      BY <2>3
    <3> QED BY <2>2, <3>1
  <2>4. CASE m > 0
    <3>1. m - 1 \in 0 .. n /\ m - 1 \notin T
      <4>1. m \in 0 .. n /\ m > 0 /\ \A k \in T : m <= k
        BY <2>1, <2>2, <2>4
      <4> HIDE DEF T
      <4> QED BY <4>1
    <3>2. PICK f : Up(f, m - 1)
      BY <3>1
    <3> DEFINE h == [j \in 1 .. m |-> IF p[j] = j THEN j ELSE f[p[j]]]
    <3>3. ASSUME NEW j \in 1 .. m, p[j] # j PROVE p[j] \in 1 .. m - 1 /\ p[j] \in 1 .. m
      BY <2>2, <3>3 DEF Forest
    <3>4. \A j \in 1 .. m - 1 : h[j] = f[j]
      BY <2>2, <3>2
    <3>5. ASSUME NEW j \in 1 .. m PROVE h[j] = IF p[j] = j THEN j ELSE h[p[j]]
      BY <3>3, <3>4
    <3>6. Up(h, m)
      <4>1. h = [j \in 1 .. m |-> h[j]]
        OBVIOUS
      <4> QED BY <3>5, <4>1
    <3> QED BY <2>2, <3>6
  <2> QED BY <2>2, <2>3, <2>4
<1>2. n \in 0 .. n /\ n \notin T
  BY <1>1
<1> QED BY <1>2

LEMMA RootIs ==
  ASSUME NEW n \in Nat, NEW p \in Forest(n), NEW i \in 1 .. n
  PROVE  Root(p, i) = IF p[i] = i THEN i ELSE Root(p, p[i])
<1> DEFINE up == CHOOSE f : f = [j \in DOMAIN p |-> IF p[j] = j THEN j ELSE f[p[j]]]
<1>1. DOMAIN p = 1 .. n /\ p[i] \in 1 .. n
  BY DEF Forest
<1>2. up = [j \in 1 .. n |-> IF p[j] = j THEN j ELSE up[p[j]]]
  <2>1. \E f : f = [j \in DOMAIN p |-> IF p[j] = j THEN j ELSE f[p[j]]]
    <3>1. PICK f : f = [j \in 1 .. n |-> IF p[j] = j THEN j ELSE f[p[j]]]
      BY UpExists
    <3>2. f = [j \in DOMAIN p |-> IF p[j] = j THEN j ELSE f[p[j]]]
      BY <1>1, <3>1
    <3> QED BY <3>2
  <2>2. up = [j \in DOMAIN p |-> IF p[j] = j THEN j ELSE up[p[j]]]
    BY <2>1, Zenon
  <2> HIDE DEF up
  <2> QED BY <1>1, <2>2
<1>3. \A j : Root(p, j) = up[j]
  BY DEF Root
<1> HIDE DEF up
<1> QED BY <1>2, <1>3

\* The root of a node is a node that points to itself.
LEMMA RootIsRoot ==
  ASSUME NEW n \in Nat, NEW p \in Forest(n)
  PROVE  \A i \in 1 .. n : Root(p, i) \in 1 .. n /\ Root(p, i) <= i /\ p[Root(p, i)] = Root(p, i)
<1> DEFINE Good(i) == Root(p, i) \in 1 .. n /\ Root(p, i) <= i /\ p[Root(p, i)] = Root(p, i)
           T == {i \in 1 .. n : ~Good(i)}
<1>1. T = {}
  <2> SUFFICES ASSUME T # {} PROVE FALSE
    OBVIOUS
  <2>1. PICK i \in T : \A k \in T : i <= k
    <3>1. T \in SUBSET Nat
      OBVIOUS
    <3> HIDE DEF T
    <3> QED BY <3>1, Least
  <2>2. i \in 1 .. n /\ ~Good(i)
    BY <2>1
  <2>3. p[i] \in 1 .. n /\ p[i] <= i
    BY <2>2 DEF Forest
  <2>4. Root(p, i) = IF p[i] = i THEN i ELSE Root(p, p[i])
    BY <2>2, RootIs
  <2>5. CASE p[i] = i
    BY <2>2, <2>4, <2>5
  <2>6. CASE p[i] # i
    <3>1. p[i] \notin T
      <4>1. i \in Nat /\ p[i] \in Nat /\ p[i] < i
        BY <2>2, <2>3, <2>6
      <4> HIDE DEF T
      <4> QED BY <2>1, <4>1
    <3>2. Good(p[i])
      BY <2>3, <3>1
    <3>3. Root(p, i) <= i
      BY <2>2, <2>3, <2>4, <2>6, <3>2
    <3> QED BY <2>2, <2>4, <2>6, <3>2, <3>3
  <2> QED BY <2>5, <2>6
<1> QED BY <1>1

\* Joining two nodes gives them one root, and parts no nodes that had one.
LEMMA JoinDoes ==
  ASSUME NEW n \in Nat, NEW p \in Forest(n), NEW a \in 1 .. n, NEW b \in 1 .. n
  PROVE  /\ Join(p, a, b) \in Forest(n)
         /\ Root(Join(p, a, b), a) = Root(Join(p, a, b), b)
         /\ \A i, j \in 1 .. n : Root(p, i) = Root(p, j) => Root(Join(p, a, b), i) = Root(Join(p, a, b), j)
<1> DEFINE ends == {Root(p, a), Root(p, b)}
           low == Min(ends)
           high == Max(ends)
           q == [p EXCEPT ![high] = low]
           To(i) == IF Root(p, i) \in ends THEN low ELSE Root(p, i)
           T == {i \in 1 .. n : Root(q, i) # To(i)}
<1>1. ends \subseteq 1 .. n /\ \A r \in ends : p[r] = r
  BY RootIsRoot
<1>2. low \in ends /\ high \in ends /\ low <= high /\ ends = {low, high}
  <2>1. Root(p, a) \in Nat /\ Root(p, b) \in Nat
    BY <1>1
  <2> QED BY <2>1, MinOfTwo, MaxOfTwo
<1> HIDE DEF low, high, ends
<1>3. low \in 1 .. n /\ high \in 1 .. n /\ p[low] = low /\ p[high] = high
  BY <1>1, <1>2
<1>4. q \in Forest(n)
  BY <1>2, <1>3 DEF Forest
<1>5. \A i \in 1 .. n : q[i] = IF i = high THEN low ELSE p[i]
  BY <1>3 DEF Forest
<1>6. Join(p, a, b) = q
  BY DEF Join, ends, low, high
<1> HIDE DEF q
<1>7. \A i \in 1 .. n : Root(q, i) = IF q[i] = i THEN i ELSE Root(q, q[i])
  BY <1>4, RootIs
<1>8. \A i \in 1 .. n : Root(p, i) = IF p[i] = i THEN i ELSE Root(p, p[i])
  BY RootIs
<1>9. T = {}
  <2> SUFFICES ASSUME T # {} PROVE FALSE
    OBVIOUS
  <2>1. PICK i \in T : \A k \in T : i <= k
    <3>1. T \in SUBSET Nat
      OBVIOUS
    <3> HIDE DEF T
    <3> QED BY <3>1, Least
  <2>2. i \in 1 .. n /\ Root(q, i) # To(i)
    BY <2>1
  <2>3. Root(q, low) = low
    BY <1>3, <1>5, <1>7
  <2>4. CASE i = high
    <3>1. Root(q, i) = low
      BY <1>3, <1>5, <1>7, <2>2, <2>3, <2>4
    <3>2. Root(p, i) = i
      BY <1>3, <1>8, <2>4
    <3> QED BY <1>2, <2>2, <2>4, <3>1, <3>2
  <2>5. CASE i # high /\ p[i] = i
    <3>1. Root(q, i) = i /\ Root(p, i) = i
      BY <1>5, <1>7, <1>8, <2>2, <2>5
    <3> QED BY <1>2, <2>2, <2>5, <3>1
  <2>6. CASE i # high /\ p[i] # i
    <3>1. p[i] \in 1 .. n /\ p[i] <= i
      BY <2>2 DEF Forest
    <3>2. Root(q, i) = Root(q, p[i]) /\ Root(p, i) = Root(p, p[i])
      BY <1>5, <1>7, <1>8, <2>2, <2>6
    <3>3. p[i] \notin T
      <4>1. i \in Nat /\ p[i] \in Nat /\ p[i] < i
        BY <2>2, <2>6, <3>1
      <4> HIDE DEF T
      <4> QED BY <2>1, <4>1
    <3>4. Root(q, p[i]) = To(p[i])
      BY <3>1, <3>3
    <3> QED BY <2>2, <3>2, <3>4
  <2> QED BY <2>4, <2>5, <2>6
<1>10. \A i \in 1 .. n : Root(q, i) = To(i)
  BY <1>9
<1>11. Root(p, a) \in ends /\ Root(p, b) \in ends
  BY DEF ends
<1> QED BY <1>4, <1>6, <1>10, <1>11

\* The fold of the union-find over all edges joins the ends of each, and every
\* group is named after one of its nodes.
LEMMA FoldJoins ==
  ASSUME NEW n \in Nat, NEW E \in SUBSET ((1 .. n) \X (1 .. n)), IsFiniteSet(E)
  PROVE  /\ FoldSet(JoinEdge, Singletons(n), E) \in Forest(n)
         /\ \A e \in E :
              Root(FoldSet(JoinEdge, Singletons(n), E), e[1]) = Root(FoldSet(JoinEdge, Singletons(n), E), e[2])
<1> DEFINE base == Singletons(n)
           g == [z \in E \X Forest(n) |-> JoinEdge(z[1], z[2])]
           Is(f) == f = [s \in SUBSET E |-> IF s = {} THEN base ELSE JoinEdge(Pick(s), f[Rest(s)])]
           F == CHOOSE f : Is(f)
           Joins(s) == \A e \in s : Root(F[s], e[1]) = Root(F[s], e[2])
           P == {s \in SUBSET E : F[s] \in Forest(n) /\ Joins(s)}
<1>1. base \in Forest(n)
  BY DEF Singletons, Forest
<1>2. ASSUME NEW e \in E, NEW p \in Forest(n)
      PROVE  /\ JoinEdge(e, p) \in Forest(n)
             /\ Root(JoinEdge(e, p), e[1]) = Root(JoinEdge(e, p), e[2])
             /\ \A i \in 1 .. n, j \in 1 .. n :
                  Root(p, i) = Root(p, j) => Root(JoinEdge(e, p), i) = Root(JoinEdge(e, p), j)
  <2>1. e[1] \in 1 .. n /\ e[2] \in 1 .. n
    OBVIOUS
  <2> QED BY <2>1, JoinDoes DEF JoinEdge
<1>3. g \in [E \X Forest(n) -> Forest(n)]
  BY <1>2
<1>4. \E f : Is(f)
  <2>1. PICK f \in [SUBSET E -> Forest(n)] :
          \A s \in SUBSET E : f[s] = IF s = {} THEN base ELSE g[<<Pick(s), f[Rest(s)]>>]
    <3> DEFINE V == Forest(n)
    <3>1. base \in V /\ g \in [E \X V -> V]
      BY <1>1, <1>3
    <3> HIDE DEF g, base, V
    <3>2. \E f \in [SUBSET E -> V] : IsFold(f, E, base, g)
      BY <3>1, FoldExists
    <3> QED BY <3>2 DEF V, IsFold
  <2>2. ASSUME NEW s \in SUBSET E, s # {} PROVE g[<<Pick(s), f[Rest(s)]>>] = JoinEdge(Pick(s), f[Rest(s)])
    <3>1. Pick(s) \in E /\ f[Rest(s)] \in Forest(n)
      BY <2>1, <2>2 DEF Pick, Rest
    <3> QED BY <3>1
  <2>3. \A s \in SUBSET E : f[s] = IF s = {} THEN base ELSE JoinEdge(Pick(s), f[Rest(s)])
    BY <2>1, <2>2
  <2> HIDE DEF g, base
  <2>4. Is(f)
    BY <2>1, <2>3
  <2> QED BY <2>4
<1>5. Is(F)
  <2> HIDE DEF Is
  <2> QED BY <1>4, Zenon
<1>6. FoldSet(JoinEdge, Singletons(n), E) = F[E]
  BY DEF FoldSet, MapThenFoldSet, Pick, Rest
<1>7. \A s \in SUBSET E : F[s] = IF s = {} THEN base ELSE JoinEdge(Pick(s), F[Rest(s)])
  <2> HIDE DEF F, base
  <2> QED BY <1>5
<1> HIDE DEF F, base, g
<1>8. {} \in P
  BY <1>1, <1>7
<1>9. ASSUME NEW s \in SUBSET E, s # {}, Rest(s) \in P PROVE s \in P
  <2>1. Pick(s) \in s /\ Pick(s) \in E /\ \A e \in s : e = Pick(s) \/ e \in Rest(s)
    BY <1>9 DEF Pick, Rest
  <2>2. F[s] = JoinEdge(Pick(s), F[Rest(s)]) /\ F[Rest(s)] \in Forest(n) /\ Joins(Rest(s))
    BY <1>7, <1>9
  <2>3. F[s] \in Forest(n) /\ Root(F[s], Pick(s)[1]) = Root(F[s], Pick(s)[2])
    BY <1>2, <2>1, <2>2
  <2>4. ASSUME NEW e \in Rest(s) PROVE Root(F[s], e[1]) = Root(F[s], e[2])
    <3>1. e \in E
      BY DEF Rest
    <3>2. e[1] \in 1 .. n /\ e[2] \in 1 .. n
      BY <3>1
    <3> QED BY <1>2, <2>1, <2>2, <3>2
  <2> QED BY <2>1, <2>3, <2>4
<1>10. SUBSET E \subseteq P
  <2> HIDE DEF P
  <2> QED BY <1>8, <1>9, BySize
<1>11. E \in P
  BY <1>10
<1> QED BY <1>6, <1>11

\* Nodes with a common key, or on a near edge, are in one group, whatever order
\* the union-find of build_groups takes them in: every edge of the inverted index
\* is joined, and no later join separates what an earlier one has joined.
THEOREM GroupedJoins ==
  ASSUME NEW n \in Nat, NEW k, DOMAIN k = 1 .. n, NEW near \in SUBSET ((1 .. n) \X (1 .. n))
  PROVE  /\ Grouped(k, near) \in [1 .. n -> 1 .. n]
         /\ \A i, j \in 1 .. n : k[i] \cap k[j] # {} => Grouped(k, near)[i] = Grouped(k, near)[j]
         /\ \A e \in near : Grouped(k, near)[e[1]] = Grouped(k, near)[e[2]]
<1> DEFINE E == KeyEdges(k) \cup near
           p == FoldSet(JoinEdge, Singletons(n), E)
<1>1. ASSUME NEW i \in 1 .. n, NEW x \in k[i] PROVE Owner(k, x) \in 1 .. n
  <2> DEFINE T == {j \in DOMAIN k : x \in k[j]}
  <2>1. T \in SUBSET Nat /\ T # {} /\ T \subseteq 1 .. n
    OBVIOUS
  <2> HIDE DEF T
  <2>2. Min(T) \in T
    BY <2>1, LeastIsMin
  <2> QED BY <2>1, <2>2 DEF Owner, T
<1>2. \A i \in 1 .. n : \A x \in k[i] : <<i, Owner(k, x)>> \in E
  BY DEF KeyEdges
<1>3. E \in SUBSET ((1 .. n) \X (1 .. n))
  <2>1. KeyEdges(k) \subseteq (1 .. n) \X (1 .. n)
    BY <1>1 DEF KeyEdges
  <2> QED BY <2>1
<1>4. IsFiniteSet(E) /\ Cardinality(DOMAIN k) = n
  <2>1. IsFiniteSet(1 .. n) /\ Cardinality(1 .. n) = n
    BY FS_Interval
  <2>2. IsFiniteSet((1 .. n) \X (1 .. n))
    BY <2>1, FS_Product
  <2> QED BY <1>3, <2>1, <2>2, FS_Subset
<1> HIDE DEF E
<1>5. p \in Forest(n) /\ \A e \in E : Root(p, e[1]) = Root(p, e[2])
  BY <1>3, <1>4, FoldJoins
<1>6. Grouped(k, near) = [i \in 1 .. n |-> Root(p, i)]
  BY <1>4 DEF Grouped, E
<1> HIDE DEF p
<1>7. \A i \in 1 .. n : Root(p, i) \in 1 .. n
  BY <1>5, RootIsRoot
<1>8. ASSUME NEW i \in 1 .. n, NEW j \in 1 .. n, NEW x \in k[i] \cap k[j] PROVE Root(p, i) = Root(p, j)
  <2>1. <<i, Owner(k, x)>> \in E /\ <<j, Owner(k, x)>> \in E
    BY <1>2
  <2>2. Root(p, i) = Root(p, Owner(k, x)) /\ Root(p, j) = Root(p, Owner(k, x))
    BY <1>5, <2>1
  <2> QED BY <2>2
<1>9. \A e \in near : e \in E /\ e[1] \in 1 .. n /\ e[2] \in 1 .. n
  BY DEF E
<1> QED BY <1>5, <1>6, <1>7, <1>8, <1>9

----------------------------------------------------------------------------
(* The preparation: what is held out.                                      *)

\* The corpus is split along its groups, and what is kept was not quarantined.
Splitting ==
  /\ stage # "refused"
  /\ stage \in {"built", "packaged"} =>
       /\ DOMAIN corpus.keys = Records /\ corpus.near \in SUBSET (Records \X Records)
       /\ corpus.group = Grouped(corpus.keys, corpus.near)
       /\ \A i, j \in Records : corpus.group[i] = corpus.group[j] => corpus.split[i] = corpus.split[j]
  /\ stage = "packaged" => kept \subseteq Tasks \ Quarantined(keys)

\* What is quarantined depends on the corpus and on the keys of the tasks.
LEMMA SameQuarantine == ASSUME corpus' = corpus PROVE Quarantined(keys)' = Quarantined(keys')
<1>1. Audited(keys)' = Audited(keys')
  BY DEF Audited
<1> QED BY <1>1 DEF Quarantined

LEMMA SplittingKept == ASSUME Splitting, [Next]_vars PROVE Splitting'
<1>1. ASSUME NEW k \in [Records -> Profiles], NEW near \in SUBSET {e \in Records \X Records : e[1] < e[2]},
             Build(k, near)
      PROVE  Splitting'
  <2> DEFINE group == Grouped(k, near)
             normal == [i \in Records |-> Normalized(k[i])]
             bridges == Bridges(normal, group)
  <2>1. PICK drawn :
          LET split == [i \in Records |-> drawn[group[i]]]
          IN IF Isolated(k, split)
                /\ Isolated([i \in Records |-> IF i \in bridges THEN {} ELSE normal[i]], split)
             THEN /\ corpus' = [keys |-> k, near |-> near, group |-> group, split |-> split]
                  /\ stage' = "built"
             ELSE stage' = "refused" /\ UNCHANGED corpus
    BY <1>1 DEF Build
  <2> DEFINE split == [i \in Records |-> drawn[group[i]]]
             free == [i \in Records |-> IF i \in bridges THEN {} ELSE normal[i]]
  <2>2. Size \in Nat /\ Records = 1 .. Size /\ DOMAIN k = Records /\ near \in SUBSET (Records \X Records)
    BY PreferencesAssumption DEF Records
  <2>3. \A i, j \in Records : k[i] \cap k[j] # {} => group[i] = group[j]
    BY <2>2, GroupedJoins
  <2> HIDE DEF group
  <2>4. Isolated(k, split)
    BY <2>2, <2>3 DEF Isolated
  <2>5. Isolated(free, split)
    BY DEF Isolated, Bridges
  <2>6. corpus' = [keys |-> k, near |-> near, group |-> group, split |-> split] /\ stage' = "built"
    BY <2>1, <2>4, <2>5
  <2> QED BY <2>2, <2>6 DEF Splitting, group
<1>2. ASSUME NEW own, NEW clones, Package([t \in Tasks |-> Registry \cup own[t]], clones) PROVE Splitting'
  <2>1. corpus' = corpus /\ stage' = "packaged" /\ stage = "built" /\ kept' \subseteq Tasks \ Quarantined(keys')
    BY <1>2 DEF Package
  <2>2. Quarantined(keys)' = Quarantined(keys')
    BY <2>1, SameQuarantine
  <2> QED BY <2>1, <2>2 DEF Splitting
<1>3. ASSUME NEW pairs, Extract(pairs) PROVE Splitting'
  BY <1>3 DEF Splitting, Extract
<1>4. ASSUME NEW x, Judge(x) \/ Bind(x) PROVE Splitting'
  BY <1>4 DEF Splitting, Judge, Bind
<1>5. CASE Apply
  BY <1>5 DEF Splitting, Apply
<1>6. ASSUME NEW s, NEW kind, NEW every, NEW stop, NEW from, Begin(s, kind, every, stop, from) PROVE Splitting'
  BY <1>6 DEF Splitting, Begin
<1>7. CASE UNCHANGED preferenceVars
  <2>1. stage' = stage /\ corpus' = corpus /\ keys' = keys /\ kept' = kept
    BY <1>7 DEF preferenceVars
  <2>2. Quarantined(keys)' = Quarantined(keys)
    BY <2>1, SameQuarantine
  <2> QED BY <2>1, <2>2 DEF Splitting
<1>8. CASE Prepare
  BY <1>1, <1>2, <1>3, <1>4, <1>5, <1>8 DEF Prepare
<1>9. CASE Child \/ Supervise
  BY <1>7, <1>9 DEF Child, Supervise, Lease, Inspect, Load, Train, SaveBegin, SaveEnd, Rotate, Seal, Report,
        ChildFails, ChildExits, ChildDies, Receive, Joined, GiveUp, Kill, Receipt, ParentDies
<1>10. CASE Ask
  BY <1>6, <1>10 DEF Ask
<1>11. CASE UNCHANGED vars
  BY <1>7, <1>11 DEF vars
<1> QED BY <1>8, <1>9, <1>10, <1>11 DEF Next

\* Where a task or a record stands in the audit: a record with its group.
Place(m) == IF m <= TaskCount THEN m ELSE TaskCount + corpus.group[m - TaskCount]

LEMMA PlaceHasKeys ==
  ASSUME Splitting, stage = "packaged", NEW m \in 1 .. TaskCount + Size
  PROVE  /\ Place(m) \in 1 .. TaskCount + Size /\ KeysOf(m) \subseteq Audited(keys)[Place(m)]
         /\ m > TaskCount => m - TaskCount \in Records /\ corpus.group[m - TaskCount] \in Records
<1>1. TaskCount \in Nat /\ Size \in Nat
  BY PreferencesAssumption
<1>2. CASE m <= TaskCount
  BY <1>1, <1>2 DEF Place, KeysOf, Audited
<1>3. CASE m > TaskCount
  <2> DEFINE i == m - TaskCount
             g == corpus.group[i]
  <2>1. i \in Records
    BY <1>1, <1>3 DEF Records
  <2>2. corpus.group \in [Records -> Records]
    BY <1>1, GroupedJoins DEF Splitting, Records
  <2>3. g \in Records
    BY <2>1, <2>2
  <2>4. Place(m) = TaskCount + g /\ KeysOf(m) = AllKeys(corpus.keys[i])
    BY <1>1, <1>3 DEF Place, KeysOf
  <2> HIDE DEF i
  <2>5. TaskCount + g \in 1 .. TaskCount + Size /\ ~(TaskCount + g <= TaskCount) /\ TaskCount + g - TaskCount = g
    BY <1>1, <2>3 DEF Records
  <2>6. \A z \in 1 .. TaskCount + Size : ~(z <= TaskCount) =>
          Audited(keys)[z] = UNION {AllKeys(corpus.keys[j]) : j \in {j \in Records : corpus.group[j] = z - TaskCount}}
    BY DEF Audited
  <2>7. corpus.group[i] = g
    OBVIOUS
  <2> HIDE DEF g
  <2>8. AllKeys(corpus.keys[i]) \subseteq Audited(keys)[TaskCount + g]
    <3> DEFINE z == TaskCount + g
               J == {j \in Records : corpus.group[j] = z - TaskCount}
    <3>1. Audited(keys)[z] = UNION {AllKeys(corpus.keys[j]) : j \in J} /\ i \in J
      <4>1. z \in 1 .. TaskCount + Size /\ ~(z <= TaskCount) /\ z - TaskCount = g
        BY <1>1, <2>1, <2>3, <2>5 DEF Records
      <4> HIDE DEF z
      <4>2. i \in J
        BY <2>1, <2>7, <4>1
      <4> QED BY <2>6, <4>1, <4>2
    <3> HIDE DEF z, J
    <3>2. AllKeys(corpus.keys[i]) \subseteq Audited(keys)[z]
      BY <3>1
    <3> QED BY <3>2 DEF z
  <2> QED BY <1>3, <1>1, <2>1, <2>3, <2>4, <2>5, <2>8 DEF i, g
<1> QED BY <1>1, <1>2, <1>3

LEMMA NothingHeldOut == ASSUME Splitting PROVE NothingHeldOutIsTrained
<1>1. TaskCount \in Nat /\ Size \in Nat /\ Records = 1 .. Size /\ Tasks = 1 .. TaskCount
  BY PreferencesAssumption DEF Records, Tasks
<1>2. ASSUME stage \in {"built", "packaged"}
      PROVE  \A e \in corpus.near : corpus.group[e[1]] = corpus.group[e[2]] /\ e \in Records \X Records
  BY <1>1, <1>2, GroupedJoins DEF Splitting
<1>3. ASSUME stage = "built"
      PROVE  /\ \A e \in corpus.near : corpus.split[e[1]] = corpus.split[e[2]]
             /\ \A i, j \in Records :
                  corpus.keys[i] \cap corpus.keys[j] # {} => corpus.split[i] = corpus.split[j]
  <2>1. \A e \in corpus.near : corpus.split[e[1]] = corpus.split[e[2]]
    BY <1>2, <1>3 DEF Splitting
  <2>2. \A i, j \in Records : corpus.keys[i] \cap corpus.keys[j] # {} => corpus.group[i] = corpus.group[j]
    BY <1>1, <1>3, GroupedJoins DEF Splitting
  <2> QED BY <1>3, <2>1, <2>2 DEF Splitting
<1>4. ASSUME stage = "packaged"
      PROVE  \E S \in SUBSET (1 .. TaskCount + Size) :
               /\ kept \subseteq S /\ S \cap HeldOut = {}
               /\ \A m \in S, n \in 1 .. TaskCount + Size : Linked(m, n) \/ Linked(n, m) => n \in S
  <2> DEFINE root == Grouped(Audited(keys), {})
             Bad(r) == \E i \in Records : corpus.split[i] # TrainSplit /\ root[TaskCount + corpus.group[i]] = r
             S == {m \in 1 .. TaskCount + Size : ~Bad(root[Place(m)])}
  <2>1. \A a, b \in 1 .. TaskCount + Size : Audited(keys)[a] \cap Audited(keys)[b] # {} => root[a] = root[b]
    <3>1. DOMAIN Audited(keys) = 1 .. TaskCount + Size /\ TaskCount + Size \in Nat
      BY <1>1 DEF Audited
    <3> QED BY <3>1, GroupedJoins
  <2>2. \A m \in 1 .. TaskCount + Size :
          /\ Place(m) \in 1 .. TaskCount + Size /\ KeysOf(m) \subseteq Audited(keys)[Place(m)]
    BY <1>4, PlaceHasKeys
  <2>3. Quarantined(keys) = {t \in Tasks : Bad(root[t])}
    BY DEF Quarantined
  <2> HIDE DEF root
  <2>4. kept \subseteq S
    <3>1. ASSUME NEW t \in kept PROVE t \in 1 .. TaskCount + Size /\ Place(t) = t /\ ~Bad(root[t])
      BY <1>1, <1>4, <2>3 DEF Splitting, Place
    <3> QED BY <3>1
  <2>5. S \cap HeldOut = {}
    <3>1. ASSUME NEW i \in Records, corpus.split[i] # TrainSplit PROVE TaskCount + i \notin S
      <4>1. Place(TaskCount + i) = TaskCount + corpus.group[i]
        BY <1>1 DEF Place
      <4>2. Bad(root[Place(TaskCount + i)])
        BY <3>1, <4>1
      <4> QED BY <4>2
    <3> QED BY <3>1 DEF HeldOut
  <2>6. ASSUME NEW m \in 1 .. TaskCount + Size, NEW n \in 1 .. TaskCount + Size, Linked(m, n) \/ Linked(n, m)
        PROVE  root[Place(m)] = root[Place(n)]
    <3>1. CASE KeysOf(m) \cap KeysOf(n) # {}
      <4>1. Audited(keys)[Place(m)] \cap Audited(keys)[Place(n)] # {}
        BY <2>2, <3>1
      <4> QED BY <2>1, <2>2, <4>1
    <3>2. CASE <<m - TaskCount, n - TaskCount>> \in corpus.near \/ <<n - TaskCount, m - TaskCount>> \in corpus.near
      <4>1. m - TaskCount \in Records /\ n - TaskCount \in Records
            /\ corpus.group[m - TaskCount] = corpus.group[n - TaskCount]
        BY <1>2, <1>4, <3>2
      <4>2. ~(m <= TaskCount) /\ ~(n <= TaskCount)
        BY <1>1, <4>1
      <4> QED BY <4>1, <4>2 DEF Place
    <3> QED BY <2>6, <3>1, <3>2 DEF Linked
  <2>7. \A m \in S, n \in 1 .. TaskCount + Size : Linked(m, n) \/ Linked(n, m) => n \in S
    BY <2>6
  <2> HIDE DEF S
  <2>8. S \in SUBSET (1 .. TaskCount + Size)
    BY DEF S
  <2> QED BY <2>4, <2>5, <2>7, <2>8
<1> QED BY <1>3, <1>4 DEF NothingHeldOutIsTrained, Splitting

\* However many records and tasks there are: records of two splits have no common
\* key and no near texts, the build refuses nothing, and no chain of common keys,
\* common normalized keys and near records leads from a task that is kept to a
\* record that is held out (build_groups, audit_groups).
THEOREM HeldOutStaysOut == Spec => []NothingHeldOutIsTrained
<1>1. Init => Splitting
  BY DEF Init, PreferencesInit, Splitting
<1>2. Splitting /\ [Next]_vars => Splitting'
  BY SplittingKept
<1>3. Splitting => NothingHeldOutIsTrained
  BY NothingHeldOut
<1> QED BY <1>1, <1>2, <1>3, PTL DEF Spec

----------------------------------------------------------------------------
(* Sums, and how many members of a set are among the first of it.          *)

\* f is the sum of size over the subsets of E.
IsSum(f, E, size) ==
  /\ size \in [E -> Int] /\ f \in [SUBSET E -> Int]
  /\ \A s \in SUBSET E : f[s] = IF s = {} THEN 0 ELSE size[Pick(s)] + f[Rest(s)]

LEMMA SumExists ==
  ASSUME NEW E, IsFiniteSet(E), NEW size \in [E -> Int]
  PROVE  \E f : IsSum(f, E, size)
<1> DEFINE g == [z \in E \X Int |-> size[z[1]] + z[2]]
<1>1. g \in [E \X Int -> Int]
  OBVIOUS
<1> HIDE DEF g
<1>2. PICK f \in [SUBSET E -> Int] : IsFold(f, E, 0, g)
  <2> DEFINE V == Int
  <2>1. 0 \in V /\ g \in [E \X V -> V]
    BY <1>1
  <2> HIDE DEF V
  <2>2. \E f \in [SUBSET E -> V] : IsFold(f, E, 0, g)
    BY <2>1, FoldExists
  <2> QED BY <2>2 DEF V
<1>3. ASSUME NEW s \in SUBSET E, s # {} PROVE f[s] = size[Pick(s)] + f[Rest(s)]
  <2>1. Pick(s) \in E /\ Rest(s) \in SUBSET E
    BY <1>3 DEF Pick, Rest
  <2>2. f[s] = g[<<Pick(s), f[Rest(s)]>>]
    BY <1>2, <1>3 DEF IsFold
  <2>3. f[Rest(s)] \in Int
    BY <2>1
  <2> QED BY <2>1, <2>2, <2>3 DEF g
<1>4. f[{}] = 0
  BY <1>2 DEF IsFold
<1> QED BY <1>2, <1>3, <1>4 DEF IsSum

\* A sum over a set, from a sum over the rest of it.
Adds(f, E, size) ==
  /\ f[{}] = 0
  /\ \A s \in SUBSET E : s # {} =>
       /\ Pick(s) \in s /\ Pick(s) \notin Rest(s) /\ s = Rest(s) \cup {Pick(s)} /\ Rest(s) \in SUBSET E
       /\ IsFiniteSet(s) /\ IsFiniteSet(Rest(s))
       /\ Cardinality(Rest(s)) \in Nat /\ Cardinality(s) = Cardinality(Rest(s)) + 1
       /\ size[Pick(s)] \in Int /\ f[Rest(s)] \in Int /\ f[s] = f[Rest(s)] + size[Pick(s)]

LEMMA SumOfRest ==
  ASSUME NEW E, IsFiniteSet(E), NEW size, NEW f, IsSum(f, E, size)
  PROVE  Adds(f, E, size)
<1>1. f[{}] = 0
  BY DEF IsSum
<1>2. ASSUME NEW s \in SUBSET E, s # {}
      PROVE  /\ Pick(s) \in s /\ Pick(s) \notin Rest(s) /\ s = Rest(s) \cup {Pick(s)} /\ Rest(s) \in SUBSET E
             /\ IsFiniteSet(s) /\ IsFiniteSet(Rest(s))
             /\ Cardinality(Rest(s)) \in Nat /\ Cardinality(s) = Cardinality(Rest(s)) + 1
             /\ size[Pick(s)] \in Int /\ f[Rest(s)] \in Int /\ f[s] = f[Rest(s)] + size[Pick(s)]
  <2>1. Pick(s) \in s /\ Pick(s) \notin Rest(s) /\ s = Rest(s) \cup {Pick(s)} /\ Rest(s) \in SUBSET E
    BY <1>2 DEF Pick, Rest
  <2>2. IsFiniteSet(s) /\ IsFiniteSet(Rest(s)) /\ Cardinality(Rest(s)) \in Nat
    BY <2>1, FS_Subset, FS_CardinalityType
  <2>3. Cardinality(s) = Cardinality(Rest(s)) + 1
    BY <2>1, <2>2, FS_AddElement
  <2>4. size[Pick(s)] \in Int /\ f[Rest(s)] \in Int
    BY <2>1 DEF IsSum
  <2>5. f[s] = f[Rest(s)] + size[Pick(s)]
    BY <1>2, <2>4 DEF IsSum
  <2> QED BY <2>1, <2>2, <2>3, <2>4, <2>5
<1> QED BY <1>1, <1>2 DEF Adds

OneMore(b, a, X, E) == \A e \in E : b[e] = IF e \in X THEN a[e] + 1 ELSE a[e]

\* One more for some members of a set adds as many as these are.
LEMMA SumAndSome ==
  ASSUME NEW E, IsFiniteSet(E), NEW X \in SUBSET E,
         NEW a, NEW f, IsSum(f, E, a), NEW b, NEW g, IsSum(g, E, b),
         OneMore(b, a, X, E)
  PROVE  g[E] = f[E] + Cardinality(X)
<1>0. Adds(f, E, a) /\ Adds(g, E, b)
  BY SumOfRest
<1> DEFINE P == {s \in SUBSET E : g[s] = f[s] + Cardinality(X \cap s)}
<1>1. {} \in P
  <2>1. f[{}] = 0 /\ g[{}] = 0
    BY <1>0 DEF Adds
  <2>2. X \cap {} = {} /\ Cardinality({}) = 0
    BY FS_EmptySet
  <2> QED BY <2>1, <2>2
<1>2. ASSUME NEW s \in SUBSET E, s # {}, Rest(s) \in P PROVE s \in P
  <2>1. /\ Pick(s) \in s /\ Pick(s) \notin Rest(s) /\ s = Rest(s) \cup {Pick(s)} /\ Rest(s) \in SUBSET E
        /\ a[Pick(s)] \in Int /\ f[Rest(s)] \in Int /\ f[s] = f[Rest(s)] + a[Pick(s)]
    BY <1>0, <1>2 DEF Adds
  <2>2. b[Pick(s)] \in Int /\ g[Rest(s)] \in Int /\ g[s] = g[Rest(s)] + b[Pick(s)]
    BY <1>0, <1>2 DEF Adds
  <2>3. IsFiniteSet(X \cap Rest(s)) /\ Cardinality(X \cap Rest(s)) \in Nat
    <3>1. X \cap Rest(s) \in SUBSET E
      OBVIOUS
    <3> QED BY <3>1, FS_Subset, FS_CardinalityType
  <2>4. g[Rest(s)] = f[Rest(s)] + Cardinality(X \cap Rest(s))
    BY <1>2
  <2>5. CASE Pick(s) \in X
    <3>1. X \cap s = (X \cap Rest(s)) \cup {Pick(s)} /\ Pick(s) \notin X \cap Rest(s)
      BY <2>1, <2>5
    <3>2. Cardinality(X \cap s) = Cardinality(X \cap Rest(s)) + 1
      BY <2>3, <3>1, FS_AddElement
    <3>3. b[Pick(s)] = a[Pick(s)] + 1
      BY <2>1, <2>5 DEF OneMore
    <3> QED BY <2>1, <2>2, <2>3, <2>4, <3>2, <3>3
  <2>6. CASE Pick(s) \notin X
    <3>1. X \cap s = X \cap Rest(s)
      BY <2>1, <2>6
    <3>2. b[Pick(s)] = a[Pick(s)]
      BY <2>1, <2>6 DEF OneMore
    <3>3. Cardinality(X \cap s) = Cardinality(X \cap Rest(s))
      BY <3>1
    <3> QED BY <2>1, <2>2, <2>3, <2>4, <3>2, <3>3
  <2> QED BY <2>5, <2>6
<1> HIDE DEF P
<1>3. E \in P
  BY <1>1, <1>2, BySize
<1>4. X \cap E = X
  OBVIOUS
<1> QED BY <1>3, <1>4 DEF P

LEMMA TogetherFinite ==
  ASSUME NEW A, NEW B, IsFiniteSet(A), IsFiniteSet(B), A \cap B = {}
  PROVE  IsFiniteSet(A \cup B) /\ Cardinality(A \cup B) = Cardinality(A) + Cardinality(B)
<1>1. Cardinality(A \cap B) = 0
  BY FS_EmptySet
<1>2. Cardinality(A) \in Nat /\ Cardinality(B) \in Nat
  BY FS_CardinalityType
<1>3. IsFiniteSet(A \cup B) /\ Cardinality(A \cup B) = Cardinality(A) + Cardinality(B) - Cardinality(A \cap B)
  BY FS_Union
<1> QED BY <1>1, <1>2, <1>3

\* The members of disjoint sets are as many as the sets have together.
LEMMA SumOfParts ==
  ASSUME NEW E, IsFiniteSet(E), NEW part, \A e \in E : IsFiniteSet(part[e]),
         \A d, e \in E : d # e => part[d] \cap part[e] = {},
         NEW size, \A e \in E : size[e] = Cardinality(part[e]), NEW f, IsSum(f, E, size)
  PROVE  Cardinality(UNION {part[e] : e \in E}) = f[E]
<1>0. Adds(f, E, size)
  BY SumOfRest
<1> DEFINE All(s) == UNION {part[e] : e \in s}
           P == {s \in SUBSET E : IsFiniteSet(All(s)) /\ Cardinality(All(s)) = f[s]}
<1>1. {} \in P
  <2>1. All({}) = {}
    OBVIOUS
  <2>2. f[{}] = 0
    BY <1>0 DEF Adds
  <2> QED BY <2>1, <2>2, FS_EmptySet
<1>2. ASSUME NEW s \in SUBSET E, s # {}, Rest(s) \in P PROVE s \in P
  <2>1. /\ Pick(s) \in s /\ Pick(s) \notin Rest(s) /\ s = Rest(s) \cup {Pick(s)} /\ Rest(s) \in SUBSET E
        /\ size[Pick(s)] \in Int /\ f[Rest(s)] \in Int /\ f[s] = f[Rest(s)] + size[Pick(s)]
    BY <1>0, <1>2 DEF Adds
  <2>2. All(s) = All(Rest(s)) \cup part[Pick(s)]
    BY <2>1
  <2>3. All(Rest(s)) \cap part[Pick(s)] = {}
    <3>1. ASSUME NEW e \in Rest(s) PROVE part[e] \cap part[Pick(s)] = {}
      BY <2>1
    <3> QED BY <3>1
  <2>4. IsFiniteSet(All(Rest(s))) /\ IsFiniteSet(part[Pick(s)]) /\ Cardinality(All(Rest(s))) = f[Rest(s)]
    BY <1>2, <2>1
  <2>5. Cardinality(part[Pick(s)]) = size[Pick(s)]
    BY <2>1
  <2> HIDE DEF All
  <2>6. IsFiniteSet(All(s)) /\ Cardinality(All(s)) = Cardinality(All(Rest(s))) + Cardinality(part[Pick(s)])
    <3> DEFINE A == All(Rest(s))
               B == part[Pick(s)]
    <3>1. IsFiniteSet(A) /\ IsFiniteSet(B) /\ A \cap B = {} /\ All(s) = A \cup B
      BY <2>2, <2>3, <2>4
    <3> HIDE DEF A, B
    <3>2. IsFiniteSet(A \cup B) /\ Cardinality(A \cup B) = Cardinality(A) + Cardinality(B)
      BY <3>1, TogetherFinite
    <3>3. IsFiniteSet(All(s)) /\ Cardinality(All(s)) = Cardinality(A) + Cardinality(B)
      BY <3>1, <3>2
    <3> QED BY <3>3 DEF A, B
  <2> QED BY <2>1, <2>4, <2>5, <2>6
<1> HIDE DEF P
<1>3. E \in P
  BY <1>1, <1>2, BySize
<1> QED BY <1>3 DEF P

\* Those before whom fewer than q come are q.
LEMMA FirstOfSet ==
  ASSUME NEW S \in SUBSET Nat, IsFiniteSet(S), NEW q \in Nat, q <= Cardinality(S)
  PROVE  Cardinality({t \in S : Cardinality({u \in S : u < t}) < q}) = q
<1> DEFINE rank == [t \in S |-> Cardinality({u \in S : u < t})]
           F == {t \in S : rank[t] < q}
<1>1. Cardinality(S) \in Nat /\ \A i \in 1 .. Cardinality(S) : \E t \in S : rank[t] = i - 1
  BY RankedOnce
<1>2. \A t \in S : rank[t] \in Nat
  <2> TAKE t \in S
  <2>1. {u \in S : u < t} \in SUBSET S
    OBVIOUS
  <2> QED BY <2>1, FS_Subset, FS_CardinalityType
<1>3. ASSUME NEW t \in S, NEW v \in S, t < v PROVE rank[t] < rank[v]
  <2> DEFINE A == {u \in S : u < t}
             B == {u \in S : u < v}
  <2>1. B \in SUBSET S /\ IsFiniteSet(B)
    BY FS_Subset
  <2>2. A \in SUBSET B
    <3>1. ASSUME NEW u \in S, u < t PROVE u < v
      <4>1. u \in Nat /\ t \in Nat /\ v \in Nat
        OBVIOUS
      <4> QED BY <1>3, <3>1, <4>1
    <3> QED BY <3>1
  <2>3. t \in B /\ t \notin A
    <3>1. t \in Nat
      OBVIOUS
    <3> QED BY <1>3, <3>1
  <2>4. Cardinality(A) <= Cardinality(B) /\ Cardinality(A) # Cardinality(B)
    <3> HIDE DEF A, B
    <3> QED BY <2>1, <2>2, <2>3, FS_Subset
  <2>5. Cardinality(A) \in Nat /\ Cardinality(B) \in Nat
    BY <1>2
  <2> QED BY <2>4, <2>5
<1>4. \A t, v \in S : rank[t] = rank[v] => t = v
  <2> TAKE t \in S, v \in S
  <2>1. t \in Nat /\ v \in Nat
    OBVIOUS
  <2>2. t < v \/ v < t \/ t = v
    BY <2>1
  <2>3. rank[t] \in Nat /\ rank[v] \in Nat
    BY <1>2
  <2> QED BY <1>3, <2>2, <2>3
<1> HIDE DEF rank
<1>5. CASE q = 0
  <2>1. \A t \in S : ~(rank[t] < q)
    BY <1>2, <1>5
  <2>2. F = {}
    BY <2>1
  <2> QED BY <1>5, <2>2, FS_EmptySet DEF rank
<1>6. CASE q > 0
  <2> DEFINE h == [t \in F |-> rank[t] + 1]
  <2>1. h \in [F -> 1 .. q]
    <3>1. ASSUME NEW t \in F PROVE rank[t] + 1 \in 1 .. q
      <4>1. t \in S /\ rank[t] < q
        OBVIOUS
      <4>2. rank[t] \in Nat
        BY <1>2, <4>1
      <4> QED BY <4>1, <4>2
    <3> QED BY <3>1
  <2>2. \A t, v \in F : h[t] = h[v] => t = v
    BY <1>2, <1>4
  <2>3. \A i \in 1 .. q : \E t \in F : h[t] = i
    <3> TAKE i \in 1 .. q
    <3>1. PICK t \in S : rank[t] = i - 1
      BY <1>1
    <3> QED BY <3>1
  <2>4. h \in Bijection(F, 1 .. q)
    BY <2>1, <2>2, <2>3 DEF Bijection, Injection, IsInjective, Surjection
  <2>5. IsFiniteSet(F) /\ IsFiniteSet(1 .. q) /\ Cardinality(1 .. q) = q
    BY FS_Subset, FS_Interval
  <2>6. Cardinality(F) = Cardinality(1 .. q)
    BY <2>4, <2>5, FS_Bijection DEF ExistsBijection
  <2> QED BY <2>5, <2>6 DEF rank
<1> QED BY <1>5, <1>6

----------------------------------------------------------------------------
(* The seats of a sample.                                                  *)

LEMMA ProductGrows == ASSUME NEW a \in Nat, NEW b \in Nat, NEW c \in Nat, a <= b PROVE a * c <= b * c /\ a * c \in Nat
<1>1. PICK e \in Nat : b = a + e
  <2>1. b - a \in Nat /\ b = a + (b - a)
    OBVIOUS
  <2> QED BY <2>1
<1>2. b * c = a * c + e * c /\ a * c \in Nat /\ e * c \in Nat
  BY <1>1
<1> QED BY <1>2

LEMMA ProductStep == ASSUME NEW a \in Nat, NEW b \in Nat, NEW c \in Nat, a < b PROVE c * a + c <= c * b
<1>1. PICK e \in Nat : b = a + 1 + e
  <2>1. b - a - 1 \in Nat /\ b = a + 1 + (b - a - 1)
    OBVIOUS
  <2> QED BY <2>1
<1>2. c * b = c * a + c + c * e /\ c * a \in Nat /\ c * e \in Nat
  BY <1>1
<1> QED BY <1>2

\* A floor leaves a remainder, and only for a class that is not exhausted.
LEMMA FloorOfClass ==
  ASSUME NEW M \in Nat, NEW D \in Nat, D >= 1, M <= D, NEW a \in Nat
  PROVE  /\ (M * a) \div D \in Nat /\ (M * a) \div D <= a
         /\ D * ((M * a) \div D) <= M * a
         /\ (M * a) \div D < a => M * a - D * ((M * a) \div D) <= D - 1
         /\ ~((M * a) \div D < a) => M * a - D * ((M * a) \div D) <= 0
<1> DEFINE x == M * a
           q == x \div D
<1>1. x \in Nat /\ x <= D * a /\ D * a \in Nat
  BY ProductGrows
<1> HIDE DEF x
<1>2. q \in Nat /\ D * q <= x /\ x < D * q + D
  BY <1>1, Division
<1> HIDE DEF q
<1>3. D * q \in Nat
  BY <1>2
<1>4. q <= a
  <2> SUFFICES ASSUME a < q PROVE FALSE
    BY <1>2
  <2>1. D * a + D <= D * q
    BY <1>2, ProductStep
  <2> QED BY <1>1, <1>2, <1>3, <2>1
<1>5. x - D * q <= D - 1
  BY <1>1, <1>2, <1>3
<1>6. ~(q < a) => x - D * q <= 0
  <2> SUFFICES ASSUME ~(q < a) PROVE x - D * q <= 0
    OBVIOUS
  <2>1. q = a
    BY <1>2, <1>4
  <2> QED BY <1>1, <2>1
<1> QED BY <1>2, <1>4, <1>5, <1>6 DEF x, q

Proportional(floor, size, E, seats, D) == \A e \in E : floor[e] = 1 + (seats * (size[e] - 1)) \div D
Divisor(rest) == IF rest >= 1 THEN rest ELSE 1

\* With one seat for each class and proportional floors of the others, not more
\* are given than there are, no class gets more than it has, and every seat that
\* is left fits into another class: the second loop of freeze_review, which looks
\* at each class once, gives all of them.
THEOREM SeatsFit ==
  ASSUME NEW E, IsFiniteSet(E), NEW m \in Nat,
         NEW size \in [E -> Nat], \A e \in E : size[e] >= 1,
         NEW g, IsSum(g, E, size), Cardinality(E) <= m, m <= g[E],
         NEW D, D = Divisor(g[E] - Cardinality(E)),
         NEW floor, Proportional(floor, size, E, m - Cardinality(E), D),
         NEW f, IsSum(f, E, floor)
  PROVE  /\ \A e \in E : floor[e] \in Nat /\ 1 <= floor[e] /\ floor[e] <= size[e]
         /\ m - f[E] \in Nat /\ m - f[E] <= Cardinality({e \in E : floor[e] < size[e]})
<1> DEFINE M == m - Cardinality(E)
           X == {e \in E : floor[e] < size[e]}
<1>1. Adds(f, E, floor) /\ Adds(g, E, size)
  BY SumOfRest
<1>2. M \in Nat /\ D \in Nat /\ D >= 1 /\ M <= D /\ M * (g[E] - Cardinality(E)) = M * D
  <2>1. Cardinality(E) \in Nat /\ g[E] \in Int
    BY FS_CardinalityType DEF IsSum
  <2>2. M \in Nat /\ D \in Nat /\ D >= 1 /\ M <= D
    BY <2>1 DEF Divisor
  <2>3. M = 0 \/ g[E] - Cardinality(E) = D
    <3>1. CASE g[E] - Cardinality(E) >= 1
      BY <3>1 DEF Divisor
    <3>2. CASE ~(g[E] - Cardinality(E) >= 1)
      BY <2>1, <3>2 DEF Divisor
    <3> QED BY <3>1, <3>2
  <2> HIDE DEF M
  <2>4. M = 0 => M * (g[E] - Cardinality(E)) = M * D
    BY <2>1, <2>2
  <2> QED BY <2>2, <2>3, <2>4
<1> HIDE DEF M
<1>3. ASSUME NEW e \in E
      PROVE  /\ floor[e] - 1 \in Nat /\ floor[e] <= size[e]
             /\ D * (floor[e] - 1) <= M * (size[e] - 1)
             /\ e \in X => M * (size[e] - 1) - D * (floor[e] - 1) <= D - 1
             /\ e \notin X => M * (size[e] - 1) - D * (floor[e] - 1) <= 0
  <2> DEFINE a == size[e] - 1
             q == (M * a) \div D
  <2>1. a \in Nat /\ floor[e] = 1 + q
    BY DEF M, Proportional
  <2>2. size[e] = a + 1
    OBVIOUS
  <2> HIDE DEF a
  <2>3. /\ q \in Nat /\ q <= a /\ D * q <= M * a
        /\ q < a => M * a - D * q <= D - 1
        /\ ~(q < a) => M * a - D * q <= 0
    BY <1>2, <2>1, FloorOfClass
  <2> HIDE DEF q
  <2>4. floor[e] - 1 = q /\ size[e] - 1 = a /\ (e \in X <=> q < a)
    BY <2>1, <2>2, <2>3
  <2> QED BY <2>1, <2>2, <2>3, <2>4
<1> DEFINE P == {s \in SUBSET E :
             \E R \in Int : /\ D * (f[s] - Cardinality(s)) + R = M * (g[s] - Cardinality(s))
                            /\ 0 <= R /\ R <= (D - 1) * Cardinality(X \cap s)}
<1>4. {} \in P
  <2>1. f[{}] = 0 /\ g[{}] = 0
    BY <1>1 DEF Adds
  <2>2. Cardinality({}) = 0 /\ X \cap {} = {}
    BY FS_EmptySet
  <2>3. D * (f[{}] - Cardinality({})) + 0 = M * (g[{}] - Cardinality({})) /\ 0 <= (D - 1) * Cardinality(X \cap {})
    BY <1>2, <2>1, <2>2
  <2> HIDE DEF X
  <2> QED BY <2>3
<1>5. ASSUME NEW s \in SUBSET E, s # {}, Rest(s) \in P PROVE s \in P
  <2> DEFINE e == Pick(s)
             r == Rest(s)
             Y == Cardinality(X \cap r)
  <2>1. /\ e \in E /\ e \notin r /\ s = r \cup {e} /\ r \in SUBSET E
        /\ Cardinality(r) \in Nat /\ Cardinality(s) = Cardinality(r) + 1
        /\ floor[e] \in Int /\ f[r] \in Int /\ f[s] = f[r] + floor[e]
        /\ size[e] \in Int /\ g[r] \in Int /\ g[s] = g[r] + size[e]
    BY <1>1, <1>5 DEF Adds
  <2>2. PICK R \in Int : /\ D * (f[r] - Cardinality(r)) + R = M * (g[r] - Cardinality(r))
                         /\ 0 <= R /\ R <= (D - 1) * Y
    BY <1>5
  <2> HIDE DEF e, r
  <2>3. IsFiniteSet(X \cap r) /\ Y \in Nat
    <3>1. X \cap r \in SUBSET E
      OBVIOUS
    <3> HIDE DEF X
    <3> QED BY <3>1, FS_Subset, FS_CardinalityType
  <2>4. Cardinality(X \cap s) = IF e \in X THEN Y + 1 ELSE Y
    <3> HIDE DEF X
    <3>1. X \cap s = IF e \in X THEN (X \cap r) \cup {e} ELSE X \cap r
      BY <2>1
    <3>2. e \notin X \cap r
      BY <2>1
    <3>3. Cardinality((X \cap r) \cup {e}) = Y + 1
      BY <2>3, <3>2, FS_AddElement
    <3>4. CASE e \in X
      <4>1. X \cap s = (X \cap r) \cup {e}
        BY <3>1, <3>4
      <4> QED BY <3>3, <3>4, <4>1
    <3>5. CASE e \notin X
      <4>1. X \cap s = X \cap r
        BY <3>1, <3>5
      <4> QED BY <3>5, <4>1
    <3> QED BY <3>4, <3>5
  <2> DEFINE u == M * (size[e] - 1)
             v == D * (floor[e] - 1)
  <2>5. u \in Int /\ v \in Int
    BY <1>2, <2>1
  <2>6. v <= u /\ (e \in X => u - v <= D - 1) /\ (e \notin X => u - v <= 0)
    BY <1>3, <2>1
  <2>7. D * (f[s] - Cardinality(s)) = D * (f[r] - Cardinality(r)) + v
    <3>1. f[s] - Cardinality(s) = (f[r] - Cardinality(r)) + (floor[e] - 1)
      BY <2>1
    <3> QED BY <1>2, <2>1, <3>1
  <2>8. M * (g[s] - Cardinality(s)) = M * (g[r] - Cardinality(r)) + u
    <3>1. g[s] - Cardinality(s) = (g[r] - Cardinality(r)) + (size[e] - 1)
      BY <2>1
    <3> QED BY <1>2, <2>1, <3>1
  <2>9. D * (f[r] - Cardinality(r)) \in Int /\ M * (g[r] - Cardinality(r)) \in Int
    BY <1>2, <2>1
  <2> HIDE DEF u, v, Y, X
  <2>10. D * (f[s] - Cardinality(s)) + (R + u - v) = M * (g[s] - Cardinality(s))
    BY <2>2, <2>5, <2>7, <2>8, <2>9
  <2>11. 0 <= R + u - v /\ R + u - v \in Int
    BY <2>2, <2>5, <2>6
  <2>12. R + u - v <= (D - 1) * Cardinality(X \cap s)
    <3>1. (D - 1) * (Y + 1) = (D - 1) * Y + (D - 1) /\ (D - 1) * Y \in Int
      BY <1>2, <2>3
    <3>2. CASE e \in X
      BY <1>2, <2>2, <2>4, <2>5, <2>6, <3>1, <3>2
    <3>3. CASE e \notin X
      BY <1>2, <2>2, <2>4, <2>5, <2>6, <3>1, <3>3
    <3> QED BY <3>2, <3>3
  <2> QED BY <2>10, <2>11, <2>12
<1> HIDE DEF P
<1>6. E \in P
  BY <1>4, <1>5, BySize
<1> DEFINE F == Cardinality(X)
           L == m - f[E]
<1>7. PICK R \in Int : /\ D * (f[E] - Cardinality(E)) + R = M * (g[E] - Cardinality(E))
                       /\ 0 <= R /\ R <= (D - 1) * F
  <2>1. X \cap E = X
    OBVIOUS
  <2> HIDE DEF X
  <2> QED BY <1>6, <2>1 DEF P
<1>8. F \in Nat
  BY FS_Subset, FS_CardinalityType
<1>9. L \in Int /\ D * L = R
  <2>1. Cardinality(E) \in Nat /\ f[E] \in Int
    BY FS_CardinalityType DEF IsSum
  <2>2. L = M - (f[E] - Cardinality(E))
    BY <2>1 DEF M
  <2> DEFINE w == f[E] - Cardinality(E)
  <2>3. w \in Int /\ L = M - w /\ D * w + R = M * D
    BY <1>2, <1>7, <2>1, <2>2
  <2> HIDE DEF w, L
  <2>4. D * (M - w) = M * D - D * w /\ D * w \in Int /\ M * D \in Int
    BY <1>2, <2>3
  <2> QED BY <1>2, <1>7, <2>3, <2>4
<1> HIDE DEF F, L, X
<1>10. L >= 0
  <2> SUFFICES ASSUME L < 0 PROVE FALSE
    BY <1>9
  <2>1. 1 \in Nat /\ 0 - L \in Nat /\ 1 <= 0 - L
    BY <1>9
  <2>2. 1 * D <= (0 - L) * D
    BY <1>2, <2>1, ProductGrows
  <2>3. (0 - L) * D = 0 - D * L /\ 1 * D = D
    BY <1>2, <1>9
  <2> QED BY <1>2, <1>7, <1>9, <2>2, <2>3
<1>11. L <= F
  <2> SUFFICES ASSUME F < L PROVE FALSE
    BY <1>8, <1>9
  <2>1. L \in Nat /\ D * F + D <= D * L
    BY <1>2, <1>8, <1>9, <1>10, ProductStep
  <2>2. (D - 1) * F = D * F - F /\ D * F \in Int
    BY <1>2, <1>8
  <2> QED BY <1>2, <1>7, <1>8, <1>9, <2>1, <2>2
<1>12. \A e \in E : floor[e] \in Nat /\ 1 <= floor[e] /\ floor[e] <= size[e]
  <2> TAKE e \in E
  <2>0. floor[e] \in Int
    BY DEF IsSum
  <2>1. floor[e] \in Int /\ floor[e] - 1 \in Nat /\ floor[e] <= size[e]
    BY <1>3, <2>0
  <2> QED BY <2>1
<1> QED BY <1>8, <1>9, <1>10, <1>11, <1>12 DEF F, L, X

----------------------------------------------------------------------------
(* The sample that is reviewed.                                            *)

\* Every pair in the pool belongs to a task and has an error class.
Classed == DOMAIN pool \subseteq Tasks /\ \A t \in DOMAIN pool : \E c \in DOMAIN Classes : pool[t] = Classes[c]

LEMMA FirstNumbers == ASSUME NEW n \in Nat PROVE IsFiniteSet(1 .. n) /\ Cardinality(1 .. n) = n
  BY FS_Interval

LEMMA StrataAre ==
  ASSUME Classed
  PROVE  /\ IsFiniteSet(DOMAIN pool) /\ DOMAIN pool \subseteq Nat /\ Total \in Nat
         /\ IsFiniteSet(Strata) /\ Strata \subseteq Nat /\ Cardinality(Strata) <= MinSample
         /\ \A c \in Strata : /\ Stratum(c) \subseteq DOMAIN pool /\ IsFiniteSet(Stratum(c))
                              /\ Cardinality(Stratum(c)) \in Nat /\ Cardinality(Stratum(c)) >= 1
         /\ \A c, d \in Strata : c # d => Stratum(c) \cap Stratum(d) = {}
         /\ UNION {Stratum(c) : c \in Strata} = DOMAIN pool
         /\ Cardinality(Strata) <= Total
<1>1. IsFiniteSet(DOMAIN pool) /\ DOMAIN pool \subseteq Nat /\ Total \in Nat
  <2>1. DOMAIN pool \in SUBSET Tasks /\ IsFiniteSet(Tasks) /\ Tasks \subseteq Nat
    <3>1. TaskCount \in Nat
      BY PreferencesAssumption
    <3> QED BY <3>1, FirstNumbers DEF Classed, Tasks
  <2> QED BY <2>1, FS_Subset, FS_CardinalityType DEF Total
<1>2. Len(Classes) \in Nat /\ DOMAIN Classes = 1 .. Len(Classes) /\ MinSample \in Nat /\ Len(Classes) <= MinSample
  BY PreferencesAssumption
<1>3. IsFiniteSet(Strata) /\ Strata \subseteq Nat /\ Cardinality(Strata) <= MinSample
  <2>1. IsFiniteSet(1 .. Len(Classes)) /\ Cardinality(1 .. Len(Classes)) = Len(Classes)
    BY <1>2, FirstNumbers
  <2>2. Strata \in SUBSET (1 .. Len(Classes))
    BY <1>2 DEF Strata
  <2>3. IsFiniteSet(Strata) /\ Cardinality(Strata) <= Len(Classes) /\ Cardinality(Strata) \in Nat
    BY <2>1, <2>2, FS_Subset, FS_CardinalityType
  <2> QED BY <1>2, <2>2, <2>3
<1>4. ASSUME NEW c \in Strata
      PROVE  /\ Stratum(c) \subseteq DOMAIN pool /\ IsFiniteSet(Stratum(c)) /\ Stratum(c) # {}
             /\ Cardinality(Stratum(c)) \in Nat /\ Cardinality(Stratum(c)) >= 1
  <2>1. Stratum(c) \in SUBSET DOMAIN pool /\ Stratum(c) # {}
    BY DEF Stratum, Strata
  <2>2. IsFiniteSet(Stratum(c)) /\ Cardinality(Stratum(c)) \in Nat
    BY <1>1, <2>1, FS_Subset, FS_CardinalityType
  <2>3. Cardinality(Stratum(c)) # 0
    BY <2>1, <2>2, FS_EmptySet
  <2> QED BY <2>1, <2>2, <2>3
<1>5. \A c, d \in Strata : c # d => Stratum(c) \cap Stratum(d) = {}
  BY PreferencesAssumption DEF Strata, Stratum
<1>6. UNION {Stratum(c) : c \in Strata} = DOMAIN pool
  BY DEF Strata, Stratum, Classed
<1>7. Cardinality(Strata) <= Total
  <2> DEFINE h == [c \in Strata |-> CHOOSE t \in Stratum(c) : TRUE]
  <2>1. \A c \in Strata : h[c] \in Stratum(c)
    BY <1>4
  <2>2. h \in [Strata -> DOMAIN pool]
    BY <1>4, <2>1
  <2> HIDE DEF h
  <2>3. \A c, d \in Strata : h[c] = h[d] => c = d
    BY <1>5, <2>1
  <2>4. h \in Injection(Strata, DOMAIN pool)
    BY <2>2, <2>3 DEF Injection, IsInjective
  <2> QED BY <1>1, <2>4, FS_Injection DEF Total
<1> QED BY <1>1, <1>3, <1>4, <1>5, <1>6, <1>7

LEMMA SizeOfSample ==
  ASSUME Classed
  PROVE  SampleSize \in Nat /\ Cardinality(Strata) <= SampleSize /\ SampleSize <= Total
<1>1. Total \in Nat /\ Cardinality(Strata) <= Total /\ Cardinality(Strata) \in Nat /\ Cardinality(Strata) <= MinSample
  BY StrataAre, FS_CardinalityType
<1> DEFINE p == (Total + Share - 1) \div Share
           q == Max({MinSample, p})
<1>2. MinSample \in Nat /\ p \in Nat
  <2>1. MinSample \in Nat /\ Share \in Nat /\ Share > 0
    BY PreferencesAssumption
  <2>2. Total + Share - 1 \in Nat
    BY <1>1, <2>1
  <2> QED BY <2>1, <2>2, Division
<1> HIDE DEF p
<1>3. q = IF MinSample >= p THEN MinSample ELSE p
  BY <1>2, MaxOfTwo
<1>4. q \in Nat /\ q >= MinSample
  BY <1>2, <1>3
<1>5. SampleSize = Min({Total, q})
  BY DEF SampleSize, p
<1> HIDE DEF q
<1>6. SampleSize = IF Total <= q THEN Total ELSE q
  BY <1>1, <1>4, <1>5, MinOfTwo
<1> QED BY <1>1, <1>2, <1>4, <1>6

\* The floors are summed over all classes.
LEMMA FloorsAdd ==
  ASSUME IsFiniteSet(Strata), NEW floor \in [Strata -> Int], \A c \in Strata : floor[c] = Floors(c)
  PROVE  \E f : IsSum(f, Strata, floor) /\ MapThenSumSet(Floors, Strata) = f[Strata]
<1> DEFINE E == Strata
           Is(f) == f = [s \in SUBSET E |-> IF s = {} THEN 0 ELSE Floors(Pick(s)) + f[Rest(s)]]
           F == CHOOSE f : Is(f)
<1>1. PICK f : IsSum(f, E, floor)
  BY SumExists
<1>2. ASSUME NEW s \in SUBSET E, s # {} PROVE floor[Pick(s)] = Floors(Pick(s)) /\ Rest(s) \in SUBSET E
  BY <1>2 DEF Pick, Rest
<1>3. \A s \in SUBSET E : f[s] = IF s = {} THEN 0 ELSE Floors(Pick(s)) + f[Rest(s)]
  BY <1>1, <1>2 DEF IsSum
<1>4. Is(f)
  <2>1. f = [s \in SUBSET E |-> f[s]]
    BY <1>1 DEF IsSum
  <2> HIDE DEF E
  <2> QED BY <1>3, <2>1
<1>5. Is(F)
  <2> HIDE DEF Is
  <2> QED BY <1>4, Zenon
<1>6. MapThenSumSet(Floors, Strata) = F[E]
  BY DEF MapThenSumSet, MapThenFoldSet, Pick, Rest
<1>7. \A s \in SUBSET E : F[s] = IF s = {} THEN 0 ELSE Floors(Pick(s)) + F[Rest(s)]
  <2> HIDE DEF F
  <2> QED BY <1>5
<1>8. DOMAIN F = SUBSET E
  <2> HIDE DEF F
  <2> QED BY <1>5
<1> HIDE DEF F, E
<1> DEFINE P == {s \in SUBSET E : F[s] = f[s]}
<1>9. {} \in P
  BY <1>3, <1>7
<1>10. ASSUME NEW s \in SUBSET E, s # {}, Rest(s) \in P PROVE s \in P
  BY <1>3, <1>7, <1>10
<1>11. IsFiniteSet(E)
  BY DEF E
<1> HIDE DEF P
<1>12. E \in P
  BY <1>9, <1>10, <1>11, BySize
<1>13. F[E] = f[E]
  BY <1>12 DEF P
<1> QED BY <1>1, <1>6, <1>13 DEF E

\* The sample of freeze_review is exactly as large as it has to be, and has a
\* pair of every error class that occurs in the pool.
THEOREM SampleIsFull ==
  ASSUME Classed
  PROVE  /\ Cardinality(Sample) = SampleSize
         /\ \A t \in DOMAIN pool : \E u \in Sample : pool[u] = pool[t]
<1> DEFINE E == Strata
           k == Cardinality(E)
           m == SampleSize
           size == [c \in E |-> Cardinality(Stratum(c))]
           floor == [c \in E |-> Floors(c)]
           D == Divisor(Total - k)
<1>1. /\ IsFiniteSet(E) /\ E \subseteq Nat /\ k \in Nat /\ Total \in Nat /\ DOMAIN pool \subseteq Nat
      /\ \A c \in E : /\ Stratum(c) \subseteq DOMAIN pool /\ IsFiniteSet(Stratum(c))
                       /\ Cardinality(Stratum(c)) \in Nat /\ Cardinality(Stratum(c)) >= 1
      /\ \A c, d \in E : c # d => Stratum(c) \cap Stratum(d) = {}
      /\ UNION {Stratum(c) : c \in E} = DOMAIN pool
  BY StrataAre, FS_CardinalityType
<1>2. m \in Nat /\ k <= m /\ m <= Total /\ k <= Total
  BY StrataAre, SizeOfSample
<1>3. Max({Total - k, 1}) = D /\ D \in Nat
  <2>1. Total - k \in Nat /\ 1 \in Nat
    BY <1>1, <1>2
  <2> HIDE DEF k
  <2>2. Max({Total - k, 1}) = IF Total - k >= 1 THEN Total - k ELSE 1
    BY <2>1, MaxOfTwo
  <2> QED BY <2>1, <2>2 DEF Divisor
<1>4. \A c \in E : floor[c] = 1 + ((m - k) * (size[c] - 1)) \div D
  BY <1>3 DEF Floors
<1>5. \A c \in E : floor[c] = Floors(c) /\ size[c] = Cardinality(Stratum(c))
  OBVIOUS
<1>6. DOMAIN floor = E /\ size \in [E -> Nat] /\ \A c \in E : size[c] >= 1
  BY <1>1
<1> HIDE DEF floor, size, k, m, D
<1>7. floor \in [E -> Int]
  <2>1. floor = [c \in E |-> floor[c]]
    BY DEF floor
  <2>2. ASSUME NEW c \in E PROVE floor[c] \in Int
    <3>1. m - k \in Nat /\ size[c] - 1 \in Nat /\ D > 0
      BY <1>1, <1>2, <1>6 DEF D, Divisor
    <3>2. (m - k) * (size[c] - 1) \in Nat
      BY <3>1
    <3>3. ((m - k) * (size[c] - 1)) \div D \in Nat
      BY <1>3, <3>1, <3>2, Division
    <3> QED BY <1>4, <3>3
  <2> QED BY <2>1, <2>2
<1>8. PICK f : IsSum(f, E, floor) /\ MapThenSumSet(Floors, Strata) = f[E]
  BY <1>1, <1>5, <1>7, FloorsAdd
<1>9. PICK g : IsSum(g, E, size)
  <2>1. size \in [E -> Int]
    BY <1>6
  <2> QED BY <1>1, <2>1, SumExists
<1> DEFINE pairs == [c \in E |-> Stratum(c)]
<1>10. g[E] = Total
  <2>1. /\ \A c \in E : IsFiniteSet(pairs[c]) /\ size[c] = Cardinality(pairs[c])
        /\ \A c, d \in E : c # d => pairs[c] \cap pairs[d] = {}
        /\ UNION {pairs[c] : c \in E} = DOMAIN pool
    BY <1>1, <1>5
  <2> HIDE DEF pairs, E
  <2>3. Cardinality(UNION {pairs[c] : c \in E}) = g[E]
    BY <1>1, <1>9, <2>1, SumOfParts
  <2> QED BY <2>1, <2>3 DEF Total
<1> HIDE DEF pairs
<1>11. /\ \A c \in E : floor[c] \in Nat /\ 1 <= floor[c] /\ floor[c] <= size[c]
       /\ m - f[E] \in Nat /\ m - f[E] <= Cardinality({c \in E : floor[c] < size[c]})
  <2>1. D = Divisor(g[E] - Cardinality(E))
    BY <1>10 DEF D, k
  <2>2. Cardinality(E) <= m /\ m <= g[E]
    BY <1>2, <1>10 DEF k
  <2>3. Proportional(floor, size, E, m - Cardinality(E), D)
    BY <1>4 DEF k, Proportional
  <2>4. IsFiniteSet(E) /\ m \in Nat /\ size \in [E -> Nat] /\ \A c \in E : size[c] >= 1
    BY <1>1, <1>2, <1>6
  <2>5. IsSum(g, E, size) /\ D \in Nat /\ IsSum(f, E, floor)
    BY <1>3, <1>8, <1>9
  <2> HIDE DEF E
  <2> QED BY <2>1, <2>2, <2>3, <2>4, <2>5, SeatsFit
<1> DEFINE X == {c \in E : floor[c] < size[c]}
           Y == {c \in X : Cardinality({d \in X : d < c}) < m - f[E]}
           quota == [c \in E |-> Quota(c)]
           part == [c \in E |-> {t \in Stratum(c) : Cardinality({u \in Stratum(c) : u < t}) < Quota(c)}]
<1>12. IsFiniteSet(X) /\ X \in SUBSET Nat /\ Y \in SUBSET E
  <2>1. X \in SUBSET E /\ Y \in SUBSET E
    OBVIOUS
  <2> HIDE DEF X, Y
  <2> QED BY <1>1, <2>1, FS_Subset
<1>13. Cardinality(Y) = m - f[E]
  <2>1. m - f[E] <= Cardinality(X)
    BY <1>11
  <2> HIDE DEF X
  <2> QED BY <1>11, <1>12, <2>1, FirstOfSet
<1>14. \A c \in E : quota[c] = IF c \in Y THEN floor[c] + 1 ELSE floor[c]
  <2> TAKE c \in E
  <2>1. \A d \in E : Fits(d) <=> d \in X
    BY <1>5 DEF Fits
  <2>2. {d \in Strata : d < c /\ Fits(d)} = {d \in X : d < c}
    BY <2>1
  <2>3. Left = m - f[E]
    BY <1>8 DEF Left, m
  <2>4. quota[c] = IF Fits(c) /\ Cardinality({d \in Strata : d < c /\ Fits(d)}) < Left THEN Floors(c) + 1 ELSE Floors(c)
    BY DEF Quota
  <2>5. c \in Y <=> Fits(c) /\ Cardinality({d \in Strata : d < c /\ Fits(d)}) < Left
    <3> HIDE DEF X
    <3> QED BY <2>1, <2>2, <2>3
  <2> QED BY <1>5, <2>4, <2>5
<1>15. \A c \in E : quota[c] \in Nat /\ 1 <= quota[c] /\ quota[c] <= size[c]
  <2> TAKE c \in E
  <2>1. floor[c] \in Nat /\ size[c] \in Nat /\ 1 <= floor[c] /\ floor[c] <= size[c]
    BY <1>6, <1>11
  <2>2. c \in Y => floor[c] < size[c]
    OBVIOUS
  <2> HIDE DEF Y, quota
  <2> QED BY <1>14, <2>1, <2>2
<1>16. quota \in [E -> Int]
  <2>1. quota = [c \in E |-> quota[c]]
    OBVIOUS
  <2> HIDE DEF quota
  <2> QED BY <1>15, <2>1
<1>17. PICK h : IsSum(h, E, quota)
  <2> HIDE DEF quota, E
  <2> QED BY <1>1, <1>16, SumExists
<1>18. h[E] = m
  <2>0. IsFiniteSet(E) /\ Y \in SUBSET E /\ IsSum(f, E, floor) /\ OneMore(quota, floor, Y, E)
    BY <1>1, <1>8, <1>12, <1>14 DEF OneMore
  <2> HIDE DEF quota, Y, E
  <2>1. h[E] = f[E] + Cardinality(Y)
    BY <1>17, <2>0, SumAndSome
  <2>2. f[E] \in Int
    BY <1>8 DEF IsSum
  <2> QED BY <1>2, <1>13, <2>1, <2>2
<1>19. ASSUME NEW c \in E
       PROVE  part[c] \subseteq Stratum(c) /\ IsFiniteSet(part[c]) /\ quota[c] = Cardinality(part[c])
  <2>1. Stratum(c) \in SUBSET Nat /\ IsFiniteSet(Stratum(c))
    BY <1>1
  <2>2. Quota(c) \in Nat /\ Quota(c) <= Cardinality(Stratum(c))
    BY <1>5, <1>15
  <2>3. Cardinality({t \in Stratum(c) : Cardinality({u \in Stratum(c) : u < t}) < Quota(c)}) = Quota(c)
    BY <2>1, <2>2, FirstOfSet
  <2>4. part[c] \in SUBSET Stratum(c) /\ Cardinality(part[c]) = quota[c]
    BY <2>3
  <2> HIDE DEF part
  <2>5. IsFiniteSet(part[c])
    BY <2>1, <2>4, FS_Subset
  <2> QED BY <2>4, <2>5
<1>20. Sample = UNION {part[c] : c \in E}
  BY DEF Sample
<1> HIDE DEF part, quota, Y, X
<1>21. \A c, d \in E : c # d => part[c] \cap part[d] = {}
  BY <1>1, <1>19
<1>22. Cardinality(UNION {part[c] : c \in E}) = h[E]
  <2>1. (\A c \in E : IsFiniteSet(part[c])) /\ (\A c \in E : quota[c] = Cardinality(part[c])) /\ IsFiniteSet(E)
    BY <1>1, <1>19
  <2> HIDE DEF E
  <2> QED BY <1>17, <1>21, <2>1, SumOfParts
<1>23. ASSUME NEW t \in DOMAIN pool PROVE \E u \in Sample : pool[u] = pool[t]
  <2>1. PICK c \in E : t \in Stratum(c)
    BY <1>1
  <2>2. part[c] # {}
    <3>1. Cardinality(part[c]) # 0 /\ IsFiniteSet(part[c])
      BY <1>15, <1>19
    <3> QED BY <3>1, FS_EmptySet
  <2>3. PICK u \in part[c] : TRUE
    BY <2>2
  <2>4. u \in Sample /\ u \in Stratum(c)
    BY <1>19, <1>20
  <2> QED BY <2>1, <2>4 DEF Stratum
<1> QED BY <1>18, <1>20, <1>22, <1>23 DEF m

----------------------------------------------------------------------------
(* The review: what is bound for training was judged.                      *)

\* The judgments that stand cover the sample, and what is bound passed them.
Bound ==
  stage = "bound" =>
    /\ Sample \subseteq DOMAIN review
    /\ Cardinality({t \in Sample : review[t] # "pass"}) * Tolerance <= SampleSize
    /\ \A i \in DOMAIN input : input[i] \in DOMAIN pool /\ (input[i] \in DOMAIN review => review[input[i]] = "pass")

Reviewing ==
  /\ kept \subseteq Tasks /\ Classed /\ Bound

LEMMA SameSample == ASSUME UNCHANGED pool PROVE Sample' = Sample /\ SampleSize' = SampleSize
  BY DEF Sample, SampleSize, Total, Quota, Fits, Left, Floors, Strata, Stratum, MapThenSumSet, MapThenFoldSet, Min, Max

LEMMA BoundKept == ASSUME Bound, UNCHANGED <<stage, pool, review, input>> PROVE Bound'
  BY SameSample DEF Bound

\* What is bound was confirmed.
LEMMA BindBinds == ASSUME Reviewing, NEW overflow, Bind(overflow) PROVE Bound'
<1>1. Sample' = Sample /\ SampleSize' = SampleSize /\ UNCHANGED <<pool, review>>
  BY SameSample DEF Bind
<1>2. ~Blocked /\ applied.training = DOMAIN pool \ Excluded
  BY DEF Bind, Confirmed, Reviewed
<1>3. Sample \subseteq DOMAIN review
  BY <1>2 DEF Blocked
<1>4. {t \in Sample : review[t] # "pass"} = Sample \cap Excluded
  BY <1>3 DEF Excluded
<1>5. Cardinality(Sample \cap Excluded) * Tolerance <= SampleSize
  <2>1. Cardinality(Sample \cap Excluded) \in Nat /\ SampleSize \in Nat /\ Tolerance \in Nat
    <3>1. Sample \in SUBSET DOMAIN pool
      BY DEF Sample, Stratum
    <3>2. IsFiniteSet(DOMAIN pool)
      BY StrataAre DEF Reviewing
    <3>3. Sample \cap Excluded \in SUBSET DOMAIN pool
      BY <3>1
    <3>4. SampleSize \in Nat
      BY SizeOfSample DEF Reviewing
    <3> QED BY <3>2, <3>3, <3>4, FS_Subset, FS_CardinalityType, PreferencesAssumption
  <2>2. Cardinality(Sample \cap Excluded) * Tolerance \in Nat
    BY <2>1
  <2>3. ~(Cardinality(Sample \cap Excluded) * Tolerance > SampleSize)
    BY <1>2 DEF Blocked
  <2> QED BY <2>1, <2>2, <2>3
<1>6. \A i \in DOMAIN input' : input'[i] \in DOMAIN pool /\ (input'[i] \in DOMAIN review => review[input'[i]] = "pass")
  <2> DEFINE S == applied.training \ overflow
  <2>1. S \in SUBSET Tasks
    BY <1>2 DEF Reviewing, Classed
  <2>2. input' = Ordered(S)
    BY DEF Bind
  <2>3. S \subseteq DOMAIN pool /\ \A t \in S : t \in DOMAIN review => review[t] = "pass"
    BY <1>2 DEF Excluded
  <2> HIDE DEF S
  <2>4. Ordered(S) \in Seq(S)
    BY <2>1, OrderedTyped
  <2>5. \A i \in DOMAIN input' : input'[i] \in S
    BY <2>2, <2>4
  <2> QED BY <2>3, <2>5
<1> QED BY <1>1, <1>3, <1>4, <1>5, <1>6 DEF Bound

LEMMA ReviewingKept == ASSUME Reviewing, [Next]_vars PROVE Reviewing'
<1>1. ASSUME NEW k, NEW near, Build(k, near) PROVE Reviewing'
  BY <1>1 DEF Reviewing, Build, Classed, Bound
<1>2. ASSUME NEW own, NEW clones, Package([t \in Tasks |-> Registry \cup own[t]], clones) PROVE Reviewing'
  BY <1>2 DEF Reviewing, Package, Classed, Bound
<1>3. ASSUME NEW S \in SUBSET kept, NEW pairs \in [S -> {Classes[c] : c \in DOMAIN Classes}], Extract(pairs)
      PROVE  Reviewing'
  BY <1>3 DEF Reviewing, Extract, Classed, Bound
<1>4. ASSUME NEW judgments, Judge(judgments) PROVE Reviewing'
  BY <1>4 DEF Reviewing, Judge, Classed, Bound
<1>5. CASE Apply
  BY <1>5 DEF Reviewing, Apply, Classed, Bound
<1>6. ASSUME NEW overflow, Bind(overflow) PROVE Reviewing'
  <2>1. Bound'
    BY <1>6, BindBinds
  <2>2. kept' = kept /\ pool' = pool
    BY <1>6 DEF Bind
  <2> QED BY <2>1, <2>2 DEF Reviewing, Classed
<1>7. ASSUME NEW s, NEW kind, NEW every, NEW stop, NEW from, Begin(s, kind, every, stop, from) PROVE Reviewing'
  BY <1>7 DEF Reviewing, Begin, Classed, Bound
<1>8. CASE UNCHANGED preferenceVars
  <2>1. UNCHANGED <<stage, pool, review, input, kept>>
    BY <1>8 DEF preferenceVars
  <2>2. Bound'
    BY <2>1, BoundKept DEF Reviewing
  <2> QED BY <2>1, <2>2 DEF Reviewing, Classed
<1>9. CASE Prepare
  BY <1>1, <1>2, <1>3, <1>4, <1>5, <1>6, <1>9 DEF Prepare
<1>10. CASE Child \/ Supervise
  BY <1>8, <1>10 DEF Child, Supervise, Lease, Inspect, Load, Train, SaveBegin, SaveEnd, Rotate, Seal, Report,
        ChildFails, ChildExits, ChildDies, Receive, Joined, GiveUp, Kill, Receipt, ParentDies
<1>11. CASE Ask
  BY <1>7, <1>11 DEF Ask
<1>12. CASE UNCHANGED vars
  BY <1>8, <1>12 DEF vars
<1> QED BY <1>9, <1>10, <1>11, <1>12 DEF Next

\* What is bound for training was reviewed: the judgments that stand when it is
\* bound cover a sample of the size that is due, with every error class, which
\* failed no more often than tolerated, and none of them rejects or doubts a pair
\* that is trained; for any pool, and any number of classes it is drawn from
\* (freeze_review, apply_review, bind_input).
THEOREM ReviewedTrains == Spec => []OnlyReviewedTrains
<1>1. Init => Reviewing
  BY DEF Init, PreferencesInit, Reviewing, Classed, Bound
<1>2. Reviewing /\ [Next]_vars => Reviewing'
  BY ReviewingKept
<1>3. Reviewing => OnlyReviewedTrains
  BY SampleIsFull DEF Reviewing, Bound, OnlyReviewedTrains
<1> QED BY <1>1, <1>2, <1>3, PTL DEF Spec
=============================================================================
