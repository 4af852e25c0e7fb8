---------------------------- MODULE BatchProofs ----------------------------
(***************************************************************************)
(* That nothing is run twice over any number of segments, units and        *)
(* requests, that a row once recorded says the same in every later         *)
(* directory, and that a report says of each request what became of it, as *)
(* long as a segment resumes only from one that finished its import.       *)
(***************************************************************************)
EXTENDS Batch, TLAPS

InUnit == {"unit", "requests", "ask", "answer"}
PCs == {"idle", "import", "settle", "loop"} \cup InUnit

\* As much of a type as the proof needs.
TypeOK ==
  /\ DOMAIN dirs = Segments
  /\ \A s \in Segments :
       /\ DOMAIN dirs[s] = {"imported", "started", "rows", "results", "report"}
       /\ dirs[s].imported \in BOOLEAN
  /\ segment \in 0 .. MaxSegments /\ pc \in PCs /\ (pc # "idle" => segment \in Segments)
  /\ limit \in Nat /\ unit \in Nat \ {0} /\ request \in Nat \ {0}
  /\ ran \in [Units -> Nat] /\ asked \in [Units \X Requests -> Nat]
  /\ limit <= MaxUnits

\* A directory that has the started file of every unit that was ever run.
Knows(d) == \A u \in Units : ran[u] > 0 => <<u, 0>> \in d.started

IsNewest(s) ==
  /\ s \in 1 .. segment /\ dirs[s].imported
  /\ \A t \in 1 .. segment : dirs[t].imported => t <= s

\* What the next segment resumes from knows of everything that was run.
Handover ==
  /\ \/ \E s \in 1 .. segment : IsNewest(s) /\ Knows(dirs[s])
     \/ /\ \A s \in 1 .. segment : ~dirs[s].imported
        /\ \A u \in Units : ran[u] = 0
  /\ \A s \in Segments : s > segment => ~dirs[s].imported /\ dirs[s].started = {}

\* What the current segment knows, by the place where it is.
Importing ==
  /\ pc \in {"import", "settle"} => ~Here.imported
  /\ pc = "import" => unit = 1
  /\ pc = "import" =>
       \A u \in Units : ran[u] > 0 => <<u, 0>> \in Here.started \/ File(u, 0, "started") \in todo
  /\ pc = "settle" =>
       /\ Knows(Here)
       /\ \A u \in Units : u < unit /\ <<u, 0>> \in Here.started => u \in records
Looping ==
  /\ pc \in {"loop"} \cup InUnit =>
       /\ Here.imported
       /\ \A u \in Units : <<u, 0>> \in Here.started => u \in records \/ (pc \in InUnit /\ u = unit)
  /\ pc \in InUnit => unit \in Units /\ <<unit, 0>> \in Here.started
  /\ pc = "unit" => ran[unit] = 0

\* A request is asked within the only run of its unit, each in its turn.
Asking ==
  /\ \A u \in Units, r \in Requests : asked[<<u, r>>] > 0 => ran[u] > 0
  /\ pc \in {"ask", "answer"} => request \in Requests
  /\ pc \in {"requests", "ask"} => \A r \in Requests : r >= request => asked[<<unit, r>>] = 0
  /\ pc = "answer" => \A r \in Requests : r > request => asked[<<unit, r>>] = 0
  /\ pc \in {"requests", "ask", "answer"} => ran[unit] = 1

BInv == TypeOK /\ Handover /\ Importing /\ Looping /\ Asking /\ NeverRetried

LEMMA Numbers == MaxUnits \in Nat \ {0} /\ MaxRequests \in Nat /\ MaxSegments \in Nat
BY BatchAssumption DEF BatchAssumption

LEMMA Initially == Init => BInv
<1> SUFFICES ASSUME Init PROVE BInv
  OBVIOUS
<1>1. \A s \in Segments : dirs[s] = EmptyDirectory
  BY DEF Init
<1>2. \A s \in Segments : dirs[s].imported = FALSE /\ dirs[s].started = {}
                          /\ DOMAIN dirs[s] = {"imported", "started", "rows", "results", "report"}
  BY <1>1 DEF EmptyDirectory
<1>3. DOMAIN dirs = Segments /\ segment = 0 /\ pc = "idle" /\ limit = 0 /\ unit = 1 /\ request = 1
      /\ source = 0 /\ records = {}
      /\ ran = [u \in Units |-> 0] /\ asked = [p \in Units \X Requests |-> 0]
  BY DEF Init
<1>4. TypeOK
  <2>1. ran \in [Units -> Nat] /\ asked \in [Units \X Requests -> Nat]
    BY <1>3
  <2>2. limit <= MaxUnits /\ limit \in Nat /\ unit \in Nat \ {0} /\ request \in Nat \ {0}
    BY <1>3, Numbers
  <2>3. segment \in 0 .. MaxSegments
    BY <1>3, Numbers
  <2>4. pc \in PCs /\ (pc # "idle" => segment \in Segments)
    BY <1>3 DEF PCs
  <2>5. \A s \in Segments :
          /\ DOMAIN dirs[s] = {"imported", "started", "rows", "results", "report"}
          /\ dirs[s].imported \in BOOLEAN
    BY <1>2
  <2> QED BY <1>3, <2>1, <2>2, <2>3, <2>4, <2>5 DEF TypeOK
<1>5. Handover /\ Importing /\ Looping /\ Asking /\ NeverRetried
  BY <1>2, <1>3, Numbers DEF Handover, Importing, Looping, Asking, NeverRetried, InUnit, Units, Requests
<1> QED BY <1>4, <1>5 DEF BInv

----------------------------------------------------------------------------
(* What an action does to the directories, as far as the invariant sees.   *)

\* Only the current directory is written: what it now says, and that every
\* other one stays.
Becomes(imported, started) ==
  /\ DOMAIN dirs' = Segments
  /\ \A s \in Segments : DOMAIN dirs'[s] = {"imported", "started", "rows", "results", "report"}
  /\ dirs'[segment].imported = imported /\ dirs'[segment].started = started
  /\ \A s \in Segments \ {segment} :
       dirs'[s].imported = dirs[s].imported /\ dirs'[s].started = dirs[s].started

LEMMA WriteIs ==
  ASSUME TypeOK, pc # "idle", NEW d, Write(d),
         DOMAIN d = {"imported", "started", "rows", "results", "report"}
  PROVE  Becomes(d.imported, d.started)
<1>1. segment \in Segments /\ DOMAIN dirs = Segments
  BY DEF TypeOK
<1>2. dirs' = [dirs EXCEPT ![segment] = d]
  BY DEF Write
<1>3. dirs'[segment] = d /\ DOMAIN dirs' = Segments /\ \A s \in Segments \ {segment} : dirs'[s] = dirs[s]
  BY <1>1, <1>2
<1> QED BY <1>1, <1>3 DEF TypeOK, Becomes

LEMMA StayIs ==
  ASSUME TypeOK, pc # "idle", dirs' = dirs
  PROVE  Becomes(Here.imported, Here.started)
BY DEF TypeOK, Becomes, Here

\* While the segment does not finish its import and only adds to its files,
\* what the next one will resume from is as good as before.
LEMMA HandoverKept ==
  ASSUME BInv, pc # "idle", NEW started, Becomes(Here.imported, started), Here.started \subseteq started,
         segment' = segment, ran' \in [Units -> Nat],
         \A u \in Units : ran'[u] > 0 => ran[u] > 0 \/ (Here.imported /\ <<u, 0>> \in started)
  PROVE  Handover'
<1>1. segment \in Segments /\ segment \in 1 .. segment /\ Segments \subseteq Nat /\ 1 .. segment \subseteq Segments
  BY Numbers DEF BInv, TypeOK, Segments
<1>2. \A s \in Segments : dirs'[s].imported = dirs[s].imported /\ dirs[s].started \subseteq dirs'[s].started
  BY <1>1 DEF Becomes, Here
<1>3. \A s \in Segments : s > segment => ~dirs'[s].imported /\ dirs'[s].started = {}
  BY <1>1 DEF Becomes, BInv, Handover
<1>4. CASE \E s \in 1 .. segment : IsNewest(s) /\ Knows(dirs[s])
  <2>1. PICK s \in 1 .. segment : IsNewest(s) /\ Knows(dirs[s])
    BY <1>4
  <2>2. s \in Segments /\ IsNewest(s)'
    BY <1>1, <1>2, <2>1 DEF IsNewest
  <2>3. Here.imported => s = segment
    BY <1>1, <2>1 DEF IsNewest, Here
  <2>4. \A u \in Units : ran'[u] > 0 => <<u, 0>> \in dirs'[s].started
    <3> SUFFICES ASSUME NEW u \in Units, ran'[u] > 0 PROVE <<u, 0>> \in dirs'[s].started
      OBVIOUS
    <3>1. CASE ran[u] > 0
      BY <3>1, <2>1, <2>2, <1>2 DEF Knows
    <3>2. CASE Here.imported /\ <<u, 0>> \in started
      BY <3>2, <2>3 DEF Becomes
    <3> QED BY <3>1, <3>2
  <2>5. Knows(dirs[s])'
    BY <2>4 DEF Knows
  <2> QED BY <1>3, <2>2, <2>5, <2>1 DEF Handover
<1>5. CASE /\ \A s \in 1 .. segment : ~dirs[s].imported
           /\ \A u \in Units : ran[u] = 0
  <2>1. \A s \in 1 .. segment : ~dirs'[s].imported
    BY <1>1, <1>2, <1>5
  <2>2. ~Here.imported /\ ran' \in [Units -> Nat] /\ \A u \in Units : ran[u] = 0
    BY <1>1, <1>5 DEF Here
  <2>3. \A u \in Units : ran'[u] \in Nat /\ ~(ran'[u] > 0)
    <3> SUFFICES ASSUME NEW u \in Units PROVE ran'[u] \in Nat /\ ~(ran'[u] > 0)
      OBVIOUS
    <3>1. ran'[u] \in Nat
      BY <2>2
    <3>2. ran[u] = 0 /\ ~Here.imported
      BY <2>2
    <3>3. ~(ran[u] > 0)
      BY <3>2
    <3>4. ~(ran'[u] > 0)
      BY <3>2, <3>3, Zenon
    <3> QED BY <3>1, <3>4
  <2>4. \A u \in Units : ran'[u] = 0
    BY <2>3
  <2> QED BY <1>3, <2>1, <2>4 DEF Handover
<1> QED BY <1>4, <1>5 DEF BInv, Handover

\* Once the import is finished, the current directory is the newest and
\* knows of everything that was run.
LEMMA HereKnows == ASSUME BInv, pc # "idle", Here.imported PROVE Knows(Here)
<1>1. segment \in Segments /\ segment \in 1 .. segment
  BY Numbers DEF BInv, TypeOK, Segments
<1>2. PICK s \in 1 .. segment : IsNewest(s) /\ Knows(dirs[s])
  BY <1>1 DEF BInv, Handover, Here
<1>3. s = segment
  BY <1>1, <1>2 DEF IsNewest, Here
<1> QED BY <1>2, <1>3 DEF Here

----------------------------------------------------------------------------
(* The segments begin and end.                                             *)

LEMMA BeginKeeps == ASSUME BInv, ~ResumePartial, Begin PROVE BInv'
<1> USE DEF Begin
<1>1. /\ segment \in Nat /\ segment < MaxSegments /\ segment' = segment + 1 /\ segment' \in Segments
      /\ 1 .. segment \subseteq Segments /\ \A s \in 1 .. segment' : s = segment' \/ s \in 1 .. segment
  BY Numbers DEF BInv, TypeOK, Segments
<1>2. dirs' = dirs /\ ran' = ran /\ asked' = asked /\ pc' = "import" /\ unit' = 1 /\ request' = 1
  OBVIOUS
<1>3. limit' \in Nat /\ limit' <= MaxUnits
  BY Numbers DEF Units
<1>4. TypeOK'
  BY <1>1, <1>2, <1>3, Numbers DEF BInv, TypeOK, PCs, Segments
<1>5. ~dirs[segment'].imported /\ dirs[segment'].started = {}
  BY <1>1 DEF BInv, Handover
<1>6. Handover'
  <2>1. \A s \in Segments : s > segment' => ~dirs'[s].imported /\ dirs'[s].started = {}
    BY <1>1, <1>2 DEF BInv, Handover, Segments
  <2>2. CASE \E s \in 1 .. segment : IsNewest(s) /\ Knows(dirs[s])
    <3>1. PICK s \in 1 .. segment : IsNewest(s) /\ Knows(dirs[s])
      BY <2>2
    <3>2. s \in 1 .. segment'
      BY <1>1
    <3>3. IsNewest(s)' /\ Knows(dirs[s])'
      BY <1>1, <1>2, <1>5, <3>1, <3>2 DEF IsNewest, Knows
    <3> QED BY <2>1, <3>2, <3>3 DEF Handover
  <2>3. CASE /\ \A s \in 1 .. segment : ~dirs[s].imported
             /\ \A u \in Units : ran[u] = 0
    BY <1>1, <1>2, <1>5, <2>1, <2>3 DEF Handover
  <2> QED BY <2>2, <2>3 DEF BInv, Handover
<1>7. \A u \in Units : ran[u] > 0 => File(u, 0, "started") \in todo'
  <2> SUFFICES ASSUME NEW u \in Units, ran[u] > 0 PROVE File(u, 0, "started") \in todo'
    OBVIOUS
  <2>1. PICK s \in 1 .. segment : IsNewest(s) /\ Knows(dirs[s])
    BY DEF BInv, Handover
  <2>2. Resumable # {} /\ s \in Resumable
    BY <2>1 DEF Resumable, IsNewest
  <2>3. Newest(Resumable) = s
    <3>1. \A t \in Resumable : t \in 1 .. segment /\ dirs[t].imported
      BY DEF Resumable
    <3>2. \A t \in Resumable : t <= s
      BY <2>1, <3>1 DEF IsNewest
    <3>3. \A n \in Resumable : (\A t \in Resumable : t <= n) => n = s
      BY <1>1, <2>2, <3>1, <3>2
    <3> QED BY <2>2, <3>2, <3>3 DEF Newest
  <2>4. todo' = FilesOf(dirs[s])
    BY <2>2, <2>3
  <2>5. <<u, 0>> \in dirs[s].started
    BY <2>1 DEF Knows
  <2> QED BY <2>4, <2>5 DEF FilesOf
<1>8. Importing'
  BY <1>1, <1>2, <1>5, <1>7 DEF Importing, Here
<1>9. (Looping /\ Asking /\ NeverRetried)'
  BY <1>2 DEF BInv, Looping, InUnit, Asking, NeverRetried
<1> QED BY <1>4, <1>6, <1>8, <1>9 DEF BInv

\* The segment ends, on a report or not: its directory stays as it is.
LEMMA IdleKeeps ==
  ASSUME BInv, pc # "idle", pc' = "idle", Becomes(Here.imported, Here.started),
         segment' = segment, limit' = limit, unit' = unit, request' = request,
         ran' = ran, asked' = asked
  PROVE  BInv'
<1>1. TypeOK'
  BY DEF BInv, TypeOK, PCs, Becomes, Here
<1>2. Handover'
  BY HandoverKept DEF BInv, TypeOK
<1>3. (Importing /\ Looping /\ Asking /\ NeverRetried)'
  BY DEF BInv, Importing, Looping, InUnit, Asking, NeverRetried
<1> QED BY <1>1, <1>2, <1>3 DEF BInv

LEMMA DieKeeps == ASSUME BInv, Die PROVE BInv'
BY StayIs, IdleKeeps DEF Die, loop, BInv

LEMMA ExportKeeps == ASSUME BInv, Export PROVE BInv'
<1>1. pc # "idle" /\ segment \in Segments /\ DOMAIN Here = {"imported", "started", "rows", "results", "report"}
  BY DEF Export, BInv, TypeOK, Here
<1>2. PICK r : Write([Here EXCEPT !.report = r])
  BY DEF Export
<1> DEFINE d == [Here EXCEPT !.report = r]
<1>3. d.imported = Here.imported /\ d.started = Here.started /\ DOMAIN d = DOMAIN Here
  BY <1>1
<1>4. Write(d)
  BY <1>2
<1> HIDE DEF d
<1>5. Becomes(Here.imported, Here.started)
  BY <1>1, <1>3, <1>4, WriteIs DEF BInv
<1> QED BY <1>1, <1>5, IdleKeeps DEF Export, loop

----------------------------------------------------------------------------
(* The import.                                                             *)

LEMMA ImportFileKeeps == ASSUME BInv, ImportFile PROVE BInv'
<1>1. /\ pc = "import" /\ pc' = pc /\ segment' = segment /\ limit' = limit /\ unit' = unit /\ request' = request
      /\ ran' = ran /\ asked' = asked /\ segment \in Segments /\ ~Here.imported
      /\ DOMAIN Here = {"imported", "started", "rows", "results", "report"}
  BY DEF ImportFile, BInv, TypeOK, Importing, Here
<1>2. PICK f \in todo :
        /\ todo' = todo \ {f}
        /\ LET place == <<f.unit, f.request>>
           IN Write(IF f.kind = "started" THEN [Here EXCEPT !.started = @ \cup {place}]
                    ELSE IF f.request = 0 THEN [Here EXCEPT !.rows[f.unit] = dirs[source].rows[f.unit]]
                    ELSE [Here EXCEPT !.results[place] = dirs[source].results[place]])
  BY DEF ImportFile
<1> DEFINE d == IF f.kind = "started" THEN [Here EXCEPT !.started = @ \cup {<<f.unit, f.request>>}]
                ELSE IF f.request = 0 THEN [Here EXCEPT !.rows[f.unit] = dirs[source].rows[f.unit]]
                ELSE [Here EXCEPT !.results[<<f.unit, f.request>>] = dirs[source].results[<<f.unit, f.request>>]]
<1>3. /\ DOMAIN d = DOMAIN Here /\ d.imported = Here.imported /\ Here.started \subseteq d.started
      /\ f.kind = "started" => <<f.unit, f.request>> \in d.started
  <2>1. CASE f.kind = "started"
    BY <1>1, <2>1
  <2>2. CASE f.kind # "started" /\ f.request = 0
    BY <1>1, <2>2
  <2>3. CASE f.kind # "started" /\ f.request # 0
    BY <1>1, <2>3
  <2> QED BY <2>1, <2>2, <2>3
<1>4. Write(d)
  BY <1>2
<1> HIDE DEF d
<1>5. Becomes(Here.imported, d.started)
  BY <1>1, <1>3, <1>4, WriteIs DEF BInv
<1>6. TypeOK'
  BY <1>1, <1>3, <1>5 DEF BInv, TypeOK, Becomes, Here
<1>7. Handover'
  BY <1>1, <1>3, <1>5, HandoverKept DEF BInv, TypeOK
<1>8. ~Here'.imported /\ Here'.started = d.started
  BY <1>1, <1>5 DEF Becomes, Here
<1>9. Importing'
  <2>1. ASSUME NEW u \in Units, ran[u] > 0
        PROVE  <<u, 0>> \in d.started \/ File(u, 0, "started") \in todo'
    <3>1. CASE <<u, 0>> \in Here.started
      BY <3>1, <1>3
    <3>2. CASE File(u, 0, "started") = f
      BY <3>2, <1>3 DEF File
    <3>3. CASE File(u, 0, "started") \in todo \ {f}
      BY <3>3, <1>2
    <3> QED BY <1>1, <2>1, <3>1, <3>2, <3>3 DEF BInv, Importing
  <2>2. unit' = 1
    BY <1>1 DEF BInv, Importing
  <2> QED BY <1>1, <1>8, <2>1, <2>2 DEF Importing
<1>10. (Looping /\ Asking /\ NeverRetried)'
  BY <1>1 DEF BInv, Looping, InUnit, Asking, NeverRetried
<1> QED BY <1>6, <1>7, <1>9, <1>10 DEF BInv

LEMMA ImportedKeeps == ASSUME BInv, Imported PROVE BInv'
<1>1. /\ pc = "import" /\ pc' = "settle" /\ segment' = segment /\ limit' = limit /\ unit' = unit
      /\ request' = request /\ ran' = ran /\ asked' = asked /\ dirs' = dirs /\ todo = {}
  BY DEF Imported, loop
<1>2. Becomes(Here.imported, Here.started)
  BY <1>1, StayIs DEF BInv
<1>3. TypeOK'
  BY <1>1 DEF BInv, TypeOK, PCs
<1>4. Handover'
  BY <1>1, <1>2, HandoverKept DEF BInv, TypeOK
<1>5. unit = 1
  BY <1>1 DEF BInv, Importing
<1>6. \A u \in Units : ~(u < 1)
  BY Numbers DEF Units
<1>7. Importing'
  BY <1>1, <1>5, <1>6 DEF BInv, Importing, Knows, Here
<1>8. (Looping /\ Asking /\ NeverRetried)'
  BY <1>1 DEF BInv, Looping, InUnit, Asking, NeverRetried
<1> QED BY <1>3, <1>4, <1>7, <1>8 DEF BInv

LEMMA SettleUnitKeeps == ASSUME BInv, SettleUnit PROVE BInv'
<1>1. /\ pc = "settle" /\ pc' = pc /\ segment' = segment /\ limit' = limit /\ unit' = unit + 1
      /\ request' = request /\ ran' = ran /\ asked' = asked /\ unit \in Nat \ {0} /\ ~Here.imported
      /\ DOMAIN Here = {"imported", "started", "rows", "results", "report"}
  BY DEF SettleUnit, BInv, TypeOK, Importing, Here
<1>2. Becomes(Here.imported, Here.started)
  <2>1. CASE dirs' = dirs
    BY <1>1, <2>1, StayIs DEF BInv
  <2>2. CASE dirs' # dirs
    <3>1. Write([Here EXCEPT !.rows[unit] = Row("interrupted", RequestRows(Here, unit))])
      BY <2>2 DEF SettleUnit
    <3> DEFINE d == [Here EXCEPT !.rows[unit] = Row("interrupted", RequestRows(Here, unit))]
    <3>2. DOMAIN d = DOMAIN Here /\ d.imported = Here.imported /\ d.started = Here.started
      BY <1>1
    <3>3. Write(d)
      BY <3>1
    <3> HIDE DEF d
    <3> QED BY <1>1, <3>2, <3>3, WriteIs DEF BInv
  <2> QED BY <2>1, <2>2
<1>3. TypeOK'
  BY <1>1, <1>2 DEF BInv, TypeOK, Becomes, Here
<1>4. Handover'
  BY <1>1, <1>2, HandoverKept DEF BInv, TypeOK
<1>5. ~Here'.imported /\ Here'.started = Here.started
  BY <1>1, <1>2 DEF Becomes, Here
<1>6. Importing'
  <2>1. ASSUME NEW u \in Units, u < unit + 1, <<u, 0>> \in Here.started
        PROVE  u \in records'
    <3>1. CASE u = unit
      BY <2>1, <3>1 DEF SettleUnit, Began
    <3>2. CASE u # unit
      <4>1. u < unit
        BY <1>1, <2>1, <3>2 DEF Units
      <4>2. u \in records
        BY <1>1, <2>1, <4>1 DEF BInv, Importing
      <4> QED BY <4>2 DEF SettleUnit
    <3> QED BY <3>1, <3>2
  <2>2. Knows(Here)'
    BY <1>1, <1>5 DEF BInv, Importing, Knows
  <2> QED BY <1>1, <1>5, <2>1, <2>2 DEF Importing
<1>7. (Looping /\ Asking /\ NeverRetried)'
  BY <1>1 DEF BInv, Looping, InUnit, Asking, NeverRetried
<1> QED BY <1>3, <1>4, <1>6, <1>7 DEF BInv

LEMMA SettledKeeps == ASSUME BInv, Settled PROVE BInv'
<1>1. /\ pc = "settle" /\ pc' = "loop" /\ segment' = segment /\ limit' = limit /\ unit' = 1
      /\ request' = request /\ ran' = ran /\ asked' = asked /\ unit \in Nat /\ unit > MaxUnits
      /\ records' = records /\ segment \in Segments
      /\ DOMAIN Here = {"imported", "started", "rows", "results", "report"}
  BY DEF Settled, BInv, TypeOK, Here
<1> DEFINE d == [Here EXCEPT !.imported = TRUE]
<1>2. DOMAIN d = DOMAIN Here /\ d.imported = TRUE /\ d.started = Here.started
  BY <1>1
<1>3. Write(d)
  BY DEF Settled
<1> HIDE DEF d
<1>4. Becomes(TRUE, Here.started)
  BY <1>1, <1>2, <1>3, WriteIs DEF BInv
<1>5. TypeOK'
  <2>1. \A s \in Segments : dirs'[s].imported \in BOOLEAN
    BY <1>4 DEF BInv, TypeOK, Becomes
  <2> QED BY <1>1, <1>4, <2>1 DEF BInv, TypeOK, Becomes, PCs
<1>6. dirs'[segment].imported /\ dirs'[segment].started = Here.started
  BY <1>4 DEF Becomes
<1>7. Handover'
  <2>1. segment \in 1 .. segment /\ \A t \in 1 .. segment : t <= segment
    BY <1>1 DEF Segments
  <2>2. IsNewest(segment)'
    BY <1>1, <1>6, <2>1 DEF IsNewest
  <2>3. Knows(dirs[segment])'
    BY <1>1, <1>6 DEF BInv, Importing, Knows
  <2>4. \A s \in Segments : s > segment => ~dirs'[s].imported /\ dirs'[s].started = {}
    <3>1. \A s \in Segments : s > segment => s # segment
      BY <1>1 DEF Segments
    <3> QED BY <1>4, <3>1 DEF Becomes, BInv, Handover
  <2> QED BY <1>1, <2>1, <2>2, <2>3, <2>4 DEF Handover
<1>8. Importing'
  BY <1>1 DEF Importing
<1>9. Looping'
  <2>1. \A u \in Units : u < unit
    BY <1>1, Numbers DEF Units
  <2> QED BY <1>1, <1>6, <2>1 DEF BInv, Importing, Looping, InUnit, Here
<1>10. (Asking /\ NeverRetried)'
  BY <1>1 DEF BInv, Asking, NeverRetried
<1> QED BY <1>5, <1>7, <1>8, <1>9, <1>10 DEF BInv

----------------------------------------------------------------------------
(* The loop over the units and their requests.                             *)

LEMMA SkipKeeps == ASSUME BInv, Skip PROVE BInv'
<1>1. /\ pc = "loop" /\ pc' = pc /\ segment' = segment /\ limit' = limit /\ unit' = unit + 1
      /\ request' = request /\ ran' = ran /\ asked' = asked /\ dirs' = dirs /\ records' = records
  BY DEF Skip
<1>2. Becomes(Here.imported, Here.started)
  BY <1>1, StayIs DEF BInv
<1>3. TypeOK'
  BY <1>1 DEF BInv, TypeOK, PCs
<1>4. Handover'
  BY <1>1, <1>2, HandoverKept DEF BInv, TypeOK
<1>5. (Importing /\ Looping)'
  BY <1>1 DEF BInv, Importing, Looping, InUnit, Here
<1>6. (Asking /\ NeverRetried)'
  BY <1>1 DEF BInv, Asking, NeverRetried
<1> QED BY <1>3, <1>4, <1>5, <1>6 DEF BInv

\* The unit that starts was never run: what was run is started here, and what
\* is started here has its row.
LEMMA StartUnitKeeps == ASSUME BInv, StartUnit PROVE BInv'
<1>1. /\ pc = "loop" /\ pc' = "unit" /\ segment' = segment /\ limit' = limit /\ unit' = unit
      /\ request' = request /\ ran' = ran /\ asked' = asked /\ records' = records /\ unit \notin records
      /\ segment \in Segments /\ DOMAIN Here = {"imported", "started", "rows", "results", "report"}
      /\ unit \in Nat \ {0} /\ unit <= limit /\ limit \in Nat /\ limit <= MaxUnits
  BY DEF StartUnit, loop, BInv, TypeOK, Here
<1>2. unit \in Units
  BY <1>1, Numbers DEF Units
<1>3. Here.imported /\ <<unit, 0>> \notin Here.started
  BY <1>1, <1>2 DEF BInv, Looping, InUnit
<1>4. ran[unit] = 0
  <2>1. ran[unit] \in Nat
    BY <1>2 DEF BInv, TypeOK
  <2>2. ~(ran[unit] > 0)
    BY <1>1, <1>2, <1>3, HereKnows DEF Knows
  <2> QED BY <2>1, <2>2
<1> DEFINE d == [Here EXCEPT !.started = @ \cup {<<unit, 0>>}]
<1>5. DOMAIN d = DOMAIN Here /\ d.imported = Here.imported /\ d.started = Here.started \cup {<<unit, 0>>}
  BY <1>1
<1>6. Write(d)
  BY DEF StartUnit
<1> HIDE DEF d
<1>7. Becomes(Here.imported, Here.started \cup {<<unit, 0>>})
  BY <1>1, <1>5, <1>6, WriteIs DEF BInv
<1>8. TypeOK'
  BY <1>1, <1>7 DEF BInv, TypeOK, Becomes, PCs, InUnit, Here
<1>9. Handover'
  <2>1. Here.started \subseteq Here.started \cup {<<unit, 0>>}
    OBVIOUS
  <2> QED BY <1>1, <1>7, <2>1, HandoverKept DEF BInv, TypeOK
<1>10. Here'.imported /\ Here'.started = Here.started \cup {<<unit, 0>>}
  BY <1>1, <1>3, <1>7 DEF Becomes, Here
<1>11. Importing' /\ Looping'
  <2>1. \A u \in Units : <<u, 0>> \in Here'.started => u \in records \/ u = unit
    BY <1>1, <1>10 DEF BInv, Looping
  <2> QED BY <1>1, <1>2, <1>4, <1>10, <2>1 DEF Importing, Looping, InUnit
<1>12. (Asking /\ NeverRetried)'
  BY <1>1 DEF BInv, Asking, NeverRetried
<1> QED BY <1>8, <1>9, <1>11, <1>12 DEF BInv

\* Within its unit, an action leaves the records, and adds to the started files
\* only those of requests.
InUnitStep(started) ==
  /\ pc \in InUnit /\ pc' \in InUnit \ {"unit"}
  /\ segment' = segment /\ limit' = limit /\ unit' = unit /\ records' = records
  /\ request' \in Nat \ {0}
  /\ Becomes(Here.imported, started) /\ Here.started \subseteq started
  /\ \A u \in Units : <<u, 0>> \in started => <<u, 0>> \in Here.started

LEMMA InUnitKeeps ==
  ASSUME BInv, NEW started, InUnitStep(started),
         ran' \in [Units -> Nat], asked' \in [Units \X Requests -> Nat],
         \A u \in Units : ran'[u] > 0 => ran[u] > 0 \/ u = unit
  PROVE  (TypeOK /\ Handover /\ Importing /\ Looping)'
<1>1. /\ pc \in InUnit /\ pc # "idle" /\ pc' \in PCs /\ segment' = segment /\ segment \in Segments
      /\ Here.imported /\ unit \in Units /\ <<unit, 0>> \in Here.started
  BY DEF BInv, InUnitStep, Looping, InUnit, TypeOK, PCs
<1>2. TypeOK'
  <2>1. \A s \in Segments : dirs'[s].imported \in BOOLEAN
    BY <1>1 DEF BInv, TypeOK, InUnitStep, Becomes, Here
  <2> QED BY <1>1, <2>1 DEF BInv, TypeOK, InUnitStep, Becomes
<1>3. Handover'
  BY <1>1, HandoverKept DEF InUnitStep
<1>4. Here'.imported /\ Here'.started = started
  BY <1>1 DEF InUnitStep, Becomes, Here
<1>5. Importing' /\ Looping'
  <2>1. \A u \in Units : <<u, 0>> \in started => u \in records \/ u = unit
    BY <1>1 DEF BInv, Looping, InUnitStep
  <2>2. <<unit, 0>> \in started /\ pc' # "unit" /\ pc' \in InUnit /\ unit' = unit /\ records' = records
    BY <1>1 DEF InUnitStep
  <2> QED BY <1>1, <1>4, <2>1, <2>2 DEF Importing, Looping, InUnit
<1> QED BY <1>2, <1>3, <1>5

LEMMA RunUnitKeeps == ASSUME BInv, RunUnit PROVE BInv'
<1>1. /\ pc = "unit" /\ pc' = "requests" /\ segment' = segment /\ limit' = limit /\ unit' = unit
      /\ request' = 1 /\ asked' = asked /\ records' = records /\ dirs' = dirs
      /\ ran' = [ran EXCEPT ![unit] = @ + 1] /\ unit \in Units /\ ran \in [Units -> Nat] /\ ran[unit] = 0
      /\ asked \in [Units \X Requests -> Nat]
  BY DEF RunUnit, BInv, TypeOK, Looping, InUnit
<1>2. /\ ran' \in [Units -> Nat] /\ ran'[unit] = 1 /\ \A u \in Units \ {unit} : ran'[u] = ran[u]
  BY <1>1
<1>3. InUnitStep(Here.started)
  BY <1>1, StayIs DEF InUnitStep, InUnit, BInv, TypeOK
<1>4. (TypeOK /\ Handover /\ Importing /\ Looping)'
  BY <1>1, <1>2, <1>3, InUnitKeeps
<1>5. \A r \in Requests : asked[<<unit, r>>] = 0
  <2> SUFFICES ASSUME NEW r \in Requests PROVE asked[<<unit, r>>] = 0
    OBVIOUS
  <2>1. asked[<<unit, r>>] \in Nat
    BY <1>1
  <2>2. ~(asked[<<unit, r>>] > 0)
    BY <1>1 DEF BInv, Asking
  <2> QED BY <2>1, <2>2
<1>6. Asking'
  <2>1. \A u \in Units, r \in Requests : asked[<<u, r>>] > 0 => ran'[u] > 0
    BY <1>2 DEF BInv, Asking
  <2> QED BY <1>1, <1>2, <1>5, <2>1 DEF Asking
<1>7. NeverRetried'
  BY <1>1, <1>2 DEF BInv, NeverRetried
<1> QED BY <1>4, <1>6, <1>7 DEF BInv

LEMMA StartRequestKeeps == ASSUME BInv, StartRequest PROVE BInv'
<1>1. /\ pc = "requests" /\ pc' = "ask" /\ segment' = segment /\ limit' = limit /\ unit' = unit
      /\ request' = request /\ asked' = asked /\ records' = records /\ ran' = ran
      /\ request \in Nat \ {0} /\ request <= MaxRequests /\ ran \in [Units -> Nat]
      /\ asked \in [Units \X Requests -> Nat]
      /\ DOMAIN Here = {"imported", "started", "rows", "results", "report"}
  BY DEF StartRequest, loop, BInv, TypeOK, Here
<1>2. request \in Requests
  BY <1>1, Numbers DEF Requests
<1> DEFINE d == [Here EXCEPT !.started = @ \cup {<<unit, request>>}]
<1>3. DOMAIN d = DOMAIN Here /\ d.imported = Here.imported /\ d.started = Here.started \cup {<<unit, request>>}
  BY <1>1
<1>4. Write(d)
  BY DEF StartRequest
<1> HIDE DEF d
<1>5. Becomes(Here.imported, Here.started \cup {<<unit, request>>})
  BY <1>1, <1>3, <1>4, WriteIs DEF BInv
<1>6. InUnitStep(Here.started \cup {<<unit, request>>})
  BY <1>1, <1>5 DEF InUnitStep, InUnit
<1>7. (TypeOK /\ Handover /\ Importing /\ Looping)'
  BY <1>1, <1>6, InUnitKeeps
<1>8. (Asking /\ NeverRetried)'
  BY <1>1, <1>2 DEF BInv, Asking, NeverRetried
<1> QED BY <1>7, <1>8 DEF BInv

LEMMA GenerateKeeps == ASSUME BInv, Generate PROVE BInv'
<1>1. /\ pc = "ask" /\ pc' = "answer" /\ segment' = segment /\ limit' = limit /\ unit' = unit
      /\ request' = request /\ records' = records /\ ran' = ran /\ dirs' = dirs
      /\ asked' = [asked EXCEPT ![<<unit, request>>] = @ + 1]
      /\ ran \in [Units -> Nat] /\ asked \in [Units \X Requests -> Nat]
      /\ unit \in Units /\ request \in Requests /\ request \in Nat \ {0} /\ ran[unit] = 1
  BY DEF Generate, BInv, TypeOK, Looping, Asking, InUnit
<1>2. asked[<<unit, request>>] = 0
  BY <1>1 DEF BInv, Asking
<1>3. /\ asked' \in [Units \X Requests -> Nat] /\ asked'[<<unit, request>>] = 1
      /\ \A p \in Units \X Requests : p # <<unit, request>> => asked'[p] = asked[p]
  BY <1>1, <1>2
<1>4. InUnitStep(Here.started)
  BY <1>1, StayIs DEF InUnitStep, InUnit, BInv
<1>5. (TypeOK /\ Handover /\ Importing /\ Looping)'
  BY <1>1, <1>3, <1>4, InUnitKeeps
<1>6. Asking'
  <2>1. \A u \in Units, r \in Requests : asked'[<<u, r>>] > 0 => ran[u] > 0
    <3> SUFFICES ASSUME NEW u \in Units, NEW r \in Requests, asked'[<<u, r>>] > 0 PROVE ran[u] > 0
      OBVIOUS
    <3>1. CASE u = unit
      BY <1>1, <3>1
    <3>2. CASE u # unit
      BY <1>3, <3>2 DEF BInv, Asking
    <3> QED BY <3>1, <3>2
  <2>2. \A r \in Requests : r > request => asked'[<<unit, r>>] = 0
    <3> SUFFICES ASSUME NEW r \in Requests, r > request PROVE asked'[<<unit, r>>] = 0
      OBVIOUS
    <3>1. r # request /\ r >= request
      BY <1>1 DEF Requests
    <3>2. asked'[<<unit, r>>] = asked[<<unit, r>>]
      BY <1>1, <1>3, <3>1
    <3> QED BY <1>1, <3>1, <3>2 DEF BInv, Asking
  <2> QED BY <1>1, <2>1, <2>2 DEF Asking
<1>7. NeverRetried'
  BY <1>1, <1>3 DEF BInv, NeverRetried
<1> QED BY <1>5, <1>6, <1>7 DEF BInv

LEMMA EndRequestKeeps == ASSUME BInv, EndRequest PROVE BInv'
<1>1. /\ pc = "answer" /\ pc' = "requests" /\ segment' = segment /\ limit' = limit /\ unit' = unit
      /\ request' = request + 1 /\ asked' = asked /\ records' = records /\ ran' = ran
      /\ request \in Nat \ {0} /\ request' \in Nat \ {0} /\ ran \in [Units -> Nat]
      /\ asked \in [Units \X Requests -> Nat]
      /\ DOMAIN Here = {"imported", "started", "rows", "results", "report"}
  BY DEF EndRequest, BInv, TypeOK, Here
<1> DEFINE d == [Here EXCEPT !.results[<<unit, request>>] = IF closed THEN "failed" ELSE "completed"]
<1>2. DOMAIN d = DOMAIN Here /\ d.imported = Here.imported /\ d.started = Here.started
  BY <1>1
<1>3. Write(d)
  BY DEF EndRequest
<1> HIDE DEF d
<1>4. Becomes(Here.imported, Here.started)
  BY <1>1, <1>2, <1>3, WriteIs DEF BInv
<1>5. InUnitStep(Here.started)
  BY <1>1, <1>4 DEF InUnitStep, InUnit
<1>6. (TypeOK /\ Handover /\ Importing /\ Looping)'
  BY <1>1, <1>5, InUnitKeeps
<1>7. \A r \in Requests : r >= request + 1 => r > request
  BY <1>1 DEF Requests
<1>8. Asking'
  BY <1>1, <1>7 DEF BInv, Asking
<1>9. NeverRetried'
  BY <1>1 DEF BInv, NeverRetried
<1> QED BY <1>6, <1>8, <1>9 DEF BInv

LEMMA EndUnitKeeps == ASSUME BInv, pc \in InUnit, NEW row, EndUnit(row) PROVE BInv'
<1>1. /\ pc # "idle" /\ pc' = "loop" /\ segment' = segment /\ limit' = limit /\ unit' = unit + 1
      /\ request' = request /\ asked' = asked /\ records' = records \cup {unit} /\ ran' = ran
      /\ segment \in Segments /\ Here.imported
      /\ DOMAIN Here = {"imported", "started", "rows", "results", "report"}
  BY DEF EndUnit, BInv, TypeOK, Looping, Here, InUnit
<1> DEFINE d == [Here EXCEPT !.rows[unit] = row]
<1>2. DOMAIN d = DOMAIN Here /\ d.imported = Here.imported /\ d.started = Here.started
  BY <1>1
<1>3. Write(d)
  BY DEF EndUnit
<1> HIDE DEF d
<1>4. Becomes(Here.imported, Here.started)
  BY <1>1, <1>2, <1>3, WriteIs DEF BInv
<1>5. TypeOK'
  <2>1. \A s \in Segments : dirs'[s].imported \in BOOLEAN
    BY <1>1, <1>4 DEF BInv, TypeOK, Becomes, Here
  <2>2. unit' \in Nat \ {0}
    BY <1>1 DEF BInv, TypeOK
  <2> QED BY <1>1, <1>4, <2>1, <2>2 DEF BInv, TypeOK, Becomes, PCs
<1>6. Handover'
  BY <1>1, <1>4, HandoverKept DEF BInv, TypeOK
<1>7. Here'.imported /\ Here'.started = Here.started
  BY <1>1, <1>4 DEF Becomes, Here
<1>8. Importing' /\ Looping'
  <2>1. \A u \in Units : <<u, 0>> \in Here.started => u \in records \/ u = unit
    BY DEF BInv, Looping
  <2> QED BY <1>1, <1>7, <2>1 DEF Importing, Looping, InUnit
<1>9. (Asking /\ NeverRetried)'
  BY <1>1 DEF BInv, Asking, NeverRetried
<1> QED BY <1>5, <1>6, <1>8, <1>9 DEF BInv

----------------------------------------------------------------------------
(* The invariant and the theorem.                                          *)

LEMMA NextKeeps == ASSUME BInv, ~ResumePartial, Next PROVE BInv'
<1>1. CASE Begin
  BY <1>1, BeginKeeps
<1>2. CASE ImportFile
  BY <1>2, ImportFileKeeps
<1>3. CASE Imported
  BY <1>3, ImportedKeeps
<1>4. CASE SettleUnit
  BY <1>4, SettleUnitKeeps
<1>5. CASE Settled
  BY <1>5, SettledKeeps
<1>6. CASE Skip
  BY <1>6, SkipKeeps
<1>7. CASE StartUnit
  BY <1>7, StartUnitKeeps
<1>8. CASE RunUnit
  BY <1>8, RunUnitKeeps
<1>9. CASE StartRequest
  BY <1>9, StartRequestKeeps
<1>10. CASE Generate
  BY <1>10, GenerateKeeps
<1>11. CASE EndRequest
  BY <1>11, EndRequestKeeps
<1>12. CASE Summarize
  <2>1. PICK row : pc \in InUnit /\ EndUnit(row)
    BY <1>12 DEF Summarize, InUnit
  <2> QED BY <2>1, EndUnitKeeps
<1>13. CASE UnitRaises
  <2>1. PICK row : pc \in InUnit /\ EndUnit(row)
    BY <1>13 DEF UnitRaises, InUnit
  <2> QED BY <2>1, EndUnitKeeps
<1>14. CASE Export
  BY <1>14, ExportKeeps
<1>15. CASE Die
  BY <1>15, DieKeeps
<1> QED BY <1>1, <1>2, <1>3, <1>4, <1>5, <1>6, <1>7, <1>8, <1>9, <1>10, <1>11, <1>12, <1>13, <1>14, <1>15 DEF Next

LEMMA StutterKeeps == ASSUME BInv, UNCHANGED vars PROVE BInv'
<1>1. /\ dirs' = dirs /\ segment' = segment /\ pc' = pc /\ limit' = limit /\ todo' = todo /\ unit' = unit
      /\ request' = request /\ records' = records /\ ran' = ran /\ asked' = asked
  BY DEF vars, loop
<1>2. TypeOK' /\ NeverRetried'
  BY <1>1 DEF BInv, TypeOK, NeverRetried
<1>3. Handover'
  BY <1>1 DEF BInv, Handover, IsNewest, Knows
<1>4. Importing' /\ Looping' /\ Asking'
  BY <1>1 DEF BInv, Importing, Looping, Asking, Knows, Here
<1> QED BY <1>2, <1>3, <1>4 DEF BInv

\* runner.py resumes from a directory whose recover() returned: then no unit
\* and no request is run again, however many segments die, wherever they die,
\* and however many units there are.
THEOREM NothingRunTwice == ASSUME ~ResumePartial PROVE Spec => []NeverRetried
<1>1. BInv /\ [Next]_vars => BInv'
  BY NextKeeps, StutterKeeps
<1>2. BInv => NeverRetried
  BY DEF BInv
<1> QED BY Initially, <1>1, <1>2, PTL DEF Spec
----------------------------------------------------------------------------
(* What was written stays: the directory a segment resumes from holds, or  *)
(* will settle to, every row any directory holds (Carried), and what rows  *)
(* and results say of the requests is what happened (TrueRows).            *)

\* What an importer of d makes of unit u.
Settlement(d, u) ==
  IF d.rows[u] = NoRow /\ Began(d, u) THEN Row("interrupted", RequestRows(d, u)) ELSE d.rows[u]

NewestIn(ds, seg, n) ==
  /\ n \in 1 .. seg /\ ds[n].imported
  /\ \A t \in 1 .. seg : ds[t].imported => t <= n

\* The directory a segment that starts now would resume from.
HandedOf(ds, seg) ==
  IF \E n \in 1 .. seg : NewestIn(ds, seg, n) THEN ds[CHOOSE n \in 1 .. seg : NewestIn(ds, seg, n)]
  ELSE EmptyDirectory
Handed == HandedOf(dirs, segment)

\* The one the current segment resumes from.
From == IF source = 0 THEN EmptyDirectory ELSE dirs[source]

Typed ==
  /\ dirs \in [Segments -> Directory]
  /\ \A s \in Segments : s > segment => dirs[s] = EmptyDirectory
  /\ pc # "idle" => Here.report = <<>>

\* What was imported is what the source says, and what was not is still to do.
Copying ==
  pc = "import" =>
    /\ source \in Nat /\ source < segment
    /\ From = Handed /\ todo \subseteq FilesOf(From) /\ records = {}
    /\ \A p \in Places : p \in Here.started <=> p \in From.started /\ File(p[1], p[2], "started") \notin todo
    /\ \A u \in Units : Here.rows[u] = IF File(u, 0, "terminal") \in todo THEN NoRow ELSE From.rows[u]
    /\ \A p \in Units \X Requests :
         Here.results[p] = IF File(p[1], p[2], "terminal") \in todo THEN "none" ELSE From.results[p]

Settling ==
  pc = "settle" =>
    /\ source \in Nat /\ source < segment
    /\ From = Handed /\ Here.started = From.started /\ Here.results = From.results
    /\ \A u \in Units : Here.rows[u] = IF u < unit THEN Settlement(From, u) ELSE From.rows[u]

\* A unit that is running has no row anywhere; one that counts as done has one.
RowsOfRecords ==
  /\ pc \in InUnit => \A s \in 1 .. segment : dirs[s].rows[unit] = NoRow
  /\ pc \in {"settle", "loop"} \cup InUnit => \A u \in Units : u \in records => Here.rows[u] # NoRow

Carried ==
  /\ \A s \in 1 .. segment, u \in Units :
       dirs[s].rows[u] # NoRow => Settlement(Handed, u) = dirs[s].rows[u]
  /\ \A u \in Units : Handed.rows[u] # NoRow => Began(Handed, u)
  /\ \A u \in Units, r \in Requests : asked[<<u, r>>] > 0 => <<u, r>> \in Handed.started

\* What a row, or a result, says of the requests of unit u.
TrueRow(row, u) ==
  /\ row.status # "not_started"
  /\ \A r \in Requests : /\ row.requests[r] = "not_started" => asked[<<u, r>>] = 0
                         /\ row.requests[r] \in {"completed", "failed"} => asked[<<u, r>>] = 1
TrueDirectory(d) ==
  /\ \A u \in Units : TrueRow(d.rows[u], u)
  /\ \A p \in Units \X Requests : d.results[p] # "none" => asked[p] = 1
TrueRows ==
  /\ \A s \in 1 .. segment : TrueDirectory(dirs[s])
  /\ pc = "ask" => <<unit, request>> \in Here.started
  /\ pc = "answer" => asked[<<unit, request>>] = 1

KInv == Typed /\ Copying /\ Settling /\ RowsOfRecords /\ Carried /\ TrueRows /\ ResultsKept /\ ReportedTruly

----------------------------------------------------------------------------
(* Directories and the one that is handed on.                              *)

LEMMA EmptyTyped == EmptyDirectory \in Directory /\ NoRow \in Rows /\ FilesOf(EmptyDirectory) = {}
<1>1. NoRow \in Rows
  BY DEF Rows
<1>2. EmptyDirectory \in Directory
  BY <1>1 DEF EmptyDirectory, Directory, Results
<1>3. FilesOf(EmptyDirectory) = {}
  BY DEF EmptyDirectory, FilesOf
<1> QED BY <1>1, <1>2, <1>3

LEMMA StartedWritten ==
  ASSUME NEW d \in Directory, NEW p \in Places, NEW e, e = [d EXCEPT !.started = @ \cup {p}]
  PROVE  /\ e \in Directory /\ e.imported = d.imported /\ e.started = d.started \cup {p}
         /\ e.rows = d.rows /\ e.results = d.results /\ e.report = d.report
BY DEF Directory

LEMMA HandedNewest ==
  ASSUME NEW ds, NEW seg \in Nat, NEW n, NewestIn(ds, seg, n) PROVE HandedOf(ds, seg) = ds[n]
<1>1. \A m \in 1 .. seg : NewestIn(ds, seg, m) => m = n
  BY DEF NewestIn
<1>2. n \in 1 .. seg
  BY DEF NewestIn
<1> QED BY <1>1, <1>2 DEF HandedOf

LEMMA HandedEmpty ==
  ASSUME NEW ds, NEW seg, \A s \in 1 .. seg : ~ds[s].imported PROVE HandedOf(ds, seg) = EmptyDirectory
BY DEF HandedOf, NewestIn

LEMMA HandedCurrent ==
  ASSUME NEW ds, NEW seg \in Nat \ {0}, ds[seg].imported PROVE HandedOf(ds, seg) = ds[seg]
<1>1. NewestIn(ds, seg, seg)
  BY DEF NewestIn
<1> QED BY <1>1, HandedNewest

\* A directory whose import is not finished does not matter.
LEMMA HandedSame ==
  ASSUME NEW ds, NEW es, NEW seg \in Nat, NEW k, ~ds[k].imported, ~es[k].imported,
         \A s \in (1 .. seg) \ {k} : es[s] = ds[s]
  PROVE  HandedOf(es, seg) = HandedOf(ds, seg)
<1>1. \A n \in 1 .. seg : NewestIn(es, seg, n) <=> NewestIn(ds, seg, n)
  BY DEF NewestIn
<1>2. CASE \E n \in 1 .. seg : NewestIn(ds, seg, n)
  <2>1. PICK n \in 1 .. seg : NewestIn(ds, seg, n) /\ NewestIn(es, seg, n)
    BY <1>1, <1>2
  <2>2. n # k /\ es[n] = ds[n]
    BY <2>1 DEF NewestIn
  <2> QED BY <2>1, <2>2, HandedNewest
<1>3. CASE ~\E n \in 1 .. seg : NewestIn(ds, seg, n)
  BY <1>1, <1>3 DEF HandedOf
<1> QED BY <1>2, <1>3

LEMMA HandedNext ==
  ASSUME NEW ds, NEW seg \in Nat, ~ds[seg + 1].imported
  PROVE  HandedOf(ds, seg + 1) = HandedOf(ds, seg)
<1>1. \A n : NewestIn(ds, seg + 1, n) <=> NewestIn(ds, seg, n)
  <2>1. \A s : s \in 1 .. seg + 1 <=> s = seg + 1 \/ s \in 1 .. seg
    OBVIOUS
  <2> QED BY <2>1 DEF NewestIn
<1>2. CASE \E n \in 1 .. seg : NewestIn(ds, seg, n)
  BY <1>1, <1>2, HandedNewest
<1>3. CASE ~\E n \in 1 .. seg : NewestIn(ds, seg, n)
  <2>1. ~\E n \in 1 .. seg + 1 : NewestIn(ds, seg + 1, n)
    BY <1>1, <1>3 DEF NewestIn
  <2> QED BY <1>3, <2>1 DEF HandedOf
<1> QED BY <1>2, <1>3

\* The directory that is handed on is one of those there are, or empty.
LEMMA HandedTrue == ASSUME BInv, KInv PROVE Handed \in Directory /\ TrueDirectory(Handed)
<1>1. segment \in Nat /\ 1 .. segment \subseteq Segments
  BY Numbers DEF BInv, TypeOK, Segments
<1>2. CASE \E n \in 1 .. segment : NewestIn(dirs, segment, n)
  BY <1>1, <1>2, HandedNewest DEF Handed, KInv, Typed, TrueRows
<1>3. CASE Handed = EmptyDirectory
  <2>1. TrueDirectory(EmptyDirectory)
    BY DEF TrueDirectory, TrueRow, EmptyDirectory, NoRow
  <2> QED BY <1>3, <2>1, EmptyTyped
<1> QED BY <1>2, <1>3 DEF Handed, HandedOf

----------------------------------------------------------------------------
(* One step: the current directory becomes d.                              *)

Turn(d) ==
  /\ pc # "idle" /\ segment' = segment /\ segment \in Segments /\ segment \in Nat \ {0}
  /\ 1 .. segment \subseteq Segments /\ segment \in 1 .. segment
  /\ d \in Directory /\ dirs' \in [Segments -> Directory] /\ dirs'[segment] = d
  /\ \A s \in Segments \ {segment} : dirs'[s] = dirs[s]

LEMMA TurnIs ==
  ASSUME BInv, KInv, pc # "idle", segment' = segment, NEW d \in Directory,
         Write(d) \/ (dirs' = dirs /\ d = Here)
  PROVE  Turn(d)
<1>1. /\ segment \in Segments /\ segment \in Nat \ {0} /\ 1 .. segment \subseteq Segments
      /\ segment \in 1 .. segment /\ dirs \in [Segments -> Directory]
  BY Numbers DEF BInv, TypeOK, Segments, KInv, Typed
<1> QED BY <1>1 DEF Turn, Write, Here

LEMMA HereTyped == ASSUME BInv, KInv, pc # "idle" PROVE Here \in Directory /\ segment \in 1 .. segment
BY Numbers DEF BInv, TypeOK, KInv, Typed, Here, Segments

LEMMA TypedKept ==
  ASSUME KInv, NEW d, Turn(d), pc' = "idle" \/ d.report = Here.report PROVE Typed'
<1>1. \A s \in Segments : s > segment => s # segment
  BY DEF Turn
<1> QED BY <1>1 DEF KInv, Typed, Turn, Here

LEMMA ReportsKept ==
  ASSUME KInv, NEW d, Turn(d), d.report = Here.report PROVE ResultsKept'
<1>1. \A s \in 1 .. segment : dirs'[s].report = dirs[s].report
  BY DEF Turn, Here
<1>2. \A s, t \in 1 .. segment : s < t => s # segment
  BY DEF Turn
<1>3. \A s \in 1 .. segment : s # segment => dirs'[s] = dirs[s]
  BY DEF Turn
<1> QED BY <1>1, <1>2, <1>3 DEF KInv, ResultsKept, Turn

LEMMA TruthKept ==
  ASSUME KInv, NEW d, Turn(d), asked' = asked, TrueDirectory(d),
         pc' = "ask" => <<unit', request'>> \in d.started,
         pc' = "answer" => asked[<<unit', request'>>] = 1
  PROVE  TrueRows'
<1>1. Here' = d
  BY DEF Turn, Here
<1>2. \A s \in 1 .. segment' : TrueDirectory(dirs'[s])
  BY DEF Turn, KInv, TrueRows
<1> QED BY <1>1, <1>2 DEF TrueRows, TrueDirectory, TrueRow

\* Until the import is finished, what is handed on stays.
LEMMA ImportTurn ==
  ASSUME BInv, KInv, NEW d, Turn(d), pc \in {"import", "settle"}, ~d.imported, asked' = asked,
         \A u \in Units : d.rows[u] # NoRow => Settlement(Handed, u) = d.rows[u]
  PROVE  Handed' = Handed /\ Carried'
<1>1. Handed' = Handed
  <2>1. ~dirs[segment].imported
    BY DEF BInv, Importing, Here
  <2>2. HandedOf(dirs', segment) = HandedOf(dirs, segment)
    BY <2>1, HandedSame DEF Turn
  <2> QED BY <2>2 DEF Handed, Turn
<1>2. \A s \in 1 .. segment : dirs'[s] = dirs[s] \/ dirs'[s] = d
  BY DEF Turn
<1>3. segment' = segment
  BY DEF Turn
<1> QED BY <1>1, <1>2, <1>3 DEF KInv, Carried

\* In the loop, the current directory is handed on.
LEMMA LoopTurn ==
  ASSUME BInv, KInv, NEW d, Turn(d), pc \in {"loop"} \cup InUnit, d.imported
  PROVE  Handed = Here /\ Handed' = d /\ Here' = d
<1>1. dirs[segment].imported /\ dirs'[segment].imported /\ segment \in Nat \ {0} /\ segment' = segment
  BY DEF BInv, Looping, Here, Turn
<1> QED BY <1>1, HandedCurrent DEF Handed, Here, Turn

\* In the loop, only unit v changes, which has no row in another directory.
LEMMA UnitTurn ==
  ASSUME BInv, KInv, NEW d, Turn(d), pc \in {"loop"} \cup InUnit, d.imported, NEW v \in Units,
         \A s \in 1 .. segment : s # segment => dirs[s].rows[v] = NoRow,
         Here.started \subseteq d.started,
         d.rows[v] # NoRow => Began(d, v),
         \A u \in Units \ {v} : /\ d.rows[u] = Here.rows[u] /\ Began(d, u) = Began(Here, u)
                                /\ RequestRows(d, u) = RequestRows(Here, u),
         \A u \in Units, r \in Requests : asked'[<<u, r>>] > 0 => asked[<<u, r>>] > 0 \/ <<u, r>> \in d.started
  PROVE  Carried'
<1>1. Handed = Here /\ Handed' = d /\ segment' = segment
  BY LoopTurn DEF Turn
<1>2. \A s \in 1 .. segment : IF s = segment THEN dirs'[s] = d ELSE dirs'[s] = dirs[s]
  BY DEF Turn
<1>3. \A u \in Units \ {v} : Settlement(d, u) = Settlement(Here, u)
  BY DEF Settlement
<1>4. ASSUME NEW s \in 1 .. segment, NEW u \in Units, dirs'[s].rows[u] # NoRow
      PROVE  Settlement(d, u) = dirs'[s].rows[u]
  <2>1. CASE s = segment
    BY <1>2, <1>4, <2>1 DEF Settlement
  <2>2. CASE s # segment
    <3>1. u # v /\ dirs'[s].rows[u] = dirs[s].rows[u]
      BY <1>2, <1>4, <2>2
    <3> QED BY <1>1, <1>3, <1>4, <3>1 DEF KInv, Carried
  <2> QED BY <2>1, <2>2
<1>5. \A u \in Units : d.rows[u] # NoRow => Began(d, u)
  BY <1>1 DEF KInv, Carried
<1>6. \A u \in Units, r \in Requests : asked'[<<u, r>>] > 0 => <<u, r>> \in d.started
  BY <1>1 DEF KInv, Carried
<1> QED BY <1>1, <1>4, <1>5, <1>6 DEF Carried

\* What the request files of a true directory say is true.
LEMMA RequestRowsTrue ==
  ASSUME asked \in [Units \X Requests -> Nat], NEW d \in Directory, TrueDirectory(d), NEW u \in Units,
         \A r \in Requests : asked[<<u, r>>] > 0 => <<u, r>> \in d.started,
         NEW status_ \in {"completed", "incomplete", "interrupted"}
  PROVE  LET row == Row(status_, RequestRows(d, u))
         IN  row \in Rows /\ row # NoRow /\ TrueRow(row, u)
<1> DEFINE row == Row(status_, RequestRows(d, u))
<1>1. \A r \in Requests : d.results[<<u, r>>] \in Results
  BY DEF Directory
<1>2. \A r \in Requests : RequestRows(d, u)[r] = IF d.results[<<u, r>>] # "none" THEN d.results[<<u, r>>]
                             ELSE IF <<u, r>> \in d.started THEN "interrupted" ELSE "not_started"
  BY DEF RequestRows
<1>3. RequestRows(d, u) \in [Requests -> Results \cup {"interrupted", "not_started"}]
  BY <1>1 DEF RequestRows
<1>4. row.status = status_ /\ row.requests = RequestRows(d, u)
  BY DEF Row
<1>5. row \in Rows /\ row # NoRow
  BY <1>3 DEF Row, Rows, NoRow
<1>6. ASSUME NEW r \in Requests
      PROVE  /\ row.requests[r] = "not_started" => asked[<<u, r>>] = 0
             /\ row.requests[r] \in {"completed", "failed"} => asked[<<u, r>>] = 1
  <2>1. asked[<<u, r>>] \in Nat
    OBVIOUS
  <2>2. d.results[<<u, r>>] # "none" => asked[<<u, r>>] = 1
    BY DEF TrueDirectory
  <2> QED BY <1>1, <1>2, <1>4, <2>1, <2>2 DEF Results
<1>7. TrueRow(row, u)
  BY <1>4, <1>6 DEF TrueRow
<1> QED BY <1>5, <1>7

----------------------------------------------------------------------------
(* Segments and their import.                                              *)

\* A segment is resumed from the newest directory whose import is finished.
LEMMA SourceIsHanded ==
  ASSUME BInv, KInv, ~ResumePartial, Begin
  PROVE  From' = Handed /\ todo' = FilesOf(Handed) /\ source' \in Nat /\ source' <= segment
<1>1. segment \in Nat /\ 1 .. segment \subseteq Nat /\ dirs' = dirs
  BY Numbers DEF BInv, TypeOK, Begin
<1>2. CASE \E n \in 1 .. segment : IsNewest(n)
  <2>1. PICK n \in 1 .. segment : IsNewest(n)
    BY <1>2
  <2>2. n \in Resumable /\ \A t \in Resumable : t \in 1 .. segment /\ t <= n
    BY <2>1 DEF Resumable, IsNewest
  <2>3. Newest(Resumable) = n
    <3>1. \A m \in Resumable : (\A t \in Resumable : t <= m) => m = n
      BY <1>1, <2>1, <2>2
    <3> QED BY <2>2, <3>1 DEF Newest
  <2>4. source' = n /\ todo' = FilesOf(dirs[n])
    BY <2>2, <2>3 DEF Begin
  <2>5. Handed = dirs[n]
    BY <1>1, <2>1, HandedNewest DEF Handed, NewestIn, IsNewest
  <2> QED BY <1>1, <2>1, <2>4, <2>5 DEF From
<1>3. CASE \A s \in 1 .. segment : ~dirs[s].imported
  <2>1. Resumable = {} /\ Handed = EmptyDirectory
    BY <1>3, HandedEmpty DEF Resumable, Handed
  <2>2. source' = 0 /\ todo' = {}
    BY <2>1 DEF Begin
  <2> QED BY <1>1, <2>1, <2>2, EmptyTyped DEF From
<1> QED BY <1>2, <1>3 DEF BInv, Handover

LEMMA BeginKeepsK == ASSUME BInv, KInv, ~ResumePartial, Begin PROVE KInv'
<1>1. /\ segment \in Nat /\ segment' = segment + 1 /\ segment' \in Segments /\ 1 .. segment \subseteq Segments
      /\ \A s \in 1 .. segment' : s = segment' \/ s \in 1 .. segment
      /\ dirs' = dirs /\ ran' = ran /\ asked' = asked /\ pc' = "import" /\ unit' = 1 /\ records' = {}
  BY Numbers DEF BInv, TypeOK, Segments, Begin
<1>2. dirs[segment'] = EmptyDirectory /\ Here' = EmptyDirectory
  BY <1>1 DEF KInv, Typed, Here
<1>3. Handed' = Handed
  <2>1. ~dirs[segment + 1].imported
    BY <1>1, <1>2 DEF EmptyDirectory
  <2> QED BY <1>1, <2>1, HandedNext DEF Handed
<1>4. Typed'
  <2>1. \A s \in Segments : s > segment' => s > segment
    BY <1>1 DEF Segments
  <2> QED BY <1>1, <1>2, <2>1 DEF KInv, Typed, EmptyDirectory
<1>5. Copying'
  <2>1. From' = Handed' /\ todo' = FilesOf(From') /\ source' \in Nat /\ source' < segment'
    BY <1>1, <1>3, SourceIsHanded
  <2>2. \A p \in Places : p \in From'.started => File(p[1], p[2], "started") \in todo'
    BY <2>1 DEF FilesOf
  <2>3. \A u \in Units : From'.rows[u] # NoRow => File(u, 0, "terminal") \in todo'
    BY <2>1 DEF FilesOf
  <2>4. \A p \in Units \X Requests : From'.results[p] # "none" => File(p[1], p[2], "terminal") \in todo'
    BY <2>1 DEF FilesOf
  <2>5. Here'.started = {} /\ (\A u \in Units : Here'.rows[u] = NoRow)
        /\ \A p \in Units \X Requests : Here'.results[p] = "none"
    BY <1>2 DEF EmptyDirectory
  <2> QED BY <1>1, <2>1, <2>2, <2>3, <2>4, <2>5 DEF Copying
<1>6. Settling' /\ RowsOfRecords'
  BY <1>1 DEF Settling, RowsOfRecords, InUnit
<1>7. \A u \in Units : dirs[segment'].rows[u] = NoRow
  BY <1>2 DEF EmptyDirectory
<1>8. Carried'
  BY <1>1, <1>3, <1>7 DEF KInv, Carried
<1>9. TrueRows'
  <2>1. TrueDirectory(EmptyDirectory)
    BY DEF TrueDirectory, TrueRow, EmptyDirectory, NoRow
  <2> QED BY <1>1, <1>2, <2>1 DEF KInv, TrueRows, TrueDirectory, TrueRow
<1>10. ResultsKept'
  <2>1. dirs[segment'].report = <<>> /\ \A s \in 1 .. segment : ~(segment' < s)
    BY <1>1, <1>2 DEF EmptyDirectory
  <2> QED BY <1>1, <2>1 DEF KInv, ResultsKept
<1>11. ReportedTruly'
  BY <1>1 DEF ReportedTruly
<1> QED BY <1>4, <1>5, <1>6, <1>8, <1>9, <1>10, <1>11 DEF KInv

LEMMA ImportFileKeepsK == ASSUME BInv, KInv, ImportFile PROVE KInv'
<1>1. /\ pc = "import" /\ pc' = pc /\ segment' = segment /\ source' = source /\ unit' = unit
      /\ records' = records /\ asked' = asked /\ ~Here.imported /\ pc # "idle"
  BY DEF ImportFile, BInv, Importing
<1>2. PICK f \in todo :
        /\ todo' = todo \ {f}
        /\ LET place == <<f.unit, f.request>>
           IN Write(IF f.kind = "started" THEN [Here EXCEPT !.started = @ \cup {place}]
                    ELSE IF f.request = 0 THEN [Here EXCEPT !.rows[f.unit] = dirs[source].rows[f.unit]]
                    ELSE [Here EXCEPT !.results[place] = dirs[source].results[place]])
  BY DEF ImportFile
<1> DEFINE place == <<f.unit, f.request>>
           d == IF f.kind = "started" THEN [Here EXCEPT !.started = @ \cup {place}]
                ELSE IF f.request = 0 THEN [Here EXCEPT !.rows[f.unit] = dirs[source].rows[f.unit]]
                ELSE [Here EXCEPT !.results[place] = dirs[source].results[place]]
<1>3. Write(d)
  BY <1>2
<1>4. /\ From = Handed /\ f \in FilesOf(From) /\ From \in Directory /\ TrueDirectory(From) /\ Here \in Directory
      /\ From = dirs[source]
  <2>1. From = Handed /\ f \in FilesOf(From)
    BY <1>1, <1>2 DEF KInv, Copying
  <2>2. From = dirs[source]
    BY <2>1, EmptyTyped DEF From
  <2> QED BY <1>1, <2>1, <2>2, HandedTrue, HereTyped
<1>5. /\ d \in Directory /\ d.imported = Here.imported /\ d.report = Here.report
      /\ \A p \in Places : p \in d.started <=> p \in Here.started \/ f = File(p[1], p[2], "started")
      /\ \A u \in Units : d.rows[u] = IF f = File(u, 0, "terminal") THEN From.rows[u] ELSE Here.rows[u]
      /\ \A p \in Units \X Requests :
           d.results[p] = IF f = File(p[1], p[2], "terminal") THEN From.results[p] ELSE Here.results[p]
  <2>1. CASE \E p \in From.started : f = File(p[1], p[2], "started")
    <3>1. PICK p \in From.started : f = File(p[1], p[2], "started")
      BY <2>1
    <3>2. p \in Places /\ f.unit = p[1] /\ f.request = p[2] /\ f.kind = "started" /\ place = p
      BY <1>4, <3>1 DEF Directory, Places, File
    <3>3. d = [Here EXCEPT !.started = @ \cup {p}]
      BY <3>2
    <3> HIDE DEF d, place
    <3>4. /\ d \in Directory /\ d.imported = Here.imported /\ d.started = Here.started \cup {p}
          /\ d.rows = Here.rows /\ d.results = Here.results /\ d.report = Here.report
      BY <1>4, <3>2, <3>3, StartedWritten
    <3>5. \A q \in Places : f = File(q[1], q[2], "started") <=> q = p
      BY <3>1, <3>2 DEF File, Places
    <3>6. \A u, r : f # File(u, r, "terminal")
      BY <3>2 DEF File
    <3> QED BY <3>4, <3>5, <3>6
  <2>2. CASE \E u \in Units : f = File(u, 0, "terminal")
    <3>1. PICK u \in Units : f = File(u, 0, "terminal")
      BY <2>2
    <3>2. f.unit = u /\ f.request = 0 /\ f.kind = "terminal"
      BY <3>1 DEF File
    <3>3. d = [Here EXCEPT !.rows[u] = From.rows[u]] /\ From.rows[u] \in Rows
      BY <1>4, <3>2 DEF Directory
    <3> HIDE DEF d, place
    <3>4. /\ d \in Directory /\ d.imported = Here.imported /\ d.started = Here.started
          /\ d.results = Here.results /\ d.report = Here.report
          /\ d.rows[u] = From.rows[u] /\ \A v \in Units \ {u} : d.rows[v] = Here.rows[v]
      BY <1>4, <3>1, <3>3 DEF Directory
    <3>5. \A v \in Units : f = File(v, 0, "terminal") <=> v = u
      BY <3>1, <3>2 DEF File
    <3>6. \A v, r : f # File(v, r, "started")
      BY <3>2 DEF File
    <3>7. \A p \in Units \X Requests : f # File(p[1], p[2], "terminal")
      BY <3>2 DEF File, Requests
    <3> QED BY <3>4, <3>5, <3>6, <3>7
  <2>3. CASE \E p \in Units \X Requests : f = File(p[1], p[2], "terminal")
    <3>1. PICK p \in Units \X Requests : f = File(p[1], p[2], "terminal")
      BY <2>3
    <3>2. f.unit = p[1] /\ f.request = p[2] /\ f.kind = "terminal" /\ place = p /\ p[2] # 0
      BY <3>1 DEF File, Requests
    <3>3. d = [Here EXCEPT !.results[p] = From.results[p]] /\ From.results[p] \in Results
      BY <1>4, <3>2 DEF Directory
    <3> HIDE DEF d, place
    <3>4. /\ d \in Directory /\ d.imported = Here.imported /\ d.started = Here.started
          /\ d.rows = Here.rows /\ d.report = Here.report
          /\ d.results[p] = From.results[p]
          /\ \A q \in (Units \X Requests) \ {p} : d.results[q] = Here.results[q]
      BY <1>4, <3>1, <3>3 DEF Directory
    <3>5. \A q \in Units \X Requests : f = File(q[1], q[2], "terminal") <=> q = p
      BY <3>1, <3>2 DEF File
    <3>6. \A w, r : f # File(w, r, "started")
      BY <3>2 DEF File
    <3>7. \A w \in Units : f # File(w, 0, "terminal")
      BY <3>2 DEF File
    <3> QED BY <3>4, <3>5, <3>6, <3>7
  <2> QED BY <1>4, <2>1, <2>2, <2>3 DEF FilesOf
<1> HIDE DEF d, place
<1>6. Turn(d) /\ Here' = d
  <2>1. Turn(d)
    BY <1>1, <1>3, <1>5, TurnIs
  <2> QED BY <2>1 DEF Turn, Here
<1>7. \A u \in Units : d.rows[u] \in {NoRow, From.rows[u]}
  BY <1>1, <1>5 DEF KInv, Copying
<1>8. Handed' = Handed /\ Carried'
  <2>1. \A u \in Units : d.rows[u] # NoRow => Settlement(Handed, u) = d.rows[u]
    BY <1>4, <1>7 DEF Settlement
  <2> QED BY <1>1, <1>5, <1>6, <2>1, ImportTurn
<1>9. Typed' /\ ResultsKept'
  BY <1>5, <1>6, TypedKept, ReportsKept
<1>10. From' = From
  <2>1. source \in Nat /\ source < segment
    BY <1>1 DEF KInv, Copying
  <2>2. CASE source = 0
    BY <1>1, <2>2 DEF From
  <2>3. CASE source # 0
    <3>1. source \in Segments \ {segment}
      BY <1>6, <2>1, <2>3 DEF Turn
    <3> QED BY <1>1, <1>6, <3>1 DEF From, Turn
  <2> QED BY <2>2, <2>3
<1>11. Copying'
  <2>1. \A u \in Units : d.rows[u] = IF File(u, 0, "terminal") \in todo' THEN NoRow ELSE From.rows[u]
    BY <1>1, <1>2, <1>5 DEF KInv, Copying
  <2>2. \A p \in Places : p \in d.started <=> p \in From.started /\ File(p[1], p[2], "started") \notin todo'
    <3> SUFFICES ASSUME NEW p \in Places
                 PROVE p \in d.started <=> p \in From.started /\ File(p[1], p[2], "started") \notin todo'
      OBVIOUS
    <3>1. f = File(p[1], p[2], "started") => p \in From.started
      <4> SUFFICES ASSUME f = File(p[1], p[2], "started") PROVE p \in From.started
        OBVIOUS
      <4>1. PICK q \in From.started : f = File(q[1], q[2], "started")
        BY <1>4 DEF FilesOf, File
      <4>2. q \in Places /\ q[1] = p[1] /\ q[2] = p[2]
        BY <1>4, <4>1 DEF Directory, File
      <4> QED BY <4>1, <4>2 DEF Places
    <3> QED BY <1>1, <1>2, <1>5, <3>1 DEF KInv, Copying
  <2>3. \A p \in Units \X Requests :
          d.results[p] = IF File(p[1], p[2], "terminal") \in todo' THEN "none" ELSE From.results[p]
    BY <1>1, <1>2, <1>5 DEF KInv, Copying
  <2> QED BY <1>1, <1>2, <1>4, <1>6, <1>8, <1>10, <2>1, <2>2, <2>3 DEF KInv, Copying
<1>12. Settling' /\ RowsOfRecords' /\ ReportedTruly'
  BY <1>1 DEF Settling, RowsOfRecords, ReportedTruly, InUnit
<1>13. TrueRows'
  <2>1. \A u \in Units : TrueRow(d.rows[u], u)
    BY <1>4, <1>7 DEF TrueDirectory, TrueRow, NoRow
  <2>2. \A p \in Units \X Requests : d.results[p] \in {"none", From.results[p]}
    BY <1>1, <1>5 DEF KInv, Copying
  <2>3. TrueDirectory(d)
    BY <1>4, <2>1, <2>2 DEF TrueDirectory
  <2> QED BY <1>1, <1>6, <2>3, TruthKept
<1> QED BY <1>8, <1>9, <1>11, <1>12, <1>13 DEF KInv

LEMMA ImportedKeepsK == ASSUME BInv, KInv, Imported PROVE KInv'
<1>1. /\ pc = "import" /\ pc' = "settle" /\ pc # "idle" /\ segment' = segment /\ source' = source /\ unit' = unit
      /\ unit = 1 /\ records' = {} /\ asked' = asked /\ dirs' = dirs /\ todo = {} /\ ~Here.imported
  BY DEF Imported, loop, BInv, Importing, KInv, Copying
<1>2. Here \in Directory /\ Turn(Here) /\ Here' = Here
  BY <1>1, HereTyped, TurnIs DEF Here
<1>3. From = Handed /\ From' = From /\ Here.started = From.started /\ Here.results = From.results
      /\ \A u \in Units : Here.rows[u] = From.rows[u]
  <2>1. From = Handed /\ From' = From /\ From \in Directory
    BY <1>1, HandedTrue DEF KInv, Copying, From
  <2>2. Here.started = From.started
    BY <1>1, <1>2, <2>1 DEF KInv, Copying, Directory
  <2>3. Here.results = From.results
    BY <1>1, <1>2, <2>1 DEF KInv, Copying, Directory
  <2> QED BY <1>1, <2>1, <2>2, <2>3 DEF KInv, Copying
<1>4. Handed' = Handed /\ Carried' /\ Typed' /\ ResultsKept'
  BY <1>1, <1>2, <1>3, ImportTurn, TypedKept, ReportsKept DEF KInv, Carried, Settlement
<1>5. Settling'
  <2>1. \A u \in Units : ~(u < 1)
    BY Numbers DEF Units
  <2>2. source \in Nat /\ source < segment
    BY <1>1 DEF KInv, Copying
  <2> QED BY <1>1, <1>2, <1>3, <1>4, <2>1, <2>2 DEF Settling
<1>6. Copying' /\ RowsOfRecords' /\ ReportedTruly'
  BY <1>1 DEF Copying, RowsOfRecords, ReportedTruly, InUnit
<1>7. TrueRows'
  BY <1>1, <1>2, TruthKept DEF KInv, TrueRows, Here, Turn
<1> QED BY <1>4, <1>5, <1>6, <1>7 DEF KInv

LEMMA SettleUnitKeepsK == ASSUME BInv, KInv, SettleUnit PROVE KInv'
<1>1. /\ pc = "settle" /\ pc' = pc /\ pc # "idle" /\ segment' = segment /\ source' = source /\ unit' = unit + 1
      /\ unit \in Units /\ asked' = asked /\ ~Here.imported /\ asked \in [Units \X Requests -> Nat]
      /\ unit \in Nat
  BY Numbers DEF SettleUnit, BInv, Importing, TypeOK, Units
<1>2. /\ Here \in Directory /\ From = Handed /\ Here.started = From.started /\ Here.results = From.results
      /\ From \in Directory /\ TrueDirectory(From) /\ TrueDirectory(Here)
      /\ Here.rows[unit] = From.rows[unit] /\ RequestRows(Here, unit) = RequestRows(From, unit)
      /\ Began(Here, unit) = Began(From, unit)
  <2>1. From = Handed /\ Here.started = From.started /\ Here.results = From.results
        /\ Here.rows[unit] = From.rows[unit]
    BY <1>1 DEF KInv, Settling
  <2>2. Here \in Directory /\ TrueDirectory(Here)
    BY <1>1, HereTyped DEF KInv, TrueRows, Here
  <2> QED BY <2>1, <2>2, HandedTrue DEF RequestRows, Began
<1> DEFINE settled == Row("interrupted", RequestRows(Here, unit))
           d == IF Here.rows[unit] = NoRow /\ Began(Here, unit) THEN [Here EXCEPT !.rows[unit] = settled] ELSE Here
<1>3. settled \in Rows /\ settled # NoRow /\ TrueRow(settled, unit)
  <2>1. \A r \in Requests : asked[<<unit, r>>] > 0 => <<unit, r>> \in Here.started
    BY <1>1, <1>2 DEF KInv, Carried
  <2> QED BY <1>1, <1>2, <2>1, RequestRowsTrue
<1>4. Write(d) \/ (dirs' = dirs /\ d = Here)
  BY DEF SettleUnit
<1>5. records' = IF Began(Here, unit) THEN records \cup {unit} ELSE records
  BY DEF SettleUnit
<1>6. /\ d \in Directory /\ d.imported = Here.imported /\ d.started = Here.started /\ d.results = Here.results
      /\ d.report = Here.report /\ \A u \in Units \ {unit} : d.rows[u] = Here.rows[u]
      /\ d.rows[unit] = Settlement(From, unit) /\ (d.rows[unit] = Here.rows[unit] \/ d.rows[unit] = settled)
      /\ Began(Here, unit) => d.rows[unit] # NoRow
  <2> HIDE DEF settled
  <2>1. CASE Here.rows[unit] = NoRow /\ Began(Here, unit)
    <3>1. d = [Here EXCEPT !.rows[unit] = settled]
      BY <2>1
    <3> HIDE DEF d
    <3>2. /\ d \in Directory /\ d.imported = Here.imported /\ d.started = Here.started /\ d.results = Here.results
          /\ d.report = Here.report /\ d.rows[unit] = settled /\ \A u \in Units \ {unit} : d.rows[u] = Here.rows[u]
      BY <1>1, <1>2, <1>3, <3>1 DEF Directory
    <3>3. Settlement(From, unit) = settled
      BY <1>2, <2>1 DEF Settlement, settled
    <3> QED BY <1>3, <3>2, <3>3
  <2>2. CASE ~(Here.rows[unit] = NoRow /\ Began(Here, unit))
    <3>1. d = Here
      BY <2>2
    <3> QED BY <1>2, <2>2, <3>1 DEF Settlement
  <2> QED BY <2>1, <2>2
<1> HIDE DEF d, settled
<1>7. Turn(d) /\ Here' = d
  <2>1. Turn(d)
    BY <1>1, <1>4, <1>6, TurnIs
  <2> QED BY <2>1 DEF Turn, Here
<1>8. \A u \in Units : d.rows[u] = IF u < unit + 1 THEN Settlement(From, u) ELSE From.rows[u]
  <2> SUFFICES ASSUME NEW u \in Units PROVE d.rows[u] = IF u < unit + 1 THEN Settlement(From, u) ELSE From.rows[u]
    OBVIOUS
  <2>1. u # unit => (u < unit + 1 <=> u < unit)
    BY <1>1 DEF Units
  <2>2. ~(unit < unit) /\ unit < unit + 1
    BY <1>1
  <2> QED BY <1>1, <1>6, <2>1, <2>2 DEF KInv, Settling
<1>9. Handed' = Handed /\ Carried'
  <2>1. \A u \in Units : d.rows[u] # NoRow => Settlement(Handed, u) = d.rows[u]
    BY <1>2, <1>8 DEF Settlement
  <2> QED BY <1>1, <1>6, <1>7, <2>1, ImportTurn
<1>10. Typed' /\ ResultsKept'
  BY <1>6, <1>7, TypedKept, ReportsKept
<1>11. From' = From
  <2>1. source \in Nat /\ source < segment
    BY <1>1 DEF KInv, Settling
  <2>2. source # 0 => source \in Segments \ {segment}
    BY <1>7, <2>1 DEF Turn
  <2> QED BY <1>1, <1>7, <2>2 DEF From, Turn
<1>12. Settling'
  <2>1. source \in Nat /\ source < segment
    BY <1>1 DEF KInv, Settling
  <2> QED BY <1>1, <1>2, <1>6, <1>7, <1>8, <1>9, <1>11, <2>1 DEF Settling
<1>13. Copying' /\ ReportedTruly'
  BY <1>1 DEF Copying, ReportedTruly
<1>14. RowsOfRecords'
  <2>1. \A u \in Units : u \in records' => d.rows[u] # NoRow
    <3> SUFFICES ASSUME NEW u \in Units, u \in records' PROVE d.rows[u] # NoRow
      OBVIOUS
    <3>1. CASE u = unit
      <4>1. CASE Began(Here, unit)
        BY <1>6, <3>1, <4>1
      <4>2. CASE ~Began(Here, unit)
        BY <1>1, <1>3, <1>5, <1>6, <3>1, <4>2 DEF KInv, RowsOfRecords
      <4> QED BY <4>1, <4>2
    <3>2. CASE u # unit
      BY <1>1, <1>5, <1>6, <3>2 DEF KInv, RowsOfRecords
    <3> QED BY <3>1, <3>2
  <2> QED BY <1>1, <1>7, <2>1 DEF RowsOfRecords, InUnit
<1>15. TrueRows'
  <2>1. TrueDirectory(d)
    BY <1>2, <1>3, <1>6 DEF TrueDirectory
  <2> QED BY <1>1, <1>7, <2>1, TruthKept
<1> QED BY <1>9, <1>10, <1>12, <1>13, <1>14, <1>15 DEF KInv

\* The import is finished: this directory is handed on from now on.
LEMMA SettledKeepsK == ASSUME BInv, KInv, Settled PROVE KInv'
<1>1. /\ pc = "settle" /\ pc' = "loop" /\ pc # "idle" /\ segment' = segment /\ records' = records
      /\ asked' = asked /\ \A u \in Units : u < unit
  BY Numbers DEF Settled, BInv, TypeOK, Units
<1>2. Here \in Directory /\ TrueDirectory(Here)
  BY <1>1, HereTyped DEF KInv, TrueRows, Here
<1> DEFINE d == [Here EXCEPT !.imported = TRUE]
<1>3. Write(d) /\ d \in Directory /\ d.imported /\ d.started = Here.started /\ d.rows = Here.rows
      /\ d.results = Here.results /\ d.report = Here.report
  BY <1>2 DEF Settled, Directory
<1> HIDE DEF d
<1>4. Turn(d) /\ Here' = d
  <2>1. Turn(d)
    BY <1>1, <1>3, TurnIs
  <2> QED BY <2>1 DEF Turn, Here
<1>5. Handed' = d
  BY <1>3, <1>4, HandedCurrent DEF Handed, Turn
<1>6. \A u \in Units : /\ d.rows[u] = Settlement(Handed, u) /\ Began(d, u) = Began(Handed, u)
                       /\ RequestRows(d, u) = RequestRows(Handed, u)
  BY <1>1, <1>3 DEF KInv, Settling, Began, RequestRows
<1>7. \A u \in Units : Settlement(d, u) = Settlement(Handed, u) /\ (d.rows[u] # NoRow => Began(d, u))
  BY <1>6 DEF KInv, Carried, Settlement
<1>8. Carried'
  <2>1. \A s \in 1 .. segment : IF s = segment THEN dirs'[s] = d ELSE dirs'[s] = dirs[s]
    BY <1>4 DEF Turn
  <2>2. \A s \in 1 .. segment, u \in Units : dirs'[s].rows[u] = dirs[s].rows[u]
    BY <1>3, <2>1 DEF Here
  <2>3. Handed.started = d.started
    BY <1>1, <1>3 DEF KInv, Settling
  <2> QED BY <1>1, <1>5, <1>7, <2>2, <2>3 DEF KInv, Carried
<1>9. Typed' /\ ResultsKept'
  BY <1>3, <1>4, TypedKept, ReportsKept
<1>10. Copying' /\ Settling' /\ ReportedTruly'
  BY <1>1 DEF Copying, Settling, ReportedTruly
<1>11. RowsOfRecords'
  BY <1>1, <1>3, <1>4 DEF KInv, RowsOfRecords, InUnit
<1>12. TrueRows'
  <2>1. TrueDirectory(d)
    BY <1>2, <1>3 DEF TrueDirectory
  <2> QED BY <1>1, <1>4, <2>1, TruthKept
<1> QED BY <1>8, <1>9, <1>10, <1>11, <1>12 DEF KInv

----------------------------------------------------------------------------
(* The loop over the units and their requests.                             *)

\* A step of the loop that writes nothing and asks nothing.
LEMMA QuietKeepsK ==
  ASSUME BInv, KInv, pc \in {"loop"} \cup InUnit, pc' \in {"loop"} \cup InUnit, pc' \notin {"ask", "answer"},
         segment' = segment, dirs' = dirs, asked' = asked, records' = records,
         pc' \in InUnit => pc \in InUnit /\ unit' = unit
  PROVE  KInv'
<1>1. pc # "idle" /\ pc' \notin {"idle", "import", "settle"} /\ Here.imported
  BY DEF InUnit, BInv, Looping
<1>2. Here \in Directory /\ Turn(Here) /\ Here' = Here
  BY <1>1, HereTyped, TurnIs DEF Here
<1>3. Typed' /\ ResultsKept'
  BY <1>2, TypedKept, ReportsKept
<1>4. Carried' /\ TrueRows'
  <2>1. Handed' = Handed
    BY DEF Handed
  <2> QED BY <2>1 DEF KInv, Carried, TrueRows, TrueDirectory, TrueRow
<1>5. Copying' /\ Settling' /\ ReportedTruly'
  BY <1>1 DEF Copying, Settling, ReportedTruly
<1>6. RowsOfRecords'
  BY <1>1, <1>2 DEF KInv, RowsOfRecords
<1> QED BY <1>3, <1>4, <1>5, <1>6 DEF KInv

LEMMA SkipKeepsK == ASSUME BInv, KInv, Skip PROVE KInv'
BY QuietKeepsK DEF Skip, InUnit

LEMMA RunUnitKeepsK == ASSUME BInv, KInv, RunUnit PROVE KInv'
BY QuietKeepsK DEF RunUnit, InUnit

\* The unit that starts has no row in any directory: one that has is handed on
\* as started, and so is among the records.
LEMMA StartUnitKeepsK == ASSUME BInv, KInv, StartUnit PROVE KInv'
<1>1. /\ pc = "loop" /\ pc' = "unit" /\ pc # "idle" /\ segment' = segment /\ unit' = unit /\ records' = records
      /\ asked' = asked /\ unit \notin records /\ unit \in Units /\ Here.imported /\ ~Began(Here, unit)
  BY Numbers DEF StartUnit, loop, BInv, TypeOK, Units, Looping, InUnit, Began
<1>2. Here \in Directory /\ TrueDirectory(Here) /\ <<unit, 0>> \in Places
  BY <1>1, HereTyped, Numbers DEF KInv, TrueRows, Here, Places
<1> DEFINE d == [Here EXCEPT !.started = @ \cup {<<unit, 0>>}]
<1>3. /\ Write(d) /\ d \in Directory /\ d.imported /\ d.started = Here.started \cup {<<unit, 0>>}
      /\ d.rows = Here.rows /\ d.results = Here.results /\ d.report = Here.report
  BY <1>1, <1>2 DEF StartUnit, Directory
<1> HIDE DEF d
<1>4. Turn(d)
  BY <1>1, <1>3, TurnIs
<1>5. Handed = Here /\ Here' = d
  BY <1>1, <1>3, <1>4, LoopTurn
<1>6. \A s \in 1 .. segment : dirs[s].rows[unit] = NoRow
  BY <1>1, <1>5 DEF KInv, Carried, Settlement
<1>7. Carried'
  <2>1. \A u \in Units \ {unit} : <<u, 0>> \in d.started <=> <<u, 0>> \in Here.started
    BY <1>3
  <2>2. \A u \in Units, r \in Requests : <<u, r>> \in d.started <=> <<u, r>> \in Here.started
    <3>1. \A r \in Requests : r # 0
      BY DEF Requests
    <3> QED BY <1>3, <3>1
  <2>3. \A u \in Units \ {unit} : Began(d, u) = Began(Here, u)
    <3>1. SUFFICES ASSUME NEW u \in Units \ {unit} PROVE (<<u, 0>> \in d.started) = (<<u, 0>> \in Here.started)
      BY DEF Began
    <3>2. <<u, 0>> \in d.started <=> <<u, 0>> \in Here.started
      BY <2>1
    <3>3. CASE <<u, 0>> \in Here.started
      BY <3>2, <3>3
    <3>4. CASE <<u, 0>> \notin Here.started
      BY <3>2, <3>4
    <3> QED BY <3>3, <3>4
  <2>4. \A u \in Units : RequestRows(d, u) = RequestRows(Here, u)
    BY <1>3, <2>2 DEF RequestRows
  <2>5. Began(d, unit)
    BY <1>3 DEF Began
  <2> QED BY <1>1, <1>3, <1>4, <1>6, <2>3, <2>4, <2>5, UnitTurn
<1>8. Typed' /\ ResultsKept'
  BY <1>3, <1>4, TypedKept, ReportsKept
<1>9. Copying' /\ Settling' /\ ReportedTruly'
  BY <1>1 DEF Copying, Settling, ReportedTruly
<1>10. RowsOfRecords'
  <2>1. \A s \in 1 .. segment' : dirs'[s].rows[unit'] = NoRow
    <3>1. \A s \in 1 .. segment : IF s = segment THEN dirs'[s] = d ELSE dirs'[s] = dirs[s]
      BY <1>4 DEF Turn
    <3> QED BY <1>1, <1>3, <1>6, <3>1 DEF Here
  <2> QED BY <1>1, <1>3, <1>5, <2>1 DEF KInv, RowsOfRecords
<1>11. TrueRows'
  <2>1. TrueDirectory(d)
    BY <1>2, <1>3 DEF TrueDirectory
  <2> QED BY <1>1, <1>4, <2>1, TruthKept
<1> QED BY <1>7, <1>8, <1>9, <1>10, <1>11 DEF KInv

\* Within the unit, only what belongs to it changes, and it has no row yet.
LEMMA InUnitKeepsK ==
  ASSUME BInv, KInv, pc \in InUnit, pc' \in InUnit, unit' = unit, records' = records,
         NEW d, Turn(d), d.imported, d.report = Here.report, d.rows = Here.rows, Here.started \subseteq d.started,
         \A u \in Units \ {unit} : Began(d, u) = Began(Here, u) /\ RequestRows(d, u) = RequestRows(Here, u),
         \A u \in Units, r \in Requests : asked'[<<u, r>>] > 0 => asked[<<u, r>>] > 0 \/ <<u, r>> \in d.started,
         TrueRows'
  PROVE  KInv'
<1>1. pc # "idle" /\ pc' \notin {"idle", "import", "settle", "loop"} /\ unit \in Units /\ Here' = d
  <2>1. Here' = d
    BY LoopTurn
  <2> QED BY <2>1 DEF InUnit, BInv, Looping
<1>2. \A s \in 1 .. segment : dirs[s].rows[unit] = NoRow /\ dirs'[s].rows[unit] = NoRow
  <2>1. \A s \in 1 .. segment : IF s = segment THEN dirs'[s] = d ELSE dirs'[s] = dirs[s]
    BY DEF Turn
  <2> QED BY <2>1 DEF KInv, RowsOfRecords, Here
<1>3. Carried'
  <2>1. d.rows[unit] = NoRow
    BY <1>2 DEF Here, Turn
  <2> QED BY <1>1, <1>2, <2>1, UnitTurn
<1>4. Typed' /\ ResultsKept'
  BY TypedKept, ReportsKept
<1>5. Copying' /\ Settling' /\ ReportedTruly'
  BY <1>1 DEF Copying, Settling, ReportedTruly
<1>6. RowsOfRecords'
  <2>1. segment' = segment
    BY DEF Turn
  <2> QED BY <1>1, <1>2, <2>1 DEF KInv, RowsOfRecords
<1> QED BY <1>3, <1>4, <1>5, <1>6 DEF KInv

\* The place of a request is no other unit's, nor that of a unit.
LEMMA OwnPlace ==
  ASSUME NEW v \in Units, NEW q \in Requests
  PROVE  /\ <<v, q>> \in Places /\ <<v, q>> \in Units \X Requests
         /\ \A u \in Units : <<u, 0>> # <<v, q>>
         /\ \A u \in Units \ {v}, r \in Requests : <<u, r>> # <<v, q>>
<1>1. q # 0 /\ q \in 0 .. MaxRequests
  BY Numbers DEF Requests
<1> QED BY <1>1 DEF Places

LEMMA StartRequestKeepsK == ASSUME BInv, KInv, StartRequest PROVE KInv'
<1>1. /\ pc = "requests" /\ pc' = "ask" /\ pc # "idle" /\ segment' = segment /\ unit' = unit /\ request' = request
      /\ records' = records /\ asked' = asked /\ unit \in Units /\ request \in Requests /\ Here.imported
  BY Numbers DEF StartRequest, loop, BInv, TypeOK, Looping, InUnit, Requests
<1>2. Here \in Directory /\ TrueDirectory(Here) /\ <<unit, request>> \in Places
  BY <1>1, HereTyped, OwnPlace DEF KInv, TrueRows, Here
<1> DEFINE d == [Here EXCEPT !.started = @ \cup {<<unit, request>>}]
<1>3. /\ Write(d) /\ d \in Directory /\ d.imported /\ d.started = Here.started \cup {<<unit, request>>}
      /\ d.rows = Here.rows /\ d.results = Here.results /\ d.report = Here.report
  BY <1>1, <1>2 DEF StartRequest, Directory
<1> HIDE DEF d
<1>4. Turn(d)
  BY <1>1, <1>3, TurnIs
<1>5. TrueRows'
  <2>1. TrueDirectory(d)
    BY <1>2, <1>3 DEF TrueDirectory
  <2> QED BY <1>1, <1>3, <1>4, <2>1, TruthKept
<1>6. \A u \in Units \ {unit} : Began(d, u) = Began(Here, u) /\ RequestRows(d, u) = RequestRows(Here, u)
  BY <1>1, <1>3, OwnPlace DEF Began, RequestRows
<1> QED BY <1>1, <1>3, <1>4, <1>5, <1>6, InUnitKeepsK DEF InUnit

LEMMA GenerateKeepsK == ASSUME BInv, KInv, Generate PROVE KInv'
<1>1. /\ pc = "ask" /\ pc' = "answer" /\ pc # "idle" /\ segment' = segment /\ unit' = unit /\ request' = request
      /\ records' = records /\ dirs' = dirs /\ unit \in Units /\ request \in Requests /\ Here.imported
      /\ asked' = [asked EXCEPT ![<<unit, request>>] = @ + 1] /\ asked \in [Units \X Requests -> Nat]
      /\ asked[<<unit, request>>] = 0 /\ <<unit, request>> \in Here.started
  <2>1. request \in Nat /\ request >= request
    BY DEF BInv, TypeOK
  <2> QED BY <2>1 DEF Generate, BInv, TypeOK, Looping, Asking, InUnit, KInv, TrueRows
<1>2. Here \in Directory /\ Turn(Here) /\ Here' = Here /\ <<unit, request>> \in Units \X Requests
  BY <1>1, HereTyped, TurnIs, OwnPlace DEF Here
<1>3. /\ asked'[<<unit, request>>] = 1
      /\ \A p \in Units \X Requests : p # <<unit, request>> => asked'[p] = asked[p]
  BY <1>1, <1>2
<1>4. \A s \in 1 .. segment : dirs[s].rows[unit] = NoRow
  BY <1>1 DEF KInv, RowsOfRecords, InUnit
<1>5. TrueRows'
  <2>1. \A s \in 1 .. segment, u \in Units : TrueRow(dirs[s].rows[u], u)'
    <3> SUFFICES ASSUME NEW s \in 1 .. segment, NEW u \in Units PROVE TrueRow(dirs[s].rows[u], u)'
      OBVIOUS
    <3>1. CASE u = unit
      BY <1>1, <1>4, <3>1 DEF TrueRow, NoRow
    <3>2. CASE u # unit
      <4>1. TrueRow(dirs[s].rows[u], u) /\ \A r \in Requests : asked'[<<u, r>>] = asked[<<u, r>>]
        BY <1>1, <1>3, <3>2, OwnPlace DEF KInv, TrueRows, TrueDirectory
      <4> QED BY <1>1, <4>1 DEF TrueRow
    <3> QED BY <3>1, <3>2
  <2>2. \A s \in 1 .. segment : \A p \in Units \X Requests : dirs[s].results[p] # "none" => asked'[p] = 1
    BY <1>1, <1>3 DEF KInv, TrueRows, TrueDirectory
  <2> QED BY <1>1, <1>3, <2>1, <2>2 DEF TrueRows, TrueDirectory
<1>6. \A u \in Units, r \in Requests : asked'[<<u, r>>] > 0 => asked[<<u, r>>] > 0 \/ <<u, r>> \in Here.started
  BY <1>1, <1>3
<1> QED BY <1>1, <1>2, <1>5, <1>6, InUnitKeepsK DEF InUnit

LEMMA EndRequestKeepsK == ASSUME BInv, KInv, EndRequest PROVE KInv'
<1>1. /\ pc = "answer" /\ pc' = "requests" /\ pc # "idle" /\ segment' = segment /\ unit' = unit
      /\ records' = records /\ asked' = asked /\ unit \in Units /\ request \in Requests /\ Here.imported
      /\ asked[<<unit, request>>] = 1
  BY DEF EndRequest, BInv, Looping, Asking, InUnit, KInv, TrueRows
<1>2. Here \in Directory /\ TrueDirectory(Here) /\ <<unit, request>> \in Units \X Requests
  BY <1>1, HereTyped, OwnPlace DEF KInv, TrueRows, Here
<1> DEFINE d == [Here EXCEPT !.results[<<unit, request>>] = IF closed THEN "failed" ELSE "completed"]
<1>3. /\ Write(d) /\ d \in Directory /\ d.imported /\ d.started = Here.started
      /\ d.rows = Here.rows /\ d.report = Here.report
      /\ \A p \in Units \X Requests : p # <<unit, request>> => d.results[p] = Here.results[p]
  BY <1>1, <1>2 DEF EndRequest, Directory, Results
<1> HIDE DEF d
<1>4. Turn(d)
  BY <1>1, <1>3, TurnIs
<1>5. TrueRows'
  <2>1. TrueDirectory(d)
    BY <1>1, <1>2, <1>3 DEF TrueDirectory
  <2> QED BY <1>1, <1>4, <2>1, TruthKept
<1>6. \A u \in Units \ {unit} : Began(d, u) = Began(Here, u) /\ RequestRows(d, u) = RequestRows(Here, u)
  BY <1>1, <1>3, OwnPlace DEF Began, RequestRows
<1> QED BY <1>1, <1>3, <1>4, <1>5, <1>6, InUnitKeepsK DEF InUnit

\* The terminal row of the unit is the first it has anywhere.
LEMMA EndUnitKeepsK ==
  ASSUME BInv, KInv, pc \in InUnit, NEW row \in Rows, row # NoRow, TrueRow(row, unit), EndUnit(row) PROVE KInv'
<1>1. /\ pc # "idle" /\ pc' = "loop" /\ segment' = segment /\ records' = records \cup {unit} /\ asked' = asked
      /\ unit \in Units /\ Here.imported /\ Began(Here, unit)
  BY DEF EndUnit, BInv, Looping, InUnit, Began
<1>2. Here \in Directory /\ TrueDirectory(Here)
  BY <1>1, HereTyped DEF KInv, TrueRows, Here
<1> DEFINE d == [Here EXCEPT !.rows[unit] = row]
<1>3. /\ Write(d) /\ d \in Directory /\ d.imported /\ d.started = Here.started /\ d.results = Here.results
      /\ d.report = Here.report /\ d.rows[unit] = row /\ \A u \in Units \ {unit} : d.rows[u] = Here.rows[u]
  BY <1>1, <1>2 DEF EndUnit, Directory
<1> HIDE DEF d
<1>4. Turn(d)
  BY <1>1, <1>3, TurnIs
<1>5. Here' = d
  BY <1>3, <1>4, LoopTurn
<1>6. Carried'
  <2>1. \A s \in 1 .. segment : dirs[s].rows[unit] = NoRow
    BY DEF KInv, RowsOfRecords
  <2>2. \A u \in Units : Began(d, u) = Began(Here, u) /\ RequestRows(d, u) = RequestRows(Here, u)
    BY <1>3 DEF Began, RequestRows
  <2> QED BY <1>1, <1>3, <1>4, <2>1, <2>2, UnitTurn
<1>7. Typed' /\ ResultsKept'
  BY <1>3, <1>4, TypedKept, ReportsKept
<1>8. Copying' /\ Settling' /\ ReportedTruly'
  BY <1>1 DEF Copying, Settling, ReportedTruly
<1>9. RowsOfRecords'
  BY <1>1, <1>3, <1>5 DEF KInv, RowsOfRecords, InUnit
<1>10. TrueRows'
  <2>1. TrueDirectory(d)
    BY <1>2, <1>3 DEF TrueDirectory
  <2> QED BY <1>1, <1>4, <2>1, TruthKept
<1> QED BY <1>6, <1>7, <1>8, <1>9, <1>10 DEF KInv

LEMMA SummarizeKeepsK == ASSUME BInv, KInv, Summarize PROVE KInv'
<1>1. pc = "requests" /\ pc \in InUnit /\ pc # "idle" /\ unit \in Units /\ Here.imported
  BY DEF Summarize, InUnit, BInv, Looping
<1>2. PICK st \in {"completed", "incomplete", "interrupted"} : EndUnit(Row(st, RequestRows(Here, unit)))
  BY DEF Summarize
<1>3. Here \in Directory /\ TrueDirectory(Here) /\ asked \in [Units \X Requests -> Nat]
  BY <1>1, HereTyped DEF KInv, TrueRows, Here, BInv, TypeOK
<1>4. \A r \in Requests : asked[<<unit, r>>] > 0 => <<unit, r>> \in Here.started
  <2>1. Here = Handed
    <3>1. dirs[segment].imported /\ segment \in Nat \ {0}
      BY <1>1, HereTyped DEF Here
    <3> QED BY <3>1, HandedCurrent DEF Handed, Here
  <2> QED BY <1>1, <2>1 DEF KInv, Carried
<1>5. LET row == Row(st, RequestRows(Here, unit)) IN row \in Rows /\ row # NoRow /\ TrueRow(row, unit)
  BY <1>1, <1>3, <1>4, RequestRowsTrue
<1> QED BY <1>1, <1>2, <1>5, EndUnitKeepsK

LEMMA UnitRaisesKeepsK == ASSUME BInv, KInv, UnitRaises PROVE KInv'
<1> DEFINE row == Row("infrastructure_error", NoRow.requests)
<1>1. row \in Rows /\ row # NoRow /\ TrueRow(row, unit)
  BY DEF Row, Rows, NoRow, TrueRow, Results
<1>2. pc \in InUnit /\ EndUnit(row)
  BY DEF UnitRaises, InUnit
<1> HIDE DEF row
<1> QED BY <1>1, <1>2, EndUnitKeepsK

----------------------------------------------------------------------------
(* The ends of a segment.                                                  *)

\* Every row of an earlier directory is that of a unit this segment counts as
\* done, and its own row is the same.
LEMMA ExportKeepsK == ASSUME BInv, KInv, Export PROVE KInv'
<1>1. /\ pc = "loop" /\ pc # "idle" /\ pc' = "idle" /\ segment' = segment /\ asked' = asked /\ ran' = ran
      /\ Here.imported /\ segment \in Segments
  BY DEF Export, loop, BInv, Looping, TypeOK
<1>2. Here \in Directory /\ TrueDirectory(Here)
  BY <1>1, HereTyped DEF KInv, TrueRows, Here
<1> DEFINE rep == [u \in Units |-> IF u \in records THEN Here.rows[u] ELSE Row("not_started", NoRow.requests)]
           d == [Here EXCEPT !.report = rep]
<1>3. rep \in [Units -> Rows]
  <2>1. Row("not_started", NoRow.requests) \in Rows
    BY DEF Row, NoRow, Rows, Results
  <2> QED BY <1>2, <2>1 DEF Directory
<1>4. /\ Write(d) /\ d \in Directory /\ d.imported /\ d.started = Here.started /\ d.rows = Here.rows
      /\ d.results = Here.results /\ d.report = rep
  <2> HIDE DEF rep
  <2>1. d \in Directory /\ d.imported /\ d.started = Here.started /\ d.rows = Here.rows
        /\ d.results = Here.results /\ d.report = rep
    BY <1>1, <1>2, <1>3 DEF Directory
  <2>2. Write(d)
    BY DEF Export, rep
  <2> QED BY <2>1, <2>2
<1>5. \A u \in Units : rep[u] = IF u \in records THEN Here.rows[u] ELSE Row("not_started", NoRow.requests)
  OBVIOUS
<1> HIDE DEF rep, d
<1>6. Turn(d)
  BY <1>1, <1>4, TurnIs
<1>7. Handed = Here /\ Handed' = d /\ Here' = d
  BY <1>1, <1>4, <1>6, LoopTurn
<1>8. \A u \in Units : Began(Here, u) => u \in records
  BY <1>1 DEF BInv, Looping, Began, InUnit
<1>9. Carried'
  <2>1. \A s \in 1 .. segment : IF s = segment THEN dirs'[s] = d ELSE dirs'[s] = dirs[s]
    BY <1>6 DEF Turn
  <2>2. \A s \in 1 .. segment : dirs'[s].rows = dirs[s].rows
    BY <1>4, <2>1 DEF Here
  <2>3. \A u \in Units : Settlement(d, u) = Settlement(Here, u) /\ Began(d, u) = Began(Here, u)
    BY <1>4 DEF Settlement, Began, RequestRows
  <2> QED BY <1>1, <1>4, <1>7, <2>2, <2>3 DEF KInv, Carried
<1>10. Typed' /\ Copying' /\ Settling' /\ RowsOfRecords'
  BY <1>1, <1>6, TypedKept DEF Copying, Settling, RowsOfRecords, InUnit
<1>11. TrueRows'
  <2>1. TrueDirectory(d)
    BY <1>2, <1>4 DEF TrueDirectory
  <2> QED BY <1>1, <1>6, <2>1, TruthKept
<1>12. ResultsKept'
  <2> SUFFICES ASSUME NEW s \in 1 .. segment, NEW t \in 1 .. segment, s < t, dirs'[t].report # <<>>,
                      NEW u \in Units, dirs'[s].rows[u] # NoRow
               PROVE  dirs'[t].report[u] = dirs'[s].rows[u]
    BY <1>1 DEF ResultsKept
  <2>1. s # segment /\ dirs'[s] = dirs[s]
    BY <1>6 DEF Turn
  <2>2. CASE t # segment
    BY <1>6, <2>1, <2>2 DEF KInv, ResultsKept, Turn
  <2>3. CASE t = segment
    <3>1. Settlement(Here, u) = dirs[s].rows[u] /\ dirs[s].rows[u] # NoRow
      BY <1>7, <2>1 DEF KInv, Carried
    <3>2. Began(Here, u)
      BY <1>7, <3>1 DEF KInv, Carried, Settlement
    <3>3. u \in records /\ Here.rows[u] # NoRow
      BY <1>1, <1>8, <3>2 DEF KInv, RowsOfRecords
    <3>4. Here.rows[u] = dirs[s].rows[u]
      BY <3>1, <3>3 DEF Settlement
    <3>5. dirs'[t].report = rep
      BY <1>4, <1>6, <2>3 DEF Turn
    <3> QED BY <1>5, <2>1, <3>3, <3>4, <3>5
  <2> QED BY <2>2, <2>3
<1>13. ReportedTruly'
  <2>1. ASSUME NEW u \in Units
        PROVE  /\ rep[u].status = "not_started" => ran[u] = 0
               /\ \A r \in Requests : /\ rep[u].requests[r] = "not_started" => asked[<<u, r>>] = 0
                                      /\ rep[u].requests[r] \in {"completed", "failed"} => asked[<<u, r>>] = 1
    <3>1. CASE u \in records
      BY <1>2, <1>5, <3>1 DEF TrueDirectory, TrueRow
    <3>2. CASE u \notin records
      <4>1. ran[u] \in Nat /\ (ran[u] > 0 => Began(Here, u))
        BY <1>1, HereKnows DEF Knows, BInv, TypeOK, Began
      <4>2. ran[u] = 0
        BY <1>8, <3>2, <4>1
      <4>3. \A r \in Requests : rep[u].requests[r] = "none"
        BY <1>5, <3>2 DEF Row, NoRow
      <4> QED BY <4>2, <4>3
    <3> QED BY <3>1, <3>2
  <2> QED BY <1>1, <1>4, <1>7, <2>1 DEF ReportedTruly
<1> QED BY <1>9, <1>10, <1>11, <1>12, <1>13 DEF KInv

LEMMA DieKeepsK == ASSUME BInv, KInv, Die PROVE KInv'
<1>1. /\ pc # "idle" /\ pc' = "idle" /\ segment' = segment /\ dirs' = dirs /\ asked' = asked
  BY DEF Die
<1>2. Here \in Directory /\ Turn(Here) /\ Here' = Here /\ Here.report = <<>>
  BY <1>1, HereTyped, TurnIs DEF Here, KInv, Typed
<1>3. Typed' /\ ResultsKept' /\ ReportedTruly'
  BY <1>2, TypedKept, ReportsKept DEF ReportedTruly
<1>4. Carried' /\ TrueRows'
  <2>1. Handed' = Handed
    BY <1>1 DEF Handed
  <2> QED BY <1>1, <2>1 DEF KInv, Carried, TrueRows, TrueDirectory, TrueRow
<1>5. Copying' /\ Settling' /\ RowsOfRecords'
  BY <1>1 DEF Copying, Settling, RowsOfRecords, InUnit
<1> QED BY <1>3, <1>4, <1>5 DEF KInv

LEMMA InitiallyK == Init => KInv
<1> SUFFICES ASSUME Init PROVE KInv
  OBVIOUS
<1>1. /\ dirs = [s \in Segments |-> EmptyDirectory] /\ segment = 0 /\ pc = "idle" /\ 1 .. segment = {}
      /\ asked = [p \in Units \X Requests |-> 0]
  BY DEF Init
<1>2. Typed
  BY <1>1, EmptyTyped DEF Typed
<1>3. Handed = EmptyDirectory
  BY <1>1, HandedEmpty DEF Handed
<1>4. Carried
  BY <1>1, <1>3 DEF Carried, EmptyDirectory
<1>5. Copying /\ Settling /\ RowsOfRecords /\ TrueRows /\ ResultsKept /\ ReportedTruly
  BY <1>1 DEF Copying, Settling, RowsOfRecords, InUnit, TrueRows, ResultsKept, ReportedTruly
<1> QED BY <1>2, <1>4, <1>5 DEF KInv

LEMMA StutterKeepsK == ASSUME KInv, UNCHANGED vars PROVE KInv'
<1>1. /\ dirs' = dirs /\ segment' = segment /\ pc' = pc /\ source' = source /\ todo' = todo /\ unit' = unit
      /\ request' = request /\ records' = records /\ ran' = ran /\ asked' = asked
  BY DEF vars, loop
<1>2. Here' = Here /\ From' = From /\ Handed' = Handed
  BY <1>1 DEF Here, From, Handed
<1>3. Typed' /\ Copying' /\ Settling' /\ RowsOfRecords'
  BY <1>1, <1>2 DEF KInv, Typed, Copying, Settling, RowsOfRecords
<1>4. Carried' /\ TrueRows' /\ ResultsKept' /\ ReportedTruly'
  BY <1>1, <1>2 DEF KInv, Carried, TrueRows, TrueDirectory, TrueRow, ResultsKept, ReportedTruly
<1> QED BY <1>3, <1>4 DEF KInv

LEMMA NextKeepsK == ASSUME BInv, KInv, ~ResumePartial, Next PROVE KInv'
BY BeginKeepsK, ImportFileKeepsK, ImportedKeepsK, SettleUnitKeepsK, SettledKeepsK, SkipKeepsK, StartUnitKeepsK,
   RunUnitKeepsK, StartRequestKeepsK, GenerateKeepsK, EndRequestKeepsK, SummarizeKeepsK, UnitRaisesKeepsK,
   ExportKeepsK, DieKeepsK DEF Next

LEMMA InductiveK == ASSUME ~ResumePartial PROVE Spec => [](BInv /\ KInv)
<1>1. BInv /\ KInv /\ [Next]_vars => BInv' /\ KInv'
  BY NextKeeps, StutterKeeps, NextKeepsK, StutterKeepsK
<1> QED BY Initially, InitiallyK, <1>1, PTL DEF Spec

\* However often segments die and resume one another, the report of a later
\* segment says of a unit what the first row written for it says.
THEOREM ResultsStay == ASSUME ~ResumePartial PROVE Spec => []ResultsKept
<1>1. BInv /\ KInv => ResultsKept
  BY DEF KInv
<1> QED BY InductiveK, <1>1, PTL

\* What the report of a segment calls not started was never run in any segment,
\* and what it calls completed or failed was asked exactly once.
THEOREM ReportsAreTrue == ASSUME ~ResumePartial PROVE Spec => []ReportedTruly
<1>1. BInv /\ KInv => ReportedTruly
  BY DEF KInv
<1> QED BY InductiveK, <1>1, PTL
=============================================================================
