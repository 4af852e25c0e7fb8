------------------------------- MODULE Batch -------------------------------
(***************************************************************************)
(* The journals of long batches (evaluation/cuda_eval/runner.py and        *)
(* training/cuda_generate/runner.py): a batch runs in segments, each with  *)
(* an output directory of its own.  A segment may die at any point; a      *)
(* later one imports the directory of an earlier one and goes on.          *)
(*                                                                         *)
(* The files of a directory are written once, each by an atomic rename     *)
(* (OutputStore.write).  A unit is one trajectory or a sequence of         *)
(* requests, each of them with files of its own; with MaxRequests = 0 the  *)
(* module is the generation runner.                                        *)
(***************************************************************************)
EXTENDS Naturals

CONSTANTS
  MaxUnits,       \* the length of the plan
  MaxRequests,    \* the requests of a unit
  MaxSegments,    \* bounds the number of segments
  ResumePartial   \* a segment that died while importing is resumed from, too

ASSUME BatchAssumption ==
  MaxUnits \in Nat \ {0} /\ MaxRequests \in Nat /\ MaxSegments \in Nat /\ ResumePartial \in BOOLEAN

Units == 1 .. MaxUnits
Requests == 1 .. MaxRequests
Segments == 1 .. MaxSegments

VARIABLES
  dirs,      \* the directories: see Directory
  segment,   \* the current segment, 0 before the first
  pc,        \* where it is, "idle" between segments
  limit,     \* its stop_after_unit or max_trajectories
  source,    \* its resume_from, 0 for none
  todo,      \* the files it still has to import
  unit,      \* loop variables
  request,
  closed,    \* the session of the unit is closed
  records,   \* the units whose terminal row it holds
  ran,       \* how often a unit was run, over all segments
  asked      \* how often a request was

loop == <<limit, source, todo, unit, request, closed, records>>
vars == <<dirs, segment, pc, loop, ran, asked>>

\* A row's status, and those of its requests.
NoRow == [status |-> "none", requests |-> [r \in Requests |-> "none"]]
Row(s, rs) == [status |-> s, requests |-> rs]

\* The files of units have request 0.
File(u, r, kind) == [unit |-> u, request |-> r, kind |-> kind]
Places == Units \X (0 .. MaxRequests)

\* started: the started files; rows: the terminal files of units; results:
\* those of requests; report: the exported rows; imported: recover returned.
EmptyDirectory ==
  [imported |-> FALSE, started |-> {}, rows |-> [u \in Units |-> NoRow],
   results |-> [p \in Units \X Requests |-> "none"], report |-> <<>>]

Init ==
  /\ dirs = [s \in Segments |-> EmptyDirectory]
  /\ segment = 0 /\ pc = "idle"
  /\ limit = 0 /\ source = 0 /\ todo = {} /\ unit = 1 /\ request = 1 /\ closed = FALSE
  /\ records = {}
  /\ ran = [u \in Units |-> 0]
  /\ asked = [p \in Units \X Requests |-> 0]

Here == dirs[segment]
Write(d) == dirs' = [dirs EXCEPT ![segment] = d]

\* Mutants: the terminal files, or those of the requests, are not imported.
FilesStarted(d) == {File(p[1], p[2], "started") : p \in d.started}
FilesOfUnits(d) ==
  {File(p[1], p[2], "started") : p \in {q \in d.started : q[2] = 0}}
    \cup {File(u, 0, "terminal") : u \in {v \in Units : d.rows[v] # NoRow}}
FilesOf(d) ==
  {File(p[1], p[2], "started") : p \in d.started}
    \cup {File(u, 0, "terminal") : u \in {v \in Units : d.rows[v] # NoRow}}
    \cup {File(p[1], p[2], "terminal") : p \in {q \in Units \X Requests : d.results[q] # "none"}}

\* sorted(iterdir()): the files of the units, then those of the requests.
Before(f, g) ==
  \/ f.request = 0 /\ g.request # 0
  \/ /\ f.request = 0 <=> g.request = 0
     /\ \/ f.unit < g.unit
        \/ f.unit = g.unit /\ f.request < g.request
        \/ f.unit = g.unit /\ f.request = g.request /\ f.kind = "started" /\ g.kind = "terminal"

\* What the next segment may be given as resume_from: a directory with a
\* batch.json, and if ~ResumePartial with a finished import.
Resumable == {s \in 1 .. segment : ResumePartial \/ dirs[s].imported}
Newest(S) == CHOOSE s \in S : \A t \in S : t <= s

\* A segment starts in a directory of its own; one that dies before its
\* batch.json is there can never be resumed from, and is left out.
Begin ==
  /\ pc = "idle" /\ segment < MaxSegments
  /\ segment' = segment + 1
  /\ limit' \in Units
  /\ source' = IF Resumable = {} THEN 0 ELSE Newest(Resumable)
  /\ todo' = IF Resumable = {} THEN {} ELSE FilesOf(dirs[Newest(Resumable)])
  /\ unit' = 1 /\ request' = 1 /\ closed' = FALSE /\ records' = {}
  /\ pc' = "import"
  /\ UNCHANGED <<dirs, ran, asked>>

\* One file is read and written again.
ImportFile ==
  /\ pc = "import"
  /\ \E f \in todo :
       /\ \A g \in todo \ {f} : Before(f, g)
       /\ todo' = todo \ {f}
       /\ LET place == <<f.unit, f.request>>
          IN Write(IF f.kind = "started" THEN [Here EXCEPT !.started = @ \cup {place}]
                   ELSE IF f.request = 0 THEN [Here EXCEPT !.rows[f.unit] = dirs[source].rows[f.unit]]
                   ELSE [Here EXCEPT !.results[place] = dirs[source].results[place]])
  /\ UNCHANGED <<segment, pc, limit, source, unit, request, closed, records, ran, asked>>

Imported ==
  /\ pc = "import" /\ todo = {}
  /\ pc' = "settle"
  /\ UNCHANGED <<dirs, segment, loop, ran, asked>>

\* replay_rows: what the request files say of the unit.
RequestRows(d, u) ==
  [r \in Requests |->
     IF d.results[<<u, r>>] # "none" THEN d.results[<<u, r>>]
     ELSE IF <<u, r>> \in d.started THEN "interrupted" ELSE "not_started"]

\* Mutant: a unit that was cut short counts as one that never began.
BeganAndEnded(d, u) == d.rows[u] # NoRow
Began(d, u) == <<u, 0>> \in d.started

\* Every unit that was started has, or now gets, its terminal row.
SettleUnit ==
  /\ pc = "settle" /\ unit <= MaxUnits
  /\ unit' = unit + 1
  /\ IF Began(Here, unit)
     THEN /\ records' = records \cup {unit}
          /\ IF Here.rows[unit] = NoRow
             THEN Write([Here EXCEPT !.rows[unit] = Row("interrupted", RequestRows(Here, unit))])
             ELSE UNCHANGED dirs
     ELSE UNCHANGED <<records, dirs>>
  /\ UNCHANGED <<segment, pc, limit, source, todo, request, closed, ran, asked>>

\* The prefix that was begun cannot shrink.
Settled ==
  /\ pc = "settle" /\ unit > MaxUnits
  /\ \A u \in records : u <= limit
  /\ Write([Here EXCEPT !.imported = TRUE])
  /\ unit' = 1
  /\ pc' = "loop"
  /\ UNCHANGED <<segment, limit, source, todo, request, closed, records, ran, asked>>

Skip ==
  /\ pc = "loop" /\ unit <= limit /\ unit \in records
  /\ unit' = unit + 1
  /\ UNCHANGED <<dirs, segment, pc, limit, source, todo, request, closed, records, ran, asked>>

\* The started record comes before anything is run.
StartUnit ==
  /\ pc = "loop" /\ unit <= limit /\ unit \notin records
  /\ Write([Here EXCEPT !.started = @ \cup {<<unit, 0>>}])
  /\ pc' = "unit"
  /\ UNCHANGED <<segment, loop, ran, asked>>

RunUnit ==
  /\ pc = "unit"
  /\ ran' = [ran EXCEPT ![unit] = @ + 1]
  /\ request' = 1 /\ closed' = FALSE
  /\ pc' = "requests"
  /\ UNCHANGED <<dirs, segment, limit, source, todo, unit, records, asked>>

StartRequest ==
  /\ pc = "requests" /\ request <= MaxRequests /\ ~closed
  /\ Write([Here EXCEPT !.started = @ \cup {<<unit, request>>}])
  /\ pc' = "ask"
  /\ UNCHANGED <<segment, loop, ran, asked>>

\* generate; a result that is not a completed one closes the session.
Generate ==
  /\ pc = "ask"
  /\ asked' = [asked EXCEPT ![<<unit, request>>] = @ + 1]
  /\ closed' \in BOOLEAN
  /\ pc' = "answer"
  /\ UNCHANGED <<dirs, segment, limit, source, todo, unit, request, records, ran>>

EndRequest ==
  /\ pc = "answer"
  /\ Write([Here EXCEPT !.results[<<unit, request>>] = IF closed THEN "failed" ELSE "completed"])
  /\ request' = request + 1
  /\ pc' = "requests"
  /\ UNCHANGED <<segment, limit, source, todo, unit, closed, records, ran, asked>>

EndUnit(row) ==
  /\ Write([Here EXCEPT !.rows[unit] = row])
  /\ records' = records \cup {unit}
  /\ unit' = unit + 1
  /\ pc' = "loop"
  /\ UNCHANGED <<segment, limit, source, todo, request, closed, ran, asked>>

\* The requests are done, or the token, the clock or a failed one ended them.
Summarize ==
  /\ pc = "requests"
  /\ LET rs == RequestRows(Here, unit)
     IN EndUnit(Row(IF \A r \in Requests : rs[r] = "completed" THEN "completed" ELSE "incomplete", rs))

\* What raises inside the unit is its result.
UnitRaises ==
  /\ pc \in {"unit", "requests", "ask", "answer"}
  /\ EndUnit(Row("infrastructure_error", NoRow.requests))

\* The limit is reached, or the token, the clock or the output budget ends the
\* segment; the report names every unit of the plan.
Export ==
  /\ pc = "loop" /\ (unit > limit \/ unit \notin records)
  /\ Write([Here EXCEPT !.report =
       [u \in Units |-> IF u \in records THEN Here.rows[u] ELSE Row("not_started", NoRow.requests)]])
  /\ pc' = "idle"
  /\ UNCHANGED <<segment, loop, ran, asked>>

\* The process or its machine dies, or a write is refused where nothing catches
\* it; the directory stays as it is.
Die ==
  /\ pc # "idle"
  /\ pc' = "idle"
  /\ UNCHANGED <<dirs, segment, loop, ran, asked>>

Next ==
  \/ Begin \/ ImportFile \/ Imported \/ SettleUnit \/ Settled \/ Skip \/ StartUnit \/ RunUnit
  \/ StartRequest \/ Generate \/ EndRequest \/ Summarize \/ UnitRaises \/ Export \/ Die

Spec == Init /\ [][Next]_vars

----------------------------------------------------------------------------
(* Properties.                                                             *)

Results == {"none", "completed", "failed"}
Rows == {NoRow} \cup
  [status : {"completed", "incomplete", "infrastructure_error", "interrupted", "not_started"},
   requests : [Requests -> Results \cup {"interrupted", "not_started"}]]
Directory ==
  [imported : BOOLEAN, started : SUBSET Places, rows : [Units -> Rows],
   results : [Units \X Requests -> Results], report : [Units -> Rows] \cup {<<>>}]

\* Started IDs are never retried, however often segments die and are resumed.
NeverRetried ==
  /\ \A u \in Units : ran[u] <= 1
  /\ \A p \in Units \X Requests : asked[p] <= 1

\* A result, once written, is what every later report says of the unit; a unit
\* that was cut short is never reported as anything else.
ResultsKept ==
  \A s, t \in 1 .. segment :
    s < t /\ dirs[t].report # <<>> =>
      \A u \in Units : dirs[s].rows[u] # NoRow => dirs[t].report[u] = dirs[s].rows[u]

\* What the newest report calls not started was never run in any segment, and
\* what it calls completed or failed was run.
ReportedTruly ==
  pc = "idle" /\ segment > 0 /\ Here.report # <<>> =>
    \A u \in Units :
      /\ Here.report[u].status = "not_started" => ran[u] = 0
      /\ \A r \in Requests :
           /\ Here.report[u].requests[r] = "not_started" => asked[<<u, r>>] = 0
           /\ Here.report[u].requests[r] \in {"completed", "failed"} => asked[<<u, r>>] = 1
=============================================================================
