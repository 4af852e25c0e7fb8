------------------------------ MODULE Requests ------------------------------
(***************************************************************************)
(* What the restricted model service promises the clients of its HTTP      *)
(* interface (docs/18_RESTRICTED_CUDA_SERVICE.md, service/runtime.py): the *)
(* life of accepted requests, without scheduler, worker or queue.          *)
(*                                                                         *)
(* One step may settle several records, because every critical section of  *)
(* the code first ends whatever waited too long.                           *)
(***************************************************************************)
EXTENDS Naturals

CONSTANTS
  Slots,        \* the (principal, Idempotency-Key) pairs clients use
  MaxRecords,   \* MAX_RECORDS
  Nobody        \* the slot of a record not yet accepted

RequestsAssumption == MaxRecords \in Nat /\ Nobody \notin Slots

Jobs == 1 .. MaxRecords
Terminal == {"completed", "parse_failure", "budget_exhausted", "cancelled",
             "timed_out", "infrastructure_error"}
Open == {"running", "stopping"}
Status == {"absent", "queued"} \cup Open \cup Terminal

VARIABLES
  status,    \* of each record, in the order of acceptance
  slot,      \* the slot each record was accepted for
  records,   \* how many were accepted
  stopping   \* nothing is accepted or started any more

vars == <<status, slot, records, stopping>>

Init ==
  /\ status = [j \in Jobs |-> "absent"]
  /\ slot = [j \in Jobs |-> Nobody]
  /\ records = 0
  /\ stopping = FALSE

\* Without a start: what waits ends unstarted; what runs completes or is told
\* to stop; what was told to stop ends with any outcome, a success that the
\* stop came too late for included.
Moves ==
  ({"queued"} \X {"cancelled", "timed_out", "infrastructure_error"})
    \cup ({"running"} \X {"stopping", "completed"})
    \cup ({"stopping"} \X Terminal)

Settles(j) == status'[j] = status[j] \/ <<status[j], status'[j]>> \in Moves

Settle ==
  /\ status' \in [Jobs -> Status]
  /\ \A j \in Jobs : Settles(j)
  /\ stopping' \in {stopping, TRUE}
  /\ UNCHANGED <<slot, records>>

Unused(k) == \A i \in 1 .. records : slot[i] # k

\* A new record for a slot that has none.
Accept(k) ==
  /\ ~stopping /\ UNCHANGED stopping
  /\ records < MaxRecords
  /\ Unused(k)
  /\ records' = records + 1
  /\ slot' = [slot EXCEPT ![records'] = k]
  /\ status' \in [Jobs -> Status]
  /\ status'[records'] = "queued"
  /\ \A j \in Jobs \ {records'} : Settles(j)

Idle == \A i \in Jobs : status[i] \notin Open

\* One record starts: none is open, and none accepted before it still waits.
Start(j) ==
  /\ ~stopping /\ UNCHANGED stopping
  /\ status[j] = "queued"
  /\ status' \in [Jobs -> Status]
  /\ status'[j] = "running"
  /\ \A i \in Jobs : i < j => status'[i] # "queued"
  /\ Idle
  /\ \A i \in Jobs \ {j} : Settles(i)
  /\ UNCHANGED <<slot, records>>

Next ==
  \/ Settle
  \/ \E k \in Slots : Accept(k)
  \/ \E j \in Jobs : Start(j)

Spec == Init /\ [][Next]_vars

----------------------------------------------------------------------------
TypeOK ==
  /\ status \in [Jobs -> Status]
  /\ slot \in [Jobs -> Slots \cup {Nobody}]
  /\ records \in 0 .. MaxRecords
  /\ stopping \in BOOLEAN

\* One generation at a time.
OneOpen == \A i, j \in Jobs : status[i] \in Open /\ status[j] \in Open => i = j

\* An Idempotency-Key names at most one record, whatever is sent again.
OnePerSlot ==
  \A i, j \in 1 .. records : slot[i] = slot[j] => i = j

\* A terminal record is the answer for good, and no record is ever run twice.
Final ==
  [][\A j \in Jobs :
       /\ status[j] \in Terminal => status'[j] = status[j]
       /\ status[j] \in Open => status'[j] # "queued"]_vars
=============================================================================
