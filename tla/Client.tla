------------------------------ MODULE Client ------------------------------
(***************************************************************************)
(* One decision of the remote client (client/remote.py, client/http.py):   *)
(* its durable receipt, its retries with the original key, and the cleanup *)
(* that follows every POST whose end it has not seen.  The service behind  *)
(* the tunnel is what Requests promises; a request the client gave up on   *)
(* may still be handled later, and a reply may never arrive.               *)
(***************************************************************************)
EXTENDS Naturals

CONSTANTS
  MaxRecords,  \* MAX_RECORDS of the service
  MaxPosts     \* how many creation attempts the decision deadline leaves room for

ASSUME ClientAssumption == MaxRecords \in Nat \ {0} /\ MaxPosts \in Nat \ {0}

VARIABLES
  status, slot, records, stopping,  \* the service: see Requests
  pc,          \* where decision, or the cancel command after a crash, is
  receipt,     \* its receipt: see ReceiptType
  saved,       \* what survives of the receipt file: [written, posts, id]
  submit,      \* submit local to decision
  wire,        \* POSTs under way: creation attempts by number, Cancelling
  reply,       \* the answer on its way to the attempt that still waits for it
  expired,     \* the local deadline of the decision has passed
  cancelled,   \* its cancellation token
  cleanOver    \* the cleanup budget is used up

Mine == "key"        \* the Idempotency-Key of this decision
Nobody == "nobody"
Slots == {Mine}
Jobs == 1 .. MaxRecords
None == 0
Cancelling == 0

Svc == INSTANCE Requests

svcVars == <<status, slot, records, stopping>>
clientVars == <<pc, receipt, saved, submit>>
netVars == <<wire, reply>>
clockVars == <<expired, cancelled, cleanOver>>
vars == <<svcVars, clientVars, netVars, clockVars>>

NoReply == [kind |-> "none", id |-> None, status |-> "none"]
Reply(kind) == [NoReply EXCEPT !.kind = kind]
StateOf(j, s) == [kind |-> "state", id |-> j, status |-> s[j]]
Save(r) == [written |-> TRUE, posts |-> r.posts, id |-> r.id]

Init ==
  /\ Svc!Init
  /\ pc = "begin"
  /\ receipt = [posts |-> 0, rejected |-> FALSE, id |-> None, state |-> "none",
                status |-> "unknown", cleanup |-> "none"]
  /\ saved = [written |-> FALSE, posts |-> 0, id |-> None]
  /\ submit = TRUE
  /\ wire = {} /\ reply = NoReply
  /\ expired = FALSE /\ cancelled = FALSE /\ cleanOver = FALSE

Interrupted == expired \/ cancelled
Awaiting == {"await_create", "await_look", "await_clook", "await_cancel"}

----------------------------------------------------------------------------
(* decision: pc names the next statement that touches disk, network or     *)
(* clock.                                                                  *)

frame == <<svcVars, clockVars>>

\* The original key and payload exist on disk before any creation attempt.
Begin ==
  /\ pc = "begin"
  /\ saved' = Save(receipt)
  /\ pc' = "ready"
  /\ UNCHANGED <<receipt, submit, netVars, frame>>

\* _ready: the service is the expected one and accepts, or this fails.
Ready ==
  /\ pc = "ready"
  /\ \E to \in IF Interrupted THEN {"failed"} ELSE {"loop", "failed"} : pc' = to
  /\ UNCHANGED <<receipt, saved, submit, netVars, frame>>

\* The deadline or the token ends the loop.
EndLocally ==
  /\ receipt' = [receipt EXCEPT !.status = IF cancelled THEN "cancelled" ELSE "timed_out"]
  /\ pc' = "end"
  /\ UNCHANGED <<saved, submit, netVars, frame>>

\* The head of the loop: a creation attempt is counted and saved first.
Loop ==
  /\ pc = "loop"
  /\ IF Interrupted THEN EndLocally
     ELSE /\ IF submit
             THEN /\ receipt.posts < MaxPosts
                  /\ receipt' = [receipt EXCEPT !.posts = @ + 1]
                  /\ saved' = Save(receipt')
                  /\ pc' = "post"
             ELSE pc' = "look" /\ UNCHANGED <<receipt, saved>>
          /\ UNCHANGED <<submit, netVars, frame>>

\* Mutant: a receipt that cannot be written does not stop the attempt.
LoopGoesOnUnsaved ==
  /\ pc = "loop" /\ ~Interrupted /\ submit /\ receipt.posts < MaxPosts
  /\ receipt' = [receipt EXCEPT !.posts = @ + 1]
  /\ pc' = "post"
  /\ UNCHANGED <<saved, submit, netVars, frame>>

\* The receipt cannot be written: no attempt is made.
LoopUnsaved ==
  /\ pc = "loop" /\ ~Interrupted /\ submit /\ receipt.posts < MaxPosts
  /\ receipt' = [receipt EXCEPT !.posts = @ + 1]
  /\ pc' = "failed"
  /\ UNCHANGED <<saved, submit, netVars, frame>>

Post ==
  /\ pc = "post"
  /\ IF Interrupted
     THEN pc' = "look" /\ submit' = FALSE /\ UNCHANGED wire
     ELSE pc' = "await_create" /\ wire' = wire \cup {receipt.posts} /\ UNCHANGED submit
  /\ reply' = NoReply
  /\ UNCHANGED <<receipt, saved, frame>>

\* Mutant: any refusal means that nothing was created.
RejectedByAny == TRUE

\* Only a refusal of the very first attempt proves that nothing was created.
Rejected == receipt.posts = 1

\* The answer to a creation attempt; the receipt with its ID may not be saved.
Created ==
  /\ pc = "await_create"
  /\ reply' = NoReply
  /\ \/ /\ reply.kind = "state" /\ receipt.id \in {None, reply.id}
        /\ receipt' = [receipt EXCEPT !.id = reply.id]
        /\ \/ saved' = Save(receipt') /\ pc' = "look" /\ submit' = FALSE
           \/ pc' = "failed" /\ UNCHANGED <<saved, submit>>
     \/ /\ reply.kind = "refused"
        /\ receipt' = [receipt EXCEPT !.rejected = Rejected]
        /\ pc' = "failed"
        /\ UNCHANGED <<saved, submit>>
     \/ /\ \/ reply.kind = "malformed"
           \/ reply.kind = "state" /\ receipt.id \notin {None, reply.id}
        /\ pc' = "failed"
        /\ UNCHANGED <<receipt, saved, submit>>
  /\ UNCHANGED <<wire, frame>>

Look ==
  /\ pc = "look"
  /\ IF Interrupted THEN EndLocally
     ELSE /\ pc' = "await_look" /\ reply' = NoReply
          /\ UNCHANGED <<receipt, saved, submit, wire, frame>>

\* Mutant: a cancellation that was taken up counts as the end.
ObservedStopping(st) == st \in Svc!Terminal \cup {"stopping"}

Observed(st) == st \in Svc!Terminal

\* The record as it was when it was read; a terminal one ends the decision if
\* the local deadline still holds.
Looked ==
  /\ pc = "await_look" /\ reply.kind = "state" /\ receipt.id \in {None, reply.id}
  /\ LET seen == [receipt EXCEPT !.id = reply.id, !.state = reply.status]
     IN  \/ /\ saved' = Save(seen)
            /\ IF Interrupted
               THEN /\ receipt' = [seen EXCEPT !.status = IF cancelled THEN "cancelled" ELSE "timed_out"]
                    /\ pc' = "end"
               ELSE IF Observed(reply.status)
               THEN receipt' = [seen EXCEPT !.status = reply.status] /\ pc' = "end"
               ELSE receipt' = seen /\ pc' = "loop"
         \/ receipt' = seen /\ pc' = "failed" /\ UNCHANGED saved
  /\ reply' = NoReply
  /\ UNCHANGED <<submit, wire, frame>>

\* Nothing under this key: the original body may be posted again.
Missing ==
  /\ pc = "await_look" /\ reply.kind = "missing"
  /\ IF receipt.id = None THEN submit' = TRUE /\ pc' = "loop"
     ELSE pc' = "failed" /\ UNCHANGED submit
  /\ reply' = NoReply
  /\ UNCHANGED <<receipt, saved, wire, frame>>

LookedMalformed ==
  /\ pc = "await_look"
  /\ \/ reply.kind = "malformed"
     \/ reply.kind = "state" /\ receipt.id \notin {None, reply.id}
  /\ pc' = "failed"
  /\ reply' = NoReply
  /\ UNCHANGED <<receipt, saved, submit, wire, frame>>

\* TransportError: no answer within this attempt.
GiveUp ==
  /\ pc \in Awaiting
  /\ pc' = CASE pc = "await_create" -> "look"
             [] pc = "await_look" -> "loop"
             [] OTHER -> "clean"
  /\ submit' = (submit /\ pc # "await_create")
  /\ reply' = NoReply
  /\ UNCHANGED <<receipt, saved, wire, frame>>

Failed ==
  /\ pc = "failed"
  /\ receipt' = [receipt EXCEPT !.status = IF cancelled THEN "cancelled"
                                           ELSE IF expired THEN "timed_out" ELSE "rejected"]
  /\ pc' = "end"
  /\ UNCHANGED <<saved, submit, netVars, frame>>

\* Mutant: only a known request is cleaned up after.
MustCleanKnown == receipt.id # None /\ receipt.state \notin Svc!Terminal

\* Cleanup follows every attempt whose end is not known.
MustClean == receipt.posts > 0 /\ ~receipt.rejected /\ receipt.state \notin Svc!Terminal

End ==
  /\ pc = "end"
  /\ IF MustClean
     THEN pc' = "clean" /\ receipt' = [receipt EXCEPT !.cleanup = "unknown"]
     ELSE pc' = "write" /\ UNCHANGED receipt
  /\ UNCHANGED <<saved, submit, netVars, frame>>

\* The last write of the receipt, which may fail like any other.
Write ==
  /\ pc = "write"
  /\ saved' \in {saved, Save(receipt)}
  /\ pc' = "done"
  /\ UNCHANGED <<receipt, submit, netVars, frame>>

----------------------------------------------------------------------------
(* cleanup: reads by key and cancels, never posts a creation.              *)

\* Mutant: the cleanup has no budget of its own.
CleanForever ==
  /\ pc = "clean"
  /\ pc' = "await_clook"
  /\ reply' = NoReply
  /\ UNCHANGED <<receipt, saved, submit, wire, frame>>

Clean ==
  /\ pc = "clean"
  /\ pc' = IF cleanOver THEN "write" ELSE "await_clook"
  /\ reply' = NoReply
  /\ UNCHANGED <<receipt, saved, submit, wire, frame>>

\* A record that was read or cancelled; anything else is tried again.
Cleaned ==
  /\ pc \in {"await_clook", "await_cancel"}
  /\ reply.kind # "none"
  /\ IF reply.kind = "state" /\ receipt.id \in {None, reply.id}
     THEN /\ receipt' = [receipt EXCEPT !.id = reply.id, !.state = reply.status,
                           !.cleanup = IF Observed(reply.status) THEN "terminal_observed" ELSE @]
          /\ pc' = IF Observed(reply.status) THEN "write"
                   ELSE IF pc = "await_clook" THEN "cancel" ELSE "clean"
     ELSE pc' = "clean" /\ UNCHANGED receipt
  /\ reply' = NoReply
  /\ UNCHANGED <<saved, submit, wire, frame>>

CancelRemote ==
  /\ pc = "cancel"
  /\ IF cleanOver THEN pc' = "clean" /\ UNCHANGED wire
     ELSE pc' = "await_cancel" /\ wire' = wire \cup {Cancelling}
  /\ UNCHANGED <<receipt, saved, submit, reply, frame>>

----------------------------------------------------------------------------
(* The end of the client process, and the cancel command on its receipt.   *)

Crash ==
  /\ pc \notin {"done", "crashed"}
  /\ pc' = "crashed"
  /\ reply' = NoReply
  /\ UNCHANGED <<receipt, saved, submit, wire, frame>>

\* restore_request: only key, body and request ID survive.
CancelCommand ==
  /\ pc = "crashed" /\ saved.written
  /\ receipt' = [receipt EXCEPT !.id = saved.id, !.state = "none", !.rejected = FALSE,
                   !.status = "unknown", !.cleanup = "unknown"]
  /\ pc' = "clean"
  /\ cleanOver' = FALSE
  /\ UNCHANGED <<saved, submit, netVars, svcVars, expired, cancelled>>

Client ==
  \/ Begin \/ Ready \/ Loop \/ LoopUnsaved \/ Post \/ Created \/ Look \/ Looked
  \/ Missing \/ LookedMalformed \/ GiveUp \/ Failed \/ End \/ Write
  \/ Clean \/ Cleaned \/ CancelRemote

----------------------------------------------------------------------------
(* The service and the network.                                            *)

\* The key of creation attempt a: the receipt's, whatever the attempt.

RecordsOf(k) == {j \in 1 .. records : slot[j] = k}

\* What the server answers is only read by the attempt that still waits.
Answer(r, awaited) == reply' = IF awaited /\ reply.kind = "none" THEN r ELSE reply

\* The handler of a creation POST: a new record, the one it finds, or a refusal.
ServeCreate(a) ==
  LET awaited == pc = "await_create" /\ receipt.posts = a
  IN  /\ a \in wire \ {Cancelling}
      /\ wire' = wire \ {a}
      /\ \/ /\ Svc!Accept(Mine)
            /\ Answer(StateOf(records', status'), awaited)
         \/ /\ RecordsOf(Mine) = {}
            /\ Answer(Reply("refused"), awaited)
            /\ UNCHANGED svcVars
         \/ \E j \in RecordsOf(Mine) :
              Answer(StateOf(j, status), awaited) /\ UNCHANGED svcVars
      /\ UNCHANGED <<clientVars, clockVars>>

\* The handler of a lookup by key or ID.
ServeLook ==
  /\ pc \in {"await_look", "await_clook"} /\ reply.kind = "none"
  /\ \/ \E j \in RecordsOf(Mine) : reply' = StateOf(j, status)
     \/ RecordsOf(Mine) = {} /\ reply' = Reply("missing")
  /\ UNCHANGED <<svcVars, wire, clientVars, clockVars>>

\* The handler of a cancel POST: at once for a queued record, a stop for a
\* running one.
ServeCancel ==
  /\ Cancelling \in wire
  /\ wire' = wire \ {Cancelling}
  /\ \E j \in RecordsOf(Mine) :
       /\ status' = [status EXCEPT ![j] = IF @ = "queued" THEN "cancelled"
                                          ELSE IF @ = "running" THEN "stopping" ELSE @]
       /\ Answer(StateOf(j, status'), pc = "await_cancel")
  /\ UNCHANGED <<slot, records, stopping, clientVars, clockVars>>

\* The service goes its way.
ServiceStep ==
  /\ Svc!Settle \/ \E j \in Jobs : Svc!Start(j)
  /\ UNCHANGED <<clientVars, netVars, clockVars>>

\* Something answers that is not this service, or not this protocol.
Garble ==
  /\ pc \in Awaiting
  /\ reply' = Reply("malformed")
  /\ UNCHANGED <<svcVars, wire, clientVars, clockVars>>

Expire == ~expired /\ expired' = TRUE /\ UNCHANGED <<svcVars, clientVars, netVars, cancelled, cleanOver>>
CleanExpire ==
  /\ pc \in {"clean", "await_clook", "cancel", "await_cancel"} /\ ~cleanOver
  /\ cleanOver' = TRUE
  /\ UNCHANGED <<svcVars, clientVars, netVars, expired, cancelled>>
Interrupt == ~cancelled /\ cancelled' = TRUE /\ UNCHANGED <<svcVars, clientVars, netVars, expired, cleanOver>>

Ended == pc = "done" /\ UNCHANGED vars

Next ==
  \/ Client \/ Crash \/ CancelCommand
  \/ \E a \in 1 .. MaxPosts : ServeCreate(a)
  \/ ServeLook \/ ServeCancel \/ ServiceStep \/ Garble
  \/ Expire \/ CleanExpire \/ Interrupt \/ Ended

Spec == Init /\ [][Next]_vars

\* The client's thread runs and its two clocks advance; no answer is assumed.
FairSpec == Spec /\ WF_vars(Client) /\ WF_vars(Expire) /\ WF_vars(CleanExpire)

----------------------------------------------------------------------------
(* Correctness.                                                            *)

ReceiptType ==
  [posts : 0 .. MaxPosts, rejected : BOOLEAN, id : Jobs \cup {None},
   state : Svc!Status \cup {"none"}, status : Svc!Terminal \cup {"unknown", "rejected"},
   cleanup : {"none", "unknown", "terminal_observed"}]

\* Whatever was or may still be created can be found again from the disk, and
\* no attempt is made that the receipt there does not count.
Recoverable ==
  /\ records > 0 \/ wire # {} => saved.written /\ saved.posts > 0
  /\ \A a \in wire : a <= saved.posts

\* A decision that says its creation was rejected left nothing at the service,
\* and no attempt of it is still under way.
RejectedMeansNone == receipt.rejected => records = 0 /\ wire = {}

\* A decision that ends without a report of unknown cleanup left no record that
\* is not terminal and no attempt that could still create one.
NothingLeftSilently ==
  pc = "done" /\ receipt.cleanup # "unknown" =>
    /\ \A j \in 1 .. records : status[j] \in Svc!Terminal
    /\ wire \ {Cancelling} # {} => records > 0

\* What the receipt calls the end of the request is what the service recorded.
Truthful ==
  /\ receipt.cleanup = "terminal_observed" => status[receipt.id] \in Svc!Terminal
  /\ receipt.status = "completed" => status[receipt.id] = "completed"

\* Every decision and every cancel command comes to its end, though nothing
\* ever answers.
Ends == pc # "begin" ~> pc \in {"done", "crashed"}
============================================================================
