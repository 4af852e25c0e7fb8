---------------------------- MODULE ClientProofs ----------------------------
(***************************************************************************)
(* Machine-checked: for any number of attempts and records, whatever is    *)
(* lost, answered late, refused or garbled, and wherever the client dies,  *)
(* its durable receipt tells the truth about what the service holds.       *)
(***************************************************************************)
EXTENDS Client, TLAPS

Known == {None} \cup 1 .. records

Cleaning == {"clean", "await_clook", "cancel", "await_cancel"}
Creating == {"begin", "ready", "loop", "post", "await_create", "look", "await_look", "failed", "end"}

\* One key names at most one record, which is the first.
ServerOK ==
  /\ status \in [Jobs -> Svc!Status] /\ slot \in [Jobs -> {Mine, Nobody}] /\ stopping \in BOOLEAN
  /\ records \in {0, 1}
  /\ \A j \in Jobs : status[j] = "absent" <=> j > records
  /\ \A j \in 1 .. records : slot[j] = Mine

\* What the receipt says of a record holds of it.
ReceiptOK ==
  /\ receipt \in ReceiptType /\ receipt.id \in Known
  /\ receipt.state # "none" => receipt.id # None
  /\ receipt.state \in Svc!Terminal => status[receipt.id] = receipt.state
  /\ receipt.cleanup = "terminal_observed" => receipt.id # None /\ status[receipt.id] \in Svc!Terminal
  /\ receipt.status = "completed" => receipt.id # None /\ status[receipt.id] = "completed"

\* The file is never ahead of the receipt, and up to it when a POST goes out.
SavedOK ==
  /\ saved \in [written : BOOLEAN, posts : 0 .. MaxPosts, id : Jobs \cup {None}] /\ saved.id \in Known
  /\ saved.posts <= receipt.posts
  /\ pc \notin {"begin", "crashed"} => saved.written
  /\ pc = "post" => saved.posts = receipt.posts /\ receipt.posts > 0

\* An answer on its way is about a record, or was given when there was none.
ReplyOK ==
  /\ pc \notin Awaiting => reply.kind = "none"
  /\ reply.kind = "state" => /\ reply.id \in 1 .. records /\ reply.status \in Svc!Status
                             /\ reply.status \in Svc!Terminal => status[reply.id] = reply.status
  /\ reply.kind = "refused" => /\ pc = "await_create"
                               /\ receipt.posts = 1 => records = 0 /\ wire = {}

\* Cancellations are posted in the cleanup alone, and creations before it.
WireOK ==
  /\ wire \subseteq 0 .. MaxPosts
  /\ pc \in Creating => Cancelling \notin wire

\* The cleanup is in doubt until it has seen the end.
CleanupOK ==
  /\ pc \in Cleaning => receipt.cleanup = "unknown"
  /\ pc = "cancel" => records > 0
  /\ receipt.rejected => pc \in {"failed", "end", "write", "done", "crashed"}

\* NothingLeftSilently, from the last write on.
NothingLeft ==
  pc \in {"write", "done"} /\ receipt.cleanup # "unknown" =>
    /\ \A j \in 1 .. records : status[j] \in Svc!Terminal
    /\ wire \ {Cancelling} # {} => records > 0

IInv ==
  /\ pc \in Creating \cup Cleaning \cup {"write", "done", "crashed"}
  /\ ServerOK /\ ReceiptOK /\ SavedOK /\ ReplyOK /\ WireOK /\ CleanupOK
  /\ Recoverable /\ RejectedMeansNone /\ NothingLeft

\* A receipt written with the ID of a known record.
LEMMA SaveKnown ==
  ASSUME IInv, receipt \in ReceiptType, NEW id \in Jobs, id \in Known, pc \notin {"begin", "crashed"},
         saved' = saved \/ saved' = [written |-> TRUE, posts |-> receipt.posts, id |-> id]
  PROVE  /\ saved' \in [written : BOOLEAN, posts : 0 .. MaxPosts, id : Jobs \cup {None}]
         /\ saved'.written /\ saved'.id \in Known /\ saved'.posts \in {saved.posts, receipt.posts}
         /\ saved.posts <= saved'.posts /\ saved'.posts <= receipt.posts
<1>1. /\ receipt.posts \in 0 .. MaxPosts /\ saved.posts \in 0 .. MaxPosts /\ saved.posts <= receipt.posts
      /\ saved \in [written : BOOLEAN, posts : 0 .. MaxPosts, id : Jobs \cup {None}]
      /\ saved.written /\ saved.id \in Known
  BY DEF IInv, SavedOK, ReceiptType
<1>2. CASE saved' = saved
  BY <1>1, <1>2
<1>3. CASE saved' = [written |-> TRUE, posts |-> receipt.posts, id |-> id]
  BY <1>1, <1>3
<1>4. QED
  BY <1>2, <1>3

LEMMA LookedKeeps == ASSUME ClientAssumption, IInv, Looked PROVE IInv'
<1> DEFINE seen == [receipt EXCEPT !.id = reply.id, !.state = reply.status]
<1>1. /\ receipt \in ReceiptType /\ reply.id \in Jobs /\ reply.status \in Svc!Status
      /\ reply.kind = "state" /\ receipt.id \in {None, reply.id} /\ pc = "await_look"
  BY DEF ClientAssumption, IInv, ServerOK, ReceiptOK, ReplyOK, Looked, Jobs
<1>2. /\ seen \in ReceiptType /\ seen.id = reply.id /\ seen.state = reply.status
      /\ \A f \in {"posts", "rejected", "status", "cleanup"} : seen[f] = receipt[f]
  BY <1>1 DEF ReceiptType
<1>3. receipt' = seen \/ \E end \in {"cancelled", "timed_out"} \cup Svc!Terminal :
                          receipt' = [seen EXCEPT !.status = end] /\ (end = "completed" => reply.status = end)
  BY DEF Looked, Observed, Svc!Terminal
<1>4. /\ receipt' \in ReceiptType /\ receipt'.id = reply.id /\ receipt'.state = reply.status
      /\ receipt'.posts = receipt.posts /\ receipt'.rejected = receipt.rejected
      /\ receipt'.cleanup = receipt.cleanup
      /\ receipt'.status = "completed" => receipt.status = "completed" \/ reply.status = "completed"
  <2> HIDE DEF seen
  <2>1. CASE receipt' = seen
    BY <1>2, <2>1
  <2>2. ASSUME NEW end \in {"cancelled", "timed_out"} \cup Svc!Terminal,
               receipt' = [seen EXCEPT !.status = end], end = "completed" => reply.status = end
        PROVE  /\ receipt' \in ReceiptType /\ receipt'.status = end
               /\ \A f \in {"posts", "rejected", "id", "state", "cleanup"} : receipt'[f] = seen[f]
    BY <1>2, <2>2 DEF ReceiptType, Svc!Terminal
  <2>3. QED
    BY <1>2, <1>3, <2>1, <2>2
<1>5. saved' = saved \/ saved' = [written |-> TRUE, posts |-> receipt.posts, id |-> reply.id]
  <2> HIDE DEF seen
  <2>1. saved' = saved \/ saved' = Save(seen)
    BY DEF Looked, seen
  <2>2. QED
    BY <1>2, <2>1 DEF Save
<1>6. pc' \in {"end", "loop", "failed"} /\ reply' = NoReply /\ UNCHANGED <<svcVars, wire>>
  BY DEF Looked, frame
<1> HIDE DEF seen
<1>7. ReceiptOK'
  BY <1>1, <1>4, <1>6 DEF IInv, ServerOK, ReceiptOK, ReplyOK, svcVars, Known, None, Jobs,
     Svc!Terminal
<1>8. SavedOK' /\ saved'.posts >= saved.posts
  <2>1. /\ saved' \in [written : BOOLEAN, posts : 0 .. MaxPosts, id : Jobs \cup {None}]
        /\ saved'.written /\ saved'.id \in Known /\ saved.posts <= saved'.posts /\ saved'.posts <= receipt.posts
    BY <1>1, <1>5, SaveKnown DEF IInv, ReplyOK, Known
  <2>2. saved.posts \in Nat /\ saved'.posts \in Nat
    BY <2>1 DEF IInv, SavedOK
  <2>3. QED
    BY <1>4, <1>6, <2>1, <2>2 DEF SavedOK, Known, svcVars
<1>9. QED
  BY <1>1, <1>4, <1>6, <1>7, <1>8 DEF IInv, ServerOK, ReplyOK, WireOK, CleanupOK, Recoverable,
     RejectedMeansNone,
     NothingLeft, SavedOK, Creating, Cleaning, Awaiting, svcVars, NoReply, Svc!Status, Jobs, ClientAssumption

LEMMA CleanedKeeps == ASSUME ClientAssumption, IInv, Cleaned PROVE IInv'
<1>1. CASE reply.kind = "state" /\ receipt.id \in {None, reply.id}
  <2>1. receipt \in ReceiptType /\ reply.id \in Jobs /\ reply.status \in Svc!Status
    BY <1>1 DEF ClientAssumption, IInv, ServerOK, ReceiptOK, ReplyOK, Jobs
  <2>2. receipt' = [receipt EXCEPT !.id = reply.id, !.state = reply.status,
                      !.cleanup = IF Observed(reply.status) THEN "terminal_observed" ELSE @]
    BY <1>1 DEF Cleaned
  <2>3. /\ receipt' \in ReceiptType /\ receipt'.id = reply.id /\ receipt'.state = reply.status
        /\ \A f \in {"posts", "rejected", "status"} : receipt'[f] = receipt[f]
        /\ receipt'.cleanup = IF Observed(reply.status) THEN "terminal_observed" ELSE receipt.cleanup
    BY <2>1, <2>2 DEF ReceiptType
  <2>4. /\ pc \in {"await_clook", "await_cancel"} /\ reply' = NoReply
        /\ pc' = IF Observed(reply.status) THEN "write" ELSE IF pc = "await_clook" THEN "cancel" ELSE "clean"
        /\ UNCHANGED <<svcVars, wire, saved>>
    BY <1>1 DEF Cleaned, frame
  <2>5. ReceiptOK'
    BY <1>1, <2>1, <2>3, <2>4 DEF ClientAssumption, IInv, ServerOK, ReceiptOK, ReceiptType,
       SavedOK, ReplyOK, WireOK, CleanupOK, Recoverable, RejectedMeansNone, NothingLeft,
       Svc!Status, Svc!Terminal, Svc!Open, Jobs, None, Cancelling, Mine, Nobody, Known,
       Creating, Cleaning, Awaiting, svcVars, netVars, clientVars, clockVars, frame, NoReply,
       Reply, StateOf, Save, Interrupted, EndLocally, Rejected, Observed, MustClean, RecordsOf
  <2>6. QED
    BY <1>1, <2>1, <2>3, <2>4, <2>5 DEF ClientAssumption, IInv, ServerOK, ReceiptOK,
       ReceiptType, SavedOK, ReplyOK, WireOK, CleanupOK, Recoverable, RejectedMeansNone,
       NothingLeft, Svc!Status, Svc!Terminal, Svc!Open, Jobs, None, Cancelling, Mine, Nobody,
       Known, Creating, Cleaning, Awaiting, svcVars, netVars, clientVars, clockVars, frame,
       NoReply, Reply, StateOf, Save, Interrupted, EndLocally, Rejected, Observed, MustClean,
       RecordsOf
<1>2. CASE ~(reply.kind = "state" /\ receipt.id \in {None, reply.id})
  BY <1>2 DEF Cleaned, ClientAssumption, IInv, ServerOK, ReceiptOK, ReceiptType, SavedOK,
     ReplyOK, WireOK, CleanupOK, Recoverable, RejectedMeansNone, NothingLeft, Svc!Status,
     Svc!Terminal, Svc!Open, Jobs, None, Cancelling, Mine, Nobody, Known, Creating, Cleaning,
     Awaiting, svcVars, netVars, clientVars, clockVars, frame, NoReply, Reply, StateOf, Save,
     Interrupted, EndLocally, Rejected, Observed, MustClean, RecordsOf
<1>3. QED
  BY <1>1, <1>2

LEMMA PostKeeps == ASSUME ClientAssumption, IInv, Post PROVE IInv'
<1>1. /\ pc = "post" /\ receipt.posts \in 1 .. MaxPosts /\ saved.posts = receipt.posts /\ saved.written
      /\ ~receipt.rejected /\ UNCHANGED <<receipt, saved, frame>> /\ reply' = NoReply
  BY DEF Post, ClientAssumption, IInv, ServerOK, ReceiptOK, ReceiptType, SavedOK, ReplyOK,
     WireOK, CleanupOK, Recoverable, RejectedMeansNone, NothingLeft, Svc!Status, Svc!Terminal,
     Svc!Open, Jobs, None, Cancelling, Mine, Nobody, Known, Creating, Cleaning, Awaiting,
     svcVars, netVars, clientVars, clockVars, frame, NoReply, Reply, StateOf, Save, Interrupted,
     EndLocally, Rejected, Observed, MustClean, RecordsOf
<1>2. pc' \in {"look", "await_create"} /\ wire' \in {wire, wire \cup {receipt.posts}}
  BY DEF Post
<1>3. WireOK' /\ Recoverable'
  BY <1>1, <1>2 DEF ClientAssumption, IInv, ServerOK, ReceiptOK, ReceiptType, SavedOK, ReplyOK,
     WireOK, CleanupOK, Recoverable, RejectedMeansNone, NothingLeft, Svc!Status, Svc!Terminal,
     Svc!Open, Jobs, None, Cancelling, Mine, Nobody, Known, Creating, Cleaning, Awaiting,
     svcVars, netVars, clientVars, clockVars, frame, NoReply, Reply, StateOf, Save, Interrupted,
     EndLocally, Rejected, Observed, MustClean, RecordsOf
<1>4. QED
  BY <1>1, <1>2, <1>3 DEF ClientAssumption, IInv, ServerOK, ReceiptOK, ReceiptType, SavedOK,
     ReplyOK, WireOK, CleanupOK, Recoverable, RejectedMeansNone, NothingLeft, Svc!Status,
     Svc!Terminal, Svc!Open, Jobs, None, Cancelling, Mine, Nobody, Known, Creating, Cleaning,
     Awaiting, svcVars, netVars, clientVars, clockVars, frame, NoReply, Reply, StateOf, Save,
     Interrupted, EndLocally, Rejected, Observed, MustClean, RecordsOf

LEMMA CreatedKeeps == ASSUME ClientAssumption, IInv, Created PROVE IInv'
<1> USE DEF ClientAssumption, IInv, ServerOK, ReceiptOK, ReceiptType, SavedOK, ReplyOK, WireOK,
   CleanupOK, Recoverable, RejectedMeansNone, NothingLeft, Svc!Status, Svc!Terminal, Svc!Open,
   Jobs, None, Cancelling, Mine, Nobody, Known, Creating, Cleaning, Awaiting, svcVars, netVars,
   clientVars, clockVars, frame, NoReply, Reply, StateOf, Save, Interrupted, EndLocally,
   Rejected, Observed, MustClean, RecordsOf
<1>1. CASE reply.kind = "state" /\ receipt.id \in {None, reply.id} /\ receipt' = [receipt EXCEPT !.id = reply.id]
  <2>1. /\ receipt' \in ReceiptType /\ receipt'.id = reply.id
        /\ \A f \in {"posts", "rejected", "status", "state", "cleanup"} : receipt'[f] = receipt[f]
    BY <1>1
  <2>2. saved' = saved \/ saved' = [written |-> TRUE, posts |-> receipt.posts, id |-> reply.id]
    BY <1>1, <2>1 DEF Created
  <2>3. pc = "await_create" /\ pc' \in {"look", "failed"} /\ reply' = NoReply /\ UNCHANGED <<svcVars, wire>>
    BY <1>1 DEF Created
  <2>4. ReceiptOK'
    BY <1>1, <2>1, <2>3
  <2>5. SavedOK' /\ saved'.posts >= saved.posts
    <3>1. /\ saved' \in [written : BOOLEAN, posts : 0 .. MaxPosts, id : Jobs \cup {None}]
          /\ saved'.written /\ saved'.id \in Known /\ saved.posts <= saved'.posts /\ saved'.posts <= receipt.posts
      BY <1>1, <2>2, <2>3, SaveKnown
    <3>2. QED
      BY <2>1, <2>3, <3>1
  <2>6. QED
    BY <1>1, <2>1, <2>3, <2>4, <2>5
<1>2. CASE reply.kind = "refused"
  BY <1>2 DEF Created
<1>3. CASE pc' = "failed" /\ UNCHANGED <<receipt, saved, submit>>
  BY <1>3 DEF Created
<1>4. QED
  BY <1>1, <1>2, <1>3 DEF Created

LEMMA CancelRemoteKeeps == ASSUME ClientAssumption, IInv, CancelRemote PROVE IInv'
<1>1. /\ pc = "cancel" /\ records > 0 /\ ~receipt.rejected /\ reply.kind = "none"
      /\ UNCHANGED <<receipt, saved, submit, reply, frame>>
  BY DEF CancelRemote, ClientAssumption, IInv, ServerOK, ReceiptOK, ReceiptType, SavedOK,
     ReplyOK, WireOK, CleanupOK, Recoverable, RejectedMeansNone, NothingLeft, Svc!Status,
     Svc!Terminal, Svc!Open, Jobs, None, Cancelling, Mine, Nobody, Known, Creating, Cleaning,
     Awaiting, svcVars, netVars, clientVars, clockVars, frame, NoReply, Reply, StateOf, Save,
     Interrupted, EndLocally, Rejected, Observed, MustClean, RecordsOf
<1>2. pc' \in {"clean", "await_cancel"} /\ wire' \in {wire, wire \cup {0}}
  BY DEF CancelRemote, Cancelling
<1>3. WireOK' /\ Recoverable'
  BY <1>1, <1>2 DEF ClientAssumption, IInv, ServerOK, ReceiptOK, ReceiptType, SavedOK, ReplyOK,
     WireOK, CleanupOK, Recoverable, RejectedMeansNone, NothingLeft, Svc!Status, Svc!Terminal,
     Svc!Open, Jobs, None, Cancelling, Mine, Nobody, Known, Creating, Cleaning, Awaiting,
     svcVars, netVars, clientVars, clockVars, frame, NoReply, Reply, StateOf, Save, Interrupted,
     EndLocally, Rejected, Observed, MustClean, RecordsOf
<1>4. QED
  BY <1>1, <1>2, <1>3 DEF ClientAssumption, IInv, ServerOK, ReceiptOK, ReceiptType, SavedOK,
     ReplyOK, WireOK, CleanupOK, Recoverable, RejectedMeansNone, NothingLeft, Svc!Status,
     Svc!Terminal, Svc!Open, Jobs, None, Cancelling, Mine, Nobody, Known, Creating, Cleaning,
     Awaiting, svcVars, netVars, clientVars, clockVars, frame, NoReply, Reply, StateOf, Save,
     Interrupted, EndLocally, Rejected, Observed, MustClean, RecordsOf

LEMMA LoopKeeps == ASSUME ClientAssumption, IInv, Loop PROVE IInv'
<1> USE DEF ClientAssumption, IInv, ServerOK, ReceiptOK, ReceiptType, SavedOK, ReplyOK, WireOK,
   CleanupOK, Recoverable, RejectedMeansNone, NothingLeft, Svc!Status, Svc!Terminal, Svc!Open,
   Jobs, None, Cancelling, Mine, Nobody, Known, Creating, Cleaning, Awaiting, svcVars, netVars,
   clientVars, clockVars, frame, NoReply, Reply, StateOf, Save, Interrupted, EndLocally,
   Rejected, Observed, MustClean, RecordsOf
<1>1. CASE Interrupted \/ ~submit
  BY <1>1 DEF Loop
<1>2. CASE ~Interrupted /\ submit
  <2>1. /\ receipt' \in ReceiptType /\ receipt'.posts = receipt.posts + 1
        /\ \A f \in {"rejected", "id", "state", "status", "cleanup"} : receipt'[f] = receipt[f]
    BY <1>2 DEF Loop
  <2>2. /\ pc = "loop" /\ pc' = "post" /\ saved' = Save(receipt') /\ UNCHANGED <<submit, netVars, frame>>
    BY <1>2 DEF Loop
  <2>3. ReceiptOK' /\ SavedOK'
    BY <2>1, <2>2
  <2>4. QED
    BY <2>1, <2>2, <2>3
<1>3. QED
  BY <1>1, <1>2

LEMMA WriteKeeps == ASSUME ClientAssumption, IInv, Write PROVE IInv'
<1> USE DEF ClientAssumption, IInv, ServerOK, ReceiptOK, ReceiptType, SavedOK, ReplyOK, WireOK,
   CleanupOK, Recoverable, RejectedMeansNone, NothingLeft, Svc!Status, Svc!Terminal, Svc!Open,
   Jobs, None, Cancelling, Mine, Nobody, Known, Creating, Cleaning, Awaiting, svcVars, netVars,
   clientVars, clockVars, frame, NoReply, Reply, StateOf, Save, Interrupted, EndLocally,
   Rejected, Observed, MustClean, RecordsOf
<1>1. SavedOK'
  <2>1. CASE saved' = saved
    BY <2>1 DEF Write
  <2>2. CASE saved' = [written |-> TRUE, posts |-> receipt.posts, id |-> receipt.id]
    BY <2>2 DEF Write
  <2>3. QED
    BY <2>1, <2>2 DEF Write
<1>2. QED
  BY <1>1 DEF Write

\* What needs no argument: at most one field of the receipt, the pc or the
\* clocks change.
LEMMA SmallStepKeeps ==
  ASSUME ClientAssumption, IInv
  PROVE  Begin \/ Ready \/ LoopUnsaved \/ Look \/ Missing \/ LookedMalformed \/ GiveUp \/ Failed
           \/ End \/ Clean \/ Crash \/ CancelCommand \/ Garble \/ ServeLook \/ Expire \/ CleanExpire
           \/ Interrupt \/ UNCHANGED vars => IInv'
<1> USE DEF ClientAssumption, IInv, ServerOK, ReceiptOK, ReceiptType, SavedOK, ReplyOK, WireOK,
   CleanupOK, Recoverable, RejectedMeansNone, NothingLeft, Svc!Status, Svc!Terminal, Svc!Open,
   Jobs, None, Cancelling, Mine, Nobody, Known, Creating, Cleaning, Awaiting, svcVars, netVars,
   clientVars, clockVars, frame, NoReply, Reply, StateOf, Save, Interrupted, EndLocally,
   Rejected, Observed, MustClean, RecordsOf
<1>1. CASE Begin
  BY <1>1 DEF Begin
<1>2. CASE Ready
  BY <1>2 DEF Ready
<1>3. CASE LoopUnsaved
  BY <1>3 DEF LoopUnsaved
<1>4. CASE Look
  BY <1>4 DEF Look
<1>5. CASE Missing
  BY <1>5 DEF Missing
<1>6. CASE LookedMalformed
  BY <1>6 DEF LookedMalformed
<1>7. CASE GiveUp
  BY <1>7 DEF GiveUp
<1>8. CASE Failed
  BY <1>8 DEF Failed
<1>9. CASE End
  BY <1>9 DEF End
<1>10. CASE Clean
  BY <1>10 DEF Clean
<1>11. CASE Crash
  BY <1>11 DEF Crash
<1>12. CASE CancelCommand
  BY <1>12 DEF CancelCommand
<1>13. CASE Garble
  BY <1>13 DEF Garble
<1>14. CASE ServeLook
  BY <1>14 DEF ServeLook
<1>15. CASE Expire
  BY <1>15 DEF Expire
<1>16. CASE CleanExpire
  BY <1>16 DEF CleanExpire
<1>17. CASE Interrupt
  BY <1>17 DEF Interrupt
<1>18. CASE UNCHANGED vars
  BY <1>18 DEF vars
<1>19. QED
  BY <1>1, <1>2, <1>3, <1>4, <1>5, <1>6, <1>7, <1>8, <1>9, <1>10, <1>11, <1>12, <1>13, <1>14,
     <1>15, <1>16, <1>17, <1>18

----------------------------------------------------------------------------
(* The service only goes on.                                               *)

Onward ==
  /\ ServerOK' /\ records <= records'
  /\ \A j \in 1 .. records : status[j] \in Svc!Terminal => status'[j] = status[j]

LEMMA OnwardKeeps ==
  ASSUME ClientAssumption, IInv, Onward, UNCHANGED clientVars, wire' \subseteq wire, ReplyOK',
         records' # records => wire \ {Cancelling} # {}
  PROVE  IInv'
<1> USE DEF IInv, Onward, clientVars
<1>1. records \in Nat /\ records' \in Nat /\ receipt.id \in Known' /\ saved.id \in Known'
  BY DEF ServerOK, ReceiptOK, SavedOK, Known
<1>2. ReceiptOK'
  BY <1>1 DEF ReceiptOK, Known, None, Svc!Terminal
<1>3. SavedOK' /\ CleanupOK' /\ WireOK'
  <2>1. SavedOK'
    BY <1>1 DEF SavedOK
  <2>2. CleanupOK'
    BY <1>1 DEF CleanupOK
  <2>3. WireOK'
    BY DEF WireOK
  <2>4. QED
    BY <2>1, <2>2, <2>3
<1>4. Recoverable'
  BY <1>1 DEF Recoverable
<1>5. RejectedMeansNone' /\ NothingLeft'
  BY <1>1 DEF RejectedMeansNone, NothingLeft, ServerOK
<1>6. QED
  BY <1>2, <1>3, <1>4, <1>5

LEMMA Settled ==
  ASSUME NEW j \in Jobs, Svc!Settles(j) \/ (status[j] \in {"queued", "running"} /\ status'[j] # "absent")
  PROVE  /\ status[j] = "absent" <=> status'[j] = "absent"
         /\ status[j] \in Svc!Terminal => status'[j] = status[j]
BY DEF Svc!Settles, Svc!Moves, Svc!Terminal

LEMMA SettlesOnward ==
  ASSUME ClientAssumption, ServerOK, UNCHANGED <<slot, records>>, stopping' \in BOOLEAN, status' \in [Jobs -> Svc!Status],
         \A j \in Jobs : Svc!Settles(j) \/ (status[j] \in {"queued", "running"} /\ status'[j] # "absent")
  PROVE  Onward
<1>1. \A j \in Jobs : /\ status[j] = "absent" <=> status'[j] = "absent"
                      /\ status[j] \in Svc!Terminal => status'[j] = status[j]
  BY Settled
<1>2. QED
  BY <1>1 DEF Onward, ServerOK, Jobs, ClientAssumption

LEMMA ServiceStepKeeps == ASSUME ClientAssumption, IInv, ServiceStep PROVE IInv'
<1>1. Onward /\ records' = records /\ UNCHANGED <<clientVars, netVars>>
  <2>1. CASE Svc!Settle
    BY <2>1, SettlesOnward DEF ServiceStep, Svc!Settle, IInv, ServerOK, Svc!Jobs, Jobs
  <2>2. ASSUME NEW j \in Jobs, Svc!Start(j) PROVE Onward /\ records' = records
    <3>1. \A i \in Jobs : Svc!Settles(i) \/ (status[i] \in {"queued", "running"} /\ status'[i] # "absent")
      BY <2>2 DEF Svc!Start, Svc!Jobs, Jobs
    <3>2. QED
      BY <2>2, <3>1, SettlesOnward DEF Svc!Start, IInv, ServerOK, Svc!Jobs, Jobs
  <2>3. QED
    BY <2>1, <2>2 DEF ServiceStep, Svc!Settle
<1>2. ReplyOK'
  BY <1>1 DEF Onward, IInv, ReplyOK, clientVars, netVars, ServerOK
<1>3. QED
  BY <1>1, <1>2, OnwardKeeps DEF netVars

LEMMA ServeCancelKeeps == ASSUME ClientAssumption, IInv, ServeCancel PROVE IInv'
<1>1. PICK j \in RecordsOf(Mine) :
        /\ status' = [status EXCEPT ![j] = IF @ = "queued" THEN "cancelled"
                                           ELSE IF @ = "running" THEN "stopping" ELSE @]
        /\ Answer(StateOf(j, status'), pc = "await_cancel")
  BY DEF ServeCancel
<1>2. j \in 1 .. records /\ 1 .. records \subseteq Jobs /\ j \in Jobs
  BY DEF RecordsOf, IInv, ServerOK, Jobs, ClientAssumption
<1>3. /\ UNCHANGED <<slot, records, stopping, clientVars>> /\ wire' \subseteq wire
      /\ status \in [Jobs -> Svc!Status] /\ stopping \in BOOLEAN /\ ServerOK
  BY DEF ServeCancel, IInv, ServerOK
<1>4. status' \in [Jobs -> Svc!Status] /\ \A i \in Jobs : Svc!Settles(i) \/ (status[i] \in {"queued", "running"} /\ status'[i] # "absent")
  BY <1>1, <1>2, <1>3 DEF Svc!Settles, Svc!Status, Svc!Terminal, Svc!Open
<1>5. Onward
  BY <1>3, <1>4, SettlesOnward
<1>6. ReplyOK'
  BY <1>1, <1>2, <1>3, <1>4, <1>5 DEF Onward, Answer, StateOf, IInv, ReplyOK, clientVars,
     ServerOK, Awaiting
<1>7. QED
  BY <1>3, <1>5, <1>6, OnwardKeeps

LEMMA ServeCreateKeeps ==
  ASSUME ClientAssumption, IInv, NEW a \in 1 .. MaxPosts, ServeCreate(a) PROVE IInv'
<1> DEFINE awaited == pc = "await_create" /\ receipt.posts = a
<1>1. /\ a \in wire \ {Cancelling} /\ wire' = wire \ {a} /\ UNCHANGED clientVars
      /\ RecordsOf(Mine) = 1 .. records /\ 1 .. records \subseteq Jobs /\ ServerOK /\ ReplyOK
  BY DEF ServeCreate, RecordsOf, IInv, ServerOK, ClientAssumption, Jobs
<1>2. CASE Svc!Accept(Mine) /\ Answer(StateOf(records', status'), awaited)
  <2>1. records = 0 /\ records' = 1 /\ 1 \in Jobs
    BY <1>1, <1>2 DEF Svc!Accept, Svc!Unused, ServerOK, ClientAssumption, Jobs
  <2>2. /\ slot' = [slot EXCEPT ![1] = Mine] /\ status'[1] = "queued" /\ UNCHANGED stopping
        /\ status' \in [Jobs -> Svc!Status] /\ \A j \in Jobs \ {1} : Svc!Settles(j)
    BY <1>2, <2>1 DEF Svc!Accept, Svc!Jobs, Jobs
  <2>3. \A j \in Jobs \ {1} : status[j] = "absent" <=> status'[j] = "absent"
    BY <2>2, Settled
  <2>4. \A j \in Jobs : status'[j] = "absent" <=> j > records'
    BY <1>1, <2>1, <2>2, <2>3 DEF ServerOK, Jobs
  <2>5. Onward
    BY <1>1, <2>1, <2>2, <2>4 DEF Onward, ServerOK
  <2>6. ReplyOK'
    BY <1>1, <1>2, <2>1, <2>2 DEF ReplyOK, Answer, StateOf, clientVars, Awaiting, Svc!Terminal,
       Svc!Status
  <2>7. QED
    BY <1>1, <2>1, <2>5, <2>6, OnwardKeeps
<1>3. CASE RecordsOf(Mine) = {} /\ Answer(Reply("refused"), awaited) /\ UNCHANGED svcVars
  <2>1. records = 0 /\ Onward
    <3>1. records \in {0, 1} /\ 1 .. records = {}
      BY <1>1, <1>3 DEF ServerOK
    <3>2. records = 0
      BY <3>1
    <3>3. QED
      BY <1>1, <1>3, <3>2 DEF svcVars, Onward, ServerOK
  <2>2. awaited /\ receipt.posts = 1 => wire' = {}
    BY <1>1 DEF IInv, WireOK, SavedOK, Recoverable, Creating, Cancelling, ReceiptOK, ReceiptType
  <2>3. ReplyOK'
    BY <1>1, <1>3, <2>1, <2>2 DEF ReplyOK, Answer, Reply, NoReply, clientVars, svcVars, Awaiting
  <2>4. QED
    BY <1>1, <1>3, <2>1, <2>3, OnwardKeeps DEF svcVars
<1>4. ASSUME NEW j \in RecordsOf(Mine), Answer(StateOf(j, status), awaited), UNCHANGED svcVars PROVE IInv'
  <2>1. Onward
    BY <1>1, <1>4 DEF svcVars, Onward, ServerOK, Jobs
  <2>2. ReplyOK'
    BY <1>1, <1>4 DEF ReplyOK, Answer, StateOf, clientVars, svcVars, Awaiting, ServerOK
  <2>3. QED
    BY <1>1, <1>4, <2>1, <2>2, OnwardKeeps DEF svcVars
<1>5. QED
  BY <1>2, <1>3, <1>4 DEF ServeCreate

LEMMA Inductive == ASSUME ClientAssumption PROVE Spec => []IInv
<1>1. Init => IInv
  <2> SUFFICES ASSUME Init PROVE IInv
    OBVIOUS
  <2>1. ServerOK
    <3>1. /\ status = [j \in Jobs |-> "absent"] /\ slot = [j \in Jobs |-> Nobody]
          /\ records = 0 /\ stopping = FALSE
      BY DEF Init, Svc!Init, Svc!Jobs, Jobs
    <3>2. "absent" \in Svc!Status /\ \A j \in Jobs : j > 0
      BY DEF Svc!Status, Jobs
    <3>3. \A j \in 1 .. records : FALSE
      BY <3>1
    <3>4. QED
      BY <3>1, <3>2, <3>3 DEF ServerOK
  <2>2. ReceiptOK
    BY DEF Init, ReceiptOK, ReceiptType, Svc!Status, Svc!Terminal, ClientAssumption, None,
       Known, Svc!Init
  <2>3. SavedOK
    BY DEF Init, SavedOK, ClientAssumption, None, Known
  <2>4. QED
    BY <2>1, <2>2, <2>3 DEF Init, Svc!Init, NoReply, IInv, ReplyOK, WireOK, CleanupOK,
       Recoverable, RejectedMeansNone,
       NothingLeft, Creating, Cleaning, Awaiting
<1>2. IInv /\ [Next]_vars => IInv'
  <2> SUFFICES ASSUME IInv, [Next]_vars PROVE IInv'
    OBVIOUS
  <2>1. CASE Ended \/ UNCHANGED vars
    BY <2>1, SmallStepKeeps DEF Ended
  <2>2. CASE Client \/ Crash \/ CancelCommand
    BY <2>2, SmallStepKeeps, LoopKeeps, PostKeeps, CreatedKeeps, LookedKeeps, WriteKeeps,
       CleanedKeeps,
       CancelRemoteKeeps DEF Client
  <2>3. CASE ServeLook \/ Garble \/ Expire \/ CleanExpire \/ Interrupt
    BY <2>3, SmallStepKeeps
  <2>4. QED
    BY <2>1, <2>2, <2>3, ServeCreateKeeps, ServeCancelKeeps, ServiceStepKeeps DEF Next
<1>3. QED
  BY <1>1, <1>2, PTL DEF Spec

----------------------------------------------------------------------------

\* Wherever the client dies and whatever is lost: what was or may still be
\* created can be found again from its receipt on disk.
THEOREM AlwaysRecoverable == ASSUME ClientAssumption PROVE Spec => []Recoverable
<1>1. IInv => Recoverable
  BY DEF IInv
<1>2. QED
  BY <1>1, Inductive, PTL

\* "rejected" in a receipt proves that nothing was or will be created, however
\* late the answers to other attempts are.
THEOREM RejectionProvesNothing == ASSUME ClientAssumption PROVE Spec => []RejectedMeansNone
<1>1. IInv => RejectedMeansNone
  BY DEF IInv
<1>2. QED
  BY <1>1, Inductive, PTL

\* A decision never ends quietly while something of it is or may come alive.
THEOREM NothingIsLeft == ASSUME ClientAssumption PROVE Spec => []NothingLeftSilently
<1>1. IInv => NothingLeftSilently
  BY DEF IInv, NothingLeft, NothingLeftSilently
<1>2. QED
  BY <1>1, Inductive, PTL

\* An end the receipt reports is the end the service recorded.
THEOREM ReceiptsAreTrue == ASSUME ClientAssumption PROVE Spec => []Truthful
<1>1. IInv => Truthful
  BY DEF IInv, ReceiptOK, Truthful
<1>2. QED
  BY <1>1, Inductive, PTL
=============================================================================
