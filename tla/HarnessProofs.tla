-------------------------- MODULE HarnessProofs --------------------------
(***************************************************************************)
(* That what a run of the harness says of itself is so, for any calls,     *)
(* batches, budgets and truths, whatever its children do: its accounting,  *)
(* its ending, the order of its trace, its success and what extraction     *)
(* makes of it; and that the conversation it drives is the bounded         *)
(* dialogue.  Each part of the invariant has a lemma that a step keeps it. *)
(***************************************************************************)
EXTENDS Harness, SequenceTheorems, WellFoundedInduction, TLAPS

\* Where a run goes on, where one ends, and where a tool may be at work.
Going == {"start", "loop", "parsed", "calls", "execute", "tool", "reap", "observe", "extend"}
Ending == {"finish", "close", "verdict", "returned", "raised"}
PCs == Going \cup {"waiting", "raising"} \cup Ending
Endings == {"none", "rejected", "budget_exhausted", "cancelled", "timed_out", "finalized"}
Procs == {"none", "alive", "dead", "reaped"}
Statuses == {"none", "completed", "error", "rejected", "cancelled", "timed_out"}
Results == [status : Statuses, retryable : BOOLEAN]

ControlTyped ==
  /\ pc \in PCs /\ ending \in Endings
  /\ recovery \in BOOLEAN /\ cancelled \in BOOLEAN /\ expired \in BOOLEAN
BudgetTyped == decisions \in Nat /\ rounds \in Nat /\ tokens \in Nat /\ complete \in BOOLEAN
PrefixTyped ==
  /\ history \in Seq(Batches) /\ action \in Batches \cup {<<>>} /\ observed \in Nat
  /\ Prior \subseteq seen /\ seen \subseteq Calls
ModelTyped == model \in [proc : Procs, asked : Nat, took : Nat, replies : Seq(Replies), stop : BOOLEAN]
ToolTyped ==
  /\ tool \in [proc : Procs, reply : Results, late : BOOLEAN] /\ result \in Results
VerdictTyped ==
  /\ final \in Finals \cup {NoCall} /\ score \in {"none", "unknown", "failure", "success"}
  /\ attempted \in BOOLEAN /\ unclean \in BOOLEAN
Typed == ControlTyped /\ BudgetTyped /\ PrefixTyped /\ ModelTyped /\ ToolTyped /\ VerdictTyped

\* The packets are numbered: a reply is to a request that was taken, and as
\* long as the accounting is complete nothing taken is left out of it.
Counting ==
  /\ Len(model.replies) <= model.took /\ model.took <= model.asked
  /\ pc = "waiting" => complete /\ model.asked = decisions /\ tokens + 1 = decisions
  /\ pc \in Going => complete /\ model.asked = decisions
  /\ complete /\ pc # "waiting" =>
       /\ tokens = model.asked /\ model.took = model.asked /\ Len(model.replies) = model.asked
  /\ model.proc = "none" => model.asked = 0
  /\ pc \in {"parsed", "calls", "execute", "tool", "reap", "observe", "extend"} => decisions > 0

\* What is kept of the conversation.
Batching ==
  /\ pc \in {"start", "loop", "waiting", "parsed"} => action = <<>> /\ observed = 0
  /\ pc \in {"calls", "execute", "tool", "reap", "observe"} => action \in Batches /\ observed < Len(action)
  /\ pc = "extend" => action \in Batches /\ observed = Len(action)
  /\ pc = "parsed" => model.replies[decisions].kind \in {"calls", "final"}

\* An end that is blamed on the caller or the clock, and a result that is.
Blamed ==
  /\ pc \in Going \cup {"waiting", "raising"} => ending = "none"
  /\ result.status = "cancelled" => Interrupted
  /\ result.status \in {"cancelled", "completed"} => ~result.retryable
  /\ tool.reply = NoResult \/ tool.reply \in ChildResults
  /\ ending = "cancelled" => cancelled \/ \E i \in DOMAIN model.replies : model.replies[i].kind = "dropped"
  /\ ending = "timed_out" =>
       \/ expired \/ result = Failed("timed_out", FALSE)
       \/ \E i \in DOMAIN model.replies : model.replies[i].kind = "late"

\* What is still there.
Remains ==
  /\ score = "success" => pc = "returned" /\ ending = "finalized"
  /\ tool.proc = "alive" => pc \in {"tool", "reap", "raising", "raised"}
  /\ pc = "waiting" => model.proc # "none"
  /\ ending = "finalized" => final # NoCall /\ model.proc # "none"
  /\ pc = "finish" /\ attempted => ending # "finalized"
  /\ pc = "verdict" \/ (pc = "finish" /\ attempted) => model.proc = "reaped" \/ unclean
  /\ pc = "returned" =>
       /\ ending = "finalized" => model.proc = "reaped" /\ ~unclean
       /\ model.proc \in {"alive", "dead"} => unclean
  /\ attempted => pc \in Ending
  /\ pc \in {"close", "verdict"} => attempted
  /\ unclean => attempted
  /\ pc \in {"parsed", "calls", "execute", "tool", "reap", "observe", "extend"} => model.proc # "none"

LEMMA Assumed ==
  /\ Prior \subseteq Calls /\ NoCall \notin Finals /\ MaxDecisions \in Nat /\ MaxToolRounds \in Nat
  /\ \A b \in Batches : b \in Seq(Calls) /\ b # <<>>
BY HarnessAssumption

LEMMA RepliesTyped ==
  \A r \in Replies :
    /\ r.kind \in Refusals \cup {"calls", "final"}
    /\ r.kind \in Refusals => RefusedBy[r.kind] \in Endings \ {"none", "finalized"}
    /\ r.calls \in Batches \cup {<<>>}
    /\ r.kind = "calls" => r.calls \in Batches
    /\ r.kind = "final" => r.final \in Finals /\ r.calls = <<>>
    /\ r.kind \in Refusals /\ RefusedBy[r.kind] = "cancelled" => r.kind = "dropped"
    /\ r.kind \in Refusals /\ RefusedBy[r.kind] = "timed_out" => r.kind = "late"
    /\ "calls" \notin Refusals /\ "final" \notin Refusals
BY DEF Replies, RefusedBy, Refusals, Endings

LEMMA ResultsTyped ==
  /\ Done \in Results /\ NoResult \in Results /\ ChildResults \subseteq Results
  /\ \A s \in Statuses, again \in BOOLEAN :
       Failed(s, again) \in Results /\ Failed(s, again).status = s /\ Failed(s, again).retryable = again
  /\ \A r \in ChildResults : r.status # "cancelled" /\ (r.status = "completed" => ~r.retryable)
BY DEF Done, NoResult, ChildResults, Results, Failed, Statuses

LEMMA InterruptionTyped ==
  /\ Interruption \in {"none", "cancelled", "timed_out"}
  /\ Interrupted <=> cancelled \/ expired
BY DEF Interruption, Interrupted

\* The reply that is looked at.
LEMMA ReplyTaken ==
  ASSUME Typed, Counting, \/ pc = "waiting" /\ Replied
                          \/ pc = "parsed"
  PROVE  decisions \in DOMAIN model.replies /\ model.replies[decisions] \in Replies
BY DEF Typed, ControlTyped, BudgetTyped, ModelTyped, Counting, Going, Replied

\* More replies do not change the ones that are there.
LEMMA RepliesKept ==
  ASSUME Typed, ModelReplies
  PROVE  \E r \in Replies :
           /\ model'.replies = Append(model.replies, r) /\ Len(model'.replies) = Len(model.replies) + 1
           /\ \A i \in DOMAIN model.replies : i \in DOMAIN model'.replies /\ model'.replies[i] = model.replies[i]
           /\ model' = [model EXCEPT !.replies = Append(model.replies, r)]
           /\ Append(model.replies, r) \in Seq(Replies)
<1>1. PICK r \in Replies : model' = [model EXCEPT !.replies = Append(model.replies, r)]
  BY DEF ModelReplies
<1>2. model.replies \in Seq(Replies)
  BY DEF Typed, ModelTyped
<1>3. model'.replies = Append(model.replies, r)
  BY <1>1 DEF Typed, ModelTyped
<1>4. /\ Append(model.replies, r) \in Seq(Replies) /\ Len(Append(model.replies, r)) = Len(model.replies) + 1
      /\ DOMAIN model.replies = 1 .. Len(model.replies)
      /\ \A i \in 1 .. Len(model.replies) :
           /\ i \in DOMAIN Append(model.replies, r)
           /\ Append(model.replies, r)[i] = model.replies[i]
  BY <1>2
<1> QED BY <1>1, <1>3, <1>4

LEMMA CurrentTyped ==
  ASSUME Typed, Batching, pc \in {"calls", "execute", "tool", "reap", "observe"} PROVE Current \in Calls
BY Assumed DEF Typed, PrefixTyped, Batching, Current

LEMMA ControlTypedKept == ASSUME Typed, Counting, [Next]_vars PROVE ControlTyped'
<1> USE RepliesTyped, InterruptionTyped DEF control, inputs, budget, prefix, tools, verdict,
   outside, Go, Finish, Emit, ControlTyped, BudgetTyped, ModelTyped, Typed, PCs, Going, Ending,
   Endings, Replied, ToolTyped, Results, Statuses
<1>1. CASE Receive
  BY <1>1 DEF Receive
<1>2. CASE Ask
  BY <1>2 DEF Ask
<1>3. CASE Leave
  BY <1>3 DEF Leave
<1>4. CASE NoReply
  BY <1>4 DEF NoReply
<1>5. CASE TakeReply
  BY <1>5, ReplyTaken DEF TakeReply
<1>6. CASE Act
  BY <1>6 DEF Act
<1>7. CASE CheckCall
  BY <1>7 DEF CheckCall
<1>8. CASE Execute
  BY <1>8 DEF Execute
<1>9. CASE AwaitTool
  BY <1>9 DEF AwaitTool
<1>10. CASE ReapTool
  BY <1>10 DEF ReapTool
<1>11. CASE Observe
  BY <1>11 DEF Observe
<1>12. CASE Extend
  BY <1>12 DEF Extend
<1>13. CASE SignalStop
  BY <1>13 DEF SignalStop
<1>14. CASE CloseModel
  BY <1>14 DEF CloseModel
<1>15. CASE Conclude
  BY <1>15 DEF Conclude
<1>16. CASE Raise
  BY <1>16 DEF Raise
<1>17. CASE ModelTakes
  BY <1>17 DEF ModelTakes
<1>18. CASE ModelReplies
  BY <1>18 DEF ModelReplies
<1>19. CASE ModelEnds
  BY <1>19 DEF ModelEnds
<1>20. CASE ToolReplies
  BY <1>20 DEF ToolReplies
<1>21. CASE ToolEnds
  BY <1>21 DEF ToolEnds
<1>22. CASE ToolExpires
  BY <1>22 DEF ToolExpires
<1>23. CASE Cancel
  BY <1>23 DEF Cancel
<1>24. CASE Expire
  BY <1>24 DEF Expire
<1>25. CASE UNCHANGED vars
  BY <1>25 DEF vars
<1> QED BY <1>1, <1>2, <1>3, <1>4, <1>5, <1>6, <1>7, <1>8, <1>9, <1>10, <1>11, <1>12, <1>13,
   <1>14, <1>15, <1>16, <1>17, <1>18, <1>19, <1>20, <1>21, <1>22, <1>23, <1>24, <1>25
     DEF Next, Steps, Children, Terminated

LEMMA BudgetTypedKept == ASSUME Typed, [Next]_vars PROVE BudgetTyped'
<1> USE DEF control, inputs, budget, prefix, tools, verdict, outside, Go, Finish, Emit, Typed,
   BudgetTyped, Counted
<1>1. CASE Receive
  BY <1>1 DEF Receive
<1>2. CASE Ask
  BY <1>2 DEF Ask
<1>3. CASE Leave
  BY <1>3 DEF Leave
<1>4. CASE NoReply
  BY <1>4 DEF NoReply
<1>5. CASE TakeReply
  BY <1>5 DEF TakeReply
<1>6. CASE Act
  BY <1>6 DEF Act
<1>7. CASE CheckCall
  BY <1>7 DEF CheckCall
<1>8. CASE Execute
  BY <1>8 DEF Execute
<1>9. CASE AwaitTool
  BY <1>9 DEF AwaitTool
<1>10. CASE ReapTool
  BY <1>10 DEF ReapTool
<1>11. CASE Observe
  BY <1>11 DEF Observe
<1>12. CASE Extend
  BY <1>12 DEF Extend
<1>13. CASE SignalStop
  BY <1>13 DEF SignalStop
<1>14. CASE CloseModel
  BY <1>14 DEF CloseModel
<1>15. CASE Conclude
  BY <1>15 DEF Conclude
<1>16. CASE Raise
  BY <1>16 DEF Raise
<1>17. CASE ModelTakes
  BY <1>17 DEF ModelTakes
<1>18. CASE ModelReplies
  BY <1>18 DEF ModelReplies
<1>19. CASE ModelEnds
  BY <1>19 DEF ModelEnds
<1>20. CASE ToolReplies
  BY <1>20 DEF ToolReplies
<1>21. CASE ToolEnds
  BY <1>21 DEF ToolEnds
<1>22. CASE ToolExpires
  BY <1>22 DEF ToolExpires
<1>23. CASE Cancel
  BY <1>23 DEF Cancel
<1>24. CASE Expire
  BY <1>24 DEF Expire
<1>25. CASE UNCHANGED vars
  BY <1>25 DEF vars
<1> QED BY <1>1, <1>2, <1>3, <1>4, <1>5, <1>6, <1>7, <1>8, <1>9, <1>10, <1>11, <1>12, <1>13,
   <1>14, <1>15, <1>16, <1>17, <1>18, <1>19, <1>20, <1>21, <1>22, <1>23, <1>24, <1>25
     DEF Next, Steps, Children, Terminated

LEMMA ModelTypedKept == ASSUME Typed, [Next]_vars PROVE ModelTyped'
<1> USE DEF control, inputs, budget, prefix, tools, verdict, outside, Go, Finish, Emit, Typed,
   ModelTyped, BudgetTyped, Procs
<1>1. CASE Receive
  BY <1>1 DEF Receive
<1>2. CASE Ask
  BY <1>2 DEF Ask
<1>3. CASE Leave
  BY <1>3 DEF Leave
<1>4. CASE NoReply
  BY <1>4 DEF NoReply
<1>5. CASE TakeReply
  BY <1>5 DEF TakeReply
<1>6. CASE Act
  BY <1>6 DEF Act
<1>7. CASE CheckCall
  BY <1>7 DEF CheckCall
<1>8. CASE Execute
  BY <1>8 DEF Execute
<1>9. CASE AwaitTool
  BY <1>9 DEF AwaitTool
<1>10. CASE ReapTool
  BY <1>10 DEF ReapTool
<1>11. CASE Observe
  BY <1>11 DEF Observe
<1>12. CASE Extend
  BY <1>12 DEF Extend
<1>13. CASE SignalStop
  BY <1>13 DEF SignalStop
<1>14. CASE CloseModel
  BY <1>14 DEF CloseModel
<1>15. CASE Conclude
  BY <1>15 DEF Conclude
<1>16. CASE Raise
  BY <1>16 DEF Raise
<1>17. CASE ModelTakes
  BY <1>17 DEF ModelTakes
<1>18. CASE ModelReplies
  BY <1>18, RepliesKept
<1>19. CASE ModelEnds
  BY <1>19 DEF ModelEnds
<1>20. CASE ToolReplies
  BY <1>20 DEF ToolReplies
<1>21. CASE ToolEnds
  BY <1>21 DEF ToolEnds
<1>22. CASE ToolExpires
  BY <1>22 DEF ToolExpires
<1>23. CASE Cancel
  BY <1>23 DEF Cancel
<1>24. CASE Expire
  BY <1>24 DEF Expire
<1>25. CASE UNCHANGED vars
  BY <1>25 DEF vars
<1> QED BY <1>1, <1>2, <1>3, <1>4, <1>5, <1>6, <1>7, <1>8, <1>9, <1>10, <1>11, <1>12, <1>13,
   <1>14, <1>15, <1>16, <1>17, <1>18, <1>19, <1>20, <1>21, <1>22, <1>23, <1>24, <1>25
     DEF Next, Steps, Children, Terminated

LEMMA ToolTypedKept == ASSUME Typed, [Next]_vars PROVE ToolTyped'
<1> USE ResultsTyped DEF control, inputs, budget, prefix, tools, verdict, outside, Go, Finish,
   Emit, Typed, ToolTyped, Procs, NoTool, Statuses
<1>1. CASE Receive
  BY <1>1 DEF Receive
<1>2. CASE Ask
  BY <1>2 DEF Ask
<1>3. CASE Leave
  BY <1>3 DEF Leave
<1>4. CASE NoReply
  BY <1>4 DEF NoReply
<1>5. CASE TakeReply
  BY <1>5 DEF TakeReply
<1>6. CASE Act
  BY <1>6 DEF Act
<1>7. CASE CheckCall
  BY <1>7 DEF CheckCall
<1>8. CASE Execute
  BY <1>8 DEF Execute
<1>9. CASE AwaitTool
  BY <1>9 DEF AwaitTool
<1>10. CASE ReapTool
  BY <1>10 DEF ReapTool
<1>11. CASE Observe
  BY <1>11 DEF Observe
<1>12. CASE Extend
  BY <1>12 DEF Extend
<1>13. CASE SignalStop
  BY <1>13 DEF SignalStop
<1>14. CASE CloseModel
  BY <1>14 DEF CloseModel
<1>15. CASE Conclude
  BY <1>15 DEF Conclude
<1>16. CASE Raise
  BY <1>16 DEF Raise
<1>17. CASE ModelTakes
  BY <1>17 DEF ModelTakes
<1>18. CASE ModelReplies
  BY <1>18 DEF ModelReplies
<1>19. CASE ModelEnds
  BY <1>19 DEF ModelEnds
<1>20. CASE ToolReplies
  BY <1>20 DEF ToolReplies
<1>21. CASE ToolEnds
  BY <1>21 DEF ToolEnds
<1>22. CASE ToolExpires
  BY <1>22 DEF ToolExpires
<1>23. CASE Cancel
  BY <1>23 DEF Cancel
<1>24. CASE Expire
  BY <1>24 DEF Expire
<1>25. CASE UNCHANGED vars
  BY <1>25 DEF vars
<1> QED BY <1>1, <1>2, <1>3, <1>4, <1>5, <1>6, <1>7, <1>8, <1>9, <1>10, <1>11, <1>12, <1>13,
   <1>14, <1>15, <1>16, <1>17, <1>18, <1>19, <1>20, <1>21, <1>22, <1>23, <1>24, <1>25
     DEF Next, Steps, Children, Terminated

LEMMA VerdictTypedKept == ASSUME Typed, Counting, [Next]_vars PROVE VerdictTyped'
<1> USE DEF control, inputs, budget, prefix, tools, verdict, outside, Go, Finish, Emit, Typed,
   VerdictTyped, ModelTyped, BudgetTyped, Score
<1>1. CASE Receive
  BY <1>1 DEF Receive
<1>2. CASE Ask
  BY <1>2 DEF Ask
<1>3. CASE Leave
  BY <1>3 DEF Leave
<1>4. CASE NoReply
  BY <1>4 DEF NoReply
<1>5. CASE TakeReply
  BY <1>5 DEF TakeReply
<1>6. CASE Act
  BY <1>6, RepliesTyped, ReplyTaken DEF Act
<1>7. CASE CheckCall
  BY <1>7 DEF CheckCall
<1>8. CASE Execute
  BY <1>8 DEF Execute
<1>9. CASE AwaitTool
  BY <1>9 DEF AwaitTool
<1>10. CASE ReapTool
  BY <1>10 DEF ReapTool
<1>11. CASE Observe
  BY <1>11 DEF Observe
<1>12. CASE Extend
  BY <1>12 DEF Extend
<1>13. CASE SignalStop
  BY <1>13 DEF SignalStop
<1>14. CASE CloseModel
  BY <1>14 DEF CloseModel
<1>15. CASE Conclude
  BY <1>15 DEF Conclude
<1>16. CASE Raise
  BY <1>16 DEF Raise
<1>17. CASE ModelTakes
  BY <1>17 DEF ModelTakes
<1>18. CASE ModelReplies
  BY <1>18 DEF ModelReplies
<1>19. CASE ModelEnds
  BY <1>19 DEF ModelEnds
<1>20. CASE ToolReplies
  BY <1>20 DEF ToolReplies
<1>21. CASE ToolEnds
  BY <1>21 DEF ToolEnds
<1>22. CASE ToolExpires
  BY <1>22 DEF ToolExpires
<1>23. CASE Cancel
  BY <1>23 DEF Cancel
<1>24. CASE Expire
  BY <1>24 DEF Expire
<1>25. CASE UNCHANGED vars
  BY <1>25 DEF vars
<1> QED BY <1>1, <1>2, <1>3, <1>4, <1>5, <1>6, <1>7, <1>8, <1>9, <1>10, <1>11, <1>12, <1>13,
   <1>14, <1>15, <1>16, <1>17, <1>18, <1>19, <1>20, <1>21, <1>22, <1>23, <1>24, <1>25
     DEF Next, Steps, Children, Terminated

LEMMA PrefixTypedKept == ASSUME Typed, Counting, Batching, [Next]_vars PROVE PrefixTyped'
<1> USE Assumed DEF control, inputs, budget, prefix, tools, verdict, outside, Go, Finish, Emit,
   Typed, PrefixTyped, Batching
<1>1. CASE Receive
  BY <1>1 DEF Receive
<1>2. CASE Ask
  BY <1>2 DEF Ask
<1>3. CASE Leave
  BY <1>3 DEF Leave
<1>4. CASE NoReply
  BY <1>4 DEF NoReply
<1>5. CASE TakeReply
  BY <1>5 DEF TakeReply
<1>6. CASE Act
  BY <1>6, RepliesTyped, ReplyTaken DEF Act
<1>7. CASE CheckCall
  BY <1>7, CurrentTyped DEF CheckCall
<1>8. CASE Execute
  BY <1>8 DEF Execute
<1>9. CASE AwaitTool
  BY <1>9 DEF AwaitTool
<1>10. CASE ReapTool
  BY <1>10 DEF ReapTool
<1>11. CASE Observe
  BY <1>11 DEF Observe
<1>12. CASE Extend
  BY <1>12 DEF Extend
<1>13. CASE SignalStop
  BY <1>13 DEF SignalStop
<1>14. CASE CloseModel
  BY <1>14 DEF CloseModel
<1>15. CASE Conclude
  BY <1>15 DEF Conclude
<1>16. CASE Raise
  BY <1>16 DEF Raise
<1>17. CASE ModelTakes
  BY <1>17 DEF ModelTakes
<1>18. CASE ModelReplies
  BY <1>18 DEF ModelReplies
<1>19. CASE ModelEnds
  BY <1>19 DEF ModelEnds
<1>20. CASE ToolReplies
  BY <1>20 DEF ToolReplies
<1>21. CASE ToolEnds
  BY <1>21 DEF ToolEnds
<1>22. CASE ToolExpires
  BY <1>22 DEF ToolExpires
<1>23. CASE Cancel
  BY <1>23 DEF Cancel
<1>24. CASE Expire
  BY <1>24 DEF Expire
<1>25. CASE UNCHANGED vars
  BY <1>25 DEF vars
<1> QED BY <1>1, <1>2, <1>3, <1>4, <1>5, <1>6, <1>7, <1>8, <1>9, <1>10, <1>11, <1>12, <1>13,
   <1>14, <1>15, <1>16, <1>17, <1>18, <1>19, <1>20, <1>21, <1>22, <1>23, <1>24, <1>25
     DEF Next, Steps, Children, Terminated

LEMMA BatchingKept == ASSUME Typed, Counting, Batching, [Next]_vars PROVE Batching'
<1> USE Assumed DEF control, inputs, budget, prefix, tools, verdict, outside, Go, Finish, Emit,
   Typed, PrefixTyped, Batching, ModelTyped
<1>1. CASE Receive
  BY <1>1 DEF Receive
<1>2. CASE Ask
  BY <1>2 DEF Ask
<1>3. CASE Leave
  BY <1>3 DEF Leave
<1>4. CASE NoReply
  BY <1>4 DEF NoReply
<1>5. CASE TakeReply
  BY <1>5, RepliesTyped, ReplyTaken DEF TakeReply
<1>6. CASE Act
  BY <1>6, RepliesTyped, ReplyTaken DEF Act
<1>7. CASE CheckCall
  BY <1>7 DEF CheckCall
<1>8. CASE Execute
  BY <1>8 DEF Execute
<1>9. CASE AwaitTool
  BY <1>9 DEF AwaitTool
<1>10. CASE ReapTool
  BY <1>10 DEF ReapTool
<1>11. CASE Observe
  BY <1>11 DEF Observe
<1>12. CASE Extend
  BY <1>12 DEF Extend
<1>13. CASE SignalStop
  BY <1>13 DEF SignalStop
<1>14. CASE CloseModel
  BY <1>14 DEF CloseModel
<1>15. CASE Conclude
  BY <1>15 DEF Conclude
<1>16. CASE Raise
  BY <1>16 DEF Raise
<1>17. CASE ModelTakes
  BY <1>17 DEF ModelTakes
<1>18. CASE ModelReplies
  BY <1>18, RepliesKept, ReplyTaken DEF ModelReplies
<1>19. CASE ModelEnds
  BY <1>19 DEF ModelEnds
<1>20. CASE ToolReplies
  BY <1>20 DEF ToolReplies
<1>21. CASE ToolEnds
  BY <1>21 DEF ToolEnds
<1>22. CASE ToolExpires
  BY <1>22 DEF ToolExpires
<1>23. CASE Cancel
  BY <1>23 DEF Cancel
<1>24. CASE Expire
  BY <1>24 DEF Expire
<1>25. CASE UNCHANGED vars
  BY <1>25 DEF vars
<1> QED BY <1>1, <1>2, <1>3, <1>4, <1>5, <1>6, <1>7, <1>8, <1>9, <1>10, <1>11, <1>12, <1>13,
   <1>14, <1>15, <1>16, <1>17, <1>18, <1>19, <1>20, <1>21, <1>22, <1>23, <1>24, <1>25
     DEF Next, Steps, Children, Terminated

LEMMA CountingKept == ASSUME Typed, Counting, [Next]_vars PROVE Counting'
<1> USE DEF control, inputs, budget, prefix, tools, verdict, outside, Go, Finish, Emit
<1>1. CASE Receive
  BY <1>1 DEF Receive, Typed, ControlTyped, BudgetTyped, ModelTyped, Counting, PCs, Going,
     Ending, Replied
<1>2. CASE Ask
  BY <1>2 DEF Ask, Typed, ControlTyped, BudgetTyped, ModelTyped, Counting, PCs, Going, Ending,
     Replied
<1>3. CASE Leave
  BY <1>3 DEF Leave, Typed, ControlTyped, BudgetTyped, ModelTyped, Counting, PCs, Going,
     Ending, Replied
<1>4. CASE NoReply
  BY <1>4 DEF NoReply, Typed, ControlTyped, BudgetTyped, ModelTyped, Counting, PCs, Going,
     Ending, Replied
<1>5. CASE TakeReply
  <2> DEFINE r == model.replies[decisions]
  <2>1. /\ complete' = Counted(r) /\ tokens' = (IF Counted(r) THEN tokens + 1 ELSE tokens)
        /\ pc' \in {"finish", "parsed"} /\ (pc' = "parsed" => Counted(r))
        /\ UNCHANGED <<decisions, model>> /\ Replied /\ pc = "waiting"
    BY <1>5 DEF TakeReply, Refusals, RefusedBy, Counted
  <2> HIDE DEF r
  <2> QED BY <2>1 DEF Typed, BudgetTyped, ModelTyped, Counting, Going, Replied
<1>6. CASE Act
  BY <1>6 DEF Act, Typed, ControlTyped, BudgetTyped, ModelTyped, Counting, PCs, Going, Ending,
     Replied
<1>7. CASE CheckCall
  BY <1>7 DEF CheckCall, Typed, ControlTyped, BudgetTyped, ModelTyped, Counting, PCs, Going,
     Ending, Replied
<1>8. CASE Execute
  BY <1>8 DEF Execute, Typed, ControlTyped, BudgetTyped, ModelTyped, Counting, PCs, Going,
     Ending, Replied
<1>9. CASE AwaitTool
  BY <1>9 DEF AwaitTool, Typed, ControlTyped, BudgetTyped, ModelTyped, Counting, PCs, Going,
     Ending, Replied
<1>10. CASE ReapTool
  BY <1>10 DEF ReapTool, Typed, ControlTyped, BudgetTyped, ModelTyped, Counting, PCs, Going,
     Ending, Replied
<1>11. CASE Observe
  BY <1>11 DEF Observe, Typed, ControlTyped, BudgetTyped, ModelTyped, Counting, PCs, Going,
     Ending, Replied
<1>12. CASE Extend
  BY <1>12 DEF Extend, Typed, ControlTyped, BudgetTyped, ModelTyped, Counting, PCs, Going,
     Ending, Replied
<1>13. CASE SignalStop
  BY <1>13 DEF SignalStop, Typed, ControlTyped, BudgetTyped, ModelTyped, Counting, PCs, Going,
     Ending, Replied
<1>14. CASE CloseModel
  BY <1>14 DEF CloseModel, Typed, ControlTyped, BudgetTyped, ModelTyped, Counting, PCs, Going,
     Ending, Replied
<1>15. CASE Conclude
  <2>1. UNCHANGED <<budget, model>> /\ pc \in {"verdict", "finish"} /\ pc' \in {"returned", "finish"}
    BY <1>15 DEF Conclude, Nothing
  <2> QED BY <2>1 DEF Counting, Going
<1>16. CASE Raise
  BY <1>16 DEF Raise, Typed, ControlTyped, BudgetTyped, ModelTyped, Counting, PCs, Going,
     Ending, Replied
<1>17. CASE ModelTakes
  BY <1>17 DEF ModelTakes, Typed, ControlTyped, BudgetTyped, ModelTyped, Counting, PCs, Going,
     Ending, Replied
<1>18. CASE ModelReplies
  BY <1>18 DEF ModelReplies, Typed, ControlTyped, BudgetTyped, ModelTyped, Counting, PCs,
     Going, Ending, Replied
<1>19. CASE ModelEnds
  BY <1>19 DEF ModelEnds, Typed, ControlTyped, BudgetTyped, ModelTyped, Counting, PCs, Going,
     Ending, Replied
<1>20. CASE ToolReplies
  BY <1>20 DEF ToolReplies, Typed, ControlTyped, BudgetTyped, ModelTyped, Counting, PCs, Going,
     Ending, Replied
<1>21. CASE ToolEnds
  BY <1>21 DEF ToolEnds, Typed, ControlTyped, BudgetTyped, ModelTyped, Counting, PCs, Going,
     Ending, Replied
<1>22. CASE ToolExpires
  BY <1>22 DEF ToolExpires, Typed, ControlTyped, BudgetTyped, ModelTyped, Counting, PCs, Going,
     Ending, Replied
<1>23. CASE Cancel
  BY <1>23 DEF Cancel, Typed, ControlTyped, BudgetTyped, ModelTyped, Counting, PCs, Going,
     Ending, Replied
<1>24. CASE Expire
  BY <1>24 DEF Expire, Typed, ControlTyped, BudgetTyped, ModelTyped, Counting, PCs, Going,
     Ending, Replied
<1>25. CASE UNCHANGED vars
  BY <1>25 DEF vars, Typed, ControlTyped, BudgetTyped, ModelTyped, Counting, PCs, Going,
     Ending, Replied
<1> QED BY <1>1, <1>2, <1>3, <1>4, <1>5, <1>6, <1>7, <1>8, <1>9, <1>10, <1>11, <1>12, <1>13,
   <1>14, <1>15, <1>16, <1>17, <1>18, <1>19, <1>20, <1>21, <1>22, <1>23, <1>24, <1>25
     DEF Next, Steps, Children, Terminated

LEMMA BlamedKept == ASSUME Typed, Counting, Blamed, [Next]_vars PROVE Blamed'
<1> USE DEF control, inputs, budget, prefix, tools, verdict, outside, Go, Finish, Emit
<1>1. CASE Receive
  BY <1>1, ResultsTyped, InterruptionTyped DEF Receive, Typed, ControlTyped, ModelTyped,
     BudgetTyped, ToolTyped, Blamed, PCs, Going, Ending, Endings, Statuses, Interruption,
     Interrupted
<1>2. CASE Ask
  BY <1>2, ResultsTyped, InterruptionTyped DEF Ask, Typed, ControlTyped, ModelTyped,
     BudgetTyped, ToolTyped, Blamed, PCs, Going, Ending, Endings, Statuses, Interruption,
     Interrupted
<1>3. CASE Leave
  BY <1>3, ResultsTyped, InterruptionTyped DEF Leave, Typed, ControlTyped, ModelTyped,
     BudgetTyped, ToolTyped, Blamed, PCs, Going, Ending, Endings, Statuses, Interruption,
     Interrupted
<1>4. CASE NoReply
  BY <1>4, ResultsTyped, InterruptionTyped DEF NoReply, Typed, ControlTyped, ModelTyped,
     BudgetTyped, ToolTyped, Blamed, PCs, Going, Ending, Endings, Statuses, Interruption,
     Interrupted
<1>5. CASE TakeReply
  <2> DEFINE r == model.replies[decisions]
  <2>1. /\ UNCHANGED <<model, tool, result, cancelled, expired>> /\ r \in Replies /\ decisions \in DOMAIN model.replies
        /\ \/ pc' = "parsed" /\ ending' = ending /\ pc = "waiting"
           \/ pc' = "finish" /\ r.kind \in Refusals /\ ending' = RefusedBy[r.kind]
    BY <1>5, ReplyTaken DEF TakeReply
  <2>2. ending' = "cancelled" => r.kind = "dropped"
    BY <2>1, RepliesTyped DEF Blamed, Going
  <2>3. ending' = "timed_out" => r.kind = "late"
    BY <2>1, RepliesTyped DEF Blamed, Going
  <2> QED BY <2>1, <2>2, <2>3 DEF Blamed, Going, Interrupted, Interruption
<1>6. CASE Act
  BY <1>6, ResultsTyped, InterruptionTyped DEF Act, Typed, ControlTyped, ModelTyped,
     BudgetTyped, ToolTyped, Blamed, PCs, Going, Ending, Endings, Statuses, Interruption,
     Interrupted
<1>7. CASE CheckCall
  BY <1>7, ResultsTyped, InterruptionTyped DEF CheckCall, Typed, ControlTyped, ModelTyped,
     BudgetTyped, ToolTyped, Blamed, PCs, Going, Ending, Endings, Statuses, Interruption,
     Interrupted
<1>8. CASE Execute
  BY <1>8, ResultsTyped, InterruptionTyped DEF Execute, Typed, ToolTyped, Blamed, Going,
     Statuses, Interruption, Interrupted, NoTool
<1>9. CASE AwaitTool
  <2>1. tool.reply = NoResult \/ tool.reply \in ChildResults
    BY DEF Blamed
  <2>2. /\ result'.status = "cancelled" => Interrupted
        /\ result'.status \in {"cancelled", "completed"} => ~result'.retryable
    BY <1>9, <2>1, ResultsTyped DEF AwaitTool, Statuses
  <2> QED BY <1>9, <2>2 DEF AwaitTool, Blamed, Going, Interrupted, Interruption
<1>10. CASE ReapTool
  BY <1>10, ResultsTyped, InterruptionTyped DEF ReapTool, Typed, ControlTyped, ModelTyped,
     BudgetTyped, ToolTyped, Blamed, PCs, Going, Ending, Endings, Statuses, Interruption,
     Interrupted
<1>11. CASE Observe
  <2>1. result.status # "cancelled" \/ Interrupted
    BY DEF Blamed
  <2>2. result \in Results /\ (result.status = "timed_out" /\ ~result.retryable => result = Failed("timed_out", FALSE))
    BY DEF Typed, ToolTyped, Results, Failed
  <2>3. pc = "observe" /\ UNCHANGED <<inputs, model, tools>>
    BY <1>11 DEF Observe
  <2>4. \/ pc' = "finish" /\ Interrupted /\ ending' = Interruption
        \/ pc' = "finish" /\ ending' = "rejected"
        \/ pc' = "finish" /\ ending' = "timed_out" /\ result.status = "timed_out" /\ ~result.retryable
        \/ pc' \in {"extend", "calls"} /\ ending' = ending
    BY <1>11, <2>1 DEF Observe
  <2> QED BY <2>2, <2>3, <2>4 DEF Blamed, Going, Interrupted, Interruption
<1>12. CASE Extend
  BY <1>12, ResultsTyped, InterruptionTyped DEF Extend, Typed, ControlTyped, ModelTyped,
     BudgetTyped, ToolTyped, Blamed, PCs, Going, Ending, Endings, Statuses, Interruption,
     Interrupted
<1>13. CASE SignalStop
  <2>1. model'.replies = model.replies
    BY <1>13 DEF SignalStop, Typed, ModelTyped
  <2> QED BY <1>13, <2>1 DEF SignalStop, Blamed, Going, Interrupted, Interruption
<1>14. CASE CloseModel
  <2>1. model'.replies = model.replies
    BY <1>14 DEF CloseModel, Typed, ModelTyped
  <2> QED BY <1>14, <2>1 DEF CloseModel, Blamed, Going, Interrupted, Interruption
<1>15. CASE Conclude
  BY <1>15, ResultsTyped, InterruptionTyped DEF Conclude, Typed, ControlTyped, ModelTyped,
     BudgetTyped, ToolTyped, Blamed, PCs, Going, Ending, Endings, Statuses, Interruption,
     Interrupted
<1>16. CASE Raise
  BY <1>16, ResultsTyped, InterruptionTyped DEF Raise, Typed, ControlTyped, ModelTyped,
     BudgetTyped, ToolTyped, Blamed, PCs, Going, Ending, Endings, Statuses, Interruption,
     Interrupted
<1>17. CASE ModelTakes
  BY <1>17, ResultsTyped, InterruptionTyped DEF ModelTakes, Typed, ControlTyped, ModelTyped,
     BudgetTyped, ToolTyped, Blamed, PCs, Going, Ending, Endings, Statuses, Interruption,
     Interrupted
<1>18. CASE ModelReplies
  BY <1>18, RepliesKept DEF ModelReplies, Blamed, Interrupted, Interruption
<1>19. CASE ModelEnds
  BY <1>19, ResultsTyped, InterruptionTyped DEF ModelEnds, Typed, ControlTyped, ModelTyped,
     BudgetTyped, ToolTyped, Blamed, PCs, Going, Ending, Endings, Statuses, Interruption,
     Interrupted
<1>20. CASE ToolReplies
  BY <1>20, ResultsTyped, InterruptionTyped DEF ToolReplies, Typed, ControlTyped, ModelTyped,
     BudgetTyped, ToolTyped, Blamed, PCs, Going, Ending, Endings, Statuses, Interruption,
     Interrupted
<1>21. CASE ToolEnds
  BY <1>21, ResultsTyped, InterruptionTyped DEF ToolEnds, Typed, ControlTyped, ModelTyped,
     BudgetTyped, ToolTyped, Blamed, PCs, Going, Ending, Endings, Statuses, Interruption,
     Interrupted
<1>22. CASE ToolExpires
  BY <1>22, ResultsTyped, InterruptionTyped DEF ToolExpires, Typed, ControlTyped, ModelTyped,
     BudgetTyped, ToolTyped, Blamed, PCs, Going, Ending, Endings, Statuses, Interruption,
     Interrupted
<1>23. CASE Cancel
  BY <1>23, ResultsTyped, InterruptionTyped DEF Cancel, Typed, ControlTyped, ModelTyped,
     BudgetTyped, ToolTyped, Blamed, PCs, Going, Ending, Endings, Statuses, Interruption,
     Interrupted
<1>24. CASE Expire
  BY <1>24, ResultsTyped, InterruptionTyped DEF Expire, Typed, ControlTyped, ModelTyped,
     BudgetTyped, ToolTyped, Blamed, PCs, Going, Ending, Endings, Statuses, Interruption,
     Interrupted
<1>25. CASE UNCHANGED vars
  BY <1>25 DEF vars, Typed, ControlTyped, ModelTyped, BudgetTyped, ToolTyped, Blamed, PCs,
     Going, Ending, Endings, Statuses, Interruption, Interrupted
<1> QED BY <1>1, <1>2, <1>3, <1>4, <1>5, <1>6, <1>7, <1>8, <1>9, <1>10, <1>11, <1>12, <1>13,
   <1>14, <1>15, <1>16, <1>17, <1>18, <1>19, <1>20, <1>21, <1>22, <1>23, <1>24, <1>25
     DEF Next, Steps, Children, Terminated

LEMMA RemainsKept == ASSUME Typed, Counting, Blamed, Remains, [Next]_vars PROVE Remains'
<1> USE DEF control, inputs, budget, prefix, tools, verdict, outside, Go, Finish, Emit
<1>1. CASE Receive
  BY <1>1, Assumed, InterruptionTyped DEF Receive, Typed, ControlTyped, ModelTyped, ToolTyped,
     VerdictTyped, Remains, PCs, Going, Ending, Endings, Procs, NoTool
<1>2. CASE Ask
  BY <1>2, Assumed, InterruptionTyped DEF Ask, Typed, ControlTyped, ModelTyped, ToolTyped,
     VerdictTyped, Remains, PCs, Going, Ending, Endings, Procs, NoTool
<1>3. CASE Leave
  BY <1>3, Assumed, InterruptionTyped DEF Leave, Typed, ControlTyped, ModelTyped, ToolTyped,
     VerdictTyped, Remains, PCs, Going, Ending, Endings, Procs, NoTool
<1>4. CASE NoReply
  BY <1>4, Assumed, InterruptionTyped DEF NoReply, Typed, ControlTyped, ModelTyped, ToolTyped,
     VerdictTyped, Remains, PCs, Going, Ending, Endings, Procs, NoTool
<1>5. CASE TakeReply
  <2>1. /\ ending' # "finalized" /\ pc' \in {"finish", "parsed"} /\ pc = "waiting"
        /\ UNCHANGED <<model, tools, final, score, attempted, unclean>>
    BY <1>5, ReplyTaken, RepliesTyped DEF TakeReply, Blamed
  <2> QED BY <1>5, <2>1 DEF Remains, Ending
<1>6. CASE Act
  <2>1. /\ pc = "parsed" /\ pc' \in {"finish", "calls"}
        /\ ending' = "finalized" => final' \in Finals
        /\ UNCHANGED <<model, tools, score, attempted, unclean>>
    BY <1>6, ReplyTaken, RepliesTyped DEF Act, Blamed, Going
  <2> QED BY <1>6, <2>1, Assumed DEF Remains, Ending
<1>7. CASE CheckCall
  BY <1>7, Assumed, InterruptionTyped DEF CheckCall, Typed, ControlTyped, ModelTyped,
     ToolTyped, VerdictTyped, Remains, PCs, Going, Ending, Endings, Procs, NoTool
<1>8. CASE Execute
  BY <1>8, Assumed, InterruptionTyped DEF Execute, Typed, ControlTyped, ModelTyped, ToolTyped,
     VerdictTyped, Remains, PCs, Going, Ending, Endings, Procs, NoTool
<1>9. CASE AwaitTool
  BY <1>9, Assumed, InterruptionTyped DEF AwaitTool, Typed, ControlTyped, ModelTyped,
     ToolTyped, VerdictTyped, Remains, PCs, Going, Ending, Endings, Procs, NoTool
<1>10. CASE ReapTool
  BY <1>10, Assumed, InterruptionTyped DEF ReapTool, Typed, ControlTyped, ModelTyped,
     ToolTyped, VerdictTyped, Remains, PCs, Going, Ending, Endings, Procs, NoTool
<1>11. CASE Observe
  BY <1>11, Assumed, InterruptionTyped DEF Observe, Typed, ControlTyped, ModelTyped, ToolTyped,
     VerdictTyped, Remains, PCs, Going, Ending, Endings, Procs, NoTool
<1>12. CASE Extend
  BY <1>12, Assumed, InterruptionTyped DEF Extend, Typed, ControlTyped, ModelTyped, ToolTyped,
     VerdictTyped, Remains, PCs, Going, Ending, Endings, Procs, NoTool
<1>13. CASE SignalStop
  BY <1>13, Assumed, InterruptionTyped DEF SignalStop, Typed, ControlTyped, ModelTyped,
     ToolTyped, VerdictTyped, Remains, PCs, Going, Ending, Endings, Procs, NoTool
<1>14. CASE CloseModel
  <2>1. /\ model'.proc = "reaped" \/ (model' = model /\ model.proc = "alive" /\ unclean')
        /\ pc = "close" /\ pc' = "verdict" /\ UNCHANGED <<ending, final, attempted, score, tools>>
    BY <1>14 DEF CloseModel, Typed, ModelTyped
  <2>2. attempted /\ (unclean' => attempted')
    BY <2>1 DEF Remains
  <2> QED BY <2>1, <2>2 DEF Remains, Ending
<1>15. CASE Conclude
  <2>1. /\ UNCHANGED <<model, tools, final, attempted, unclean>>
        /\ pc = "verdict" \/ (pc = "finish" /\ (model.proc = "none" \/ attempted))
    BY <1>15 DEF Conclude, Nothing
  <2>2. \/ /\ pc' = "returned" /\ (score' = "success" => ending' = "finalized")
           /\ ending' = "finalized" => ending = "finalized" /\ ~unclean
        \/ pc' = "finish" /\ ending' = "rejected" /\ score' = score
    BY <1>15, InterruptionTyped DEF Conclude
  <2> QED BY <2>1, <2>2 DEF Remains, Ending
<1>16. CASE Raise
  BY <1>16, Assumed, InterruptionTyped DEF Raise, Typed, ControlTyped, ModelTyped, ToolTyped,
     VerdictTyped, Remains, PCs, Going, Ending, Endings, Procs, NoTool
<1>17. CASE ModelTakes
  BY <1>17, Assumed, InterruptionTyped DEF ModelTakes, Typed, ControlTyped, ModelTyped,
     ToolTyped, VerdictTyped, Remains, PCs, Going, Ending, Endings, Procs, NoTool
<1>18. CASE ModelReplies
  BY <1>18, Assumed, InterruptionTyped DEF ModelReplies, Typed, ControlTyped, ModelTyped,
     ToolTyped, VerdictTyped, Remains, PCs, Going, Ending, Endings, Procs, NoTool
<1>19. CASE ModelEnds
  BY <1>19, Assumed, InterruptionTyped DEF ModelEnds, Typed, ControlTyped, ModelTyped,
     ToolTyped, VerdictTyped, Remains, PCs, Going, Ending, Endings, Procs, NoTool
<1>20. CASE ToolReplies
  BY <1>20, Assumed, InterruptionTyped DEF ToolReplies, Typed, ControlTyped, ModelTyped,
     ToolTyped, VerdictTyped, Remains, PCs, Going, Ending, Endings, Procs, NoTool
<1>21. CASE ToolEnds
  BY <1>21, Assumed, InterruptionTyped DEF ToolEnds, Typed, ControlTyped, ModelTyped,
     ToolTyped, VerdictTyped, Remains, PCs, Going, Ending, Endings, Procs, NoTool
<1>22. CASE ToolExpires
  BY <1>22, Assumed, InterruptionTyped DEF ToolExpires, Typed, ControlTyped, ModelTyped,
     ToolTyped, VerdictTyped, Remains, PCs, Going, Ending, Endings, Procs, NoTool
<1>23. CASE Cancel
  BY <1>23, Assumed, InterruptionTyped DEF Cancel, Typed, ControlTyped, ModelTyped, ToolTyped,
     VerdictTyped, Remains, PCs, Going, Ending, Endings, Procs, NoTool
<1>24. CASE Expire
  BY <1>24, Assumed, InterruptionTyped DEF Expire, Typed, ControlTyped, ModelTyped, ToolTyped,
     VerdictTyped, Remains, PCs, Going, Ending, Endings, Procs, NoTool
<1>25. CASE UNCHANGED vars
  BY <1>25 DEF vars, Typed, ControlTyped, ModelTyped, ToolTyped, VerdictTyped, Remains, PCs,
     Going, Ending, Endings, Procs, NoTool
<1> QED BY <1>1, <1>2, <1>3, <1>4, <1>5, <1>6, <1>7, <1>8, <1>9, <1>10, <1>11, <1>12, <1>13,
   <1>14, <1>15, <1>16, <1>17, <1>18, <1>19, <1>20, <1>21, <1>22, <1>23, <1>24, <1>25
     DEF Next, Steps, Children, Terminated

----------------------------------------------------------------------------
(* Induction, as a fact about sets, and what FlattenSeq computes.          *)

LEMMA Least == ASSUME NEW T \in SUBSET Nat, T # {} PROVE \E n \in T : \A m \in T : n <= m
<1> DEFINE R == {p \in Nat \X Nat : p[1] < p[2]}
<1>1. IsWellFoundedOn(R, Nat)
  BY NatLessThanWellFounded DEF OpToRel
<1>2. \A m, n \in Nat : m < n => <<m, n>> \in R
  OBVIOUS
<1> HIDE DEF R
<1>3. PICK n \in T : \A m \in T : <<m, n>> \notin R
  BY <1>1, WFMin
<1>4. \A m \in T : ~(m < n)
  BY <1>2, <1>3
<1>5. \A m \in T : n <= m
  <2> TAKE m \in T
  <2>1. m \in Nat /\ n \in Nat /\ ~(m < n)
    BY <1>4
  <2> QED BY <2>1
<1> QED BY <1>5

\* A set of numbers with 0 and every successor has all of them.
LEMMA Induction == ASSUME NEW S, 0 \in S, \A n \in Nat : n \in S => n + 1 \in S PROVE \A n \in Nat : n \in S
<1> SUFFICES ASSUME Nat \ S # {} PROVE FALSE
  OBVIOUS
<1>1. PICK n \in Nat \ S : \A m \in Nat \ S : n <= m
  BY Least
<1>2. n # 0 /\ n \in Nat
  BY <1>1
<1>3. n - 1 \in Nat /\ (n - 1) + 1 = n
  BY <1>2
<1>4. n - 1 \in S
  <2> SUFFICES ASSUME n - 1 \notin S PROVE FALSE
    OBVIOUS
  <2>1. n <= n - 1
    BY <1>1, <1>3
  <2> QED BY <2>1, <1>2
<1>5. n \in S
  BY <1>3, <1>4
<1> QED BY <1>1, <1>5

\* f has the concatenations of the first n of s.
Joins(f, s, n) == f = [i \in 1 .. n |-> IF i = 1 THEN s[i] ELSE f[i - 1] \o s[i]]
Joined(s) == CHOOSE f : Joins(f, s, Len(s))

LEMMA JoinsAt ==
  ASSUME NEW f, NEW s, NEW n \in Nat, Joins(f, s, n), NEW i \in 1 .. n
  PROVE  f[i] = IF i = 1 THEN s[i] ELSE f[i - 1] \o s[i]
<1> DEFINE h(e) == [j \in 1 .. n |-> IF j = 1 THEN s[j] ELSE e[j - 1] \o s[j]]
<1>1. \A e : h(e)[i] = IF i = 1 THEN s[i] ELSE e[i - 1] \o s[i]
  OBVIOUS
<1>2. f = h(f)
  BY DEF Joins
<1> HIDE DEF h
<1>3. f[i] = h(f)[i]
  BY <1>2
<1> QED BY <1>1, <1>3

LEMMA Joinable == ASSUME NEW s, NEW n \in Nat PROVE \E f : Joins(f, s, n)
<1> DEFINE S == {k \in Nat : \E f : Joins(f, s, k)}
<1>1. 0 \in S
  <2>1. Joins([i \in 1 .. 0 |-> s[i]], s, 0)
    BY DEF Joins
  <2> QED BY <2>1
<1>2. ASSUME NEW k \in Nat, k \in S PROVE k + 1 \in S
  <2>1. PICK f : Joins(f, s, k)
    BY <1>2
  <2> DEFINE g == [i \in 1 .. k + 1 |-> IF i <= k THEN f[i] ELSE IF i = 1 THEN s[i] ELSE f[i - 1] \o s[i]]
  <2>2. ASSUME NEW i \in 1 .. k + 1 PROVE g[i] = IF i = 1 THEN s[i] ELSE g[i - 1] \o s[i]
    <3>1. CASE i <= k
      <4>1. f[i] = IF i = 1 THEN s[i] ELSE f[i - 1] \o s[i]
        BY <2>1, <3>1, JoinsAt
      <4>2. i # 1 => g[i - 1] = f[i - 1]
        BY <3>1
      <4> QED BY <3>1, <4>1, <4>2
    <3>2. CASE ~(i <= k)
      <4>1. i = k + 1
        BY <3>2
      <4>2. i # 1 => g[i - 1] = f[i - 1]
        BY <4>1
      <4> QED BY <4>1, <4>2
    <3> QED BY <3>1, <3>2
  <2>3. Joins(g, s, k + 1)
    <3>1. g = [i \in 1 .. k + 1 |-> g[i]]
      OBVIOUS
    <3> HIDE DEF g
    <3> QED BY <3>1, <2>2 DEF Joins
  <2> QED BY <2>3
<1>3. n \in S
  <2> HIDE DEF S
  <2> QED BY <1>1, <1>2, Induction
<1> QED BY <1>3

LEMMA JoinsAlike ==
  ASSUME NEW s, NEW t, NEW f, NEW g, NEW m \in Nat, NEW n \in Nat, n <= m,
         Joins(f, s, n), Joins(g, t, m), \A i \in 1 .. n : s[i] = t[i]
  PROVE  \A i \in 1 .. n : g[i] = f[i]
<1> DEFINE S == {i \in Nat : i \in 1 .. n => g[i] = f[i]}
<1>1. 0 \in S
  OBVIOUS
<1>2. ASSUME NEW i \in Nat, i \in S PROVE i + 1 \in S
  <2> SUFFICES ASSUME i + 1 \in 1 .. n PROVE g[i + 1] = f[i + 1]
    OBVIOUS
  <2>1. i + 1 \in 1 .. m /\ (i + 1) - 1 = i
    OBVIOUS
  <2>2. f[i + 1] = IF i + 1 = 1 THEN s[i + 1] ELSE f[(i + 1) - 1] \o s[i + 1]
    BY JoinsAt
  <2>3. g[i + 1] = IF i + 1 = 1 THEN t[i + 1] ELSE g[(i + 1) - 1] \o t[i + 1]
    BY <2>1, JoinsAt
  <2>4. s[i + 1] = t[i + 1] /\ (i # 0 => f[i] = g[i])
    BY <1>2
  <2> QED BY <2>1, <2>2, <2>3, <2>4
<1>3. \A i \in Nat : i \in S
  <2> HIDE DEF S
  <2> QED BY <1>1, <1>2, Induction
<1> QED BY <1>3

LEMMA FlatIs == ASSUME NEW s, Len(s) # 0 PROVE FlattenSeq(s) = Joined(s)[Len(s)]
BY DEF FlattenSeq, Joined, Joins

LEMMA JoinedJoins == ASSUME NEW s, Len(s) \in Nat PROVE Joins(Joined(s), s, Len(s))
BY Joinable DEF Joined

\* The empty sequence, one more part, and the type.
LEMMA FlatEmpty == FlattenSeq(<<>>) = <<>>
BY DEF FlattenSeq

LEMMA FlatTyped == ASSUME NEW T, NEW s \in Seq(Seq(T)) PROVE FlattenSeq(s) \in Seq(T)
<1> DEFINE f == Joined(s)
           S == {i \in Nat : i \in 1 .. Len(s) => f[i] \in Seq(T)}
<1>1. CASE s = <<>>
  <2>1. FlattenSeq(s) = <<>>
    BY <1>1, FlatEmpty
  <2> QED BY <2>1
<1>2. CASE s # <<>>
  <2>1. Len(s) # 0 /\ Len(s) \in Nat /\ \A i \in 1 .. Len(s) : s[i] \in Seq(T)
    BY <1>2
  <2>2. Joins(f, s, Len(s))
    BY <2>1, JoinedJoins
  <2> HIDE DEF f
  <2>3. 0 \in S
    OBVIOUS
  <2>4. ASSUME NEW i \in Nat, i \in S PROVE i + 1 \in S
    <3>1. ASSUME i + 1 \in 1 .. Len(s) PROVE f[i + 1] \in Seq(T)
      <4>1. f[i + 1] = IF i + 1 = 1 THEN s[i + 1] ELSE f[i] \o s[i + 1]
        <5>1. f[i + 1] = IF i + 1 = 1 THEN s[i + 1] ELSE f[(i + 1) - 1] \o s[i + 1]
          BY <2>1, <2>2, <3>1, JoinsAt
        <5> QED BY <5>1
      <4>2. s[i + 1] \in Seq(T) /\ (i # 0 => f[i] \in Seq(T))
        BY <2>1, <2>4, <3>1
      <4> QED BY <4>1, <4>2
    <3> QED BY <3>1
  <2>5. \A i \in Nat : i \in S
    <3> HIDE DEF S
    <3> QED BY <2>3, <2>4, Induction
  <2>6. f[Len(s)] \in Seq(T)
    BY <2>1, <2>5
  <2> QED BY <2>1, <2>6, FlatIs DEF f
<1> QED BY <1>1, <1>2

LEMMA FlatStep ==
  ASSUME NEW s, NEW t, Len(s) \in Nat \ {0}, Len(t) = Len(s) + 1, \A i \in 1 .. Len(s) : s[i] = t[i]
  PROVE  FlattenSeq(t) = FlattenSeq(s) \o t[Len(t)]
<1> DEFINE f == Joined(s)
           g == Joined(t)
<1>1. Len(t) \in Nat /\ Len(t) # 1 /\ Len(t) - 1 = Len(s) /\ Len(t) \in 1 .. Len(t) /\ Len(s) <= Len(t)
  OBVIOUS
<1>2. Joins(g, t, Len(t)) /\ Joins(f, s, Len(s))
  BY <1>1, JoinedJoins
<1>3. FlattenSeq(t) = g[Len(t)] /\ FlattenSeq(s) = f[Len(s)]
  BY <1>1, FlatIs
<1> HIDE DEF f, g
<1>4. g[Len(t)] = g[Len(s)] \o t[Len(t)]
  <2>1. g[Len(t)] = IF Len(t) = 1 THEN t[Len(t)] ELSE g[Len(t) - 1] \o t[Len(t)]
    BY <1>1, <1>2, JoinsAt
  <2> QED BY <1>1, <2>1
<1>5. \A i \in 1 .. Len(s) : g[i] = f[i]
  BY <1>1, <1>2, JoinsAlike
<1>6. Len(s) \in 1 .. Len(s)
  OBVIOUS
<1> QED BY <1>3, <1>4, <1>5, <1>6

LEMMA FlatOne == ASSUME NEW t, Len(t) = 1 PROVE FlattenSeq(t) = t[1]
<1>1. Joins(Joined(t), t, 1)
  <2>1. Len(t) \in Nat
    OBVIOUS
  <2>2. Joins(Joined(t), t, Len(t))
    BY <2>1, JoinedJoins
  <2> QED BY <2>2
<1>2. FlattenSeq(t) = Joined(t)[Len(t)]
  <2>1. Len(t) # 0
    OBVIOUS
  <2> QED BY <2>1, FlatIs
<1>3. Joined(t)[1] = IF 1 = 1 THEN t[1] ELSE Joined(t)[1 - 1] \o t[1]
  BY <1>1, JoinsAt
<1> QED BY <1>2, <1>3

LEMMA FlatAppend ==
  ASSUME NEW T, NEW s \in Seq(Seq(T)), NEW x \in Seq(T)
  PROVE  FlattenSeq(Append(s, x)) = FlattenSeq(s) \o x
<1> DEFINE t == Append(s, x)
<1>1. /\ Len(t) = Len(s) + 1 /\ Len(s) \in Nat /\ t[Len(t)] = x
      /\ \A i \in 1 .. Len(s) : s[i] = t[i]
  OBVIOUS
<1> HIDE DEF t
<1>2. CASE s = <<>>
  <2>1. Len(t) = 1
    BY <1>1, <1>2
  <2>2. FlattenSeq(t) = t[1]
    BY <2>1, FlatOne
  <2>3. <<>> \o x = x
    OBVIOUS
  <2> QED BY <1>1, <1>2, <2>1, <2>2, <2>3, FlatEmpty DEF t
<1>3. CASE s # <<>>
  <2>1. Len(s) \in Nat \ {0}
    BY <1>3
  <2>2. FlattenSeq(t) = FlattenSeq(s) \o t[Len(t)]
    BY <1>1, <2>1, FlatStep
  <2> QED BY <1>1, <2>2 DEF t
<1> QED BY <1>2, <1>3
----------------------------------------------------------------------------
(* What an event adds to a trace.                                          *)

Happenings ==
  {Event(x) : x \in Endings \cup {"received", "validated", "generating", "parsing"}}
    \cup {Execution(c) : c \in Calls} \cup {Observation(c, s) : c \in Calls, s \in Statuses \cup {"any"}}

LEMMA EventIs ==
  /\ \A x : Event(x).event = x
  /\ \A c : Execution(c).event = "tool_execution" /\ Execution(c).call = c
  /\ \A c, s : /\ Observation(c, s).event = "observing" /\ Observation(c, s).call = c
               /\ Observation(c, s).answers = c /\ Observation(c, s).status = s
BY DEF Event, Execution, Observation

LEMMA HappeningsAre ==
  /\ \A x \in Endings \cup {"received", "validated", "generating", "parsing"} :
       Event(x) \in Happenings /\ ~ToolEvent(Event(x)) /\ Blank(Event(x)) = Event(x)
  /\ \A c \in Calls : /\ Execution(c) \in Happenings /\ ToolEvent(Execution(c))
                      /\ Blank(Execution(c)) = Execution(c)
  /\ \A c \in Calls, s \in Statuses \cup {"any"} :
       /\ Observation(c, s) \in Happenings /\ ToolEvent(Observation(c, s))
       /\ Blank(Observation(c, s)) = Observation(c, "any")
<1>1. \A x \in Endings \cup {"received", "validated", "generating", "parsing"} :
        Event(x) \in Happenings /\ ~ToolEvent(Event(x)) /\ Blank(Event(x)) = Event(x)
  BY EventIs DEF Happenings, ToolEvent, Blank, Endings
<1>2. \A c \in Calls : /\ Execution(c) \in Happenings /\ ToolEvent(Execution(c))
                       /\ Blank(Execution(c)) = Execution(c)
  BY EventIs DEF Happenings, ToolEvent, Blank
<1>3. \A c \in Calls, s \in Statuses \cup {"any"} :
        Observation(c, s) \in Happenings /\ ToolEvent(Observation(c, s))
  BY EventIs DEF Happenings, ToolEvent
<1>4. \A c \in Calls, s \in Statuses \cup {"any"} : Blank(Observation(c, s)) = Observation(c, "any")
  <2> TAKE c \in Calls, s \in Statuses \cup {"any"}
  <2>1. Blank(Observation(c, s)) = [Observation(c, s) EXCEPT !.status = "any"]
    BY EventIs DEF Blank
  <2>2. [Observation(c, s) EXCEPT !.status = "any"] = Observation(c, "any")
    BY DEF Observation, Event
  <2> QED BY <2>1, <2>2
<1> QED BY <1>1, <1>2, <1>3, <1>4

LEMMA ToolEventsEmpty == ToolEvents(<<>>) = <<>>
<1>1. [i \in DOMAIN <<>> |-> IF ToolEvent(<<>>[i]) THEN <<<<>>[i]>> ELSE <<>>] = <<>>
  OBVIOUS
<1> QED BY <1>1, FlatEmpty DEF ToolEvents

LEMMA ToolEventsAppend ==
  ASSUME NEW t \in Seq(Happenings), NEW e \in Happenings
  PROVE  /\ ToolEvents(t) \in Seq(Happenings)
         /\ ToolEvents(Append(t, e)) = IF ToolEvent(e) THEN Append(ToolEvents(t), e) ELSE ToolEvents(t)
<1> DEFINE part(x) == IF ToolEvent(x) THEN <<x>> ELSE <<>>
           parts(u) == [i \in DOMAIN u |-> part(u[i])]
<1>1. \A x \in Happenings : part(x) \in Seq(Happenings)
  OBVIOUS
<1>2. parts(t) \in Seq(Seq(Happenings))
  <2>1. \A i \in 1 .. Len(t) : part(t[i]) \in Seq(Happenings)
    BY <1>1
  <2> HIDE DEF part
  <2> QED BY <2>1
<1>3. ToolEvents(t) = FlattenSeq(parts(t)) /\ ToolEvents(Append(t, e)) = FlattenSeq(parts(Append(t, e)))
  BY DEF ToolEvents
<1>4. parts(Append(t, e)) = Append(parts(t), part(e))
  <2> HIDE DEF part
  <2> QED OBVIOUS
<1>5. part(e) = IF ToolEvent(e) THEN <<e>> ELSE <<>>
  OBVIOUS
<1> HIDE DEF part, parts
<1>6. FlattenSeq(parts(t)) \in Seq(Happenings)
  BY <1>2, FlatTyped
<1>7. FlattenSeq(Append(parts(t), part(e))) = FlattenSeq(parts(t)) \o part(e)
  BY <1>1, <1>2, FlatAppend
<1>8. ToolEvents(t) \in Seq(Happenings) /\ ToolEvents(Append(t, e)) = ToolEvents(t) \o part(e)
  BY <1>3, <1>4, <1>6, <1>7
<1> QED BY <1>5, <1>8

CallsIn(steps) == [i \in 1 .. (Len(steps) + 1) \div 2 |-> steps[2 * i - 1].call]

LEMMA ExecutionAdded ==
  ASSUME NEW s \in Seq(Happenings), NEW c \in Calls, Ordered(s), ~Pending(s)
  PROVE  LET t == Append(s, Execution(c))
         IN Ordered(t) /\ Pending(t) /\ t[Len(t)].call = c /\ CallsIn(t) = Append(CallsIn(s), c)
<1> DEFINE t == Append(s, Execution(c))
<1>1. /\ Len(t) = Len(s) + 1 /\ t[Len(t)] = Execution(c) /\ DOMAIN t = 1 .. Len(s) + 1
      /\ \A i \in 1 .. Len(s) : t[i] = s[i]
  OBVIOUS
<1>2. PICK n \in Nat : Len(s) = 2 * n
  BY DEF Pending
<1>3. (Len(s) + 1) \div 2 = n /\ (Len(t) + 1) \div 2 = n + 1 /\ Len(t) % 2 = 1
  BY <1>1, <1>2
<1> HIDE DEF t
<1>4. Pending(t) /\ t[Len(t)].call = c
  BY <1>1, <1>3, EventIs DEF Pending
<1>5. Ordered(t)
  <2>1. c # NoCall
    BY OracleAssumption
  <2> SUFFICES ASSUME NEW i \in 1 .. Len(s) + 1
               PROVE  IF i % 2 = 1 THEN t[i].event = "tool_execution" /\ t[i].call # NoCall
                      ELSE /\ t[i].event = "observing"
                           /\ t[i].call = t[i - 1].call /\ t[i].answers = t[i - 1].call
    BY <1>1 DEF Ordered
  <2>2. CASE i = Len(s) + 1
    BY <1>1, <1>3, <2>1, <2>2, EventIs
  <2>3. CASE i # Len(s) + 1
    <3>1. i \in 1 .. Len(s) /\ t[i] = s[i] /\ (i % 2 # 1 => i - 1 \in 1 .. Len(s) /\ t[i - 1] = s[i - 1])
      BY <1>1, <2>3
    <3> QED BY <3>1 DEF Ordered
  <2> QED BY <2>2, <2>3
<1>6. CallsIn(t) = Append(CallsIn(s), c)
  <2>1. CallsIn(s) = [i \in 1 .. n |-> s[2 * i - 1].call] /\ CallsIn(t) = [i \in 1 .. n + 1 |-> t[2 * i - 1].call]
    BY <1>3 DEF CallsIn
  <2>2. \A i \in 1 .. n : t[2 * i - 1] = s[2 * i - 1]
    BY <1>1, <1>2
  <2>3. t[2 * (n + 1) - 1].call = c
    BY <1>1, <1>2, EventIs
  <2> QED BY <2>1, <2>2, <2>3
<1> QED BY <1>4, <1>5, <1>6 DEF t

LEMMA ObservationAdded ==
  ASSUME NEW s \in Seq(Happenings), NEW c, NEW st, Ordered(s), Pending(s), s[Len(s)].call = c
  PROVE  LET t == Append(s, Observation(c, st))
         IN Ordered(t) /\ ~Pending(t) /\ CallsIn(t) = CallsIn(s)
<1> DEFINE t == Append(s, Observation(c, st))
<1>1. /\ Len(t) = Len(s) + 1 /\ t[Len(t)] = Observation(c, st) /\ DOMAIN t = 1 .. Len(s) + 1
      /\ \A i \in 1 .. Len(s) : t[i] = s[i]
  OBVIOUS
<1>2. PICK n \in Nat : Len(s) = 2 * n + 1
  BY DEF Pending
<1>3. (Len(s) + 1) \div 2 = n + 1 /\ (Len(t) + 1) \div 2 = n + 1 /\ Len(t) % 2 = 0
  BY <1>1, <1>2
<1> HIDE DEF t
<1>4. ~Pending(t)
  BY <1>3 DEF Pending
<1>5. Ordered(t)
  <2> SUFFICES ASSUME NEW i \in 1 .. Len(s) + 1
               PROVE  IF i % 2 = 1 THEN t[i].event = "tool_execution" /\ t[i].call # NoCall
                      ELSE /\ t[i].event = "observing"
                           /\ t[i].call = t[i - 1].call /\ t[i].answers = t[i - 1].call
    BY <1>1 DEF Ordered
  <2>2. CASE i = Len(s) + 1
    <3>1. t[i - 1] = s[Len(s)] /\ t[i] = Observation(c, st) /\ i % 2 # 1
      BY <1>1, <1>2, <1>3, <2>2
    <3> QED BY <3>1, EventIs
  <2>3. CASE i # Len(s) + 1
    <3>1. i \in 1 .. Len(s) /\ t[i] = s[i] /\ (i % 2 # 1 => i - 1 \in 1 .. Len(s) /\ t[i - 1] = s[i - 1])
      BY <1>1, <2>3
    <3> QED BY <3>1 DEF Ordered
  <2> QED BY <2>2, <2>3
<1>6. CallsIn(t) = CallsIn(s)
  <2>1. CallsIn(s) = [i \in 1 .. n + 1 |-> s[2 * i - 1].call] /\ CallsIn(t) = [i \in 1 .. n + 1 |-> t[2 * i - 1].call]
    BY <1>3 DEF CallsIn
  <2>2. \A i \in 1 .. n + 1 : t[2 * i - 1] = s[2 * i - 1]
    BY <1>1, <1>2
  <2> QED BY <2>1, <2>2
<1> QED BY <1>4, <1>5, <1>6 DEF t

----------------------------------------------------------------------------
(* The tool events of a run are its calls, each before its observation.    *)

Quiet == {"start", "loop", "waiting", "parsed", "calls", "extend"}
Calling == {"execute", "tool", "reap", "observe"}

Taken == ToolEvents(trace)
Made == FlattenSeq(history) \o SubSeq(action, 1, observed)

Tracing ==
  /\ trace \in Seq(Happenings) /\ Ordered(Taken)
  /\ pc = "start" => trace = <<>>
  /\ pc \in Quiet => ~Pending(Taken) /\ CallsIn(Taken) = Made
  /\ pc \in Calling => /\ Pending(Taken) /\ Taken[Len(Taken)].call = Current
                       /\ CallsIn(Taken) = Append(Made, Current)
  /\ ending = "finalized" => ~Pending(Taken) /\ CallsIn(Taken) = FlattenSeq(history)

LEMMA BatchesTyped ==
  ASSUME Typed
  PROVE  /\ Batches \subseteq Seq(Calls) /\ history \in Seq(Seq(Calls)) /\ action \in Seq(Calls)
         /\ FlattenSeq(history) \in Seq(Calls) /\ SubSeq(action, 1, 0) = <<>>
         /\ FlattenSeq(history) \o <<>> = FlattenSeq(history)
<1>1. Batches \subseteq Seq(Calls)
  BY Assumed
<1>2. history \in Seq(Seq(Calls)) /\ action \in Seq(Calls)
  <2>1. history \in Seq(Batches) /\ (action \in Batches \/ action = <<>>)
    BY DEF Typed, PrefixTyped
  <2>2. \A i \in 1 .. Len(history) : history[i] \in Seq(Calls)
    BY <1>1, <2>1
  <2>3. action \in Seq(Calls)
    <3>1. CASE action \in Batches
      BY <1>1, <3>1
    <3>2. CASE action = <<>>
      BY <3>2
    <3> QED BY <2>1, <3>1, <3>2
  <2> QED BY <2>1, <2>2, <2>3
<1>3. FlattenSeq(history) \in Seq(Calls)
  BY <1>2, FlatTyped
<1> QED BY <1>1, <1>2, <1>3

LEMMA Pair == ASSUME NEW S, NEW d \in S, NEW e \in S PROVE <<d, e>> \in Seq(S) /\ Append(<<d>>, e) = <<d, e>>
<1>1. <<d>> \in Seq(S) /\ <<d, e>> \in Seq(S) /\ Append(<<d>>, e) \in Seq(S)
  OBVIOUS
<1>2. Len(Append(<<d>>, e)) = 2 /\ Append(<<d>>, e)[1] = d /\ Append(<<d>>, e)[2] = e
  OBVIOUS
<1>3. Len(<<d, e>>) = 2 /\ <<d, e>>[1] = d /\ <<d, e>>[2] = e
  OBVIOUS
<1>4. Append(<<d>>, e) = <<d, e>>
  <2> DEFINE s == Append(<<d>>, e)
             t == <<d, e>>
  <2>1. s \in Seq(S) /\ t \in Seq(S) /\ Len(s) = 2 /\ Len(t) = 2 /\ s[1] = t[1] /\ s[2] = t[2]
    BY <1>1, <1>2, <1>3
  <2> HIDE DEF s, t
  <2>2. \A i \in 1 .. Len(s) : s[i] = t[i]
    BY <2>1
  <2>3. s = t
    BY <2>1, <2>2, SeqEqual
  <2> QED BY <2>3 DEF s, t
<1> QED BY <1>1, <1>4

LEMMA TwoSilent ==
  ASSUME NEW d \in Happenings, NEW e \in Happenings, ~ToolEvent(d), ~ToolEvent(e)
  PROVE  /\ <<d>> \in Seq(Happenings) /\ ToolEvents(<<d>>) = <<>>
         /\ <<d, e>> \in Seq(Happenings) /\ ToolEvents(<<d, e>>) = <<>>
<1>1. <<>> \in Seq(Happenings) /\ <<d>> \in Seq(Happenings) /\ Append(<<>>, d) = <<d>>
  OBVIOUS
<1>2. <<d, e>> \in Seq(Happenings) /\ Append(<<d>>, e) = <<d, e>>
  BY Pair
<1>3. ToolEvents(<<d>>) = <<>>
  BY <1>1, ToolEventsEmpty, ToolEventsAppend
<1>4. ToolEvents(<<d, e>>) = <<>>
  BY <1>1, <1>2, <1>3, ToolEventsAppend
<1> QED BY <1>1, <1>2, <1>3, <1>4

LEMMA TakenKept ==
  ASSUME trace \in Seq(Happenings),
         trace' = trace \/ \E e \in Happenings : ~ToolEvent(e) /\ trace' = Append(trace, e)
  PROVE  trace' \in Seq(Happenings) /\ Taken' = Taken
<1>1. CASE trace' = trace
  BY <1>1 DEF Taken
<1>2. ASSUME NEW e \in Happenings, ~ToolEvent(e), trace' = Append(trace, e)
      PROVE  trace' \in Seq(Happenings) /\ Taken' = Taken
  <2>1. ToolEvents(Append(trace, e)) = ToolEvents(trace)
    BY <1>2, ToolEventsAppend
  <2> QED BY <1>2, <2>1 DEF Taken
<1> QED BY <1>1, <1>2

LEMMA TracingQuiet ==
  ASSUME Tracing, UNCHANGED <<history, action, observed>>,
         trace' = trace \/ \E e \in Happenings : ~ToolEvent(e) /\ trace' = Append(trace, e),
         pc' = "start" => pc = "start" /\ trace' = trace,
         pc' \in Quiet => pc \in Quiet, pc' \in Calling => pc \in Calling,
         ending' = "finalized" => ending = "finalized"
  PROVE  Tracing'
<1>1. trace' \in Seq(Happenings) /\ Taken' = Taken
  BY TakenKept DEF Tracing
<1>2. Made' = Made /\ Current' = Current
  BY DEF Made, Current
<1> QED BY <1>1, <1>2 DEF Tracing

LEMMA TracingKept == ASSUME Typed, Counting, Batching, Blamed, Tracing, [Next]_vars PROVE Tracing'
<1> USE DEF control, inputs, budget, prefix, tools, verdict, outside, Go, Finish, Emit
<1>1. CASE Receive
  <2>1. Taken = <<>> /\ trace = <<>> /\ pc = "start" /\ pc' \in {"loop", "finish"} /\ ending' # "finalized"
        /\ UNCHANGED <<history, action, observed>>
    BY <1>1, ToolEventsEmpty DEF Receive, Tracing, Taken, Blamed, Going
  <2>2. Event("received") \in Happenings /\ ~ToolEvent(Event("received"))
        /\ Event("validated") \in Happenings /\ ~ToolEvent(Event("validated"))
    BY HappeningsAre
  <2>6. trace' \in Seq(Happenings) /\ Taken' = Taken
    <3>1. trace' = <<Event("received"), Event("validated")>> \/ trace' = <<Event("received")>>
      BY <1>1 DEF Receive
    <3>2. trace' \in Seq(Happenings) /\ ToolEvents(trace') = <<>>
      BY <2>2, <3>1, TwoSilent
    <3> QED BY <2>1, <3>2 DEF Taken
  <2>7. Made' = Made
    BY <2>1 DEF Made
  <2> QED BY <2>1, <2>6, <2>7 DEF Tracing, Quiet, Calling
<1>2. CASE Ask
  BY <1>2, TracingQuiet, HappeningsAre DEF Ask, Quiet, Calling
<1>3. CASE Leave
  BY <1>3, TracingQuiet, HappeningsAre, InterruptionTyped DEF Leave, Quiet, Calling, Endings
<1>4. CASE NoReply
  BY <1>4, TracingQuiet, HappeningsAre, InterruptionTyped DEF NoReply, Quiet, Calling, Endings
<1>5. CASE TakeReply
  BY <1>5, TracingQuiet, HappeningsAre, ReplyTaken, RepliesTyped DEF TakeReply, Quiet, Calling,
     Blamed, Going
<1>6. CASE Act
  <2>1. /\ pc = "parsed" /\ UNCHANGED <<trace, history, observed>> /\ action = <<>> /\ observed = 0
        /\ \/ pc' = "finish" /\ action' = action
           \/ pc' = "calls" /\ action' \in Seq(Calls) /\ ending' = ending
    BY <1>6, ReplyTaken, RepliesTyped, BatchesTyped DEF Act, Batching
  <2>2. Made' = Made /\ Made = FlattenSeq(history) /\ Taken' = Taken /\ history' = history
    <3>1. SubSeq(action, 1, 0) = <<>> /\ SubSeq(action', 1, 0) = <<>>
      BY <2>1, BatchesTyped
    <3> QED BY <2>1, <3>1, BatchesTyped DEF Made, Taken
  <2> QED BY <2>1, <2>2 DEF Tracing, Quiet, Calling, Blamed, Going
<1>7. CASE CheckCall
  <2>1. /\ pc = "calls" /\ pc' \in {"execute", "finish"} /\ Current \in Calls /\ ending' # "finalized"
        /\ trace' = Append(trace, Execution(Current)) /\ UNCHANGED <<history, action, observed>>
    <3>1. pc = "calls"
      BY <1>7 DEF CheckCall
    <3>2. Current \in Calls
      BY <3>1, CurrentTyped
    <3> QED BY <1>7, <3>1, <3>2 DEF CheckCall, Blamed, Going
  <2>2. Current' = Current /\ Made' = Made
    BY <2>1 DEF Current, Made
  <2>3. /\ trace \in Seq(Happenings) /\ Execution(Current) \in Happenings /\ ToolEvent(Execution(Current))
        /\ Taken \in Seq(Happenings) /\ Taken' = Append(Taken, Execution(Current))
    BY <2>1, HappeningsAre, ToolEventsAppend DEF Tracing, Taken
  <2>4. Ordered(Taken) /\ ~Pending(Taken) /\ CallsIn(Taken) = Made
    BY <2>1 DEF Tracing, Quiet
  <2>5. /\ Ordered(Taken') /\ Pending(Taken') /\ Taken'[Len(Taken')].call = Current
        /\ CallsIn(Taken') = Append(CallsIn(Taken), Current)
    BY <2>1, <2>3, <2>4, ExecutionAdded
  <2>6. trace' \in Seq(Happenings)
    BY <2>1, <2>3
  <2> QED BY <2>1, <2>2, <2>4, <2>5, <2>6 DEF Tracing, Quiet, Calling
<1>8. CASE Execute
  BY <1>8, TracingQuiet, HappeningsAre DEF Execute, Quiet, Calling
<1>9. CASE AwaitTool
  BY <1>9, TracingQuiet, HappeningsAre DEF AwaitTool, Quiet, Calling
<1>10. CASE ReapTool
  BY <1>10, TracingQuiet, HappeningsAre DEF ReapTool, Quiet, Calling
<1>11. CASE Observe
  <2>1. /\ pc = "observe" /\ pc' \in {"finish", "extend", "calls"} /\ ending' # "finalized"
        /\ trace' = Append(trace, Observation(Current, result.status))
        /\ observed' = observed + 1 /\ UNCHANGED <<history, action>>
    BY <1>11, InterruptionTyped DEF Observe, Blamed, Going
  <2>2. Current \in Calls /\ result.status \in Statuses \cup {"any"}
    <3>1. result.status \in Statuses
      BY DEF Typed, ToolTyped, Results
    <3> QED BY <2>1, <3>1, CurrentTyped
  <2>3. /\ trace \in Seq(Happenings) /\ Observation(Current, result.status) \in Happenings
        /\ ToolEvent(Observation(Current, result.status))
        /\ Taken \in Seq(Happenings) /\ Taken' = Append(Taken, Observation(Current, result.status))
    BY <2>1, <2>2, HappeningsAre, ToolEventsAppend DEF Tracing, Taken
  <2>4. /\ Ordered(Taken) /\ Pending(Taken) /\ Taken[Len(Taken)].call = Current
        /\ CallsIn(Taken) = Append(Made, Current)
    BY <2>1 DEF Tracing, Calling
  <2>5. Ordered(Taken') /\ ~Pending(Taken') /\ CallsIn(Taken') = CallsIn(Taken)
    BY <2>3, <2>4, ObservationAdded
  <2>6. Made' = Append(Made, Current)
    <3>1. observed \in Nat /\ observed < Len(action) /\ action \in Seq(Calls) /\ FlattenSeq(history) \in Seq(Calls)
      BY <2>1, BatchesTyped DEF Batching, Typed, PrefixTyped
    <3>2. SubSeq(action, 1, observed + 1) = Append(SubSeq(action, 1, observed), action[observed + 1])
      BY <3>1
    <3>3. SubSeq(action, 1, observed) \in Seq(Calls)
      BY <3>1
    <3> QED BY <2>1, <2>2, <3>1, <3>2, <3>3 DEF Made, Current
  <2>7. trace' \in Seq(Happenings)
    BY <2>1, <2>3
  <2> QED BY <2>1, <2>4, <2>5, <2>6, <2>7 DEF Tracing, Quiet, Calling
<1>12. CASE Extend
  <2>1. /\ pc = "extend" /\ pc' \in {"finish", "loop"} /\ ending' # "finalized" /\ UNCHANGED trace
        /\ history' = Append(history, action) /\ action' = <<>> /\ observed' = 0
    BY <1>12 DEF Extend, Blamed, Going
  <2>2. Made' = Made
    <3>1. history \in Seq(Seq(Calls)) /\ action \in Seq(Calls) /\ observed = Len(action)
      BY <2>1, BatchesTyped DEF Batching
    <3>2. FlattenSeq(history') = FlattenSeq(history) \o action
      BY <2>1, <3>1, FlatAppend
    <3>3. SubSeq(action, 1, observed) = action /\ SubSeq(action', 1, observed') = <<>>
      BY <2>1, <3>1
    <3>4. (FlattenSeq(history) \o action) \o <<>> = FlattenSeq(history) \o action
      BY <3>1, BatchesTyped
    <3> QED BY <3>2, <3>3, <3>4 DEF Made
  <2> QED BY <2>1, <2>2 DEF Tracing, Quiet, Calling, Taken
<1>13. CASE SignalStop
  BY <1>13, TracingQuiet, HappeningsAre DEF SignalStop, Quiet, Calling
<1>14. CASE CloseModel
  BY <1>14, TracingQuiet, HappeningsAre DEF CloseModel, Quiet, Calling
<1>15. CASE Conclude
  <2>1. /\ pc \in {"verdict", "finish"} /\ pc' \in {"finish", "returned"} /\ UNCHANGED <<history, action, observed>>
        /\ ending' = "finalized" => ending = "finalized"
        /\ trace' = trace \/ \E x \in Endings : trace' = Append(trace, Event(x))
    BY <1>15, InterruptionTyped DEF Conclude, Nothing, Typed, ControlTyped, Endings
  <2> QED BY <2>1, TracingQuiet, HappeningsAre DEF Quiet, Calling
<1>16. CASE Raise
  BY <1>16, TracingQuiet, HappeningsAre DEF Raise, Quiet, Calling
<1>17. CASE ModelTakes
  BY <1>17, TracingQuiet, HappeningsAre DEF ModelTakes, Quiet, Calling
<1>18. CASE ModelReplies
  BY <1>18, TracingQuiet, HappeningsAre DEF ModelReplies, Quiet, Calling
<1>19. CASE ModelEnds
  BY <1>19, TracingQuiet, HappeningsAre DEF ModelEnds, Quiet, Calling
<1>20. CASE ToolReplies
  BY <1>20, TracingQuiet, HappeningsAre DEF ToolReplies, Quiet, Calling
<1>21. CASE ToolEnds
  BY <1>21, TracingQuiet, HappeningsAre DEF ToolEnds, Quiet, Calling
<1>22. CASE ToolExpires
  BY <1>22, TracingQuiet, HappeningsAre DEF ToolExpires, Quiet, Calling
<1>23. CASE Cancel
  BY <1>23, TracingQuiet, HappeningsAre DEF Cancel, Quiet, Calling
<1>24. CASE Expire
  BY <1>24, TracingQuiet, HappeningsAre DEF Expire, Quiet, Calling
<1>25. CASE UNCHANGED vars
  BY <1>25, TracingQuiet DEF vars
<1> QED BY <1>1, <1>2, <1>3, <1>4, <1>5, <1>6, <1>7, <1>8, <1>9, <1>10, <1>11, <1>12, <1>13,
   <1>14, <1>15, <1>16, <1>17, <1>18, <1>19, <1>20, <1>21, <1>22, <1>23, <1>24, <1>25
     DEF Next, Steps, Children, Terminated

----------------------------------------------------------------------------
(* What a run is expected to have said, and what it says.                  *)

Pairs(b) == FlattenSeq([i \in DOMAIN b |-> <<Execution(b[i]), Observation(b[i], "any")>>])
Asked == Event("generating")
Heard == Event("parsing")
TurnOf(b) == <<Asked, Heard>> \o Pairs(b)
Turns(h) == FlattenSeq([i \in DOMAIN h |-> TurnOf(h[i])])
Opening == <<Event("received"), Event("validated")>>
Spoken == Opening \o Turns(history)
Blanked == [i \in DOMAIN trace |-> Blank(trace[i])]

LEMMA FunctionIsSeq == ASSUME NEW S, NEW n \in Nat, NEW f \in [1 .. n -> S] PROVE f \in Seq(S)
BY SeqDef

LEMMA ConcatTwo ==
  ASSUME NEW S, NEW s \in Seq(S), NEW d \in S, NEW e \in S
  PROVE  s \o <<d, e>> = Append(Append(s, d), e)
<1>1. Append(s, d) \in Seq(S) /\ <<d>> \in Seq(S) /\ <<e>> \in Seq(S)
  OBVIOUS
<1>2. Append(Append(s, d), e) = (s \o <<d>>) \o <<e>>
  BY <1>1, AppendIsConcat
<1>3. (s \o <<d>>) \o <<e>> = s \o (<<d>> \o <<e>>)
  BY <1>1, ConcatAssociative
<1>4. <<d>> \o <<e>> = <<d, e>>
  <2>1. <<d>> \o <<e>> = Append(<<d>>, e)
    BY <1>1, AppendIsConcat
  <2>2. Append(<<d>>, e) = <<d, e>>
    BY Pair
  <2> QED BY <2>1, <2>2
<1> QED BY <1>2, <1>3, <1>4

LEMMA SpokenTyped ==
  /\ Asked \in Happenings /\ Heard \in Happenings /\ <<Asked, Heard>> \in Seq(Happenings)
  /\ Opening \in Seq(Happenings)
  /\ \A c \in Calls : <<Execution(c), Observation(c, "any")>> \in Seq(Happenings)
<1>1. Asked \in Happenings /\ Heard \in Happenings
  BY HappeningsAre DEF Asked, Heard
<1>2. Event("received") \in Happenings /\ Event("validated") \in Happenings
  BY HappeningsAre
<1>3. \A c \in Calls : Execution(c) \in Happenings /\ Observation(c, "any") \in Happenings
  BY HappeningsAre
<1>4. <<Asked, Heard>> \in Seq(Happenings) /\ Opening \in Seq(Happenings)
  BY <1>1, <1>2, Pair DEF Opening
<1>5. \A c \in Calls : <<Execution(c), Observation(c, "any")>> \in Seq(Happenings)
  BY <1>3, Pair
<1> QED BY <1>1, <1>4, <1>5

LEMMA PairsEmpty == Pairs(<<>>) = <<>> /\ TurnOf(<<>>) = <<Asked, Heard>> /\ Turns(<<>>) = <<>>
<1>1. Pairs(<<>>) = <<>>
  <2>1. [i \in DOMAIN <<>> |-> <<Execution(<<>>[i]), Observation(<<>>[i], "any")>>] = <<>>
    OBVIOUS
  <2> QED BY <2>1, FlatEmpty DEF Pairs
<1>2. Turns(<<>>) = <<>>
  <2>1. [i \in DOMAIN <<>> |-> TurnOf(<<>>[i])] = <<>>
    OBVIOUS
  <2> QED BY <2>1, FlatEmpty DEF Turns
<1>3. TurnOf(<<>>) = <<Asked, Heard>>
  BY <1>1, SpokenTyped, ConcatEmptySeq DEF TurnOf
<1> QED BY <1>1, <1>2, <1>3

LEMMA PairsTyped == ASSUME NEW b \in Seq(Calls) PROVE Pairs(b) \in Seq(Happenings) /\ TurnOf(b) \in Seq(Happenings)
<1> DEFINE twos == [i \in DOMAIN b |-> <<Execution(b[i]), Observation(b[i], "any")>>]
<1>1. \A i \in 1 .. Len(b) : <<Execution(b[i]), Observation(b[i], "any")>> \in Seq(Happenings)
  BY SpokenTyped
<1>2. twos \in Seq(Seq(Happenings))
  <2>1. Len(b) \in Nat /\ twos \in [1 .. Len(b) -> Seq(Happenings)]
    BY <1>1
  <2> HIDE DEF twos
  <2> QED BY <2>1, FunctionIsSeq
<1>3. Pairs(b) = FlattenSeq(twos)
  BY DEF Pairs
<1> HIDE DEF twos
<1>4. Pairs(b) \in Seq(Happenings)
  BY <1>2, <1>3, FlatTyped
<1> QED BY <1>4, SpokenTyped, ConcatProperties DEF TurnOf

LEMMA PairsAppend ==
  ASSUME NEW b \in Seq(Calls), NEW c \in Calls
  PROVE  /\ Pairs(b) \in Seq(Happenings)
         /\ Pairs(Append(b, c)) = Pairs(b) \o <<Execution(c), Observation(c, "any")>>
<1> DEFINE two(x) == <<Execution(x), Observation(x, "any")>>
           twos(u) == [i \in DOMAIN u |-> two(u[i])]
<1>1. \A x \in Calls : two(x) \in Seq(Happenings)
  BY SpokenTyped
<1>2. two(c) = <<Execution(c), Observation(c, "any")>>
  OBVIOUS
<1>3. Pairs(b) = FlattenSeq(twos(b)) /\ Pairs(Append(b, c)) = FlattenSeq(twos(Append(b, c)))
  BY DEF Pairs
<1> HIDE DEF two
<1>4. twos(b) \in Seq(Seq(Happenings))
  <2>1. \A i \in 1 .. Len(b) : two(b[i]) \in Seq(Happenings)
    BY <1>1
  <2> QED BY <2>1
<1>5. twos(Append(b, c)) = Append(twos(b), two(c))
  OBVIOUS
<1> HIDE DEF twos
<1>6. FlattenSeq(twos(b)) \in Seq(Happenings)
  BY <1>4, FlatTyped
<1>7. FlattenSeq(Append(twos(b), two(c))) = FlattenSeq(twos(b)) \o two(c)
  BY <1>1, <1>4, FlatAppend
<1> QED BY <1>2, <1>3, <1>5, <1>6, <1>7

LEMMA TurnsAppend ==
  ASSUME NEW h \in Seq(Seq(Calls)), NEW b \in Seq(Calls)
  PROVE  /\ Turns(h) \in Seq(Happenings) /\ TurnOf(b) \in Seq(Happenings)
         /\ Turns(Append(h, b)) = Turns(h) \o TurnOf(b)
<1> DEFINE turns(u) == [i \in DOMAIN u |-> TurnOf(u[i])]
<1>1. \A x \in Seq(Calls) : TurnOf(x) \in Seq(Happenings)
  BY PairsTyped
<1>2. turns(h) \in Seq(Seq(Happenings))
  <2>1. Len(h) \in Nat /\ \A i \in 1 .. Len(h) : h[i] \in Seq(Calls)
    OBVIOUS
  <2>2. \A i \in 1 .. Len(h) : TurnOf(h[i]) \in Seq(Happenings)
    BY <1>1, <2>1
  <2>3. turns(h) = [i \in 1 .. Len(h) |-> TurnOf(h[i])]
    OBVIOUS
  <2>4. turns(h) \in [1 .. Len(h) -> Seq(Happenings)]
    BY <2>2, <2>3
  <2> HIDE DEF turns
  <2> QED BY <2>1, <2>4, FunctionIsSeq
<1>3. turns(Append(h, b)) = Append(turns(h), TurnOf(b))
  OBVIOUS
<1>4. Turns(h) = FlattenSeq(turns(h)) /\ Turns(Append(h, b)) = FlattenSeq(turns(Append(h, b)))
  BY DEF Turns
<1> HIDE DEF turns
<1> QED BY <1>1, <1>2, <1>3, <1>4, FlatTyped, FlatAppend

LEMMA BlankedAppend ==
  ASSUME NEW t \in Seq(Happenings), NEW e \in Happenings
  PROVE  [i \in DOMAIN Append(t, e) |-> Blank(Append(t, e)[i])] = Append([i \in DOMAIN t |-> Blank(t[i])], Blank(e))
OBVIOUS

----------------------------------------------------------------------------
(* The decisions that were followed are the batches of the prefix, and a   *)
(* finalized run has one more: its final action, after which nothing more  *)
(* was asked for.                                                          *)

Batched == Calling \cup {"calls", "extend"}

Said ==
  /\ Len(history) <= Len(model.replies)
  /\ \A i \in 1 .. Len(history) : model.replies[i].kind = "calls" /\ model.replies[i].calls = history[i]
  /\ pc \in {"start", "loop"} => decisions = Len(history)
  /\ pc \in {"waiting", "parsed"} \cup Batched => decisions = Len(history) + 1
  /\ pc \in Batched => model.replies[decisions].kind = "calls" /\ model.replies[decisions].calls = action
  /\ action # <<>> => rounds = Len(history) + 1
  /\ action = <<>> => rounds = Len(history)
  /\ ending = "finalized" =>
       /\ action = <<>> /\ decisions = Len(history) + 1
       /\ complete /\ model.asked = decisions /\ Len(model.replies) = decisions
       /\ model.replies[decisions].kind = "final" /\ model.replies[decisions].final = final
       /\ model.replies[decisions].calls = <<>>

LEMMA SaidKept == ASSUME Typed, Counting, Batching, Blamed, Said, [Next]_vars PROVE Said'
<1> USE DEF control, inputs, budget, prefix, tools, verdict, outside, Go, Finish, Emit
<1>1. CASE Receive
  BY <1>1, InterruptionTyped DEF Receive, Said, Batched, Calling, Typed, ControlTyped,
     ModelTyped, BudgetTyped, Blamed, Going
<1>2. CASE Ask
  BY <1>2, InterruptionTyped DEF Ask, Said, Batched, Calling, Typed, ControlTyped, ModelTyped,
     BudgetTyped, Blamed, Going
<1>3. CASE Leave
  BY <1>3, InterruptionTyped DEF Leave, Said, Batched, Calling, Typed, ControlTyped,
     ModelTyped, BudgetTyped, Blamed, Going
<1>4. CASE NoReply
  BY <1>4, InterruptionTyped DEF NoReply, Said, Batched, Calling, Typed, ControlTyped,
     ModelTyped, BudgetTyped, Blamed, Going
<1>5. CASE TakeReply
  <2>1. /\ UNCHANGED <<model, decisions, rounds, prefix, verdict>> /\ pc = "waiting" /\ ending' # "finalized"
        /\ pc' \in {"parsed", "finish"}
    BY <1>5, ReplyTaken, RepliesTyped DEF TakeReply, Blamed, Going
  <2> QED BY <2>1 DEF Said, Batched, Calling
<1>6. CASE Act
  <2> DEFINE r == model.replies[decisions]
  <2>1. /\ r \in Replies /\ pc = "parsed" /\ action = <<>> /\ ending = "none" /\ decisions \in Nat
        /\ complete /\ model.asked = decisions /\ Len(model.replies) = model.asked
        /\ UNCHANGED <<model, decisions, history, complete>>
    BY <1>6, ReplyTaken DEF Act, Batching, Blamed, Going, Counting, Typed, BudgetTyped
  <2>2. \/ /\ r.kind = "final" /\ final' = r.final /\ ending' = "finalized" /\ pc' = "finish"
           /\ UNCHANGED <<rounds, action>>
        \/ pc' = "finish" /\ ending' = "budget_exhausted" /\ UNCHANGED <<rounds, action>>
        \/ /\ r.kind = "calls" /\ rounds' = rounds + 1
           /\ action' = r.calls /\ pc' = "calls" /\ ending' = ending
    <3>1. r.kind \in {"calls", "final"} /\ rounds \in Nat
      BY <2>1 DEF Batching, Typed, BudgetTyped
    <3> QED BY <1>6, <3>1 DEF Act
  <2>3. /\ r.kind = "final" => r.calls = <<>>
        /\ r.kind = "calls" => r.calls # <<>>
    BY <2>1, RepliesTyped, Assumed
  <2>4. rounds \in Nat /\ Len(history) \in Nat
    BY DEF Typed, BudgetTyped, PrefixTyped
  <2> HIDE DEF r
  <2> QED BY <2>1, <2>2, <2>3, <2>4 DEF Said, Batched, Calling, r
<1>7. CASE CheckCall
  BY <1>7, InterruptionTyped DEF CheckCall, Said, Batched, Calling, Typed, ControlTyped,
     ModelTyped, BudgetTyped, Blamed, Going
<1>8. CASE Execute
  BY <1>8, InterruptionTyped DEF Execute, Said, Batched, Calling, Typed, ControlTyped,
     ModelTyped, BudgetTyped, Blamed, Going
<1>9. CASE AwaitTool
  BY <1>9, InterruptionTyped DEF AwaitTool, Said, Batched, Calling, Typed, ControlTyped,
     ModelTyped, BudgetTyped, Blamed, Going
<1>10. CASE ReapTool
  BY <1>10, InterruptionTyped DEF ReapTool, Said, Batched, Calling, Typed, ControlTyped,
     ModelTyped, BudgetTyped, Blamed, Going
<1>11. CASE Observe
  <2>1. /\ UNCHANGED <<model, budget, history, action, verdict>> /\ pc = "observe" /\ ending' # "finalized"
        /\ pc' \in {"calls", "extend", "finish"}
    BY <1>11, InterruptionTyped DEF Observe, Blamed, Going
  <2> QED BY <2>1 DEF Said, Batched, Calling
<1>12. CASE Extend
  <2>1. /\ UNCHANGED <<model, budget, verdict>> /\ pc = "extend" /\ ending' # "finalized"
        /\ pc' \in {"loop", "finish"} /\ history' = Append(history, action) /\ action' = <<>>
        /\ action # <<>> /\ decisions > 0 /\ Len(model.replies) = decisions
    BY <1>12, Assumed DEF Extend, Batching, Blamed, Going, Counting
  <2>2. /\ Len(history') = Len(history) + 1 /\ Len(history) \in Nat
        /\ history'[Len(history) + 1] = action /\ \A i \in 1 .. Len(history) : history'[i] = history[i]
    BY <2>1 DEF Typed, PrefixTyped
  <2>3. decisions \in Nat /\ rounds \in Nat
    BY DEF Typed, BudgetTyped
  <2> QED BY <2>1, <2>2, <2>3 DEF Said, Batched, Calling
<1>13. CASE SignalStop
  BY <1>13, InterruptionTyped DEF SignalStop, Said, Batched, Calling, Typed, ControlTyped,
     ModelTyped, BudgetTyped, Blamed, Going
<1>14. CASE CloseModel
  <2>1. /\ model'.replies = model.replies /\ model'.asked = model.asked /\ pc = "close" /\ pc' = "verdict"
        /\ UNCHANGED <<ending, budget, prefix, final>>
    BY <1>14 DEF CloseModel, Typed, ModelTyped
  <2> QED BY <2>1 DEF Said, Batched, Calling
<1>15. CASE Conclude
  <2>1. /\ UNCHANGED <<model, budget, prefix, final>> /\ pc' \in {"finish", "returned"}
        /\ ending' = "finalized" => ending = "finalized"
    BY <1>15, InterruptionTyped DEF Conclude
  <2> QED BY <2>1 DEF Said, Batched, Calling
<1>16. CASE Raise
  BY <1>16, InterruptionTyped DEF Raise, Said, Batched, Calling, Typed, ControlTyped,
     ModelTyped, BudgetTyped, Blamed, Going
<1>17. CASE ModelTakes
  BY <1>17, InterruptionTyped DEF ModelTakes, Said, Batched, Calling, Typed, ControlTyped,
     ModelTyped, BudgetTyped, Blamed, Going
<1>18. CASE ModelReplies
  <2>1. PICK r \in Replies :
           /\ model'.replies = Append(model.replies, r) /\ Len(model'.replies) = Len(model.replies) + 1
           /\ \A i \in DOMAIN model.replies : i \in DOMAIN model'.replies /\ model'.replies[i] = model.replies[i]
    BY <1>18, RepliesKept
  <2>2. /\ UNCHANGED <<outside, inputs>> /\ model'.asked = model.asked
        /\ Len(model.replies) < model.took /\ model.took <= model.asked
    BY <1>18 DEF ModelReplies, Typed, ModelTyped, Counting
  <2>3. ending # "finalized"
    <3>1. Len(model.replies) \in Nat /\ model.took \in Nat /\ model.asked \in Nat
      BY DEF Typed, ModelTyped
    <3> QED BY <2>2, <3>1 DEF Said
  <2>4. pc \in Batched => decisions \in DOMAIN model.replies
    <3>1. pc \in Batched => Len(model.replies) = decisions /\ decisions > 0
      BY DEF Counting, Batched, Calling, Going
    <3> QED BY <3>1 DEF Typed, ModelTyped, BudgetTyped
  <2>5. Len(history) \in Nat /\ Len(model.replies) \in Nat /\ DOMAIN model.replies = 1 .. Len(model.replies)
    BY DEF Typed, ModelTyped, PrefixTyped
  <2> QED BY <2>1, <2>2, <2>3, <2>4, <2>5 DEF Said
<1>19. CASE ModelEnds
  BY <1>19, InterruptionTyped DEF ModelEnds, Said, Batched, Calling, Typed, ControlTyped,
     ModelTyped, BudgetTyped, Blamed, Going
<1>20. CASE ToolReplies
  BY <1>20, InterruptionTyped DEF ToolReplies, Said, Batched, Calling, Typed, ControlTyped,
     ModelTyped, BudgetTyped, Blamed, Going
<1>21. CASE ToolEnds
  BY <1>21, InterruptionTyped DEF ToolEnds, Said, Batched, Calling, Typed, ControlTyped,
     ModelTyped, BudgetTyped, Blamed, Going
<1>22. CASE ToolExpires
  BY <1>22, InterruptionTyped DEF ToolExpires, Said, Batched, Calling, Typed, ControlTyped,
     ModelTyped, BudgetTyped, Blamed, Going
<1>23. CASE Cancel
  BY <1>23, InterruptionTyped DEF Cancel, Said, Batched, Calling, Typed, ControlTyped,
     ModelTyped, BudgetTyped, Blamed, Going
<1>24. CASE Expire
  BY <1>24, InterruptionTyped DEF Expire, Said, Batched, Calling, Typed, ControlTyped,
     ModelTyped, BudgetTyped, Blamed, Going
<1>25. CASE UNCHANGED vars
  BY <1>25 DEF vars, Said, Batched, Calling, Typed, ControlTyped, ModelTyped, BudgetTyped,
     Blamed, Going
<1> QED BY <1>1, <1>2, <1>3, <1>4, <1>5, <1>6, <1>7, <1>8, <1>9, <1>10, <1>11, <1>12, <1>13,
   <1>14, <1>15, <1>16, <1>17, <1>18, <1>19, <1>20, <1>21, <1>22, <1>23, <1>24, <1>25
     DEF Next, Steps, Children, Terminated

----------------------------------------------------------------------------
(* The trace, its statuses blanked, is what the decisions say it is.       *)

Answered == SubSeq(action, 1, observed)

Told ==
  /\ pc = "start" => history = <<>>
  /\ pc = "loop" => Blanked = Spoken
  /\ pc = "waiting" => Blanked = Append(Spoken, Asked)
  /\ pc = "parsed" => Blanked = Spoken \o TurnOf(<<>>)
  /\ pc \in {"calls", "extend"} => Blanked = Spoken \o TurnOf(Answered)
  /\ pc \in Calling => Blanked = Append(Spoken \o TurnOf(Answered), Execution(Current))
  /\ ending = "finalized" /\ pc # "returned" => Blanked = Spoken \o TurnOf(<<>>)

\* A step that says nothing, and one after which nothing more is said.
LEMMA ToldSilently ==
  ASSUME Told, UNCHANGED <<trace, history, action, observed>>,
         pc' \in Quiet => pc = pc', pc' \in Calling => pc \in Calling,
         ending' = "finalized" /\ pc' # "returned" => ending = "finalized" /\ pc # "returned"
  PROVE  Told'
<1>1. Blanked' = Blanked /\ Spoken' = Spoken /\ Answered' = Answered /\ Current' = Current
  BY DEF Blanked, Spoken, Answered, Current
<1> QED BY <1>1 DEF Told, Quiet

LEMMA ToldOver ==
  ASSUME pc' \in Ending, ending' = "finalized" => pc' = "returned"
  PROVE  Told'
BY DEF Told, Ending, Calling

\* Blanked and Spoken are sequences, and an event is one more of them.
LEMMA ToldTyped ==
  ASSUME Typed, Tracing
  PROVE  /\ Blanked \in Seq(Happenings) /\ Turns(history) \in Seq(Happenings) /\ Spoken \in Seq(Happenings)
         /\ \A e \in Happenings : trace' = Append(trace, e) => Blanked' = Append(Blanked, Blank(e))
<1>1. trace \in Seq(Happenings) /\ history \in Seq(Seq(Calls))
  BY BatchesTyped DEF Tracing
<1>2. \A e \in Happenings : Blank(e) \in Happenings
  <2> TAKE e \in Happenings
  <2>1. CASE \E x \in Endings \cup {"received", "validated", "generating", "parsing"} : e = Event(x)
    BY <2>1, HappeningsAre
  <2>2. CASE \E c \in Calls : e = Execution(c)
    BY <2>2, HappeningsAre
  <2>3. CASE \E c \in Calls, s \in Statuses \cup {"any"} : e = Observation(c, s)
    BY <2>3, HappeningsAre
  <2> QED BY <2>1, <2>2, <2>3 DEF Happenings
<1>3. Blanked \in Seq(Happenings)
  <2>1. Len(trace) \in Nat /\ Blanked = [i \in 1 .. Len(trace) |-> Blank(trace[i])]
    BY <1>1 DEF Blanked
  <2>2. Blanked \in [1 .. Len(trace) -> Happenings]
    BY <1>1, <1>2, <2>1
  <2> QED BY <2>1, <2>2, FunctionIsSeq
<1>4. Turns(history) \in Seq(Happenings)
  <2>1. <<>> \in Seq(Calls)
    OBVIOUS
  <2> QED BY <1>1, <2>1, TurnsAppend
<1>5. Spoken \in Seq(Happenings)
  BY <1>4, SpokenTyped, ConcatProperties DEF Spoken
<1>6. ASSUME NEW e \in Happenings, trace' = Append(trace, e) PROVE Blanked' = Append(Blanked, Blank(e))
  BY <1>1, <1>6, BlankedAppend DEF Blanked
<1> QED BY <1>3, <1>4, <1>5, <1>6

\* A turn grows by a call and its answer.
LEMMA TurnGrows ==
  ASSUME NEW s \in Seq(Happenings), NEW b \in Seq(Calls), NEW c \in Calls
  PROVE  s \o TurnOf(Append(b, c)) = Append(Append(s \o TurnOf(b), Execution(c)), Observation(c, "any"))
<1> DEFINE two == <<Execution(c), Observation(c, "any")>>
<1>1. /\ <<Asked, Heard>> \in Seq(Happenings) /\ Pairs(b) \in Seq(Happenings) /\ TurnOf(b) \in Seq(Happenings)
      /\ two \in Seq(Happenings)
  BY SpokenTyped, PairsTyped
<1>2. TurnOf(Append(b, c)) = <<Asked, Heard>> \o (Pairs(b) \o two) /\ TurnOf(b) = <<Asked, Heard>> \o Pairs(b)
  BY PairsAppend DEF TurnOf
<1> HIDE DEF two
<1>3. TurnOf(Append(b, c)) = TurnOf(b) \o two
  BY <1>1, <1>2, ConcatAssociative
<1>4. s \o TurnOf(Append(b, c)) = (s \o TurnOf(b)) \o two
  BY <1>1, <1>3, ConcatAssociative
<1>5. s \o TurnOf(b) \in Seq(Happenings)
  BY <1>1, ConcatProperties
<1>6. Execution(c) \in Happenings /\ Observation(c, "any") \in Happenings
  BY HappeningsAre
<1>7. (s \o TurnOf(b)) \o two = Append(Append(s \o TurnOf(b), Execution(c)), Observation(c, "any"))
  BY <1>5, <1>6, ConcatTwo DEF two
<1> QED BY <1>4, <1>7

LEMMA ToldKept == ASSUME Typed, Counting, Batching, Blamed, Tracing, Told, [Next]_vars PROVE Told'
<1> USE DEF control, inputs, budget, prefix, tools, verdict, outside, Go, Finish, Emit
<1>1. CASE Receive
  <2>1. CASE pc' = "loop"
    <3>1. trace' = Opening /\ history' = <<>> /\ ending' # "finalized"
      BY <1>1, <2>1 DEF Receive, Told, Opening, Blamed, Going
    <3>2. Spoken' = Opening
      BY <3>1, PairsEmpty, SpokenTyped, ConcatEmptySeq DEF Spoken
    <3>3. Blanked' = Opening
      <4>1. Blank(Event("received")) = Event("received") /\ Blank(Event("validated")) = Event("validated")
        BY HappeningsAre
      <4>2. Blanked' = [i \in DOMAIN Opening |-> Blank(Opening[i])]
        BY <3>1 DEF Blanked
      <4>3. DOMAIN Opening = 1 .. 2 /\ Opening[1] = Event("received") /\ Opening[2] = Event("validated")
        BY DEF Opening
      <4>4. Blanked' = [i \in 1 .. 2 |-> Opening[i]]
        BY <4>1, <4>2, <4>3
      <4> QED BY <4>4 DEF Opening
    <3> QED BY <2>1, <3>1, <3>2, <3>3 DEF Told, Calling
  <2>2. CASE pc' # "loop"
    BY <1>1, <2>2, ToldOver DEF Receive, Ending
  <2> QED BY <2>1, <2>2
<1>2. CASE Ask
  <2>1. CASE pc' = "waiting"
    <3>1. trace' = Append(trace, Asked) /\ pc = "loop" /\ ending' # "finalized" /\ history' = history
      BY <1>2, <2>1 DEF Ask, Asked, Blamed, Going
    <3>2. Blanked' = Append(Blanked, Asked)
      <4>1. Asked \in Happenings /\ Blank(Asked) = Asked
        BY HappeningsAre DEF Asked
      <4> QED BY <3>1, <4>1, ToldTyped
    <3>3. Spoken' = Spoken /\ Blanked = Spoken
      BY <3>1 DEF Spoken, Told
    <3> QED BY <2>1, <3>1, <3>2, <3>3 DEF Told, Calling
  <2>2. CASE pc' # "waiting"
    BY <1>2, <2>2, ToldOver DEF Ask, Ending
  <2> QED BY <2>1, <2>2
<1>3. CASE Leave
  BY <1>3, ToldOver, InterruptionTyped DEF Leave, Ending
<1>4. CASE NoReply
  BY <1>4, ToldOver, InterruptionTyped DEF NoReply, Ending
<1>5. CASE TakeReply
  <2>1. CASE pc' = "parsed"
    <3>1. trace' = Append(trace, Heard) /\ pc = "waiting" /\ ending' # "finalized" /\ history' = history
      BY <1>5, <2>1 DEF TakeReply, Heard, Blamed, Going, Output, Refusals, RefusedBy
    <3>2. Blanked' = Append(Blanked, Heard)
      <4>1. Heard \in Happenings /\ Blank(Heard) = Heard
        BY HappeningsAre DEF Heard
      <4> QED BY <3>1, <4>1, ToldTyped
    <3>3. Spoken' = Spoken /\ Blanked = Append(Spoken, Asked)
      BY <3>1 DEF Spoken, Told
    <3>4. Spoken \o TurnOf(<<>>) = Append(Append(Spoken, Asked), Heard)
      <4>1. Spoken \in Seq(Happenings) /\ Asked \in Happenings /\ Heard \in Happenings
        BY ToldTyped, SpokenTyped
      <4>2. Spoken \o <<Asked, Heard>> = Append(Append(Spoken, Asked), Heard)
        BY <4>1, ConcatTwo
      <4> QED BY <4>2, PairsEmpty
    <3> QED BY <2>1, <3>1, <3>2, <3>3, <3>4 DEF Told, Calling
  <2>2. CASE pc' # "parsed"
    <3>1. pc' = "finish" /\ ending' # "finalized"
      BY <1>5, <2>2, ReplyTaken, RepliesTyped DEF TakeReply
    <3> QED BY <3>1, ToldOver DEF Ending
  <2> QED BY <2>1, <2>2
<1>6. CASE Act
  <2>1. /\ pc = "parsed" /\ pc' \in {"finish", "calls"} /\ UNCHANGED <<trace, history, observed>> /\ observed = 0
        /\ pc' = "calls" => action' \in Seq(Calls) /\ ending' # "finalized"
    BY <1>6, ReplyTaken, RepliesTyped, BatchesTyped DEF Act, Batching, Blamed, Going
  <2>2. Blanked' = Blanked /\ Spoken' = Spoken /\ Blanked = Spoken \o TurnOf(<<>>)
    BY <2>1 DEF Blanked, Spoken, Told
  <2>3. pc' = "calls" => Answered' = <<>>
    BY <2>1 DEF Answered
  <2> QED BY <2>1, <2>2, <2>3 DEF Told, Calling
<1>7. CASE CheckCall
  <2>1. CASE pc' = "execute"
    <3>1. /\ trace' = Append(trace, Execution(Current)) /\ pc = "calls" /\ ending' # "finalized"
          /\ UNCHANGED <<history, action, observed>>
      BY <1>7, <2>1 DEF CheckCall, Blamed, Going
    <3>2. Blanked' = Append(Blanked, Execution(Current))
      <4>1. Current \in Calls
        BY <3>1, CurrentTyped
      <4> QED BY <3>1, <4>1, HappeningsAre, ToldTyped
    <3>3. /\ Spoken' = Spoken /\ Answered' = Answered /\ Current' = Current
          /\ Blanked = Spoken \o TurnOf(Answered)
      BY <3>1 DEF Spoken, Answered, Current, Told
    <3> QED BY <2>1, <3>1, <3>2, <3>3 DEF Told, Calling
  <2>2. CASE pc' # "execute"
    BY <1>7, <2>2, ToldOver DEF CheckCall, Ending
  <2> QED BY <2>1, <2>2
<1>8. CASE Execute
  BY <1>8, ToldSilently DEF Execute, Quiet, Calling
<1>9. CASE AwaitTool
  BY <1>9, ToldSilently DEF AwaitTool, Quiet, Calling
<1>10. CASE ReapTool
  <2>1. CASE pc' = "finish"
    BY <1>10, <2>1, ToldOver DEF ReapTool, Ending
  <2>2. CASE pc' # "finish"
    BY <1>10, <2>2, ToldSilently DEF ReapTool, Quiet, Calling
  <2> QED BY <2>1, <2>2
<1>11. CASE Observe
  <2>1. CASE pc' \in {"calls", "extend"}
    <3>1. /\ trace' = Append(trace, Observation(Current, result.status)) /\ pc = "observe" /\ ending' # "finalized"
          /\ observed' = observed + 1 /\ UNCHANGED <<history, action>>
      BY <1>11, <2>1 DEF Observe, Blamed, Going
    <3>2. Current \in Calls /\ result.status \in Statuses
      BY <3>1, CurrentTyped DEF Typed, ToolTyped, Results
    <3>3. Blanked' = Append(Blanked, Observation(Current, "any"))
      BY <3>1, <3>2, HappeningsAre, ToldTyped
    <3>4. Spoken' = Spoken /\ Blanked = Append(Spoken \o TurnOf(Answered), Execution(Current))
      BY <3>1 DEF Spoken, Told, Calling
    <3>5. Answered' = Append(Answered, Current) /\ Answered \in Seq(Calls)
      <4>1. observed \in Nat /\ observed < Len(action) /\ action \in Seq(Calls)
        BY <3>1, BatchesTyped DEF Batching, Typed, PrefixTyped
      <4> QED BY <3>1, <4>1 DEF Answered, Current
    <3>6. Spoken \in Seq(Happenings)
      BY ToldTyped
    <3>7. Spoken \o TurnOf(Append(Answered, Current)) =
            Append(Append(Spoken \o TurnOf(Answered), Execution(Current)), Observation(Current, "any"))
      BY <3>2, <3>5, <3>6, TurnGrows
    <3> QED BY <2>1, <3>1, <3>3, <3>4, <3>5, <3>7 DEF Told, Calling
  <2>2. CASE pc' \notin {"calls", "extend"}
    BY <1>11, <2>2, ToldOver, InterruptionTyped DEF Observe, Ending
  <2> QED BY <2>1, <2>2
<1>12. CASE Extend
  <2>1. CASE pc' = "loop"
    <3>1. /\ pc = "extend" /\ ending' # "finalized" /\ UNCHANGED trace
          /\ history' = Append(history, action) /\ observed = Len(action)
      BY <1>12, <2>1 DEF Extend, Blamed, Going, Batching
    <3>2. history \in Seq(Seq(Calls)) /\ action \in Seq(Calls)
      BY BatchesTyped
    <3>3. Blanked' = Blanked /\ Blanked = Spoken \o TurnOf(Answered) /\ Answered = action
      <4>1. SubSeq(action, 1, Len(action)) = action
        BY <3>2
      <4>2. Blanked' = Blanked /\ Blanked = Spoken \o TurnOf(Answered)
        BY <3>1 DEF Blanked, Told
      <4> QED BY <3>1, <4>1, <4>2 DEF Answered
    <3>4. Spoken' = Opening \o (Turns(history) \o TurnOf(action))
      BY <3>1, <3>2, TurnsAppend DEF Spoken
    <3>5. Opening \o (Turns(history) \o TurnOf(action)) = Spoken \o TurnOf(action)
      <4>1. Opening \in Seq(Happenings) /\ Turns(history) \in Seq(Happenings) /\ TurnOf(action) \in Seq(Happenings)
        BY <3>2, SpokenTyped, TurnsAppend
      <4> QED BY <4>1, ConcatAssociative DEF Spoken
    <3> QED BY <2>1, <3>1, <3>3, <3>4, <3>5 DEF Told, Calling
  <2>2. CASE pc' # "loop"
    BY <1>12, <2>2, ToldOver DEF Extend, Ending
  <2> QED BY <2>1, <2>2
<1>13. CASE SignalStop
  BY <1>13, ToldSilently DEF SignalStop, Quiet, Calling
<1>14. CASE CloseModel
  BY <1>14, ToldSilently DEF CloseModel, Quiet, Calling
<1>15. CASE Conclude
  <2>1. pc' = "returned" \/ (pc' = "finish" /\ ending' = "rejected")
    BY <1>15 DEF Conclude
  <2> QED BY <2>1, ToldOver DEF Ending
<1>16. CASE Raise
  BY <1>16, ToldSilently DEF Raise, Quiet, Calling
<1>17. CASE ModelTakes
  BY <1>17, ToldSilently DEF ModelTakes, Quiet, Calling
<1>18. CASE ModelReplies
  BY <1>18, ToldSilently DEF ModelReplies, Quiet, Calling
<1>19. CASE ModelEnds
  BY <1>19, ToldSilently DEF ModelEnds, Quiet, Calling
<1>20. CASE ToolReplies
  BY <1>20, ToldSilently DEF ToolReplies, Quiet, Calling
<1>21. CASE ToolEnds
  BY <1>21, ToldSilently DEF ToolEnds, Quiet, Calling
<1>22. CASE ToolExpires
  BY <1>22, ToldSilently DEF ToolExpires, Quiet, Calling
<1>23. CASE Cancel
  BY <1>23, ToldSilently DEF Cancel, Quiet, Calling
<1>24. CASE Expire
  BY <1>24, ToldSilently DEF Expire, Quiet, Calling
<1>25. CASE UNCHANGED vars
  BY <1>25, ToldSilently DEF vars
<1> QED BY <1>1, <1>2, <1>3, <1>4, <1>5, <1>6, <1>7, <1>8, <1>9, <1>10, <1>11, <1>12, <1>13,
   <1>14, <1>15, <1>16, <1>17, <1>18, <1>19, <1>20, <1>21, <1>22, <1>23, <1>24, <1>25
     DEF Next, Steps, Children, Terminated

----------------------------------------------------------------------------
(* A run that succeeds is judged legal, decision by decision.              *)

\* a begins b.
Begins(a, b) == Len(a) <= Len(b) /\ \A m \in 1 .. Len(a) : a[m] = b[m]

LEMMA BeginsIsPrefix ==
  ASSUME NEW S, NEW a \in Seq(S), NEW b \in Seq(S), Begins(a, b)
  PROVE  IsPrefix(a, b)
<1>1. Len(a) \in Nat /\ Len(b) \in Nat /\ Len(a) <= Len(b) /\ \A m \in 1 .. Len(a) : a[m] = b[m] /\ b[m] \in S
  BY DEF Begins
<1>2. SubSeq(a, 1, Len(a)) = a
  BY SubSeqFull
<1>3. /\ SubSeq(b, 1, Len(a)) \in Seq(S) /\ Len(SubSeq(b, 1, Len(a))) = Len(a)
      /\ \A m \in 1 .. Len(a) : SubSeq(b, 1, Len(a))[m] = b[m]
  BY <1>1
<1>4. a = SubSeq(b, 1, Len(a))
  BY <1>1, <1>3, SeqEqual
<1> QED BY <1>1, <1>2, <1>4 DEF IsPrefix

LEMMA BeginsConcat ==
  ASSUME NEW S, NEW a \in Seq(S), NEW b \in Seq(S), NEW c \in Seq(S), Begins(a, b)
  PROVE  Begins(a, b \o c)
<1>1. /\ Len(b \o c) = Len(b) + Len(c) /\ Len(a) \in Nat /\ Len(b) \in Nat /\ Len(c) \in Nat
      /\ \A m \in 1 .. Len(b) : (b \o c)[m] = b[m]
  OBVIOUS
<1>2. Len(a) <= Len(b) /\ \A m \in 1 .. Len(a) : a[m] = b[m] /\ m \in 1 .. Len(b)
  BY <1>1 DEF Begins
<1> QED BY <1>1, <1>2 DEF Begins

\* The first k parts begin the whole, and part k + 1 follows them.
LEMMA FlatPrefix ==
  ASSUME NEW T, NEW h \in Seq(Seq(T)), NEW k \in Nat, k < Len(h)
  PROVE  LET f == FlattenSeq(SubSeq(h, 1, k))
         IN /\ f \in Seq(T) /\ Len(f) + Len(h[k + 1]) <= Len(FlattenSeq(h))
            /\ \A m \in 1 .. Len(f) : f[m] = FlattenSeq(h)[m]
            /\ \A j \in 1 .. Len(h[k + 1]) : FlattenSeq(h)[Len(f) + j] = h[k + 1][j]
<1> DEFINE F(n) == FlattenSeq(SubSeq(h, 1, n))
           S == {n \in Nat : k + 1 + n <= Len(h) => Begins(F(k + 1), F(k + 1 + n))}
<1>1. Len(h) \in Nat /\ \A n \in 1 .. Len(h) : h[n] \in Seq(T)
  OBVIOUS
<1>2. ASSUME NEW n \in Nat, n <= Len(h) PROVE F(n) \in Seq(T)
  <2>1. SubSeq(h, 1, n) \in Seq(Seq(T))
    BY <1>2
  <2> QED BY <2>1, FlatTyped
<1>3. ASSUME NEW n \in Nat, n < Len(h) PROVE F(n + 1) = F(n) \o h[n + 1]
  <2>1. SubSeq(h, 1, n + 1) = Append(SubSeq(h, 1, n), h[n + 1])
    BY <1>3
  <2>2. SubSeq(h, 1, n) \in Seq(Seq(T)) /\ h[n + 1] \in Seq(T)
    BY <1>3
  <2> QED BY <2>1, <2>2, FlatAppend
<1>4. F(Len(h)) = FlattenSeq(h)
  BY SubSeqFull
<1> HIDE DEF F
<1>5. 0 \in S
  BY <1>1 DEF Begins
<1>6. ASSUME NEW n \in Nat, n \in S PROVE n + 1 \in S
  <2> SUFFICES ASSUME k + 1 + (n + 1) <= Len(h) PROVE Begins(F(k + 1), F(k + 1 + (n + 1)))
    OBVIOUS
  <2> DEFINE l == k + 1 + n
  <2>1. l \in Nat /\ l < Len(h) /\ k + 1 <= Len(h) /\ k + 1 \in Nat /\ l + 1 = k + 1 + (n + 1) /\ l + 1 \in 1 .. Len(h)
    BY <1>1
  <2>2. Begins(F(k + 1), F(l))
    BY <1>1, <1>6
  <2> HIDE DEF l
  <2>3. F(l + 1) = F(l) \o h[l + 1] /\ F(l) \in Seq(T) /\ F(k + 1) \in Seq(T) /\ h[l + 1] \in Seq(T)
    <3>1. F(l) \in Seq(T) /\ F(k + 1) \in Seq(T)
      BY <1>1, <1>2, <2>1
    <3>2. F(l + 1) = F(l) \o h[l + 1]
      BY <1>3, <2>1
    <3> QED BY <1>1, <2>1, <3>1, <3>2
  <2>4. Begins(F(k + 1), F(l + 1))
    BY <2>2, <2>3, BeginsConcat
  <2> QED BY <2>1, <2>4
<1>7. Begins(F(k + 1), F(Len(h)))
  <2>1. \A n \in Nat : n \in S
    <3> HIDE DEF S
    <3> QED BY <1>5, <1>6, Induction
  <2> DEFINE n == Len(h) - (k + 1)
  <2>2. n \in Nat /\ k + 1 + n = Len(h)
    BY <1>1
  <2>3. n \in S
    BY <2>1, <2>2
  <2>4. Begins(F(k + 1), F(k + 1 + n))
    <3> HIDE DEF n
    <3> QED BY <1>1, <2>2, <2>3
  <2> QED BY <2>2, <2>4
<1>8. F(k + 1) = F(k) \o h[k + 1] /\ F(k) \in Seq(T) /\ h[k + 1] \in Seq(T)
  <2>1. k <= Len(h) /\ k + 1 \in 1 .. Len(h)
    BY <1>1
  <2> QED BY <1>1, <1>2, <1>3, <2>1
<1>9. /\ Len(F(k + 1)) = Len(F(k)) + Len(h[k + 1])
      /\ \A m \in 1 .. Len(F(k)) : F(k + 1)[m] = F(k)[m] /\ m \in 1 .. Len(F(k + 1))
      /\ \A j \in 1 .. Len(h[k + 1]) : F(k + 1)[Len(F(k)) + j] = h[k + 1][j] /\ Len(F(k)) + j \in 1 .. Len(F(k + 1))
  BY <1>8
<1>10. /\ F(k) \in Seq(T) /\ Len(F(k)) + Len(h[k + 1]) <= Len(F(Len(h)))
       /\ \A m \in 1 .. Len(F(k)) : F(k)[m] = F(Len(h))[m]
       /\ \A j \in 1 .. Len(h[k + 1]) : F(Len(h))[Len(F(k)) + j] = h[k + 1][j]
  BY <1>7, <1>8, <1>9 DEF Begins
<1> QED BY <1>4, <1>10 DEF F

\* What was run is the tools of the calls.
LEMMA ActualIs ==
  ASSUME NEW steps \in Seq(Happenings), ~Pending(steps)
  PROVE  /\ Len(Actual(steps)) = Len(CallsIn(steps)) /\ Len(Actual(steps)) \in Nat
         /\ DOMAIN Actual(steps) = 1 .. Len(Actual(steps))
         /\ \A m \in 1 .. Len(Actual(steps)) : Actual(steps)[m][1] = ToolOf[CallsIn(steps)[m]]
<1>1. PICK n \in Nat : Len(steps) = 2 * n
  BY DEF Pending
<1>2. (Len(steps) + 1) \div 2 = n /\ Len(steps) \div 2 = n
  BY <1>1
<1>3. /\ Actual(steps) = [i \in 1 .. n |-> <<ToolOf[steps[2 * i - 1].call], steps[2 * i].status>>]
      /\ CallsIn(steps) = [i \in 1 .. n |-> steps[2 * i - 1].call]
  BY <1>2 DEF Actual, CallsIn
<1> QED BY <1>3

\* The conversation of a run that the oracle scores a success.
Succeeds(events, h, replies, tr) ==
  /\ ToolEvents(events) \in Seq(Happenings) /\ ~Pending(ToolEvents(events))
  /\ h \in Seq(Seq(Calls)) /\ CallsIn(ToolEvents(events)) = FlattenSeq(h)
  /\ replies \in Seq(Replies) /\ Len(replies) = Len(h) + 1
  /\ \A i \in 1 .. Len(h) : replies[i].kind = "calls" /\ replies[i].calls = h[i]
  /\ replies[Len(h) + 1].kind = "final" /\ replies[Len(h) + 1].final \in tr.answers
  /\ Actual(ToolEvents(events)) \in tr.strategies

LEMMA Legal ==
  ASSUME NEW events, NEW h, NEW replies, NEW tr, Succeeds(events, h, replies, tr), NEW i \in 1 .. Len(h) + 1
  PROVE  DecisionVerdict(tr, Before(events, replies, i), replies[i]) = "legal"
<1> DEFINE steps == ToolEvents(events)
<1>0. /\ steps \in Seq(Happenings) /\ ~Pending(steps) /\ h \in Seq(Seq(Calls)) /\ CallsIn(steps) = FlattenSeq(h)
      /\ replies \in Seq(Replies) /\ Len(replies) = Len(h) + 1
      /\ \A j \in 1 .. Len(h) : replies[j].kind = "calls" /\ replies[j].calls = h[j]
      /\ replies[Len(h) + 1].kind = "final" /\ replies[Len(h) + 1].final \in tr.answers
      /\ Actual(steps) \in tr.strategies /\ ToolEvents(events) = steps
  BY DEF Succeeds
<1> HIDE DEF steps
<1> DEFINE A == Actual(steps)
           N == Len(A)
           w == FlattenSeq(h)
           f == FlattenSeq(SubSeq(h, 1, i - 1))
           obs == SubSeq(A, 1, Len(f))
           P == {A[m] : m \in 1 .. N}
           T == {ToolOf[c] : c \in Calls}
<1>1. /\ Len(h) \in Nat /\ w \in Seq(Calls) /\ N = Len(w) /\ N \in Nat /\ DOMAIN A = 1 .. N
      /\ \A m \in 1 .. N : A[m][1] = ToolOf[w[m]]
  BY <1>0, FlatTyped, ActualIs
<1>2. Before(events, replies, i) = obs
  <2>1. \A j \in 1 .. i - 1 : replies[j].calls = h[j]
    BY <1>0, <1>1
  <2>2. [j \in 1 .. i - 1 |-> replies[j].calls] = [j \in 1 .. i - 1 |-> h[j]]
    BY <2>1
  <2>3. SubSeq(h, 1, i - 1) = [j \in 1 .. i - 1 |-> h[j]]
    BY <1>0, <1>1
  <2> QED BY <1>0, <2>2, <2>3 DEF Before
<1>3. /\ f \in Seq(Calls) /\ Len(f) \in Nat /\ Len(f) <= N
      /\ \A m \in 1 .. Len(f) : f[m] = w[m]
      /\ i <= Len(h) => /\ Len(f) + Len(h[i]) <= N
                        /\ \A j \in 1 .. Len(h[i]) : w[Len(f) + j] = h[i][j]
      /\ i = Len(h) + 1 => f = w
  <2>1. CASE i <= Len(h)
    <3>1. i - 1 \in Nat /\ i - 1 < Len(h) /\ (i - 1) + 1 = i /\ i \in 1 .. Len(h)
      BY <1>1, <2>1
    <3>2. /\ f \in Seq(Calls) /\ Len(f) + Len(h[i]) <= Len(w) /\ \A m \in 1 .. Len(f) : f[m] = w[m]
          /\ \A j \in 1 .. Len(h[i]) : w[Len(f) + j] = h[i][j]
      <4> DEFINE k == i - 1
      <4>1. k \in Nat /\ k < Len(h) /\ k + 1 = i
        BY <3>1
      <4>2. f = FlattenSeq(SubSeq(h, 1, k))
        OBVIOUS
      <4> HIDE DEF k, f, w
      <4>3. /\ FlattenSeq(SubSeq(h, 1, k)) \in Seq(Calls)
            /\ Len(FlattenSeq(SubSeq(h, 1, k))) + Len(h[k + 1]) <= Len(FlattenSeq(h))
            /\ \A m \in 1 .. Len(FlattenSeq(SubSeq(h, 1, k))) : FlattenSeq(SubSeq(h, 1, k))[m] = FlattenSeq(h)[m]
            /\ \A j \in 1 .. Len(h[k + 1]) :
                 FlattenSeq(h)[Len(FlattenSeq(SubSeq(h, 1, k))) + j] = h[k + 1][j]
        BY <1>0, <4>1, FlatPrefix
      <4> QED BY <4>1, <4>2, <4>3 DEF w
    <3> HIDE DEF f, w
    <3>3. Len(f) \in Nat /\ Len(h[i]) \in Nat
      <4>1. h[i] \in Seq(Calls)
        BY <1>0, <3>1
      <4> QED BY <3>2, <4>1
    <3> QED BY <1>1, <2>1, <3>2, <3>3
  <2>2. CASE i = Len(h) + 1
    <3>1. f = w
      <4>1. i - 1 = Len(h) /\ SubSeq(h, 1, Len(h)) = h
        BY <1>0, <1>1, <2>2, SubSeqFull
      <4> QED BY <4>1
    <3> HIDE DEF f, w
    <3> QED BY <1>1, <2>2, <3>1
  <2>3. i <= Len(h) \/ i = Len(h) + 1
    BY <1>1
  <2> HIDE DEF w, f
  <2> QED BY <2>1, <2>2, <2>3
<1> HIDE DEF w, f
<1>4. A \in Seq(P) /\ obs \in Seq(P) /\ Len(obs) = Len(f) /\ \A m \in 1 .. Len(f) : obs[m] = A[m]
  <2>1. A \in [1 .. N -> P]
    <3>1. A = [m \in 1 .. N |-> A[m]]
      BY <1>1 DEF Actual
    <3> HIDE DEF A, N
    <3> QED BY <3>1 DEF P
  <2> HIDE DEF A, N, P
  <2>2. A \in Seq(P)
    BY <1>1, <2>1, FunctionIsSeq
  <2>3. Len(A) = N
    BY DEF N
  <2> QED BY <1>1, <1>3, <2>2, <2>3
<1>5. Tools(obs) \in Seq(T) /\ Tools(A) \in Seq(T) /\ Len(Tools(obs)) = Len(f) /\ Len(Tools(A)) = N
      /\ (\A m \in 1 .. Len(f) : Tools(obs)[m] = Tools(A)[m]) /\ \A m \in 1 .. N : Tools(A)[m] = ToolOf[w[m]]
  <2>1. \A m \in 1 .. N : A[m][1] \in T
    <3>1. \A m \in 1 .. N : w[m] \in Calls
      BY <1>1
    <3> QED BY <1>1, <3>1
  <2> HIDE DEF A, N, P, T, obs
  <2>2. DOMAIN obs = 1 .. Len(f) /\ DOMAIN A = 1 .. N
    BY <1>1, <1>4
  <2>3. Tools(A) = [m \in 1 .. N |-> A[m][1]] /\ Tools(obs) = [m \in 1 .. Len(f) |-> A[m][1]]
    BY <1>4, <2>2 DEF Tools
  <2>4. Tools(A) \in [1 .. N -> T] /\ Tools(obs) \in [1 .. Len(f) -> T]
    BY <1>1, <1>3, <2>1, <2>3
  <2>5. Tools(A) \in Seq(T) /\ Tools(obs) \in Seq(T)
    BY <1>1, <1>3, <2>4, FunctionIsSeq
  <2>6. Len(Tools(A)) = N /\ Len(Tools(obs)) = Len(f)
    BY <1>1, <1>3, <2>3
  <2> QED BY <1>1, <1>3, <2>3, <2>5, <2>6
<1>6. IsPrefix(obs, A)
  <2>1. Begins(obs, A)
    BY <1>3, <1>4 DEF Begins
  <2> HIDE DEF A, N, P, obs
  <2> QED BY <1>4, <2>1, BeginsIsPrefix
<1> HIDE DEF A, N, P, T, obs
<1>7. ASSUME i <= Len(h)
      PROVE  IsPrefix(Tools(obs) \o [j \in DOMAIN replies[i].calls |-> ToolOf[replies[i].calls[j]]], Tools(A))
  <2> DEFINE b == h[i]
             c == [j \in DOMAIN b |-> ToolOf[b[j]]]
  <2>1. replies[i].calls = b /\ b \in Seq(Calls)
    BY <1>0, <1>1, <1>7
  <2>2. c \in Seq(T) /\ Len(c) = Len(b) /\ Len(b) \in Nat /\ \A j \in 1 .. Len(b) : c[j] = ToolOf[b[j]]
    <3>1. \A j \in 1 .. Len(b) : ToolOf[b[j]] \in T
      BY <2>1 DEF T
    <3>2. Len(b) \in Nat /\ DOMAIN b = 1 .. Len(b)
      BY <2>1
    <3> HIDE DEF b
    <3>3. c = [j \in 1 .. Len(b) |-> ToolOf[b[j]]]
      BY <3>2
    <3>4. c \in [1 .. Len(b) -> T]
      BY <3>1, <3>3
    <3> HIDE DEF c
    <3> QED BY <3>2, <3>3, <3>4, FunctionIsSeq
  <2>3. Len(f) + Len(b) <= N /\ \A j \in 1 .. Len(b) : w[Len(f) + j] = b[j]
    BY <1>3, <1>7
  <2> HIDE DEF b, c
  <2>4. /\ Tools(obs) \o c \in Seq(T) /\ Len(Tools(obs) \o c) = Len(f) + Len(b)
        /\ \A m \in 1 .. Len(f) + Len(b) :
             (Tools(obs) \o c)[m] = IF m <= Len(f) THEN Tools(obs)[m] ELSE c[m - Len(f)]
    <3>1. Tools(obs) \in Seq(T) /\ c \in Seq(T)
      BY <1>5, <2>2
    <3> HIDE DEF T
    <3>2. /\ Tools(obs) \o c \in Seq(T) /\ Len(Tools(obs) \o c) = Len(Tools(obs)) + Len(c)
          /\ \A m \in 1 .. Len(Tools(obs)) + Len(c) :
               (Tools(obs) \o c)[m] = IF m <= Len(Tools(obs)) THEN Tools(obs)[m] ELSE c[m - Len(Tools(obs))]
      BY <3>1, ConcatProperties
    <3> QED BY <1>5, <2>2, <3>2
  <2>5. ASSUME NEW m \in 1 .. Len(f) + Len(b) PROVE (Tools(obs) \o c)[m] = Tools(A)[m]
    <3>1. CASE m <= Len(f)
      BY <1>3, <1>5, <2>4, <3>1
    <3>2. CASE ~(m <= Len(f))
      <4>1. m - Len(f) \in 1 .. Len(b) /\ Len(f) + (m - Len(f)) = m /\ m \in 1 .. N
        BY <1>1, <1>3, <2>2, <2>3, <3>2
      <4>2. c[m - Len(f)] = ToolOf[b[m - Len(f)]] /\ w[m] = b[m - Len(f)]
        BY <2>2, <2>3, <4>1
      <4> QED BY <1>5, <2>4, <3>2, <4>1, <4>2
    <3> QED BY <3>1, <3>2
  <2>6. Begins(Tools(obs) \o c, Tools(A))
    BY <1>5, <2>3, <2>4, <2>5 DEF Begins
  <2>7. IsPrefix(Tools(obs) \o c, Tools(A))
    BY <1>5, <2>4, <2>6, BeginsIsPrefix
  <2> QED BY <2>1, <2>7 DEF c
<1>8. A \in tr.strategies
  BY <1>0 DEF A
<1>9. Continues(tr, obs, replies[i])
  <2>1. CASE i <= Len(h)
    <3>1. replies[i].kind = "calls"
      BY <1>0, <1>1, <2>1
    <3> QED BY <1>6, <1>7, <1>8, <2>1, <3>1 DEF Continues
  <2>2. CASE i = Len(h) + 1
    <3>1. obs = A
      <4>1. Len(f) = N /\ Len(A) = N
        BY <1>1, <1>3, <2>2 DEF N
      <4>2. obs = SubSeq(A, 1, Len(A))
        BY <4>1 DEF obs
      <4> QED BY <1>4, <4>2, SubSeqFull
    <3>2. replies[i].kind # "calls" /\ replies[i].final \in tr.answers
      BY <1>0, <2>2
    <3> QED BY <1>6, <1>8, <3>1, <3>2 DEF Continues
  <2> QED BY <1>1, <2>1, <2>2
<1> QED BY <1>2, <1>6, <1>8, <1>9 DEF DecisionVerdict

\* A finalized run has told the whole conversation, final action included.
LEMMA WholeTrace ==
  ASSUME Typed, Tracing, Said, Told, ending = "finalized", pc # "returned",
         NEW t, t = Append(trace, Event("finalized")), complete
  PROVE  Verified(t, model.replies, complete)
<1> DEFINE n == Len(model.replies)
           e == Event("finalized")
           h == Append(history, <<>>)
<1>1. /\ n = Len(history) + 1 /\ Len(history) \in Nat /\ history \in Seq(Seq(Calls)) /\ DOMAIN model.replies = 1 .. n
      /\ \A i \in 1 .. Len(history) : model.replies[i].kind = "calls" /\ model.replies[i].calls = history[i]
      /\ model.replies[n].kind = "final" /\ model.replies[n].calls = <<>>
  BY BatchesTyped DEF Said, Typed, ModelTyped, PrefixTyped
<1>2. complete /\ model.replies # <<>>
      /\ \A i \in DOMAIN model.replies : model.replies[i].kind = IF i = n THEN "final" ELSE "calls"
  <2>1. n # 0
    BY <1>1
  <2> HIDE DEF n
  <2>2. \A i \in 1 .. n : i = n \/ i \in 1 .. Len(history)
    BY <1>1
  <2>3. model.replies # <<>>
    BY <2>1 DEF n
  <2> QED BY <1>1, <2>2, <2>3
<1>3. \A i \in DOMAIN model.replies : EventsOf(model.replies[i]) = TurnOf(model.replies[i].calls)
  BY DEF EventsOf, TurnOf, Pairs, Asked, Heard
<1>4. [i \in DOMAIN model.replies |-> EventsOf(model.replies[i])] = [i \in DOMAIN h |-> TurnOf(h[i])]
  <2>1. DOMAIN h = 1 .. n /\ \A i \in 1 .. n : h[i] = model.replies[i].calls
    BY <1>1
  <2> HIDE DEF h, n
  <2> QED BY <1>1, <1>3, <2>1
<1>5. FlattenSeq([i \in DOMAIN model.replies |-> EventsOf(model.replies[i])]) = Turns(history) \o TurnOf(<<>>)
  <2>1. <<>> \in Seq(Calls)
    OBVIOUS
  <2>2. Turns(h) = Turns(history) \o TurnOf(<<>>)
    BY <1>1, <2>1, TurnsAppend
  <2> QED BY <1>4, <2>2 DEF Turns
<1>6. Opening \o (Turns(history) \o TurnOf(<<>>)) = Spoken \o TurnOf(<<>>)
      /\ Spoken \o TurnOf(<<>>) \in Seq(Happenings)
  <2>1. Opening \in Seq(Happenings) /\ Turns(history) \in Seq(Happenings) /\ TurnOf(<<>>) \in Seq(Happenings)
    BY SpokenTyped, PairsEmpty, ToldTyped
  <2> QED BY <2>1, ConcatAssociative, ConcatProperties DEF Spoken
<1>7. [i \in DOMAIN t |-> Blank(t[i])] = Append(Spoken \o TurnOf(<<>>), e)
  <2>1. e \in Happenings /\ Blank(e) = e
    BY HappeningsAre DEF Endings
  <2>2. trace \in Seq(Happenings) /\ Blanked = Spoken \o TurnOf(<<>>)
    BY DEF Tracing, Told
  <2> HIDE DEF e
  <2>3. [i \in DOMAIN Append(trace, e) |-> Blank(Append(trace, e)[i])] = Append(Blanked, Blank(e))
    BY <2>1, <2>2, BlankedAppend DEF Blanked
  <2> QED BY <2>1, <2>2, <2>3 DEF e
<1>8. Append(Spoken \o TurnOf(<<>>), e) = (Spoken \o TurnOf(<<>>)) \o <<e>>
  <2>1. e \in Happenings
    BY HappeningsAre DEF Endings
  <2> HIDE DEF e
  <2> QED BY <1>6, <2>1, AppendIsConcat
<1> QED BY <1>2, <1>5, <1>6, <1>7, <1>8 DEF Verified, Opening

\* A score that is there is of what is still there.
LEMMA ScoredOnce ==
  ASSUME Typed, Counting, Remains, Said, [Next]_vars, score' = "success", ~Conclude
  PROVE  score = "success" /\ UNCHANGED <<trace, complete, truth>> /\ model'.replies = model.replies
<1> USE DEF control, inputs, budget, prefix, tools, verdict, outside, Go, Finish, Emit
<1>1. CASE Receive
  BY <1>1 DEF Receive, Remains
<1>2. CASE Ask
  BY <1>2 DEF Ask, Remains
<1>3. CASE Leave
  BY <1>3 DEF Leave, Remains
<1>4. CASE NoReply
  BY <1>4 DEF NoReply, Remains
<1>5. CASE TakeReply
  BY <1>5 DEF TakeReply, Remains
<1>6. CASE Act
  BY <1>6 DEF Act, Remains
<1>7. CASE CheckCall
  BY <1>7 DEF CheckCall, Remains
<1>8. CASE Execute
  BY <1>8 DEF Execute, Remains
<1>9. CASE AwaitTool
  BY <1>9 DEF AwaitTool, Remains
<1>10. CASE ReapTool
  BY <1>10 DEF ReapTool, Remains
<1>11. CASE Observe
  BY <1>11 DEF Observe, Remains
<1>12. CASE Extend
  BY <1>12 DEF Extend, Remains
<1>13. CASE SignalStop
  BY <1>13 DEF SignalStop, Remains
<1>14. CASE CloseModel
  BY <1>14 DEF CloseModel, Remains
<1>15. CASE Conclude
  BY <1>15
<1>16. CASE Raise
  BY <1>16 DEF Raise, Remains
<1>17. CASE ModelTakes
  BY <1>17 DEF ModelTakes, Remains, Typed, ModelTyped
<1>18. CASE ModelReplies
  <2>1. score = "success" /\ ending = "finalized"
    BY <1>18 DEF ModelReplies, Remains
  <2>2. Len(model.replies) < model.took /\ model.took <= model.asked /\ model.asked = Len(model.replies)
    BY <1>18, <2>1 DEF ModelReplies, Counting, Said
  <2>3. Len(model.replies) \in Nat /\ model.took \in Nat
    BY DEF Typed, ModelTyped
  <2> QED BY <2>2, <2>3
<1>19. CASE ModelEnds
  BY <1>19 DEF ModelEnds, Remains, Typed, ModelTyped
<1>20. CASE ToolReplies
  BY <1>20 DEF ToolReplies, Remains, Typed, ModelTyped
<1>21. CASE ToolEnds
  BY <1>21 DEF ToolEnds, Remains, Typed, ModelTyped
<1>22. CASE ToolExpires
  BY <1>22 DEF ToolExpires, Remains, Typed, ModelTyped
<1>23. CASE Cancel
  BY <1>23 DEF Cancel, Remains, Typed, ModelTyped
<1>24. CASE Expire
  BY <1>24 DEF Expire, Remains, Typed, ModelTyped
<1>25. CASE UNCHANGED vars
  BY <1>25 DEF vars
<1> QED BY <1>1, <1>2, <1>3, <1>4, <1>5, <1>6, <1>7, <1>8, <1>9, <1>10, <1>11, <1>12, <1>13,
   <1>14, <1>15, <1>16, <1>17, <1>18, <1>19, <1>20, <1>21, <1>22, <1>23, <1>24, <1>25
     DEF Next, Steps, Children, Terminated

LEMMA SuccessKept ==
  ASSUME Typed, Counting, Remains, Tracing, Said, Told, SuccessIsLegal, [Next]_vars
  PROVE  SuccessIsLegal'
<1> SUFFICES ASSUME score' = "success"
             PROVE  /\ Verified(trace', model'.replies, complete')
                    /\ \A i \in DOMAIN model'.replies :
                         DecisionVerdict(truth', Before(trace', model'.replies, i), model'.replies[i]) = "legal"
  BY DEF SuccessIsLegal
<1>1. CASE ~Conclude
  BY <1>1, ScoredOnce DEF SuccessIsLegal
<1>2. CASE Conclude
  <2>1. /\ ending = "finalized" /\ pc # "returned" /\ score' = Score(truth, trace, final)
        /\ trace' = Append(trace, Event("finalized")) /\ UNCHANGED <<model, complete, truth>>
    <3>1. pc \in {"verdict", "finish"}
      BY <1>2 DEF Conclude, Nothing
    <3>2. score # "success"
      BY <3>1 DEF Remains
    <3> QED BY <1>2, <3>1, <3>2, InterruptionTyped DEF Conclude, inputs, budget, Finish, Emit
  <2>2. /\ ~Pending(Taken) /\ Actual(Taken) \in truth.strategies /\ final \in truth.answers
    BY <2>1 DEF Score, Taken
  <2>3. complete /\ Len(model.replies) = Len(history) + 1 /\ Len(history) \in Nat
        /\ model.replies[Len(history) + 1].kind = "final" /\ model.replies[Len(history) + 1].final = final
        /\ \A i \in 1 .. Len(history) : model.replies[i].kind = "calls" /\ model.replies[i].calls = history[i]
    BY <2>1 DEF Said, Typed, PrefixTyped
  <2>4. Verified(trace', model.replies, complete)
    BY <2>1, <2>3, WholeTrace
  <2>5. /\ Taken \in Seq(Happenings) /\ ToolEvents(trace') = Taken /\ CallsIn(Taken) = FlattenSeq(history)
        /\ history \in Seq(Seq(Calls)) /\ model.replies \in Seq(Replies)
    <3>1. Event("finalized") \in Happenings /\ ~ToolEvent(Event("finalized")) /\ trace \in Seq(Happenings)
      BY HappeningsAre DEF Endings, Tracing
    <3>2. ToolEvents(trace') = Taken /\ Taken \in Seq(Happenings)
      BY <2>1, <3>1, ToolEventsAppend DEF Taken
    <3> QED BY <2>1, <3>2, BatchesTyped DEF Tracing, Typed, ModelTyped
  <2>6. ASSUME NEW i \in DOMAIN model.replies
        PROVE  DecisionVerdict(truth, Before(trace', model.replies, i), model.replies[i]) = "legal"
    <3>1. i \in 1 .. Len(history) + 1
      BY <2>3, <2>5
    <3>2. model.replies[Len(history) + 1].final \in truth.answers
      BY <2>2, <2>3
    <3>3. Succeeds(trace', history, model.replies, truth)
      BY <2>2, <2>3, <2>5, <3>2 DEF Succeeds
    <3> QED BY <3>1, <3>3, Legal
  <2> QED BY <2>1, <2>4, <2>6
<1> QED BY <1>1, <1>2

----------------------------------------------------------------------------
(* A call that is about to run was never seen before.                      *)

Fresh ==
  /\ ran \in Seq(Calls)
  /\ \A i \in 1 .. Len(ran) : ran[i] \in seen
  /\ pc \in Calling => Current \in seen
  /\ pc = "execute" => Current \notin Prior /\ \A i \in 1 .. Len(ran) : ran[i] # Current

LEMMA FreshKept == ASSUME Typed, Batching, Fresh, [Next]_vars PROVE Fresh'
<1> USE DEF control, inputs, budget, prefix, tools, verdict, outside, Go, Finish, Emit
<1>1. CASE Receive
  BY <1>1 DEF Receive, Fresh, Current, Calling
<1>2. CASE Ask
  BY <1>2 DEF Ask, Fresh, Current, Calling
<1>3. CASE Leave
  BY <1>3 DEF Leave, Fresh, Current, Calling
<1>4. CASE NoReply
  BY <1>4 DEF NoReply, Fresh, Current, Calling
<1>5. CASE TakeReply
  BY <1>5 DEF TakeReply, Fresh, Current, Calling
<1>6. CASE Act
  BY <1>6 DEF Act, Fresh, Current, Calling
<1>7. CASE CheckCall
  <2>1. /\ seen' = seen \cup {Current} /\ Current' = Current /\ ran' = ran
        /\ pc' = "execute" => Current \notin seen
        /\ pc' \in {"execute", "finish"} /\ Prior \subseteq seen
    BY <1>7 DEF CheckCall, Current, Typed, PrefixTyped
  <2> QED BY <2>1 DEF Fresh, Calling
<1>8. CASE Execute
  <2>1. pc = "execute" /\ pc' \in {"observe", "tool"} /\ seen' = seen /\ Current' = Current
        /\ Current \in Calls /\ (ran' = ran \/ ran' = Append(ran, Current))
    BY <1>8, CurrentTyped DEF Execute, Current
  <2>2. ran \in Seq(Calls) /\ Current \in seen /\ \A i \in 1 .. Len(ran) : ran[i] \in seen
    BY <2>1 DEF Fresh, Calling
  <2>3. ran' \in Seq(Calls) /\ \A i \in 1 .. Len(ran') : ran'[i] \in seen'
    BY <2>1, <2>2
  <2> QED BY <2>1, <2>2, <2>3 DEF Fresh
<1>9. CASE AwaitTool
  BY <1>9 DEF AwaitTool, Fresh, Current, Calling
<1>10. CASE ReapTool
  BY <1>10 DEF ReapTool, Fresh, Current, Calling
<1>11. CASE Observe
  BY <1>11 DEF Observe, Fresh, Current, Calling
<1>12. CASE Extend
  BY <1>12 DEF Extend, Fresh, Current, Calling
<1>13. CASE SignalStop
  BY <1>13 DEF SignalStop, Fresh, Current, Calling
<1>14. CASE CloseModel
  BY <1>14 DEF CloseModel, Fresh, Current, Calling
<1>15. CASE Conclude
  BY <1>15 DEF Conclude, Fresh, Current, Calling
<1>16. CASE Raise
  BY <1>16 DEF Raise, Fresh, Current, Calling
<1>17. CASE ModelTakes
  BY <1>17 DEF ModelTakes, Fresh, Current, Calling
<1>18. CASE ModelReplies
  BY <1>18 DEF ModelReplies, Fresh, Current, Calling
<1>19. CASE ModelEnds
  BY <1>19 DEF ModelEnds, Fresh, Current, Calling
<1>20. CASE ToolReplies
  BY <1>20 DEF ToolReplies, Fresh, Current, Calling
<1>21. CASE ToolEnds
  BY <1>21 DEF ToolEnds, Fresh, Current, Calling
<1>22. CASE ToolExpires
  BY <1>22 DEF ToolExpires, Fresh, Current, Calling
<1>23. CASE Cancel
  BY <1>23 DEF Cancel, Fresh, Current, Calling
<1>24. CASE Expire
  BY <1>24 DEF Expire, Fresh, Current, Calling
<1>25. CASE UNCHANGED vars
  BY <1>25 DEF vars, Fresh, Current, Calling
<1> QED BY <1>1, <1>2, <1>3, <1>4, <1>5, <1>6, <1>7, <1>8, <1>9, <1>10, <1>11, <1>12, <1>13,
   <1>14, <1>15, <1>16, <1>17, <1>18, <1>19, <1>20, <1>21, <1>22, <1>23, <1>24, <1>25
     DEF Next, Steps, Children, Terminated

----------------------------------------------------------------------------
(* The one terminal event of a run, and what was not before it.            *)

Terminals == Unsuccessful \cup {"finalized"}
Unended == \A i \in 1 .. Len(trace) : trace[i].event \notin Terminals

OneEnd ==
  /\ pc # "returned" => Unended
  /\ pc = "returned" =>
       /\ Len(trace) # 0 /\ trace[Len(trace)] = Event(ending)
       /\ \A i \in 1 .. Len(trace) - 1 : trace[i].event \notin Terminals
       /\ ending = "finalized" => ~Interrupted

\* An event that is not terminal ends nothing.
LEMMA StillUnended ==
  ASSUME trace \in Seq(Happenings), Unended,
         trace' = trace \/ \E e \in Happenings : e.event \notin Terminals /\ trace' = Append(trace, e)
  PROVE  Unended'
<1>1. CASE trace' = trace
  BY <1>1 DEF Unended
<1>2. ASSUME NEW e \in Happenings, e.event \notin Terminals, trace' = Append(trace, e)
      PROVE  Unended'
  <2>1. /\ Len(trace) \in Nat /\ Len(trace') = Len(trace) + 1 /\ trace'[Len(trace) + 1] = e
        /\ \A i \in 1 .. Len(trace) : trace'[i] = trace[i]
    BY <1>2
  <2>2. \A i \in 1 .. Len(trace') : i \in 1 .. Len(trace) \/ i = Len(trace) + 1
    BY <2>1
  <2> QED BY <1>2, <2>1, <2>2 DEF Unended
<1> QED BY <1>1, <1>2

LEMMA NoTerminal ==
  /\ \A x \in {"received", "validated", "generating", "parsing"} :
       Event(x) \in Happenings /\ Event(x).event \notin Terminals
  /\ \A c \in Calls : Execution(c) \in Happenings /\ Execution(c).event \notin Terminals
  /\ \A c \in Calls, s \in Statuses :
       Observation(c, s) \in Happenings /\ Observation(c, s).event \notin Terminals
BY HappeningsAre, EventIs DEF Terminals, Unsuccessful

LEMMA OneEndKept == ASSUME Typed, Batching, Blamed, Tracing, OneEnd, [Next]_vars PROVE OneEnd'
<1> USE DEF control, inputs, budget, prefix, tools, verdict, outside, Go, Finish, Emit
<1>t. trace \in Seq(Happenings)
  BY DEF Tracing
<1>1. CASE Receive
  <2>1. pc = "start" /\ pc' # "returned" /\ trace = <<>>
    BY <1>1 DEF Receive, Tracing
  <2>2. trace' = <<Event("received"), Event("validated")>> \/ trace' = <<Event("received")>>
    BY <1>1 DEF Receive
  <2>3. Unended'
    <3>1. \A i \in 1 .. Len(trace') : trace'[i] \in {Event("received"), Event("validated")}
      BY <2>2
    <3> QED BY <3>1, NoTerminal DEF Unended
  <2> QED BY <2>1, <2>3 DEF OneEnd
<1>2. CASE Ask \/ TakeReply \/ CheckCall \/ Observe
  <2>1. pc # "returned" /\ pc' # "returned"
    BY <1>2 DEF Ask, TakeReply, CheckCall, Observe
  <2>2. trace' = trace \/ \E e \in Happenings : e.event \notin Terminals /\ trace' = Append(trace, e)
    <3>1. CASE Ask \/ TakeReply
      BY <3>1, NoTerminal DEF Ask, TakeReply
    <3>2. CASE CheckCall
      <4>1. Current \in Calls
        BY <3>2, CurrentTyped DEF CheckCall
      <4> QED BY <3>2, <4>1, NoTerminal DEF CheckCall
    <3>3. CASE Observe
      <4>1. Current \in Calls /\ result.status \in Statuses
        BY <3>3, CurrentTyped DEF Observe, Typed, ToolTyped, Results
      <4> QED BY <3>3, <4>1, NoTerminal DEF Observe
    <3> QED BY <1>2, <3>1, <3>2, <3>3
  <2> QED BY <1>t, <2>1, <2>2, StillUnended DEF OneEnd
<1>3. CASE \/ Leave \/ NoReply \/ Act \/ Execute \/ AwaitTool \/ ReapTool \/ Extend
           \/ SignalStop \/ CloseModel \/ Raise
  <2>1. pc # "returned" /\ pc' # "returned" /\ trace' = trace
    <3>1. CASE Leave \/ NoReply \/ Execute
      BY <3>1 DEF Leave, NoReply, Execute
    <3>2. CASE AwaitTool \/ ReapTool \/ Extend
      BY <3>2 DEF AwaitTool, ReapTool, Extend
    <3>3. CASE SignalStop \/ CloseModel \/ Raise
      BY <3>3 DEF SignalStop, CloseModel, Raise
    <3>4. CASE Act
      BY <3>4 DEF Act
    <3> QED BY <1>3, <3>1, <3>2, <3>3, <3>4
  <2> QED BY <1>t, <2>1, StillUnended DEF OneEnd
<1>4. CASE Conclude
  <2>1. pc # "returned" /\ Unended
    BY <1>4 DEF Conclude, Nothing, OneEnd
  <2>2. CASE pc' = "returned"
    <3>1. /\ trace' = Append(trace, Event(ending')) /\ UNCHANGED <<cancelled, expired>>
          /\ ending' = "finalized" => ~Interrupted
      BY <1>4, <2>2, InterruptionTyped DEF Conclude, Interrupted
    <3>2. Len(trace') = Len(trace) + 1 /\ trace'[Len(trace')] = Event(ending') /\ Len(trace) \in Nat
          /\ \A i \in 1 .. Len(trace) : trace'[i] = trace[i]
      BY <1>t, <3>1
    <3>3. Interrupted' = Interrupted
      BY <3>1 DEF Interrupted, Interruption
    <3> QED BY <2>1, <2>2, <3>1, <3>2, <3>3 DEF OneEnd, Unended
  <2>3. CASE pc' # "returned"
    <3>1. trace' = trace
      BY <1>4, <2>3 DEF Conclude
    <3> QED BY <1>t, <2>1, <2>3, <3>1, StillUnended DEF OneEnd
  <2> QED BY <2>2, <2>3
<1>5. CASE Children \/ UNCHANGED vars
  <2>1. UNCHANGED <<pc, ending, trace, cancelled, expired>>
    BY <1>5 DEF Children, ModelTakes, ModelReplies, ModelEnds, ToolReplies, ToolEnds, ToolExpires, vars
  <2> QED BY <2>1 DEF OneEnd, Unended, Interrupted, Interruption
<1>6. CASE Cancel \/ Expire
  <2>1. UNCHANGED <<pc, ending, trace>> /\ pc # "returned"
    BY <1>6 DEF Cancel, Expire, Over
  <2> QED BY <2>1 DEF OneEnd, Unended
<1> QED BY <1>1, <1>2, <1>3, <1>4, <1>5, <1>6 DEF Next, Steps, Terminated

----------------------------------------------------------------------------
(* The invariant, and what follows from it.                                *)

IInv ==
  /\ Typed /\ Counting /\ Batching /\ Blamed /\ Remains
  /\ Tracing /\ Said /\ Told /\ Fresh /\ OneEnd /\ SuccessIsLegal

LEMMA InitIInv == ASSUME Init PROVE IInv
<1> USE DEF Init
<1>1. Typed
  BY Assumed, ResultsTyped, EmptySeq
     DEF Typed, ControlTyped, BudgetTyped, PrefixTyped, ModelTyped, ToolTyped, VerdictTyped,
         PCs, Going, Endings, Procs, NoModel, NoTool
<1>2. Counting
  BY DEF Counting, Going, NoModel
<1>3. Batching /\ Blamed /\ Remains
  BY DEF Batching, Blamed, Remains, Ending, NoModel, NoTool, NoResult, Failed
<1>4. Tracing
  <2>1. Taken = <<>> /\ FlattenSeq(history) = <<>> /\ Made = <<>>
    <3>1. <<>> \o SubSeq(<<>>, 1, 0) = <<>>
      OBVIOUS
    <3> QED BY <3>1, ToolEventsEmpty, FlatEmpty DEF Taken, Made
  <2>2. CallsIn(<<>>) = <<>>
    BY DEF CallsIn
  <2> QED BY <2>1, <2>2 DEF Tracing, Ordered, Pending, Calling
<1>5. Said
  BY DEF Said, Batched, Calling, NoModel
<1>6. Told
  BY DEF Told, Calling
<1>7. Fresh
  BY DEF Fresh, Calling
<1>8. SuccessIsLegal
  BY DEF SuccessIsLegal
<1>9. OneEnd
  BY DEF OneEnd, Unended
<1> QED BY <1>1, <1>2, <1>3, <1>4, <1>5, <1>6, <1>7, <1>8, <1>9 DEF IInv

LEMMA NextIInv == ASSUME IInv, [Next]_vars PROVE IInv'
<1> USE DEF IInv
<1>1. Typed'
  BY ControlTypedKept, BudgetTypedKept, PrefixTypedKept, ModelTypedKept, ToolTypedKept,
     VerdictTypedKept DEF Typed
<1>2. Counting' /\ Batching' /\ Blamed' /\ Remains'
  BY CountingKept, BatchingKept, BlamedKept, RemainsKept
<1>3. Tracing' /\ Said' /\ Told'
  BY TracingKept, SaidKept, ToldKept
<1>4. Fresh' /\ OneEnd' /\ SuccessIsLegal'
  BY FreshKept, OneEndKept, SuccessKept
<1> QED BY <1>1, <1>2, <1>3, <1>4

\* The invariant holds in every state of a run.
THEOREM Invariance == Spec => []IInv
<1>1. Init => IInv
  BY InitIInv
<1>2. IInv /\ [Next]_vars => IInv'
  BY NextIInv
<1> QED BY <1>1, <1>2, PTL DEF Spec

\* An accounting called complete counts every request the model was given,
\* whatever ended the run (the finally of finish, the waits of session).
THEOREM CompleteMeansCounted == Spec => []CountedTruly
<1>1. IInv => CountedTruly
  BY DEF IInv, Counting, CountedTruly
<1> QED BY <1>1, Invariance, PTL

\* A run that returns "cancelled" or "timed_out" was, or one of its children
\* said so (interrupted, and the token the two children share).
THEOREM EndsAreHonest == Spec => []EndsHonestly
<1>1. IInv => EndsHonestly
  BY DEF IInv, Blamed, EndsHonestly
<1> QED BY <1>1, Invariance, PTL

\* The oracle never meets a trace out of order, and meets no call without its
\* observation in a run that was finalized.
THEOREM TraceIsInOrder == Spec => []OrderTrusted
<1>1. IInv => OrderTrusted
  BY DEF IInv, Tracing, OrderTrusted, Quiet, Taken
<1> QED BY <1>1, Invariance, PTL

\* No process outlives a run that says it succeeded or was finalized, nothing
\* interrupted it before its verdict, and no process outlives any other run that
\* returns without being admitted; each run ends its trace with one terminal event.
THEOREM NothingOutlivesSuccess == Spec => []SuccessIsClean
<1>1. IInv => SuccessIsClean
  <2> SUFFICES ASSUME IInv PROVE SuccessIsClean
    OBVIOUS
  <2>1. trace \in Seq(Happenings) /\ OneEnd /\ Remains
    BY DEF IInv, Tracing
  <2>2. ASSUME NEW i \in DOMAIN trace, trace[i].event \in Terminals
        PROVE  pc = "returned" /\ i = Len(trace)
    <3>1. Len(trace) \in Nat /\ i \in 1 .. Len(trace)
      BY <2>1
    <3>2. pc = "returned" /\ i \notin 1 .. Len(trace) - 1
      BY <2>1, <2>2, <3>1 DEF OneEnd, Unended
    <3> QED BY <3>1, <3>2
  <2> QED BY <2>1, <2>2, Assumed DEF OneEnd, Remains, SuccessIsClean, Terminals
<1> QED BY <1>1, Invariance, PTL

\* What the oracle scores a success, preference extraction verifies as a trace
\* and judges legal in every decision.
THEOREM SuccessIsUsable == Spec => []SuccessIsLegal
<1>1. IInv => SuccessIsLegal
  BY DEF IInv
<1> QED BY <1>1, Invariance, PTL

----------------------------------------------------------------------------
(* How much of a run is left.                                              *)

\* The decisions still open, as long as the model may be asked; the place in
\* the loop, or in finish; what is left of the batch that is being run.
Left == IF pc \in Going \cup {"waiting"} THEN MaxDecisions - decisions + 1 ELSE 0
Place ==
  CASE pc = "start" -> 5
    [] pc = "waiting" \/ (pc = "finish" /\ model.proc # "none" /\ ~attempted) -> 4
    [] pc \in {"parsed", "close"} -> 3
    [] pc \in {"calls", "execute", "tool", "reap", "observe", "verdict"} -> 2
    [] pc \in {"extend", "raising"} \/ (pc = "finish" /\ (model.proc = "none" \/ attempted)) -> 1
    [] OTHER -> 0
Due ==
  CASE pc = "calls" -> 5 * (Len(action) - observed) + 4
    [] pc = "execute" -> 5 * (Len(action) - observed) + 3
    [] pc = "tool" -> 5 * (Len(action) - observed) + 2
    [] pc = "reap" -> 5 * (Len(action) - observed) + 1
    [] pc = "observe" -> 5 * (Len(action) - observed)
    [] OTHER -> 0
Remaining == <<<<Left, Place>>, Due>>

\* The first of them that changes counts.
Fewer == {p \in Nat \X Nat : p[1] < p[2]}
Less == LexPairOrdering(LexPairOrdering(Fewer, Fewer, Nat, Nat), Fewer, Nat \X Nat, Nat)
Remainders == (Nat \X Nat) \X Nat

\* Every step of the harness leaves less of the run, and nothing that its
\* children, its caller or the clock do leaves more.
Descends ==
  \/ Steps /\ <<Remaining', Remaining>> \in Less
  \/ UNCHANGED Remaining

WithinBudget == decisions <= MaxDecisions

\* Nothing goes down in Less for ever.
THEOREM LessIsWellFounded == IsWellFoundedOn(Less, Remainders)
<1>1. IsWellFoundedOn(Fewer, Nat)
  BY NatLessThanWellFounded DEF OpToRel, Fewer
<1>2. IsWellFoundedOn(LexPairOrdering(Fewer, Fewer, Nat, Nat), Nat \X Nat)
  BY <1>1, WFLexPairOrdering
<1> QED BY <1>1, <1>2, WFLexPairOrdering DEF Less, Remainders

LEMMA LessWhen ==
  ASSUME NEW a \in Nat, NEW b \in Nat, NEW c \in Nat, NEW d \in Nat, NEW e \in Nat, NEW f \in Nat,
         \/ a < d
         \/ a = d /\ b < e
         \/ a = d /\ b = e /\ c < f
  PROVE  <<<<<<a, b>>, c>>, <<<<d, e>>, f>>>> \in Less
<1> DEFINE Inner == LexPairOrdering(Fewer, Fewer, Nat, Nat)
<1>1. a < d \/ (a = d /\ b < e) => <<<<a, b>>, <<d, e>>>> \in Inner
  BY DEF LexPairOrdering, Fewer
<1>2. c < f => <<c, f>> \in Fewer
  BY DEF Fewer
<1>3. Less = LexPairOrdering(Inner, Fewer, Nat \X Nat, Nat)
  BY DEF Less
<1> HIDE DEF Inner
<1>4. <<a, b>> \in Nat \X Nat /\ <<d, e>> \in Nat \X Nat
  OBVIOUS
<1>5. \/ <<<<a, b>>, <<d, e>>>> \in Inner
      \/ <<a, b>> = <<d, e>> /\ <<c, f>> \in Fewer
  BY <1>1, <1>2
<1> QED BY <1>3, <1>4, <1>5 DEF LexPairOrdering

LEMMA WithinBudgetKept == ASSUME Typed, WithinBudget, [Next]_vars PROVE WithinBudget'
<1> USE Assumed DEF WithinBudget
<1>1. CASE Ask
  BY <1>1 DEF Ask, Typed, BudgetTyped
<1>2. ASSUME ~Ask PROVE decisions' = decisions
  BY <1>2 DEF Next, Steps, Children, Terminated, vars, budget, outside, Receive, Leave, NoReply,
     TakeReply, Act, CheckCall, Execute, AwaitTool, ReapTool, Observe, Extend, SignalStop,
     CloseModel, Conclude, Raise, ModelTakes, ModelReplies, ModelEnds, ToolReplies, ToolEnds,
     ToolExpires, Cancel, Expire
<1> QED BY <1>1, <1>2

LEMMA LengthsTyped ==
  ASSUME Typed PROVE Len(action) \in Nat
<1>1. action \in Seq(Calls)
  BY Assumed, EmptySeq DEF Typed, PrefixTyped
<1> QED BY <1>1

LEMMA RemainingTyped ==
  ASSUME Typed, Batching, WithinBudget PROVE Left \in Nat /\ Place \in Nat /\ Due \in Nat
<1>1. Left \in Nat
  BY Assumed DEF Typed, BudgetTyped, WithinBudget, Left
<1>2. Place \in Nat
  BY DEF Place
<1>3. Due \in Nat
  <2>1. Len(action) \in Nat /\ observed \in Nat
    BY LengthsTyped DEF Typed, PrefixTyped
  <2>2. CASE pc \in {"calls", "execute", "tool", "reap", "observe"}
    <3>1. Len(action) - observed \in Nat
      BY <2>1, <2>2 DEF Batching
    <3> HIDE DEF Batching
    <3> QED BY <2>2, <3>1 DEF Due
  <2>3. CASE pc \notin {"calls", "execute", "tool", "reap", "observe"}
    BY <2>3 DEF Due
  <2> QED BY <2>2, <2>3
<1> QED BY <1>1, <1>2, <1>3

\* One component goes down, and those before it stay.
Lower ==
  \/ Left' < Left
  \/ Left' = Left /\ Place' < Place
  \/ Left' = Left /\ Place' = Place /\ Due' < Due

LEMMA StepsLower ==
  ASSUME IInv, WithinBudget, Steps PROVE Lower
<1> DEFINE Closing == pc' \in Ending \cup {"raising"} /\ UNCHANGED decisions
           Inside == {"calls", "execute", "tool", "reap", "observe"}
<1>1. /\ Typed /\ Counting /\ Batching /\ Blamed /\ Remains
      /\ decisions \in Nat /\ MaxDecisions \in Nat /\ decisions <= MaxDecisions
      /\ Len(action) \in Nat /\ observed \in Nat
  BY LengthsTyped, Assumed DEF IInv, WithinBudget, Typed, BudgetTyped, PrefixTyped
\* Where the model can no longer be asked, no decision is open.
<1>2. ASSUME pc \in Going \cup {"waiting"}, Closing PROVE Lower
  <2>1. Left > 0
    BY <1>1, <1>2 DEF Left
  <2>2. Left' = 0
    BY <1>2 DEF Left, Ending, Going
  <2> QED BY <2>1, <2>2 DEF Lower
<1>3. ASSUME pc \in Going \cup {"waiting"}, pc' \in Going \cup {"waiting"}, UNCHANGED decisions,
             Place' < Place \/ (Place' = Place /\ Due' < Due)
      PROVE  Lower
  BY <1>3 DEF Left, Lower
<1>4. ASSUME pc \in Inside, pc' \in Inside, UNCHANGED decisions, Due' < Due PROVE Lower
  <2>1. Place = 2 /\ Place' = 2
    BY <1>4 DEF Place
  <2> QED BY <1>3, <1>4, <2>1 DEF Going
<1>5. ASSUME pc \notin Going \cup {"waiting"}, pc' \notin Going \cup {"waiting"}, Place' < Place
      PROVE  Lower
  BY <1>5 DEF Left, Lower
<1> HIDE DEF Closing, Inside
<1>6. CASE Receive
  <2>1. pc = "start" /\ UNCHANGED decisions /\ pc' \in {"loop", "finish"}
    BY <1>6 DEF Receive, Go, Finish, budget
  <2>2. CASE pc' = "finish"
    BY <1>2, <2>1, <2>2 DEF Closing, Going, Ending
  <2>3. CASE pc' = "loop"
    <3>1. Place = 5 /\ Place' = 0
      BY <2>1, <2>3 DEF Place
    <3> QED BY <1>3, <2>1, <2>3, <3>1 DEF Going
  <2> QED BY <2>1, <2>2, <2>3
<1>7. CASE Ask
  <2>1. pc = "loop" /\ decisions' = decisions + 1 /\ pc' \in {"waiting", "finish"} /\ decisions < MaxDecisions
    BY <1>7 DEF Ask, Go, Finish
  <2>2. Left' < Left
    BY <1>1, <2>1 DEF Left, Going
  <2> QED BY <2>2 DEF Lower
<1>8. CASE Leave \/ NoReply
  BY <1>2, <1>8 DEF Leave, NoReply, Finish, budget, Closing, Going, Ending
<1>9. CASE TakeReply
  <2>1. pc = "waiting" /\ UNCHANGED decisions /\ pc' \in {"parsed", "finish"}
    BY <1>9 DEF TakeReply, Go, Finish
  <2>2. CASE pc' = "finish"
    BY <1>2, <2>1, <2>2 DEF Closing, Ending
  <2>3. CASE pc' = "parsed"
    <3>1. Place = 4 /\ Place' = 3
      BY <2>1, <2>3 DEF Place
    <3> QED BY <1>3, <2>1, <2>3, <3>1 DEF Going
  <2> QED BY <2>1, <2>2, <2>3
<1>10. CASE Act
  <2>1. pc = "parsed" /\ UNCHANGED decisions /\ pc' \in {"calls", "finish"}
    BY <1>10 DEF Act, Go, Finish
  <2>2. CASE pc' = "finish"
    BY <1>2, <2>1, <2>2 DEF Closing, Ending, Going
  <2>3. CASE pc' = "calls"
    <3>1. Place = 3 /\ Place' = 2
      BY <2>1, <2>3 DEF Place
    <3> QED BY <1>3, <2>1, <2>3, <3>1 DEF Going
  <2> QED BY <2>1, <2>2, <2>3
<1>11. CASE CheckCall
  <2>1. /\ pc = "calls" /\ UNCHANGED decisions /\ pc' \in {"execute", "finish"}
        /\ UNCHANGED action /\ UNCHANGED observed
    BY <1>11 DEF CheckCall, Go, Finish, budget
  <2>2. CASE pc' = "finish"
    BY <1>2, <2>1, <2>2 DEF Closing, Ending, Going
  <2>3. CASE pc' = "execute"
    <3>1. Due' < Due
      BY <1>1, <2>1, <2>3 DEF Due
    <3> QED BY <1>4, <2>1, <2>3, <3>1 DEF Inside
  <2> QED BY <2>1, <2>2, <2>3
<1>12. CASE Execute
  <2>1. /\ pc = "execute" /\ UNCHANGED decisions /\ pc' \in {"observe", "tool"}
        /\ UNCHANGED action /\ UNCHANGED observed
    BY <1>12 DEF Execute, Go, budget, prefix
  <2>2. Due' < Due
    BY <1>1, <2>1 DEF Due
  <2> QED BY <1>4, <2>1, <2>2 DEF Inside
<1>13. CASE AwaitTool
  <2>1. /\ pc = "tool" /\ UNCHANGED decisions /\ pc' = "reap"
        /\ UNCHANGED action /\ UNCHANGED observed
    BY <1>13 DEF AwaitTool, Go, budget, prefix
  <2>2. Due' < Due
    BY <1>1, <2>1 DEF Due
  <2> QED BY <1>4, <2>1, <2>2 DEF Inside
<1>14. CASE ReapTool
  <2>1. /\ pc = "reap" /\ UNCHANGED decisions /\ pc' \in {"observe", "finish", "raising"}
        /\ UNCHANGED action /\ UNCHANGED observed
    BY <1>14 DEF ReapTool, Go, Finish, budget, prefix
  <2>2. CASE pc' \in {"finish", "raising"}
    BY <1>2, <2>1, <2>2 DEF Closing, Ending, Going
  <2>3. CASE pc' = "observe"
    <3>1. Due' < Due
      BY <1>1, <2>1, <2>3 DEF Due
    <3> QED BY <1>4, <2>1, <2>3, <3>1 DEF Inside
  <2> QED BY <2>1, <2>2, <2>3
<1>15. CASE Observe
  <2>1. /\ pc = "observe" /\ UNCHANGED decisions /\ pc' \in {"extend", "calls", "finish"}
        /\ UNCHANGED action /\ observed' = observed + 1
    BY <1>15 DEF Observe, Go, Finish, budget
  <2>2. CASE pc' = "finish"
    BY <1>2, <2>1, <2>2 DEF Closing, Ending, Going
  <2>3. CASE pc' = "calls"
    <3>1. Due' < Due
      BY <1>1, <2>1, <2>3 DEF Due
    <3> QED BY <1>4, <2>1, <2>3, <3>1 DEF Inside
  <2>4. CASE pc' = "extend"
    <3>1. Place = 2 /\ Place' = 1
      BY <2>1, <2>4 DEF Place
    <3> QED BY <1>3, <2>1, <2>4, <3>1 DEF Going
  <2> QED BY <2>1, <2>2, <2>3, <2>4
<1>16. CASE Extend
  <2>1. pc = "extend" /\ UNCHANGED decisions /\ pc' \in {"loop", "finish"}
    BY <1>16 DEF Extend, Go, Finish, budget
  <2>2. CASE pc' = "finish"
    BY <1>2, <2>1, <2>2 DEF Closing, Ending, Going
  <2>3. CASE pc' = "loop"
    <3>1. Place = 1 /\ Place' = 0
      BY <2>1, <2>3 DEF Place
    <3> QED BY <1>3, <2>1, <2>3, <3>1 DEF Going
  <2> QED BY <2>1, <2>2, <2>3
<1>17. CASE SignalStop
  <2>1. pc = "finish" /\ pc' = "close" /\ model.proc # "none" /\ ~attempted
    BY <1>17 DEF SignalStop, Go
  <2>2. Place = 4 /\ Place' = 3
    BY <2>1 DEF Place
  <2> QED BY <1>5, <2>1, <2>2 DEF Going
<1>18. CASE CloseModel
  <2>1. pc = "close" /\ pc' = "verdict"
    BY <1>18 DEF CloseModel, Go
  <2>2. Place = 3 /\ Place' = 2
    BY <2>1 DEF Place
  <2> QED BY <1>5, <2>1, <2>2 DEF Going
\* finish is entered again only after a cleanup, and by a finalized run.
<1>19. CASE Conclude
  <2>1. /\ pc = "verdict" \/ (pc = "finish" /\ (model.proc = "none" \/ attempted))
        /\ UNCHANGED attempted /\ UNCHANGED model
    BY <1>19 DEF Conclude, Nothing
  <2>2. pc' = "returned" \/ (pc' = "finish" /\ ending = "finalized")
    BY <1>19, InterruptionTyped DEF Conclude, Finish
  <2>3. Place \in {1, 2} /\ (pc = "verdict" => Place = 2)
    BY <2>1 DEF Place
  <2>4. CASE pc' = "returned"
    <3>1. Place' = 0
      BY <2>4 DEF Place
    <3> QED BY <1>5, <2>1, <2>3, <2>4, <3>1 DEF Going
  <2>5. CASE pc' = "finish" /\ ending = "finalized"
    <3>1. pc = "verdict"
      BY <1>1, <2>1, <2>5 DEF Remains
    <3>2. attempted
      BY <3>1, <1>1 DEF Remains
    <3>3. Place' = 1
      BY <2>1, <2>5, <3>2 DEF Place
    <3> QED BY <1>5, <2>3, <2>5, <3>1, <3>3 DEF Going
  <2> QED BY <2>2, <2>4, <2>5
<1>20. CASE Raise
  <2>1. pc = "raising" /\ pc' = "raised"
    BY <1>20 DEF Raise, Go
  <2>2. Place = 1 /\ Place' = 0
    BY <2>1 DEF Place
  <2> QED BY <1>5, <2>1, <2>2 DEF Going
<1> QED BY <1>6, <1>7, <1>8, <1>9, <1>10, <1>11, <1>12, <1>13, <1>14, <1>15, <1>16, <1>17, <1>18,
   <1>19, <1>20 DEF Steps

LEMMA OthersWait ==
  ASSUME Typed, [Next]_vars, ~Steps PROVE UNCHANGED Remaining
<1>1. /\ UNCHANGED <<pc, decisions, action, observed, attempted>>
      /\ model'.proc = "none" <=> model.proc = "none"
  BY DEF Next, Children, Terminated, vars, outside, control, budget, prefix, verdict, ModelTakes,
     ModelReplies, ModelEnds, ToolReplies, ToolEnds, ToolExpires, Cancel, Expire, Typed, ModelTyped
<1>2. Left' = Left
  BY <1>1 DEF Left
<1>3. Place' = Place
  BY <1>1 DEF Place
<1>4. Due' = Due
  BY <1>1 DEF Due
<1> QED BY <1>2, <1>3, <1>4 DEF Remaining

\* Every step of run and finish leaves less of the run, by a measure that cannot
\* go down for ever, and nothing else leaves more: a run that goes on ends,
\* however long its batches are and whatever answers it gets.
THEOREM RunsWindDown == Spec => [][Descends]_vars
<1> DEFINE Inv == IInv /\ WithinBudget
<1>1. Init => Inv
  <2>1. Init => WithinBudget
    BY Assumed DEF Init, WithinBudget
  <2> QED BY <2>1, InitIInv
<1>2. Inv /\ [Next]_vars => Inv'
  BY NextIInv, WithinBudgetKept DEF IInv
<1>3. Inv => Left \in Nat /\ Place \in Nat /\ Due \in Nat
  BY RemainingTyped DEF IInv
<1>4. Inv' => (Left \in Nat /\ Place \in Nat /\ Due \in Nat)'
  BY <1>3, PTL
<1>5. Inv /\ Inv' /\ [Next]_vars => [Descends]_vars
  <2> SUFFICES ASSUME Inv, Inv', [Next]_vars PROVE Descends
    OBVIOUS
  <2>1. CASE Steps
    <3>1. Lower
      BY <2>1, StepsLower
    <3>2. <<<<<<Left', Place'>>, Due'>>, <<<<Left, Place>>, Due>>>> \in Less
      <4> HIDE DEF Inv
      <4> QED BY <1>3, <1>4, <3>1, LessWhen DEF Lower
    <3> QED BY <2>1, <3>2 DEF Descends, Remaining
  <2>2. CASE ~Steps
    BY <2>2, OthersWait DEF IInv, Descends
  <2> QED BY <2>1, <2>2
<1> QED BY <1>1, <1>2, <1>5, PTL DEF Spec

----------------------------------------------------------------------------
(* Every step of a run is a step of the bounded dialogue, or none of it.   *)

\* What the dialogue sees of a run.
Seen == <<decisions, history, action, observed, ran>>

LEMMA DialogueQuiet ==
  ASSUME UNCHANGED Seen, UNCHANGED ending \/ ~Over', ~Over \/ UNCHANGED pc, ~Over' \/ UNCHANGED pc
  PROVE  UNCHANGED Abstract!vars
BY DEF Abstract!vars, Seen, Over

LEMMA DialogueStep == ASSUME IInv, [Next]_vars PROVE [Abstract!Next]_(Abstract!vars)
<1> USE DEF IInv, control, inputs, budget, prefix, tools, verdict, outside, Go, Finish, Emit
<1>0. /\ history \in Seq(Seq(Calls)) /\ action \in Seq(Calls) /\ Len(history) \in Nat
      /\ decisions \in Nat /\ observed \in Nat /\ rounds \in Nat
  BY BatchesTyped DEF Typed, BudgetTyped, PrefixTyped
<1>1. CASE Receive
  BY <1>1, DialogueQuiet DEF Receive, Seen, Over
<1>2. CASE Ask
  <2>1. /\ pc = "loop" /\ ~Over /\ ~Over' /\ action = <<>> /\ decisions = Len(history) /\ decisions < MaxDecisions
        /\ decisions' = decisions + 1 /\ UNCHANGED <<history, action, observed, ran>>
    BY <1>2 DEF Ask, Over, Batching, Said
  <2>2. Abstract!Decide
    BY <1>0, <2>1 DEF Abstract!Decide, Abstract!Settled
  <2> QED BY <2>2 DEF Abstract!Next
<1>3. CASE Leave
  BY <1>3, DialogueQuiet DEF Leave, Seen, Over
<1>4. CASE NoReply
  BY <1>4, DialogueQuiet DEF NoReply, Seen, Over
<1>5. CASE TakeReply
  BY <1>5, DialogueQuiet DEF TakeReply, Seen, Over
<1>6. CASE Act
  <2>1. CASE pc' = "calls"
    <3>1. /\ pc = "parsed" /\ ~Over /\ ~Over' /\ action = <<>> /\ observed = 0 /\ decisions = Len(history) + 1
          /\ UNCHANGED <<decisions, history, observed, ran>> /\ rounds = Len(history)
      BY <1>6 DEF Act, Over, Batching, Said
    <3>2. action' \in Batches /\ action' # <<>> /\ rounds < MaxToolRounds
      <4>1. model.replies[decisions] \in Replies /\ model.replies[decisions].kind \in {"calls", "final"}
        BY <3>1, ReplyTaken DEF Batching
      <4> QED BY <1>6, <1>0, <2>1, <4>1, RepliesTyped, Assumed DEF Act
    <3>3. Abstract!Batch(action')
      BY <1>0, <3>1, <3>2, <2>1 DEF Abstract!Batch, Over
    <3> QED BY <3>2, <3>3 DEF Abstract!Next
  <2>2. CASE pc' # "calls"
    BY <1>6, <2>2, DialogueQuiet DEF Act, Seen, Over
  <2> QED BY <2>1, <2>2
<1>7. CASE CheckCall
  BY <1>7, DialogueQuiet DEF CheckCall, Seen, Over
<1>8. CASE Execute
  <2>1. CASE ran' = Append(ran, Current) /\ pc' = "tool"
    <3>1. /\ pc = "execute" /\ ~Over /\ ~Over' /\ action # <<>> /\ observed < Len(action)
          /\ decisions = Len(history) + 1 /\ UNCHANGED <<decisions, history, action, observed>>
      BY <1>8, <2>1, Assumed DEF Execute, Over, Batching, Said, Batched, Calling
    <3>2. /\ Current \in Calls /\ Current = action[observed + 1] /\ Current \notin Prior
          /\ \A i \in 1 .. Len(ran) : ran[i] # Current
      BY <3>1, CurrentTyped DEF Fresh, Current
    <3>3. /\ Len(Append(history, action)) = Len(history) + 1 /\ Append(history, action)[Len(history) + 1] = action
          /\ Append(history, action) # <<>>
      BY <1>0
    <3>4. Abstract!Run(Current)
      BY <1>0, <2>1, <3>1, <3>2, <3>3 DEF Abstract!Run, Abstract!Settled, Abstract!Started, Over
    <3> QED BY <3>2, <3>4 DEF Abstract!Next
  <2>2. CASE ran' = ran
    BY <1>8, <2>2, DialogueQuiet DEF Execute, Seen, Over
  <2> QED BY <1>8, <2>1, <2>2 DEF Execute
<1>9. CASE AwaitTool
  BY <1>9, DialogueQuiet DEF AwaitTool, Seen, Over
<1>10. CASE ReapTool
  BY <1>10, DialogueQuiet DEF ReapTool, Seen, Over
<1>11. CASE Observe
  <2>1. /\ pc = "observe" /\ ~Over /\ ~Over' /\ action # <<>> /\ observed < Len(action)
        /\ decisions = Len(history) + 1 /\ observed' = observed + 1 /\ UNCHANGED <<decisions, history, action, ran>>
    BY <1>11, Assumed DEF Observe, Over, Batching, Said, Batched, Calling
  <2>2. /\ Len(Append(history, action)) = Len(history) + 1 /\ Append(history, action)[Len(history) + 1] = action
        /\ Append(history, action) # <<>>
    BY <1>0
  <2>3. Abstract!Answer
    BY <1>0, <2>1, <2>2 DEF Abstract!Answer, Abstract!Settled
  <2> QED BY <2>3 DEF Abstract!Next
<1>12. CASE Extend
  <2>1. /\ ~Over /\ ~Over' /\ action # <<>> /\ observed = Len(action) /\ action' = <<>> /\ observed' = 0
        /\ history' = Append(history, action) /\ UNCHANGED <<decisions, ran>>
    BY <1>12, Assumed DEF Extend, Over, Batching
  <2>2. history' # <<>> /\ Len(history'[Len(history')]) = Len(action)
    <3>1. /\ Len(Append(history, action)) = Len(history) + 1 /\ Append(history, action)[Len(history) + 1] = action
          /\ Append(history, action) # <<>>
      BY <1>0
    <3> QED BY <2>1, <3>1
  <2> QED BY <2>1, <2>2 DEF Abstract!vars
<1>13. CASE SignalStop
  BY <1>13, DialogueQuiet DEF SignalStop, Seen, Over
<1>14. CASE CloseModel
  BY <1>14, DialogueQuiet DEF CloseModel, Seen, Over
<1>15. CASE Conclude
  <2>1. CASE pc' = "returned"
    <3>1. /\ ~Over /\ Over' /\ UNCHANGED Seen
          /\ ending' = "finalized" => ending = "finalized"
      BY <1>15, <2>1, InterruptionTyped DEF Conclude, Nothing, Over, Seen
    <3>2. CASE ending' = "finalized"
      <4>1. action = <<>> /\ decisions = Len(history) + 1
        BY <3>1, <3>2 DEF Said
      <4>2. Abstract!Finalize
        BY <3>1, <3>2, <4>1 DEF Abstract!Finalize, Seen
      <4> QED BY <4>2 DEF Abstract!Next
    <3>3. CASE ending' # "finalized"
      <4>1. Abstract!Stop
        BY <3>1, <3>3 DEF Abstract!Stop, Seen
      <4> QED BY <4>1 DEF Abstract!Next
    <3> QED BY <3>2, <3>3
  <2>2. CASE pc' # "returned"
    BY <1>15, <2>2, DialogueQuiet DEF Conclude, Nothing, Seen, Over
  <2> QED BY <2>1, <2>2
<1>16. CASE Raise
  <2>1. ~Over /\ Over' /\ UNCHANGED Seen /\ ending' # "finalized"
    BY <1>16 DEF Raise, Over, Seen, Blamed
  <2>2. Abstract!Stop
    BY <2>1 DEF Abstract!Stop, Seen
  <2> QED BY <2>2 DEF Abstract!Next
<1>17. CASE ModelTakes
  BY <1>17, DialogueQuiet DEF ModelTakes, Seen, Over
<1>18. CASE ModelReplies
  BY <1>18, DialogueQuiet DEF ModelReplies, Seen, Over
<1>19. CASE ModelEnds
  BY <1>19, DialogueQuiet DEF ModelEnds, Seen, Over
<1>20. CASE ToolReplies
  BY <1>20, DialogueQuiet DEF ToolReplies, Seen, Over
<1>21. CASE ToolEnds
  BY <1>21, DialogueQuiet DEF ToolEnds, Seen, Over
<1>22. CASE ToolExpires
  BY <1>22, DialogueQuiet DEF ToolExpires, Seen, Over
<1>23. CASE Cancel
  BY <1>23, DialogueQuiet DEF Cancel, Seen, Over
<1>24. CASE Expire
  BY <1>24, DialogueQuiet DEF Expire, Seen, Over
<1>25. CASE UNCHANGED vars
  BY <1>25, DialogueQuiet DEF vars, Seen, Over
<1> QED BY <1>1, <1>2, <1>3, <1>4, <1>5, <1>6, <1>7, <1>8, <1>9, <1>10, <1>11, <1>12, <1>13,
   <1>14, <1>15, <1>16, <1>17, <1>18, <1>19, <1>20, <1>21, <1>22, <1>23, <1>24, <1>25
     DEF Next, Steps, Children, Terminated

\* The conversation a run drives is the bounded dialogue: no call is run twice,
\* every call is answered before the model is asked again, the budgets hold.
THEOREM RunIsADialogue == Spec => ImplementsDialogue
<1>1. Init => Abstract!Init
  BY DEF Init, Abstract!Init, Over
<1>2. IInv /\ [Next]_vars => [Abstract!Next]_(Abstract!vars)
  BY DialogueStep
<1> QED BY <1>1, <1>2, Invariance, PTL DEF Spec, ImplementsDialogue, Abstract!Spec

----------------------------------------------------------------------------
(* What a dialogue guarantees, whoever conducts it: any conversation that   *)
(* meets Dialogue, with as many decisions asked, such batches, so many      *)
(* answers to the last one, these tools started and that outcome.           *)

VARIABLES asked, batches, answers, started, outcome

D == INSTANCE Dialogue WITH
  decisions <- asked, rounds <- batches, answered <- answers, ran <- started, verdict <- outcome

\* A decision is asked for only when the last batch is answered, and answered
\* by at most one batch: decisions is at most one ahead of the rounds.
Ahead == asked \in {Len(batches), Len(batches) + 1}
DialogueInv == D!TypeOK /\ D!NeverTwice /\ D!AnsweredFirst /\ D!Budgets /\ Ahead

LEMMA DialogueInit == ASSUME D!DialogueAssumption PROVE D!Init => DialogueInv
  <1> USE DEF D!DialogueAssumption
  <1> SUFFICES ASSUME D!Init PROVE DialogueInv
    OBVIOUS
  <1>1. D!TypeOK
    BY DEF D!Init, D!TypeOK
  <1>2. D!NeverTwice /\ D!AnsweredFirst /\ D!Budgets /\ Ahead
    BY DEF D!Init, D!NeverTwice, D!AnsweredFirst, D!Budgets, Ahead, D!Settled
  <1> QED
    BY <1>1, <1>2 DEF DialogueInv

LEMMA StepTypeOK ==
  ASSUME D!DialogueAssumption PROVE D!TypeOK /\ [D!Next]_(D!vars) => D!TypeOK'
  <1> USE DEF D!DialogueAssumption, D!TypeOK
  <1> SUFFICES ASSUME D!TypeOK, [D!Next]_(D!vars) PROVE D!TypeOK'
    OBVIOUS
  <1>1. CASE D!Decide
    BY <1>1 DEF D!Decide
  <1>2. ASSUME NEW calls \in Batches, D!Batch(calls) PROVE D!TypeOK'
    BY <1>2 DEF D!Batch
  <1>3. ASSUME NEW c \in Calls, D!Run(c) PROVE D!TypeOK'
    BY <1>3 DEF D!Run
  <1>4. CASE D!Answer
    BY <1>4 DEF D!Answer
  <1>5. CASE D!Finalize \/ D!Stop
    BY <1>5 DEF D!Finalize, D!Stop
  <1>6. CASE UNCHANGED D!vars
    BY <1>6 DEF D!vars
  <1> QED
    BY <1>1, <1>2, <1>3, <1>4, <1>5, <1>6 DEF D!Next

LEMMA StepNeverTwice == D!TypeOK /\ D!NeverTwice /\ [D!Next]_(D!vars) => D!NeverTwice'
  <1> SUFFICES ASSUME D!TypeOK, D!NeverTwice, [D!Next]_(D!vars) PROVE D!NeverTwice'
    OBVIOUS
  <1>1. ASSUME NEW c \in Calls, D!Run(c) PROVE D!NeverTwice'
    <2>1. /\ started \in Seq(Calls) /\ started' = Append(started, c)
          /\ c \notin Prior /\ \A i \in 1 .. Len(started) : started[i] # c
      BY <1>1 DEF D!Run, D!Started, D!TypeOK
    <2>2. /\ Len(started') = Len(started) + 1
          /\ started'[Len(started) + 1] = c
          /\ \A i \in 1 .. Len(started) : started'[i] = started[i]
      BY <2>1
    <2> QED
      BY <2>1, <2>2 DEF D!NeverTwice
  <1>2. CASE UNCHANGED started
    BY <1>2 DEF D!NeverTwice
  <1> QED
    BY <1>1, <1>2 DEF D!Next, D!Decide, D!Batch, D!Answer, D!Finalize, D!Stop, D!vars

LEMMA StepRest ==
  ASSUME D!DialogueAssumption
  PROVE  DialogueInv /\ [D!Next]_(D!vars) => D!AnsweredFirst' /\ D!Budgets' /\ Ahead'
  <1> USE DEF D!DialogueAssumption, D!TypeOK, D!AnsweredFirst, D!Budgets, Ahead
  <1> SUFFICES ASSUME D!TypeOK, D!AnsweredFirst, D!Budgets, Ahead, [D!Next]_(D!vars)
               PROVE D!AnsweredFirst' /\ D!Budgets' /\ Ahead'
    BY DEF DialogueInv
  <1>1. CASE D!Decide
    BY <1>1 DEF D!Decide, D!Settled
  <1>2. ASSUME NEW calls \in Batches, D!Batch(calls)
        PROVE D!AnsweredFirst' /\ D!Budgets' /\ Ahead'
    BY <1>2 DEF D!Batch
  <1>3. ASSUME NEW c \in Calls, D!Run(c) PROVE D!AnsweredFirst' /\ D!Budgets' /\ Ahead'
    BY <1>3 DEF D!Run, D!Settled
  <1>4. CASE D!Answer
    BY <1>4 DEF D!Answer
  <1>5. CASE D!Finalize \/ D!Stop
    BY <1>5 DEF D!Finalize, D!Stop, D!Settled
  <1>6. CASE UNCHANGED D!vars
    BY <1>6 DEF D!vars, D!Settled
  <1> QED
    BY <1>1, <1>2, <1>3, <1>4, <1>5, <1>6 DEF D!Next

LEMMA DialogueInductive == ASSUME D!DialogueAssumption PROVE D!Spec => []DialogueInv
  <1>1. DialogueInv /\ [D!Next]_(D!vars) => DialogueInv'
    BY StepTypeOK, StepNeverTwice, StepRest DEF DialogueInv
  <1> QED
    BY DialogueInit, <1>1, PTL DEF D!Spec

\* No identifier of the run or of its history starts a tool twice.
THEOREM NoCallTwice == ASSUME D!DialogueAssumption PROVE D!Spec => []D!NeverTwice
  BY DialogueInductive, PTL DEF DialogueInv

\* The model is asked, or believed to be final, only when every call of the
\* last batch has its answer.
THEOREM AnswersComeFirst == ASSUME D!DialogueAssumption PROVE D!Spec => []D!AnsweredFirst
  BY DialogueInductive, PTL DEF DialogueInv

\* Neither budget is ever exceeded.
THEOREM BudgetsHold == ASSUME D!DialogueAssumption PROVE D!Spec => []D!Budgets
  BY DialogueInductive, PTL DEF DialogueInv
=============================================================================
