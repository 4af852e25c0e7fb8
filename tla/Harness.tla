------------------------------ MODULE Harness ------------------------------
(***************************************************************************)
(* LocalHarness.run (evaluation/harness.py) with the two kinds of process  *)
(* it owns: the model child, asked over packets in a directory, and one    *)
(* tool child per executed call (tools/executor.py, tools/isolation.py).   *)
(* The caller's token and the clock may interrupt it between any two steps;*)
(* either child may hang, die or answer late.                              *)
(***************************************************************************)
EXTENDS Naturals, FiniteSets, Verdict

CONSTANTS
  Prior,         \* call identifiers of the history the run starts from
  Refused,       \* calls of a tool not advertised, or that registry.validate rejects
  Batches,       \* the batches of calls one reply may hold: no identifier twice
  Finals,        \* the final actions a reply may hold
  MaxDecisions,  \* MAX_DECISIONS
  MaxToolRounds, \* MAX_TOOL_ROUNDS
  Truths         \* the oracle payloads of the tasks

ASSUME HarnessAssumption ==
  /\ Prior \cup Refused \subseteq Calls
  /\ \A b \in Batches : b \in Seq(Calls) /\ b # <<>> /\ IsInjective(b)
  /\ NoCall \notin Finals
  /\ MaxDecisions \in Nat \ {0} /\ MaxToolRounds \in Nat

VARIABLES
  pc, ending,          \* the next statement of run; event given to finish
  recovery, truth,     \* recovery_enabled; the oracle payload of the task
  cancelled, expired,  \* the caller's token; the monotonic expiry
  trace,
  decisions, rounds, tokens,  \* budget
  complete,            \* accounting_complete
  history,             \* the batches appended to the prefix
  action, observed,    \* the batch being run; how many observations it has
  seen,                \* seen_calls
  model,               \* the model child and its directory: see NoModel
  tool, result,        \* the tool child: see NoTool; what execute returns
  ran,                 \* the calls executor.process_records has a process for
  final, score,
  attempted, unclean   \* session_cleanup_attempted; cleanup_errors is not empty

control == <<pc, ending>>
inputs == <<recovery, truth, cancelled, expired>>
budget == <<decisions, rounds, tokens, complete>>
prefix == <<history, action, observed, seen>>
tools == <<tool, result, ran>>
verdict == <<final, score, attempted, unclean>>
vars == <<control, inputs, trace, budget, prefix, model, tools, verdict>>

\* What a reply of the model that is not followed further ends the run with.
RefusedBy == [error |-> "rejected", oversize |-> "rejected", uncounted |-> "rejected",
              foreign |-> "rejected", length |-> "budget_exhausted", late |-> "timed_out",
              dropped |-> "cancelled", unfinished |-> "rejected", garbled |-> "rejected"]
Refusals == DOMAIN RefusedBy
Replies == [kind : Refusals, calls : {<<>>}, final : {NoCall}]
             \cup [kind : {"calls"}, calls : Batches, final : {NoCall}]
             \cup [kind : {"final"}, calls : {<<>>}, final : Finals]
\* Both token counts of the reply are known; the first two carry no output.
Counted(r) == r.kind \notin {"error", "uncounted"}
Output(r) == r.kind \notin {"error", "oversize", "uncounted"}

\* A tool result; only a failure may be retryable.
Done == [status |-> "completed", retryable |-> FALSE]
Failed(s, again) == [status |-> s, retryable |-> again]
NoResult == Failed("none", FALSE)
ChildResults == {Done, Failed("error", TRUE), Failed("error", FALSE), Failed("rejected", FALSE)}

\* proc is none, alive, dead or reaped; asked, took and replies are the packets
\* written for the child, read by it, and written by it.
NoModel == [proc |-> "none", asked |-> 0, took |-> 0, replies |-> <<>>, stop |-> FALSE]
NoTool == [proc |-> "none", reply |-> NoResult, late |-> FALSE]

Init ==
  /\ pc = "start" /\ ending = "none"
  /\ recovery \in BOOLEAN /\ truth \in Truths
  /\ cancelled = FALSE /\ expired = FALSE
  /\ trace = <<>>
  /\ decisions = 0 /\ rounds = 0 /\ tokens = 0 /\ complete = TRUE
  /\ history = <<>> /\ action = <<>> /\ observed = 0 /\ seen = Prior
  /\ model = NoModel
  /\ tool = NoTool /\ result = NoResult /\ ran = <<>>
  /\ final = NoCall /\ score = "none" /\ attempted = FALSE /\ unclean = FALSE

\* Mutant: only the token ends a wait.
InterruptionByToken == IF cancelled THEN "cancelled" ELSE "none"

\* interrupted(): the token is asked before the clock.
Interruption == IF cancelled THEN "cancelled" ELSE IF expired THEN "timed_out" ELSE "none"
Interrupted == Interruption # "none"

Go(to) == pc' = to /\ UNCHANGED ending
Finish(event) == pc' = "finish" /\ ending' = event
Emit(e) == trace' = Append(trace, e)

----------------------------------------------------------------------------
(* The statements of run up to the reply of the model.                     *)

Receive ==
  /\ pc = "start"
  /\ \/ /\ trace' = <<Event("received"), Event("validated")>>
        /\ Go("loop")
     \/ /\ trace' = <<Event("received")>>   \* invalid_context, invalid_model_input
        /\ Finish("rejected")
  /\ UNCHANGED <<inputs, budget, prefix, model, tools, verdict>>

\* The model is asked, which starts its process the first time.
Ask ==
  /\ pc = "loop" /\ decisions < MaxDecisions /\ ~Interrupted
  /\ Emit(Event("generating"))
  /\ decisions' = decisions + 1
  /\ LET started == IF model.proc = "none" THEN [model EXCEPT !.proc = "alive"] ELSE model
     IN \/ /\ model' = [started EXCEPT !.asked = decisions']
           /\ Go("waiting")
        \/ /\ model' = started           \* the request cannot be written
           /\ Finish("rejected")
        \/ /\ model.proc = "none"        \* the process cannot be started
           /\ UNCHANGED model
           /\ Finish("rejected")
  /\ UNCHANGED <<inputs, rounds, tokens, complete, prefix, tools, verdict>>

\* The loop is left at its head, or at one of the two later checks of
\* interrupted(): the budget of decisions is asked before the token.
Spent == pc = "loop" /\ decisions = MaxDecisions
Leave ==
  /\ pc \in {"loop", "parsed", "calls"}
  /\ ~Spent => Interrupted
  /\ Finish(IF Spent THEN "budget_exhausted" ELSE Interruption)
  /\ UNCHANGED <<inputs, trace, budget, prefix, model, tools, verdict>>

Replied == Len(model.replies) = decisions

\* Mutant: an interrupted wait leaves the accounting complete.
NoReplyKept ==
  /\ pc = "waiting"
  /\ Interrupted \/ model.proc = "dead" \/ Replied
  /\ Finish(IF Interrupted THEN Interruption ELSE "rejected")
  /\ UNCHANGED <<inputs, trace, budget, prefix, model, tools, verdict>>

\* session.wait, given a token that the expiry cancels too, returns no packet:
\* it was interrupted, the child is gone, or its packet cannot be read.
NoReply ==
  /\ pc = "waiting"
  /\ Interrupted \/ model.proc = "dead" \/ Replied
  /\ complete' = FALSE
  /\ Finish(IF Interrupted THEN Interruption ELSE "rejected")
  /\ UNCHANGED <<inputs, trace, decisions, rounds, tokens, prefix, model, tools, verdict>>

\* Tokens are counted before anything else is asked of the reply.
TakeReply ==
  /\ pc = "waiting" /\ ~Interrupted /\ Replied
  /\ LET r == model.replies[decisions]
     IN /\ complete' = Counted(r)
        /\ tokens' = IF Counted(r) THEN tokens + 1 ELSE tokens
        /\ IF Output(r) THEN Emit(Event("parsing")) ELSE UNCHANGED trace
        /\ IF r.kind \in Refusals THEN Finish(RefusedBy[r.kind]) ELSE Go("parsed")
  /\ UNCHANGED <<inputs, decisions, rounds, prefix, model, tools, verdict>>

Act ==
  /\ pc = "parsed" /\ ~Interrupted
  /\ LET r == model.replies[decisions]
     IN CASE r.kind = "final" ->
               /\ final' = r.final
               /\ Finish("finalized")
               /\ UNCHANGED <<rounds, action>>
          [] r.kind = "calls" /\ rounds >= MaxToolRounds ->
               /\ Finish("budget_exhausted")
               /\ UNCHANGED <<final, rounds, action>>
          [] OTHER ->
               /\ rounds' = rounds + 1
               /\ action' = r.calls
               /\ Go("calls")
               /\ UNCHANGED final
  /\ UNCHANGED <<inputs, trace, decisions, tokens, complete, history, observed, seen,
                 model, tools, score, attempted, unclean>>

----------------------------------------------------------------------------
(* One call of the batch: its checks, its execution, its observation.      *)

Current == action[observed + 1]

\* Mutant: seen_calls is not consulted.
CheckCallUnseen ==
  /\ pc = "calls" /\ ~Interrupted
  /\ Emit(Execution(Current))
  /\ seen' = seen \cup {Current}
  /\ IF Current \in Refused THEN Finish("rejected") ELSE Go("execute")
  /\ UNCHANGED <<inputs, budget, history, action, observed, model, tools, verdict>>

CheckCall ==
  /\ pc = "calls" /\ ~Interrupted
  /\ Emit(Execution(Current))
  /\ seen' = seen \cup {Current}
  /\ IF Current \in seen \cup Refused THEN Finish("rejected") ELSE Go("execute")
  /\ UNCHANGED <<inputs, budget, history, action, observed, model, tools, verdict>>

\* execute, before its process: the token, the deadline by the wall clock,
\* which need not agree with the monotonic expiry, and a start that fails.
Execute ==
  /\ pc = "execute"
  /\ \/ /\ result' = IF Interrupted THEN Failed("cancelled", FALSE) ELSE Failed("timed_out", FALSE)
        /\ Go("observe")
        /\ UNCHANGED <<tool, ran>>
     \/ /\ ~Interrupted
        /\ result' = Failed("error", FALSE)
        /\ Go("observe")
        /\ UNCHANGED <<tool, ran>>
     \/ /\ ~Interrupted
        /\ tool' = [NoTool EXCEPT !.proc = "alive"]
        /\ ran' = Append(ran, Current)
        /\ Go("tool")
        /\ UNCHANGED result
  /\ UNCHANGED <<inputs, trace, budget, prefix, model, verdict>>

\* One turn of owned.wait that ends it; a timeout of the tool itself, not of
\* the request, is retryable.
AwaitTool ==
  /\ pc = "tool"
  /\ CASE Interrupted -> result' = Failed("cancelled", FALSE)
       [] ~Interrupted /\ tool.late ->
            \E again \in BOOLEAN : result' = Failed("timed_out", again)
       [] ~Interrupted /\ ~tool.late /\ tool.reply # NoResult -> result' = tool.reply
       [] OTHER -> tool.proc = "dead" /\ result' = Failed("error", FALSE)
  /\ Go("reap")
  /\ UNCHANGED <<inputs, trace, budget, prefix, model, tool, ran, verdict>>

\* owned.close in the finally of execute: an OSError of the directory ends the
\* run as rejected, a child that survives kill leaves run by a RuntimeError.
ReapTool ==
  /\ pc = "reap"
  /\ \/ tool' = [tool EXCEPT !.proc = "reaped"] /\ Go("observe")
     \/ tool' = [tool EXCEPT !.proc = "reaped"] /\ Finish("rejected")
     \/ tool.proc = "alive" /\ UNCHANGED tool /\ Go("raising")
  /\ UNCHANGED <<inputs, trace, budget, prefix, model, result, ran, verdict>>

\* Mutant: interrupted() is not asked after the tool.
ObserveBlindly ==
  /\ pc = "observe"
  /\ Emit(Observation(Current, result.status))
  /\ observed' = observed + 1
  /\ CASE result.retryable /\ ~recovery -> Finish("rejected")
       [] result.status # "completed" /\ ~result.retryable ->
            Finish(IF result.status \in {"cancelled", "timed_out"} THEN result.status ELSE "rejected")
       [] OTHER -> Go(IF observed' = Len(action) THEN "extend" ELSE "calls")
  /\ UNCHANGED <<inputs, budget, history, action, seen, model, tools, verdict>>

\* Mutant: a failure that is tried again is not observed.
ObserveFinalOnly ==
  /\ pc = "observe"
  /\ IF result.retryable THEN UNCHANGED trace ELSE Emit(Observation(Current, result.status))
  /\ observed' = observed + 1
  /\ CASE Interrupted -> Finish(Interruption)
       [] ~Interrupted /\ result.retryable /\ ~recovery -> Finish("rejected")
       [] ~Interrupted /\ result.status # "completed" /\ ~result.retryable -> Finish("rejected")
       [] OTHER -> Go(IF observed' = Len(action) THEN "extend" ELSE "calls")
  /\ UNCHANGED <<inputs, budget, history, action, seen, model, tools, verdict>>

Observe ==
  /\ pc = "observe"
  /\ Emit(Observation(Current, result.status))
  /\ observed' = observed + 1
  /\ CASE Interrupted -> Finish(Interruption)
       [] ~Interrupted /\ result.retryable /\ ~recovery -> Finish("rejected")
       [] ~Interrupted /\ result.status # "completed" /\ ~result.retryable ->
            Finish(IF result.status \in {"cancelled", "timed_out"} THEN result.status ELSE "rejected")
       [] OTHER -> Go(IF observed' = Len(action) THEN "extend" ELSE "calls")
  /\ UNCHANGED <<inputs, budget, history, action, seen, model, tools, verdict>>

\* The batch and its observations join the prefix, which may be too large now.
Extend ==
  /\ pc = "extend"
  /\ history' = Append(history, action)
  /\ action' = <<>> /\ observed' = 0
  /\ Go("loop") \/ Finish("rejected")
  /\ UNCHANGED <<inputs, trace, budget, seen, model, tools, verdict>>

----------------------------------------------------------------------------
(* finish, which run may enter twice, and the RuntimeError that skips it.  *)

SignalStop ==
  /\ pc = "finish" /\ model.proc # "none" /\ ~attempted
  /\ attempted' = TRUE
  /\ \/ model' = [model EXCEPT !.stop = TRUE] /\ UNCHANGED unclean
     \/ unclean' = TRUE /\ UNCHANGED model
  /\ Go("close")
  /\ UNCHANGED <<inputs, trace, budget, prefix, tools, final, score>>

\* session.close: the child is reaped, or is not; its directory may stay.
CloseModel ==
  /\ pc = "close"
  /\ \/ model' = [model EXCEPT !.proc = "reaped"] /\ unclean' \in {unclean, TRUE}
     \/ model.proc = "alive" /\ UNCHANGED model /\ unclean' = TRUE
  /\ Go("verdict")
  /\ UNCHANGED <<inputs, trace, budget, prefix, tools, final, score, attempted>>

Nothing == pc = "finish" /\ (model.proc = "none" \/ attempted)
\* Mutant: neither the interruption nor the cleanup overrules "finalized".
ConcludeEarly ==
  /\ (pc = "verdict" \/ Nothing)
  /\ score' = IF ending = "finalized" THEN Score(truth, trace, final) ELSE "failure"
  /\ Emit(Event(ending))
  /\ pc' = "returned"
  /\ UNCHANGED <<inputs, ending, budget, prefix, model, tools, final, attempted, unclean>>

Conclude ==
  /\ (pc = "verdict" \/ Nothing)
  /\ LET late == IF ending = "finalized" /\ Interrupted THEN Interruption ELSE ending
         event == IF unclean /\ late = "finalized" THEN "rejected" ELSE late
     IN \/ /\ score' = IF event = "finalized" THEN Score(truth, trace, final) ELSE "failure"
           /\ Emit(Event(event))
           /\ pc' = "returned" /\ ending' = event
        \/ /\ event = "finalized"     \* the caller's own oracle raises
           /\ Finish("rejected")
           /\ UNCHANGED <<score, trace>>
  /\ UNCHANGED <<inputs, budget, prefix, model, tools, final, attempted, unclean>>

Raise ==
  /\ pc = "raising"
  /\ model' \in {model, [model EXCEPT !.proc = "reaped"]}
  /\ model.proc # "alive" => model'.proc = "reaped"
  /\ Go("raised")
  /\ UNCHANGED <<inputs, trace, budget, prefix, tools, verdict>>

----------------------------------------------------------------------------
(* The children, the caller and the clock.                                 *)

outside == <<control, trace, budget, prefix, ran, result, verdict>>

ModelTakes ==
  /\ model.proc = "alive" /\ Len(model.replies) = model.took /\ model.took < model.asked
  /\ model' = [model EXCEPT !.took = @ + 1]
  /\ UNCHANGED <<outside, inputs, tool>>

ModelReplies ==
  /\ model.proc = "alive" /\ Len(model.replies) < model.took
  /\ \E r \in Replies : model' = [model EXCEPT !.replies = Append(@, r)]
  /\ UNCHANGED <<outside, inputs, tool>>

\* It leaves when told to, after its last reply, or at any time by dying.
ModelEnds ==
  /\ model.proc = "alive"
  /\ model' = [model EXCEPT !.proc = "dead"]
  /\ UNCHANGED <<outside, inputs, tool>>

ToolReplies ==
  /\ tool.proc = "alive" /\ tool.reply = NoResult
  /\ \E r \in ChildResults : tool' = [tool EXCEPT !.reply = r]
  /\ UNCHANGED <<outside, inputs, model>>

ToolEnds ==
  /\ tool.proc = "alive"
  /\ tool' = [tool EXCEPT !.proc = "dead"]
  /\ UNCHANGED <<outside, inputs, model>>

ToolExpires ==
  /\ pc = "tool" /\ ~tool.late
  /\ tool' = [tool EXCEPT !.late = TRUE]
  /\ UNCHANGED <<outside, inputs, model>>

Over == pc \in {"returned", "raised"}
Cancel ==
  /\ ~cancelled /\ ~Over
  /\ cancelled' = TRUE
  /\ UNCHANGED <<outside, recovery, truth, expired, model, tool>>
Expire ==
  /\ ~expired /\ ~Over
  /\ expired' = TRUE
  /\ UNCHANGED <<outside, recovery, truth, cancelled, model, tool>>

Steps ==
  \/ Receive \/ Ask \/ Leave \/ NoReply \/ TakeReply \/ Act
  \/ CheckCall \/ Execute \/ AwaitTool \/ ReapTool \/ Observe \/ Extend
  \/ SignalStop \/ CloseModel \/ Conclude \/ Raise
Children == ModelTakes \/ ModelReplies \/ ModelEnds \/ ToolReplies \/ ToolEnds \/ ToolExpires
Terminated == Over /\ UNCHANGED vars

Next == Steps \/ Children \/ Cancel \/ Expire \/ Terminated

\* The harness goes on, and the clock does; the children need not.
Spec == Init /\ [][Next]_vars /\ WF_vars(Steps) /\ WF_vars(Expire)

----------------------------------------------------------------------------
(* Properties.                                                             *)

\* A token count called complete is complete: it counts every request that the
\* model was ever given, whatever ended the run.
CountedTruly ==
  complete /\ pc # "waiting" => tokens = model.took /\ model.took = model.asked

\* "cancelled" and "timed_out" say what happened, although the children are
\* stopped by one token that cannot tell the two apart.
EndsHonestly ==
  pc = "returned" =>
    /\ ending = "cancelled" => cancelled \/ \E i \in DOMAIN model.replies : model.replies[i].kind = "dropped"
    /\ ending = "timed_out" =>
         \/ expired \/ result = Failed("timed_out", FALSE)
         \/ \E i \in DOMAIN model.replies : model.replies[i].kind = "late"

\* The oracle that replays the trace never finds it out of order, and sees
\* the observations of the run, retried failures included.
OrderTrusted ==
  LET steps == ToolEvents(trace)
  IN /\ Ordered(steps)
     /\ Pending(steps) => pc \notin {"loop", "waiting", "parsed"} /\ ending # "finalized"

\* Success is a finalized run whose processes are gone without an error, and a
\* finalized one has a final action and was interrupted by neither the token nor
\* the clock before its verdict.  However a run returns, and although finish may
\* be entered twice, it leaves no process behind that its records do not admit
\* to, and one terminal event, the last one of its trace, that says how it ended.
SuccessIsClean ==
  /\ score = "success" => pc = "returned" /\ ending = "finalized"
  /\ pc = "returned" =>
       /\ ending = "finalized" =>
            model.proc = "reaped" /\ ~unclean /\ final # NoCall /\ ~Interrupted
       /\ tool.proc # "alive" /\ (model.proc \in {"alive", "dead"} => unclean)
       /\ trace[Len(trace)] = Event(ending)
  /\ \A i \in DOMAIN trace :
       trace[i].event \in Unsuccessful \cup {"finalized"} => pc = "returned" /\ i = Len(trace)

\* A run that succeeds is one that extraction can use as a chosen answer: its
\* trace is what the decisions say, and it judges every one of them legal, from
\* what was observed before it (extract.verify_candidate, decision_verdict).
SuccessIsLegal ==
  score = "success" =>
    /\ Verified(trace, model.replies, complete)
    /\ \A i \in DOMAIN model.replies :
         DecisionVerdict(truth, Before(trace, model.replies, i), model.replies[i]) = "legal"

\* The conversation it drives is the bounded dialogue.
Abstract == INSTANCE Dialogue WITH
  rounds <- IF action = <<>> THEN history ELSE Append(history, action),
  answered <- IF action # <<>> THEN observed
              ELSE IF history = <<>> THEN 0 ELSE Len(history[Len(history)]),
  verdict <- IF ~Over THEN "open" ELSE IF ending = "finalized" THEN "finalized" ELSE "stopped"
ImplementsDialogue == Abstract!Spec

\* Every run ends although both children may hang and nobody cancels.
Ends == <>Over
=============================================================================
