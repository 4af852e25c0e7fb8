----------------------------- MODULE Trajectory -----------------------------
(***************************************************************************)
(* run_trajectory (client/trajectory.py): remote decisions, each made by   *)
(* RemoteClient.decision (see Client), and local tools, each run in a      *)
(* process of its own (see Harness).  Unlike the harness it checks a whole *)
(* batch before it runs the first of its calls.                            *)
(***************************************************************************)
EXTENDS Naturals, Sequences, SequencesExt

CONSTANTS
  Calls, Prior, Batches, MaxDecisions, MaxToolRounds,  \* as in Dialogue
  Refused  \* calls that are not advertised, or that registry.validate rejects

ASSUME TrajectoryAssumption ==
  /\ Prior \cup Refused \subseteq Calls
  /\ \A b \in Batches : b \in Seq(Calls) /\ b # <<>> /\ IsInjective(b)
  /\ MaxDecisions \in Nat \ {0} /\ MaxToolRounds \in Nat

VARIABLES
  pc, status,          \* the next statement; summary["status"]
  cancelled, expired,  \* the token and the local deadline
  decisions, rounds,   \* budget
  history, action, observed, seen,  \* as in Harness
  reply,               \* the decision being acted upon
  tool, ran, orphaned, \* the tool child; process_records and whether one was not reaped
  final                \* final_action is set

clocks == <<cancelled, expired>>
budget == <<decisions, rounds>>
prefix == <<history, action, observed, seen>>
tools == <<tool, ran, orphaned>>
vars == <<pc, status, clocks, budget, prefix, reply, tools, final>>

\* What decision returns: a completed one holds a checked action.
NoDecision == [status |-> "none", calls |-> <<>>]
Undecided == [status : {"parse_failure", "budget_exhausted", "cancelled", "timed_out", "rejected",
                       "infrastructure_error"},
              calls : {<<>>}]
Decisions == Undecided \cup [status : {"completed"}, calls : Batches \cup {<<>>}]

\* What a tool ends with: its status and whether a failure may be tried again.
Result(s, again) == [status |-> s, retryable |-> again]
NoResult == Result("none", FALSE)
ToolResults == {Result("completed", FALSE), Result("rejected", FALSE), Result("error", TRUE),
                Result("error", FALSE)}

Init ==
  /\ pc = "head" /\ status = "unknown"
  /\ cancelled = FALSE /\ expired = FALSE
  /\ decisions = 0 /\ rounds = 0
  /\ history = <<>> /\ action = <<>> /\ observed = 0 /\ seen = Prior
  /\ reply = NoDecision
  /\ tool = NoResult /\ ran = <<>> /\ orphaned = FALSE
  /\ final = FALSE

Interrupted == cancelled \/ expired
Interruption == IF cancelled THEN "cancelled" ELSE "timed_out"
Stop(s) == status' = s /\ pc' = "end"
Go(to) == pc' = to /\ UNCHANGED status

Interrupt ==
  /\ pc \in {"head", "act", "calls"} /\ Interrupted
  /\ Stop(Interruption)
  /\ UNCHANGED <<clocks, budget, prefix, reply, tools, final>>

Ask ==
  /\ pc = "head" /\ ~Interrupted
  /\ IF decisions < MaxDecisions
     THEN decisions' = decisions + 1 /\ Go("deciding")
     ELSE UNCHANGED decisions /\ Stop("budget_exhausted")
  /\ UNCHANGED <<clocks, rounds, prefix, reply, tools, final>>

\* decision returns.
Decided ==
  /\ pc = "deciding"
  /\ \E d \in Decisions :
       /\ reply' = d
       /\ IF d.status = "completed" THEN Go("act") ELSE Stop(d.status)
  /\ UNCHANGED <<clocks, decisions, rounds, prefix, tools, final>>

\* decision raises: its receipt cannot be written.
DecisionRaises ==
  /\ pc = "deciding"
  /\ Stop("rejected")
  /\ UNCHANGED <<clocks, budget, prefix, reply, tools, final>>

\* Mutant: identifiers of earlier batches are not looked up.
AcceptableAgain(calls) == Range(calls) \cap Refused = {}
\* Mutant: the checks of a batch look at its first call only.
AcceptableFirst(calls) == calls[1] \notin seen \cup Refused
\* Every call of the batch is new, advertised and valid.
Acceptable(calls) == Range(calls) \cap (seen \cup Refused) = {}

\* A final action ends the trajectory; calls are checked, then run.
Act ==
  /\ pc = "act" /\ ~Interrupted
  /\ CASE reply.calls = <<>> ->
            /\ final' = TRUE
            /\ Stop("finalized")
            /\ UNCHANGED <<seen, rounds, action>>
       [] reply.calls # <<>> /\ rounds >= MaxToolRounds ->
            /\ Stop("budget_exhausted")
            /\ UNCHANGED <<seen, rounds, action, final>>
       [] reply.calls # <<>> /\ rounds < MaxToolRounds /\ ~Acceptable(reply.calls) ->
            /\ Stop("rejected")
            /\ UNCHANGED <<seen, rounds, action, final>>
       [] OTHER ->
            /\ seen' = seen \cup Range(reply.calls)
            /\ rounds' = rounds + 1
            /\ action' = reply.calls
            /\ Go("calls")
            /\ UNCHANGED final
  /\ UNCHANGED <<clocks, decisions, history, observed, reply, tools>>

Current == action[observed + 1]

\* execute: refused by the token, by the wall clock or by a failing start, or a
\* process is started.
Call ==
  /\ pc = "calls" /\ ~Interrupted
  /\ \/ /\ tool' \in {Result("timed_out", FALSE), Result("error", FALSE)}
        /\ UNCHANGED ran
        /\ Go("observe")
     \/ /\ ran' = Append(ran, Current)
        /\ tool' = NoResult
        /\ Go("tool")
  /\ UNCHANGED <<clocks, budget, prefix, reply, orphaned, final>>

\* wait returns: the tool's result, a cancellation, or a timeout, which may be
\* tried again only if the tool's own limit was the shorter one.
ToolReturns ==
  /\ pc = "tool"
  /\ IF cancelled THEN tool' = Result("cancelled", FALSE)
     ELSE tool' \in ToolResults \cup {Result("timed_out", again) : again \in BOOLEAN}
  /\ Go("reap")
  /\ UNCHANGED <<clocks, budget, prefix, reply, ran, orphaned, final>>

\* close: the child is reaped, or an error ends the trajectory.
Reap ==
  /\ pc = "reap"
  /\ \/ Go("observe") /\ UNCHANGED orphaned
     \/ Stop("rejected") /\ orphaned' = TRUE
  /\ UNCHANGED <<clocks, budget, prefix, reply, tool, ran, final>>

Observe ==
  /\ pc = "observe"
  /\ observed' = observed + 1
  /\ IF tool.status # "completed" /\ ~tool.retryable
     THEN Stop(IF tool.status \in {"cancelled", "timed_out"} THEN tool.status ELSE "rejected")
     ELSE Go(IF observed' = Len(action) THEN "bound" ELSE "calls")
  /\ UNCHANGED <<clocks, budget, history, action, seen, reply, tools, final>>

\* bound_input and encode may refuse the longer prefix.
Bound ==
  /\ pc = "bound"
  /\ history' = Append(history, action)
  /\ action' = <<>> /\ observed' = 0
  /\ Go("head") \/ Stop("rejected")
  /\ UNCHANGED <<clocks, budget, seen, reply, tools, final>>

\* The finally clause; the summary may fail to be written, which raises.
Summarize ==
  /\ pc = "end"
  /\ \E to \in {"returned", "raised"} : Go(to)
  /\ UNCHANGED <<clocks, budget, prefix, reply, tools, final>>

Over == pc \in {"returned", "raised"}
Cancel ==
  /\ ~cancelled /\ ~Over
  /\ cancelled' = TRUE
  /\ UNCHANGED <<pc, status, expired, budget, prefix, reply, tools, final>>
Expire ==
  /\ ~expired /\ ~Over
  /\ expired' = TRUE
  /\ UNCHANGED <<pc, status, cancelled, budget, prefix, reply, tools, final>>
Terminated == Over /\ UNCHANGED vars

Next ==
  \/ Interrupt \/ Ask \/ Decided \/ DecisionRaises \/ Act \/ Call \/ ToolReturns
  \/ Reap \/ Observe \/ Bound \/ Summarize \/ Cancel \/ Expire \/ Terminated

Spec == Init /\ [][Next]_vars

----------------------------------------------------------------------------
(* Properties.                                                             *)

\* The batches of the conversation, the one being run included.
Conversation == IF action = <<>> THEN history ELSE Append(history, action)

\* A batch runs as a whole or not at all.  No batch enters the conversation with
\* a call that is not advertised, is invalid or repeats an identifier, of the
\* history or of an earlier batch; and no tool is started, and no answer given,
\* except for calls of the conversation.
NothingOfARefusedBatch ==
  /\ \A k \in DOMAIN Conversation : \A c \in Range(Conversation[k]) :
       /\ c \notin Prior \cup Refused
       /\ \A j \in 1 .. k - 1 : c \notin Range(Conversation[j])
  /\ \A i \in DOMAIN ran : \E k \in DOMAIN Conversation : ran[i] \in Range(Conversation[k])
  /\ observed <= Len(action)

\* The conversation it drives is the bounded dialogue.
Abstract == INSTANCE Dialogue WITH
  rounds <- Conversation,
  answered <- IF action # <<>> THEN observed
              ELSE IF history = <<>> THEN 0 ELSE Len(history[Len(history)]),
  verdict <- IF ~Over THEN "open" ELSE IF status = "finalized" THEN "finalized" ELSE "stopped"
ImplementsDialogue == Abstract!Spec
=============================================================================
