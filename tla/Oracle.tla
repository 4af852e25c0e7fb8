------------------------------ MODULE Oracle ------------------------------
(***************************************************************************)
(* SemanticOracle.score (evaluation/oracles/semantic.py) over the trace of *)
(* a run: the causal order of its tool events is checked before anything   *)
(* is compared with the truth.  A step of a strategy is a pair of a tool   *)
(* and a result status; arguments and outputs are part of what names them. *)
(***************************************************************************)
EXTENDS Naturals, Sequences, SequencesExt

CONSTANTS
  Calls,   \* call identifiers
  NoCall,  \* a trace event without a tool call
  ToolOf   \* the tool, with its arguments, that a call names

ASSUME OracleAssumption == NoCall \notin Calls /\ DOMAIN ToolOf = Calls

\* An event of a trace; call and status are those of its call and result.
Event(e) == [event |-> e, call |-> NoCall, answers |-> NoCall, status |-> "none"]
Execution(c) == [Event("tool_execution") EXCEPT !.call = c]
Observation(c, s) == [Event("observing") EXCEPT !.call = c, !.answers = c, !.status = s]

Unsuccessful == {"rejected", "budget_exhausted", "timed_out", "cancelled"}

\* The events the loop over the trace does not skip.
ToolEvent(e) == e.event \in {"tool_execution", "observing"}
ToolEvents(events) ==
  FlattenSeq([i \in DOMAIN events |-> IF ToolEvent(events[i]) THEN <<events[i]>> ELSE <<>>])

\* The loop goes through: an execution when no call is pending, then nothing
\* but the observation of that very call.
Ordered(steps) ==
  \A i \in DOMAIN steps :
    IF i % 2 = 1 THEN steps[i].event = "tool_execution" /\ steps[i].call # NoCall
    ELSE /\ steps[i].event = "observing"
         /\ steps[i].call = steps[i - 1].call /\ steps[i].answers = steps[i - 1].call
Pending(steps) == Len(steps) % 2 = 1
Actual(steps) ==
  [i \in 1 .. Len(steps) \div 2 |-> <<ToolOf[steps[2 * i - 1].call], steps[2 * i].status>>]

\* truth is [known, strategies, answers]; final is an action, NoCall for None.
Score(truth, events, final) ==
  LET steps == ToolEvents(events)
  IN IF ~truth.known \/ ~Ordered(steps) THEN "unknown"
     ELSE IF /\ \A i \in DOMAIN events : events[i].event \notin Unsuccessful
             /\ ~Pending(steps)
             /\ Actual(steps) \in truth.strategies
             /\ final # NoCall /\ final \in truth.answers
          THEN "success" ELSE "failure"
=============================================================================
