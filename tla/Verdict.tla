------------------------------ MODULE Verdict ------------------------------
(***************************************************************************)
(* What preference extraction (data/preferences/extract.py) makes of a run:*)
(* verify_candidate reconstructs the whole trace from the decisions,       *)
(* decision_verdict judges one decision by what was observed before it.    *)
(* Closed domains and explicit calls, as data/preferences/tasks.py writes  *)
(* them; truth.required is the length of its first strategy.               *)
(***************************************************************************)
EXTENDS Oracle

\* A decision is [kind, calls, final]: "calls" or "final", or a refused one.
Blank(e) == IF e.event = "observing" THEN [e EXCEPT !.status = "any"] ELSE e

EventsOf(d) ==
  <<Event("generating"), Event("parsing")>>
    \o FlattenSeq([i \in DOMAIN d.calls |-> <<Execution(d.calls[i]), Observation(d.calls[i], "any")>>])

\* verify_candidate: nothing is missing in the trace, and nothing is left over.
Verified(events, decisions, complete) ==
  /\ complete /\ decisions # <<>>
  /\ \A i \in DOMAIN decisions : decisions[i].kind = IF i = Len(decisions) THEN "final" ELSE "calls"
  /\ [i \in DOMAIN events |-> Blank(events[i])] =
       <<Event("received"), Event("validated")>>
         \o FlattenSeq([i \in DOMAIN decisions |-> EventsOf(decisions[i])])
         \o <<Event("finalized")>>

\* The observations before decision i.
Before(events, decisions, i) ==
  SubSeq(Actual(ToolEvents(events)), 1, Len(FlattenSeq([j \in 1 .. i - 1 |-> decisions[j].calls])))

Tools(steps) == [i \in DOMAIN steps |-> steps[i][1]]
Known(truth) == UNION {ToSet(Tools(s)) : s \in truth.strategies}

\* Some strategy that began as observed goes on with these calls, or ends here.
Continues(truth, observed, d) ==
  \E s \in truth.strategies :
    /\ IsPrefix(observed, s)
    /\ IF d.kind = "calls"
       THEN IsPrefix(Tools(observed) \o [i \in DOMAIN d.calls |-> ToolOf[d.calls[i]]], Tools(s))
       ELSE s = observed /\ d.final \in truth.answers

\* tool_confusion and argument_semantics, extra_call; final_semantics, premature_termination.
Wrong(truth, observed, d) ==
  IF d.kind = "calls"
  THEN \/ \E i \in DOMAIN d.calls : ToolOf[d.calls[i]] \notin Known(truth)
       \/ Len(observed) + Len(d.calls) > truth.required
  ELSE d.final \notin truth.answers \/ Len(observed) < truth.required

\* Mutant: the call is counted before the other strategies are tried.
CountedFirst(truth, observed, d) ==
  IF ~\E s \in truth.strategies : IsPrefix(observed, s) THEN "unknown"
  ELSE IF Wrong(truth, observed, d) THEN "illegal"
  ELSE IF Continues(truth, observed, d) THEN "legal" ELSE "unknown"

DecisionVerdict(truth, observed, d) ==
  IF ~\E s \in truth.strategies : IsPrefix(observed, s) THEN "unknown"
  ELSE IF Continues(truth, observed, d) THEN "legal"
  ELSE IF Wrong(truth, observed, d) THEN "illegal" ELSE "unknown"
=============================================================================
