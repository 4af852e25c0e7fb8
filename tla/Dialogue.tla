----------------------------- MODULE Dialogue -----------------------------
(***************************************************************************)
(* What a bounded conversation of a model with its tools promises, however *)
(* it is driven: LocalHarness.run and run_trajectory both implement it.    *)
(* The model is asked, answers with a batch of calls or with a final       *)
(* action; every call of a batch is answered, in order, before the model   *)
(* is asked again; no call is ever run twice.                              *)
(***************************************************************************)
EXTENDS Naturals, Sequences

CONSTANTS
  Calls,         \* call identifiers
  Prior,         \* those that occur in the history the run starts from
  Batches,       \* the sequences of calls one decision can hold
  MaxDecisions,  \* MAX_DECISIONS
  MaxToolRounds  \* MAX_TOOL_ROUNDS

DialogueAssumption ==
  /\ Prior \subseteq Calls /\ Batches \subseteq Seq(Calls)
  /\ MaxDecisions \in Nat /\ MaxToolRounds \in Nat

VARIABLES
  decisions,  \* how often the model was asked
  rounds,     \* the batches of calls it answered with
  answered,   \* how many calls of the last batch have their answer
  ran,        \* the calls whose tool was started, in order
  verdict     \* "open", "finalized" or "stopped"

vars == <<decisions, rounds, answered, ran, verdict>>

Started(c) == \E i \in 1 .. Len(ran) : ran[i] = c

\* The state is a conversation of batches of known calls.
TypeOK ==
  /\ decisions \in Nat
  /\ rounds \in Seq(Seq(Calls))
  /\ answered \in Nat
  /\ ran \in Seq(Calls)
  /\ verdict \in {"open", "finalized", "stopped"}

Init ==
  /\ decisions = 0
  /\ rounds = <<>>
  /\ answered = 0
  /\ ran = <<>>
  /\ verdict = "open"

\* Every call of the last batch has its answer.
Settled == IF rounds = <<>> THEN TRUE ELSE answered = Len(rounds[Len(rounds)])

Decide ==
  /\ verdict = "open"
  /\ decisions = Len(rounds) /\ Settled
  /\ decisions < MaxDecisions
  /\ decisions' = decisions + 1
  /\ UNCHANGED <<rounds, answered, ran, verdict>>

\* A reply with calls is followed while a round is left.
Batch(calls) ==
  /\ verdict = "open"
  /\ decisions = Len(rounds) + 1
  /\ Len(rounds) < MaxToolRounds
  /\ rounds' = Append(rounds, calls)
  /\ answered' = 0
  /\ UNCHANGED <<decisions, ran, verdict>>

\* The next call of the batch, if its identifier is new, starts its tool.
Run(c) ==
  /\ verdict = "open"
  /\ decisions = Len(rounds) /\ ~Settled
  /\ c = rounds[Len(rounds)][answered + 1]
  /\ c \notin Prior /\ ~Started(c)
  /\ ran' = Append(ran, c)
  /\ UNCHANGED <<decisions, rounds, answered, verdict>>

\* An answer need not come from a tool: a call can be answered by its refusal.
Answer ==
  /\ verdict = "open"
  /\ decisions = Len(rounds) /\ ~Settled
  /\ answered' = answered + 1
  /\ UNCHANGED <<decisions, rounds, ran, verdict>>

Finalize ==
  /\ verdict = "open"
  /\ decisions = Len(rounds) + 1
  /\ verdict' = "finalized"
  /\ UNCHANGED <<decisions, rounds, answered, ran>>

Stop ==
  /\ verdict = "open"
  /\ verdict' = "stopped"
  /\ UNCHANGED <<decisions, rounds, answered, ran>>

Next ==
  \/ Decide
  \/ \E calls \in Batches : Batch(calls)
  \/ \E c \in Calls : Run(c)
  \/ Answer
  \/ Finalize
  \/ Stop

Spec == Init /\ [][Next]_vars

----------------------------------------------------------------------------
\* No call of the run or of its history starts a tool a second time.
NeverTwice ==
  /\ \A i \in 1 .. Len(ran) : ran[i] \notin Prior
  /\ \A i, j \in 1 .. Len(ran) : ran[i] = ran[j] => i = j

\* Whoever asks the model, or ends with its word, has answered every call.
AnsweredFirst ==
  decisions > Len(rounds) \/ verdict = "finalized" =>
    /\ decisions = Len(rounds) + 1
    /\ Settled

\* The budgets hold however the calls turn out.
Budgets == decisions <= MaxDecisions /\ Len(rounds) <= MaxToolRounds
=============================================================================
