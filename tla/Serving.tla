------------------------------ MODULE Serving ------------------------------
(***************************************************************************)
(* A trajectory (see Trajectory) whose decisions are made by the model     *)
(* process with its prefix cache (see PrefixCache), between the requests   *)
(* of others, and of the same principal from elsewhere.                    *)
(***************************************************************************)
EXTENDS Trajectory, PrefixCache

CONSTANTS
  Me,           \* the principal the trajectory runs for
  Rendered(_),  \* the tokens of the conversation so far
  Elsewhere     \* the [who, prompt] of other requests

\* A conversation is never rendered as nothing: it ends with the generation
\* prompt.
ServingAssumption ==
  /\ Me \in Principals
  /\ \A h \in Seq(Batches) : Rendered(h) \in Seq(Tokens) \ {<<>>}
  /\ \A r \in Elsewhere : r.who \in Principals /\ r.prompt \in Seq(Tokens) \ {<<>>}

ServingInit == Init /\ CacheInit

\* A decision of the trajectory is under way: the scheduler gives it to the
\* process, or somebody else's request.
Dispatch ==
  /\ \/ pc = "deciding" /\ Bind(Me, Rendered(history))
     \/ \E r \in Elsewhere : Bind(r.who, r.prompt)
  /\ UNCHANGED vars

Mine == serving.who = Me /\ serving.prompt = Rendered(history)

\* A completed decision is the completed answer to the trajectory's prompt.
Delivered ==
  /\ Decided /\ reply'.status = "completed"
  /\ Mine /\ done /\ Answered

\* Any other ending: of a request that was refused, cancelled, late or failed.
Undelivered ==
  /\ Decided /\ reply'.status # "completed"
  /\ UNCHANGED cacheVars

Others ==
  \/ Interrupt \/ Ask \/ Undelivered \/ DecisionRaises \/ Act \/ Call \/ ToolReturns
  \/ Reap \/ Observe \/ Bound \/ Summarize \/ Cancel \/ Expire \/ Terminated

ServingNext ==
  \/ Others /\ UNCHANGED cacheVars
  \/ Delivered
  \/ Dispatch
  \/ (Worker \/ Answered \/ Replaced) /\ UNCHANGED vars

ServingSpec == ServingInit /\ [][ServingNext]_<<vars, cacheVars>>
=============================================================================
