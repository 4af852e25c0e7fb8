--------------------------- MODULE ServingProofs ---------------------------
(***************************************************************************)
(* Machine-checked: for any principals, prompts and lengths, the one-entry *)
(* prefix cache never shows in an answer; for any identifiers, batches and *)
(* budgets, a trajectory is a bounded dialogue that runs whole batches or  *)
(* nothing of them; and both hold where the one is served by the other.    *)
(***************************************************************************)
EXTENDS Serving, SequenceTheorems, TLAPS

----------------------------------------------------------------------------
(* The prefix cache: what is in the entry was computed for its tenant,     *)
(* token by token of its prefix (EntryOK), and the request being served is *)
(* that of the tenant bound last (BoundOK); so what take returns was       *)
(* computed for that request (ForwardOK).                                  *)

Prompted == Seq(Tokens) \ {<<>>}
Positions == [token : Tokens \cup {"new"}, by : Principals]

BoundOK ==
  at \in {"bound", "forward", "decode"} =>
    /\ serving.who \in Principals /\ serving.prompt \in Prompted
    /\ tenant = serving.who

\* token by token, for its tenant
EntryOK ==
  entry # NoEntry =>
    /\ entry.prefix \in Seq(Tokens) /\ entry.cache \in Seq(Positions)
    /\ \A i \in 1 .. Len(entry.prefix) :
         entry.cache[i] = [token |-> entry.prefix[i], by |-> entry.tenant]

ForwardOK ==
  at = "forward" =>
    /\ hit \in Nat /\ hit < Len(serving.prompt)
    /\ \A i \in 1 .. hit : cache[i] = Position(serving.prompt[i])

CacheInv == BoundOK /\ EntryOK /\ ForwardOK /\ AsIfUncached

\* The first n elements of a sequence.
LEMMA Cropped ==
  ASSUME NEW S, NEW s \in Seq(S), NEW n \in Nat, n <= Len(s)
  PROVE  /\ SubSeq(s, 1, n) \in Seq(S) /\ Len(SubSeq(s, 1, n)) = n
         /\ \A i \in 1 .. n : SubSeq(s, 1, n)[i] = s[i]
<1>1. CASE n = 0
  <2>1. SubSeq(s, 1, n) = <<>>
    BY <1>1, SubSeqProperties
  <2> QED BY <2>1, <1>1
<1>2. CASE n # 0
  <2>1. 1 \in 1 .. Len(s) + 1 /\ n \in 0 .. Len(s)
    BY LenProperties
  <2> QED BY <1>2, <2>1, SubSeqProperties, LenProperties
<1> QED BY <1>1, <1>2

LEMMA NoEntryIsOK == entry' = NoEntry => EntryOK'
BY DEF EntryOK

\* Binding a request: the entry stays as it was.
LEMMA BindOK ==
  ASSUME CacheInv, NEW who \in Principals, NEW prompt \in Prompted, Bind(who, prompt)
  PROVE  CacheInv'
BY DEF CacheInv, Bind, BoundOK, EntryOK, ForwardOK, AsIfUncached

\* take returns what was computed for the tenant that is bound, or nothing.
LEMMA TakeOK ==
  ASSUME CacheInv, Take
  PROVE  CacheInv'
<1> DEFINE n == Len(entry.prefix)
           prompt == serving.prompt
<1>1. prompt \in Seq(Tokens) /\ Len(prompt) \in Nat /\ Len(prompt) > 0
  <2>1. prompt \in Seq(Tokens) /\ prompt # <<>>
    BY DEF CacheInv, Take, BoundOK, Prompted
  <2> HIDE DEF prompt
  <2> QED BY <2>1, LenProperties, EmptySeq
<1>2. hit' \in Nat /\ hit' < Len(prompt)
      /\ \A i \in 1 .. hit' : cache'[i] = Position(prompt[i])
  <2>1. CASE Reusable(prompt)
    <3>1. /\ entry # NoEntry /\ entry.tenant = tenant /\ tenant = serving.who
          /\ n < Len(prompt) /\ SubSeq(prompt, 1, n) = entry.prefix
          /\ cache' = entry.cache /\ hit' = n
      BY <2>1 DEF Reusable, Take, CacheInv, BoundOK
    <3>2. /\ entry.prefix \in Seq(Tokens)
          /\ \A i \in 1 .. n : entry.cache[i] = [token |-> entry.prefix[i], by |-> entry.tenant]
      BY <3>1 DEF CacheInv, EntryOK
    <3>3. n \in Nat
      BY <3>2, LenProperties
    <3>4. \A i \in 1 .. n : SubSeq(prompt, 1, n)[i] = prompt[i]
      BY <3>1, <3>3, <1>1, Cropped
    <3>5. \A i \in 1 .. n : cache'[i] = Position(prompt[i])
      BY <3>1, <3>2, <3>4 DEF Position
    <3> QED BY <3>1, <3>3, <3>5
  <2>2. CASE ~Reusable(prompt)
    <3>1. hit' = 0
      BY <2>2 DEF Take
    <3> QED BY <3>1, <1>1
  <2> QED BY <2>1, <2>2
<1>3. ForwardOK'
  BY <1>2 DEF Take, ForwardOK, Position
<1>4. BoundOK'
  BY DEF CacheInv, BoundOK, Take
<1>5. EntryOK' /\ AsIfUncached'
  BY NoEntryIsOK DEF Take, AsIfUncached
<1> QED BY <1>3, <1>4, <1>5 DEF CacheInv

\* The forward computes the rest for the request that is served, and what is
\* published was computed for it from the first token on.
LEMMA GenerateOK ==
  ASSUME CacheInv, Generate
  PROVE  CacheInv'
<1> DEFINE prompt == serving.prompt
           l == Len(prompt)
<1>1. prompt \in Seq(Tokens) /\ serving.who \in Principals /\ tenant = serving.who
  BY DEF CacheInv, Generate, BoundOK, Prompted
<1>2. l \in Nat /\ \A i \in 1 .. l : prompt[i] \in Tokens
  BY <1>1, LenProperties, ElementOfSeq
<1>3. hit \in Nat /\ hit < l /\ \A i \in 1 .. hit : cache[i] = Position(prompt[i])
  BY DEF CacheInv, Generate, ForwardOK
<1>4. PICK k \in 0 .. NewTokens :
        /\ cache' = [i \in 1 .. l + k |->
                      IF i <= hit THEN cache[i]
                      ELSE IF i <= l THEN Position(prompt[i]) ELSE Position("new")]
        /\ entry' = Published(prompt, cache')
  BY DEF Generate
<1>5. k \in Nat
  BY <1>4, PrefixCacheAssumption
<1>6. UNCHANGED <<tenant, serving, hit>> /\ at' = "decode"
  BY DEF Generate
<1>7. \A i \in 1 .. l : cache'[i] = Position(prompt[i])
  BY <1>2, <1>3, <1>4, <1>5
<1>8. cache' \in Seq(Positions) /\ Len(cache') = l + k
  <2>1. \A i \in 1 .. l + k : cache'[i] \in Positions
    <3> TAKE i \in 1 .. l + k
    <3>1. CASE i <= l
      <4>1. i \in 1 .. l
        BY <3>1, <1>2, <1>5
      <4>2. cache'[i] = Position(prompt[i]) /\ prompt[i] \in Tokens
        BY <4>1, <1>2, <1>7
      <4> HIDE DEF prompt, l
      <4> QED BY <4>2, <1>1 DEF Position, Positions
    <3>2. CASE i > l
      BY <3>2, <1>1, <1>2, <1>3, <1>4, <1>5 DEF Position, Positions
    <3> QED BY <3>1, <3>2, <1>2, <1>5
  <2> HIDE DEF l
  <2>2. cache' = [i \in 1 .. l + k |-> cache'[i]]
    BY <1>4
  <2> QED BY <2>1, <2>2, <1>2, <1>5, IsASeq, LenProperties
<1>9. EntryOK'
  <2>1. CASE l > 1
    <3>1. entry' = [tenant |-> tenant, prefix |-> SubSeq(prompt, 1, l - 1),
                    cache |-> SubSeq(cache', 1, l - 1)]
      BY <1>4, <2>1 DEF Published
    <3>2. /\ SubSeq(prompt, 1, l - 1) \in Seq(Tokens) /\ Len(SubSeq(prompt, 1, l - 1)) = l - 1
          /\ \A i \in 1 .. l - 1 : SubSeq(prompt, 1, l - 1)[i] = prompt[i]
      BY <1>1, <1>2, <2>1, Cropped
    <3>3. /\ SubSeq(cache', 1, l - 1) \in Seq(Positions)
          /\ \A i \in 1 .. l - 1 : SubSeq(cache', 1, l - 1)[i] = cache'[i]
      BY <1>8, <1>2, <1>5, <2>1, Cropped
    <3>4. \A i \in 1 .. l - 1 :
            SubSeq(cache', 1, l - 1)[i] = [token |-> SubSeq(prompt, 1, l - 1)[i], by |-> tenant]
      BY <3>2, <3>3, <1>1, <1>2, <1>7 DEF Position
    <3> HIDE DEF l, prompt
    <3> QED BY <3>1, <3>2, <3>3, <3>4 DEF EntryOK
  <2>2. CASE ~(l > 1)
    BY <2>2, <1>4, NoEntryIsOK DEF Published
  <2> QED BY <2>1, <2>2
<1>10. AsIfUncached'
  <2>1. DOMAIN prompt = 1 .. l
    BY <1>1, LenProperties
  <2> QED BY <1>3, <1>6, <1>7, <2>1 DEF AsIfUncached, Position
<1>11. BoundOK' /\ ForwardOK'
  BY <1>6, <1>1 DEF CacheInv, BoundOK, ForwardOK, Generate
<1> QED BY <1>9, <1>10, <1>11 DEF CacheInv

\* The other steps clear the entry, or leave it and what is being computed.
LEMMA WorkerOK ==
  ASSUME CacheInv, Worker
  PROVE  CacheInv'
<1>1. CASE Decline
  BY <1>1, NoEntryIsOK DEF CacheInv, Decline, BoundOK, ForwardOK, AsIfUncached
<1>2. CASE GenerateRaises
  BY <1>2, NoEntryIsOK DEF CacheInv, GenerateRaises, BoundOK, ForwardOK, AsIfUncached
<1>3. CASE Decode
  <2>1. EntryOK'
    BY <1>3 DEF CacheInv, Decode, EntryOK
  <2> QED BY <1>3, <2>1 DEF CacheInv, Decode, BoundOK, ForwardOK, AsIfUncached
<1> QED BY <1>1, <1>2, <1>3, TakeOK, GenerateOK DEF Worker

LEMMA OwnerOK ==
  ASSUME CacheInv, Answered \/ Replaced
  PROVE  CacheInv'
<1>1. CASE Become(Prepared)
  <2>1. at' = "idle" /\ entry' = NoEntry
    BY <1>1 DEF Become, Prepared
  <2> QED BY <2>1, NoEntryIsOK DEF CacheInv, BoundOK, ForwardOK, AsIfUncached
<1>2. CASE at' = "idle" /\ UNCHANGED entry
  BY <1>2 DEF CacheInv, BoundOK, EntryOK, ForwardOK, AsIfUncached
<1> QED BY <1>1, <1>2 DEF Answered, Replaced

\* Whoever asked before and however it ended, what is generated was computed
\* from exactly the prompt of the request and for its principal alone.
THEOREM CacheNeverShows == CacheSpec => []AsIfUncached
<1>1. CacheInit => CacheInv
  BY DEF CacheInit, CacheInv, BoundOK, EntryOK, ForwardOK, AsIfUncached
<1>2. CacheInv /\ [CacheNext]_cacheVars => CacheInv'
  <2> SUFFICES ASSUME CacheInv, [CacheNext]_cacheVars PROVE CacheInv'
    OBVIOUS
  <2>1. CASE \E who \in Principals, prompt \in Seq(Tokens) : prompt # <<>> /\ Bind(who, prompt)
    BY <2>1, BindOK DEF Prompted
  <2>2. CASE Worker \/ Answered \/ Replaced
    BY <2>2, WorkerOK, OwnerOK
  <2>3. CASE UNCHANGED cacheVars
    BY <2>3 DEF cacheVars, CacheInv, BoundOK, EntryOK, ForwardOK, AsIfUncached, Position
  <2> QED BY <2>1, <2>2, <2>3 DEF CacheNext
<1>3. CacheInv => AsIfUncached
  BY DEF CacheInv
<1> QED BY <1>1, <1>2, <1>3, PTL DEF CacheSpec

----------------------------------------------------------------------------
(* The trajectory: the invariant.                                          *)

Running == {"calls", "tool", "reap", "observe", "bound"}
Thinking == {"head", "deciding", "act"}
Finished == {"end", "returned", "raised"}

Typed ==
  /\ pc \in Thinking \cup Running \cup Finished
  /\ history \in Seq(Batches) /\ action \in Batches \cup {<<>>}
  /\ pc = "act" => reply.calls \in Batches \cup {<<>>}
  /\ observed \in Nat /\ decisions \in Nat /\ rounds \in Nat
  /\ ran \in Seq(Calls)

\* Where the loop is says how many decisions and answers there were.
Paced ==
  /\ rounds = Len(Conversation)
  /\ action = <<>> => observed = 0
  /\ pc \in Thinking => action = <<>>
  /\ pc = "head" => decisions = rounds
  /\ pc \in {"deciding", "act"} => decisions = rounds + 1
  /\ pc \in Running => action # <<>> /\ decisions = rounds
  /\ pc \in Running \ {"bound"} => observed < Len(action)
  /\ pc = "bound" => observed = Len(action)
  /\ pc \in Finished /\ status = "finalized" => decisions = rounds + 1

\* The calls of the batch that have not had their turn were never started.
Waiting(k) == k > observed + 1 \/ (k = observed + 1 /\ pc = "calls")
Unstarted ==
  /\ Prior \subseteq seen
  /\ \A i \in 1 .. Len(ran) : ran[i] \in seen
  /\ \A k \in 1 .. Len(action) : action[k] \in seen \ (Prior \cup Refused)
  /\ \A k \in 1 .. Len(action) : Waiting(k) => \A i \in 1 .. Len(ran) : ran[i] # action[k]

\* Every call of the conversation has been looked up and is remembered.
Noted == \A k \in 1 .. Len(Conversation) : Range(Conversation[k]) \subseteq seen

TrajectoryInv == Typed /\ Paced /\ Unstarted /\ Noted /\ NothingOfARefusedBatch

LEMMA BatchOf ==
  ASSUME NEW b \in Batches
  PROVE  /\ b \in Seq(Calls) /\ b # <<>> /\ Len(b) \in Nat \ {0} /\ DOMAIN b = 1 .. Len(b)
         /\ \A k \in 1 .. Len(b) : b[k] \in Calls
         /\ \A j, k \in 1 .. Len(b) : b[j] = b[k] => j = k
<1>1. b \in Seq(Calls) /\ b # <<>> /\ IsInjective(b)
  BY TrajectoryAssumption DEF TrajectoryAssumption
<1>2. Len(b) \in Nat \ {0} /\ DOMAIN b = 1 .. Len(b) /\ \A k \in 1 .. Len(b) : b[k] \in Calls
  BY <1>1, LenProperties, EmptySeq, ElementOfSeq
<1> QED BY <1>1, <1>2 DEF IsInjective

\* The conversation ends with the batch that is run, if there is one.
LEMMA ConversationOf ==
  ASSUME Typed
  PROVE  /\ Len(history) \in Nat /\ Conversation \in Seq(Batches)
         /\ action # <<>> =>
              /\ Conversation = Append(history, action) /\ action \in Batches
              /\ Conversation # <<>> /\ Len(Conversation) = Len(history) + 1
              /\ Conversation[Len(Conversation)] = action
<1>1. history \in Seq(Batches) /\ Len(history) \in Nat
  BY LenProperties DEF Typed
<1>2. CASE action = <<>>
  BY <1>1, <1>2 DEF Conversation
<1>3. CASE action # <<>>
  <2>1. action \in Batches
    BY <1>3 DEF Typed
  <2> QED BY <1>1, <1>3, <2>1, AppendProperties DEF Conversation
<1> QED BY <1>2, <1>3

----------------------------------------------------------------------------
(* The trajectory: every step keeps the invariant.                         *)

LEMMA TrajectoryInit == Init => TrajectoryInv
<1> SUFFICES ASSUME Init PROVE TrajectoryInv
  OBVIOUS
<1>1. /\ pc = "head" /\ status = "unknown" /\ decisions = 0 /\ rounds = 0 /\ history = <<>>
      /\ action = <<>> /\ observed = 0 /\ seen = Prior /\ ran = <<>>
  BY DEF Init
<1>2. Typed
  BY <1>1, EmptySeq DEF Typed, Thinking
<1>3. Paced
  BY <1>1, EmptySeq DEF Paced, Conversation, Thinking, Running, Finished
<1>4. Unstarted /\ Noted /\ NothingOfARefusedBatch
  <2>1. Conversation = <<>> /\ Len(<<>>) = 0 /\ DOMAIN <<>> = {}
    BY <1>1, EmptySeq DEF Conversation
  <2> QED BY <1>1, <2>1 DEF Unstarted, Noted, NothingOfARefusedBatch
<1> QED BY <1>2, <1>3, <1>4 DEF TrajectoryInv

\* A step that changes nothing of the conversation.
Still == UNCHANGED <<decisions, rounds, history, action, observed, seen, ran>>

LEMMA StillKeeps ==
  ASSUME TrajectoryInv, Still,
         \/ pc' = pc /\ status' = status /\ reply' = reply
         \/ pc' \in Finished /\ (status' = "finalized" => pc \in {"act"} \cup Finished /\ (pc \in Finished => status = "finalized"))
         \/ pc = "deciding" /\ pc' = "act" /\ reply'.calls \in Batches \cup {<<>>}
         \/ pc = "calls" /\ pc' \in {"observe", "tool"}
         \/ pc = "tool" /\ pc' = "reap"
         \/ pc = "reap" /\ pc' = "observe"
  PROVE  TrajectoryInv'
<1>1. Typed'
  BY DEF TrajectoryInv, Typed, Still, Thinking, Running, Finished
<1>2. Paced'
  BY DEF TrajectoryInv, Paced, Still, Conversation, Thinking, Running, Finished
<1>3. Unstarted'
  BY DEF TrajectoryInv, Unstarted, Still, Waiting, Finished
<1>4. Noted' /\ NothingOfARefusedBatch'
  BY DEF TrajectoryInv, Noted, NothingOfARefusedBatch, Still, Conversation
<1> QED BY <1>1, <1>2, <1>3, <1>4 DEF TrajectoryInv

LEMMA QuietKeeps ==
  ASSUME TrajectoryInv,
         \/ Interrupt \/ Decided \/ DecisionRaises \/ ToolReturns \/ Reap \/ Summarize
         \/ Cancel \/ Expire \/ Terminated \/ UNCHANGED vars
  PROVE  TrajectoryInv' /\ Still
<1>1. Still
  BY DEF Interrupt, Decided, DecisionRaises, ToolReturns, Reap, Summarize, Cancel, Expire, Terminated,
         Still, vars, budget, prefix, tools, clocks
<1>2. CASE Interrupt
  BY <1>1, <1>2, StillKeeps DEF Interrupt, Stop, Interruption, Finished
<1>3. CASE Decided
  <2>1. PICK d \in Decisions : reply' = d /\ IF d.status = "completed" THEN Go("act") ELSE Stop(d.status)
    BY <1>3 DEF Decided
  <2>2. CASE d.status = "completed"
    <3>1. d.calls \in Batches \cup {<<>>}
      BY <2>2 DEF Decisions, Undecided
    <3> QED BY <1>1, <1>3, <2>1, <2>2, <3>1, StillKeeps DEF Decided, Go
  <2>3. CASE d.status # "completed"
    <3>1. d.status # "finalized"
      BY DEF Decisions, Undecided
    <3> QED BY <1>1, <1>3, <2>1, <2>3, <3>1, StillKeeps DEF Stop, Finished
  <2> QED BY <2>2, <2>3, <1>1
<1>4. CASE DecisionRaises
  BY <1>1, <1>4, StillKeeps DEF DecisionRaises, Stop, Finished
<1>5. CASE ToolReturns
  BY <1>1, <1>5, StillKeeps DEF ToolReturns, Go
<1>6. CASE Reap
  BY <1>1, <1>6, StillKeeps DEF Reap, Go, Stop, Finished
<1>7. CASE Summarize
  BY <1>1, <1>7, StillKeeps DEF Summarize, Go, Finished
<1>8. CASE Cancel \/ Expire \/ Terminated \/ UNCHANGED vars
  <2>1. pc' = pc /\ status' = status /\ reply' = reply
    BY <1>8 DEF Cancel, Expire, Terminated, vars
  <2> QED BY <1>1, <2>1, StillKeeps
<1> QED BY <1>1, <1>2, <1>3, <1>4, <1>5, <1>6, <1>7, <1>8

LEMMA AskKeeps == ASSUME TrajectoryInv, Ask PROVE TrajectoryInv'
<1>1. UNCHANGED <<rounds, history, action, observed, seen, reply, ran>>
  BY DEF Ask, prefix, tools
<1>2. CASE decisions < MaxDecisions
  <2>1. pc = "head" /\ pc' = "deciding" /\ decisions' = decisions + 1 /\ status' = status
    BY <1>2 DEF Ask, Go
  <2>2. Typed'
    BY <1>1, <2>1 DEF TrajectoryInv, Typed, Thinking
  <2>3. Paced'
    BY <1>1, <2>1 DEF TrajectoryInv, Typed, Paced, Conversation, Thinking, Running, Finished
  <2>4. (Unstarted /\ Noted /\ NothingOfARefusedBatch)'
    BY <1>1, <2>1 DEF TrajectoryInv, Unstarted, Waiting, Noted, NothingOfARefusedBatch, Conversation
  <2> QED BY <2>2, <2>3, <2>4 DEF TrajectoryInv
<1>3. CASE ~(decisions < MaxDecisions)
  BY <1>1, <1>3, StillKeeps DEF Ask, Stop, Still, Finished
<1> QED BY <1>2, <1>3

\* What holds of every element of a sequence and of the one appended to it.
LEMMA Appended ==
  ASSUME NEW S, NEW q \in Seq(S), NEW e \in S
  PROVE  /\ Append(q, e) \in Seq(S) /\ Append(q, e) # <<>> /\ Len(Append(q, e)) = Len(q) + 1
         /\ Len(q) \in Nat /\ Append(q, e)[Len(q) + 1] = e
         /\ \A i \in 1 .. Len(q) : Append(q, e)[i] = q[i]
         /\ \A i \in 1 .. Len(Append(q, e)) : i \in 1 .. Len(q) \/ i = Len(q) + 1
         /\ DOMAIN Append(q, e) = 1 .. Len(Append(q, e))
<1>1. Len(q) \in Nat
  BY LenProperties
<1>2. /\ Append(q, e) \in Seq(S) /\ Append(q, e) # <<>> /\ Len(Append(q, e)) = Len(q) + 1
      /\ Append(q, e)[Len(q) + 1] = e /\ \A i \in 1 .. Len(q) : Append(q, e)[i] = q[i]
  BY AppendProperties
<1>3. DOMAIN Append(q, e) = 1 .. Len(Append(q, e))
  BY <1>2, LenProperties
<1> QED BY <1>1, <1>2, <1>3

\* A conversation C of whole batches, in which alone the calls r were started.
WholeIn(C, r) ==
  /\ \A k \in 1 .. Len(C) : \A c \in Range(C[k]) :
       /\ c \notin Prior \cup Refused
       /\ \A j \in 1 .. k - 1 : c \notin Range(C[j])
  /\ \A i \in 1 .. Len(r) : \E k \in 1 .. Len(C) : r[i] \in Range(C[k])

LEMMA Whole == Typed => (NothingOfARefusedBatch <=> WholeIn(Conversation, ran) /\ observed <= Len(action))
<1> SUFFICES ASSUME Typed
             PROVE  NothingOfARefusedBatch <=> WholeIn(Conversation, ran) /\ observed <= Len(action)
  OBVIOUS
<1>1. Conversation \in Seq(Batches) /\ ran \in Seq(Calls)
  BY ConversationOf DEF Typed
<1>2. DOMAIN Conversation = 1 .. Len(Conversation) /\ DOMAIN ran = 1 .. Len(ran)
  BY <1>1, LenProperties
<1> HIDE DEF Conversation
<1> QED BY <1>2 DEF NothingOfARefusedBatch, WholeIn

LEMMA WholePrimed ==
  Typed' => (NothingOfARefusedBatch' <=> (WholeIn(Conversation, ran) /\ observed <= Len(action))')
<1>1. Typed => (NothingOfARefusedBatch <=> WholeIn(Conversation, ran) /\ observed <= Len(action))
  BY Whole
<1> QED BY <1>1, PTL

LEMMA WholeThen ==
  ASSUME Typed', WholeIn(Conversation', ran'), observed' <= Len(action')
  PROVE  NothingOfARefusedBatch'
BY WholePrimed DEF WholeIn

\* Calls are checked, all of them, before the first one is run.
LEMMA ActKeeps == ASSUME TrajectoryInv, Act PROVE TrajectoryInv'
<1>1. pc = "act" /\ UNCHANGED <<decisions, history, observed, reply, ran>>
  BY DEF Act, tools
<1>2. CASE pc' = "end" /\ UNCHANGED <<seen, rounds, action>>
  BY <1>1, <1>2, StillKeeps DEF Still, Finished
<1>3. CASE /\ pc' = "calls" /\ reply.calls # <<>> /\ Acceptable(reply.calls) /\ seen' = seen \cup Range(reply.calls)
           /\ rounds' = rounds + 1 /\ action' = reply.calls
  <2>1. /\ action = <<>> /\ observed = 0 /\ decisions = rounds + 1 /\ rounds = Len(history)
        /\ action' \in Batches /\ history \in Seq(Batches) /\ rounds \in Nat
    BY <1>1, <1>3 DEF TrajectoryInv, Typed, Paced, Thinking, Conversation
  <2>2. /\ action' # <<>> /\ Len(action') \in Nat \ {0} /\ Range(action') = {action'[k] : k \in 1 .. Len(action')}
    BY <2>1, BatchOf, RangeEquality
  <2>3. Typed'
    BY <1>1, <1>3, <2>1 DEF TrajectoryInv, Typed, Running
  <2>4. Conversation' = Append(history, action') /\ Len(Conversation') = Len(history) + 1
    BY <1>1, <2>1, <2>2, Appended DEF Conversation
  <2>5. Paced'
    BY <1>1, <1>3, <2>1, <2>2, <2>4 DEF Paced, Thinking, Running, Finished
  <2>6. \A k \in 1 .. Len(action') : action'[k] \notin seen \cup Refused /\ action'[k] \in seen'
    BY <1>3, <2>2 DEF Acceptable
  <2>7. Unstarted'
    BY <1>1, <1>3, <2>6 DEF TrajectoryInv, Unstarted
  <2>8. Noted' /\ NothingOfARefusedBatch'
    <3> DEFINE C == Conversation
               D == Append(history, action')
    <3>1. /\ C = history /\ Conversation' = D
          /\ Len(history) \in Nat /\ Len(D) = Len(history) + 1 /\ D[Len(history) + 1] = action'
          /\ \A i \in 1 .. Len(history) : D[i] = history[i]
          /\ \A i \in 1 .. Len(D) : i \in 1 .. Len(history) \/ i = Len(history) + 1
      BY <2>1, <2>4, Appended DEF Conversation
    <3>2. /\ WholeIn(history, ran) /\ Prior \subseteq seen /\ seen \subseteq seen'
          /\ \A k \in 1 .. Len(history) : Range(history[k]) \subseteq seen
      BY <1>3, <3>1, Whole DEF TrajectoryInv, Unstarted, Noted
    <3>3. \A c \in Range(action') : c \notin seen \cup Refused /\ c \in seen'
      BY <2>2, <2>6
    <3> HIDE DEF C, D
    <3>4. Noted'
      BY <3>1, <3>2, <3>3 DEF Noted
    <3>5. ASSUME NEW k \in 1 .. Len(D), NEW c \in Range(D[k])
          PROVE  c \notin Prior \cup Refused /\ \A j \in 1 .. k - 1 : c \notin Range(D[j])
      <4>1. CASE k \in 1 .. Len(history)
        <5>1. c \in Range(history[k]) /\ \A j \in 1 .. k - 1 : D[j] = history[j]
          BY <3>1, <3>5, <4>1
        <5> QED BY <3>2, <4>1, <5>1 DEF WholeIn
      <4>2. CASE k = Len(history) + 1
        <5>1. c \in Range(action') /\ \A j \in 1 .. k - 1 : j \in 1 .. Len(history) /\ D[j] = history[j]
          BY <3>1, <3>5, <4>2
        <5> QED BY <3>2, <3>3, <5>1
      <4> QED BY <3>1, <4>1, <4>2
    <3>6. ASSUME NEW i \in 1 .. Len(ran) PROVE \E k \in 1 .. Len(D) : ran[i] \in Range(D[k])
      <4>1. PICK k \in 1 .. Len(history) : ran[i] \in Range(history[k])
        BY <3>2 DEF WholeIn
      <4> QED BY <3>1, <4>1
    <3>7. WholeIn(D, ran)
      BY <3>5, <3>6 DEF WholeIn
    <3>8. observed' <= Len(action')
      BY <1>1, <2>1, <2>2
    <3> QED BY <1>1, <2>3, <3>1, <3>4, <3>7, <3>8, WholeThen
  <2> QED BY <2>3, <2>5, <2>7, <2>8 DEF TrajectoryInv
<1>4. CASE reply.calls = <<>> \/ rounds >= MaxToolRounds \/ ~Acceptable(reply.calls)
  BY <1>2, <1>4, TrajectoryAssumption DEF Act, Stop, TrajectoryInv, Typed, TrajectoryAssumption
<1>5. CASE reply.calls # <<>> /\ ~(rounds >= MaxToolRounds) /\ Acceptable(reply.calls)
  BY <1>3, <1>5 DEF Act, Go
<1> QED BY <1>4, <1>5

\* A call that is started belongs to the batch that is run.
LEMMA CallKeeps == ASSUME TrajectoryInv, Call PROVE TrajectoryInv'
<1>1. pc = "calls" /\ status' = status
      /\ UNCHANGED <<decisions, rounds, history, action, observed, seen, reply>>
  BY DEF Call, budget, prefix, Go
<1>2. CASE ran' = ran
  BY <1>1, <1>2, StillKeeps DEF Call, Still, Go
<1>3. CASE ran' = Append(ran, Current) /\ pc' = "tool"
  <2>1. /\ action # <<>> /\ action \in Batches /\ observed < Len(action) /\ observed \in Nat
        /\ ran \in Seq(Calls)
    BY <1>1 DEF TrajectoryInv, Typed, Paced, Running
  <2>2. /\ Len(action) \in Nat /\ observed + 1 \in 1 .. Len(action) /\ action[observed + 1] \in Calls
        /\ \A j, k \in 1 .. Len(action) : action[j] = action[k] => j = k
        /\ Range(action) = {action[k] : k \in 1 .. Len(action)}
    BY <2>1, BatchOf, RangeEquality
  <2>3. /\ ran' \in Seq(Calls) /\ Len(ran) \in Nat
        /\ \A i \in 1 .. Len(ran') : (i \in 1 .. Len(ran) /\ ran'[i] = ran[i]) \/ ran'[i] = action[observed + 1]
    BY <1>3, <2>1, <2>2, Appended DEF Current
  <2>4. Typed'
    BY <1>1, <1>3, <2>3 DEF TrajectoryInv, Typed, Running
  <2>5. Paced'
    BY <1>1, <1>3 DEF TrajectoryInv, Paced, Conversation, Thinking, Running, Finished
  <2>6. Unstarted'
    <3>1. \A i \in 1 .. Len(ran') : ran'[i] \in seen
      BY <2>2, <2>3 DEF TrajectoryInv, Unstarted
    <3>2. ASSUME NEW k \in 1 .. Len(action), Waiting(k)', NEW i \in 1 .. Len(ran') PROVE ran'[i] # action[k]
      <4>1. k > observed + 1 /\ Waiting(k)
        BY <1>1, <1>3, <3>2 DEF Waiting
      <4>2. action[k] # action[observed + 1]
        BY <2>1, <2>2, <4>1
      <4> QED BY <2>3, <4>1, <4>2 DEF TrajectoryInv, Unstarted
    <3> QED BY <1>1, <3>1, <3>2 DEF TrajectoryInv, Unstarted
  <2>7. Noted' /\ NothingOfARefusedBatch'
    <3>1. Conversation' = Conversation
      BY <1>1 DEF Conversation
    <3>2. WholeIn(Conversation, ran) /\ observed <= Len(action)
      BY Whole DEF TrajectoryInv
    <3>3. \E k \in 1 .. Len(Conversation) : action[observed + 1] \in Range(Conversation[k])
      <4>1. /\ Len(Conversation) = Len(history) + 1 /\ Len(history) \in Nat
            /\ Conversation[Len(Conversation)] = action
        BY <2>1, ConversationOf DEF TrajectoryInv
      <4>2. action[observed + 1] \in Range(action) /\ Len(Conversation) \in 1 .. Len(Conversation)
        BY <2>2, <4>1
      <4> QED BY <4>1, <4>2
    <3> HIDE DEF Conversation
    <3>4. WholeIn(Conversation, ran')
      BY <2>3, <3>2, <3>3 DEF WholeIn
    <3>5. Noted'
      BY <1>1, <3>1 DEF TrajectoryInv, Noted
    <3> QED BY <1>1, <2>4, <3>1, <3>2, <3>4, <3>5, WholeThen
  <2> QED BY <2>4, <2>5, <2>6, <2>7 DEF TrajectoryInv
<1> QED BY <1>2, <1>3 DEF Call, Go

LEMMA ObserveKeeps == ASSUME TrajectoryInv, Observe PROVE TrajectoryInv'
<1>1. pc = "observe" /\ observed' = observed + 1
      /\ UNCHANGED <<decisions, rounds, history, action, seen, reply, ran>>
  BY DEF Observe, budget, tools
<1>2. \/ pc' = "end" /\ status' # "finalized"
      \/ pc' = "bound" /\ observed' = Len(action)
      \/ pc' = "calls" /\ observed' # Len(action)
  BY DEF Observe, Stop, Go
<1>3. action # <<>> /\ action \in Batches /\ observed < Len(action) /\ observed \in Nat
  BY <1>1 DEF TrajectoryInv, Typed, Paced, Running
<1>4. Len(action) \in Nat
  BY <1>3, BatchOf
<1>5. Typed'
  BY <1>1, <1>2 DEF TrajectoryInv, Typed, Running, Finished
<1>6. Paced'
  BY <1>1, <1>2, <1>3, <1>4 DEF TrajectoryInv, Paced, Conversation, Thinking, Running, Finished
<1>7. Unstarted'
  <2>1. ASSUME NEW k \in 1 .. Len(action), Waiting(k)' PROVE Waiting(k)
    <3>1. k \in Nat /\ (k > observed' + 1 \/ k = observed' + 1)
      BY <2>1, <1>4 DEF Waiting
    <3>2. k > observed + 1
      BY <3>1, <1>1, <1>3
    <3> QED BY <3>2 DEF Waiting
  <2> QED BY <1>1, <2>1 DEF TrajectoryInv, Unstarted
<1>8. Noted' /\ NothingOfARefusedBatch'
  <2>1. Conversation' = Conversation
    BY <1>1 DEF Conversation
  <2>2. observed' <= Len(action')
    BY <1>1, <1>3, <1>4
  <2> QED BY <1>1, <2>1, <2>2 DEF TrajectoryInv, Noted, NothingOfARefusedBatch
<1> QED BY <1>5, <1>6, <1>7, <1>8 DEF TrajectoryInv

\* The conversation keeps its batches.
LEMMA BoundKeeps == ASSUME TrajectoryInv, Bound PROVE TrajectoryInv' /\ Conversation' = Conversation
<1>1. /\ pc = "bound" /\ history' = Append(history, action) /\ action' = <<>> /\ observed' = 0
      /\ UNCHANGED <<decisions, rounds, seen, reply, ran>>
      /\ \/ pc' = "head"
         \/ pc' = "end" /\ status' # "finalized"
  <2>1. UNCHANGED <<decisions, rounds, seen, reply, ran>>
    BY DEF Bound, budget, tools
  <2> QED BY <2>1 DEF Bound, Stop, Go
<1>2. action # <<>> /\ action \in Batches /\ history \in Seq(Batches)
  BY <1>1 DEF TrajectoryInv, Typed, Paced, Running
<1>3. history' \in Seq(Batches)
  BY <1>1, <1>2, Appended
<1>4. Typed'
  BY <1>1, <1>3 DEF TrajectoryInv, Typed, Thinking, Finished
<1>5. Conversation' = Conversation
  BY <1>1, <1>2 DEF Conversation
<1>6. Paced'
  BY <1>1, <1>5 DEF TrajectoryInv, Paced, Thinking, Running, Finished
<1>7. Unstarted'
  BY <1>1 DEF TrajectoryInv, Unstarted
<1>8. Noted' /\ NothingOfARefusedBatch'
  <2>1. observed' <= Len(action')
    BY <1>1, EmptySeq
  <2> QED BY <1>1, <1>5, <2>1 DEF TrajectoryInv, Noted, NothingOfARefusedBatch
<1> QED BY <1>4, <1>5, <1>6, <1>7, <1>8 DEF TrajectoryInv

LEMMA TrajectoryKeeps == ASSUME TrajectoryInv, [Next]_vars PROVE TrajectoryInv'
BY QuietKeeps, AskKeeps, ActKeeps, CallKeeps, ObserveKeeps, BoundKeeps DEF Next

----------------------------------------------------------------------------
(* The trajectory implements the dialogue.                                 *)

\* What the dialogue sees of it.
Answers == IF action # <<>> THEN observed
           ELSE IF history = <<>> THEN 0 ELSE Len(history[Len(history)])
Outcome == IF ~Over THEN "open" ELSE IF status = "finalized" THEN "finalized" ELSE "stopped"

LEMMA Seen ==
  /\ Abstract!vars = <<decisions, Conversation, Answers, ran, Outcome>>
  /\ Abstract!Settled <=> IF Conversation = <<>> THEN TRUE
                          ELSE Answers = Len(Conversation[Len(Conversation)])
BY DEF Abstract!vars, Abstract!Settled, Conversation, Answers, Outcome

\* Between batches every call has its answer; within one, as many as were
\* observed.
LEMMA SettledWhen ==
  ASSUME TrajectoryInv
  PROVE  /\ action = <<>> => Abstract!Settled
         /\ action # <<>> => (Abstract!Settled <=> observed = Len(action))
<1>1. CASE action = <<>>
  BY <1>1, Seen DEF Conversation, Answers
<1>2. CASE action # <<>>
  BY <1>2, Seen, ConversationOf DEF Answers, TrajectoryInv
<1> QED BY <1>1, <1>2

\* Only the end of the trajectory changes what has come of it.
LEMMA SameOutcome ==
  ASSUME \/ pc' = pc /\ status' = status
         \/ pc \notin {"returned", "raised"} /\ pc' \notin {"returned", "raised"}
  PROVE  Outcome' = Outcome
BY DEF Outcome, Over

LEMMA SameView ==
  ASSUME Still, Outcome' = Outcome
  PROVE  UNCHANGED Abstract!vars
<1>1. <<decisions, Conversation, Answers, ran, Outcome>>' = <<decisions, Conversation, Answers, ran, Outcome>>
  BY DEF Still, Conversation, Answers
<1> QED BY <1>1 DEF Abstract!vars, Conversation, Answers, Outcome

LEMMA AskRefines == ASSUME TrajectoryInv, Ask PROVE Abstract!Decide \/ UNCHANGED Abstract!vars
<1>1. pc = "head" /\ UNCHANGED <<rounds, history, action, observed, seen, ran>>
  BY DEF Ask, prefix, tools
<1>2. CASE decisions < MaxDecisions
  <2>1. decisions' = decisions + 1 /\ pc' = "deciding"
    BY <1>2 DEF Ask, Go
  <2>2. decisions = Len(Conversation) /\ action = <<>>
    BY <1>1 DEF TrajectoryInv, Paced, Thinking
  <2>3. Abstract!Settled
    BY <2>2, SettledWhen
  <2>4. Outcome = "open" /\ Outcome' = "open"
    BY <1>1, <2>1 DEF Outcome, Over
  <2> QED
    BY <1>1, <1>2, <2>1, <2>2, <2>3, <2>4 DEF Abstract!Decide, Conversation, Outcome
<1>3. CASE ~(decisions < MaxDecisions)
  BY <1>1, <1>3, SameView, SameOutcome DEF Ask, Stop, Still
<1> QED BY <1>2, <1>3

LEMMA ActRefines ==
  ASSUME TrajectoryInv, Act
  PROVE  (\E calls \in Batches : Abstract!Batch(calls)) \/ UNCHANGED Abstract!vars
<1>1. pc = "act" /\ UNCHANGED <<decisions, history, observed, reply, ran>>
  BY DEF Act, tools
<1>2. CASE pc' = "end" /\ UNCHANGED <<seen, rounds, action>>
  BY <1>1, <1>2, SameView, SameOutcome DEF Still
<1>3. CASE /\ pc' = "calls" /\ reply.calls # <<>> /\ rounds < MaxToolRounds /\ rounds' = rounds + 1
           /\ action' = reply.calls
  <2>1. /\ action = <<>> /\ observed = 0 /\ decisions = rounds + 1 /\ rounds = Len(history)
        /\ action' \in Batches /\ action' # <<>>
    BY <1>1, <1>3 DEF TrajectoryInv, Typed, Paced, Thinking, Conversation
  <2>2. Outcome = "open" /\ Outcome' = "open"
    BY <1>1, <1>3 DEF Outcome, Over
  <2>3. Conversation = history /\ Conversation' = Append(history, action') /\ Answers' = 0
    BY <1>1, <2>1 DEF Conversation, Answers
  <2>4. Abstract!Batch(action')
    BY <1>1, <1>3, <2>1, <2>2, <2>3 DEF Abstract!Batch, Conversation, Answers, Outcome
  <2> QED BY <2>1, <2>4
<1>4. CASE reply.calls = <<>> \/ rounds >= MaxToolRounds \/ ~Acceptable(reply.calls)
  BY <1>2, <1>4, TrajectoryAssumption DEF Act, Stop, TrajectoryInv, Typed, TrajectoryAssumption
<1>5. CASE reply.calls # <<>> /\ ~(rounds >= MaxToolRounds) /\ Acceptable(reply.calls)
  BY <1>3, <1>5, TrajectoryAssumption DEF Act, Go, TrajectoryInv, Typed, TrajectoryAssumption
<1> QED BY <1>4, <1>5

LEMMA CallRefines ==
  ASSUME TrajectoryInv, Call
  PROVE  (\E c \in Calls : Abstract!Run(c)) \/ UNCHANGED Abstract!vars
<1>1. pc = "calls" /\ UNCHANGED <<decisions, rounds, history, action, observed, seen>>
  BY DEF Call, budget, prefix
<1>2. CASE ran' = ran
  BY <1>1, <1>2, SameView, SameOutcome DEF Call, Still, Go
<1>3. CASE ran' = Append(ran, Current) /\ pc' = "tool"
  <2>1. /\ action # <<>> /\ action \in Batches /\ observed < Len(action) /\ observed \in Nat
        /\ decisions = Len(Conversation)
    BY <1>1 DEF TrajectoryInv, Typed, Paced, Running
  <2>2. /\ Len(action) \in Nat /\ observed + 1 \in 1 .. Len(action) /\ Current \in Calls
    BY <2>1, BatchOf DEF Current
  <2>3. ~Abstract!Settled
    BY <2>1, <2>2, SettledWhen
  <2>4. Current = Conversation[Len(Conversation)][Answers + 1]
    BY <2>1, ConversationOf DEF TrajectoryInv, Current, Answers
  <2>5. Current \notin Prior
    BY <2>2 DEF TrajectoryInv, Unstarted, Current
  <2>6. ~Abstract!Started(Current)
    <3>1. Waiting(observed + 1)
      BY <1>1 DEF Waiting
    <3>2. \A i \in 1 .. Len(ran) : ran[i] # Current
      BY <2>2, <3>1 DEF TrajectoryInv, Unstarted, Current
    <3> QED BY <3>2 DEF Abstract!Started
  <2>7. Outcome = "open" /\ Outcome' = "open"
    BY <1>1, <1>3 DEF Outcome, Over
  <2>8. Conversation' = Conversation /\ Answers' = Answers
    BY <1>1 DEF Conversation, Answers
  <2>9. Abstract!Run(Current)
    BY <1>1, <1>3, <2>1, <2>3, <2>4, <2>5, <2>6, <2>7, <2>8 DEF Abstract!Run, Conversation, Answers, Outcome
  <2> QED BY <2>2, <2>9
<1> QED BY <1>2, <1>3 DEF Call, Go

LEMMA ObserveRefines == ASSUME TrajectoryInv, Observe PROVE Abstract!Answer
<1>1. pc = "observe" /\ observed' = observed + 1
      /\ UNCHANGED <<decisions, rounds, history, action, seen, ran>>
  BY DEF Observe, budget, tools
<1>2. pc' \in {"end", "bound", "calls"}
  BY DEF Observe, Stop, Go
<1>3. /\ action # <<>> /\ action \in Batches /\ observed < Len(action) /\ observed \in Nat
      /\ decisions = Len(Conversation)
  BY <1>1 DEF TrajectoryInv, Typed, Paced, Running
<1>4. Len(action) \in Nat
  BY <1>3, BatchOf
<1>5. ~Abstract!Settled
  BY <1>3, <1>4, SettledWhen
<1>6. Outcome = "open" /\ Outcome' = "open"
  BY <1>1, <1>2 DEF Outcome, Over
<1>7. Conversation' = Conversation /\ Answers' = Answers + 1
  BY <1>1, <1>3 DEF Conversation, Answers
<1> QED BY <1>1, <1>3, <1>5, <1>6, <1>7 DEF Abstract!Answer, Conversation, Answers, Outcome

\* A batch that is complete joins the history with all its answers.
LEMMA BoundRefines == ASSUME TrajectoryInv, Bound PROVE UNCHANGED Abstract!vars
<1>1. /\ pc = "bound" /\ history' = Append(history, action) /\ action' = <<>>
      /\ UNCHANGED <<decisions, ran>> /\ pc' \in {"head", "end"}
  BY DEF Bound, budget, tools, Stop, Go
<1>2. action # <<>> /\ action \in Batches /\ history \in Seq(Batches) /\ observed = Len(action)
  BY <1>1 DEF TrajectoryInv, Typed, Paced, Running
<1>3. history' # <<>> /\ history'[Len(history')] = action
  BY <1>1, <1>2, Appended
<1>4. Answers' = Answers
  BY <1>1, <1>2, <1>3 DEF Answers
<1>5. Outcome' = Outcome
  BY <1>1, SameOutcome
<1>6. Conversation' = Conversation
  BY BoundKeeps
<1> QED BY <1>1, <1>4, <1>5, <1>6 DEF Abstract!vars, Conversation, Answers, Outcome

LEMMA SummarizeRefines == ASSUME TrajectoryInv, Summarize PROVE Abstract!Finalize \/ Abstract!Stop
<1>1. pc = "end" /\ pc' \in {"returned", "raised"} /\ status' = status /\ Still
  BY DEF Summarize, Go, budget, prefix, tools, Still
<1>2. Outcome = "open" /\ Outcome' = IF status = "finalized" THEN "finalized" ELSE "stopped"
  BY <1>1 DEF Outcome, Over
<1>3. Conversation' = Conversation /\ Answers' = Answers /\ decisions' = decisions /\ ran' = ran
  BY <1>1 DEF Still, Conversation, Answers
<1>4. status = "finalized" => decisions = Len(Conversation) + 1
  BY <1>1 DEF TrajectoryInv, Paced, Finished
<1> QED BY <1>2, <1>3, <1>4 DEF Abstract!Finalize, Abstract!Stop, Conversation, Answers, Outcome

LEMMA StepRefines == ASSUME TrajectoryInv, [Next]_vars PROVE [Abstract!Next]_(Abstract!vars)
<1>1. CASE Interrupt \/ Decided \/ DecisionRaises \/ ToolReturns \/ Reap
  <2>1. pc \notin {"returned", "raised"} /\ pc' \notin {"returned", "raised"}
    BY <1>1 DEF Interrupt, Decided, DecisionRaises, ToolReturns, Reap, Stop, Go
  <2> QED BY <1>1, <2>1, QuietKeeps, SameOutcome, SameView
<1>2. CASE Cancel \/ Expire \/ Terminated \/ UNCHANGED vars
  <2>1. pc' = pc /\ status' = status
    BY <1>2 DEF Cancel, Expire, Terminated, vars
  <2> QED BY <1>2, <2>1, QuietKeeps, SameOutcome, SameView
<1>3. CASE Ask \/ Act \/ Call \/ Observe \/ Bound \/ Summarize
  BY <1>3, AskRefines, ActRefines, CallRefines, ObserveRefines, BoundRefines, SummarizeRefines
     DEF Abstract!Next
<1> QED BY <1>1, <1>2, <1>3 DEF Next

LEMMA InitRefines == Init => Abstract!Init
BY DEF Init, Abstract!Init, Over, Conversation

----------------------------------------------------------------------------
(* The theorems.                                                           *)

\* A step of the served trajectory is one of the trajectory's own, and one of
\* the process's own, or leaves it alone.
LEMMA Served == [ServingNext]_<<vars, cacheVars>> => [Next]_vars
BY DEF ServingNext, Others, Delivered, Undelivered, Dispatch, Next

LEMMA Serves ==
  ASSUME ServingAssumption, TrajectoryInv, [ServingNext]_<<vars, cacheVars>>
  PROVE  [CacheNext]_cacheVars
<1>1. Rendered(history) \in Seq(Tokens) /\ Rendered(history) # <<>> /\ Me \in Principals
  BY DEF ServingAssumption, TrajectoryInv, Typed
<1>2. CASE Dispatch
  BY <1>1, <1>2 DEF Dispatch, ServingAssumption, CacheNext
<1>3. CASE ~Dispatch
  BY <1>3 DEF ServingNext, Others, Delivered, Undelivered, CacheNext, cacheVars
<1> QED BY <1>2, <1>3

LEMMA TrajectoryHolds == ServingSpec => []TrajectoryInv
<1>1. ServingInit => TrajectoryInv
  BY TrajectoryInit DEF ServingInit
<1>2. TrajectoryInv /\ [ServingNext]_<<vars, cacheVars>> => TrajectoryInv'
  BY Served, TrajectoryKeeps
<1> QED BY <1>1, <1>2, PTL DEF ServingSpec

\* However decisions, tools and interruptions come: no tool is started for a
\* call, and none is answered, whose batch holds one that is refused: invalid, not
\* advertised, or repeated from the history or an earlier round.
THEOREM WholeBatches == ServingSpec => []NothingOfARefusedBatch
<1>1. TrajectoryInv => NothingOfARefusedBatch
  BY DEF TrajectoryInv
<1> QED BY <1>1, TrajectoryHolds, PTL

\* run_trajectory drives a bounded dialogue, for any identifiers, batches and
\* budgets: by the theorems of Dialogue no call is started twice, every call is answered
\* before the model is asked again, and no budget is exceeded.
THEOREM TrajectoryIsDialogue == ServingSpec => ImplementsDialogue
<1>1. ServingInit => Abstract!Init
  BY InitRefines DEF ServingInit
<1>2. TrajectoryInv /\ [ServingNext]_<<vars, cacheVars>> => [Abstract!Next]_(Abstract!vars)
  BY Served, StepRefines
<1> QED BY <1>1, <1>2, TrajectoryHolds, PTL DEF ServingSpec, ImplementsDialogue, Abstract!Spec

\* A trajectory is answered as if nothing were cached, whatever others ask of
\* the same process between its decisions.
THEOREM ServedAsIfUncached == ASSUME ServingAssumption PROVE ServingSpec => []AsIfUncached
<1>1. ServingInit => CacheInit
  BY DEF ServingInit
<1>2. TrajectoryInv /\ [ServingNext]_<<vars, cacheVars>> => [CacheNext]_cacheVars
  BY Serves
<1>3. ServingSpec => CacheSpec
  BY <1>1, <1>2, TrajectoryHolds, PTL DEF ServingSpec, CacheSpec
<1> QED BY <1>3, CacheNeverShows, PTL
=============================================================================
