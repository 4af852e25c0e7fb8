---------------------------- MODULE PrefixCache ----------------------------
(***************************************************************************)
(* The one-entry prefix cache of a model process (model_io/prefix_cache.py *)
(* with the generation around it: inference/cuda.py, cuda_evaluation.py,   *)
(* cuda_generation.py).  A request names its principal, which becomes the  *)
(* tenant of the cache key; the attention states of its prompt but for the *)
(* last token are kept for the next request.                               *)
(*                                                                         *)
(* A DynamicCache is the sequence of the positions the model computed,     *)
(* each with its token and the principal for whom it was computed.         *)
(***************************************************************************)
EXTENDS Naturals, Sequences

CONSTANTS
  Principals,  \* who may ask the service
  Tokens,      \* of the tokenizer
  Fits(_),     \* the prompt and 256 new tokens fit CONTEXT_TOKENS
  NewTokens    \* how many positions one generation may compute after its prompt

NoTenant == "not-dispatched"
NoEntry == [tenant |-> NoTenant, prefix |-> <<>>, cache |-> <<>>]
NoRequest == [who |-> NoTenant, prompt |-> <<>>]

ASSUME PrefixCacheAssumption == NoTenant \notin Principals /\ NewTokens \in Nat

VARIABLES
  tenant,  \* tenant_id
  entry,   \* _entry
  serving, \* the request the process works on
  at,      \* idle, bound, forward, decode, or answered
  cache,   \* the DynamicCache of the running generation
  hit,     \* cache_hit_tokens
  done     \* the answer is a completed one

cacheVars == <<tenant, entry, serving, at, cache, hit, done>>

\* A process just prepared: PrefixCache is made by its first generation.
Prepared ==
  [tenant |-> NoTenant, entry |-> NoEntry, serving |-> NoRequest, at |-> "idle",
   cache |-> <<>>, hit |-> 0, done |-> FALSE]
Become(p) ==
  /\ tenant' = p.tenant /\ entry' = p.entry /\ serving' = p.serving /\ at' = p.at
  /\ cache' = p.cache /\ hit' = p.hit /\ done' = p.done

CacheInit ==
  /\ tenant = NoTenant /\ entry = NoEntry /\ serving = NoRequest /\ at = "idle"
  /\ cache = <<>> /\ hit = 0 /\ done = FALSE

\* bind_principal, then generate: the packet of the next request is there.
Bind(who, prompt) ==
  /\ at = "idle"
  /\ tenant' = who
  /\ serving' = [who |-> who, prompt |-> prompt]
  /\ at' = "bound" /\ done' = FALSE
  /\ UNCHANGED <<entry, cache, hit>>

\* generate returns before the forward, for a deadline that passed or a prompt
\* that does not fit, or the tokenizer or the load raises: the entry goes.
Decline ==
  /\ at = "bound"
  /\ entry' = NoEntry
  /\ at' = "answered"
  /\ UNCHANGED <<tenant, serving, cache, hit, done>>

\* Mutant: the key holds no tenant.
ReusableByAll(prompt) ==
  /\ entry # NoEntry
  /\ Len(prompt) > Len(entry.prefix)
  /\ SubSeq(prompt, 1, Len(entry.prefix)) = entry.prefix
  /\ Len(entry.cache) = Len(entry.prefix)

\* The conditions of take; the model identity in the key is that of the process.
Reusable(prompt) ==
  /\ entry # NoEntry /\ entry.tenant = tenant
  /\ Len(prompt) > Len(entry.prefix)
  /\ SubSeq(prompt, 1, Len(entry.prefix)) = entry.prefix
  /\ Len(entry.cache) = Len(entry.prefix)

\* take consumes the entry, whether or not it is of use.
Take ==
  /\ at = "bound" /\ Fits(serving.prompt)
  /\ cache' = IF Reusable(serving.prompt) THEN entry.cache ELSE <<>>
  /\ hit' = Len(cache')
  /\ entry' = NoEntry
  /\ at' = "forward"
  /\ UNCHANGED <<tenant, serving, done>>

\* What the model computes, for the request it serves, at a position.
Position(token) == [token |-> token, by |-> serving.who]

\* publish: the cache, cropped back to the prompt without its last token.
Published(prompt, grown) ==
  IF Len(prompt) > 1
  THEN [tenant |-> tenant,
        prefix |-> SubSeq(prompt, 1, Len(prompt) - 1),
        cache |-> SubSeq(grown, 1, Len(prompt) - 1)]
  ELSE NoEntry

\* model.generate computes the rest of the prompt and every new token but the
\* last, and the result is published.
Generate ==
  /\ at = "forward"
  /\ \E n \in 0 .. NewTokens :
       /\ cache' = [i \in 1 .. Len(serving.prompt) + n |->
                      IF i <= hit THEN cache[i]
                      ELSE IF i <= Len(serving.prompt) THEN Position(serving.prompt[i])
                      ELSE Position("new")]
       /\ entry' = Published(serving.prompt, cache')
  /\ at' = "decode"
  /\ UNCHANGED <<tenant, serving, hit, done>>

\* The forward, the publication or a hook raises, however far it came.
GenerateRaises ==
  /\ at = "forward"
  /\ entry' = NoEntry
  /\ at' = "answered"
  /\ UNCHANGED <<tenant, serving, cache, hit, done>>

\* The tokens are decoded and parsed: a finish that is not "stop", a text that
\* cannot be decoded and one that is no action each clear the cache.
Decode ==
  /\ at = "decode"
  /\ done' \in BOOLEAN
  /\ entry' = IF done' THEN entry ELSE NoEntry
  /\ at' = "answered"
  /\ UNCHANGED <<tenant, serving, cache, hit>>

\* The answer is read: whoever owns the process keeps it only after a
\* completed one (Decide of Service; DecisionSession closes likewise).
Answered ==
  /\ at = "answered"
  /\ IF done THEN /\ at' = "idle"
                  /\ serving' = NoRequest /\ cache' = <<>> /\ hit' = 0
                  /\ UNCHANGED <<tenant, entry, done>>
             ELSE Become(Prepared)

\* The process is closed or dies, and another one is prepared.
Replaced == Become(Prepared)

Worker == Decline \/ Take \/ Generate \/ GenerateRaises \/ Decode

\* Whatever the service has it answer, whoever asks for it.
CacheNext ==
  \/ \E who \in Principals, prompt \in Seq(Tokens) : prompt # <<>> /\ Bind(who, prompt)
  \/ Worker \/ Answered \/ Replaced

CacheSpec == CacheInit /\ [][CacheNext]_cacheVars

----------------------------------------------------------------------------
(* Properties.                                                             *)

\* A generation goes on from exactly its own prompt, computed for nobody but
\* its own principal, and computes at least one token of it: whoever asked
\* before, it answers what it would answer without a cache.
AsIfUncached ==
  at = "decode" =>
    /\ hit < Len(serving.prompt)
    /\ \A i \in DOMAIN serving.prompt : cache[i] = Position(serving.prompt[i])
=============================================================================
