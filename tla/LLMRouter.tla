------------------------------- MODULE LLMRouter ------------------------------
(***************************************************************************)
(* One request to the LLM router (backend/app/llmconfig/router.py): walk   *)
(* the aliases an operation is configured with, call the model of one      *)
(* alias after the other until one answers, and pass its chunks on.        *)
(*                                                                         *)
(* The code is one coroutine that only waits inside a model call and where *)
(* it yields a chunk.  So everything between the failure of one call and   *)
(* the start of the next, the aliases it skips included, is one step.      *)
(***************************************************************************)
EXTENDS Naturals, Sequences, FiniteSets

CONSTANTS
  Aliases,    \* the triplets of the user's config
  NoAlias,
  Configs,    \* OperationConfigs: [order, rules], rules with [when, use]
  Errors,     \* exceptions a model call may raise
  MaxItems    \* bound: chunks one model call yields

\* ROUTING_REASONS
Reasons == {"rate_limit", "server_error"}

\* The exceptions of httpx and openai, by name, and the classes of
\* status codes of those that carry one.
RateLimits   == {"RateLimitError", "HTTPStatusError 429", "status 429"}
ServerErrors == {"HTTPStatusError 5xx", "status 5xx", "APITimeoutError",
                 "httpx.TimeoutException", "httpx.TransportError"}

\* LLMConfig._validate: rules and orders only name triplets, and a rule
\* names at least one.
ASSUME ConfigAssumption ==
  /\ NoAlias \notin Aliases
  /\ MaxItems \in Nat \ {0}
  /\ \A c \in Configs :
       /\ c.order \in Seq(Aliases)
       /\ c.rules \in Seq([when : Reasons, use : Seq(Aliases)])
       /\ \A i \in 1..Len(c.rules) : c.rules[i].use # <<>>

VARIABLES
  config,   \* the OperationConfig, read once
  usable,   \* aliases with a known provider and a key that decrypts
  mode,     \* stream or generate
  pc,       \* "idle", "calling" or "ended"
  queue,    \* aliases still to try
  used,     \* reasons whose rule has been applied
  current,  \* the alias being called
  emitted,  \* chunks the current call has yielded
  heard,    \* the calls, by number, of which the caller received a chunk
  called,   \* aliases called so far
  calls,    \* number of calls so far
  result    \* how the request ended

settings == <<config, usable, mode>>
vars == <<settings, pc, queue, used, current, emitted, heard, called, calls, result>>

-----------------------------------------------------------------------------
\* classify_error; "none" stops the request.  openai raises an
\* APIConnectionError for a connection it could not make: it has no status
\* code and is neither an httpx exception nor an APITimeoutError.
Classify(e) ==
  IF e \in RateLimits THEN "rate_limit"
  ELSE IF e \in ServerErrors THEN "server_error" ELSE "none"

\* next((r for r in op.rules if r.when == reason), None)
FirstRule(c, reason, i) ==
  c.rules[i].when = reason /\ \A j \in 1..(i - 1) : c.rules[j].when # reason

HasRule(c, reason) == \E i \in 1..Len(c.rules) : FirstRule(c, reason, i)

UseList(c, reason) ==
  c.rules[CHOOSE i \in 1..Len(c.rules) : FirstRule(c, reason, i)].use

RuleFires(reason) == reason \notin used /\ HasRule(config, reason)

\* Mutant: the rule's aliases go behind the rest of the order.
AppendUseList(reason) ==
  IF RuleFires(reason) THEN queue \o UseList(config, reason) ELSE queue

\* Mutant: the rule's aliases replace the rest of the order.
ReplaceQueue(reason) == IF RuleFires(reason) THEN UseList(config, reason) ELSE queue

\* deque(rule.use) + queue
QueueAfter(reason) ==
  IF RuleFires(reason) THEN UseList(config, reason) \o queue ELSE queue

\* Mutant: an applied rule is not remembered.
ForgetRule(reason) == used

\* Mutant: the alias is remembered, not the reason.
RememberAlias(reason) == IF RuleFires(reason) THEN used \cup {current} ELSE used

UsedAfter(reason) == IF RuleFires(reason) THEN used \cup {reason} ELSE used

\* The while loop: the next usable alias of q is called, those before it are
\* skipped.
CallNext(q) ==
  \E i \in 1..Len(q) :
    /\ q[i] \in usable
    /\ \A j \in 1..(i - 1) : q[j] \notin usable
    /\ pc' = "calling"
    /\ current' = q[i]
    /\ queue' = SubSeq(q, i + 1, Len(q))
    /\ emitted' = 0
    /\ called' = called \cup {q[i]}
    /\ calls' = calls + 1
    /\ UNCHANGED result

\* The queue ran empty.
GiveUp(q, outcome) ==
  /\ \A i \in 1..Len(q) : q[i] \notin usable
  /\ pc' = "ended" /\ result' = outcome
  /\ queue' = <<>> /\ current' = NoAlias
  /\ UNCHANGED <<emitted, called, calls>>

End(outcome) ==
  /\ pc' = "ended" /\ result' = outcome /\ current' = NoAlias
  /\ UNCHANGED <<queue, used, emitted, called, calls, heard>>

Init ==
  /\ config \in Configs
  /\ usable \in SUBSET Aliases
  /\ mode \in {"stream", "generate"}
  /\ pc = "idle" /\ queue = <<>> /\ used = {} /\ current = NoAlias
  /\ emitted = 0 /\ heard = {} /\ called = {} /\ calls = 0 /\ result = "none"

\* No config, an unknown operation or an empty order: LLMRoutingError.
Refuse ==
  /\ pc = "idle"
  /\ End("unconfigured")
  /\ UNCHANGED settings

Start ==
  /\ pc = "idle"
  /\ config.order # <<>>
  /\ CallNext(config.order) \/ GiveUp(config.order, "nothing usable")
  /\ UNCHANGED <<settings, used, heard>>

\* The model yields a chunk and the caller takes it; generate's call yields
\* its whole text at once and generate returns it.
Item ==
  /\ pc = "calling"
  /\ heard' = heard \cup {calls}
  /\ emitted' = emitted + 1
  /\ \/ /\ mode = "stream" /\ emitted < MaxItems
        /\ UNCHANGED <<pc, current, result>>
     \/ /\ mode = "generate"
        /\ pc' = "ended" /\ result' = "answered" /\ current' = NoAlias
  /\ UNCHANGED <<settings, queue, used, called, calls>>

\* The stream ends, even if it yielded nothing.
Finish ==
  /\ pc = "calling" /\ mode = "stream"
  /\ End("answered")
  /\ UNCHANGED settings

\* Mutant: the router fails over even when chunks have been passed on.
MayFailOverAfterOutput(e) == Classify(e) \in Reasons

MayFailOver(e) == emitted = 0 /\ Classify(e) \in Reasons

\* The call raises e.
Fail(e) ==
  /\ pc = "calling"
  /\ \/ /\ ~MayFailOver(e)
        /\ End(e)
     \/ /\ MayFailOver(e)
        /\ LET reason == Classify(e)
           IN /\ used' = UsedAfter(reason)
              /\ CallNext(QueueAfter(reason)) \/ GiveUp(QueueAfter(reason), e)
        /\ UNCHANGED heard
  /\ UNCHANGED settings

\* The caller goes away: GeneratorExit or CancelledError, which no except
\* Exception catches.
Cancel ==
  /\ pc = "calling"
  /\ End("cancelled")
  /\ UNCHANGED settings

Next == Refuse \/ Start \/ Item \/ Finish \/ Cancel \/ \E e \in Errors : Fail(e)

Spec == Init /\ [][Next]_vars

-----------------------------------------------------------------------------
(* Properties.                                                             *)

TypeOK ==
  /\ config \in Configs /\ usable \in SUBSET Aliases
  /\ mode \in {"stream", "generate"}
  /\ pc \in {"idle", "calling", "ended"}
  /\ queue \in Seq(Aliases)
  /\ used \in SUBSET Reasons
  /\ current \in Aliases \cup {NoAlias}
  /\ emitted \in 0..MaxItems
  /\ heard \in SUBSET Nat /\ called \in SUBSET Aliases /\ calls \in Nat
  /\ result \in {"none", "unconfigured", "nothing usable", "answered", "cancelled"} \cup Errors

\* The caller never hears two model calls in one answer, of one model or of
\* two: once a chunk was passed on there is no other call, whatever goes wrong.
OneVoice == \A m, n \in heard : m = n

\* A request makes at most one call per entry of the order and of the use
\* list of each rule, although a rule may put aliases back that have failed.
RuleBudget(c, reason) == IF HasRule(c, reason) THEN Len(UseList(c, reason)) ELSE 0

CallsBounded ==
  calls <= Len(config.order) + RuleBudget(config, "rate_limit") + RuleBudget(config, "server_error")

\* A request that ends with an error worth a failover, and nothing passed on,
\* has called every usable alias of its order.
Tried(a) == a \in called

GivesUpLast ==
  pc = "ended" /\ result \in Errors /\ Classify(result) \in Reasons /\ heard = {} =>
    \A i \in 1..Len(config.order) :
      config.order[i] \in usable => Tried(config.order[i])

\* test_llmconfig_router.py: "rule.use must win over order".  When a call
\* fails over and the reason's rule has not been applied, a usable alias of
\* its use list is called next.
UsesRule(reason) ==
  \E i \in 1..Len(UseList(config, reason)) : UseList(config, reason)[i] = current'

RuleWins ==
  [][\A reason \in Reasons :
       /\ pc = "calling" /\ calls' = calls + 1
       /\ RuleFires(reason) /\ used' = used \cup {reason}
       /\ \E i \in 1..Len(UseList(config, reason)) : UseList(config, reason)[i] \in usable
       => UsesRule(reason)]_vars

-----------------------------------------------------------------------------
(* What the code says of itself and does not do.                           *)

\* classify_error: "transport/timeout failures" are server errors, so a
\* request that could not reach one provider goes on to the next alias.
Unreachable == {"APIConnectionError", "APITimeoutError", "httpx.TimeoutException",
                "httpx.TransportError"}

TransportFailsOver ==
  pc = "ended" /\ result \in Unreachable /\ heard = {} =>
    \A i \in 1..Len(config.order) :
      config.order[i] \in usable => Tried(config.order[i])
=============================================================================
