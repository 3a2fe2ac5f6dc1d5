--------------------------- MODULE LLMRouter_proofs ---------------------------
(***************************************************************************)
(* Proofs about LLMRouter for every config, set of aliases and set of      *)
(* errors.  The inductive invariant is RouterInv: what the queue still     *)
(* holds accounts for the calls that may follow (Budget), for the aliases  *)
(* nobody has called yet (Pending), and a call that may still fail over    *)
(* has not been heard (Unheard).                                           *)
(***************************************************************************)
EXTENDS LLMRouter, TLAPS

In(a, q) == \E k \in 1..Len(q) : q[k] = a

-----------------------------------------------------------------------------
(* Sequences: what the router does to its queue.                           *)

\* An entry of a sequence over S is in S.
LEMMA Entry ==
  ASSUME NEW S, NEW q \in Seq(S), NEW i \in 1..Len(q)
  PROVE  q[i] \in S
  OBVIOUS

LEMMA EmptyQueue == ASSUME NEW S PROVE <<>> \in Seq(S)
  OBVIOUS

\* Dropping a prefix keeps the type and the later entries.
LEMMA DropPrefix ==
  ASSUME NEW S, NEW q \in Seq(S), NEW i \in 1..Len(q)
  PROVE  /\ SubSeq(q, i + 1, Len(q)) \in Seq(S)
         /\ Len(SubSeq(q, i + 1, Len(q))) = Len(q) - i
         /\ \A k \in 1..(Len(q) - i) : SubSeq(q, i + 1, Len(q))[k] = q[i + k]
  OBVIOUS

\* Putting entries in front loses none of the queue.
LEMMA PutInFront ==
  ASSUME NEW S, NEW p \in Seq(S), NEW q \in Seq(S)
  PROVE  /\ p \o q \in Seq(S)
         /\ Len(p \o q) = Len(p) + Len(q)
         /\ \A a : In(a, q) => In(a, p \o q)
  <1>1. p \o q \in Seq(S) /\ Len(p \o q) = Len(p) + Len(q)
    OBVIOUS
  <1>2. ASSUME NEW a, NEW k \in 1..Len(q), q[k] = a
        PROVE  In(a, p \o q)
    <2>1. Len(p) + k \in 1..Len(p \o q) /\ (p \o q)[Len(p) + k] = a
      BY <1>1, <1>2
    <2> QED
      BY <2>1 DEF In
  <1> QED
    BY <1>1, <1>2 DEF In

\* The rule the code finds has a use list of configured aliases.
LEMMA UseListType ==
  ASSUME NEW c \in Configs, NEW reason, HasRule(c, reason)
  PROVE  UseList(c, reason) \in Seq(Aliases)
  <1> DEFINE first == CHOOSE i \in 1..Len(c.rules) : FirstRule(c, reason, i)
  <1>1. first \in 1..Len(c.rules)
    BY DEF HasRule
  <1>2. c.rules \in Seq([when : Reasons, use : Seq(Aliases)])
    BY ConfigAssumption
  <1>3. UseList(c, reason) = c.rules[first].use
    BY DEF UseList
  <1> HIDE DEF first
  <1>4. c.rules[first] \in [when : Reasons, use : Seq(Aliases)]
    BY <1>1, <1>2, Entry
  <1> QED
    BY <1>3, <1>4

-----------------------------------------------------------------------------
(* Type correctness.                                                       *)

GenerateHasNoMore == mode = "generate" /\ pc = "calling" => emitted = 0

TypeInv == TypeOK /\ GenerateHasNoMore

\* The queue a failure leaves is a queue of aliases, and holds what it held.
LEMMA QueueAfterType ==
  ASSUME TypeOK, NEW reason
  PROVE  /\ QueueAfter(reason) \in Seq(Aliases)
         /\ \A a : In(a, queue) => In(a, QueueAfter(reason))
         /\ Len(QueueAfter(reason)) =
              Len(queue) + (IF RuleFires(reason) THEN RuleBudget(config, reason) ELSE 0)
         /\ Len(queue) \in Nat
  <1>1. CASE RuleFires(reason)
    <2>1. HasRule(config, reason) /\ config \in Configs
      BY <1>1 DEF RuleFires, TypeOK
    <2>2. UseList(config, reason) \in Seq(Aliases)
      BY <2>1, UseListType
    <2>3. queue \in Seq(Aliases)
      BY DEF TypeOK
    <2> QED
      BY <1>1, <2>1, <2>2, <2>3, PutInFront DEF QueueAfter, RuleBudget
  <1>2. CASE ~RuleFires(reason)
    <2>1. QueueAfter(reason) = queue
      BY <1>2 DEF QueueAfter
    <2>2. queue \in Seq(Aliases)
      BY DEF TypeOK
    <2>3. Len(queue) \in Nat
      BY <2>2
    <2> QED
      BY <1>2, <2>1, <2>2, <2>3
  <1> QED
    BY <1>1, <1>2

\* Calling the next alias of any queue keeps the types it touches.
LEMMA CallNextType ==
  ASSUME TypeOK, NEW q \in Seq(Aliases), CallNext(q)
  PROVE  /\ pc' = "calling" /\ queue' \in Seq(Aliases) /\ current' \in Aliases
         /\ emitted' = 0 /\ called' \in SUBSET Aliases /\ calls' = calls + 1
         /\ result' = result
  <1>1. PICK i \in 1..Len(q) :
          /\ pc' = "calling" /\ current' = q[i] /\ queue' = SubSeq(q, i + 1, Len(q))
          /\ emitted' = 0 /\ called' = called \cup {q[i]} /\ calls' = calls + 1
          /\ result' = result
    BY DEF CallNext
  <1>2. q[i] \in Aliases
    OBVIOUS
  <1>3. queue' \in Seq(Aliases)
    BY <1>1, DropPrefix
  <1> QED
    BY <1>1, <1>2, <1>3 DEF TypeOK

\* A step that starts a call, with the rest of its changes spelled out.
LEMMA CallingTyped ==
  ASSUME TypeInv, NEW q \in Seq(Aliases), CallNext(q),
         UNCHANGED settings, used' \in SUBSET Reasons, UNCHANGED heard
  PROVE  TypeInv'
  <1>1. config' = config /\ usable' = usable /\ mode' = mode /\ heard' = heard
    BY DEF settings
  <1>2. /\ pc' = "calling" /\ queue' \in Seq(Aliases) /\ current' \in Aliases
        /\ emitted' = 0 /\ called' \in SUBSET Aliases /\ calls' = calls + 1
        /\ result' = result
    BY CallNextType DEF TypeInv
  <1>3. emitted' \in 0..MaxItems
    BY <1>2, ConfigAssumption
  <1>4. calls \in Nat
    BY DEF TypeInv, TypeOK
  <1>5. calls' \in Nat /\ current' \in Aliases \cup {NoAlias}
    BY <1>2, <1>4
  <1>6. TypeOK'
    BY <1>1, <1>2, <1>3, <1>5 DEF TypeInv, TypeOK
  <1> QED
    BY <1>2, <1>6 DEF TypeInv, GenerateHasNoMore

\* A step that ends with an empty queue.
LEMMA GivenUpTyped ==
  ASSUME TypeInv, NEW q, NEW outcome \in {"nothing usable"} \cup Errors, GiveUp(q, outcome),
         UNCHANGED settings, used' \in SUBSET Reasons, UNCHANGED heard
  PROVE  TypeInv'
  <1>1. config' = config /\ usable' = usable /\ mode' = mode /\ heard' = heard
    BY DEF settings
  <1>2. /\ pc' = "ended" /\ result' = outcome /\ queue' = <<>> /\ current' = NoAlias
        /\ emitted' = emitted /\ called' = called /\ calls' = calls
    BY DEF GiveUp
  <1>3. queue' \in Seq(Aliases)
    BY <1>2, EmptyQueue
  <1>4. TypeOK'
    BY <1>1, <1>2, <1>3 DEF TypeInv, TypeOK
  <1> QED
    BY <1>2, <1>4 DEF TypeInv, GenerateHasNoMore

LEMMA TypeStep ==
  ASSUME TypeInv, [Next]_vars
  PROVE  TypeInv'
  <1> USE DEF TypeInv, GenerateHasNoMore
  <1>1. CASE Refuse
    BY <1>1 DEF Refuse, End, TypeOK, settings
  <1>2. CASE Start
    <2>1. config.order \in Seq(Aliases)
      BY ConfigAssumption DEF TypeOK
    <2>2. UNCHANGED settings /\ used' \in SUBSET Reasons /\ UNCHANGED heard
      BY <1>2 DEF Start, TypeOK
    <2>3. CASE CallNext(config.order)
      BY <2>1, <2>2, <2>3, CallingTyped
    <2>4. CASE GiveUp(config.order, "nothing usable")
      BY <2>2, <2>4, GivenUpTyped
    <2> QED
      BY <1>2, <2>3, <2>4 DEF Start
  <1>3. CASE Item
    <2>1. /\ UNCHANGED <<config, usable, mode, queue, used, called, calls>>
          /\ heard' = heard \cup {calls} /\ emitted' = emitted + 1
          /\ pc' \in {"calling", "ended"} /\ current' \in {current, NoAlias}
          /\ result' \in {result, "answered"}
          /\ mode = "generate" => pc' = "ended"
      BY <1>3 DEF Item, TypeOK, settings
    <2>2. calls \in Nat /\ heard \in SUBSET Nat /\ emitted \in 0..MaxItems
      BY DEF TypeOK
    <2>3. emitted < MaxItems
      BY <1>3, <2>2, ConfigAssumption DEF Item
    <2>4. emitted' \in 0..MaxItems /\ heard' \in SUBSET Nat
      BY <2>1, <2>2, <2>3, ConfigAssumption
    <2> QED
      BY <2>1, <2>4 DEF TypeOK
  <1>4. CASE Finish
    BY <1>4 DEF Finish, End, TypeOK, settings
  <1>5. CASE Cancel
    BY <1>5 DEF Cancel, End, TypeOK, settings
  <1>6. ASSUME NEW e \in Errors, Fail(e) PROVE TypeInv'
    <2>1. CASE ~MayFailOver(e)
      BY <1>6, <2>1 DEF Fail, End, TypeOK, settings
    <2>2. CASE MayFailOver(e)
      <3>1. QueueAfter(Classify(e)) \in Seq(Aliases)
        BY QueueAfterType
      <3>2. UNCHANGED settings /\ used' \in SUBSET Reasons /\ UNCHANGED heard
        BY <1>6, <2>2 DEF Fail, MayFailOver, UsedAfter, TypeOK
      <3>3. CASE CallNext(QueueAfter(Classify(e)))
        BY <3>1, <3>2, <3>3, CallingTyped
      <3>4. CASE GiveUp(QueueAfter(Classify(e)), e)
        BY <3>2, <3>4, GivenUpTyped
      <3> QED
        BY <1>6, <2>2, <3>3, <3>4 DEF Fail
    <2> QED
      BY <2>1, <2>2
  <1>7. CASE UNCHANGED vars
    BY <1>7 DEF vars, settings, TypeOK
  <1> QED
    BY <1>1, <1>2, <1>3, <1>4, <1>5, <1>6, <1>7 DEF Next

LEMMA TypeInit == Init => TypeInv
  BY ConfigAssumption DEF Init, TypeInv, TypeOK, GenerateHasNoMore

LEMMA Typed == Spec => []TypeInv
  BY TypeInit, TypeStep, PTL DEF Spec

\* The router's variables keep their types.
THEOREM TypeCorrect == Spec => []TypeOK
  <1>1. TypeInv => TypeOK
    BY DEF TypeInv
  <1> QED
    BY <1>1, Typed, PTL

-----------------------------------------------------------------------------
(* The inductive invariant.                                                *)

\* What the caller has heard is what the current call has yielded.
Unheard ==
  /\ heard \subseteq {calls}
  /\ pc = "idle" => heard = {}
  /\ pc = "calling" => (emitted = 0 <=> heard = {})

Spent(reason) == IF reason \in used THEN RuleBudget(config, reason) ELSE 0

Allowance == Len(config.order) + Spent("rate_limit") + Spent("server_error")

\* Every call took an entry out of the queue, and only rules put some in.
Budget ==
  /\ pc = "idle" => calls = 0 /\ queue = <<>> /\ used = {}
  /\ calls + Len(queue) <= Allowance

\* A usable alias of the order that was not called is still in the queue.
Pending ==
  pc = "calling" =>
    \A k \in 1..Len(config.order) :
      config.order[k] \in usable => config.order[k] \in called \/ In(config.order[k], queue)

RouterInv == TypeInv /\ Unheard /\ Budget /\ Pending /\ GivesUpLast

LEMMA UnheardStep ==
  ASSUME TypeInv, Unheard, [Next]_vars
  PROVE  Unheard'
  <1> USE DEF Unheard
  <1>1. CASE Refuse
    BY <1>1 DEF Refuse, End
  <1>2. CASE Start
    BY <1>2 DEF Start, CallNext, GiveUp
  <1>3. CASE Item
    <2>1. /\ heard' = heard \cup {calls} /\ calls' = calls /\ emitted' = emitted + 1
          /\ pc' \in {"calling", "ended"}
      BY <1>3 DEF Item
    <2>2. emitted \in 0..MaxItems
      BY DEF TypeInv, TypeOK
    <2>3. emitted' # 0
      BY <2>1, <2>2
    <2>4. heard' \subseteq {calls'} /\ heard' # {} /\ pc' # "idle"
      BY <2>1
    <2> QED
      BY <2>3, <2>4
  <1>4. CASE Finish
    BY <1>4 DEF Finish, End
  <1>5. CASE Cancel
    BY <1>5 DEF Cancel, End
  <1>6. ASSUME NEW e \in Errors, Fail(e) PROVE Unheard'
    <2>1. CASE ~MayFailOver(e)
      BY <1>6, <2>1 DEF Fail, End
    <2>2. CASE MayFailOver(e)
      <3>1. heard = {} /\ heard' = heard
        BY <1>6, <2>2 DEF Fail, MayFailOver
      <3>2. CASE CallNext(QueueAfter(Classify(e)))
        BY <3>1, <3>2 DEF CallNext
      <3>3. CASE GiveUp(QueueAfter(Classify(e)), e)
        BY <3>1, <3>3 DEF GiveUp
      <3> QED
        BY <1>6, <2>2, <3>2, <3>3 DEF Fail
    <2> QED
      BY <2>1, <2>2
  <1>7. CASE UNCHANGED vars
    BY <1>7 DEF vars
  <1> QED
    BY <1>1, <1>2, <1>3, <1>4, <1>5, <1>6, <1>7 DEF Next

LEMMA OrderType ==
  ASSUME TypeOK
  PROVE  config.order \in Seq(Aliases) /\ Len(config.order) \in Nat
  <1>1. config.order \in Seq(Aliases)
    BY ConfigAssumption DEF TypeOK
  <1> QED
    BY <1>1

\* A rule adds the length of its use list.
LEMMA BudgetType ==
  ASSUME TypeOK, NEW reason
  PROVE  RuleBudget(config, reason) \in Nat
  <1>1. CASE HasRule(config, reason)
    <2>1. UseList(config, reason) \in Seq(Aliases)
      BY <1>1, UseListType DEF TypeOK
    <2> QED
      BY <1>1, <2>1 DEF RuleBudget
  <1>2. CASE ~HasRule(config, reason)
    BY <1>2 DEF RuleBudget
  <1> QED
    BY <1>1, <1>2

\* A call takes at least its own alias out of the queue.
LEMMA CallNextShortens ==
  ASSUME NEW q \in Seq(Aliases), CallNext(q)
  PROVE  Len(queue') \in Nat /\ Len(queue') + 1 <= Len(q) /\ calls' = calls + 1
  <1>1. PICK i \in 1..Len(q) : queue' = SubSeq(q, i + 1, Len(q)) /\ calls' = calls + 1
    BY DEF CallNext
  <1>2. Len(queue') = Len(q) - i
    BY <1>1, DropPrefix
  <1> QED
    BY <1>1, <1>2

\* Applying a rule raises the allowance by what it puts into the queue.
LEMMA AllowanceStep ==
  ASSUME TypeInv, NEW reason \in Reasons, config' = config, used' = UsedAfter(reason)
  PROVE  /\ Allowance \in Nat
         /\ Allowance' = Allowance + (IF RuleFires(reason) THEN RuleBudget(config, reason) ELSE 0)
  <1>1. /\ Len(config.order) \in Nat
        /\ RuleBudget(config, "rate_limit") \in Nat
        /\ RuleBudget(config, "server_error") \in Nat
    BY OrderType, BudgetType DEF TypeInv
  <1>2. \A r : RuleBudget(config, r)' = RuleBudget(config, r)
    BY DEF RuleBudget, HasRule, UseList, FirstRule
  <1>3. \A r : Spent(r)' = IF r \in used' THEN RuleBudget(config, r) ELSE 0
    BY <1>2 DEF Spent
  <1>4. CASE RuleFires(reason)
    <2>1. used' = used \cup {reason} /\ reason \notin used
      BY <1>4 DEF UsedAfter, RuleFires
    <2>2. CASE reason = "rate_limit"
      BY <1>1, <1>3, <1>4, <2>1, <2>2 DEF Allowance, Spent
    <2>3. CASE reason = "server_error"
      BY <1>1, <1>3, <1>4, <2>1, <2>3 DEF Allowance, Spent
    <2> QED
      BY <2>2, <2>3 DEF Reasons
  <1>5. CASE ~RuleFires(reason)
    <2>1. used' = used
      BY <1>5 DEF UsedAfter
    <2> QED
      BY <1>1, <1>3, <1>5, <2>1 DEF Allowance, Spent
  <1> QED
    BY <1>4, <1>5

LEMMA BudgetStep ==
  ASSUME TypeInv, Budget, [Next]_vars
  PROVE  Budget'
  <1>c. calls \in Nat
    BY DEF TypeInv, TypeOK
  <1>t. /\ calls \in Nat /\ Len(queue) \in Nat /\ config.order \in Seq(Aliases)
        /\ Len(config.order) \in Nat
    BY <1>c, OrderType, QueueAfterType DEF TypeInv
  <1>s. ASSUME config' = config, used' = used, queue' = queue, calls' = calls, pc' # "idle"
        PROVE  Budget'
    <2>1. Allowance' = Allowance
      BY <1>s DEF Allowance, Spent, RuleBudget, HasRule, UseList, FirstRule
    <2> QED
      BY <1>s, <2>1 DEF Budget
  <1>1. CASE Refuse
    BY <1>1, <1>s DEF Refuse, End, settings
  <1>2. CASE Start
    <2>1. config' = config /\ calls = 0 /\ used' = {} /\ pc' # "idle"
      BY <1>2 DEF Start, settings, CallNext, GiveUp, Budget
    <2>2. Allowance' = Len(config.order)
      BY <1>t, <2>1 DEF Allowance, Spent
    <2>3. CASE CallNext(config.order)
      <3>1. Len(queue') \in Nat /\ Len(queue') + 1 <= Len(config.order) /\ calls' = 1
        BY <1>t, <2>1, <2>3, CallNextShortens
      <3> QED
        BY <1>t, <2>1, <2>2, <3>1 DEF Budget
    <2>4. CASE GiveUp(config.order, "nothing usable")
      <3>1. Len(queue') = 0 /\ calls' = 0
        BY <2>1, <2>4 DEF GiveUp
      <3> QED
        BY <1>t, <2>1, <2>2, <3>1 DEF Budget
    <2> QED
      BY <1>2, <2>3, <2>4 DEF Start
  <1>3. CASE Item
    BY <1>3, <1>s DEF Item, settings
  <1>4. CASE Finish
    BY <1>4, <1>s DEF Finish, End, settings
  <1>5. CASE Cancel
    BY <1>5, <1>s DEF Cancel, End, settings
  <1>6. ASSUME NEW e \in Errors, Fail(e) PROVE Budget'
    <2>1. CASE ~MayFailOver(e)
      BY <1>6, <1>s, <2>1 DEF Fail, End, settings
    <2>2. CASE MayFailOver(e)
      <3> DEFINE reason == Classify(e)
                 more == IF RuleFires(reason) THEN RuleBudget(config, reason) ELSE 0
                 q == QueueAfter(reason)
      <3>1. reason \in Reasons /\ config' = config /\ used' = UsedAfter(reason) /\ pc' # "idle"
        BY <1>6, <2>2 DEF Fail, MayFailOver, settings, CallNext, GiveUp
      <3>2. Allowance \in Nat /\ Allowance' = Allowance + more
        BY <3>1, AllowanceStep
      <3>3. q \in Seq(Aliases) /\ Len(q) = Len(queue) + more
        BY QueueAfterType DEF TypeInv
      <3>4. more \in Nat
        BY BudgetType DEF TypeInv
      <3>5. calls + Len(queue) <= Allowance
        BY DEF Budget
      <3>6. CASE CallNext(q)
        <4>1. Len(queue') \in Nat /\ Len(queue') + 1 <= Len(q) /\ calls' = calls + 1
          BY <3>3, <3>6, CallNextShortens
        <4>2. calls' + Len(queue') <= Allowance'
          <5> HIDE DEF more, q, reason
          <5> QED
            BY <1>t, <3>2, <3>3, <3>4, <3>5, <4>1
        <4> QED
          BY <3>1, <4>2 DEF Budget
      <3>7. CASE GiveUp(q, e)
        <4>1. Len(queue') = 0 /\ calls' = calls
          BY <3>7 DEF GiveUp
        <4>2. calls' + Len(queue') <= Allowance'
          <5> HIDE DEF more, q, reason
          <5> QED
            BY <1>t, <3>2, <3>4, <3>5, <4>1
        <4> QED
          BY <3>1, <4>2 DEF Budget
      <3> QED
        BY <1>6, <2>2, <3>6, <3>7 DEF Fail
    <2> QED
      BY <2>1, <2>2
  <1>7. CASE UNCHANGED vars
    <2>1. Allowance' = Allowance
      BY <1>7 DEF vars, settings, Allowance, Spent, RuleBudget, HasRule, UseList, FirstRule
    <2> QED
      BY <1>7, <2>1 DEF vars, settings, Budget
  <1> QED
    BY <1>1, <1>2, <1>3, <1>4, <1>5, <1>6, <1>7 DEF Next

\* What a call takes from the front of the queue is called or not usable.
LEMMA CallNextKeeps ==
  ASSUME NEW q \in Seq(Aliases), CallNext(q), NEW a \in usable, a \in called \/ In(a, q)
  PROVE  a \in called' \/ In(a, queue')
  <1>1. PICK i \in 1..Len(q) :
          /\ \A j \in 1..(i - 1) : q[j] \notin usable
          /\ queue' = SubSeq(q, i + 1, Len(q)) /\ called' = called \cup {q[i]}
    BY DEF CallNext
  <1>2. CASE a \in called
    BY <1>1, <1>2
  <1>3. ASSUME NEW k \in 1..Len(q), q[k] = a
        PROVE  a \in called' \/ In(a, queue')
    <2>1. k >= i
      BY <1>1, <1>3
    <2>2. CASE k = i
      BY <1>1, <1>3, <2>2
    <2>3. CASE k > i
      <3>1. k - i \in 1..Len(queue') /\ queue'[k - i] = q[k]
        BY <1>1, <2>3, DropPrefix
      <3> QED
        BY <1>3, <3>1 DEF In
    <2> QED
      BY <2>1, <2>2, <2>3
  <1> QED
    BY <1>2, <1>3 DEF In

LEMMA PendingStep ==
  ASSUME TypeInv, Pending, [Next]_vars
  PROVE  Pending'
  <1>s. ASSUME pc' # "calling" PROVE Pending'
    BY <1>s DEF Pending
  <1>1. CASE Refuse
    BY <1>1, <1>s DEF Refuse, End
  <1>2. CASE Start
    <2>1. config' = config /\ usable' = usable
      BY <1>2 DEF Start, settings
    <2>2. CASE CallNext(config.order)
      <3>1. ASSUME NEW k \in 1..Len(config.order), config.order[k] \in usable
            PROVE  config.order[k] \in called' \/ In(config.order[k], queue')
        <4>1. In(config.order[k], config.order)
          BY DEF In
        <4> QED
          BY <2>2, <3>1, <4>1, OrderType, CallNextKeeps DEF TypeInv
      <3> QED
        BY <2>1, <3>1 DEF Pending, In
    <2>3. CASE GiveUp(config.order, "nothing usable")
      BY <1>s, <2>3 DEF GiveUp
    <2> QED
      BY <1>2, <2>2, <2>3 DEF Start
  <1>3. CASE Item
    BY <1>3 DEF Item, settings, Pending, In
  <1>4. CASE Finish
    BY <1>4, <1>s DEF Finish, End
  <1>5. CASE Cancel
    BY <1>5, <1>s DEF Cancel, End
  <1>6. ASSUME NEW e \in Errors, Fail(e) PROVE Pending'
    <2>1. CASE ~MayFailOver(e)
      BY <1>6, <1>s, <2>1 DEF Fail, End
    <2>2. CASE MayFailOver(e)
      <3> DEFINE q == QueueAfter(Classify(e))
      <3>1. config' = config /\ usable' = usable /\ pc = "calling"
        BY <1>6, <2>2 DEF Fail, settings
      <3>2. q \in Seq(Aliases) /\ \A a : In(a, queue) => In(a, q)
        BY QueueAfterType DEF TypeInv
      <3>3. CASE CallNext(q)
        <4>1. ASSUME NEW k \in 1..Len(config.order), config.order[k] \in usable
              PROVE  config.order[k] \in called' \/ In(config.order[k], queue')
          <5>1. config.order[k] \in called \/ In(config.order[k], q)
            BY <3>1, <3>2, <4>1 DEF Pending
          <5> HIDE DEF q
          <5> QED
            BY <3>2, <3>3, <4>1, <5>1, CallNextKeeps
        <4> QED
          BY <3>1, <4>1 DEF Pending, In
      <3>4. CASE GiveUp(q, e)
        BY <1>s, <3>4 DEF GiveUp
      <3> QED
        BY <1>6, <2>2, <3>3, <3>4 DEF Fail
    <2> QED
      BY <2>1, <2>2
  <1>7. CASE UNCHANGED vars
    BY <1>7 DEF vars, settings, Pending, In
  <1> QED
    BY <1>1, <1>2, <1>3, <1>4, <1>5, <1>6, <1>7 DEF Next

\* The words the router ends with are no errors worth a failover.
LEMMA NoSuchErrors ==
  \A word \in {"none", "unconfigured", "nothing usable", "answered", "cancelled"} :
    Classify(word) \notin Reasons
  BY DEF Classify, RateLimits, ServerErrors, Reasons

LEMMA GivesUpStep ==
  ASSUME TypeInv, Unheard, Pending, GivesUpLast, [Next]_vars
  PROVE  GivesUpLast'
  <1>s. ASSUME pc' # "ended" \/ heard' # {} \/ Classify(result') \notin Reasons
        PROVE  GivesUpLast'
    BY <1>s DEF GivesUpLast, Classify
  <1>1. CASE Refuse
    BY <1>1, <1>s, NoSuchErrors DEF Refuse, End
  <1>2. CASE Start
    BY <1>2, <1>s, NoSuchErrors DEF Start, CallNext, GiveUp
  <1>3. CASE Item
    <2>1. heard' # {}
      BY <1>3 DEF Item
    <2> QED
      BY <1>s, <2>1
  <1>4. CASE Finish
    BY <1>4, <1>s, NoSuchErrors DEF Finish, End
  <1>5. CASE Cancel
    BY <1>5, <1>s, NoSuchErrors DEF Cancel, End
  <1>6. ASSUME NEW e \in Errors, Fail(e) PROVE GivesUpLast'
    <2>1. CASE ~MayFailOver(e)
      <3>1. pc = "calling" /\ heard' = heard /\ result' = e
        BY <1>6, <2>1 DEF Fail, End
      <3>2. Classify(e) \in Reasons => heard # {}
        BY <2>1, <3>1 DEF MayFailOver, Unheard
      <3> QED
        BY <1>s, <3>1, <3>2
    <2>2. CASE MayFailOver(e)
      <3> DEFINE q == QueueAfter(Classify(e))
      <3>1. config' = config /\ usable' = usable /\ pc = "calling"
        BY <1>6, <2>2 DEF Fail, settings
      <3>2. \A a : In(a, queue) => In(a, q)
        BY QueueAfterType DEF TypeInv
      <3>3. CASE CallNext(q)
        BY <1>s, <3>3 DEF CallNext
      <3>4. CASE GiveUp(q, e)
        <4>1. called' = called /\ \A i \in 1..Len(q) : q[i] \notin usable
          BY <3>4 DEF GiveUp
        <4>2. ASSUME NEW k \in 1..Len(config.order), config.order[k] \in usable
              PROVE  config.order[k] \in called'
          <5>1. config.order[k] \in called \/ In(config.order[k], q)
            BY <3>1, <3>2, <4>2 DEF Pending
          <5>2. ~In(config.order[k], q)
            BY <4>1, <4>2 DEF In
          <5> QED
            BY <4>1, <5>1, <5>2
        <4> QED
          BY <3>1, <4>2 DEF GivesUpLast, Tried
      <3> QED
        BY <1>6, <2>2, <3>3, <3>4 DEF Fail
    <2> QED
      BY <2>1, <2>2
  <1>7. CASE UNCHANGED vars
    BY <1>7 DEF vars, settings, GivesUpLast, Classify, Tried
  <1> QED
    BY <1>1, <1>2, <1>3, <1>4, <1>5, <1>6, <1>7 DEF Next

LEMMA RouterInit == Init => RouterInv
  <1> SUFFICES ASSUME Init PROVE RouterInv
    OBVIOUS
  <1>1. TypeInv
    BY TypeInit
  <1>2. Unheard /\ Pending /\ GivesUpLast
    BY DEF Init, Unheard, Pending, GivesUpLast
  <1>3. calls = 0 /\ queue = <<>> /\ used = {} /\ Len(queue) = 0
    BY DEF Init
  <1>4. Allowance \in Nat
    BY <1>1, <1>3, OrderType DEF Allowance, Spent, TypeInv
  <1>5. Budget
    BY <1>3, <1>4 DEF Budget
  <1> QED
    BY <1>1, <1>2, <1>5 DEF RouterInv

LEMMA Invariant == Spec => []RouterInv
  <1>1. RouterInv /\ [Next]_vars => RouterInv'
    BY TypeStep, UnheardStep, BudgetStep, PendingStep, GivesUpStep DEF RouterInv
  <1> QED
    BY <1>1, RouterInit, PTL DEF Spec

-----------------------------------------------------------------------------
(* What the router promises.                                               *)

\* The caller never hears two model calls.
THEOREM CallerHearsOneCall == Spec => []OneVoice
  <1>1. RouterInv => OneVoice
    BY DEF RouterInv, Unheard, OneVoice
  <1> QED
    BY <1>1, Invariant, PTL

\* A request makes at most one call per entry of the order and of each use list.
THEOREM CallsAreBounded == Spec => []CallsBounded
  <1>1. RouterInv => CallsBounded
    <2> SUFFICES ASSUME RouterInv PROVE CallsBounded
      OBVIOUS
    <2>1. calls \in Nat
      BY DEF RouterInv, TypeInv, TypeOK
    <2>2. Len(queue) \in Nat /\ Len(config.order) \in Nat
      BY QueueAfterType, OrderType DEF RouterInv, TypeInv
    <2>3. RuleBudget(config, "rate_limit") \in Nat /\ RuleBudget(config, "server_error") \in Nat
      BY BudgetType DEF RouterInv, TypeInv
    <2>4. calls + Len(queue) <= Allowance
      BY DEF RouterInv, Budget
    <2>5. calls + Len(queue) <=
            Len(config.order) + RuleBudget(config, "rate_limit") + RuleBudget(config, "server_error")
      BY <2>1, <2>2, <2>3, <2>4 DEF Allowance, Spent
    <2> QED
      BY <2>1, <2>2, <2>3, <2>5 DEF CallsBounded
  <1> QED
    BY <1>1, Invariant, PTL

\* A request fails for good only when every usable alias of its order failed.
THEOREM FailsOnlyWhenAllFailed == Spec => []GivesUpLast
  <1>1. RouterInv => GivesUpLast
    BY DEF RouterInv
  <1> QED
    BY <1>1, Invariant, PTL

\* The first usable alias of p \o q is one of p when p has one.
LEMMA FrontFirst ==
  ASSUME NEW p \in Seq(Aliases), NEW q \in Seq(Aliases), CallNext(p \o q),
         NEW k \in 1..Len(p), p[k] \in usable
  PROVE  \E i \in 1..Len(p) : p[i] = current'
  <1>1. PICK i \in 1..Len(p \o q) :
          /\ \A j \in 1..(i - 1) : (p \o q)[j] \notin usable
          /\ current' = (p \o q)[i]
    BY DEF CallNext
  <1>2. \A j \in 1..Len(p) : (p \o q)[j] = p[j]
    OBVIOUS
  <1>3. Len(p) \in Nat /\ Len(p \o q) \in Nat
    OBVIOUS
  <1>4. i <= k
    <2>1. SUFFICES ASSUME k < i PROVE FALSE
      BY <1>3
    <2>2. k \in 1..(i - 1)
      BY <1>3, <2>1
    <2> QED
      BY <1>1, <1>2, <2>2
  <1>5. i \in 1..Len(p)
    BY <1>3, <1>4
  <1> QED
    BY <1>1, <1>2, <1>5

LEMMA RuleStep ==
  ASSUME TypeInv, Next, NEW reason \in Reasons,
         pc = "calling", calls' = calls + 1, RuleFires(reason), used' = used \cup {reason},
         NEW k \in 1..Len(UseList(config, reason)), UseList(config, reason)[k] \in usable
  PROVE  UsesRule(reason)
  <1>1. reason \notin used /\ calls \in Nat
    BY DEF RuleFires, TypeInv, TypeOK
  <1>2. used' # used /\ calls' # calls
    BY <1>1
  <1>3. PICK e \in Errors : Fail(e)
    BY <1>2 DEF Next, Refuse, Start, Item, Finish, Cancel, End
  <1>4. MayFailOver(e)
    BY <1>2, <1>3 DEF Fail, End
  <1>5. used' = UsedAfter(Classify(e)) /\ CallNext(QueueAfter(Classify(e)))
    BY <1>2, <1>3, <1>4 DEF Fail, GiveUp
  <1>6. Classify(e) = reason
    BY <1>1, <1>2, <1>5 DEF UsedAfter
  <1>7. QueueAfter(reason) = UseList(config, reason) \o queue
    BY DEF QueueAfter
  <1>8. UseList(config, reason) \in Seq(Aliases) /\ queue \in Seq(Aliases)
    BY UseListType DEF RuleFires, TypeInv, TypeOK
  <1>9. \E i \in 1..Len(UseList(config, reason)) : UseList(config, reason)[i] = current'
    BY <1>5, <1>6, <1>7, <1>8, FrontFirst
  <1> QED
    BY <1>9 DEF UsesRule

\* When a rule fires and names a usable alias, one of its aliases is called next.
THEOREM RulesWin == Spec => RuleWins
  <1>1. TypeInv /\ [Next]_vars =>
          [\A reason \in Reasons :
             /\ pc = "calling" /\ calls' = calls + 1
             /\ RuleFires(reason) /\ used' = used \cup {reason}
             /\ \E i \in 1..Len(UseList(config, reason)) : UseList(config, reason)[i] \in usable
             => UsesRule(reason)]_vars
    BY RuleStep
  <1> QED
    BY <1>1, Typed, PTL DEF Spec, RuleWins
=============================================================================
