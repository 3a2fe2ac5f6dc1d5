---------------------------- MODULE ChatTurn_proofs ----------------------------
(***************************************************************************)
(* Proofs about ChatTurn, for any number of turns of a chat, any calls and *)
(* any limits: every value has its type; no call is executed by two runs   *)
(* of tool_executor; a refused question leaves nothing behind; an answer   *)
(* has every chunk the model produced, in its order; and the answer that   *)
(* is saved is what the client was shown.                                  *)
(***************************************************************************)
EXTENDS ChatTurn, SequenceTheorems, TLAPS

\* All theorems are about each turn by itself.  A step of one turn leaves the
\* rows of the others alone (OthersSame).
Step(t) == Graph(t) \/ Read(t) \/ Respond(t) \/ (Lose(t) /\ UNCHANGED <<graph, unread, reader>>)

-----------------------------------------------------------------------------
(* Keep, from the loop it is: what it returns, and what it makes of a      *)
(* concatenation.  The induction is Loop_proofs'.                          *)

Steps == INSTANCE Loop_proofs WITH Body <- KeepIf

Kept(s, S, n) == Filter!After(S, <<>>, s, n)

LEMMA KeptSteps ==
  ASSUME NEW s, NEW S
  PROVE  /\ Kept(s, S, 0) = <<>>
         /\ \A n \in Nat : Kept(s, S, n + 1) = KeepIf(S, Kept(s, S, n), s[n + 1])
         /\ Keep(s, S) = Kept(s, S, Len(s))
<1>1. \A n : Kept(s, S, n) = Steps!After(S, <<>>, s, n)
  BY Zenon DEF Kept, Filter!After, Steps!After
<1>2. Keep(s, S) = Kept(s, S, Len(s))
  BY Zenon DEF Keep, Kept, Filter!Loop
<1> QED BY <1>1, <1>2, Steps!AfterNone, Steps!AfterNext

\* What is kept of a list is a list of the elements that are to be kept.
LEMMA KeptIsSeq ==
  ASSUME NEW R, NEW s \in Seq(R), NEW S, NEW n \in 0..Len(s)
  PROVE  Kept(s, S, n) \in Seq(R \cap S)
<1> DEFINE Inv == Seq(R \cap S)
<1>1. <<>> \in Inv
  OBVIOUS
<1>2. ASSUME NEW i \in 1..n, NEW acc \in Inv PROVE KeepIf(S, acc, s[i]) \in Inv
  <2>1. s[i] \in R
    OBVIOUS
  <2> QED BY <2>1 DEF KeepIf
<1> HIDE DEF Inv
<1>3. n \in Nat
  OBVIOUS
<1>4. Steps!After(S, <<>>, s, n) \in Inv
  BY <1>1, <1>2, <1>3, Steps!AfterKeeps
<1>5. Kept(s, S, n) = Steps!After(S, <<>>, s, n)
  BY Zenon DEF Kept, Filter!After, Steps!After
<1> QED BY <1>4, <1>5 DEF Inv

LEMMA KeepIsSeq ==
  ASSUME NEW R, NEW s \in Seq(R), NEW S
  PROVE  Keep(s, S) \in Seq(R \cap S) /\ Keep(s, S) \in Seq(R)
<1>1. Len(s) \in 0..Len(s)
  OBVIOUS
<1>2. Keep(s, S) \in Seq(R \cap S)
  BY <1>1, KeptIsSeq, KeptSteps, SMTT(40)
<1> QED BY <1>2

LEMMA KeepEmpty == ASSUME NEW S PROVE Keep(<<>>, S) = <<>>
<1>1. Len(<<>>) = 0
  OBVIOUS
<1> QED BY <1>1, KeptSteps

LEMMA KeepConcat ==
  ASSUME NEW R, NEW s \in Seq(R), NEW q \in Seq(R), NEW S
  PROVE  Keep(s \o q, S) = Keep(s, S) \o Keep(q, S)
<1> DEFINE T == {k \in Nat : k <= Len(q) => Kept(s \o q, S, Len(s) + k) = Keep(s, S) \o Kept(q, S, k)}
<1>1. 0 \in T
  <2>1. Keep(s, S) \in Seq(R) /\ Kept(q, S, 0) = <<>>
    BY KeepIsSeq, KeptSteps
  <2>2. Len(s) \in Nat /\ Len(s) + 0 = Len(s)
    OBVIOUS
  <2>3. Kept(s \o q, S, Len(s)) = Kept(s, S, Len(s))
    <3>1. \A i \in 1..Len(s) : (s \o q)[i] = s[i]
      OBVIOUS
    <3>2. Steps!After(S, <<>>, s \o q, Len(s)) = Steps!After(S, <<>>, s, Len(s))
      BY <2>2, <3>1, Steps!AfterSame
    <3>3. \A z, n : Kept(z, S, n) = Steps!After(S, <<>>, z, n)
      BY Zenon DEF Kept, Filter!After, Steps!After
    <3> QED BY <3>2, <3>3
  <2>4. Keep(s, S) \o <<>> = Keep(s, S)
    BY <2>1
  <2> QED BY <2>1, <2>2, <2>3, <2>4, KeptSteps
<1>2. ASSUME NEW k \in Nat, k \in T PROVE k + 1 \in T
  <2> SUFFICES ASSUME k + 1 <= Len(q)
               PROVE  Kept(s \o q, S, Len(s) + (k + 1)) = Keep(s, S) \o Kept(q, S, k + 1)
    OBVIOUS
  <2> DEFINE n == Len(s) + k
             x == q[k + 1]
             old == Keep(s, S)
             new == Kept(q, S, k)
  <2>1. n \in Nat /\ Len(s) + (k + 1) = n + 1 /\ (s \o q)[n + 1] = x
    OBVIOUS
  <2>2. Kept(s \o q, S, n) = old \o new
    BY <1>2
  <2>3. old \in Seq(R) /\ new \in Seq(R)
    <3>1. k \in 0..Len(q)
      OBVIOUS
    <3>2. new \in Seq(R \cap S)
      BY <3>1, KeptIsSeq
    <3> QED BY <3>2, KeepIsSeq
  <2>4. x \in R
    OBVIOUS
  <2>5. Kept(s \o q, S, n + 1) = KeepIf(S, old \o new, x)
    BY <2>1, <2>2, KeptSteps
  <2>6. Kept(q, S, k + 1) = KeepIf(S, new, x)
    BY KeptSteps
  <2> HIDE DEF n, x, old, new
  <2>7. KeepIf(S, old \o new, x) = old \o KeepIf(S, new, x)
    <3>1. old \o Append(new, x) = Append(old \o new, x)
      <4>1. <<x>> \in Seq(R) /\ old \o new \in Seq(R)
        BY <2>3, <2>4, ConcatProperties
      <4>2. old \o (new \o <<x>>) = (old \o new) \o <<x>>
        BY <2>3, <4>1, ConcatAssociative, SMTT(40)
      <4> QED BY <2>3, <2>4, <4>1, <4>2, AppendIsConcat
    <3> QED BY <3>1 DEF KeepIf
  <2> QED BY <2>1, <2>5, <2>6, <2>7 DEF n, old
<1> HIDE DEF T
<1>3. Len(q) \in T
  BY <1>1, <1>2, Steps!Induction
<1>4. Kept(s \o q, S, Len(s) + Len(q)) = Keep(s, S) \o Kept(q, S, Len(q))
  BY <1>3 DEF T
<1>5. Len(s \o q) = Len(s) + Len(q)
  OBVIOUS
<1> QED BY <1>4, <1>5, KeptSteps

\* A list of elements that are all kept is kept as it is.
LEMMA KeepAll ==
  ASSUME NEW S, NEW q \in Seq(S)
  PROVE  Keep(q, S) = q
<1> DEFINE Same(k) == /\ Kept(q, S, k) \in Seq(S) /\ Len(Kept(q, S, k)) = k
                      /\ \A i \in 1..k : Kept(q, S, k)[i] = q[i]
           T == {k \in Nat : k <= Len(q) => Same(k)}
<1>1. 0 \in T
  <2>1. Kept(q, S, 0) = <<>> /\ <<>> \in Seq(S) /\ Len(<<>>) = 0
    BY KeptSteps, EmptySeq
  <2>2. Same(0)
    <3>1. 1..0 = {}
      OBVIOUS
    <3> QED BY <2>1, <3>1
  <2> QED BY <2>2
<1>2. ASSUME NEW k \in Nat, k \in T PROVE k + 1 \in T
  <2> SUFFICES ASSUME k + 1 <= Len(q) PROVE Same(k + 1)
    OBVIOUS
  <2>1. Same(k) /\ q[k + 1] \in S
    BY <1>2
  <2>2. Kept(q, S, k + 1) = KeepIf(S, Kept(q, S, k), q[k + 1])
    BY KeptSteps
  <2>3. Kept(q, S, k + 1) = Append(Kept(q, S, k), q[k + 1])
    BY <2>1, <2>2 DEF KeepIf
  <2> QED BY <2>1, <2>3, SMTT(40)
<1> HIDE DEF T
<1>3. Len(q) \in T
  BY <1>1, <1>2, Steps!Induction
<1>4. Same(Len(q))
  BY <1>3 DEF T
<1> QED BY <1>4, KeptSteps, SeqEqual

\* Of a list that has none of them nothing is kept.
LEMMA KeepNothing ==
  ASSUME NEW R, NEW q \in Seq(R), NEW S, R \cap S = {}
  PROVE  Keep(q, S) = <<>>
<1>1. Keep(q, S) \in Seq({})
  BY KeepIsSeq
<1> QED BY <1>1

-----------------------------------------------------------------------------
(* Types.                                                                  *)

Kinds == {"none", "allowed", "refused", "over", "raised", "token", "model_end", "tools_end",
          "error", "tool_call", "drawing", "refusal", "done", "title"}
Events == [kind : Kinds, calls : Seq(Calls), n : Nat]
Rows == [turn : Turns, role : {"user", "assistant"}, reply : Seq(Nat),
         drawing : WhiteboardCalls \cup {NoDrawing}]
Phases == {"waiting", "saved", "naming", "streaming", "answered", "refused", "lost"}

GraphTypes ==
  /\ node \in [Turns -> Nodes \cup {"end", "failed"}]
  /\ verdict \in [Turns -> {"none", "allowed", "refused"}]
  /\ data \in [Turns -> Seq(Calls)]
  /\ called \in [Turns -> SUBSET Calls]
  /\ ran \in [Turns -> Seq(SUBSET Calls)]
  /\ produced \in [Turns -> Nat] /\ chunks \in [Turns -> 0..MaxTokens]
  /\ steps \in [Turns -> Nat] /\ jobs \in SUBSET Turns

ReaderTypes ==
  /\ reading \in [Turns -> BOOLEAN] /\ aligned \in [Turns -> BOOLEAN]
  /\ refused \in [Turns -> BOOLEAN]
  /\ open \in [Turns -> Nat] /\ meta \in [Turns -> Seq(Calls)]
  /\ reply \in [Turns -> Seq(Nat)]
  /\ drawing \in [Turns -> WhiteboardCalls \cup {NoDrawing}]

ResponseTypes ==
  /\ phase \in [Turns -> Phases]
  /\ sent \in [Turns -> Seq(Events)]
  /\ messages \in Seq(Rows)
  /\ title \in Turns \cup {NewChat}

TurnTypes ==
  /\ GraphTypes /\ ReaderTypes /\ ResponseTypes
  /\ unread \in [Turns -> Seq(Events)] /\ queue \in [Turns -> Seq(Events)]

LEMMA SetIn ==
  ASSUME NEW S, NEW f \in [Turns -> S], NEW t \in Turns, NEW v \in S
  PROVE  Set(f, t, v) \in [Turns -> S]
BY DEF Set

LEMMA EventIn ==
  ASSUME NEW kind \in Kinds, NEW calls \in Seq(Calls), NEW n \in Nat
  PROVE  Event(kind, calls, n) \in Events
BY DEF Event, Events

LEMMA PlainIn == ASSUME NEW kind \in Kinds PROVE Plain(kind) \in Events
<1>1. <<>> \in Seq(Calls) /\ 0 \in Nat
  OBVIOUS
<1> QED BY <1>1, EventIn DEF Plain

LEMMA OneIsSeq == ASSUME NEW S, NEW x \in S PROVE <<x>> \in Seq(S)
OBVIOUS

LEMMA MaxIsNat == MaxTokens \in Nat
BY ChatAssumption, Zenon

LEMMA TurnTypesInit == Init => TurnTypes
<1> SUFFICES ASSUME Init PROVE TurnTypes
  OBVIOUS
<1>1. \A S : <<>> \in Seq(S)
  OBVIOUS
<1>2. GraphTypes
  <2>1. 0 \in 0..MaxTokens
    BY MaxIsNat
  <2> QED BY <1>1, <2>1 DEF Init, GraphTypes, Nodes
<1>3. ReaderTypes
  BY <1>1 DEF Init, ReaderTypes
<1>4. ResponseTypes
  BY <1>1 DEF Init, ResponseTypes, Phases
<1> QED BY <1>1, <1>2, <1>3, <1>4 DEF Init, TurnTypes

\* A node ends with events of its own.
LEMMA GoToTypes ==
  ASSUME TurnTypes, NEW t \in Turns, NEW next \in Nodes \cup {"end"}, NEW events \in Seq(Events),
         GoTo(t, next, events)
  PROVE  /\ node' \in [Turns -> Nodes \cup {"end", "failed"}]
         /\ unread' \in [Turns -> Seq(Events)]
         /\ steps' \in [Turns -> Nat]
<1>1. unread[t] \in Seq(Events) /\ steps[t] + 1 \in Nat
  BY DEF TurnTypes, GraphTypes
<1>2. Plain("raised") \in Events /\ Plain("over") \in Events
  BY PlainIn DEF Kinds
<1>3. \A more \in Seq(Events) : unread[t] \o more \in Seq(Events)
  BY <1>1, ConcatProperties
<1>4. unread' \in [Turns -> Seq(Events)]
  <2>1. PICK more \in Seq(Events) : Emit(t, more)
    <3>1. /\ events \in Seq(Events) /\ Append(events, Plain("raised")) \in Seq(Events)
          /\ Append(events, Plain("over")) \in Seq(Events)
      BY <1>2
    <3> QED BY <3>1, Zenon DEF GoTo
  <2> QED BY <1>3, <2>1, SetIn DEF Emit, TurnTypes
<1>5. node' \in [Turns -> Nodes \cup {"end", "failed"}]
  <2>1. PICK v \in Nodes \cup {"end", "failed"} : node' = Set(node, t, v)
    BY DEF GoTo
  <2>2. node \in [Turns -> Nodes \cup {"end", "failed"}]
    BY DEF TurnTypes, GraphTypes
  <2> HIDE DEF Nodes
  <2> QED BY <2>1, <2>2, SetIn
<1>6. steps' \in [Turns -> Nat]
  <2>1. steps \in [Turns -> Nat] /\ steps' \in {steps, [steps EXCEPT ![t] = steps[t] + 1]}
    BY DEF GoTo, TurnTypes, GraphTypes, Set
  <2> QED BY <1>1, <2>1
<1> QED BY <1>4, <1>5, <1>6

LEMMA GraphKeepsTypes ==
  ASSUME TurnTypes, NEW t \in Turns, Graph(t)
  PROVE  TurnTypes'
<1> SUFFICES GraphTypes' /\ unread' \in [Turns -> Seq(Events)]
  BY DEF Graph, TurnTypes, ReaderTypes, ResponseTypes, reader, response
<1>0. GraphTypes
  BY DEF TurnTypes
<1>1. CASE AlignmentCheck(t)
  <2>1. PICK v \in {"allowed", "refused"} :
          verdict' = Set(verdict, t, v) /\ GoTo(t, RouteAfterAlignment(v), <<Plain(v)>>)
    BY <1>1 DEF AlignmentCheck
  <2>2. <<Plain(v)>> \in Seq(Events)
    <3>1. Plain(v) \in Events
      BY PlainIn DEF Kinds
    <3> QED BY <3>1
  <2>3. RouteAfterAlignment(v) \in Nodes \cup {"end"}
    BY DEF RouteAfterAlignment, Nodes
  <2>4. verdict' \in [Turns -> {"none", "allowed", "refused"}]
    BY <1>0, <2>1 DEF Set, GraphTypes
  <2> QED BY <1>0, <1>1, <2>1, <2>2, <2>3, <2>4, GoToTypes DEF AlignmentCheck, GraphTypes
<1>2. CASE MemoryLoader(t)
  <2>1. <<>> \in Seq(Events) /\ "agent" \in Nodes \cup {"end"}
    BY DEF Nodes
  <2> QED BY <1>0, <1>2, <2>1, GoToTypes DEF MemoryLoader, GraphTypes
<1>3. CASE Token(t)
  <2>1. produced[t] + 1 \in Nat /\ chunks[t] + 1 \in 0..MaxTokens
    BY <1>0, <1>3, MaxIsNat DEF Token, GraphTypes
  <2>2. produced' \in [Turns -> Nat] /\ chunks' \in [Turns -> 0..MaxTokens]
    BY <1>0, <1>3, <2>1, SetIn DEF Token, GraphTypes
  <2>3. Event("token", <<>>, produced[t] + 1) \in Events
    <3>1. <<>> \in Seq(Calls) /\ "token" \in Kinds
      BY DEF Kinds
    <3> QED BY <2>1, <3>1, EventIn
  <2>4. unread[t] \o <<Event("token", <<>>, produced[t] + 1)>> \in Seq(Events)
    BY <2>3 DEF TurnTypes
  <2>5. unread' \in [Turns -> Seq(Events)]
    BY <1>3, <2>4, SetIn DEF Token, Emit, TurnTypes
  <2> QED BY <1>0, <1>3, <2>2, <2>5 DEF Token, GraphTypes
<1>4. CASE AgentEnds(t)
  <2>1. PICK batch \in Batches \cup {<<>>}, calls \in Batches \cup {<<>>, data[t]}, pending \in BOOLEAN :
          /\ data' = Set(data, t, calls)
          /\ GoTo(t, RouteAfterAgent(t, pending, calls), <<Event("model_end", batch, 0)>>)
    BY <1>4 DEF AgentEnds
  <2>2. Batches \cup {<<>>, data[t]} \subseteq Seq(Calls)
    <3>1. <<>> \in Seq(Calls) /\ data[t] \in Seq(Calls)
      BY <1>0 DEF GraphTypes
    <3> QED BY <3>1, ChatAssumption
  <2>3. data' \in [Turns -> Seq(Calls)]
    BY <1>0, <2>1, <2>2, SetIn DEF GraphTypes
  <2>4. <<Event("model_end", batch, 0)>> \in Seq(Events)
    <3>1. batch \in Seq(Calls) /\ 0 \in Nat /\ "model_end" \in Kinds
      BY <2>2 DEF Kinds
    <3>2. Event("model_end", batch, 0) \in Events
      BY <3>1, EventIn
    <3> QED BY <3>2, OneIsSeq
  <2>5. RouteAfterAgent(t, pending, calls) \in Nodes \cup {"end"}
    BY DEF RouteAfterAgent, Nodes
  <2>6. chunks' \in [Turns -> 0..MaxTokens]
    <3>1. chunks' = Set(chunks, t, 0)
      BY <1>4, Zenon DEF AgentEnds
    <3>2. 0 \in 0..MaxTokens
      BY MaxIsNat
    <3> QED BY <1>0, <3>1, <3>2, SetIn DEF GraphTypes
  <2> QED BY <1>0, <1>4, <2>1, <2>3, <2>4, <2>5, <2>6, GoToTypes DEF AgentEnds, GraphTypes
<1>5. CASE AgentRaises(t)
  <2>1. <<Plain("raised")>> \in Seq(Events)
    <3>1. Plain("raised") \in Events
      BY PlainIn DEF Kinds
    <3> QED BY <3>1
  <2>2. unread[t] \o <<Plain("raised")>> \in Seq(Events)
    BY <2>1, ConcatProperties DEF TurnTypes
  <2>3. unread' \in [Turns -> Seq(Events)]
    BY <1>5, <2>2, SetIn DEF AgentRaises, Emit, TurnTypes
  <2>4. node' \in [Turns -> Nodes \cup {"end", "failed"}]
    BY <1>0, <1>5 DEF AgentRaises, Set, GraphTypes
  <2> QED BY <1>0, <1>5, <2>3, <2>4 DEF AgentRaises, GraphTypes
<1>6. CASE ToolExecutor(t)
  <2>1. PICK good :
          GoTo(t, "agent", <<Event("tools_end", Keep(data[t], good), 0)>>)
    BY <1>6 DEF ToolExecutor
  <2>2. data[t] \in Seq(Calls) /\ FreshCalls(t) \subseteq Calls
    BY <1>0 DEF GraphTypes, FreshCalls, ToSet
  <2>3. <<Event("tools_end", Keep(data[t], good), 0)>> \in Seq(Events)
    <3>1. Keep(data[t], good) \in Seq(Calls)
      BY <2>2, KeepIsSeq
    <3>2. Event("tools_end", Keep(data[t], good), 0) \in Events
      <4>1. "tools_end" \in Kinds /\ 0 \in Nat
        BY DEF Kinds
      <4> QED BY <3>1, <4>1, EventIn
    <3> QED BY <3>2, OneIsSeq
  <2>4. data' \in [Turns -> Seq(Calls)]
    <3>1. <<>> \in Seq(Calls)
      OBVIOUS
    <3> QED BY <1>0, <1>6, <3>1, SetIn DEF ToolExecutor, GraphTypes
  <2>5. called' \in [Turns -> SUBSET Calls]
    <3>1. called[t] \cup FreshCalls(t) \in SUBSET Calls
      BY <1>0, <2>2 DEF GraphTypes
    <3> QED BY <1>0, <1>6, <3>1, SetIn DEF ToolExecutor, GraphTypes
  <2>6. ran' \in [Turns -> Seq(SUBSET Calls)]
    <3>1. Append(ran[t], FreshCalls(t)) \in Seq(SUBSET Calls)
      BY <1>0, <2>2 DEF GraphTypes
    <3> QED BY <1>0, <1>6, <3>1, SetIn DEF ToolExecutor, GraphTypes
  <2>7. "agent" \in Nodes \cup {"end"}
    BY DEF Nodes
  <2> QED BY <1>0, <1>6, <2>1, <2>3, <2>4, <2>5, <2>6, <2>7, GoToTypes DEF ToolExecutor, GraphTypes
<1>7. CASE MemoryUpdater(t)
  <2>1. <<>> \in Seq(Events) /\ "end" \in Nodes \cup {"end"}
    OBVIOUS
  <2>2. jobs' \in SUBSET Turns
    BY <1>0, <1>7 DEF MemoryUpdater, GraphTypes
  <2> QED BY <1>0, <1>7, <2>1, <2>2, GoToTypes DEF MemoryUpdater, GraphTypes
<1> QED BY <1>1, <1>2, <1>3, <1>4, <1>5, <1>6, <1>7 DEF Graph

\* What is shown of the calls of an event.
Shows(kind, shown) == [i \in 1..Len(shown) |-> Event(kind, <<shown[i]>>, 0)]

LEMMA ShowsTypes ==
  ASSUME NEW kind \in Kinds, NEW shown \in Seq(Calls)
  PROVE  /\ Shows(kind, shown) \in Seq([kind : {kind}, calls : Seq(Calls), n : Nat])
         /\ Shows(kind, shown) \in Seq(Events)
         /\ Len(Shows(kind, shown)) = Len(shown)
<1>1. \A i \in 1..Len(shown) : Event(kind, <<shown[i]>>, 0) \in [kind : {kind}, calls : Seq(Calls), n : Nat]
  <2>1. \A i \in 1..Len(shown) : <<shown[i]>> \in Seq(Calls)
    BY ElementOfSeq
  <2> QED BY <2>1 DEF Event
<1>2. Shows(kind, shown) \in Seq([kind : {kind}, calls : Seq(Calls), n : Nat])
  BY <1>1 DEF Shows
<1>3. [kind : {kind}, calls : Seq(Calls), n : Nat] \subseteq Events
  BY DEF Events
<1>4. Shows(kind, shown) \in Seq(Events)
  BY <1>2, <1>3, SeqMonotonic
<1> QED BY <1>2, <1>4 DEF Shows

LEMMA ReadKeepsTypes ==
  ASSUME TurnTypes, NEW t \in Turns, Read(t)
  PROVE  TurnTypes'
<1> SUFFICES ReaderTypes' /\ unread' \in [Turns -> Seq(Events)] /\ queue' \in [Turns -> Seq(Events)]
  BY DEF Read, TurnTypes, GraphTypes, ResponseTypes, graph, response
<1> DEFINE e == Head(unread[t])
<1>0. ReaderTypes /\ queue \in [Turns -> Seq(Events)]
  BY DEF TurnTypes
<1>1. e \in Events /\ unread' \in [Turns -> Seq(Events)]
  <2>1. unread[t] \in Seq(Events) /\ unread[t] # <<>> /\ unread' = Set(unread, t, Tail(unread[t]))
    BY DEF Read, TurnTypes
  <2>2. Head(unread[t]) \in Events /\ Tail(unread[t]) \in Seq(Events)
    BY <2>1, HeadTailProperties
  <2> QED BY <2>1, <2>2, SetIn DEF TurnTypes
<1>2. \A more \in Seq(Events) : Put(t, more) => queue' \in [Turns -> Seq(Events)]
  <2>1. \A more \in Seq(Events) : queue[t] \o more \in Seq(Events)
    BY <1>0, ConcatProperties
  <2>2. ASSUME NEW more \in Seq(Events), Put(t, more) PROVE queue' \in [Turns -> Seq(Events)]
    BY <1>0, <2>1, <2>2, SetIn DEF Put
  <2> QED BY <2>2
<1> HIDE DEF e
<1>3. CASE ReadLast(t, e)
  <2>1. Closing(e.kind) \in Seq(Events)
    <3>1. Plain("error") \in Events /\ None \in Events
      BY PlainIn DEF Kinds, None
    <3> QED BY <3>1 DEF Closing
  <2>2. aligned' \in [Turns -> BOOLEAN] /\ reading' \in [Turns -> BOOLEAN] /\ refused' \in [Turns -> BOOLEAN]
    <3>1. TRUE \in BOOLEAN /\ FALSE \in BOOLEAN /\ (refused[t] \/ e.kind = "refused") \in BOOLEAN
      BY <1>0 DEF ReaderTypes
    <3>2. aligned' \in [Turns -> BOOLEAN] /\ reading' \in [Turns -> BOOLEAN]
      BY <1>0, <1>3, SetIn DEF ReadLast, ReaderTypes
    <3>3. refused' \in [Turns -> BOOLEAN]
      <4> DEFINE v == refused[t] \/ e.kind = "refused"
      <4>1. v \in BOOLEAN /\ refused' = Set(refused, t, v)
        BY <1>3, <3>1 DEF ReadLast
      <4> HIDE DEF v
      <4> QED BY <1>0, <4>1, SetIn DEF ReaderTypes
    <3> QED BY <3>2, <3>3
  <2> QED BY <1>0, <1>1, <1>2, <1>3, <2>1, <2>2 DEF ReadLast, ReaderTypes
<1>4. CASE ReadAllowed(t, e)
  <2>1. aligned' \in [Turns -> BOOLEAN]
    BY <1>0, <1>4, SetIn DEF ReadAllowed, ReaderTypes
  <2> QED BY <1>0, <1>1, <1>4, <2>1 DEF ReadAllowed, ReaderTypes
<1>5. CASE ReadModelEnd(t, e)
  <2> DEFINE shown == Keep(e.calls, Calls \ RouteCalls)
  <2>1. shown \in Seq(Calls)
    BY <1>1, KeepIsSeq DEF Events
  <2>2. /\ open' = Set(open, t, open[t] + Len(shown))
        /\ meta' = Set(meta, t, meta[t] \o shown)
        /\ Put(t, Shows("tool_call", shown))
    BY <1>5 DEF ReadModelEnd, Shows
  <2> HIDE DEF shown
  <2>3. open[t] + Len(shown) \in Nat /\ meta[t] \o shown \in Seq(Calls)
    BY <1>0, <2>1, ConcatProperties, LenProperties DEF ReaderTypes
  <2>4. open' \in [Turns -> Nat] /\ meta' \in [Turns -> Seq(Calls)]
    BY <1>0, <2>2, <2>3, SetIn DEF ReaderTypes
  <2>5. Shows("tool_call", shown) \in Seq(Events)
    BY <2>1, ShowsTypes DEF Kinds
  <2> QED BY <1>0, <1>1, <1>2, <1>5, <2>2, <2>4, <2>5 DEF ReadModelEnd, ReaderTypes
<1>6. CASE ReadToolsEnd(t, e)
  <2>1. CASE open[t] = 0
    BY <1>0, <1>1, <1>6, <2>1 DEF ReadToolsEnd, ReaderTypes
  <2>2. CASE open[t] # 0
    <3> DEFINE S == WhiteboardCalls \cap ToSet(meta[t])
               shown == Keep(e.calls, S)
    <3>1. shown \in Seq(Calls \cap S) /\ shown \in Seq(Calls)
      <4> HIDE DEF S
      <4> QED BY <1>1, KeepIsSeq DEF Events
    <3>2. /\ open' = Set(open, t, 0)
          /\ drawing' = IF shown = <<>> THEN drawing ELSE Set(drawing, t, Last(shown))
          /\ Put(t, Shows("drawing", shown))
      BY <1>6, <2>2 DEF ReadToolsEnd, Shows, CloseTools
    <3>3. shown # <<>> => Last(shown) \in WhiteboardCalls
      <4>1. shown \in Seq(WhiteboardCalls)
        BY <3>1, SeqMonotonic, Calls \cap S \subseteq WhiteboardCalls
      <4> HIDE DEF shown
      <4>2. shown # <<>> => Len(shown) \in 1..Len(shown)
        BY <4>1, EmptySeq
      <4> QED BY <4>1, <4>2, ElementOfSeq DEF Last
    <3> HIDE DEF shown
    <3>4. open' \in [Turns -> Nat]
      BY <1>0, <3>2, SetIn DEF ReaderTypes
    <3>5. drawing' \in [Turns -> WhiteboardCalls \cup {NoDrawing}]
      BY <1>0, <3>2, <3>3, SetIn DEF ReaderTypes
    <3>6. Shows("drawing", shown) \in Seq(Events)
      BY <3>1, ShowsTypes DEF Kinds
    <3> QED BY <1>0, <1>1, <1>2, <1>6, <3>2, <3>4, <3>5, <3>6 DEF ReadToolsEnd, ReaderTypes
  <2> QED BY <2>1, <2>2
<1>7. CASE ReadToken(t, e)
  <2>1. CASE open[t] > 0
    BY <1>0, <1>1, <1>7, <2>1 DEF ReadToken, ReaderTypes
  <2>2. CASE ~(open[t] > 0)
    <3>1. Append(reply[t], e.n) \in Seq(Nat) /\ <<e>> \in Seq(Events)
      BY <1>0, <1>1 DEF ReaderTypes, Events
    <3>2. reply' = Set(reply, t, Append(reply[t], e.n)) /\ Put(t, <<e>>)
      BY <1>7, <2>2 DEF ReadToken
    <3>3. reply' \in [Turns -> Seq(Nat)]
      BY <1>0, <3>1, <3>2, SetIn DEF ReaderTypes
    <3> QED BY <1>0, <1>1, <1>2, <1>7, <3>1, <3>2, <3>3 DEF ReadToken, ReaderTypes
  <2> QED BY <2>1, <2>2
<1>8. ReadLast(t, e) \/ ReadAllowed(t, e) \/ ReadModelEnd(t, e) \/ ReadToolsEnd(t, e) \/ ReadToken(t, e)
  BY DEF Read, e
<1> QED BY <1>3, <1>4, <1>5, <1>6, <1>7, <1>8

LEMMA RespondKeepsTypes ==
  ASSUME TurnTypes, NEW t \in Turns,
         Respond(t) \/ (Lose(t) /\ UNCHANGED <<graph, unread, reader>>)
  PROVE  TurnTypes'
<1> SUFFICES ResponseTypes' /\ queue' \in [Turns -> Seq(Events)]
  BY DEF Respond, TurnTypes, GraphTypes, ReaderTypes, graph, reader
<1>0. ResponseTypes /\ queue \in [Turns -> Seq(Events)] /\ sent[t] \in Seq(Events) /\ queue[t] \in Seq(Events)
  BY DEF TurnTypes, ResponseTypes
<1>1. \A p \in Phases : Set(phase, t, p) \in [Turns -> Phases]
  BY <1>0, SetIn DEF ResponseTypes
<1>2. \A more \in Seq(Events) : Send(t, more) => sent' \in [Turns -> Seq(Events)]
  <2>1. \A more \in Seq(Events) : sent[t] \o more \in Seq(Events)
    BY <1>0, ConcatProperties
  <2>2. ASSUME NEW more \in Seq(Events), Send(t, more) PROVE sent' \in [Turns -> Seq(Events)]
    BY <1>0, <2>1, <2>2, SetIn DEF Send, ResponseTypes
  <2> QED BY <2>2
<1>3. \A kind \in Kinds : Plain(kind) \in Events
  BY PlainIn
<1>4. CASE Refuse(t)
  <2>1. <<Plain("refusal"), Plain("done")>> \in Seq(Events) /\ "refused" \in Phases
    <3>1. Plain("refusal") \in Events /\ Plain("done") \in Events
      BY <1>3 DEF Kinds
    <3> QED BY <3>1 DEF Phases
  <2> QED BY <1>0, <1>1, <1>2, <1>4, <2>1 DEF Refuse, ResponseTypes
<1>5. ASSUME NEW role \in {"user", "assistant"}, NEW text \in Seq(Nat),
             NEW picture \in WhiteboardCalls \cup {NoDrawing}
      PROVE  Append(messages, Message(t, role, text, picture)) \in Seq(Rows)
  <2>1. Message(t, role, text, picture) \in Rows
    BY DEF Message, Rows
  <2>2. messages \in Seq(Rows)
    BY <1>0 DEF ResponseTypes
  <2> QED BY <2>1, <2>2, AppendProperties
<1>6. CASE SaveQuestion(t)
  <2>1. <<>> \in Seq(Nat) /\ "saved" \in Phases
    BY DEF Phases
  <2>2. messages' \in Seq(Rows)
    BY <1>5, <1>6, <2>1 DEF SaveQuestion
  <2> QED BY <1>0, <1>1, <1>6, <2>1, <2>2 DEF SaveQuestion, ResponseTypes
<1>7. CASE LookUpTitle(t)
  <2>1. "naming" \in Phases /\ "streaming" \in Phases
    BY DEF Phases
  <2> QED BY <1>0, <1>1, <1>7, <2>1 DEF LookUpTitle, ResponseTypes
<1>8. CASE NameChat(t)
  <2>1. <<Plain("title")>> \in Seq(Events) /\ "streaming" \in Phases
    <3>1. Plain("title") \in Events
      BY <1>3 DEF Kinds
    <3> QED BY <3>1 DEF Phases
  <2>2. title' \in Turns \cup {NewChat} /\ sent' \in [Turns -> Seq(Events)]
    BY <1>0, <1>2, <1>8, <2>1 DEF NameChat, ResponseTypes
  <2> QED BY <1>0, <1>1, <1>8, <2>1, <2>2 DEF NameChat, ResponseTypes
<1>9. CASE PassOn(t)
  <2>1. Head(queue[t]) \in Events /\ Tail(queue[t]) \in Seq(Events)
    BY <1>0, <1>9, HeadTailProperties DEF PassOn
  <2>2. queue' \in [Turns -> Seq(Events)]
    BY <1>0, <1>9, <2>1, SetIn DEF PassOn
  <2>3. <<Head(queue[t])>> \in Seq(Events)
    BY <2>1
  <2> QED BY <1>0, <1>2, <1>9, <2>2, <2>3 DEF PassOn, ResponseTypes
<1>10. CASE SaveAnswer(t)
  <2>1. <<Plain("done")>> \in Seq(Events) /\ "answered" \in Phases
    <3>1. Plain("done") \in Events
      BY <1>3 DEF Kinds
    <3> QED BY <3>1 DEF Phases
  <2>2. reply[t] \in Seq(Nat) /\ drawing[t] \in WhiteboardCalls \cup {NoDrawing}
    BY DEF TurnTypes, ReaderTypes
  <2>4. Content(reply[t]) \in Seq(Nat) /\ Elements(drawing[t]) \in WhiteboardCalls \cup {NoDrawing}
    BY <2>2 DEF Content, Elements, Fallback
  <2>3. messages' \in Seq(Rows)
    BY <1>5, <1>10, <2>4 DEF SaveAnswer
  <2> QED BY <1>0, <1>1, <1>2, <1>10, <2>1, <2>3 DEF SaveAnswer, ResponseTypes
<1>11. CASE Lose(t)
  <2>1. "lost" \in Phases
    BY DEF Phases
  <2> QED BY <1>0, <1>1, <1>11, <2>1 DEF Lose, ResponseTypes
<1> QED BY <1>4, <1>6, <1>7, <1>8, <1>9, <1>10, <1>11 DEF Respond

LEMMA TurnTypesStep == TurnTypes /\ [Next]_vars => TurnTypes'
<1>1. ASSUME TurnTypes, UNCHANGED vars PROVE TurnTypes'
  BY <1>1 DEF TurnTypes, GraphTypes, ReaderTypes, ResponseTypes, vars, graph, reader, response
<1> QED BY <1>1, GraphKeepsTypes, ReadKeepsTypes, RespondKeepsTypes DEF Next

\* Every variable of every turn has its type, whatever the model calls and the
\* tools return: what the reader takes from an event is a list of calls or a
\* chunk number, and what is saved is a row.
THEOREM TurnTyped == Spec => []TypeOK
<1>1. TurnTypes => TypeOK
  BY DEF TurnTypes, GraphTypes, ReaderTypes, ResponseTypes, TypeOK, Phases
<1> QED BY <1>1, TurnTypesInit, TurnTypesStep, PTL DEF Spec
-----------------------------------------------------------------------------
(* No call runs twice: whatever ran is in called_tools, and a run takes    *)
(* only what is not.                                                       *)

RanTypes ==
  /\ data \in [Turns -> Seq(Calls)]
  /\ called \in [Turns -> SUBSET Calls]
  /\ ran \in [Turns -> Seq(SUBSET Calls)]

RanInv ==
  /\ RanTypes
  /\ \A t \in Turns : \A i \in 1..Len(ran[t]) : ran[t][i] \subseteq called[t]
  /\ NeverRunAgain

LEMMA RanInit == Init => RanInv
<1> SUFFICES ASSUME Init PROVE RanInv
  OBVIOUS
<1>1. \A t \in Turns : 1..Len(ran[t]) = {}
  <2>1. \A t \in Turns : ran[t] = <<>>
    BY DEF Init
  <2>2. Len(<<>>) = 0
    OBVIOUS
  <2> QED BY <2>1, <2>2
<1>2. data \in [Turns -> Seq(Calls)]
  <2>1. <<>> \in Seq(Calls)
    OBVIOUS
  <2> QED BY <2>1 DEF Init
<1>3. called \in [Turns -> SUBSET Calls]
  BY DEF Init
<1>4. ran \in [Turns -> Seq(SUBSET Calls)]
  <2>1. <<>> \in Seq(SUBSET Calls)
    OBVIOUS
  <2> QED BY <2>1 DEF Init
<1>5. NeverRunAgain
  BY <1>1 DEF NeverRunAgain
<1> QED BY <1>1, <1>2, <1>3, <1>4, <1>5 DEF RanInv, RanTypes

\* A run of the executor adds fresh calls to what ran.
LEMMA ExecutorRuns ==
  ASSUME RanInv, NEW t \in Turns, ToolExecutor(t)
  PROVE  RanInv'
<1> DEFINE fresh == FreshCalls(t)
<1>1. /\ data' = [data EXCEPT ![t] = <<>>]
      /\ called' = [called EXCEPT ![t] = called[t] \cup fresh]
      /\ ran' = IF fresh = {} THEN ran ELSE [ran EXCEPT ![t] = Append(ran[t], fresh)]
  BY DEF ToolExecutor, Set
<1>2. RanTypes /\ data[t] \in Seq(Calls) /\ ran[t] \in Seq(SUBSET Calls)
  BY DEF RanInv, RanTypes
<1>3. fresh \subseteq Calls /\ fresh \cap called[t] = {}
  BY <1>2 DEF FreshCalls, ToSet
<1> HIDE DEF fresh
<1>4. RanTypes'
  <2>1. data' \in [Turns -> Seq(Calls)]
    BY <1>1, <1>2 DEF RanTypes
  <2>2. called' \in [Turns -> SUBSET Calls]
    BY <1>1, <1>2, <1>3 DEF RanTypes
  <2>3. Append(ran[t], fresh) \in Seq(SUBSET Calls)
    BY <1>2, <1>3
  <2>4. ran' \in [Turns -> Seq(SUBSET Calls)]
    BY <1>1, <1>2, <2>3 DEF RanTypes
  <2> QED BY <2>1, <2>2, <2>4 DEF RanTypes
<1>5. ASSUME NEW u \in Turns, NEW i \in 1..Len(ran'[u])
      PROVE  /\ ran'[u][i] \subseteq called'[u]
             /\ \A j \in 1..Len(ran'[u]) : i # j => ran'[u][i] \cap ran'[u][j] = {}
  <2>1. CASE u # t \/ fresh = {}
    <3>1. ran'[u] = ran[u] /\ called[u] \subseteq called'[u]
      BY <1>1, <1>2, <2>1 DEF RanTypes
    <3> QED BY <1>5, <3>1 DEF RanInv, NeverRunAgain
  <2>2. CASE u = t /\ fresh # {}
    <3>1. ran'[t] = Append(ran[t], fresh) /\ called'[t] = called[t] \cup fresh
      BY <1>1, <1>2, <2>2 DEF RanTypes
    <3>2. \A j \in 1..Len(ran'[t]) :
            ran'[t][j] = IF j = Len(ran[t]) + 1 THEN fresh ELSE ran[t][j]
      BY <1>2, <3>1
    <3>3. \A j \in 1..Len(ran'[t]) : j = Len(ran[t]) + 1 \/ j \in 1..Len(ran[t])
      BY <1>2, <3>1
    <3>4. \A j \in 1..Len(ran[t]) : ran[t][j] \subseteq called[t]
      BY DEF RanInv
    <3> QED BY <1>3, <1>5, <2>2, <3>1, <3>2, <3>3, <3>4 DEF RanInv, NeverRunAgain
  <2> QED BY <2>1, <2>2
<1> QED BY <1>4, <1>5 DEF RanInv, NeverRunAgain

LEMMA RanStep == RanInv /\ [Next]_vars => RanInv'
<1> SUFFICES ASSUME RanInv, [Next]_vars PROVE RanInv'
  OBVIOUS
<1>1. ASSUME NEW t \in Turns, AgentEnds(t) PROVE RanInv'
  <2>1. /\ UNCHANGED <<called, ran>>
        /\ \E batch \in Batches \cup {<<>>, data[t]} : data' = [data EXCEPT ![t] = batch]
    BY <1>1 DEF AgentEnds, Set
  <2>2. Batches \cup {<<>>, data[t]} \subseteq Seq(Calls) /\ data \in [Turns -> Seq(Calls)]
    <3>1. data[t] \in Seq(Calls) /\ data \in [Turns -> Seq(Calls)]
      BY DEF RanInv, RanTypes
    <3>2. <<>> \in Seq(Calls)
      OBVIOUS
    <3> QED BY <3>1, <3>2, ChatAssumption
  <2>3. data' \in [Turns -> Seq(Calls)]
    BY <2>1, <2>2
  <2> QED BY <2>1, <2>3 DEF RanInv, RanTypes, NeverRunAgain
<1>2. ASSUME NEW t \in Turns,
             AlignmentCheck(t) \/ MemoryLoader(t) \/ Token(t) \/ AgentRaises(t) \/ MemoryUpdater(t)
      PROVE  UNCHANGED <<data, called, ran>>
  BY <1>2 DEF AlignmentCheck, MemoryLoader, Token, AgentRaises, MemoryUpdater
<1>3. ASSUME NEW t \in Turns, Read(t) \/ Respond(t) \/ (Lose(t) /\ UNCHANGED <<graph, unread, reader>>)
      PROVE  UNCHANGED <<data, called, ran>>
  BY <1>3 DEF Read, Respond, graph
<1>4. UNCHANGED <<data, called, ran>> => RanInv'
  BY DEF RanInv, RanTypes, NeverRunAgain
<1>5. UNCHANGED vars => UNCHANGED <<data, called, ran>>
  BY DEF vars, graph
<1> QED BY <1>1, <1>2, <1>3, <1>4, <1>5, ExecutorRuns DEF Next, Graph

\* No call is executed by two runs of tool_executor, whatever the model
\* repeats and however it mixes old calls with new ones.
THEOREM CallsRunOnce == Spec => []NeverRunAgain
<1>1. RanInv => NeverRunAgain
  BY DEF RanInv
<1> QED BY <1>1, RanInit, RanStep, PTL DEF Spec

-----------------------------------------------------------------------------
(* A refused question leaves nothing behind.  The verdict is the last      *)
(* thing the graph does and the first thing its reader reads, and the      *)
(* response waits for it.                                                  *)

VerdictTypes ==
  /\ node \in [Turns -> Nodes \cup {"end", "failed"}]
  /\ verdict \in [Turns -> {"none", "allowed", "refused"}]
  /\ produced \in [Turns -> Nat]
  /\ DOMAIN ran = Turns /\ DOMAIN unread = Turns
  /\ reading \in [Turns -> BOOLEAN] /\ aligned \in [Turns -> BOOLEAN]
  /\ refused \in [Turns -> BOOLEAN]
  /\ DOMAIN phase = Turns
  /\ \E S : messages \in Seq(S)

\* What the graph, and what the response, would leave behind.
NothingDone(t) == produced[t] = 0 /\ ran[t] = <<>> /\ t \notin jobs
NothingSaved(t) ==
  phase[t] \in {"waiting", "refused", "lost"} /\ Saved(t) = {} /\ title # t

\* The verdict is on its way to the reader, or has been read.
Unchecked(t) ==
  node[t] = "alignment_check" /\ unread[t] = <<>> /\ reading[t] /\ ~aligned[t]

RefusalKnown(t) ==
  /\ Over(t)
  /\ IF reading[t] THEN ~aligned[t] /\ unread[t] # <<>> /\ Head(unread[t]).kind = "refused"
     ELSE refused[t]

Judged(t) ==
  /\ node[t] = "alignment_check" <=> verdict[t] = "none"
  /\ verdict[t] = "none" => Unchecked(t) /\ NothingDone(t) /\ NothingSaved(t)
  /\ verdict[t] = "refused" => RefusalKnown(t) /\ NothingDone(t) /\ NothingSaved(t)

VerdictInv == VerdictTypes /\ \A t \in Turns : Judged(t)

LEMMA VerdictInit == Init => VerdictInv
<1> SUFFICES ASSUME Init PROVE VerdictInv
  OBVIOUS
<1>1. VerdictTypes
  <2>1. <<>> \in Seq({})
    OBVIOUS
  <2>2. \E S : messages \in Seq(S)
    BY <2>1 DEF Init
  <2> QED BY <2>2 DEF Init, VerdictTypes, Nodes
<1>2. ASSUME NEW t \in Turns PROVE Judged(t)
  <2>1. messages = <<>> /\ title = NewChat
    BY DEF Init
  <2>2. 1..Len(messages) = {}
    <3>1. Len(messages) = 0
      BY <2>1
    <3> QED BY <3>1
  <2>3. Saved(t) = {} /\ title # t
    BY <2>1, <2>2, ChatAssumption DEF Saved
  <2> QED BY <2>3 DEF Init, Judged, Unchecked, NothingDone, NothingSaved
<1> QED BY <1>1, <1>2 DEF VerdictInv

\* The messages of a turn are only its own.
LEMMA SavedOf ==
  ASSUME NEW S, messages \in Seq(S), NEW m, messages' = Append(messages, m),
         NEW t, m.turn # t, Saved(t) = {}
  PROVE  Saved(t)' = {}
BY DEF Saved

\* What a step of the graph may do to its turn.
GraphSteps(t) ==
  /\ \E next \in Nodes \cup {"end", "failed"} : node' \in {node, [node EXCEPT ![t] = next]}
  /\ \E v \in {"allowed", "refused"} : verdict' \in {verdict, [verdict EXCEPT ![t] = v]}
  /\ produced' \in {produced, [produced EXCEPT ![t] = produced[t] + 1]}
  /\ \E v : ran' \in {ran, [ran EXCEPT ![t] = v]}
  /\ \E v : unread' \in {unread, [unread EXCEPT ![t] = v]}
  /\ jobs' \in {jobs, jobs \cup {t}}

LEMMA GraphTouches == ASSUME NEW t \in Turns, Graph(t) PROVE GraphSteps(t)
<1>1. CASE AlignmentCheck(t)
  BY <1>1 DEF AlignmentCheck, RouteAfterAlignment, GoTo, Emit, Set, Nodes, GraphSteps
<1>2. CASE MemoryLoader(t)
  BY <1>2 DEF MemoryLoader, GoTo, Emit, Set, Nodes, GraphSteps
<1>3. CASE Token(t)
  BY <1>3 DEF Token, Emit, Set, GraphSteps
<1>4. CASE AgentEnds(t)
  BY <1>4 DEF AgentEnds, RouteAfterAgent, GoTo, Emit, Set, Nodes, GraphSteps
<1>5. CASE AgentRaises(t)
  BY <1>5 DEF AgentRaises, Emit, Set, GraphSteps
<1>6. CASE ToolExecutor(t)
  BY <1>6 DEF ToolExecutor, GoTo, Emit, Set, Nodes, GraphSteps
<1>7. CASE MemoryUpdater(t)
  BY <1>7 DEF MemoryUpdater, GoTo, Emit, Set, GraphSteps
<1> QED BY <1>1, <1>2, <1>3, <1>4, <1>5, <1>6, <1>7 DEF Graph

\* A step of one turn leaves the others as they are.
LEMMA OthersJudged ==
  ASSUME VerdictInv, NEW u \in Turns, Step(u), NEW t \in Turns, t # u
  PROVE  Judged(t)'
<1>1. /\ VerdictTypes /\ Judged(t)
  BY DEF VerdictInv
<1>2. CASE Graph(u)
  <2> UNCHANGED <<reader, response>> /\ GraphSteps(u)
    BY <1>2, GraphTouches DEF Graph
  <2>1. /\ node'[t] = node[t] /\ verdict'[t] = verdict[t] /\ ran'[t] = ran[t]
        /\ produced'[t] = produced[t] /\ unread'[t] = unread[t]
    <3>1. node'[t] = node[t]
      BY <1>1 DEF GraphSteps, VerdictTypes
    <3>2. verdict'[t] = verdict[t]
      BY <1>1 DEF GraphSteps, VerdictTypes
    <3>3. ran'[t] = ran[t]
      BY <1>1 DEF GraphSteps, VerdictTypes
    <3>4. produced'[t] = produced[t]
      BY <1>1 DEF GraphSteps, VerdictTypes
    <3>5. unread'[t] = unread[t]
      BY <1>1 DEF GraphSteps, VerdictTypes
    <3> QED BY <3>1, <3>2, <3>3, <3>4, <3>5
  <2>2. t \in jobs' <=> t \in jobs
    BY DEF GraphSteps
  <2> QED BY <1>1, <2>1, <2>2 DEF Judged, Unchecked, RefusalKnown, NothingDone, NothingSaved, Saved,
         Over, reader, response
<1>3. CASE Read(u)
  <2>1. /\ UNCHANGED <<graph, response>> /\ unread'[t] = unread[t]
        /\ reading'[t] = reading[t] /\ aligned'[t] = aligned[t] /\ refused'[t] = refused[t]
    BY <1>1, <1>3 DEF VerdictTypes, Read, ReadLast, ReadAllowed, ReadModelEnd, ReadToolsEnd, ReadToken, Set
  <2> QED BY <1>1, <2>1 DEF Judged, Unchecked, RefusalKnown, NothingDone, NothingSaved, Saved, Over,
         graph, response
<1>4. CASE Respond(u) \/ (Lose(u) /\ UNCHANGED <<graph, unread, reader>>)
  <2>1. UNCHANGED <<graph, unread, reader>> /\ phase'[t] = phase[t]
    BY <1>1, <1>4 DEF VerdictTypes, Respond, Refuse, SaveQuestion, LookUpTitle, NameChat, PassOn,
         SaveAnswer, Lose, Set
  <2>2. \/ messages' = messages
        \/ \E role, text, picture : messages' = Append(messages, Message(u, role, text, picture))
    BY <1>4 DEF Respond, Refuse, SaveQuestion, LookUpTitle, NameChat, PassOn, SaveAnswer, Lose
  <2>3. title' \in {title, u}
    BY <1>4 DEF Respond, Refuse, SaveQuestion, LookUpTitle, NameChat, PassOn, SaveAnswer, Lose
  <2>4. Saved(t) = {} => Saved(t)' = {}
    <3>1. \A role, text, picture : Message(u, role, text, picture).turn # t
      BY DEF Message
    <3>2. PICK S : messages \in Seq(S)
      BY <1>1 DEF VerdictTypes
    <3> QED BY <2>2, <3>1, <3>2, SavedOf DEF Saved
  <2> QED BY <1>1, <2>1, <2>3, <2>4 DEF Judged, Unchecked, RefusalKnown, NothingDone, NothingSaved,
         Over, graph, reader
<1> QED BY <1>2, <1>3, <1>4 DEF Step

LEMMA TypesKept ==
  ASSUME VerdictInv, [Next]_vars
  PROVE  VerdictTypes'
<1> USE DEF VerdictInv
<1>1. ASSUME NEW t \in Turns, Graph(t) PROVE VerdictTypes'
  <2>1. UNCHANGED <<reader, response>> /\ GraphSteps(t)
    BY <1>1, GraphTouches DEF Graph
  <2>3. DOMAIN ran' = Turns /\ DOMAIN unread' = Turns
    BY <2>1 DEF VerdictTypes, GraphSteps
  <2>4. verdict' \in [Turns -> {"none", "allowed", "refused"}]
    BY <2>1 DEF VerdictTypes, GraphSteps
  <2>5. produced' \in [Turns -> Nat]
    <3>1. produced \in [Turns -> Nat] /\ produced[t] + 1 \in Nat
      BY DEF VerdictTypes
    <3>2. produced' \in {produced, [produced EXCEPT ![t] = produced[t] + 1]}
      BY <2>1 DEF GraphSteps
    <3> QED BY <3>1, <3>2
  <2>2. node' \in [Turns -> Nodes \cup {"end", "failed"}]
    <3>1. \E next \in Nodes \cup {"end", "failed"} : node' \in {node, [node EXCEPT ![t] = next]}
      BY <2>1 DEF GraphSteps
    <3> QED BY <3>1 DEF VerdictTypes
  <2> QED BY <2>1, <2>2, <2>3, <2>4, <2>5 DEF VerdictTypes, reader, response
<1>2. ASSUME NEW t \in Turns, Read(t) PROVE VerdictTypes'
  <2> DEFINE e == Head(unread[t])
             known == refused[t] \/ e.kind = "refused"
  <2>1. /\ UNCHANGED <<graph, response>>
        /\ unread' = [unread EXCEPT ![t] = Tail(unread[t])]
        /\ reading' \in {reading, [reading EXCEPT ![t] = FALSE]}
        /\ aligned' \in {aligned, [aligned EXCEPT ![t] = TRUE]}
        /\ refused' \in {refused, [refused EXCEPT ![t] = known]}
    BY <1>2, Zenon DEF Read, ReadLast, ReadAllowed, ReadModelEnd, ReadToolsEnd, ReadToken, Set
  <2>2. known \in BOOLEAN
    OBVIOUS
  <2> HIDE DEF known
  <2>3. DOMAIN unread' = Turns
    BY <2>1 DEF VerdictTypes
  <2>4. reading' \in [Turns -> BOOLEAN] /\ aligned' \in [Turns -> BOOLEAN]
    BY <2>1 DEF VerdictTypes
  <2>5. refused' \in [Turns -> BOOLEAN]
    BY <2>1, <2>2 DEF VerdictTypes
  <2> QED BY <2>1, <2>3, <2>4, <2>5 DEF VerdictTypes, graph, response
<1>3. ASSUME NEW t \in Turns, Respond(t) \/ (Lose(t) /\ UNCHANGED <<graph, unread, reader>>)
      PROVE  VerdictTypes'
  <2>1. UNCHANGED <<graph, unread, reader>> /\ DOMAIN phase' = Turns
    BY <1>3 DEF VerdictTypes, Respond, Refuse, SaveQuestion, LookUpTitle, NameChat, PassOn,
         SaveAnswer, Lose, Set
  <2>2. messages' = messages \/ \E m : messages' = Append(messages, m)
    BY <1>3 DEF Respond, Refuse, SaveQuestion, LookUpTitle, NameChat, PassOn, SaveAnswer, Lose
  <2>3. \E S : messages' \in Seq(S)
    <3>1. PICK S : messages \in Seq(S)
      BY DEF VerdictTypes
    <3>2. ASSUME NEW m PROVE Append(messages, m) \in Seq(S \cup {m})
      <4>1. messages \in Seq(S \cup {m})
        BY <3>1
      <4> QED BY <4>1
    <3> QED BY <2>2, <3>1, <3>2
  <2> QED BY <2>1, <2>3 DEF VerdictTypes, graph, reader
<1>4. CASE UNCHANGED vars
  BY <1>4 DEF VerdictTypes, vars, graph, reader, response
<1> QED BY <1>1, <1>2, <1>3, <1>4 DEF Next

\* The graph gives its verdict once, and ends with a refusal.
LEMMA GraphJudged ==
  ASSUME VerdictInv, VerdictTypes', NEW t \in Turns, Graph(t)
  PROVE  Judged(t)'
<1>1. /\ VerdictTypes /\ Judged(t) /\ UNCHANGED <<reader, queue, response>>
  BY DEF VerdictInv, Graph
<1>2. CASE AlignmentCheck(t)
  <2>1. PICK v \in {"allowed", "refused"} :
          verdict' = Set(verdict, t, v) /\ GoTo(t, RouteAfterAlignment(v), <<Plain(v)>>)
    BY <1>2 DEF AlignmentCheck
  <2>2. verdict'[t] = v /\ UNCHANGED <<ran, produced, jobs>>
    BY <1>1, <1>2, <2>1 DEF AlignmentCheck, VerdictTypes, Set
  <2>3. /\ node[t] = "alignment_check" /\ verdict[t] = "none"
        /\ Unchecked(t) /\ NothingDone(t) /\ NothingSaved(t)
    BY <1>1, <1>2 DEF AlignmentCheck, Judged
  <2>4. /\ node'[t] \in {RouteAfterAlignment(v), "failed"}
        /\ v = "refused" => node'[t] = "end"
    BY <1>1, <2>1 DEF GoTo, Set, RouteAfterAlignment, VerdictTypes
  <2>5. NothingDone(t)' /\ NothingSaved(t)'
    BY <1>1, <2>2, <2>3 DEF NothingDone, NothingSaved, Saved, response
  <2>6. ASSUME v = "refused" PROVE RefusalKnown(t)'
    <3>1. unread'[t] = unread[t] \o <<Plain("refused"), Plain("over")>>
      BY <1>1, <2>1, <2>6 DEF GoTo, Emit, Set, RouteAfterAlignment, VerdictTypes
    <3>2. unread'[t] = <<Plain("refused"), Plain("over")>>
      BY <2>3, <3>1 DEF Unchecked
    <3>3. unread'[t] # <<>> /\ Head(unread'[t]).kind = "refused"
      BY <3>2 DEF Plain, Event
    <3> QED BY <1>1, <2>3, <2>4, <2>6, <3>3 DEF RefusalKnown, Over, Unchecked, reader
  <2> QED BY <2>2, <2>4, <2>5, <2>6 DEF Judged, RouteAfterAlignment
<1>3. ASSUME MemoryLoader(t) \/ Token(t) \/ AgentEnds(t) \/ AgentRaises(t) \/ ToolExecutor(t)
             \/ MemoryUpdater(t)
      PROVE  Judged(t)'
  <2>1. node[t] \in {"memory_loader", "agent", "tool_executor", "memory_updater"}
    BY <1>3 DEF MemoryLoader, Token, AgentEnds, AgentRaises, ToolExecutor, MemoryUpdater
  <2>2. verdict[t] = "allowed"
    BY <1>1, <2>1 DEF Judged, RefusalKnown, Over, VerdictTypes
  <2>3. verdict' = verdict
    BY <1>3 DEF MemoryLoader, Token, AgentEnds, AgentRaises, ToolExecutor, MemoryUpdater
  <2>4. node'[t] # "alignment_check"
    BY <1>1, <1>3, <2>1, ZenonT(40) DEF MemoryLoader, Token, AgentEnds, AgentRaises, ToolExecutor, MemoryUpdater,
         GoTo, Set, RouteAfterAgent, VerdictTypes
  <2> QED BY <2>2, <2>3, <2>4 DEF Judged
<1> QED BY <1>2, <1>3 DEF Graph

\* The reader hears of a refusal first, and last.
LEMMA ReadJudged ==
  ASSUME VerdictInv, VerdictTypes', NEW t \in Turns, Read(t)
  PROVE  Judged(t)'
<1>1. /\ VerdictTypes /\ Judged(t) /\ UNCHANGED <<graph, response>>
      /\ reading[t] /\ unread[t] # <<>>
  BY DEF VerdictInv, Read
<1>2. verdict[t] # "none"
  BY <1>1 DEF Judged, Unchecked
<1>3. ASSUME verdict[t] = "refused" PROVE RefusalKnown(t)'
  <2> DEFINE e == Head(unread[t])
  <2>1. e.kind = "refused" /\ Over(t)
    BY <1>1, <1>3 DEF Judged, RefusalKnown
  <2>2. ReadLast(t, e)
    BY <2>1 DEF Read, ReadAllowed, ReadModelEnd, ReadToolsEnd, ReadToken
  <2>3. reading'[t] = FALSE /\ refused'[t]
    BY <1>1, <2>1, <2>2 DEF ReadLast, Set, VerdictTypes
  <2> QED BY <1>1, <2>1, <2>3 DEF RefusalKnown, Over, graph
<1>4. /\ verdict'[t] = verdict[t] /\ node'[t] = node[t]
      /\ NothingDone(t)' = NothingDone(t) /\ NothingSaved(t)' = NothingSaved(t)
  BY <1>1 DEF NothingDone, NothingSaved, Saved, graph, response
<1> QED BY <1>1, <1>2, <1>3, <1>4 DEF Judged

\* The response does nothing for a turn that was refused or not judged.
LEMMA RespondJudged ==
  ASSUME VerdictInv, NEW t \in Turns,
         Respond(t) \/ (Lose(t) /\ UNCHANGED <<graph, unread, reader>>)
  PROVE  Judged(t)'
<1>1. /\ VerdictTypes /\ Judged(t) /\ UNCHANGED <<graph, unread, reader>>
  BY DEF VerdictInv, Respond
<1>2. ASSUME verdict[t] # "allowed" PROVE NothingSaved(t)'
  <2>1. NothingSaved(t) /\ ~MaySave(t)
    BY <1>1, <1>2 DEF Judged, Unchecked, RefusalKnown, MaySave, VerdictTypes
  <2>2. Refuse(t) \/ Lose(t)
    BY <2>1 DEF NothingSaved, Respond, SaveQuestion, LookUpTitle, NameChat, PassOn, SaveAnswer, Drained
  <2>3. UNCHANGED <<messages, title>> /\ phase'[t] \in {"refused", "lost"}
    BY <1>1, <2>2 DEF Refuse, Lose, Set, VerdictTypes
  <2> QED BY <2>1, <2>3 DEF NothingSaved, Saved
<1>3. /\ verdict'[t] = verdict[t] /\ node'[t] = node[t]
      /\ NothingDone(t)' = NothingDone(t) /\ Unchecked(t)' = Unchecked(t)
      /\ RefusalKnown(t)' = RefusalKnown(t)
  BY <1>1 DEF NothingDone, Unchecked, RefusalKnown, Over, graph, reader
<1> QED BY <1>1, <1>2, <1>3 DEF Judged

LEMMA VerdictStep == VerdictInv /\ [Next]_vars => VerdictInv'
<1> SUFFICES ASSUME VerdictInv, [Next]_vars PROVE VerdictInv'
  OBVIOUS
<1>1. VerdictTypes'
  BY TypesKept
<1>2. ASSUME NEW t \in Turns PROVE Judged(t)'
  <2>1. ASSUME NEW u \in Turns, Step(u) PROVE Judged(t)'
    <3>1. CASE u = t
      BY <1>1, <2>1, <3>1, GraphJudged, ReadJudged, RespondJudged DEF Step
    <3>2. CASE u # t
      BY <2>1, <3>2, OthersJudged
    <3> QED BY <3>1, <3>2
  <2>2. CASE UNCHANGED vars
    BY <2>2 DEF VerdictInv, Judged, Unchecked, RefusalKnown, NothingDone, NothingSaved, Saved, Over,
         vars, graph, reader, response
  <2> QED BY <2>1, <2>2 DEF Next, Step
<1> QED BY <1>1, <1>2 DEF VerdictInv

\* A refused question runs no model and no tool, and leaves no message, no
\* title and no memory job, whatever the tasks and the other turns do.
THEOREM RefusalLeavesNothing == Spec => []RefusedLeavesNothing
<1>1. VerdictInv => RefusedLeavesNothing
  BY DEF VerdictInv, Judged, NothingDone, NothingSaved, RefusedLeavesNothing
<1> QED BY <1>1, VerdictInit, VerdictStep, PTL DEF Spec

-----------------------------------------------------------------------------
(* Nothing is left out of an answer.  The reader drops text while calls    *)
(* are open, so what is proved is that none are open when it gets to a     *)
(* chunk: a model end is followed by the end of its tools before the model *)
(* speaks again.                                                           *)

\* Nodes after which text may come without the tools ending first.
Talking == {"alignment_check", "memory_loader", "agent"}

\* What an event says, for the provers an operator and no field.
Is(e, kind) == e.kind = kind
IsLast(e) == e.kind \in {"over", "raised"}
Chunk(e) == e.n
NoneIs(s, kind) == \A i \in 1..Len(s) : ~Is(s[i], kind)
Single(s, e) == Len(s) = 1 /\ s[1] = e

\* Text that a reader with o open calls finds at position i of s is kept: no
\* calls will be open by then.
Clear(o, s, i) ==
  \/ o = 0 /\ \A j \in 1..Len(s) : j < i => ~Is(s[j], "model_end")
  \/ \E j \in 1..Len(s) :
       /\ j < i /\ Is(s[j], "tools_end")
       /\ \A l \in 1..Len(s) : j < l /\ l < i => ~Is(s[l], "model_end")

Tokens(s) == {i \in 1..Len(s) : Is(s[i], "token")}

\* The reply r and the tokens of s, which have not been read, are all p chunks.
Complete(o, s, r, p) ==
  /\ Len(r) <= p /\ \A k \in 1..Len(r) : r[k] = k
  /\ \A i \in Tokens(s) : Len(r) < Chunk(s[i]) /\ Chunk(s[i]) <= p /\ Clear(o, s, i)
  /\ \A i, j \in Tokens(s) : i < j => Chunk(s[i]) < Chunk(s[j])
  /\ \A m \in 1..p : m <= Len(r) \/ \E i \in Tokens(s) : Chunk(s[i]) = m

TextKept(t) ==
  /\ Complete(open[t], unread[t], reply[t], produced[t])
  /\ node[t] \in Talking => Clear(open[t], unread[t], Len(unread[t]) + 1)

\* The reader stops at a refusal, or at the last event of the graph.
Ended(t) ==
  /\ \A i \in 1..Len(unread[t]) :
       /\ IsLast(unread[t][i]) => i = Len(unread[t]) /\ Over(t)
       /\ Is(unread[t][i], "refused") => verdict[t] = "refused"
  /\ reading[t] \/ verdict[t] = "refused" \/ (Over(t) /\ unread[t] = <<>>)
  /\ phase[t] = "answered" => ~reading[t]

-----------------------------------------------------------------------------
\* What a node adds to the events of its turn.
Emits(t, events) ==
  /\ unread'[t] = unread[t] \o events
  /\ ~Over(t)
  /\ \A i \in 1..Len(events) :
       /\ IsLast(events[i]) => i = Len(events) /\ Over(t)'
       /\ Is(events[i], "refused") => verdict'[t] = "refused"
  /\ \/ /\ produced'[t] = produced[t]
        /\ NoneIs(events, "token")
        /\ node'[t] \in Talking =>
             \/ node[t] \in Talking /\ NoneIs(events, "model_end")
             \/ (\E e \in Events : Single(events, e) /\ Is(e, "tools_end"))
     \/ /\ produced'[t] = produced[t] + 1 /\ node[t] \in Talking
        /\ \E e \in Events : Single(events, e) /\ Is(e, "token") /\ Chunk(e) = produced[t] + 1
  /\ verdict'[t] = verdict[t] \/ (verdict[t] = "none" /\ reading[t])

\* A node that ends passes on, is the last, or is one too many.
LEMMA GoToEmits ==
  ASSUME TurnTypes, NEW t \in Turns, NEW next \in Nodes \cup {"end"}, NEW events \in Seq(Events),
         GoTo(t, next, events)
  PROVE  \E more \in Seq(Events) :
           /\ unread'[t] = unread[t] \o more
           /\ \/ node'[t] = next /\ next # "end" /\ more = events
              \/ node'[t] = "end" /\ next = "end" /\ more = Append(events, Plain("over"))
              \/ node'[t] = "failed" /\ more = Append(events, Plain("raised"))
<1>1. /\ events \in Seq(Events) /\ Append(events, Plain("raised")) \in Seq(Events)
      /\ Append(events, Plain("over")) \in Seq(Events)
  <2>1. Plain("raised") \in Events /\ Plain("over") \in Events
    BY PlainIn DEF Kinds
  <2> QED BY <2>1
<1>2. \A v : Set(unread, t, v)[t] = v /\ Set(node, t, v)[t] = v
  BY DEF TurnTypes, GraphTypes, Set
<1>3. CASE next # "end" /\ steps[t] >= RecursionLimit
  <2>1. node'[t] = "failed" /\ unread'[t] = unread[t] \o Append(events, Plain("raised"))
    BY <1>2, <1>3 DEF GoTo, Emit
  <2> QED BY <1>1, <2>1
<1>4. CASE ~(next # "end" /\ steps[t] >= RecursionLimit)
  <2>1. /\ node'[t] = next
        /\ unread'[t] = unread[t] \o (IF next = "end" THEN Append(events, Plain("over")) ELSE events)
    BY <1>2, <1>4 DEF GoTo, Emit
  <2> QED BY <1>1, <2>1
<1> QED BY <1>3, <1>4

\* Lists of one or two events.
LEMMA OneEvent ==
  ASSUME NEW e \in Events, NEW f \in Events
  PROVE  /\ <<e>> \in Seq(Events) /\ Len(<<e>>) = 1 /\ <<e>>[1] = e
         /\ Append(<<e>>, f) \in Seq(Events) /\ Len(Append(<<e>>, f)) = 2
         /\ Append(<<e>>, f)[1] = e /\ Append(<<e>>, f)[2] = f
         /\ Append(<<>>, f) = <<f>>
OBVIOUS

LEMMA OneOrTwo ==
  ASSUME NEW e \in Events, NEW f \in Events, NEW more,
         more = <<e>> \/ more = Append(<<e>>, f)
  PROVE  \A i \in 1..Len(more) :
           \/ i = 1 /\ more[i] = e
           \/ more = Append(<<e>>, f) /\ i = Len(more) /\ more[i] = f
<1>1. CASE more = <<e>>
  <2>1. Len(more) = 1 /\ more[1] = e /\ 1..1 = {1}
    BY <1>1
  <2> QED BY <2>1
<1>2. CASE more = Append(<<e>>, f)
  <2>1. Len(more) = 2 /\ more[1] = e /\ more[2] = f /\ 1..2 = {1, 2}
    BY <1>2
  <2> QED BY <1>2, <2>1
<1> QED BY <1>1, <1>2

LEMMA PlainKind == ASSUME NEW kind PROVE Plain(kind).kind = kind
BY DEF Plain, Event

LEMMA GraphEmits ==
  ASSUME TurnTypes, VerdictInv, NEW t \in Turns, Graph(t)
  PROVE  \E events \in Seq(Events) : Emits(t, events)
<1>0. /\ GraphTypes /\ Judged(t)
  BY DEF TurnTypes, VerdictInv
<1>1. \A kind \in {"over", "raised"} : Plain(kind) \in Events /\ Plain(kind).kind = kind
  BY PlainIn, PlainKind DEF Kinds
<1>2. CASE AlignmentCheck(t)
  <2>1. PICK v \in {"allowed", "refused"} :
          verdict' = Set(verdict, t, v) /\ GoTo(t, RouteAfterAlignment(v), <<Plain(v)>>)
    BY <1>2 DEF AlignmentCheck
  <2>2. Plain(v) \in Events /\ Plain(v).kind = v /\ <<Plain(v)>> \in Seq(Events)
    <3>1. Plain(v) \in Events /\ Plain(v).kind = v
      BY PlainIn, PlainKind DEF Kinds
    <3> QED BY <3>1, OneIsSeq
  <2>3. RouteAfterAlignment(v) \in Nodes \cup {"end"}
    BY DEF RouteAfterAlignment, Nodes
  <2>4. PICK more \in Seq(Events) :
           /\ unread'[t] = unread[t] \o more
           /\ \/ more = <<Plain(v)>> /\ node'[t] = RouteAfterAlignment(v)
              \/ node'[t] = "end" /\ more = Append(<<Plain(v)>>, Plain("over"))
              \/ node'[t] = "failed" /\ more = Append(<<Plain(v)>>, Plain("raised"))
    BY <2>1, <2>2, <2>3, GoToEmits, ZenonT(40)
  <2>5. /\ verdict'[t] = v /\ produced'[t] = produced[t] /\ node[t] \in Talking /\ ~Over(t)
        /\ reading[t] /\ verdict[t] = "none"
    BY <1>0, <1>2, <2>1 DEF AlignmentCheck, GraphTypes, Set, Talking, Over, Judged, Unchecked
  <2>6. \A i \in 1..Len(more) :
          \/ more[i].kind = v
          \/ i = Len(more) /\ more[i].kind \in {"over", "raised"} /\ Over(t)'
    <3>1. CASE node'[t] = "end" /\ more = Append(<<Plain(v)>>, Plain("over"))
      <4>1. Plain("over") \in Events /\ Plain("over").kind = "over"
        BY <1>1
      <4> QED BY <2>2, <3>1, <4>1, OneOrTwo DEF Over
    <3>2. CASE node'[t] = "failed" /\ more = Append(<<Plain(v)>>, Plain("raised"))
      <4>1. Plain("raised") \in Events /\ Plain("raised").kind = "raised"
        BY <1>1
      <4> QED BY <2>2, <3>2, <4>1, OneOrTwo DEF Over
    <3>3. CASE more = <<Plain(v)>>
      BY <2>2, <3>3, OneOrTwo
    <3> QED BY <2>4, <3>1, <3>2, <3>3
  <2> QED BY <2>4, <2>5, <2>6 DEF Emits, Is, IsLast, Chunk, NoneIs, Single
<1>3. CASE MemoryLoader(t)
  <2>1. <<>> \in Seq(Events) /\ "agent" \in Nodes \cup {"end"}
    BY DEF Nodes
  <2>2. PICK more \in Seq(Events) :
           /\ unread'[t] = unread[t] \o more
           /\ \/ more = <<>>
              \/ node'[t] = "failed" /\ more = Append(<<>>, Plain("raised"))
    BY <1>3, <2>1, GoToEmits DEF MemoryLoader
  <2>3. /\ verdict'[t] = verdict[t] /\ produced'[t] = produced[t] /\ node[t] \in Talking /\ ~Over(t)
    BY <1>3 DEF MemoryLoader, Talking, Over
  <2>4. \A i \in 1..Len(more) : i = Len(more) /\ more[i].kind = "raised" /\ Over(t)'
    BY <1>1, <2>2, OneEvent DEF Over
  <2> QED BY <2>2, <2>3, <2>4 DEF Emits, Is, IsLast, Chunk, NoneIs, Single
<1>4. CASE Token(t)
  <2> DEFINE e == Event("token", <<>>, produced[t] + 1)
  <2>1. e \in Events /\ e.kind = "token" /\ e.n = produced[t] + 1
    <3>1. <<>> \in Seq(Calls) /\ "token" \in Kinds /\ produced[t] + 1 \in Nat
      BY <1>0 DEF Kinds, GraphTypes
    <3> QED BY <3>1, EventIn DEF Event
  <2>2. /\ unread'[t] = unread[t] \o <<e>> /\ produced'[t] = produced[t] + 1
        /\ verdict'[t] = verdict[t] /\ node[t] \in Talking /\ ~Over(t)
    BY <1>0, <1>4 DEF Token, Emit, Set, GraphTypes, TurnTypes, Talking, Over
  <2> HIDE DEF e
  <2>3. <<e>> \in Seq(Events) /\ Len(<<e>>) = 1 /\ <<e>>[1] = e
    BY <2>1, OneEvent
  <2>4. \A i \in 1..Len(<<e>>) : i = 1
    BY <2>3
  <2> QED BY <2>1, <2>2, <2>3, <2>4 DEF Emits, Is, IsLast, Chunk, NoneIs, Single
<1>5. CASE AgentEnds(t)
  <2>1. PICK batch \in Batches \cup {<<>>}, calls \in Batches \cup {<<>>, data[t]}, pending \in BOOLEAN :
          GoTo(t, RouteAfterAgent(t, pending, calls), <<Event("model_end", batch, 0)>>)
    BY <1>5 DEF AgentEnds
  <2> DEFINE e == Event("model_end", batch, 0)
  <2>2. e \in Events /\ e.kind = "model_end" /\ <<e>> \in Seq(Events)
    <3>1. batch \in Seq(Calls) /\ 0 \in Nat /\ "model_end" \in Kinds
      <4>1. <<>> \in Seq(Calls)
        OBVIOUS
      <4> QED BY <4>1, ChatAssumption DEF Kinds
    <3>2. e \in Events
      BY <3>1, EventIn
    <3>3. e.kind = "model_end"
      BY DEF Event
    <3> QED BY <3>2, <3>3, OneIsSeq
  <2>3. RouteAfterAgent(t, pending, calls) \in {"tool_executor", "memory_updater"}
    BY DEF RouteAfterAgent
  <2> DEFINE next == RouteAfterAgent(t, pending, calls)
  <2>4. PICK more \in Seq(Events) :
           /\ unread'[t] = unread[t] \o more
           /\ \/ more = <<e>> /\ node'[t] = next
              \/ node'[t] = "failed" /\ more = Append(<<e>>, Plain("raised"))
    <3>1. next \in Nodes \cup {"end"} /\ next # "end"
      BY <2>3 DEF Nodes
    <3>2. GoTo(t, next, <<e>>)
      BY <2>1
    <3>3. <<e>> \in Seq(Events)
      BY <2>2
    <3> DEFINE events == <<e>>
    <3> HIDE DEF e, next, events
    <3>4. events \in Seq(Events) /\ GoTo(t, next, events)
      BY <3>2, <3>3 DEF events
    <3>5. \E more \in Seq(Events) :
           /\ unread'[t] = unread[t] \o more
           /\ \/ node'[t] = next /\ next # "end" /\ more = events
              \/ node'[t] = "end" /\ next = "end" /\ more = Append(events, Plain("over"))
              \/ node'[t] = "failed" /\ more = Append(events, Plain("raised"))
      BY <3>1, <3>4, GoToEmits
    <3> QED BY <3>1, <3>5 DEF events
  <2>5. verdict'[t] = verdict[t] /\ produced'[t] = produced[t] /\ ~Over(t)
    BY <1>5 DEF AgentEnds, Over
  <2> HIDE DEF e, next
  <2>6. \A i \in 1..Len(more) :
          \/ more[i].kind = "model_end"
          \/ i = Len(more) /\ more[i].kind = "raised" /\ Over(t)'
    <3>1. Plain("raised") \in Events /\ Plain("raised").kind = "raised"
      BY <1>1
    <3> DEFINE f == Plain("raised")
    <3>2. e \in Events /\ f \in Events /\ (more = <<e>> \/ more = Append(<<e>>, f))
      BY <2>2, <2>4, <3>1
    <3> HIDE DEF f
    <3>5. Len(<<e>>) = 1 /\ Len(Append(<<e>>, f)) = 2
      BY <3>2, OneEvent
    <3>6. more = Append(<<e>>, f) => node'[t] = "failed"
      <4>1. more = <<e>> \/ node'[t] = "failed"
        BY <2>4
      <4>2. more = <<e>> => Len(more) = 1
        BY <3>5
      <4>3. more = Append(<<e>>, f) => Len(more) = 2
        BY <3>5
      <4> QED BY <4>1, <4>2, <4>3
    <3>3. more = Append(<<e>>, f) => Over(t)'
      BY <3>6 DEF Over
    <3>4. \A i \in 1..Len(more) :
            \/ i = 1 /\ more[i] = e
            \/ more = Append(<<e>>, f) /\ i = Len(more) /\ more[i] = f
      BY <3>2, OneOrTwo
    <3> QED BY <2>2, <3>1, <3>3, <3>4 DEF f
  <2>8. node'[t] \notin Talking
    BY <2>3, <2>4 DEF Talking, next
  <2> QED BY <2>4, <2>5, <2>6, <2>8 DEF Emits, Is, IsLast, Chunk, NoneIs, Single
<1>6. CASE AgentRaises(t)
  <2> DEFINE e == Plain("raised")
  <2>1. /\ unread'[t] = unread[t] \o <<e>> /\ produced'[t] = produced[t]
        /\ verdict'[t] = verdict[t] /\ node'[t] = "failed" /\ ~Over(t)
    BY <1>0, <1>6 DEF AgentRaises, Emit, Set, GraphTypes, TurnTypes, Over
  <2>2. e \in Events /\ e.kind = "raised"
    BY <1>1
  <2> HIDE DEF e
  <2>3. <<e>> \in Seq(Events) /\ Len(<<e>>) = 1 /\ <<e>>[1] = e
    BY <2>2, OneEvent
  <2>4. \A i \in 1..Len(<<e>>) : i = 1
    BY <2>3
  <2> QED BY <2>1, <2>2, <2>3, <2>4 DEF Emits, Is, IsLast, Chunk, NoneIs, Single, Over, Talking
<1>7. CASE ToolExecutor(t)
  <2>1. PICK good : GoTo(t, "agent", <<Event("tools_end", Keep(data[t], good), 0)>>)
    BY <1>7 DEF ToolExecutor
  <2> DEFINE e == Event("tools_end", Keep(data[t], good), 0)
  <2>2. e \in Events /\ e.kind = "tools_end" /\ <<e>> \in Seq(Events)
    <3>1. data[t] \in Seq(Calls)
      BY <1>0 DEF GraphTypes
    <3>2. Keep(data[t], good) \in Seq(Calls) /\ 0 \in Nat /\ "tools_end" \in Kinds
      BY <3>1, KeepIsSeq DEF Kinds
    <3>3. e \in Events
      BY <3>2, EventIn
    <3>4. e.kind = "tools_end"
      BY DEF Event
    <3> QED BY <3>3, <3>4, OneIsSeq
  <2>3. PICK more \in Seq(Events) :
           /\ unread'[t] = unread[t] \o more
           /\ \/ more = <<e>>
              \/ node'[t] = "failed" /\ more = Append(<<e>>, Plain("raised"))
    <3> HIDE DEF e
    <3>1. "agent" \in Nodes \cup {"end"} /\ GoTo(t, "agent", <<e>>)
      BY <2>1 DEF Nodes, e
    <3> QED BY <2>2, <3>1, GoToEmits
  <2>4. verdict'[t] = verdict[t] /\ produced'[t] = produced[t] /\ ~Over(t)
    BY <1>7 DEF ToolExecutor, Over
  <2> HIDE DEF e
  <2>5. \A i \in 1..Len(more) :
          \/ more[i].kind = "tools_end"
          \/ i = Len(more) /\ more[i].kind = "raised" /\ Over(t)'
    <3>1. Plain("raised") \in Events /\ Plain("raised").kind = "raised"
      BY <1>1
    <3> DEFINE f == Plain("raised")
    <3>2. e \in Events /\ f \in Events /\ (more = <<e>> \/ more = Append(<<e>>, f))
      BY <2>2, <2>3, <3>1
    <3> HIDE DEF f
    <3>5. Len(<<e>>) = 1 /\ Len(Append(<<e>>, f)) = 2
      BY <3>2, OneEvent
    <3>6. more = Append(<<e>>, f) => node'[t] = "failed"
      <4>1. more = <<e>> \/ node'[t] = "failed"
        BY <2>3
      <4>2. more = <<e>> => Len(more) = 1
        BY <3>5
      <4>3. more = Append(<<e>>, f) => Len(more) = 2
        BY <3>5
      <4> QED BY <4>1, <4>2, <4>3
    <3>3. more = Append(<<e>>, f) => Over(t)'
      BY <3>6 DEF Over
    <3>4. \A i \in 1..Len(more) :
            \/ i = 1 /\ more[i] = e
            \/ more = Append(<<e>>, f) /\ i = Len(more) /\ more[i] = f
      BY <3>2, OneOrTwo
    <3> QED BY <2>2, <3>1, <3>3, <3>4 DEF f
  <2>6. node'[t] \in Talking => Single(more, e) /\ Is(e, "tools_end")
    BY <2>2, <2>3, OneEvent DEF Talking, Single, Is
  <2>7. NoneIs(more, "token")
    BY <2>5 DEF NoneIs, Is
  <2>8. \A i \in 1..Len(more) : /\ IsLast(more[i]) => i = Len(more) /\ Over(t)'
                                /\ ~Is(more[i], "refused")
    BY <2>5 DEF IsLast, Is
  <2> QED BY <2>2, <2>3, <2>4, <2>6, <2>7, <2>8 DEF Emits
<1>8. CASE MemoryUpdater(t)
  <2>1. <<>> \in Seq(Events) /\ "end" \in Nodes \cup {"end"}
    OBVIOUS
  <2>2. PICK more \in Seq(Events) :
           /\ unread'[t] = unread[t] \o more
           /\ \/ node'[t] = "end" /\ more = Append(<<>>, Plain("over"))
              \/ node'[t] = "failed" /\ more = Append(<<>>, Plain("raised"))
    BY <1>8, <2>1, GoToEmits DEF MemoryUpdater
  <2>3. verdict'[t] = verdict[t] /\ produced'[t] = produced[t] /\ ~Over(t)
    BY <1>8 DEF MemoryUpdater, Over
  <2>4. \A i \in 1..Len(more) : i = Len(more) /\ more[i].kind \in {"over", "raised"}
    BY <1>1, <2>2, OneEvent
  <2> QED BY <2>2, <2>3, <2>4 DEF Emits, Is, IsLast, Chunk, NoneIs, Single, Over, Talking
<1> QED BY <1>2, <1>3, <1>4, <1>5, <1>6, <1>7, <1>8 DEF Graph

\* Events that come after the unread ones.
LEMMA Appended ==
  ASSUME NEW s \in Seq(Events), NEW events \in Seq(Events)
  PROVE  /\ Len(s \o events) = Len(s) + Len(events)
         /\ \A i \in 1..Len(s) : (s \o events)[i] = s[i]
         /\ \A i \in (Len(s) + 1)..(Len(s) + Len(events)) :
              (s \o events)[i] = events[i - Len(s)] /\ i - Len(s) \in 1..Len(events)
         /\ Len(s) \in Nat /\ Len(events) \in Nat
OBVIOUS

\* More events change nothing for those that come before them.
LEMMA ChunkIn ==
  ASSUME NEW s \in Seq(Events), NEW i \in 1..Len(s)
  PROVE  Chunk(s[i]) \in Nat
<1>1. s[i] \in Events
  BY ElementOfSeq
<1> QED BY <1>1 DEF Events, Chunk

LEMMA OneAppended ==
  ASSUME NEW s \in Seq(Events), NEW more \in Seq(Events), NEW e, Single(more, e)
  PROVE  /\ Len(s) \in Nat /\ Len(s \o more) = Len(s) + 1
         /\ \A i \in 1..Len(s) : (s \o more)[i] = s[i]
         /\ (s \o more)[Len(s) + 1] = e
<1>1. Len(more) = 1 /\ more[1] = e
  BY DEF Single
<1>2. Len(s) \in Nat /\ Len(s) + 1 \in (Len(s) + 1)..(Len(s) + Len(more)) /\ Len(s) + 1 - Len(s) = 1
  BY <1>1
<1> DEFINE z == s \o more
<1>3. /\ Len(z) = Len(s) + Len(more) /\ \A i \in 1..Len(s) : z[i] = s[i]
      /\ \A i \in (Len(s) + 1)..(Len(s) + Len(more)) : z[i] = more[i - Len(s)]
  BY Appended
<1> HIDE DEF z
<1>4. z[Len(s) + 1] = e
  BY <1>1, <1>2, <1>3
<1> QED BY <1>1, <1>2, <1>3, <1>4 DEF z

LEMMA ClearLonger ==
  ASSUME NEW s \in Seq(Events), NEW more \in Seq(Events), NEW o, NEW i \in Nat, i <= Len(s) + 1,
         Clear(o, s, i)
  PROVE  Clear(o, s \o more, i)
<1> DEFINE z == s \o more
<1>1. /\ Len(s) \in Nat /\ Len(z) \in Nat /\ Len(s) <= Len(z) /\ \A j \in 1..Len(s) : z[j] = s[j]
      /\ \A j \in 1..Len(z) : j < i => j \in 1..Len(s)
  BY Appended
<1> HIDE DEF z
<1>2. ASSUME o = 0, \A j \in 1..Len(s) : j < i => ~Is(s[j], "model_end")
      PROVE  Clear(o, z, i)
  BY <1>1, <1>2 DEF Clear
<1>3. ASSUME NEW j \in 1..Len(s), j < i, Is(s[j], "tools_end"),
             \A l \in 1..Len(s) : j < l /\ l < i => ~Is(s[l], "model_end")
      PROVE  Clear(o, z, i)
  <2>1. j \in 1..Len(z) /\ Is(z[j], "tools_end")
    BY <1>1, <1>3
  <2>2. \A l \in 1..Len(z) : j < l /\ l < i => ~Is(z[l], "model_end")
    BY <1>1, <1>3
  <2> QED BY <1>3, <2>1, <2>2 DEF Clear
<1> QED BY <1>2, <1>3 DEF Clear, z

\* Text stays clear behind events that are no model ends.
LEMMA ClearBehind ==
  ASSUME NEW s \in Seq(Events), NEW more \in Seq(Events), NEW o, Clear(o, s, Len(s) + 1),
         NoneIs(more, "model_end")
  PROVE  Clear(o, s \o more, Len(s \o more) + 1)
<1> DEFINE z == s \o more
           n == Len(s)
           k == Len(more)
<1>1. /\ n \in Nat /\ k \in Nat /\ Len(z) = n + k /\ \A j \in 1..n : z[j] = s[j]
      /\ \A j \in (n + 1)..(n + k) : z[j] = more[j - n] /\ j - n \in 1..k
  BY Appended
<1> HIDE DEF z, n, k
<1>2. \A j \in 1..Len(z) : j > n => ~Is(z[j], "model_end")
  <2>1. \A j \in 1..Len(z) : j > n => j \in (n + 1)..(n + k)
    BY <1>1
  <2> QED BY <1>1, <2>1 DEF k, NoneIs
<1>3. ASSUME o = 0, \A j \in 1..n : j < n + 1 => ~Is(s[j], "model_end")
      PROVE  Clear(o, z, Len(z) + 1)
  <2>1. \A j \in 1..Len(z) : ~Is(z[j], "model_end")
    <3>1. \A j \in 1..Len(z) : j > n \/ (j \in 1..n /\ j < n + 1)
      BY <1>1
    <3> QED BY <1>1, <1>2, <1>3, <3>1
  <2> QED BY <1>3, <2>1 DEF Clear
<1>4. ASSUME NEW j \in 1..n, Is(s[j], "tools_end"),
             \A l \in 1..n : j < l /\ l < n + 1 => ~Is(s[l], "model_end")
      PROVE  Clear(o, z, Len(z) + 1)
  <2>1. j \in 1..Len(z) /\ j < Len(z) + 1 /\ Is(z[j], "tools_end")
    BY <1>1, <1>4
  <2>2. \A l \in 1..Len(z) : j < l => ~Is(z[l], "model_end")
    <3>1. \A l \in 1..Len(z) : l > n \/ (l \in 1..n /\ l < n + 1)
      BY <1>1
    <3> QED BY <1>1, <1>2, <1>4, <3>1
  <2> QED BY <2>1, <2>2 DEF Clear
<1> QED BY <1>3, <1>4 DEF Clear, z, n

LEMMA ClearAfterTools ==
  ASSUME NEW s \in Seq(Events), NEW more \in Seq(Events), NEW o, NEW e,
         Single(more, e), Is(e, "tools_end")
  PROVE  Clear(o, s \o more, Len(s \o more) + 1)
<1> DEFINE z == s \o more
           n == Len(s)
<1>1. n \in Nat /\ Len(z) = n + 1 /\ z[n + 1] = e
  BY OneAppended
<1> HIDE DEF z, n
<1>2. /\ n + 1 \in 1..Len(z) /\ n + 1 < Len(z) + 1 /\ Is(z[n + 1], "tools_end")
      /\ \A l \in 1..Len(z) : ~(n + 1 < l)
  BY <1>1
<1> QED BY <1>2 DEF Clear, z

\* Events without text leave the text as complete as it is.
LEMMA NoTextAdded ==
  ASSUME NEW s \in Seq(Events), NEW more \in Seq(Events), NEW o, NEW r \in Seq(Nat), NEW p \in Nat,
         Complete(o, s, r, p), NoneIs(more, "token")
  PROVE  Complete(o, s \o more, r, p)
<1> DEFINE z == s \o more
           n == Len(s)
           k == Len(more)
<1>1. /\ n \in Nat /\ k \in Nat /\ Len(z) = n + k /\ \A j \in 1..n : z[j] = s[j]
      /\ \A j \in (n + 1)..(n + k) : z[j] = more[j - n] /\ j - n \in 1..k
  BY Appended
<1>2. \A i \in Nat : i <= n + 1 /\ Clear(o, s, i) => Clear(o, z, i)
  BY ClearLonger
<1> HIDE DEF z, n, k
<1>3. \A j \in 1..Len(z) : j \in 1..n \/ (j \in (n + 1)..(n + k) /\ j \notin 1..n)
  BY <1>1
<1>4. Tokens(z) = Tokens(s)
  BY <1>1, <1>3 DEF Tokens, n, k, NoneIs
<1>5. \A i \in Tokens(s) : i \in Nat /\ i <= n + 1 /\ z[i] = s[i]
  BY <1>1 DEF Tokens, n
<1>6. Complete(o, z, r, p)
  BY <1>2, <1>4, <1>5 DEF Complete
<1> QED BY <1>6 DEF z

\* The next chunk follows those that are there.
LEMMA TextAdded ==
  ASSUME NEW s \in Seq(Events), NEW more \in Seq(Events), NEW o, NEW r \in Seq(Nat), NEW p \in Nat,
         Complete(o, s, r, p), Clear(o, s, Len(s) + 1),
         NEW e, Single(more, e), Is(e, "token"), Chunk(e) = p + 1
  PROVE  Complete(o, s \o more, r, p + 1)
<1> DEFINE z == s \o more
           n == Len(s)
<1>1. /\ n \in Nat /\ Len(z) = n + 1 /\ \A j \in 1..n : z[j] = s[j]
      /\ Is(z[n + 1], "token") /\ Chunk(z[n + 1]) = p + 1
  BY OneAppended
<1>2. /\ \A i \in Nat : i <= n + 1 /\ Clear(o, s, i) => Clear(o, z, i)
      /\ Clear(o, z, n + 1)
  BY ClearLonger
<1>3. \A i \in Tokens(s) : i \in 1..n /\ Chunk(s[i]) \in Nat
  BY ChunkIn DEF Tokens
<1> HIDE DEF z, n
<1>4. Tokens(z) = Tokens(s) \cup {n + 1}
  <2>1. \A i \in 1..Len(z) : i \in 1..n \/ i = n + 1
    BY <1>1
  <2>2. 1..n \subseteq 1..Len(z) /\ n + 1 \in 1..Len(z)
    BY <1>1
  <2> QED BY <1>1, <2>1, <2>2 DEF Tokens, n
<1>5. Len(r) \in Nat /\ Len(r) <= p
  BY DEF Complete
<1>6. \A i \in Tokens(s) : /\ i \in Nat /\ i <= n + 1 /\ i < n + 1 /\ z[i] = s[i]
                           /\ Len(r) < Chunk(s[i]) /\ Chunk(s[i]) <= p /\ Clear(o, s, i)
  BY <1>1, <1>3 DEF Complete
<1>7. \A i \in Tokens(z) : Len(r) < Chunk(z[i]) /\ Chunk(z[i]) <= p + 1 /\ Clear(o, z, i)
  <2>1. ASSUME NEW i \in Tokens(s) PROVE Len(r) < Chunk(z[i]) /\ Chunk(z[i]) <= p + 1 /\ Clear(o, z, i)
    BY <1>2, <1>3, <1>6
  <2>2. Len(r) < Chunk(z[n + 1]) /\ Chunk(z[n + 1]) <= p + 1
    BY <1>1, <1>5
  <2> QED BY <1>2, <1>4, <2>1, <2>2
<1>8. \A i, j \in Tokens(z) : i < j => Chunk(z[i]) < Chunk(z[j])
  <2>1. ASSUME NEW i \in Tokens(z), NEW j \in Tokens(z), i < j PROVE Chunk(z[i]) < Chunk(z[j])
    <3>1. i # n + 1
      BY <1>1, <1>4, <1>6, <2>1
    <3>2. i \in Tokens(s)
      BY <1>4, <3>1
    <3>3. CASE j = n + 1
      BY <1>1, <1>3, <1>6, <3>2, <3>3
    <3>4. CASE j \in Tokens(s)
      BY <1>6, <2>1, <3>2, <3>4 DEF Complete
    <3> QED BY <1>4, <3>3, <3>4
  <2> QED BY <2>1
<1>9. \A m \in 1..(p + 1) : m <= Len(r) \/ \E i \in Tokens(z) : Chunk(z[i]) = m
  <2>1. ASSUME NEW m \in 1..(p + 1) PROVE m <= Len(r) \/ \E i \in Tokens(z) : Chunk(z[i]) = m
    <3>1. CASE m = p + 1
      BY <1>1, <1>4, <3>1
    <3>2. CASE m \in 1..p
      <4>1. m <= Len(r) \/ \E i \in Tokens(s) : Chunk(s[i]) = m
        BY <3>2 DEF Complete
      <4> QED BY <1>4, <1>6, <4>1
    <3> QED BY <3>1, <3>2
  <2> QED BY <2>1
<1>10. Len(r) <= p + 1 /\ \A i \in 1..Len(r) : r[i] = i
  BY <1>5 DEF Complete
<1>11. Complete(o, z, r, p + 1)
  BY <1>7, <1>8, <1>9, <1>10 DEF Complete
<1> QED BY <1>11 DEF z

LEMMA GraphKeepsText ==
  ASSUME TurnTypes, NEW t \in Turns, TextKept(t), NEW events \in Seq(Events), Emits(t, events),
         open'[t] = open[t], reply'[t] = reply[t]
  PROVE  TextKept(t)'
<1> DEFINE s == unread[t]
<1>1. s \in Seq(Events) /\ produced[t] \in Nat /\ reply[t] \in Seq(Nat)
  BY DEF TurnTypes, GraphTypes, ReaderTypes
<1>2. unread'[t] = s \o events /\ Complete(open[t], s, reply[t], produced[t])
  BY DEF Emits, TextKept
<1>3. CASE /\ produced'[t] = produced[t]
           /\ NoneIs(events, "token")
           /\ node'[t] \in Talking =>
                \/ node[t] \in Talking /\ NoneIs(events, "model_end")
                \/ (\E e \in Events : Single(events, e) /\ Is(e, "tools_end"))
  <2>1. Complete(open[t], s \o events, reply[t], produced[t])
    BY <1>1, <1>2, <1>3, NoTextAdded
  <2>2. ASSUME node'[t] \in Talking PROVE Clear(open[t], s \o events, Len(s \o events) + 1)
    <3>1. CASE node[t] \in Talking /\ NoneIs(events, "model_end")
      <4>1. Clear(open[t], s, Len(s) + 1)
        BY <3>1 DEF TextKept
      <4> QED BY <1>1, <3>1, <4>1, ClearBehind
    <3>2. CASE (\E e \in Events : Single(events, e) /\ Is(e, "tools_end"))
      BY <1>1, <3>2, ClearAfterTools
    <3> QED BY <1>3, <2>2, <3>1, <3>2
  <2> QED BY <1>2, <1>3, <2>1, <2>2 DEF TextKept
<1>4. CASE /\ produced'[t] = produced[t] + 1 /\ node[t] \in Talking
           /\ \E e \in Events : Single(events, e) /\ Is(e, "token") /\ Chunk(e) = produced[t] + 1
  <2>1. Clear(open[t], s, Len(s) + 1)
    BY <1>4 DEF TextKept
  <2>2. Complete(open[t], s \o events, reply[t], produced[t] + 1)
    BY <1>1, <1>2, <1>4, <2>1, TextAdded
  <2>3. NoneIs(events, "model_end")
    <3>1. PICK e : Single(events, e) /\ Is(e, "token")
      BY <1>4
    <3>2. \A i \in 1..Len(events) : i = 1
      BY <3>1 DEF Single
    <3> QED BY <3>1, <3>2 DEF NoneIs, Single, Is
  <2>4. Clear(open[t], s \o events, Len(s \o events) + 1)
    BY <1>1, <2>1, <2>3, ClearBehind
  <2> QED BY <1>2, <1>4, <2>2, <2>4 DEF TextKept
<1> QED BY <1>3, <1>4 DEF Emits

LEMMA GraphKeepsEnded ==
  ASSUME TurnTypes, NEW t \in Turns, Ended(t), NEW events \in Seq(Events), Emits(t, events),
         reading'[t] = reading[t], phase'[t] = phase[t]
  PROVE  Ended(t)'
<1>1. unread[t] \in Seq(Events)
  BY DEF TurnTypes
<1>2. ASSUME NEW i \in 1..Len(unread'[t])
      PROVE /\ IsLast(unread'[t][i]) => i = Len(unread'[t]) /\ Over(t)'
            /\ Is(unread'[t][i], "refused") => verdict'[t] = "refused"
  <2> DEFINE n == Len(unread[t])
             k == Len(events)
  <2>1. /\ n \in Nat /\ k \in Nat /\ Len(unread'[t]) = n + k
        /\ \A j \in 1..n : unread'[t][j] = unread[t][j]
        /\ \A j \in (n + 1)..(n + k) : unread'[t][j] = events[j - n] /\ j - n \in 1..k
    BY <1>1, Appended DEF Emits
  <2> HIDE DEF n, k
  <2>2. CASE i \in 1..n
    BY <2>1, <2>2 DEF Emits, Ended, n
  <2>3. CASE i \in (n + 1)..(n + k)
    <3>1. unread'[t][i] = events[i - n] /\ i - n \in 1..k
      BY <2>1, <2>3
    <3>2. IsLast(events[i - n]) => i - n = k /\ Over(t)'
      BY <3>1 DEF Emits, k
    <3>3. Is(events[i - n], "refused") => verdict'[t] = "refused"
      BY <3>1 DEF Emits, k
    <3> QED BY <2>1, <2>3, <3>1, <3>2, <3>3
  <2> QED BY <2>1, <2>2, <2>3
<1>3. reading[t] \/ verdict'[t] = "refused"
  BY DEF Ended, Emits
<1> QED BY <1>2, <1>3 DEF Ended

\* What the reader leaves unread.
LEMMA TailOf ==
  ASSUME NEW s \in Seq(Events), s # <<>>
  PROVE  /\ Len(s) \in Nat /\ 1 \in 1..Len(s) /\ Head(s) = s[1] /\ Head(s) \in Events
         /\ Tail(s) \in Seq(Events) /\ Len(Tail(s)) = Len(s) - 1
         /\ \A i \in 1..Len(Tail(s)) : i + 1 \in 1..Len(s) /\ Tail(s)[i] = s[i + 1]
OBVIOUS

\* What the event e makes of o open calls.
Opens(o, e, open1) ==
  \/ open1 = o /\ ~Is(e, "model_end") /\ ~Is(e, "tools_end")
  \/ Is(e, "model_end") /\ ~Is(e, "tools_end")
  \/ Is(e, "tools_end") /\ open1 = 0

LEMMA ClearNext ==
  ASSUME NEW s \in Seq(Events), s # <<>>, NEW o, NEW open1, NEW i \in Nat, i > 0,
         Clear(o, s, i + 1), Opens(o, Head(s), open1)
  PROVE  Clear(open1, Tail(s), i)
<1> DEFINE z == Tail(s)
           e == Head(s)
<1>1. /\ Len(s) \in Nat /\ 1 \in 1..Len(s) /\ e = s[1] /\ Len(z) = Len(s) - 1
      /\ \A j \in 1..Len(z) : j + 1 \in 1..Len(s) /\ z[j] = s[j + 1]
  BY TailOf
<1> HIDE DEF z, e
<1>2. ASSUME o = 0, \A j \in 1..Len(s) : j < i + 1 => ~Is(s[j], "model_end")
      PROVE  Clear(open1, z, i)
  <2>1. open1 = 0
    BY <1>1, <1>2 DEF Opens, e
  <2>2. \A j \in 1..Len(z) : j < i => ~Is(z[j], "model_end")
    BY <1>1, <1>2
  <2> QED BY <2>1, <2>2 DEF Clear
<1>3. ASSUME NEW j \in 1..Len(s), j < i + 1, Is(s[j], "tools_end"),
             \A l \in 1..Len(s) : j < l /\ l < i + 1 => ~Is(s[l], "model_end")
      PROVE  Clear(open1, z, i)
  <2>1. CASE j = 1
    <3>1. open1 = 0
      BY <1>1, <1>3, <2>1 DEF Opens, e
    <3>2. \A l \in 1..Len(z) : l < i => ~Is(z[l], "model_end")
      BY <1>1, <1>3, <2>1
    <3> QED BY <3>1, <3>2 DEF Clear
  <2>2. CASE j # 1
    <3>1. /\ j - 1 \in 1..Len(z) /\ j - 1 < i /\ z[j - 1] = s[j]
      <4>1. j - 1 \in 1..Len(z) /\ j - 1 < i /\ j - 1 + 1 = j
        BY <1>1, <1>3, <2>2
      <4> QED BY <1>1, <4>1
    <3>2. \A l \in 1..Len(z) : j - 1 < l /\ l < i => ~Is(z[l], "model_end")
      BY <1>1, <1>3
    <3> QED BY <1>3, <3>1, <3>2 DEF Clear
  <2> QED BY <2>1, <2>2
<1>4. Clear(open1, z, i)
  BY <1>2, <1>3 DEF Clear
<1> QED BY <1>4 DEF z

\* Where the tokens are after an event has been read.
LEMMA TokensNext ==
  ASSUME NEW s \in Seq(Events), s # <<>>
  PROVE  /\ \A i \in Tokens(Tail(s)) : /\ i \in Nat /\ i > 0 /\ i + 1 \in Tokens(s) /\ i + 1 # 1
                                       /\ Tail(s)[i] = s[i + 1]
         /\ \A i \in Tokens(s) : i = 1 \/ (i - 1 \in Tokens(Tail(s)) /\ Tail(s)[i - 1] = s[i] /\ 1 < i)
<1> DEFINE z == Tail(s)
<1>1. /\ Len(s) \in Nat /\ 1 \in 1..Len(s) /\ Len(z) = Len(s) - 1
      /\ \A j \in 1..Len(z) : j + 1 \in 1..Len(s) /\ z[j] = s[j + 1]
  BY TailOf
<1> HIDE DEF z
<1>2. \A i \in Tokens(z) : i \in Nat /\ i > 0 /\ i + 1 \in Tokens(s) /\ i + 1 # 1 /\ z[i] = s[i + 1]
  BY <1>1 DEF Tokens
<1>3. ASSUME NEW i \in Tokens(s), i # 1 PROVE i - 1 \in Tokens(z) /\ z[i - 1] = s[i] /\ 1 < i
  <2>1. i \in 1..Len(s) /\ Is(s[i], "token")
    BY DEF Tokens
  <2>2. i - 1 \in 1..Len(z) /\ i - 1 + 1 = i /\ 1 < i
    BY <1>1, <1>3, <2>1
  <2>3. z[i - 1] = s[i]
    BY <1>1, <2>2
  <2> QED BY <2>1, <2>2, <2>3 DEF Tokens
<1> QED BY <1>2, <1>3 DEF z

LEMMA NoTextRead ==
  ASSUME NEW s \in Seq(Events), s # <<>>, NEW o, NEW open1, NEW r \in Seq(Nat), NEW p \in Nat,
         Complete(o, s, r, p), Opens(o, Head(s), open1), ~Is(Head(s), "token")
  PROVE  Complete(open1, Tail(s), r, p)
<1> DEFINE z == Tail(s)
<1>1. /\ \A i \in Tokens(z) : i \in Nat /\ i > 0 /\ i + 1 \in Tokens(s) /\ z[i] = s[i + 1]
      /\ \A i \in Tokens(s) : i = 1 \/ (i - 1 \in Tokens(z) /\ z[i - 1] = s[i])
  BY TokensNext
<1>2. 1 \notin Tokens(s)
  BY TailOf DEF Tokens
<1>3. \A i \in Nat : i > 0 /\ Clear(o, s, i + 1) => Clear(open1, z, i)
  BY ClearNext
<1> HIDE DEF z
<1>4. \A i \in Tokens(z) : Len(r) < Chunk(z[i]) /\ Chunk(z[i]) <= p /\ Clear(open1, z, i)
  BY <1>1, <1>3 DEF Complete
<1>5. \A i, j \in Tokens(z) : i < j => Chunk(z[i]) < Chunk(z[j])
  BY <1>1 DEF Complete
<1>6. \A m \in 1..p : m <= Len(r) \/ \E i \in Tokens(z) : Chunk(z[i]) = m
  BY <1>1, <1>2 DEF Complete
<1>7. Complete(open1, z, r, p)
  BY <1>4, <1>5, <1>6 DEF Complete
<1> QED BY <1>7 DEF z

\* The token that is read is the next chunk of the reply.
LEMMA TextRead ==
  ASSUME NEW s \in Seq(Events), s # <<>>, NEW o, NEW r \in Seq(Nat), NEW p \in Nat,
         Complete(o, s, r, p), Is(Head(s), "token")
  PROVE  o = 0 /\ Complete(o, Tail(s), Append(r, Chunk(Head(s))), p)
<1> DEFINE z == Tail(s)
           c == Chunk(Head(s))
           k == Len(r)
<1>1. /\ \A i \in Tokens(z) : /\ i \in Nat /\ i > 0 /\ i + 1 \in Tokens(s) /\ i + 1 # 1
                              /\ z[i] = s[i + 1]
      /\ \A i \in Tokens(s) : i = 1 \/ (i - 1 \in Tokens(z) /\ z[i - 1] = s[i] /\ 1 < i)
  BY TokensNext
<1>2. 1 \in Tokens(s) /\ c = Chunk(s[1])
  BY TailOf DEF Tokens
<1>3. o = 0
  <2>1. Clear(o, s, 1)
    BY <1>2 DEF Complete
  <2>2. \A j \in 1..Len(s) : ~(j < 1)
    OBVIOUS
  <2> QED BY <2>1, <2>2 DEF Clear
<1>4. Opens(o, Head(s), o)
  BY DEF Opens, Is
<1>5. \A i \in Nat : i > 0 /\ Clear(o, s, i + 1) => Clear(o, z, i)
  BY <1>4, ClearNext
<1>6. \A i \in Tokens(s) : Chunk(s[i]) \in Nat
  BY ChunkIn DEF Tokens
<1>7. /\ k \in Nat /\ Len(Append(r, c)) = k + 1 /\ Append(r, c)[k + 1] = c
      /\ \A i \in 1..k : Append(r, c)[i] = r[i]
  <2>1. c \in Nat
    BY <1>2, <1>6
  <2> HIDE DEF c
  <2> QED BY <2>1
<1> HIDE DEF z, c
<1>8. c = k + 1
  <2>1. k < c /\ c <= p /\ c \in Nat
    BY <1>2, <1>6 DEF Complete
  <2>2. k + 1 \in 1..p /\ ~(k + 1 <= k)
    BY <1>7, <2>1
  <2>3. PICK i \in Tokens(s) : Chunk(s[i]) = k + 1
    BY <2>2 DEF Complete
  <2>4. CASE i = 1
    BY <1>2, <2>3, <2>4
  <2>5. CASE i # 1
    <3>1. c < k + 1
      BY <1>1, <1>2, <2>3, <2>5 DEF Complete
    <3> QED BY <1>7, <2>1, <3>1
  <2> QED BY <2>4, <2>5
<1>9. k + 1 <= p /\ \A i \in 1..(k + 1) : Append(r, c)[i] = i
  <2>1. \A i \in 1..(k + 1) : i \in 1..k \/ i = k + 1
    BY <1>7
  <2> QED BY <1>2, <1>7, <1>8, <2>1, ZenonT(40) DEF Complete
<1>10. \A i \in Tokens(z) : k + 1 < Chunk(z[i]) /\ Chunk(z[i]) <= p /\ Clear(o, z, i)
  <2>1. ASSUME NEW i \in Tokens(z) PROVE k + 1 < Chunk(z[i]) /\ Chunk(z[i]) <= p /\ Clear(o, z, i)
    <3>1. i \in Nat /\ i > 0 /\ i + 1 \in Tokens(s) /\ 1 < i + 1 /\ z[i] = s[i + 1]
      BY <1>1
    <3> QED BY <1>2, <1>5, <1>8, <3>1 DEF Complete
  <2> QED BY <2>1
<1>11. \A i, j \in Tokens(z) : i < j => Chunk(z[i]) < Chunk(z[j])
  BY <1>1 DEF Complete
<1>12. \A m \in 1..p : m <= k + 1 \/ \E i \in Tokens(z) : Chunk(z[i]) = m
  <2>1. ASSUME NEW m \in 1..p, ~(m <= k + 1) PROVE \E i \in Tokens(z) : Chunk(z[i]) = m
    <3>1. ~(m <= k) /\ m # k + 1
      BY <1>7, <2>1
    <3>2. PICK i \in Tokens(s) : Chunk(s[i]) = m
      BY <3>1 DEF Complete
    <3>3. i # 1
      BY <1>2, <1>8, <3>1, <3>2
    <3> QED BY <1>1, <3>2, <3>3
  <2> QED BY <2>1
<1>13. Complete(o, z, Append(r, c), p)
  BY <1>7, <1>9, <1>10, <1>11, <1>12 DEF Complete
<1> QED BY <1>3, <1>13 DEF z, c

\* What reading an event does to the text, and when it is the last.
LEMMA ReadText ==
  ASSUME TurnTypes, NEW t \in Turns, Read(t)
  PROVE  LET e == Head(unread[t]) IN
         /\ e \in Events /\ unread[t] # <<>> /\ reading[t]
         /\ unread'[t] = Tail(unread[t])
         /\ UNCHANGED <<graph, response>>
         /\ \/ /\ ~Is(e, "token") /\ reply'[t] = reply[t] /\ Opens(open[t], e, open'[t])
            \/ /\ Is(e, "token") /\ open'[t] = open[t]
               /\ open[t] = 0 => reply'[t] = Append(reply[t], Chunk(e))
         /\ reading'[t] = reading[t] \/ (reading'[t] = FALSE /\ (IsLast(e) \/ Is(e, "refused")))
<1> DEFINE e == Head(unread[t])
<1>1. /\ unread[t] \in Seq(Events) /\ unread[t] # <<>> /\ reading[t] /\ UNCHANGED <<graph, response>>
      /\ open[t] \in Nat
  BY DEF TurnTypes, ReaderTypes, Read
<1>2. e \in Events /\ unread'[t] = Tail(unread[t])
  <2>1. unread' = Set(unread, t, Tail(unread[t]))
    BY DEF Read
  <2> QED BY <1>1, <2>1, TailOf DEF Set, TurnTypes
<1>3. \A v : /\ Set(open, t, v)[t] = v /\ Set(reply, t, v)[t] = v /\ Set(reading, t, v)[t] = v
  BY DEF TurnTypes, ReaderTypes, Set
<1>4. CASE ReadLast(t, e)
  BY <1>1, <1>2, <1>3, <1>4 DEF ReadLast, Opens, Is, IsLast
<1>5. CASE ReadAllowed(t, e)
  BY <1>1, <1>2, <1>3, <1>5 DEF ReadAllowed, Opens, Is
<1>6. CASE ReadModelEnd(t, e)
  BY <1>1, <1>2, <1>3, <1>6 DEF ReadModelEnd, Opens, Is
<1>7. CASE ReadToolsEnd(t, e)
  BY <1>1, <1>2, <1>3, <1>7 DEF ReadToolsEnd, CloseTools, Opens, Is
<1>8. CASE ReadToken(t, e)
  <2>1. open[t] = 0 => ~(open[t] > 0)
    OBVIOUS
  <2>2. Is(e, "token") /\ UNCHANGED <<reading, open>>
    BY <1>8 DEF ReadToken, Is
  <2>3. open[t] = 0 => reply' = Set(reply, t, Append(reply[t], Chunk(e)))
    BY <1>8, <2>1, Zenon DEF ReadToken, Chunk
  <2> HIDE DEF e
  <2> QED BY <1>1, <1>2, <1>3, <2>2, <2>3 DEF e
<1> QED BY <1>4, <1>5, <1>6, <1>7, <1>8 DEF Read

LEMMA ReadKeepsText ==
  ASSUME TurnTypes, NEW t \in Turns, TextKept(t), Read(t)
  PROVE  TextKept(t)'
<1> DEFINE s == unread[t]
           e == Head(s)
<1>1. /\ s \in Seq(Events) /\ produced[t] \in Nat /\ reply[t] \in Seq(Nat)
      /\ Complete(open[t], s, reply[t], produced[t])
      /\ node[t] \in Talking => Clear(open[t], s, Len(s) + 1)
  BY DEF TurnTypes, GraphTypes, ReaderTypes, TextKept
<1>2. /\ s # <<>> /\ unread'[t] = Tail(s) /\ UNCHANGED <<node, produced>>
      /\ \/ /\ ~Is(e, "token") /\ reply'[t] = reply[t] /\ Opens(open[t], e, open'[t])
         \/ /\ Is(e, "token") /\ open'[t] = open[t]
            /\ open[t] = 0 => reply'[t] = Append(reply[t], Chunk(e))
  BY ReadText DEF graph
<1> HIDE DEF s
<1>3. Complete(open'[t], Tail(s), reply'[t], produced[t])
  <2>1. CASE ~Is(e, "token") /\ reply'[t] = reply[t] /\ Opens(open[t], e, open'[t])
    BY <1>1, <1>2, <2>1, NoTextRead
  <2>2. CASE /\ Is(e, "token") /\ open'[t] = open[t]
             /\ open[t] = 0 => reply'[t] = Append(reply[t], Chunk(e))
    BY <1>1, <1>2, <2>2, TextRead
  <2> QED BY <1>2, <2>1, <2>2
<1>4. ASSUME node[t] \in Talking PROVE Clear(open'[t], Tail(s), Len(Tail(s)) + 1)
  <2>1. Opens(open[t], e, open'[t])
    BY <1>2 DEF Opens, Is
  <2>2. Len(Tail(s)) + 1 \in Nat /\ Len(Tail(s)) + 1 > 0 /\ Len(Tail(s)) + 1 + 1 = Len(s) + 1
    BY <1>1, <1>2, TailOf
  <2>3. Clear(open[t], s, Len(Tail(s)) + 1 + 1)
    BY <1>1, <1>4, <2>2
  <2> QED BY <1>1, <1>2, <2>1, <2>2, <2>3, ClearNext
<1> QED BY <1>2, <1>3, <1>4 DEF TextKept

LEMMA ReadKeepsEnded ==
  ASSUME TurnTypes, NEW t \in Turns, Ended(t), Read(t)
  PROVE  Ended(t)'
<1> DEFINE s == unread[t]
           z == Tail(s)
           e == Head(s)
<1>1. /\ s \in Seq(Events) /\ s # <<>> /\ unread'[t] = z /\ reading[t]
      /\ UNCHANGED <<node, verdict, phase>> /\ reading[t] \in BOOLEAN
      /\ reading'[t] = reading[t] \/ (reading'[t] = FALSE /\ (IsLast(e) \/ Is(e, "refused")))
  BY ReadText DEF graph, response, TurnTypes, ReaderTypes
<1>2. /\ Len(s) \in Nat /\ 1 \in 1..Len(s) /\ e = s[1] /\ Len(z) = Len(s) - 1
      /\ \A j \in 1..Len(z) : j + 1 \in 1..Len(s) /\ z[j] = s[j + 1]
      /\ z \in Seq(Events)
  BY <1>1, TailOf
<1> HIDE DEF z, e
<1>3. \A i \in 1..Len(s) : /\ IsLast(s[i]) => i = Len(s) /\ Over(t)
                           /\ Is(s[i], "refused") => verdict[t] = "refused"
  BY DEF Ended
<1>4. \A i \in 1..Len(z) : /\ IsLast(z[i]) => i = Len(z) /\ Over(t)
                           /\ Is(z[i], "refused") => verdict[t] = "refused"
  BY <1>2, <1>3
<1>5. IsLast(e) => Over(t) /\ z = <<>>
  BY <1>2, <1>3
<1>6. Is(e, "refused") => verdict[t] = "refused"
  BY <1>2, <1>3
<1>7. Over(t)' = Over(t)
  BY <1>1 DEF Over
<1>8. reading'[t] \/ verdict'[t] = "refused" \/ (Over(t)' /\ unread'[t] = <<>>)
  BY <1>1, <1>5, <1>6, <1>7
<1>9. phase'[t] # "answered"
  BY <1>1 DEF Ended
<1>10. \A i \in 1..Len(unread'[t]) :
         /\ IsLast(unread'[t][i]) => i = Len(unread'[t]) /\ Over(t)'
         /\ Is(unread'[t][i], "refused") => verdict'[t] = "refused"
  BY <1>1, <1>4, <1>7
<1> QED BY <1>8, <1>9, <1>10 DEF Ended

\* The response only listens.
LEMMA RespondKeepsEnded ==
  ASSUME TurnTypes, NEW t \in Turns, TextKept(t), Ended(t),
         Respond(t) \/ (Lose(t) /\ UNCHANGED <<graph, unread, reader>>)
  PROVE  TextKept(t)' /\ Ended(t)'
<1>1. UNCHANGED <<graph, unread, reader>>
  BY DEF Respond
<1>2. phase'[t] = "answered" => ~reading[t]
  <2>1. \A v : Set(phase, t, v)[t] = v
    BY DEF TurnTypes, ResponseTypes, Set
  <2> QED BY <2>1 DEF Ended, Respond, Refuse, SaveQuestion, LookUpTitle, NameChat, PassOn, SaveAnswer, Lose
<1> QED BY <1>1, <1>2 DEF TextKept, Ended, Over, graph, reader

\* A step of one turn leaves the rows of the others as they are.
LEMMA OthersSame ==
  ASSUME TurnTypes, NEW u \in Turns, Step(u), NEW t \in Turns, t # u
  PROVE  /\ node'[t] = node[t] /\ verdict'[t] = verdict[t] /\ produced'[t] = produced[t]
         /\ unread'[t] = unread[t] /\ queue'[t] = queue[t]
         /\ reading'[t] = reading[t] /\ open'[t] = open[t] /\ meta'[t] = meta[t]
         /\ reply'[t] = reply[t] /\ drawing'[t] = drawing[t]
         /\ phase'[t] = phase[t] /\ sent'[t] = sent[t]
         /\ \/ messages' = messages
            \/ \E role, text, picture : messages' = Append(messages, Message(u, role, text, picture))
<1>1. \A v : /\ Set(node, u, v)[t] = node[t] /\ Set(verdict, u, v)[t] = verdict[t]
             /\ Set(produced, u, v)[t] = produced[t] /\ Set(unread, u, v)[t] = unread[t]
             /\ Set(queue, u, v)[t] = queue[t] /\ Set(reading, u, v)[t] = reading[t]
             /\ Set(open, u, v)[t] = open[t] /\ Set(meta, u, v)[t] = meta[t]
             /\ Set(reply, u, v)[t] = reply[t] /\ Set(drawing, u, v)[t] = drawing[t]
             /\ Set(phase, u, v)[t] = phase[t] /\ Set(sent, u, v)[t] = sent[t]
  BY DEF TurnTypes, GraphTypes, ReaderTypes, ResponseTypes, Set
<1>2. CASE Graph(u)
  <2>1. UNCHANGED <<reader, queue, response>>
    BY <1>2 DEF Graph
  <2>2. node'[t] = node[t] /\ verdict'[t] = verdict[t] /\ produced'[t] = produced[t] /\ unread'[t] = unread[t]
    <3>1. \A next, events : GoTo(u, next, events) => node'[t] = node[t] /\ unread'[t] = unread[t]
      BY <1>1 DEF GoTo, Emit
    <3>2. CASE AlignmentCheck(u)
      BY <1>1, <3>1, <3>2 DEF AlignmentCheck
    <3>3. CASE MemoryLoader(u)
      BY <1>1, <3>1, <3>3 DEF MemoryLoader
    <3>4. CASE Token(u)
      BY <1>1, <3>4 DEF Token, Emit
    <3>5. CASE AgentEnds(u)
      BY <1>1, <3>1, <3>5 DEF AgentEnds
    <3>6. CASE AgentRaises(u)
      BY <1>1, <3>6 DEF AgentRaises, Emit
    <3>7. CASE ToolExecutor(u)
      BY <1>1, <3>1, <3>7 DEF ToolExecutor
    <3>8. CASE MemoryUpdater(u)
      BY <1>1, <3>1, <3>8 DEF MemoryUpdater
    <3> QED BY <1>2, <3>2, <3>3, <3>4, <3>5, <3>6, <3>7, <3>8 DEF Graph
  <2> QED BY <2>1, <2>2 DEF reader, response
<1>3. CASE Read(u)
  <2>1. UNCHANGED <<graph, response>> /\ unread'[t] = unread[t]
    BY <1>1, <1>3 DEF Read
  <2> DEFINE e == Head(unread[u])
  <2>2. PICK x : x = e
    OBVIOUS
  <2>3. ReadLast(u, x) \/ ReadAllowed(u, x) \/ ReadModelEnd(u, x) \/ ReadToolsEnd(u, x) \/ ReadToken(u, x)
    BY <1>3, <2>2 DEF Read
  <2>4. \A events : Put(u, events) => queue'[t] = queue[t]
    BY <1>1 DEF Put
  <2>5. CASE ReadLast(u, x)
    BY <1>1, <2>1, <2>4, <2>5 DEF ReadLast, graph, response
  <2>6. CASE ReadAllowed(u, x)
    BY <1>1, <2>1, <2>6 DEF ReadAllowed, graph, response
  <2>7. CASE ReadModelEnd(u, x)
    BY <1>1, <2>1, <2>4, <2>7 DEF ReadModelEnd, graph, response
  <2>8. CASE ReadToolsEnd(u, x)
    BY <1>1, <2>1, <2>4, <2>8 DEF ReadToolsEnd, graph, response
  <2>9. CASE ReadToken(u, x)
    BY <1>1, <2>1, <2>4, <2>9 DEF ReadToken, graph, response
  <2> QED BY <2>3, <2>5, <2>6, <2>7, <2>8, <2>9
<1>4. CASE Respond(u) \/ (Lose(u) /\ UNCHANGED <<graph, unread, reader>>)
  <2>1. UNCHANGED <<graph, unread, reader>>
    BY <1>4 DEF Respond
  <2>2. phase'[t] = phase[t] /\ sent'[t] = sent[t] /\ queue'[t] = queue[t]
    BY <1>1, <1>4 DEF Respond, Refuse, SaveQuestion, LookUpTitle, NameChat, PassOn, SaveAnswer, Lose, Send
  <2>3. \/ messages' = messages
        \/ \E role, text, picture : messages' = Append(messages, Message(u, role, text, picture))
    BY <1>4 DEF Respond, Refuse, SaveQuestion, LookUpTitle, NameChat, PassOn, SaveAnswer, Lose
  <2> QED BY <2>1, <2>2, <2>3 DEF graph, reader
<1> QED BY <1>2, <1>3, <1>4 DEF Step

TextInv == TurnTypes /\ VerdictInv /\ \A t \in Turns : TextKept(t) /\ Ended(t)

LEMMA TextInit == Init => TextInv
<1> SUFFICES ASSUME Init PROVE TextInv
  OBVIOUS
<1>1. ASSUME NEW t \in Turns PROVE TextKept(t) /\ Ended(t)
  <2>1. /\ unread[t] = <<>> /\ reply[t] = <<>> /\ produced[t] = 0 /\ open[t] = 0
        /\ reading[t] = TRUE /\ phase[t] = "waiting"
    BY DEF Init
  <2>2. Len(unread[t]) = 0 /\ Len(reply[t]) = 0 /\ 1..0 = {}
    BY <2>1
  <2>3. Tokens(unread[t]) = {}
    BY <2>2 DEF Tokens
  <2>4. Complete(open[t], unread[t], reply[t], produced[t])
    BY <2>1, <2>2, <2>3 DEF Complete
  <2>5. Clear(open[t], unread[t], Len(unread[t]) + 1)
    BY <2>1, <2>2 DEF Clear
  <2>6. Ended(t)
    BY <2>1, <2>2 DEF Ended
  <2> QED BY <2>4, <2>5, <2>6 DEF TextKept
<1> QED BY <1>1, TurnTypesInit, VerdictInit DEF TextInv

LEMMA TextStep == TextInv /\ [Next]_vars => TextInv'
<1> SUFFICES ASSUME TextInv, [Next]_vars PROVE TextInv'
  OBVIOUS
<1>1. TurnTypes' /\ VerdictInv'
  BY TurnTypesStep, VerdictStep DEF TextInv
<1>2. ASSUME NEW t \in Turns PROVE TextKept(t)' /\ Ended(t)'
  <2>0. TurnTypes /\ VerdictInv /\ TextKept(t) /\ Ended(t)
    BY DEF TextInv
  <2>1. CASE Graph(t)
    <3>1. PICK events \in Seq(Events) : Emits(t, events)
      BY <2>0, <2>1, GraphEmits
    <3>2. /\ open'[t] = open[t] /\ reply'[t] = reply[t] /\ reading'[t] = reading[t]
          /\ phase'[t] = phase[t]
      BY <2>1 DEF Graph, reader, response
    <3> QED BY <2>0, <3>1, <3>2, GraphKeepsText, GraphKeepsEnded
  <2>2. CASE Read(t)
    BY <2>0, <2>2, ReadKeepsText, ReadKeepsEnded
  <2>3. CASE Respond(t) \/ (Lose(t) /\ UNCHANGED <<graph, unread, reader>>)
    BY <2>0, <2>3, RespondKeepsEnded
  <2>4. ASSUME NEW u \in Turns, u # t, Step(u) PROVE TextKept(t)' /\ Ended(t)'
    <3>1. /\ node'[t] = node[t] /\ verdict'[t] = verdict[t] /\ produced'[t] = produced[t]
          /\ unread'[t] = unread[t] /\ reading'[t] = reading[t] /\ open'[t] = open[t]
          /\ reply'[t] = reply[t] /\ phase'[t] = phase[t]
      BY <2>0, <2>4, OthersSame
    <3> QED BY <2>0, <3>1 DEF TextKept, Ended, Over
  <2>5. CASE UNCHANGED vars
    BY <2>0, <2>5 DEF TextKept, Ended, Over, vars, graph, reader, response
  <2> QED BY <2>1, <2>2, <2>3, <2>4, <2>5 DEF Next, Step
<1> QED BY <1>1, <1>2 DEF TextInv

\* A turn is answered when its graph is over, and the reply it saves has every
\* chunk of every model call of the turn, in the order they were produced,
\* however far the graph was ahead of its reader.
THEOREM NothingIsLeftOut == Spec => []NothingLeftOut
<1>1. TextInv => NothingLeftOut
  <2> SUFFICES ASSUME TextInv, NEW t \in Turns, phase[t] = "answered"
               PROVE  Over(t) /\ reply[t] = [k \in 1..produced[t] |-> k]
    BY DEF NothingLeftOut
  <2>1. /\ TurnTypes /\ TextKept(t) /\ Ended(t) /\ Judged(t)
    BY DEF TextInv, VerdictInv
  <2>2. verdict[t] # "refused"
    BY <2>1 DEF Judged, NothingSaved
  <2>3. Over(t) /\ unread[t] = <<>>
    BY <2>1, <2>2 DEF Ended
  <2>4. Tokens(unread[t]) = {}
    <3>1. Len(unread[t]) = 0 /\ 1..0 = {}
      BY <2>3
    <3> QED BY <3>1 DEF Tokens
  <2>5. reply[t] \in Seq(Nat) /\ produced[t] \in Nat
    BY <2>1 DEF TurnTypes, GraphTypes, ReaderTypes
  <2>6. Len(reply[t]) = produced[t] /\ \A k \in 1..produced[t] : reply[t][k] = k
    <3>1. /\ Len(reply[t]) <= produced[t] /\ \A k \in 1..Len(reply[t]) : reply[t][k] = k
          /\ \A m \in 1..produced[t] : m <= Len(reply[t])
      BY <2>1, <2>4 DEF TextKept, Complete
    <3>2. Len(reply[t]) \in Nat
      BY <2>5
    <3> QED BY <2>5, <3>1, <3>2
  <2> QED BY <2>3, <2>5, <2>6
<1> QED BY <1>1, TextInit, TextStep, PTL DEF Spec

-----------------------------------------------------------------------------
(* The answer is what the client was shown: the reply and the drawing are  *)
(* at all times those of the events that were sent and that are in the     *)
(* queue, and the answer is saved when only the sentinel is left there.    *)

KindSet(kind) == [kind : {kind}, calls : Seq(Calls), n : Nat]

\* The text and the drawing of a list of events.
Text(s) == Keep(s, KindSet("token"))
Pictures(s) == Keep(s, KindSet("drawing"))
Numbers(s) == [k \in 1..Len(s) |-> s[k].n]
Picture(s) == IF s = <<>> THEN NoDrawing ELSE Last(s).calls[1]

\* What the client got and what is still on its way.
Stream(t) == sent[t] \o queue[t]

IsAnswer(m, t) == m.turn = t /\ m.role = "assistant"
Fits(m, s) ==
  m.reply = Content(Numbers(Text(s))) /\ m.drawing = Elements(Picture(Pictures(s)))
NoneLast(s) == \A i \in 1..Len(s) : s[i] = None => i = Len(s)
HasNone(s) == \E i \in 1..Len(s) : s[i] = None

Live == {"waiting", "saved", "naming", "streaming"}

\* What has been shown, or is about to be, makes up the answer so far.
Shown(t) ==
  /\ phase[t] \in Live =>
       reply[t] = Numbers(Text(Stream(t))) /\ drawing[t] = Picture(Pictures(Stream(t)))
  /\ NoneLast(queue[t]) /\ (HasNone(queue[t]) => ~reading[t])
  /\ \A i \in 1..Len(messages) :
       IsAnswer(messages[i], t) => phase[t] = "answered" /\ Fits(messages[i], sent[t])

LEMMA KindSets ==
  /\ \A kind : KindSet(kind) \cap KindSet(kind) = KindSet(kind)
  /\ \A k, l : k # l => KindSet(k) \cap KindSet(l) = {}
  /\ \A kind \in Kinds : KindSet(kind) \subseteq Events
  /\ \A kind : \A calls \in Seq(Calls), n \in Nat : Event(kind, calls, n) \in KindSet(kind)
  /\ \A kind : \A e \in KindSet(kind) : e.kind = kind
  /\ \A kind : \A e \in Events : e.kind = kind => e \in KindSet(kind)
BY DEF KindSet, Events, Event

\* Events of one kind in a stream.
LEMMA OfKind ==
  ASSUME NEW s \in Seq(Events), NEW kind, NEW more \in Seq(KindSet(kind)), NEW other
  PROVE  Keep(more, KindSet(other)) = IF other = kind THEN more ELSE <<>>
<1>1. CASE other = kind
  BY <1>1, KeepAll
<1>2. CASE other # kind
  <2>1. KindSet(kind) \cap KindSet(other) = {}
    BY <1>2, KindSets
  <2> QED BY <1>2, <2>1, KeepNothing
<1> QED BY <1>1, <1>2

LEMMA KeptEvents ==
  ASSUME NEW s \in Seq(Events), NEW more \in Seq(Events)
  PROVE  /\ Text(s \o more) = Text(s) \o Text(more)
         /\ Pictures(s \o more) = Pictures(s) \o Pictures(more)
         /\ Text(s) \in Seq(KindSet("token")) /\ Pictures(s) \in Seq(KindSet("drawing"))
<1>1. Text(s \o more) = Text(s) \o Text(more) /\ Pictures(s \o more) = Pictures(s) \o Pictures(more)
  BY KeepConcat DEF Text, Pictures
<1>2. \A kind \in Kinds : Events \cap KindSet(kind) = KindSet(kind)
  BY KindSets
<1>3. Events \cap KindSet("token") = KindSet("token") /\ Events \cap KindSet("drawing") = KindSet("drawing")
  BY <1>2 DEF Kinds
<1>4. Text(s) \in Seq(Events \cap KindSet("token")) /\ Pictures(s) \in Seq(Events \cap KindSet("drawing"))
  BY KeepIsSeq DEF Text, Pictures
<1> QED BY <1>1, <1>3, <1>4

LEMMA NumbersConcat ==
  ASSUME NEW K, NEW s \in Seq(KindSet(K)), NEW more \in Seq(KindSet(K))
  PROVE  /\ Numbers(s) \in Seq(Nat)
         /\ Numbers(s \o more) = Numbers(s) \o Numbers(more)
<1>1. \A q \in Seq(KindSet(K)) : /\ Numbers(q) \in Seq(Nat) /\ Len(Numbers(q)) = Len(q)
                                 /\ \A i \in 1..Len(q) : Numbers(q)[i] = q[i].n
  <2>1. \A q \in Seq(KindSet(K)) : \A i \in 1..Len(q) : q[i].n \in Nat
    <3>1. \A e \in KindSet(K) : e.n \in Nat
      BY DEF KindSet
    <3> HIDE DEF KindSet
    <3> QED BY <3>1, ElementOfSeq
  <2> QED BY <2>1 DEF Numbers
<1>2. /\ s \o more \in Seq(KindSet(K)) /\ Len(s \o more) = Len(s) + Len(more)
      /\ \A i \in 1..Len(s) : (s \o more)[i] = s[i]
      /\ \A i \in (Len(s) + 1)..(Len(s) + Len(more)) : (s \o more)[i] = more[i - Len(s)]
  OBVIOUS
<1> DEFINE a == Numbers(s)
           b == Numbers(more)
           c == Numbers(s \o more)
<1>3. /\ a \in Seq(Nat) /\ b \in Seq(Nat) /\ c \in Seq(Nat)
      /\ Len(a) = Len(s) /\ Len(b) = Len(more) /\ Len(c) = Len(s) + Len(more)
      /\ \A i \in 1..Len(s) : c[i] = a[i]
      /\ \A i \in (Len(s) + 1)..(Len(s) + Len(more)) : c[i] = b[i - Len(s)]
  <2>1. \A i \in 1..Len(s) : i \in 1..Len(s \o more)
    BY <1>2
  <2>2. \A i \in (Len(s) + 1)..(Len(s) + Len(more)) : i \in 1..Len(s \o more) /\ i - Len(s) \in 1..Len(more)
    BY <1>2
  <2>3. /\ a \in Seq(Nat) /\ b \in Seq(Nat) /\ c \in Seq(Nat)
        /\ Len(a) = Len(s) /\ Len(b) = Len(more) /\ Len(c) = Len(s) + Len(more)
    BY <1>1, <1>2
  <2>4. /\ \A i \in 1..Len(s) : a[i] = s[i].n
        /\ \A i \in 1..Len(more) : b[i] = more[i].n
        /\ \A i \in 1..Len(s \o more) : c[i] = (s \o more)[i].n
    BY <1>1, <1>2
  <2> HIDE DEF a, b, c
  <2>5. \A i \in 1..Len(s) : c[i] = a[i]
    BY <1>2, <2>1, <2>4
  <2>6. \A i \in (Len(s) + 1)..(Len(s) + Len(more)) : c[i] = b[i - Len(s)]
    BY <1>2, <2>2, <2>4
  <2> QED BY <2>3, <2>5, <2>6
<1> HIDE DEF a, b, c
<1>4. c = a \o b
  <2>1. Len(a \o b) = Len(c) /\ a \o b \in Seq(Nat)
    <3>1. a \o b \in Seq(Nat) /\ Len(a \o b) = Len(a) + Len(b)
      BY <1>3, ConcatProperties
    <3> QED BY <1>3, <3>1
  <2>2. \A i \in 1..Len(c) : c[i] = (a \o b)[i]
    <3>1. ASSUME NEW i \in 1..Len(c) PROVE c[i] = (a \o b)[i]
      <4>1. CASE i \in 1..Len(s)
        BY <1>3, <4>1
      <4>2. CASE i \in (Len(s) + 1)..(Len(s) + Len(more))
        BY <1>3, <4>2, SMTT(40)
      <4>3. Len(s) \in Nat /\ Len(more) \in Nat
        OBVIOUS
      <4> QED BY <1>3, <4>1, <4>2, <4>3
    <3> QED BY <3>1
  <2> QED BY <1>3, <2>1, <2>2, SeqEqual
<1> QED BY <1>3, <1>4 DEF a, b, c

LEMMA PictureConcat ==
  ASSUME NEW K, NEW s \in Seq(KindSet(K)), NEW more \in Seq(KindSet(K))
  PROVE  Picture(s \o more) = IF more = <<>> THEN Picture(s) ELSE Picture(more)
<1>1. CASE more = <<>>
  <2>1. s \o more = s
    BY <1>1
  <2> QED BY <1>1, <2>1
<1>2. CASE more # <<>>
  <2>1. Len(more) \in Nat /\ Len(more) > 0 /\ Len(s) \in Nat
    BY <1>2, EmptySeq
  <2>2. Len(s \o more) = Len(s) + Len(more) /\ s \o more # <<>>
    BY <2>1
  <2>3. (s \o more)[Len(s) + Len(more)] = more[Len(more)]
    BY <2>1
  <2>4. Last(s \o more) = Last(more)
    BY <2>2, <2>3 DEF Last
  <2> QED BY <1>2, <2>2, <2>4 DEF Picture
<1> QED BY <1>1, <1>2

\* What reading an event puts into the queue goes into the answer.
Puts(t, more) ==
  /\ queue'[t] = queue[t] \o more
  /\ reply'[t] = reply[t] \o Numbers(Text(more))
  /\ drawing'[t] = IF Pictures(more) = <<>> THEN drawing[t] ELSE Picture(Pictures(more))
  /\ NoneLast(more) /\ (HasNone(more) => ~reading'[t])

LEMMA NoText ==
  ASSUME NEW r \in Seq(Nat)
  PROVE  r \o Numbers(<<>>) = r /\ Picture(<<>>) = NoDrawing
<1>1. Len(<<>>) = 0 /\ 1..0 = {}
  OBVIOUS
<1>2. Numbers(<<>>) = <<>>
  BY <1>1 DEF Numbers
<1> QED BY <1>2 DEF Picture

LEMMA NoneKind == None.kind = "none" /\ None \in Events
BY PlainIn, PlainKind DEF None, Kinds

\* Events of one kind that is not that of the sentinel.
LEMMA OneKind ==
  ASSUME NEW kind \in Kinds, kind # "none", NEW more \in Seq(KindSet(kind))
  PROVE  /\ more \in Seq(Events) /\ NoneLast(more) /\ ~HasNone(more)
         /\ kind # "token" => Text(more) = <<>>
         /\ kind = "token" => Text(more) = more
         /\ kind # "drawing" => Pictures(more) = <<>>
         /\ kind = "drawing" => Pictures(more) = more
<1>1. more \in Seq(Events)
  BY KindSets, SeqMonotonic
<1>2. \A i \in 1..Len(more) : more[i] # None
  <2>1. \A i \in 1..Len(more) : more[i].kind = kind
    <3>1. \A i \in 1..Len(more) : more[i] \in KindSet(kind)
      BY ElementOfSeq
    <3> QED BY <3>1, KindSets
  <2> QED BY <2>1, NoneKind
<1>3. \A other : Keep(more, KindSet(other)) = IF other = kind THEN more ELSE <<>>
  BY <1>1, OfKind
<1> QED BY <1>1, <1>2, <1>3 DEF NoneLast, HasNone, Text, Pictures

LEMMA NothingPut ==
  /\ <<>> \in Seq(Events) /\ Text(<<>>) = <<>> /\ Pictures(<<>>) = <<>>
  /\ NoneLast(<<>>) /\ ~HasNone(<<>>)
<1>1. 1..Len(<<>>) = {} /\ <<>> \in Seq(Events)
  OBVIOUS
<1> QED BY <1>1, KeepEmpty DEF Text, Pictures, NoneLast, HasNone

LEMMA ClosingPuts ==
  ASSUME NEW kind
  PROVE  /\ Closing(kind) \in Seq(Events) /\ Text(Closing(kind)) = <<>>
         /\ Pictures(Closing(kind)) = <<>> /\ NoneLast(Closing(kind))
<1> DEFINE c == Closing(kind)
           R == KindSet("error") \cup KindSet("none")
           x == Plain("error")
<1>1. /\ x \in KindSet("error") /\ None \in KindSet("none") /\ x \in Events /\ x # None
      /\ R \subseteq Events
  <2>1. x \in Events /\ x.kind = "error" /\ "error" \in Kinds /\ "none" \in Kinds
    BY PlainIn, PlainKind DEF Kinds
  <2>2. x \in KindSet("error") /\ None \in KindSet("none")
    BY <2>1, NoneKind, KindSets
  <2> QED BY <2>1, <2>2, NoneKind, KindSets
<1>2. R \cap KindSet("token") = {} /\ R \cap KindSet("drawing") = {}
  BY KindSets
<1>3. c = <<x, None>> \/ c = <<None>>
  BY DEF Closing
<1> HIDE DEF c, R, x
<1>4. c \in Seq(R) /\ c \in Seq(Events)
  <2>1. x \in R /\ None \in R
    BY <1>1 DEF R
  <2>2. <<x, None>> \in Seq(R) /\ <<None>> \in Seq(R)
    BY <2>1
  <2> QED BY <1>1, <1>3, <2>2, SeqMonotonic
<1>5. Text(c) = <<>> /\ Pictures(c) = <<>>
  BY <1>2, <1>4, KeepNothing DEF Text, Pictures
<1>6. NoneLast(c)
  <2>1. CASE c = <<x, None>>
    <3>1. Len(c) = 2 /\ c[1] = x /\ c[2] = None /\ 1..2 = {1, 2}
      BY <2>1
    <3> QED BY <1>1, <3>1 DEF NoneLast
  <2>2. CASE c = <<None>>
    <3>1. Len(c) = 1 /\ 1..1 = {1}
      BY <2>2
    <3> QED BY <3>1 DEF NoneLast
  <2> QED BY <1>3, <2>1, <2>2
<1> QED BY <1>4, <1>5, <1>6 DEF c

LEMMA ShowsPuts ==
  ASSUME NEW kind \in Kinds, NEW shown \in Seq(Calls)
  PROVE  /\ Shows(kind, shown) \in Seq(KindSet(kind))
         /\ shown # <<>> => Shows(kind, shown) # <<>> /\ Picture(Shows(kind, shown)) = Last(shown)
         /\ shown = <<>> => Shows(kind, shown) = <<>>
<1>1. Shows(kind, shown) \in Seq(KindSet(kind)) /\ Len(Shows(kind, shown)) = Len(shown)
  BY ShowsTypes DEF KindSet
<1>2. CASE shown # <<>>
  <2>1. Len(shown) \in 1..Len(shown)
    BY <1>2, EmptySeq
  <2>2. Shows(kind, shown)[Len(shown)] = Event(kind, <<shown[Len(shown)]>>, 0)
    BY <2>1 DEF Shows
  <2>3. Event(kind, <<shown[Len(shown)]>>, 0).calls[1] = shown[Len(shown)]
    BY DEF Event
  <2>4. Shows(kind, shown) # <<>>
    BY <1>1, <2>1
  <2> QED BY <1>1, <1>2, <2>2, <2>3, <2>4 DEF Picture, Last
<1>3. CASE shown = <<>>
  BY <1>1, <1>3, EmptySeq
<1> QED BY <1>1, <1>2, <1>3

LEMMA ReadPuts ==
  ASSUME TurnTypes, NEW t \in Turns, Read(t)
  PROVE  \E more \in Seq(Events) : Puts(t, more)
<1> DEFINE e == Head(unread[t])
<1>1. /\ unread[t] \in Seq(Events) /\ unread[t] # <<>> /\ reply[t] \in Seq(Nat)
      /\ queue[t] \in Seq(Events) /\ meta[t] \in Seq(Calls)
  BY DEF TurnTypes, ReaderTypes, Read
<1>2. e \in Events
  BY <1>1, TailOf
<1>3. \A v : /\ Set(queue, t, v)[t] = v /\ Set(reply, t, v)[t] = v /\ Set(drawing, t, v)[t] = v
             /\ Set(reading, t, v)[t] = v
  BY DEF TurnTypes, ReaderTypes, Set
<1>4. \A more : Put(t, more) => queue'[t] = queue[t] \o more
  BY <1>3 DEF Put
<1>5. reply[t] \o Numbers(<<>>) = reply[t]
  BY <1>1, NoText
<1>6. queue[t] \o <<>> = queue[t]
  BY <1>1
<1> HIDE DEF e
<1>7. CASE ReadLast(t, e)
  <2>1. Closing(e.kind) \in Seq(Events) /\ Text(Closing(e.kind)) = <<>>
         /\ Pictures(Closing(e.kind)) = <<>> /\ NoneLast(Closing(e.kind))
    BY ClosingPuts
  <2>2. Put(t, Closing(e.kind)) /\ ~reading'[t] /\ reply'[t] = reply[t] /\ drawing'[t] = drawing[t]
    BY <1>3, <1>7 DEF ReadLast
  <2>3. Puts(t, Closing(e.kind))
    BY <1>4, <1>5, <2>1, <2>2 DEF Puts
  <2> QED BY <2>1, <2>3
<1>8. CASE ReadAllowed(t, e)
  <2>1. UNCHANGED <<queue, reply, drawing>>
    BY <1>8 DEF ReadAllowed
  <2>2. Puts(t, <<>>)
    BY <1>5, <1>6, <2>1, NothingPut DEF Puts
  <2> QED BY <2>2, NothingPut
<1>9. CASE ReadModelEnd(t, e)
  <2> DEFINE shown == Keep(e.calls, Calls \ RouteCalls)
  <2>1. shown \in Seq(Calls)
    BY <1>2, KeepIsSeq DEF Events
  <2>2. Put(t, Shows("tool_call", shown)) /\ UNCHANGED <<reply, drawing>>
    BY <1>9 DEF ReadModelEnd, Shows
  <2> HIDE DEF shown
  <2>3. Shows("tool_call", shown) \in Seq(KindSet("tool_call")) /\ "tool_call" \in Kinds
    BY <2>1, ShowsPuts DEF Kinds
  <2> DEFINE more == Shows("tool_call", shown)
  <2> HIDE DEF more
  <2>4. more \in Seq(Events) /\ NoneLast(more) /\ ~HasNone(more) /\ Text(more) = <<>> /\ Pictures(more) = <<>>
    BY <2>3, OneKind DEF more
  <2>5. Puts(t, more)
    BY <1>4, <1>5, <2>2, <2>4 DEF Puts, more
  <2> QED BY <2>4, <2>5
<1>10. CASE ReadToolsEnd(t, e)
  <2>1. CASE open[t] = 0
    <3>1. UNCHANGED <<queue, reply, drawing>>
      BY <1>10, <2>1 DEF ReadToolsEnd
    <3>2. Puts(t, <<>>)
      BY <1>5, <1>6, <3>1, NothingPut DEF Puts
    <3> QED BY <3>2, NothingPut
  <2>2. CASE open[t] # 0
    <3> DEFINE shown == Keep(e.calls, WhiteboardCalls \cap ToSet(meta[t]))
               more == Shows("drawing", shown)
    <3>1. shown \in Seq(Calls)
      BY <1>2, KeepIsSeq DEF Events
    <3>2. /\ Put(t, more) /\ UNCHANGED reply
          /\ drawing' = IF shown = <<>> THEN drawing ELSE Set(drawing, t, Last(shown))
      BY <1>10, <2>2 DEF ReadToolsEnd, Shows
    <3> HIDE DEF shown
    <3>3. /\ more \in Seq(KindSet("drawing")) /\ "drawing" \in Kinds
          /\ shown # <<>> => more # <<>> /\ Picture(more) = Last(shown)
          /\ shown = <<>> => more = <<>>
      BY <3>1, ShowsPuts DEF Kinds
    <3> HIDE DEF more
    <3>4. more \in Seq(Events) /\ NoneLast(more) /\ ~HasNone(more) /\ Text(more) = <<>> /\ Pictures(more) = more
      BY <3>3, OneKind
    <3>5. drawing'[t] = IF more = <<>> THEN drawing[t] ELSE Picture(more)
      BY <1>3, <3>2, <3>3
    <3>6. Puts(t, more)
      BY <1>4, <1>5, <3>2, <3>4, <3>5 DEF Puts
    <3> QED BY <3>4, <3>6
  <2> QED BY <2>1, <2>2
<1>11. CASE ReadToken(t, e)
  <2>1. CASE open[t] > 0
    <3>1. UNCHANGED <<queue, reply, drawing>>
      BY <1>11, <2>1 DEF ReadToken
    <3>2. Puts(t, <<>>)
      BY <1>5, <1>6, <3>1, NothingPut DEF Puts
    <3> QED BY <3>2, NothingPut
  <2>2. CASE ~(open[t] > 0)
    <3>1. Put(t, <<e>>) /\ reply'[t] = Append(reply[t], e.n) /\ UNCHANGED drawing /\ e.kind = "token"
      BY <1>3, <1>11, <2>2 DEF ReadToken
    <3>2. <<e>> \in Seq(KindSet("token")) /\ "token" \in Kinds
      <4>1. e \in KindSet("token")
        BY <1>2, <3>1, KindSets
      <4> QED BY <4>1, OneIsSeq DEF Kinds
    <3> DEFINE more == <<e>>
    <3>3. Numbers(more) = <<e.n>>
      <4>1. Len(more) = 1 /\ more[1] = e
        OBVIOUS
      <4> HIDE DEF more
      <4> QED BY <4>1 DEF Numbers
    <3>4. Append(reply[t], e.n) = reply[t] \o <<e.n>>
      <4>1. e.n \in Nat
        BY <1>2 DEF Events
      <4> QED BY <1>1, <4>1, AppendIsConcat
    <3> HIDE DEF more
    <3>5. more \in Seq(Events) /\ NoneLast(more) /\ ~HasNone(more) /\ Text(more) = more /\ Pictures(more) = <<>>
      BY <3>2, OneKind DEF more
    <3>6. Puts(t, more)
      BY <1>4, <3>1, <3>3, <3>4, <3>5 DEF Puts, more
    <3> QED BY <3>5, <3>6
  <2> QED BY <2>1, <2>2
<1>12. ReadLast(t, e) \/ ReadAllowed(t, e) \/ ReadModelEnd(t, e) \/ ReadToolsEnd(t, e) \/ ReadToken(t, e)
  BY DEF Read, e
<1> QED BY <1>7, <1>8, <1>9, <1>10, <1>11, <1>12

LEMMA StreamTypes ==
  ASSUME TurnTypes, NEW t \in Turns
  PROVE  /\ sent[t] \in Seq(Events) /\ queue[t] \in Seq(Events) /\ Stream(t) \in Seq(Events)
         /\ reply[t] \in Seq(Nat) /\ messages \in Seq(Rows)
BY ConcatProperties DEF TurnTypes, ReaderTypes, ResponseTypes, Stream

LEMMA NoneLastConcat ==
  ASSUME NEW s \in Seq(Events), NEW more \in Seq(Events), ~HasNone(s), NoneLast(more)
  PROVE  NoneLast(s \o more) /\ (HasNone(s \o more) => HasNone(more))
<1> DEFINE z == s \o more
           n == Len(s)
           k == Len(more)
<1>1. /\ n \in Nat /\ k \in Nat /\ Len(z) = n + k /\ \A i \in 1..n : z[i] = s[i]
      /\ \A i \in (n + 1)..(n + k) : z[i] = more[i - n] /\ i - n \in 1..k
  BY Appended
<1> HIDE DEF z, n, k
<1>2. ASSUME NEW i \in 1..Len(z), z[i] = None
      PROVE  i - n \in 1..k /\ more[i - n] = None /\ i - n = k /\ i = Len(z)
  <2>1. i \notin 1..n
    BY <1>1, <1>2 DEF HasNone, n
  <2>2. i \in (n + 1)..(n + k)
    BY <1>1, <2>1
  <2>3. i - n \in 1..k /\ more[i - n] = None
    BY <1>1, <1>2, <2>2
  <2>4. i - n = k
    BY <2>3 DEF NoneLast, k
  <2> QED BY <1>1, <2>3, <2>4
<1>3. NoneLast(z) /\ (HasNone(z) => HasNone(more))
  BY <1>2 DEF NoneLast, HasNone, k
<1> QED BY <1>3 DEF z

LEMMA ReadKeepsShown ==
  ASSUME TurnTypes, NEW t \in Turns, Shown(t), Read(t)
  PROVE  Shown(t)'
<1>1. PICK more \in Seq(Events) : Puts(t, more)
  BY ReadPuts
<1>2. /\ sent[t] \in Seq(Events) /\ queue[t] \in Seq(Events) /\ Stream(t) \in Seq(Events)
      /\ reply[t] \in Seq(Nat) /\ reading[t] /\ UNCHANGED <<phase, sent, messages>>
  BY StreamTypes DEF Read, response
<1>3. Stream(t)' = Stream(t) \o more
  <2> DEFINE s == sent[t]
             q == queue[t]
  <2>1. /\ s \in Seq(Events) /\ q \in Seq(Events) /\ Stream(t) = s \o q
        /\ Stream(t)' = s \o (q \o more)
    BY <1>1, <1>2 DEF Stream, Puts
  <2> HIDE DEF s, q
  <2>2. s \o (q \o more) = (s \o q) \o more
    BY <2>1, ConcatAssociative, SMTT(40)
  <2> QED BY <2>1, <2>2
<1>4. ~HasNone(queue[t])
  BY <1>2 DEF Shown
<1>5. NoneLast(queue'[t]) /\ (HasNone(queue'[t]) => ~reading'[t])
  BY <1>1, <1>2, <1>4, NoneLastConcat DEF Puts
<1>6. ASSUME phase[t] \in Live
      PROVE  reply'[t] = Numbers(Text(Stream(t)')) /\ drawing'[t] = Picture(Pictures(Stream(t)'))
  <2> DEFINE s == Stream(t)
  <2>1. reply[t] = Numbers(Text(s)) /\ drawing[t] = Picture(Pictures(s)) /\ s \in Seq(Events)
    BY <1>2, <1>6 DEF Shown, Live
  <2> HIDE DEF s
  <2>2. /\ Text(s \o more) = Text(s) \o Text(more)
        /\ Pictures(s \o more) = Pictures(s) \o Pictures(more)
        /\ Text(s) \in Seq(KindSet("token")) /\ Pictures(s) \in Seq(KindSet("drawing"))
        /\ Text(more) \in Seq(KindSet("token")) /\ Pictures(more) \in Seq(KindSet("drawing"))
    BY <2>1, KeptEvents
  <2>3. Numbers(Text(s) \o Text(more)) = Numbers(Text(s)) \o Numbers(Text(more))
    BY <2>2, NumbersConcat
  <2>4. Picture(Pictures(s) \o Pictures(more)) =
          IF Pictures(more) = <<>> THEN Picture(Pictures(s)) ELSE Picture(Pictures(more))
    BY <2>2, PictureConcat
  <2>5. Stream(t)' = s \o more
    BY <1>3 DEF s
  <2> QED BY <1>1, <2>1, <2>2, <2>3, <2>4, <2>5 DEF Puts
<1> QED BY <1>2, <1>5, <1>6 DEF Shown, Live

\* Events that are neither text nor drawings are not heard.
LEMMA NotHeard ==
  ASSUME NEW s \in Seq(Events), NEW kind \in Kinds, kind \notin {"token", "drawing"}
  PROVE  /\ s \o <<Plain(kind)>> \in Seq(Events) /\ <<Plain(kind)>> \in Seq(Events)
         /\ Text(s \o <<Plain(kind)>>) = Text(s) /\ Pictures(s \o <<Plain(kind)>>) = Pictures(s)
<1> DEFINE x == Plain(kind)
<1>1. x \in Events /\ x \in KindSet(kind)
  BY PlainIn, PlainKind, KindSets
<1> HIDE DEF x
<1>2. <<x>> \in Seq(Events) /\ <<x>> \in Seq(KindSet(kind))
  BY <1>1, OneIsSeq
<1>3. Text(<<x>>) = <<>> /\ Pictures(<<x>>) = <<>>
  BY <1>2, OfKind DEF Text, Pictures
<1>4. /\ Text(s \o <<x>>) = Text(s) \o <<>> /\ Pictures(s \o <<x>>) = Pictures(s) \o <<>>
      /\ Text(s) \in Seq(KindSet("token")) /\ Pictures(s) \in Seq(KindSet("drawing"))
  BY <1>2, <1>3, KeptEvents
<1>5. s \o <<x>> \in Seq(Events)
  BY <1>2, ConcatProperties
<1>6. Text(s) \o <<>> = Text(s) /\ Pictures(s) \o <<>> = Pictures(s)
  BY <1>4
<1> QED BY <1>2, <1>4, <1>5, <1>6 DEF x

\* Rows of a chat that gets one more.
LEMMA OneRowMore ==
  ASSUME NEW S, NEW rows \in Seq(S), NEW m \in S
  PROVE  /\ Len(Append(rows, m)) = Len(rows) + 1
         /\ \A i \in 1..Len(Append(rows, m)) :
              Append(rows, m)[i] = m \/ (i \in 1..Len(rows) /\ Append(rows, m)[i] = rows[i])
OBVIOUS

LEMMA RespondKeepsShown ==
  ASSUME TurnTypes, TurnTypes', NEW t \in Turns, Shown(t),
         Respond(t) \/ (Lose(t) /\ UNCHANGED <<graph, unread, reader>>)
  PROVE  Shown(t)'
<1> DEFINE NoAnswer == \A i \in 1..Len(messages) : ~IsAnswer(messages[i], t)
           Whole(s) == reply[t] = Numbers(Text(s)) /\ drawing[t] = Picture(Pictures(s))
<1>1. /\ sent[t] \in Seq(Events) /\ queue[t] \in Seq(Events) /\ Stream(t) \in Seq(Events)
      /\ messages \in Seq(Rows) /\ messages' \in Seq(Rows)
      /\ UNCHANGED <<reply, drawing, reading>>
  BY StreamTypes DEF Respond, reader, TurnTypes, ResponseTypes
<1>2. \A v : /\ Set(phase, t, v)[t] = v /\ Set(sent, t, v)[t] = v /\ Set(queue, t, v)[t] = v
  BY DEF TurnTypes, ResponseTypes, Set
<1>3. phase[t] \in Live => NoAnswer /\ Whole(Stream(t))
  BY DEF Shown, Live
<1>4. NoneLast(queue[t]) /\ (HasNone(queue[t]) => ~reading[t])
  BY DEF Shown, Live
<1>5. CASE Refuse(t)
  <2>1. phase'[t] = "refused" /\ UNCHANGED <<messages, queue>> /\ NoAnswer
    BY <1>2, <1>3, <1>5 DEF Refuse, Live
  <2> QED BY <1>1, <1>4, <2>1 DEF Shown, Live
<1>6. CASE SaveQuestion(t)
  <2> DEFINE m == Message(t, "user", <<>>, NoDrawing)
  <2>1. phase'[t] = "saved" /\ UNCHANGED <<sent, queue>> /\ NoAnswer /\ Whole(Stream(t))
        /\ messages' = Append(messages, m)
    BY <1>2, <1>3, <1>6 DEF SaveQuestion, MaySave, Live
  <2>2. m \in Rows /\ ~IsAnswer(m, t)
    <3>1. <<>> \in Seq(Nat)
      OBVIOUS
    <3> QED BY <3>1 DEF Message, Rows, IsAnswer
  <2> HIDE DEF m
  <2>3. \A i \in 1..Len(messages') : ~IsAnswer(messages'[i], t)
    BY <1>1, <2>1, <2>2, OneRowMore
  <2> QED BY <1>1, <1>4, <2>1, <2>3 DEF Shown, Stream
<1>7. CASE LookUpTitle(t)
  <2>1. phase[t] \in Live /\ UNCHANGED <<sent, queue, messages>>
    BY <1>7 DEF LookUpTitle, Live
  <2> QED BY <1>1, <1>3, <1>4, <2>1 DEF Shown, Stream
<1>8. CASE NameChat(t)
  <2>1. phase[t] \in Live /\ UNCHANGED <<queue, messages>>
    BY <1>8 DEF NameChat, Live
  <2>2. sent'[t] = sent[t] \/ sent'[t] = sent[t] \o <<Plain("title")>>
    BY <1>2, <1>8 DEF NameChat, Send
  <2>3. Text(Stream(t)') = Text(Stream(t)) /\ Pictures(Stream(t)') = Pictures(Stream(t))
    <3>1. CASE sent'[t] = sent[t]
      BY <2>1, <3>1 DEF Stream
    <3>2. CASE sent'[t] = sent[t] \o <<Plain("title")>>
      <4> DEFINE s == sent[t]
                 z == s \o <<Plain("title")>>
                 q == queue[t]
      <4>1. s \in Seq(Events) /\ q \in Seq(Events) /\ Stream(t) = s \o q /\ Stream(t)' = z \o q
        BY <1>1, <2>1, <3>2 DEF Stream
      <4>2. z \in Seq(Events) /\ Text(z) = Text(s) /\ Pictures(z) = Pictures(s)
        BY <4>1, NotHeard DEF Kinds
      <4> HIDE DEF s, z, q
      <4>3. /\ Text(z \o q) = Text(z) \o Text(q) /\ Pictures(z \o q) = Pictures(z) \o Pictures(q)
            /\ Text(s \o q) = Text(s) \o Text(q) /\ Pictures(s \o q) = Pictures(s) \o Pictures(q)
        BY <4>1, <4>2, KeptEvents
      <4> QED BY <4>1, <4>2, <4>3
    <3> QED BY <2>2, <3>1, <3>2
  <2> QED BY <1>1, <1>3, <1>4, <2>1, <2>3 DEF Shown, Live
<1>9. CASE PassOn(t)
  <2> DEFINE s == sent[t]
             q == queue[t]
             h == Head(q)
             z == Tail(q)
  <2>1. /\ phase[t] \in Live /\ UNCHANGED <<phase, messages>> /\ q # <<>>
        /\ sent'[t] = s \o <<h>> /\ queue'[t] = z
    BY <1>2, <1>9 DEF PassOn, Send, Live
  <2>2. /\ s \in Seq(Events) /\ q \in Seq(Events) /\ h \in Events /\ z \in Seq(Events)
        /\ Len(q) \in Nat /\ Len(z) = Len(q) - 1
        /\ \A i \in 1..Len(z) : i + 1 \in 1..Len(q) /\ z[i] = q[i + 1]
    BY <1>1, <2>1, TailOf
  <2>3. <<h>> \o z = q /\ <<h>> \in Seq(Events)
    BY <1>1, <2>1
  <2>4. Stream(t)' = Stream(t)
    <3> HIDE DEF s, q, h, z
    <3>1. (s \o <<h>>) \o z = s \o (<<h>> \o z)
      BY <2>2, <2>3, ConcatAssociative
    <3>2. Stream(t)' = (s \o <<h>>) \o z /\ Stream(t) = s \o q
      BY <2>1 DEF Stream, s, q
    <3> QED BY <2>3, <3>1, <3>2
  <2>5. NoneLast(z) /\ (HasNone(z) => HasNone(q))
    <3> HIDE DEF s, q, h, z
    <3>1. NoneLast(q)
      BY <1>4 DEF q
    <3>2. \A i \in 1..Len(z) : z[i] = None => i + 1 \in 1..Len(q) /\ q[i + 1] = None /\ i + 1 = Len(q)
      BY <2>2, <3>1 DEF NoneLast
    <3>3. \A i \in 1..Len(z) : z[i] = None => i = Len(z)
      BY <2>2, <3>2
    <3> QED BY <3>2, <3>3 DEF NoneLast, HasNone
  <2> HIDE DEF z
  <2> QED BY <1>1, <1>3, <1>4, <2>1, <2>4, <2>5 DEF Shown, Live
<1>10. CASE SaveAnswer(t)
  <2> DEFINE m == Message(t, "assistant", Content(reply[t]), Elements(drawing[t]))
             s == sent[t]
             q == queue[t]
  <2>1. /\ phase[t] \in Live /\ phase'[t] = "answered" /\ UNCHANGED queue /\ ~reading[t]
        /\ messages' = Append(messages, m) /\ sent'[t] = s \o <<Plain("done")>>
        /\ q # <<>> /\ Head(q) = None /\ q \in Seq(Events) /\ s \in Seq(Events)
    BY <1>1, <1>2, <1>10 DEF SaveAnswer, Drained, Send, Live
  <2>2. q = <<None>>
    <3>1. 1 \in 1..Len(q) /\ q[1] = None
      BY <2>1, TailOf
    <3>2. Len(q) = 1
      BY <1>4, <3>1 DEF NoneLast
    <3> QED BY <2>1, <3>1, <3>2
  <2>3. Stream(t) = s \o <<Plain("none")>>
    BY <2>2 DEF Stream, None
  <2>4. Text(Stream(t)) = Text(s) /\ Pictures(Stream(t)) = Pictures(s)
    BY <2>1, <2>3, NotHeard, SMTT(40) DEF Kinds
  <2>5. Text(sent'[t]) = Text(s) /\ Pictures(sent'[t]) = Pictures(s)
    BY <2>1, NotHeard DEF Kinds
  <2>6. Whole(Stream(t)) /\ NoAnswer
    BY <1>3, <2>1
  <2>7. Fits(m, sent'[t])
    BY <2>4, <2>5, <2>6 DEF Fits, Message
  <2>8. m \in Rows
    <3>1. reply[t] \in Seq(Nat) /\ drawing[t] \in WhiteboardCalls \cup {NoDrawing}
      BY DEF TurnTypes, ReaderTypes
    <3>2. /\ Content(reply[t]) \in Seq(Nat)
          /\ Elements(drawing[t]) \in WhiteboardCalls \cup {NoDrawing}
      BY <3>1 DEF Content, Elements, Fallback
    <3> QED BY <3>2 DEF Message, Rows
  <2> HIDE DEF m, s, q
  <2>9. \A i \in 1..Len(messages') : IsAnswer(messages'[i], t) => Fits(messages'[i], sent'[t])
    <3>1. \A i \in 1..Len(messages') :
            messages'[i] = m \/ (i \in 1..Len(messages) /\ messages'[i] = messages[i])
      BY <1>1, <2>1, <2>8, OneRowMore
    <3> QED BY <2>6, <2>7, <3>1
  <2> QED BY <1>1, <1>4, <2>1, <2>9 DEF Shown, Live
<1>11. CASE Lose(t)
  <2>1. phase'[t] = "lost" /\ UNCHANGED <<messages, queue>> /\ NoAnswer
    BY <1>2, <1>3, <1>11 DEF Lose, Live
  <2> QED BY <1>1, <1>4, <2>1 DEF Shown, Live
<1> QED BY <1>5, <1>6, <1>7, <1>8, <1>9, <1>10, <1>11 DEF Respond

ShownInv == TurnTypes /\ \A t \in Turns : Shown(t)

LEMMA ShownInit == Init => ShownInv
<1> SUFFICES ASSUME Init PROVE ShownInv
  OBVIOUS
<1>1. ASSUME NEW t \in Turns PROVE Shown(t)
  <2>1. /\ sent[t] = <<>> /\ queue[t] = <<>> /\ messages = <<>> /\ reply[t] = <<>>
        /\ drawing[t] = NoDrawing
    BY DEF Init
  <2>2. <<>> \o <<>> = <<>> /\ 1..Len(<<>>) = {} /\ <<>> \in Seq(Nat) /\ \A s \in Seq(Nat) : <<>> \o s = s
    OBVIOUS
  <2>3. Numbers(<<>>) = <<>> /\ Picture(<<>>) = NoDrawing
    BY <2>2 DEF Numbers, Picture
  <2>4. Stream(t) = <<>> /\ Text(<<>>) = <<>> /\ Pictures(<<>>) = <<>>
    BY <2>1, <2>2, NothingPut DEF Stream
  <2> QED BY <2>1, <2>2, <2>3, <2>4, NothingPut DEF Shown
<1> QED BY <1>1, TurnTypesInit DEF ShownInv

LEMMA ShownStep == ShownInv /\ [Next]_vars => ShownInv'
<1> SUFFICES ASSUME ShownInv, [Next]_vars PROVE ShownInv'
  OBVIOUS
<1>1. TurnTypes'
  BY TurnTypesStep DEF ShownInv
<1>2. ASSUME NEW t \in Turns PROVE Shown(t)'
  <2>0. TurnTypes /\ Shown(t)
    BY DEF ShownInv
  <2>1. CASE Graph(t)
    BY <2>0, <2>1 DEF Graph, reader, response, Shown, Stream
  <2>2. CASE Read(t)
    BY <2>0, <2>2, ReadKeepsShown
  <2>3. CASE Respond(t) \/ (Lose(t) /\ UNCHANGED <<graph, unread, reader>>)
    BY <1>1, <2>0, <2>3, RespondKeepsShown
  <2>4. ASSUME NEW u \in Turns, u # t, Step(u) PROVE Shown(t)'
    <3>1. /\ queue'[t] = queue[t] /\ reading'[t] = reading[t] /\ reply'[t] = reply[t]
          /\ drawing'[t] = drawing[t] /\ phase'[t] = phase[t] /\ sent'[t] = sent[t]
          /\ \/ messages' = messages
             \/ \E role, text, picture : messages' = Append(messages, Message(u, role, text, picture))
      BY <2>0, <2>4, OthersSame
    <3>2. messages \in Seq(Rows) /\ messages' \in Seq(Rows)
      BY <1>1, <2>0 DEF TurnTypes, ResponseTypes
    <3>3. \A i \in 1..Len(messages') :
            IsAnswer(messages'[i], t) => i \in 1..Len(messages) /\ messages'[i] = messages[i]
      <4>1. ASSUME NEW m, m.turn = u, messages' = Append(messages, m)
            PROVE  \A i \in 1..Len(messages') :
                     IsAnswer(messages'[i], t) => i \in 1..Len(messages) /\ messages'[i] = messages[i]
        <5>1. ~IsAnswer(m, t)
          BY <2>4, <4>1 DEF IsAnswer
        <5>2. /\ Len(messages) \in Nat /\ Len(messages') = Len(messages) + 1
              /\ messages'[Len(messages) + 1] = m
              /\ \A i \in 1..Len(messages) : messages'[i] = messages[i]
          BY <3>2, <4>1
        <5>3. \A i \in 1..Len(messages') : i \in 1..Len(messages) \/ i = Len(messages) + 1
          BY <5>2
        <5> QED BY <5>1, <5>2, <5>3
      <4>2. \A role, text, picture : Message(u, role, text, picture).turn = u
        BY DEF Message
      <4> QED BY <3>1, <4>1, <4>2
    <3> QED BY <2>0, <3>1, <3>3 DEF Shown, Stream
  <2>5. CASE UNCHANGED vars
    BY <2>0, <2>5 DEF Shown, Stream, vars, graph, reader, response
  <2> QED BY <2>1, <2>2, <2>3, <2>4, <2>5 DEF Next, Step
<1> QED BY <1>1, <1>2 DEF ShownInv

\* The answer a turn saves has the text of the tokens its client got, in the
\* order it got them, and the last drawing it got; the fallback stands for no
\* text, and no drawing for an empty one.
THEOREM AnswerIsShown == Spec => []AnswerIsWhatWasShown
<1>1. ShownInv => AnswerIsWhatWasShown
  <2> SUFFICES ASSUME ShownInv, NEW t \in Turns, NEW i \in Saved(t), messages[i].role = "assistant"
               PROVE  LET text     == Heard(t, "token")
                          pictures == Heard(t, "drawing")
                      IN /\ messages[i].reply =
                              IF text = <<>> THEN Fallback ELSE [k \in 1..Len(text) |-> text[k].n]
                         /\ messages[i].drawing =
                              IF pictures = <<>> \/ Last(pictures).calls[1] \in EmptyCalls
                              THEN NoDrawing ELSE Last(pictures).calls[1]
    BY DEF AnswerIsWhatWasShown
  <2> DEFINE text     == Heard(t, "token")
             pictures == Heard(t, "drawing")
  <2>1. Shown(t) /\ i \in 1..Len(messages) /\ IsAnswer(messages[i], t)
    BY DEF ShownInv, Saved, IsAnswer
  <2>2. Fits(messages[i], sent[t])
    BY <2>1 DEF Shown
  <2>3. text = Text(sent[t]) /\ pictures = Pictures(sent[t])
    BY DEF Heard, Text, Pictures, KindSet
  <2>4. /\ messages[i].reply = Content(Numbers(text))
        /\ messages[i].drawing = Elements(Picture(pictures))
    BY <2>2, <2>3 DEF Fits
  <2>5. text \in Seq(KindSet("token"))
    <3>1. sent[t] \in Seq(Events)
      BY DEF ShownInv, TurnTypes, ResponseTypes
    <3> QED BY <2>3, <3>1, KeptEvents
  <2>6. Content(Numbers(text)) = IF text = <<>> THEN Fallback ELSE Numbers(text)
    <3>1. CASE text = <<>>
      BY <3>1 DEF Numbers, Content
    <3>2. CASE text # <<>>
      BY <3>2, <2>5 DEF Numbers, Content
    <3> QED BY <3>1, <3>2
  <2>7. Elements(Picture(pictures)) =
          IF pictures = <<>> \/ Last(pictures).calls[1] \in EmptyCalls
          THEN NoDrawing ELSE Last(pictures).calls[1]
    BY DEF Picture, Elements
  <2> HIDE DEF text, pictures
  <2>8. Numbers(text) = [k \in 1..Len(text) |-> text[k].n]
    BY DEF Numbers
  <2> QED BY <2>4, <2>6, <2>7, <2>8 DEF text, pictures
<1> QED BY <1>1, ShownInit, ShownStep, PTL DEF Spec
=============================================================================
