------------------------------- MODULE ChatTurn -------------------------------
(***************************************************************************)
(* Turns of one chat: what happens behind POST /api/chat/stream            *)
(* (backend/app/routes/chat.py) and in the graph it runs                   *)
(* (backend/app/graph.py).  Three tasks serve a turn:                      *)
(*   - the graph walks its nodes and emits events (astream_events runs it  *)
(*     as a task of its own, so it may be ahead of its reader);            *)
(*   - the reader (_stream_graph) turns events into server-sent ones;      *)
(*   - the response (event_generator) waits for the verdict on the         *)
(*     question, names the chat, passes events on and saves the answer.    *)
(*                                                                         *)
(* A model call is what LLMRouter promises: chunks of one call, then an    *)
(* end or an error.  A token is its number within the turn.  Usage, model  *)
(* names, the loaded memory and the prompt are left out.                   *)
(***************************************************************************)
EXTENDS Naturals, Sequences, SequencesExt, Lists

CONSTANTS
  Turns,
  Calls,           \* signatures of tool calls: name and arguments
  WhiteboardCalls, \* of create_diagram and draw_elements
  EmptyCalls,      \* of those, the ones that draw no element
  RouteCalls,      \* of the tool named route
  Batches,         \* the lists of calls one answer of the model may make
  MaxTokens,       \* bound: text chunks of one model call
  RecursionLimit   \* LangGraph's limit on the nodes a turn runs

NewChat == "New Chat"

ASSUME ChatAssumption ==
  /\ WhiteboardCalls \subseteq Calls /\ RouteCalls \subseteq Calls
  /\ EmptyCalls \subseteq WhiteboardCalls
  /\ Batches \subseteq Seq(Calls)
  /\ MaxTokens \in Nat /\ RecursionLimit \in Nat
  /\ NewChat \notin Turns

NoDrawing == "no_drawing"
Fallback == <<0>>  \* "No response generated.": a token no turn produces
Nodes == {"alignment_check", "memory_loader", "agent", "tool_executor", "memory_updater"}

VARIABLES
  \* the graph
  node,      \* the node that runs, "end" or "failed"
  verdict,   \* rejected_reason: "none" before the check
  data,      \* pending_tool_calls_data
  called,    \* called_tools
  ran,       \* the calls each run of tool_executor executed
  produced,  \* text chunks so far
  chunks,    \* text chunks of the running model call
  steps,     \* nodes run
  \* the reader
  unread,    \* events the graph has emitted and the reader has not read
  reading,
  aligned,   \* alignment_done
  refused,   \* rejection_reason
  open,      \* pending_tool_calls of the reader
  meta,      \* tool_calls_meta
  reply,     \* full_reply
  drawing,   \* drawing_elements
  queue,     \* the asyncio.Queue between reader and response
  \* the response and what it writes
  phase,
  sent,      \* events the client got
  messages,  \* rows of the chat
  title,
  jobs       \* turns handed to enqueue_memory_update

graph == <<node, verdict, data, called, ran, produced, chunks, steps, jobs>>
reader == <<reading, aligned, refused, open, meta, reply, drawing>>
response == <<phase, sent, messages, title>>
vars == <<graph, unread, reader, queue, response>>

Event(kind, calls, n) == [kind |-> kind, calls |-> calls, n |-> n]
Plain(kind) == Event(kind, <<>>, 0)

Init ==
  /\ node = [t \in Turns |-> "alignment_check"]
  /\ verdict = [t \in Turns |-> "none"]
  /\ data = [t \in Turns |-> <<>>]
  /\ called = [t \in Turns |-> {}]
  /\ ran = [t \in Turns |-> <<>>]
  /\ produced = [t \in Turns |-> 0] /\ chunks = [t \in Turns |-> 0]
  /\ steps = [t \in Turns |-> 1]
  /\ unread = [t \in Turns |-> <<>>]
  /\ reading = [t \in Turns |-> TRUE]
  /\ aligned = [t \in Turns |-> FALSE] /\ refused = [t \in Turns |-> FALSE]
  /\ open = [t \in Turns |-> 0] /\ meta = [t \in Turns |-> <<>>]
  /\ reply = [t \in Turns |-> <<>>] /\ drawing = [t \in Turns |-> NoDrawing]
  /\ queue = [t \in Turns |-> <<>>]
  /\ phase = [t \in Turns |-> "waiting"] /\ sent = [t \in Turns |-> <<>>]
  /\ messages = <<>> /\ title = NewChat /\ jobs = {}

-----------------------------------------------------------------------------
(* The graph.                                                              *)

Set(f, t, v) == [f EXCEPT ![t] = v]
Emit(t, events) == unread' = Set(unread, t, unread[t] \o events)

\* The next node, or LangGraph's GraphRecursionError when a turn has run its
\* nodes.  events are those of the node that ends.
GoTo(t, next, events) ==
  IF next # "end" /\ steps[t] >= RecursionLimit
  THEN /\ node' = Set(node, t, "failed")
       /\ Emit(t, Append(events, Plain("raised")))
       /\ UNCHANGED steps
  ELSE /\ node' = Set(node, t, next)
       /\ Emit(t, IF next = "end" THEN Append(events, Plain("over")) ELSE events)
       /\ steps' = Set(steps, t, steps[t] + 1)

\* Mutant: a destination no edge leads to.
RouteToLabel(v) == IF v = "refused" THEN "END" ELSE "memory_loader"

RouteAfterAlignment(v) == IF v = "refused" THEN "end" ELSE "memory_loader"

AlignmentCheck(t) ==
  /\ node[t] = "alignment_check"
  /\ \E v \in {"allowed", "refused"} :
       /\ verdict' = Set(verdict, t, v)
       /\ GoTo(t, RouteAfterAlignment(v), <<Plain(v)>>)
  /\ UNCHANGED <<data, called, ran, produced, chunks, jobs>>

MemoryLoader(t) ==
  /\ node[t] = "memory_loader"
  /\ GoTo(t, "agent", <<>>)
  /\ UNCHANGED <<verdict, data, called, ran, produced, chunks, jobs>>

\* A chunk with text.
Token(t) ==
  /\ node[t] = "agent"
  /\ chunks[t] < MaxTokens
  /\ chunks' = Set(chunks, t, chunks[t] + 1)
  /\ produced' = Set(produced, t, produced[t] + 1)
  /\ Emit(t, <<Event("token", <<>>, produced[t] + 1)>>)
  /\ UNCHANGED <<node, verdict, data, called, ran, steps, jobs>>

RouteAfterAgent(t, pending, calls) ==
  IF pending /\ (calls = <<>> \/ ~(ToSet(calls) \subseteq called[t]))
  THEN "tool_executor" ELSE "memory_updater"

\* The model call ends, having asked for a batch of calls.  Chunks without an
\* index set pending_tool_calls but leave no pending_tool_calls_data; the
\* data of an answer without calls is not written, so the old one stays.
AgentEnds(t) ==
  /\ node[t] = "agent"
  /\ \E batch \in Batches \cup {<<>>}, indexed \in BOOLEAN :
       LET pending == batch # <<>>
           calls == IF pending /\ indexed THEN batch ELSE data[t]
       IN /\ data' = Set(data, t, calls)
          /\ GoTo(t, RouteAfterAgent(t, pending, calls), <<Event("model_end", batch, 0)>>)
  /\ chunks' = Set(chunks, t, 0)
  /\ UNCHANGED <<verdict, called, ran, produced, jobs>>

\* The router found no model that answers, or a call broke off.
AgentRaises(t) ==
  /\ node[t] = "agent"
  /\ node' = Set(node, t, "failed")
  /\ Emit(t, <<Plain("raised")>>)
  /\ UNCHANGED <<verdict, data, called, ran, produced, chunks, steps, jobs>>

\* Mutant: repeated calls of a mixed batch run again.
FreshOrNot(t) == ToSet(data[t])

FreshCalls(t) == ToSet(data[t]) \ called[t]

\* ToolNode runs the fresh calls in their order, equal ones each; those that
\* succeed return their elements.
ToolExecutor(t) ==
  /\ node[t] = "tool_executor"
  /\ data' = Set(data, t, <<>>)
  /\ LET fresh == FreshCalls(t)
     IN /\ called' = Set(called, t, called[t] \cup fresh)
        /\ ran' = IF fresh = {} THEN ran ELSE Set(ran, t, Append(ran[t], fresh))
        /\ \E good \in SUBSET fresh :
             GoTo(t, "agent", <<Event("tools_end", Keep(data[t], good), 0)>>)
  /\ UNCHANGED <<verdict, produced, chunks, jobs>>

\* The turn goes to the memory queue, unless its heuristics or the switch
\* keep it out; an error there is swallowed.
MemoryUpdater(t) ==
  /\ node[t] = "memory_updater"
  /\ jobs' \in {jobs, jobs \cup {t}}
  /\ GoTo(t, "end", <<>>)
  /\ UNCHANGED <<verdict, data, called, ran, produced, chunks>>

Graph(t) ==
  /\ \/ AlignmentCheck(t) \/ MemoryLoader(t) \/ Token(t) \/ AgentEnds(t)
     \/ AgentRaises(t) \/ ToolExecutor(t) \/ MemoryUpdater(t)
  /\ UNCHANGED <<reader, queue, response>>

-----------------------------------------------------------------------------
(* The reader.                                                             *)

Put(t, events) == queue' = Set(queue, t, queue[t] \o events)
None == Plain("none")

\* Mutant: the sentinel is only put when nothing went wrong.
SilentClosing(kind) == IF kind = "raised" THEN <<Plain("error")>> ELSE <<None>>

\* What except and finally put into the queue.
Closing(kind) == IF kind = "raised" THEN <<Plain("error"), None>> ELSE <<None>>

\* The loop ends: the verdict was a refusal, the graph is over or has raised.
ReadLast(t, e) ==
  /\ e.kind \in {"refused", "over", "raised"}
  /\ refused' = Set(refused, t, refused[t] \/ e.kind = "refused")
  /\ aligned' = Set(aligned, t, TRUE)
  /\ reading' = Set(reading, t, FALSE)
  /\ Put(t, Closing(e.kind))
  /\ UNCHANGED <<open, meta, reply, drawing>>

ReadAllowed(t, e) ==
  /\ e.kind = "allowed"
  /\ aligned' = Set(aligned, t, TRUE)
  /\ UNCHANGED <<reading, refused, open, meta, reply, drawing, queue>>

ReadModelEnd(t, e) ==
  /\ e.kind = "model_end"
  /\ LET shown == Keep(e.calls, Calls \ RouteCalls)
     IN /\ open' = Set(open, t, open[t] + Len(shown))
        /\ meta' = Set(meta, t, meta[t] \o shown)
        /\ Put(t, [i \in 1..Len(shown) |-> Event("tool_call", <<shown[i]>>, 0)])
  /\ UNCHANGED <<reading, aligned, refused, reply, drawing>>

\* Mutant: a run of the executor closes one call.
CloseOne(t) == open[t] - 1

CloseTools(t) == 0

ReadToolsEnd(t, e) ==
  /\ e.kind = "tools_end"
  /\ IF open[t] = 0
     THEN UNCHANGED <<open, drawing, queue>>
     ELSE LET shown == Keep(e.calls, WhiteboardCalls \cap ToSet(meta[t]))
          IN /\ open' = Set(open, t, CloseTools(t))
             /\ drawing' = IF shown = <<>> THEN drawing ELSE Set(drawing, t, Last(shown))
             /\ Put(t, [i \in 1..Len(shown) |-> Event("drawing", <<shown[i]>>, 0)])
  /\ UNCHANGED <<reading, aligned, refused, meta, reply>>

\* Text is dropped while calls are open.
ReadToken(t, e) ==
  /\ e.kind = "token"
  /\ IF open[t] > 0
     THEN UNCHANGED <<reply, queue>>
     ELSE /\ reply' = Set(reply, t, Append(reply[t], e.n))
          /\ Put(t, <<e>>)
  /\ UNCHANGED <<reading, aligned, refused, open, meta, drawing>>

Read(t) ==
  /\ reading[t] /\ unread[t] # <<>>
  /\ LET e == Head(unread[t])
     IN \/ ReadLast(t, e) \/ ReadAllowed(t, e) \/ ReadModelEnd(t, e)
        \/ ReadToolsEnd(t, e) \/ ReadToken(t, e)
  /\ unread' = Set(unread, t, Tail(unread[t]))
  /\ UNCHANGED <<graph, response>>

-----------------------------------------------------------------------------
(* The response.                                                           *)

Send(t, events) == sent' = Set(sent, t, sent[t] \o events)

Message(t, role, text, picture) ==
  [turn |-> t, role |-> role, reply |-> text, drawing |-> picture]

\* A refused question leaves nothing behind.
Refuse(t) ==
  /\ phase[t] = "waiting" /\ aligned[t] /\ refused[t]
  /\ ~reading[t]
  /\ Send(t, <<Plain("refusal"), Plain("done")>>)
  /\ phase' = Set(phase, t, "refused")
  /\ UNCHANGED <<messages, title, queue>>

\* Mutant: the question is saved as soon as the request is there.
SaveAtOnce(t) == phase[t] = "waiting"

MaySave(t) == phase[t] = "waiting" /\ aligned[t] /\ ~refused[t]

SaveQuestion(t) ==
  /\ MaySave(t)
  /\ messages' = Append(messages, Message(t, "user", <<>>, NoDrawing))
  /\ phase' = Set(phase, t, "saved")
  /\ UNCHANGED <<sent, title, queue>>

\* _maybe_generate_title runs in a task of its own: another turn may have
\* named the chat since the question was saved.
LookUpTitle(t) ==
  /\ phase[t] = "saved"
  /\ phase' = Set(phase, t, IF title = NewChat THEN "naming" ELSE "streaming")
  /\ UNCHANGED <<sent, messages, title, queue>>

\* The model names the chat.  It may fail, and update_chat_title keeps the
\* old title when the subject has a chat of that name; the client hears the
\* new one all the same.
NameChat(t) ==
  /\ phase[t] = "naming"
  /\ \/ UNCHANGED <<title, sent>>
     \/ title' \in {title, t} /\ Send(t, <<Plain("title")>>)
  /\ phase' = Set(phase, t, "streaming")
  /\ UNCHANGED <<messages, queue>>

PassOn(t) ==
  /\ phase[t] = "streaming" /\ queue[t] # <<>> /\ Head(queue[t]) # None
  /\ Send(t, <<Head(queue[t])>>)
  /\ queue' = Set(queue, t, Tail(queue[t]))
  /\ UNCHANGED <<phase, messages, title>>

\* Mutant: the answer is saved when the reader is done.
ReaderDone(t) == phase[t] = "streaming" /\ ~reading[t]

Drained(t) == phase[t] = "streaming" /\ queue[t] # <<>> /\ Head(queue[t]) = None

\* full_reply or "No response generated."
Content(text) == IF text = <<>> THEN Fallback ELSE text

\* json.dumps(drawing_elements) if drawing_elements else None
Elements(picture) == IF picture \in EmptyCalls THEN NoDrawing ELSE picture

SaveAnswer(t) ==
  /\ Drained(t) /\ ~reading[t]
  /\ messages' = Append(messages,
       Message(t, "assistant", Content(reply[t]), Elements(drawing[t])))
  /\ Send(t, <<Plain("done")>>)
  /\ phase' = Set(phase, t, "answered")
  /\ UNCHANGED <<title, queue>>

\* The client goes away or the response raises: it is gone, the graph and
\* its reader go on.
Lose(t) ==
  /\ phase[t] \in {"waiting", "saved", "naming", "streaming"}
  /\ phase' = Set(phase, t, "lost")
  /\ UNCHANGED <<sent, messages, title, queue>>

Respond(t) ==
  /\ Refuse(t) \/ SaveQuestion(t) \/ LookUpTitle(t) \/ NameChat(t) \/ PassOn(t) \/ SaveAnswer(t)
  /\ UNCHANGED <<graph, unread, reader>>

Next ==
  \E t \in Turns :
    Graph(t) \/ Read(t) \/ Respond(t) \/ (Lose(t) /\ UNCHANGED <<graph, unread, reader>>)

Spec == Init /\ [][Next]_vars

\* The event loop runs every task that can run; a model call ends.
Fairness == \A t \in Turns : WF_vars(Graph(t)) /\ WF_vars(Read(t)) /\ WF_vars(Respond(t))

LiveSpec == Spec /\ Fairness

-----------------------------------------------------------------------------
(* Properties.                                                             *)

TypeOK ==
  /\ node \in [Turns -> Nodes \cup {"end", "failed"}]
  /\ verdict \in [Turns -> {"none", "allowed", "refused"}]
  /\ \A t \in Turns :
       /\ data[t] \in Seq(Calls) /\ meta[t] \in Seq(Calls)
       /\ ran[t] \in Seq(SUBSET Calls)
       /\ reply[t] \in Seq(Nat)
  /\ called \in [Turns -> SUBSET Calls]
  /\ produced \in [Turns -> Nat] /\ chunks \in [Turns -> 0..MaxTokens]
  /\ steps \in [Turns -> Nat] /\ open \in [Turns -> Nat]
  /\ reading \in [Turns -> BOOLEAN] /\ aligned \in [Turns -> BOOLEAN]
  /\ refused \in [Turns -> BOOLEAN]
  /\ drawing \in [Turns -> WhiteboardCalls \cup {NoDrawing}]
  /\ phase \in [Turns -> {"waiting", "saved", "naming", "streaming", "answered",
                         "refused", "lost"}]
  /\ title \in Turns \cup {NewChat} /\ jobs \in SUBSET Turns

Over(t) == node[t] \in {"end", "failed"}
Saved(t) == {i \in 1..Len(messages) : messages[i].turn = t}
Heard(t, kind) == Keep(sent[t], [kind : {kind}, calls : Seq(Calls), n : Nat])

\* test_alignment_rejection_enqueues_nothing: a refused question runs no
\* model, and leaves no message, no title and no memory job.
RefusedLeavesNothing ==
  \A t \in Turns : verdict[t] = "refused" =>
    produced[t] = 0 /\ ran[t] = <<>> /\ Saved(t) = {} /\ title # t /\ t \notin jobs

\* The saved answer is what the client was shown: the same text in the same
\* order, and the last drawing.  Two things are saved that were not shown: the
\* fallback where the client got no text at all, and no drawing where the last
\* one it got was empty, even if that came after one that was not.
AnswerIsWhatWasShown ==
  \A t \in Turns : \A i \in Saved(t) : messages[i].role = "assistant" =>
    LET text     == Heard(t, "token")
        pictures == Heard(t, "drawing")
    IN /\ messages[i].reply =
            IF text = <<>> THEN Fallback ELSE [k \in 1..Len(text) |-> text[k].n]
       /\ messages[i].drawing =
            IF pictures = <<>> \/ Last(pictures).calls[1] \in EmptyCalls
            THEN NoDrawing ELSE Last(pictures).calls[1]

\* A turn is answered when the graph is over and nothing the model said, in
\* any round of tools, has been left out of the answer.
NothingLeftOut ==
  \A t \in Turns : phase[t] = "answered" =>
    Over(t) /\ reply[t] = [k \in 1..produced[t] |-> k]

\* No call is executed by two runs of tool_executor, whatever the model
\* repeats and however it mixes old calls with new ones.
NeverRunAgain ==
  \A t \in Turns : \A i, j \in 1..Len(ran[t]) :
    i # j => ran[t][i] \cap ran[t][j] = {}

\* A client that stays gets its last event, whatever the graph, the tools and
\* the title do.
EveryTurnEnds == \A t \in Turns : <>(phase[t] \in {"answered", "refused", "lost"})
=============================================================================
