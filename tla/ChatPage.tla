------------------------------- MODULE ChatPage -------------------------------
(***************************************************************************)
(* The chat page of the browser application: frontend/src/pages/           *)
(* ChatPage.tsx with its composer (ChatInput.tsx), its list of messages    *)
(* (ChatMessages.tsx, MessageBubble.tsx) and the reader of the stream of   *)
(* an answer (sendChatStream of lib/api.ts).                               *)
(*                                                                         *)
(* The page asks for messages and for answers, and goes on: nothing        *)
(* cancels a request when another chat is selected, so answers of several  *)
(* chats may arrive in any order.  Text is abstracted to its provenance:   *)
(* a message is its role, the chats whose text, images, tool calls or      *)
(* usage it shows, and the chat whose whiteboard drawing it carries.  A    *)
(* handler and the effects its updates cause are one step, as React runs   *)
(* them before the next event.                                             *)
(***************************************************************************)
EXTENDS Naturals, Sequences, FiniteSets

CONSTANTS
  Chats,
  NoChat,
  FirstChats,   \* the chats of the sidebar when the page opens
  MaxStreams,   \* bound: questions sent
  MaxLoads,     \* bound: message lists of one chat asked for at once
  MaxDrawings,  \* bound: whiteboard drawings attached
  MaxMoves      \* bound: what the user does

ASSUME ChatPageAssumption ==
  /\ NoChat \notin Chats /\ FirstChats \subseteq Chats
  /\ MaxLoads \in Nat \ {0}
  /\ {MaxStreams, MaxDrawings, MaxMoves} \subseteq Nat

VARIABLES
  route,      \* the page that is mounted
  moves,      \* what the user has done so far
  listed,     \* chats of the sidebar
  creating,   \* the new chat the sidebar waits for
  selected,   \* selectedChatId
  messages,
  loads,      \* getMessages calls of each chat that have not answered
  streaming,
  streams,    \* the answers asked for, in order
  chips,      \* toolCalls and its mirror toolCallsRef: what was called
  drawn,      \* drawingRef: what the running answer has drawn
  quote,
  ready,      \* llmReady
  image,      \* the attachment of the composer
  pending,    \* the pending drawing of lib/whiteboard.ts, by its chat
  saved,      \* drawings handed over by the whiteboard
  sent,       \* drawings sent with a new question
  crashed     \* a render threw: React unmounts the application

talk == <<messages, streaming, chips, drawn, quote>>
composer == <<image, pending, saved, sent>>
lists == <<listed, creating>>
site == <<route, ready, crashed>>
vars == <<talk, composer, lists, site, selected, loads, streams, moves>>

-----------------------------------------------------------------------------
(* Messages and streams.                                                   *)

Message(role, from, drawing) ==
  [role |-> role, from |-> from, usage |-> FALSE, drawing |-> drawing]

Streams == 1..Len(streams)

\* What getMessages(c) may answer: an empty chat, a question whose answer is
\* not saved yet, an exchange.  The question comes with the drawing it was
\* sent with.  A failed call shows an empty list too.
Histories(c) ==
  LET pictures == {NoChat} \cup {streams[s].drawing : s \in {r \in Streams : streams[r].chat = c}}
      question(d) == Message("user", {c}, d)
      answer == [Message("assistant", {c}, NoChat) EXCEPT !.usage = TRUE]
  IN  {<<>>} \cup {<<question(d)>> : d \in pictures} \cup {<<question(d), answer>> : d \in pictures}

LastIsAnswer == messages # <<>> /\ messages[Len(messages)].role = "assistant"

\* The list with more text, an image, tool calls or usage on its last message,
\* whatever chat that message is of.
OnLast(from) ==
  IF LastIsAnswer
  THEN [messages EXCEPT ![Len(messages)].from = @ \cup from]
  ELSE messages

Reading(s) == streams[s].state \in {"open", "erred"}

\* An answer ends or reports an error.  `disturbed` remembers which of the
\* answers still being written saw that of one that had reported an error, or
\* that was disturbed itself.
Turned(s, state, bad) ==
  streams' = [r \in Streams |->
    IF r = s THEN [streams[s] EXCEPT !.state = state, !.disturbed = FALSE]
    ELSE [streams[r] EXCEPT !.disturbed = @ \/ (bad /\ streams[r].state = "open")]]

Close(s) == Turned(s, "over", streams[s].state = "erred" \/ streams[s].disturbed)
Break(s, state) == Turned(s, state, TRUE)

-----------------------------------------------------------------------------
(* Selecting a chat.                                                       *)

NoImage == [kind |-> "none", chat |-> NoChat]
File == [kind |-> "file", chat |-> NoChat]
Drawing(c) == [kind |-> "drawing", chat |-> c]

\* The effect on selectedChatId.  The composer is keyed by the chat, so its
\* attachment is lost, and a pending drawing of the chat is attached at once;
\* one of another chat is dropped unless no chat was selected before.
Adopt(c) ==
  IF c = selected
  THEN UNCHANGED <<image, pending>>
  ELSE /\ image' = IF ready /\ c # NoChat /\ pending = c THEN Drawing(c) ELSE NoImage
       /\ pending' = IF selected # NoChat /\ pending # c THEN NoChat ELSE pending

\* handleSelectChat up to its await.
Select(c) ==
  /\ loads[c] < MaxLoads
  /\ selected' = c
  /\ loads' = [loads EXCEPT ![c] = @ + 1]
  /\ Adopt(c)
  /\ UNCHANGED <<saved, sent>>

SelectChat(c) ==
  /\ c \in listed /\ Select(c)
  /\ UNCHANGED <<talk, lists, site, streams>>

\* handleSelectChat after its await: the list replaces the messages on
\* screen, whichever chat is selected by then.
LoadAnswers(c) ==
  /\ loads[c] > 0
  /\ loads' = [loads EXCEPT ![c] = @ - 1]
  /\ messages' \in Histories(c)
  /\ UNCHANGED <<streaming, chips, drawn, quote, composer, lists,
                 site, selected, streams>>

\* handleClearChat: the title of the sidebar leads back to no chat.
ClearChat ==
  /\ selected' = NoChat /\ messages' = <<>>
  /\ pending' = NoChat /\ image' = NoImage
  /\ UNCHANGED <<streaming, chips, drawn, quote, saved, sent, lists,
                 site, loads, streams>>

-----------------------------------------------------------------------------
(* What arrives while the page is used.                                    *)

CreateChat ==
  /\ creating = NoChat /\ creating' \in Chats \ listed
  /\ UNCHANGED <<listed, talk, composer, site, selected, loads, streams>>

\* createChat and then getChats have answered: handleChatCreated selects the
\* new chat, whatever was selected while it waited.
ChatCreated ==
  /\ creating # NoChat /\ creating' = NoChat
  /\ \/ listed' = listed \cup {creating} /\ Select(creating)
     \/ UNCHANGED <<listed, composer, selected, loads>>
  /\ UNCHANGED <<talk, site, streams>>

\* getLlmConfig answers: without a model for chat and memory the composer
\* goes, and its attachment with it; a failed call leaves it.
ConfigAnswers ==
  /\ ready /\ ready' = FALSE
  /\ image' = NoImage
  /\ UNCHANGED <<pending, saved, sent, talk, lists, route, crashed,
                 selected, loads, streams>>

-----------------------------------------------------------------------------
(* Asking.                                                                 *)

\* What is posted for the selected chat, with the drawing of the question.
Request(drawing, again) ==
  [chat |-> selected, state |-> "open", disturbed |-> FALSE,
   drawing |-> drawing, again |-> again]

\* Mutant: sendMessage keeps the diagram of the answer before.
SendKeepsDrawing(context, again) ==
  /\ Len(streams) < MaxStreams
  /\ messages' = Append(context, Message("assistant", {}, NoChat))
  /\ streaming' = TRUE
  /\ chips' = {} /\ quote' = {} /\ UNCHANGED drawn
  /\ streams' = Append(streams, Request(context[Len(context)].drawing, again))

\* sendMessage: the composer is locked, an empty answer is shown, and the last
\* message of the context is posted as the question.
Send(context, again) ==
  /\ Len(streams) < MaxStreams
  /\ messages' = Append(context, Message("assistant", {}, NoChat))
  /\ streaming' = TRUE
  /\ chips' = {} /\ drawn' = {} /\ quote' = {}
  /\ streams' = Append(streams, Request(context[Len(context)].drawing, again))

\* Mutant: a question may be sent while an answer is being written.
MaySendAnyTime == ready /\ selected # NoChat

MaySend == ready /\ ~streaming /\ selected # NoChat

\* Mutant: the drawing that was sent stays pending.
SubmitKeepsPending ==
  /\ MaySend
  /\ Send(Append(messages, Message("user",
            {selected} \cup quote \cup ({image.chat} \ {NoChat}), image.chat)), FALSE)
  /\ image' = NoImage
  /\ sent' = IF image.kind = "drawing" THEN sent + 1 ELSE sent
  /\ UNCHANGED <<pending, saved, lists, site, selected, loads>>

\* handleSubmit of the composer and handleSubmitMessage of the page: what is
\* on screen is posted as the context of the question.
Submit ==
  /\ MaySend
  /\ Send(Append(messages, Message("user",
            {selected} \cup quote \cup ({image.chat} \ {NoChat}), image.chat)), FALSE)
  /\ image' = NoImage /\ pending' = NoChat
  /\ sent' = IF image.kind = "drawing" THEN sent + 1 ELSE sent
  /\ UNCHANGED <<saved, lists, site, selected, loads>>

\* MessageBubble offers retry on every message but the one being written.
RetryOffered(i) == ~(streaming /\ i = Len(messages))

\* handleRetry: back to the question, which is asked again in its context and
\* with its image.
Retry(i) ==
  /\ MaySend /\ RetryOffered(i)
  /\ \E q \in 1..i :
       /\ messages[q].role = "user"
       /\ \A j \in (q + 1)..i : messages[j].role # "user"
       /\ Send(SubSeq(messages, 1, q), TRUE)
  /\ UNCHANGED <<composer, lists, site, selected, loads>>

\* Text of an answer on screen is quoted into the composer, which keeps it
\* until a question is sent or the quote is removed.
TakeQuote ==
  /\ ready /\ selected # NoChat
  /\ \E i \in 1..Len(messages) :
       messages[i].role = "assistant" /\ messages[i].from # {} /\ quote' = messages[i].from
  /\ UNCHANGED <<messages, streaming, chips, drawn, composer, lists,
                 site, selected, loads, streams>>

DropQuote ==
  /\ quote # {} /\ quote' = {}
  /\ UNCHANGED <<messages, streaming, chips, drawn, composer, lists,
                 site, selected, loads, streams>>

\* The attach menu is closed to a composer that has an attachment.
AttachFile ==
  /\ MaySend /\ image = NoImage /\ image' = File
  /\ UNCHANGED <<pending, saved, sent, talk, lists, site, selected, loads, streams>>

RemoveImage ==
  /\ ready /\ image # NoImage /\ image' = NoImage
  /\ UNCHANGED <<pending, saved, sent, talk, lists, site, selected, loads, streams>>

-----------------------------------------------------------------------------
(* The stream of an answer: sendChatStream and the callbacks it is given.  *)

\* onToken.
Token(s) ==
  /\ streams[s].state = "open"
  /\ messages' = OnLast({streams[s].chat})
  /\ UNCHANGED <<streaming, chips, drawn, quote, composer, lists,
                 site, selected, loads, streams>>

\* onToolCall.
ToolCall(s) ==
  /\ streams[s].state = "open"
  /\ chips' = chips \cup {streams[s].chat}
  /\ UNCHANGED <<messages, streaming, drawn, quote, composer, lists, site,
                 selected, loads, streams>>

\* onDrawing: the whole diagram so far becomes the image of the last message.
DrawingEvent(s) ==
  /\ streams[s].state = "open"
  /\ drawn' = drawn \cup {streams[s].chat}
  /\ messages' = OnLast(drawn')
  /\ UNCHANGED <<streaming, chips, quote, composer, lists, site,
                 selected, loads, streams>>

\* The tool calls and the usage of a finished answer go to the last message;
\* usage only if that has none.
Credited(s) ==
  LET last == messages[Len(messages)]
      usage == IF last.usage THEN {} ELSE {streams[s].chat}
  IN  IF LastIsAnswer
      THEN [messages EXCEPT ![Len(messages)] =
              [last EXCEPT !.from = @ \cup chips \cup usage, !.usage = TRUE]]
      ELSE messages

\* onDone: it unlocks the composer, whichever answer is done.
Done(s) ==
  /\ Reading(s)
  /\ Close(s)
  /\ messages' = Credited(s)
  /\ streaming' = FALSE /\ chips' = {}
  /\ UNCHANGED <<drawn, quote, composer, lists, site, selected, loads>>

\* Mutant: an error leaves the composer locked.
OnErrorStaysLocked(s) ==
  /\ chips' = {}
  /\ crashed' = (messages = <<>>)
  /\ messages' = IF LastIsAnswer /\ messages[Len(messages)].from = {}
                 THEN OnLast({streams[s].chat}) ELSE messages
  /\ UNCHANGED <<streaming, drawn, quote, composer, lists, route, ready, selected, loads>>

\* onError: an answer without text becomes the error.  The updater reads the
\* role of the last message, and throws when there is none.
OnError(s) ==
  /\ streaming' = FALSE /\ chips' = {}
  /\ crashed' = (messages = <<>>)
  /\ messages' = IF LastIsAnswer /\ messages[Len(messages)].from = {}
                 THEN OnLast({streams[s].chat}) ELSE messages
  /\ UNCHANGED <<drawn, quote, composer, lists, route, ready,
                 selected, loads>>

\* An error event: the server goes on to its done event.
ErrorEvent(s) ==
  /\ streams[s].state = "open"
  /\ Break(s, "erred")
  /\ OnError(s)

\* The request is refused, or the connection breaks.
FetchFails(s) ==
  /\ Reading(s)
  /\ Break(s, "over")
  /\ OnError(s)

-----------------------------------------------------------------------------
(* Coming and going.  An unmounted page hears no answer, and nothing of it *)
(* is left but the pending drawing.                                        *)

\* Mutant: the loads of the page before are still awaited.
MountedOverLoads(c) ==
  /\ selected' = c
  /\ loads' = [d \in Chats |-> IF d = c THEN loads[d] + 1 ELSE loads[d]]
  /\ image' = IF c # NoChat /\ pending' = c THEN Drawing(c) ELSE NoImage
  /\ messages' = <<>> /\ streaming' = FALSE
  /\ chips' = {} /\ drawn' = {} /\ quote' = {}
  /\ streams' = [s \in Streams |-> [streams[s] EXCEPT !.state = "over", !.disturbed = FALSE]]
  /\ creating' = NoChat /\ ready' = TRUE
  /\ UNCHANGED <<listed, crashed>>

\* The state of a page mounted with ?chatId=c, or with none.
Mounted(c) ==
  /\ selected' = c
  /\ loads' = [d \in Chats |-> IF d = c THEN 1 ELSE 0]
  /\ image' = IF c # NoChat /\ pending' = c THEN Drawing(c) ELSE NoImage
  /\ messages' = <<>> /\ streaming' = FALSE
  /\ chips' = {} /\ drawn' = {} /\ quote' = {}
  /\ streams' = [s \in Streams |-> [streams[s] EXCEPT !.state = "over", !.disturbed = FALSE]]
  /\ creating' = NoChat /\ ready' = TRUE
  /\ UNCHANGED <<listed, crashed>>

\* The whiteboard of the selected chat, and back with a drawing.
AttachDrawing ==
  /\ MaySend /\ image = NoImage /\ saved < MaxDrawings
  /\ pending' = selected /\ saved' = saved + 1
  /\ Mounted(selected)
  /\ UNCHANGED <<route, sent>>

\* Settings, and back by its link to the page without a chat.
VisitSettings ==
  /\ pending' = pending
  /\ Mounted(NoChat)
  /\ UNCHANGED <<route, saved, sent>>

\* handleLogout: the newest stream is aborted before the server is asked.  Its
\* answer leads to the login page; a call that never gets there throws, and
\* the page stays.
LogOut ==
  /\ streams' = [s \in Streams |->
       IF s = Len(streams) /\ Reading(s)
       THEN [streams[s] EXCEPT !.state = "aborted", !.disturbed = FALSE] ELSE streams[s]]
  /\ route' \in {"chat", "login"}
  /\ UNCHANGED <<talk, composer, lists, ready, crashed, selected, loads>>

-----------------------------------------------------------------------------
\* The page opens with /chat?chatId=c, which asks for that chat's messages.
Init ==
  /\ route = "chat" /\ moves = 0
  /\ listed = FirstChats
  /\ creating = NoChat
  /\ selected \in FirstChats /\ messages = <<>>
  /\ loads = [c \in Chats |-> IF c = selected THEN 1 ELSE 0]
  /\ streaming = FALSE /\ streams = <<>>
  /\ chips = {} /\ drawn = {} /\ quote = {}
  /\ ready = TRUE
  /\ image = NoImage /\ pending = NoChat /\ saved = 0 /\ sent = 0
  /\ crashed = FALSE

Hears(s) ==
  \/ Token(s) \/ ToolCall(s) \/ DrawingEvent(s)
  \/ Done(s) \/ ErrorEvent(s) \/ FetchFails(s)

Uses ==
  \/ \E c \in Chats : SelectChat(c)
  \/ ClearChat \/ CreateChat
  \/ Submit \/ \E i \in 1..Len(messages) : Retry(i)
  \/ TakeQuote \/ DropQuote \/ AttachFile \/ RemoveImage
  \/ AttachDrawing \/ VisitSettings \/ LogOut

Answers ==
  \/ \E c \in Chats : LoadAnswers(c)
  \/ ChatCreated \/ ConfigAnswers

Mounting == route = "chat" /\ ~crashed

Move == moves < MaxMoves /\ moves' = moves + 1 /\ Uses
Arrive == UNCHANGED moves /\ (Answers \/ \E s \in Streams : Hears(s))

Next == Mounting /\ (Move \/ Arrive)

Spec == Init /\ [][Next]_vars

\* The server ends every stream, with its done event or by losing the client.
Verdict(s) == Mounting /\ s \in Streams /\ UNCHANGED moves /\ (Done(s) \/ FetchFails(s))
LiveSpec == Spec /\ \A s \in 1..MaxStreams : WF_vars(Verdict(s))

-----------------------------------------------------------------------------
(* Properties.                                                             *)

TypeOK ==
  /\ route \in {"chat", "login"} /\ moves \in 0..MaxMoves
  /\ listed \in SUBSET Chats
  /\ creating \in Chats \cup {NoChat}
  /\ selected \in Chats \cup {NoChat}
  /\ messages \in Seq([role : {"user", "assistant"}, from : SUBSET Chats, usage : BOOLEAN,
                       drawing : Chats \cup {NoChat}])
  /\ loads \in [Chats -> 0..MaxLoads]
  /\ streaming \in BOOLEAN /\ ready \in BOOLEAN
  /\ streams \in Seq([chat : Chats, state : {"open", "erred", "over", "aborted"},
                      disturbed : BOOLEAN,
                      drawing : Chats \cup {NoChat}, again : BOOLEAN])
  /\ {chips, drawn, quote} \subseteq SUBSET Chats
  /\ image \in [kind : {"none", "file", "drawing"}, chat : Chats \cup {NoChat}]
  /\ pending \in Chats \cup {NoChat} /\ saved \in Nat /\ sent \in Nat
  /\ crashed \in BOOLEAN

\* Everything on screen is of the selected chat.
Clean ==
  /\ \A i \in 1..Len(messages) : messages[i].from \subseteq {selected}
  /\ chips \cup quote \subseteq {selected}

\* Every answer that is still out was asked for in the selected chat.
AllMine ==
  /\ \A c \in Chats : loads[c] > 0 => c = selected
  /\ \A s \in Streams : Reading(s) => streams[s].chat = selected

\* No answer that is being written was disturbed by one that had reported an
\* error: then at most one is being written.
Calm == \A s \in Streams : streams[s].state = "open" => ~streams[s].disturbed

\* Text of another chat reaches a screen that shows none, and with it the
\* context posted to the model, only by a late answer of another chat: no
\* retry, quote, diagram, tool call or usage of a chat's own answers brings
\* back what an earlier chat left behind.  While answers are written at once,
\* as they may be after an error, the diagram kept of one chat may outlive it
\* and reach another.  (handleSelectChat, the callbacks, drawingRef)
OnlyLateAnswersMix ==
  [][Clean /\ AllMine /\ (Calm \/ drawn \subseteq {selected}) /\ selected' = selected
     => Clean']_vars

\* The first post of a drawing of chat c: with a new question, in that chat.
FirstPost(s, c) == streams[s].drawing = c /\ streams[s].chat = c /\ ~streams[s].again

\* A drawing is attached in the chat it was made for and nowhere else, and to
\* one new question at most, whatever is removed, revisited or selected in
\* between.  It is posted again, and in another chat if the screen shows the
\* question there, by a retry of that question and by nothing else.
\* (lib/whiteboard.ts: a composer draft, tied to a chat; handleRetry)
DrawingHasOneQuestion ==
  /\ image.kind = "drawing" => image.chat = selected
  /\ sent + (IF image.kind = "drawing" THEN 1 ELSE 0) <= saved
  /\ \A s \in Streams : streams[s].drawing # NoChat =>
       \/ FirstPost(s, streams[s].drawing)
       \/ streams[s].again /\ \E r \in 1..(s - 1) : FirstPost(r, streams[s].drawing)

\* While an answer is being written the composer is locked, unless after it
\* began another answer ended, or reported an error, that had reported one by
\* then or that was itself disturbed in this way.  (onDone, onError)
LockedWhileAnswering ==
  \A s \in Streams : streams[s].state = "open" /\ ~streaming => streams[s].disturbed

\* A locked composer is unlocked again, unless the application crashed or a
\* logout that failed had aborted the stream: its callbacks say nothing then.
ComposerComesBack ==
  streaming ~> \/ ~streaming \/ crashed \/ route # "chat"
               \/ \E s \in Streams : streams[s].state = "aborted"
=============================================================================
