---------------------------- MODULE ChatPage_proofs ----------------------------
(***************************************************************************)
(* Proofs about ChatPage, for any chats and any use of the page: a drawing *)
(* of the whiteboard is attached in its own chat only and is of one new    *)
(* question at most; answers overlap, and chats mix, only where the page   *)
(* cannot help it.                                                         *)
(***************************************************************************)
EXTENDS ChatPage, SequenceTheorems, TLAPS

-----------------------------------------------------------------------------
(* The drawing.                                                            *)

\* What the property is about: the drawing, the attachment and the chat.
draft == <<image, pending, saved, sent, selected>>

\* A drawing that was handed over is pending, attached or both, until it is
\* sent or dropped.
Outstanding == IF image.kind = "drawing" \/ pending # NoChat THEN 1 ELSE 0

DraftInv ==
  /\ saved \in Nat /\ sent \in Nat
  /\ image.kind = "drawing" => image.chat = selected
  /\ sent + Outstanding <= saved

LEMMA DraftInit == Init => DraftInv
BY DEF Init, NoImage, DraftInv, Outstanding

LEMMA AttachmentKinds == NoImage.kind = "none" /\ File.kind = "file"
               /\ \A c : Drawing(c).kind = "drawing" /\ Drawing(c).chat = c
BY DEF NoImage, File, Drawing

\* Another chat is selected: a pending drawing of it is attached.
LEMMA AdoptKeeps ==
  ASSUME DraftInv, NEW c, Adopt(c), selected' = c, UNCHANGED <<saved, sent>>
  PROVE  DraftInv'
<1>1. CASE c = selected
  BY <1>1 DEF Adopt, DraftInv, Outstanding
<1>2. CASE c # selected
  <2>1. /\ image' = IF ready /\ c # NoChat /\ pending = c THEN Drawing(c) ELSE NoImage
        /\ pending' \in {NoChat, pending}
    BY <1>2 DEF Adopt
  <2>2. image'.kind = "drawing" => image'.chat = selected' /\ pending # NoChat
    BY <2>1, AttachmentKinds
  <2>3. Outstanding' <= Outstanding
    BY <2>1, <2>2 DEF Outstanding
  <2> QED BY <2>2, <2>3 DEF DraftInv, Outstanding
<1> QED BY <1>1, <1>2

\* The page is mounted with a chat or with none.
LEMMA MountedKeeps ==
  ASSUME DraftInv, NEW c, Mounted(c), sent' = sent, saved' \in Nat,
         \/ saved' = saved /\ pending' = pending
         \/ saved' = saved + 1 /\ image = NoImage
  PROVE  DraftInv'
<1>1. image'.kind = "drawing" => image'.chat = selected' /\ pending' # NoChat
  BY AttachmentKinds DEF Mounted
<1>2. sent' + Outstanding' <= saved'
  <2>1. Outstanding' = IF pending' # NoChat THEN 1 ELSE 0
    BY <1>1 DEF Outstanding
  <2> QED BY <2>1 DEF DraftInv, Outstanding
<1> QED BY <1>1, <1>2 DEF DraftInv

\* What arrives changes the composer only with a new chat or without a model.
LEMMA ArriveKeeps ==
  ASSUME DraftInv, Arrive
  PROVE  DraftInv'
<1>1. CASE ChatCreated
  <2>1. CASE Select(creating) /\ creating # NoChat
    BY <2>1, AdoptKeeps DEF Select
  <2>2. CASE UNCHANGED draft
    BY <2>2 DEF DraftInv, Outstanding, draft
  <2> QED BY <1>1, <2>1, <2>2 DEF ChatCreated, draft, composer
<1>2. CASE ConfigAnswers
  BY <1>2, AttachmentKinds DEF ConfigAnswers, DraftInv, Outstanding
<1>3. ASSUME NEW c \in Chats, LoadAnswers(c) PROVE UNCHANGED draft
  BY <1>3 DEF LoadAnswers, draft, composer
<1>4. ASSUME NEW s \in Streams, Hears(s) PROVE UNCHANGED draft
  BY <1>4 DEF Hears, Token, ToolCall, DrawingEvent, Done, ErrorEvent, FetchFails, OnError, draft, composer
<1>5. UNCHANGED draft => DraftInv'
  BY DEF DraftInv, Outstanding, draft
<1> QED BY <1>1, <1>2, <1>3, <1>4, <1>5 DEF Arrive, Answers

\* What the user does.
LEMMA UsesKeep ==
  ASSUME DraftInv, Uses
  PROVE  DraftInv'
<1>1. ASSUME NEW c \in Chats, SelectChat(c) PROVE DraftInv'
  BY <1>1, AdoptKeeps DEF SelectChat, Select
<1>2. CASE ClearChat
  BY <1>2, AttachmentKinds DEF ClearChat, DraftInv, Outstanding
<1>3. CASE Submit
  <2>1. /\ image' = NoImage /\ pending' = NoChat /\ saved' = saved
        /\ sent' = IF image.kind = "drawing" THEN sent + 1 ELSE sent
    BY <1>3 DEF Submit
  <2> QED BY <2>1, AttachmentKinds DEF DraftInv, Outstanding
<1>4. CASE AttachFile \/ RemoveImage
  <2>1. image' \in {NoImage, File} /\ UNCHANGED <<pending, saved, sent>>
    BY <1>4 DEF AttachFile, RemoveImage
  <2> QED BY <2>1, AttachmentKinds DEF DraftInv, Outstanding
<1>5. CASE AttachDrawing
  <2>1. saved' = saved + 1 /\ saved' \in Nat /\ sent' = sent /\ image = NoImage /\ Mounted(selected)
    BY <1>5 DEF AttachDrawing, DraftInv
  <2> QED BY <2>1, MountedKeeps
<1>6. CASE VisitSettings
  <2>1. saved' = saved /\ saved' \in Nat /\ pending' = pending /\ sent' = sent /\ Mounted(NoChat)
    BY <1>6 DEF VisitSettings, DraftInv
  <2> QED BY <2>1, MountedKeeps
<1>7. ASSUME CreateChat \/ TakeQuote \/ DropQuote \/ LogOut \/ \E i \in 1..Len(messages) : Retry(i)
      PROVE  UNCHANGED draft
  BY <1>7 DEF CreateChat, TakeQuote, DropQuote, LogOut, Retry, draft, composer
<1>8. UNCHANGED draft => DraftInv'
  BY DEF DraftInv, Outstanding, draft
<1> QED BY <1>1, <1>2, <1>3, <1>4, <1>5, <1>6, <1>7, <1>8 DEF Uses

LEMMA DraftStep == DraftInv /\ [Next]_vars => DraftInv'
<1>1. DraftInv /\ Move => DraftInv'
  BY UsesKeep DEF Move
<1>2. DraftInv /\ UNCHANGED vars => DraftInv'
  BY DEF DraftInv, Outstanding, vars, composer
<1> QED BY <1>1, <1>2, ArriveKeeps DEF Next

-----------------------------------------------------------------------------
(* The answers that are out.                                               *)

Rows == [role : {"user", "assistant"}, from : SUBSET Chats, usage : BOOLEAN,
         drawing : Chats \cup {NoChat}]
States == {"open", "erred", "over", "aborted"}
Asked == [chat : Chats, state : States, disturbed : BOOLEAN,
          drawing : Chats \cup {NoChat}, again : BOOLEAN]

Open(s) == streams[s].state = "open"

\* An answer that nothing disturbed is the newest, is written behind a locked
\* composer, and only answers still being written have drawn beside it.
Undisturbed ==
  \A s \in Streams : Open(s) /\ ~streams[s].disturbed =>
    /\ s = Len(streams) /\ streaming
    /\ drawn \subseteq {streams[r].chat : r \in {x \in Streams : Open(x)}}

PageInv ==
  /\ TypeOK
  /\ image.chat \in {selected, NoChat}
  /\ Undisturbed

Kept == UNCHANGED <<streams, streaming, drawn>>

LEMMA KeptKeeps ==
  ASSUME PageInv, Kept
  PROVE  Undisturbed'
BY DEF PageInv, Kept, Undisturbed, Streams, Open

\* The messages with more on the last one.
LEMMA OnLastIs ==
  ASSUME messages \in Seq(Rows), NEW from \in SUBSET Chats, NEW S, from \subseteq S,
         \A i \in 1..Len(messages) : messages[i].from \subseteq S
  PROVE  /\ OnLast(from) \in Seq(Rows) /\ Len(OnLast(from)) = Len(messages)
         /\ \A i \in 1..Len(messages) : /\ OnLast(from)[i].from \subseteq S
                                        /\ OnLast(from)[i].drawing = messages[i].drawing
<1>1. CASE ~LastIsAnswer
  BY <1>1 DEF OnLast
<1>2. CASE LastIsAnswer
  <2> DEFINE n == Len(messages)
             row == [messages[n] EXCEPT !.from = messages[n].from \cup from]
  <2>1. n \in Nat /\ n # 0
    BY <1>2, EmptySeq, LenProperties DEF LastIsAnswer
  <2>2. messages[n] \in Rows
    BY <2>1, ElementOfSeq
  <2>3. /\ row \in Rows /\ row.from = messages[n].from \cup from
        /\ row.drawing = messages[n].drawing
    BY <2>2 DEF Rows
  <2>4. OnLast(from) = [messages EXCEPT ![n] = row]
    BY <1>2 DEF OnLast
  <2> HIDE DEF row
  <2>5. OnLast(from) \in Seq(Rows) /\ Len(OnLast(from)) = n
    BY <2>1, <2>3, <2>4, ExceptSeq
  <2>6. \A i \in 1..n : OnLast(from)[i] = IF i = n THEN row ELSE messages[i]
    BY <2>1, <2>3, <2>4, ExceptSeq
  <2> QED BY <2>1, <2>3, <2>5, <2>6
<1> QED BY <1>1, <1>2

LEMMA CreditedIs ==
  ASSUME messages \in Seq(Rows), chips \in SUBSET Chats, NEW s, streams[s].chat \in Chats,
         NEW S, chips \subseteq S, streams[s].chat \in S,
         \A i \in 1..Len(messages) : messages[i].from \subseteq S
  PROVE  /\ Credited(s) \in Seq(Rows) /\ Len(Credited(s)) = Len(messages)
         /\ \A i \in 1..Len(messages) : /\ Credited(s)[i].from \subseteq S
                                        /\ Credited(s)[i].drawing = messages[i].drawing
<1>1. CASE ~LastIsAnswer
  BY <1>1 DEF Credited
<1>2. CASE LastIsAnswer
  <2> DEFINE n == Len(messages)
             usage == IF messages[n].usage THEN {} ELSE {streams[s].chat}
             row == [messages[n] EXCEPT !.from = messages[n].from \cup chips \cup usage,
                                        !.usage = TRUE]
  <2>1. n \in Nat /\ n # 0
    BY <1>2, EmptySeq, LenProperties DEF LastIsAnswer
  <2>2. messages[n] \in Rows
    BY <2>1, ElementOfSeq
  <2>0. usage \subseteq S /\ usage \subseteq Chats
    OBVIOUS
  <2>4. Credited(s) = [messages EXCEPT ![n] = row]
    BY <1>2, Zenon DEF Credited
  <2> HIDE DEF usage
  <2>3. /\ row \in Rows /\ row.from = messages[n].from \cup chips \cup usage
        /\ row.drawing = messages[n].drawing
    BY <2>0, <2>2 DEF Rows
  <2> HIDE DEF row
  <2>5. Credited(s) \in Seq(Rows) /\ Len(Credited(s)) = n
    BY <2>1, <2>3, <2>4, ExceptSeq
  <2>6. \A i \in 1..n : Credited(s)[i] = IF i = n THEN row ELSE messages[i]
    BY <2>1, <2>3, <2>4, ExceptSeq
  <2> QED BY <2>0, <2>1, <2>3, <2>5, <2>6
<1> QED BY <1>1, <1>2

LEMMA StateSet ==
  ASSUME NEW t \in Asked, NEW x \in States, NEW d \in BOOLEAN
  PROVE  /\ [t EXCEPT !.state = x, !.disturbed = d] \in Asked
         /\ [t EXCEPT !.state = x, !.disturbed = d].state = x
         /\ [t EXCEPT !.state = x, !.disturbed = d].disturbed = d
         /\ \A e \in {"chat", "drawing", "again"} :
              [t EXCEPT !.state = x, !.disturbed = d][e] = t[e]
         /\ [t EXCEPT !.disturbed = d] = [t EXCEPT !.state = t.state, !.disturbed = d]
BY DEF Asked

\* TypeOK in parts: the talk, the attachment, the rest of the page.
TalkOK ==
  /\ messages \in Seq(Rows) /\ streaming \in BOOLEAN /\ streams \in Seq(Asked)
  /\ chips \in SUBSET Chats /\ drawn \in SUBSET Chats /\ quote \in SUBSET Chats
ComposerOK ==
  /\ image \in [kind : {"none", "file", "drawing"}, chat : Chats \cup {NoChat}]
  /\ pending \in Chats \cup {NoChat} /\ saved \in Nat /\ sent \in Nat
PlaceOK ==
  /\ route \in {"chat", "login"} /\ moves \in 0..MaxMoves
  /\ listed \in SUBSET Chats /\ creating \in Chats \cup {NoChat}
  /\ selected \in Chats \cup {NoChat} /\ loads \in [Chats -> 0..MaxLoads]
  /\ ready \in BOOLEAN /\ crashed \in BOOLEAN

LEMMA Typed == TypeOK <=> TalkOK /\ ComposerOK /\ PlaceOK
BY DEF TypeOK, TalkOK, ComposerOK, PlaceOK, Rows, Asked, States

LEMMA TypedNext == TypeOK' <=> TalkOK' /\ ComposerOK' /\ PlaceOK'
BY DEF TypeOK, TalkOK, ComposerOK, PlaceOK, Rows, Asked, States

\* The answers are the same, but for how they stand.
SameAnswers ==
  /\ streams' \in Seq(Asked) /\ Streams' = Streams /\ Len(streams') = Len(streams)
  /\ \A s \in Streams : \A e \in {"chat", "drawing", "again"} : streams'[s][e] = streams[s][e]

LEMMA Asking ==
  ASSUME TalkOK
  PROVE  /\ Len(streams) \in Nat
         /\ \A s \in Streams : streams[s] \in Asked /\ streams[s].chat \in Chats
<1>1. \A s \in Streams : streams[s] \in Asked
  BY ElementOfSeq DEF TalkOK, Streams
<1> QED BY <1>1, LenProperties DEF TalkOK, Asked

\* The answers after each of them was given another state.
LEMMA Restated ==
  ASSUME TalkOK, streams' \in [Streams -> Asked],
         \A s \in Streams : \A e \in {"chat", "drawing", "again"} : streams'[s][e] = streams[s][e]
  PROVE  SameAnswers
<1>1. Len(streams) \in Nat
  BY Asking
<1>2. streams' \in Seq(Asked)
  BY <1>1, SeqDef DEF Streams
<1>3. Len(streams') = Len(streams)
  BY <1>1, <1>2, LenProperties DEF Streams
<1> QED BY <1>2, <1>3 DEF SameAnswers, Streams

\* One answer ends or reports an error.
LEMMA TurnedIs ==
  ASSUME TalkOK, NEW s \in Streams, NEW x \in States, NEW bad \in BOOLEAN, Turned(s, x, bad)
  PROVE  /\ SameAnswers
         /\ streams'[s].state = x
         /\ \A r \in Streams : r # s =>
              /\ streams'[r].state = streams[r].state
              /\ streams'[r].disturbed = (streams[r].disturbed \/ (bad /\ Open(r)))
<1> DEFINE now(r) == streams[r].disturbed \/ (bad /\ streams[r].state = "open")
           other(r) == [streams[r] EXCEPT !.disturbed = now(r)]
           this == [streams[s] EXCEPT !.state = x, !.disturbed = FALSE]
<1>1. streams' = [r \in Streams |-> IF r = s THEN this ELSE other(r)]
  BY Zenon DEF Turned
<1>2. /\ this \in Asked /\ this.state = x
      /\ \A e \in {"chat", "drawing", "again"} : this[e] = streams[s][e]
  <2>1. streams[s] \in Asked /\ FALSE \in BOOLEAN
    BY Asking
  <2> QED BY <2>1 DEF Asked
<1>3. ASSUME NEW r \in Streams
      PROVE  /\ other(r) \in Asked /\ other(r).state = streams[r].state
             /\ other(r).disturbed = now(r)
             /\ \A e \in {"chat", "drawing", "again"} : other(r)[e] = streams[r][e]
  <2>1. streams[r] \in Asked
    BY Asking
  <2>2. now(r) \in BOOLEAN
    BY <2>1 DEF Asked
  <2> HIDE DEF now
  <2> QED BY <2>1, <2>2 DEF Asked
<1> HIDE DEF this, other
<1>4. streams' \in [Streams -> Asked]
  BY <1>1, <1>2, <1>3
<1>5. \A r \in Streams : \A e \in {"chat", "drawing", "again"} : streams'[r][e] = streams[r][e]
  BY <1>1, <1>2, <1>3
<1> QED BY <1>1, <1>2, <1>3, <1>4, <1>5, Restated DEF Open

\* The property OnlyLateAnswersMix of one step.
Mix ==
  Clean /\ AllMine /\ (Calm \/ drawn \subseteq {selected}) /\ selected' = selected
    => Clean'

StepOK == PageInv' /\ Mix

\* The attachment is of no chat or of the selected one.
ImageMine == image.chat \in {selected, NoChat}

LEMMA Attachments ==
  /\ NoImage \in [kind : {"none", "file", "drawing"}, chat : Chats \cup {NoChat}]
  /\ File \in [kind : {"none", "file", "drawing"}, chat : Chats \cup {NoChat}]
  /\ NoImage.chat = NoChat /\ File.chat = NoChat
  /\ \A c \in Chats : /\ Drawing(c) \in [kind : {"none", "file", "drawing"}, chat : Chats \cup {NoChat}]
                      /\ Drawing(c).chat = c
BY DEF NoImage, File, Drawing

\* A step that leaves the answers alone.
LEMMA KeptStep ==
  ASSUME PageInv, Kept, TalkOK', ComposerOK', PlaceOK', ImageMine', Mix
  PROVE  StepOK
BY KeptKeeps, TypedNext DEF StepOK, PageInv, ImageMine

LEMMA TalkKept ==
  ASSUME PageInv, UNCHANGED <<talk, streams>>
  PROVE  Kept /\ TalkOK' /\ Mix
BY Typed DEF talk, Kept, TalkOK, Mix, Clean, PageInv

LEMMA SelectKeeps ==
  ASSUME PageInv, NEW c \in Chats, Select(c)
  PROVE  /\ ComposerOK' /\ ImageMine'
         /\ selected' \in Chats /\ loads' \in [Chats -> 0..MaxLoads]
<1>1. TypeOK /\ ComposerOK /\ PlaceOK /\ ImageMine
  BY Typed DEF PageInv, ImageMine
<1>2. selected' \in Chats /\ loads' \in [Chats -> 0..MaxLoads]
  BY <1>1, ChatPageAssumption DEF Select, PlaceOK
<1>3. ComposerOK' /\ ImageMine'
  <2>1. CASE c = selected
    BY <1>1, <2>1 DEF Select, Adopt, ComposerOK, ImageMine
  <2>2. CASE c # selected
    BY <1>1, <2>2, Attachments DEF Select, Adopt, ComposerOK, ImageMine
  <2> QED BY <2>1, <2>2
<1> QED BY <1>2, <1>3

LEMMA MountedStep ==
  ASSUME PageInv, NEW c \in Chats \cup {NoChat}, Mounted(c), route' = route,
         moves' \in 0..MaxMoves, saved' \in Nat, sent' \in Nat,
         pending' \in Chats \cup {NoChat}
  PROVE  StepOK
<1>1. TalkOK /\ ComposerOK /\ PlaceOK
  BY Typed DEF PageInv
<1>2. SameAnswers /\ \A s \in Streams : streams'[s].state = "over"
  <2> DEFINE over(s) == [streams[s] EXCEPT !.state = "over", !.disturbed = FALSE]
  <2>1. streams' = [s \in Streams |-> over(s)]
    BY Zenon DEF Mounted
  <2>2. \A s \in Streams : /\ over(s) \in Asked /\ over(s).state = "over"
                           /\ \A e \in {"chat", "drawing", "again"} : over(s)[e] = streams[s][e]
    BY <1>1, Asking, StateSet DEF States
  <2> HIDE DEF over
  <2> QED BY <1>1, <2>1, <2>2, Restated
<1>3. TalkOK'
  BY <1>2, EmptySeq DEF TalkOK, Mounted, SameAnswers
<1>4. ComposerOK' /\ ImageMine'
  BY <1>1, Attachments DEF ComposerOK, ImageMine, Mounted
<1>5. PlaceOK'
  <2>1. 0 \in 0..MaxLoads /\ 1 \in 0..MaxLoads
    BY ChatPageAssumption
  <2>2. loads' = [d \in Chats |-> IF d = c THEN 1 ELSE 0]
    BY DEF Mounted
  <2>3. loads' \in [Chats -> 0..MaxLoads]
    BY <2>1, <2>2
  <2> QED BY <1>1, <2>3 DEF PlaceOK, Mounted
<1>6. Undisturbed'
  BY <1>2 DEF Undisturbed, Open, SameAnswers
<1>7. Clean'
  <2>1. messages' = <<>> /\ chips' = {} /\ quote' = {}
    BY DEF Mounted
  <2> QED BY <2>1, EmptySeq DEF Clean
<1> QED BY <1>3, <1>4, <1>5, <1>6, <1>7, TypedNext DEF StepOK, PageInv, ImageMine, Mix

-----------------------------------------------------------------------------
(* What arrives.                                                           *)

\* The types, for a step that leaves the composer and the page alone.
LEMMA RestKept ==
  ASSUME PageInv, UNCHANGED <<composer, selected>>
  PROVE  ComposerOK' /\ ImageMine'
BY Typed DEF PageInv, ComposerOK, ImageMine, composer

LEMMA PlaceKept ==
  ASSUME PageInv, UNCHANGED <<lists, selected, loads, route, ready>>, moves' \in 0..MaxMoves,
         crashed' \in BOOLEAN
  PROVE  PlaceOK'
BY Typed DEF PageInv, PlaceOK, lists

LEMMA LoadStep ==
  ASSUME PageInv, NEW c \in Chats, LoadAnswers(c), moves' = moves
  PROVE  StepOK
<1>1. TalkOK /\ PlaceOK
  BY Typed DEF PageInv
<1>2. /\ messages' \in Seq(Rows)
      /\ \A i \in 1..Len(messages') : messages'[i].from \subseteq {c}
  <2> DEFINE d0 == {NoChat} \cup {streams[s].drawing : s \in {x \in Streams : streams[x].chat = c}}
             r == [Message("assistant", {c}, NoChat) EXCEPT !.usage = TRUE]
  <2>1. PICK d \in d0 : messages' \in {<<>>, <<Message("user", {c}, d)>>, <<Message("user", {c}, d), r>>}
    BY DEF LoadAnswers, Histories
  <2>0. d \in Chats \cup {NoChat}
    BY <1>1, Asking DEF Asked
  <2> DEFINE q == Message("user", {c}, d)
  <2>2. q \in Rows /\ r \in Rows /\ q.from = {c} /\ r.from = {c}
    BY <2>0 DEF Rows, Message
  <2>6. messages' \in {<<>>, <<q>>, <<q, r>>}
    BY <2>1
  <2> HIDE DEF q, r
  <2>3. CASE messages' = <<>>
    BY <2>3
  <2>4. CASE messages' = <<q>>
    BY <2>2, <2>4
  <2>5. CASE messages' = <<q, r>>
    BY <2>2, <2>5
  <2> QED BY <2>3, <2>4, <2>5, <2>6
<1>3. loads' \in [Chats -> 0..MaxLoads]
  BY <1>1, ChatPageAssumption DEF LoadAnswers, PlaceOK
<1>4. TalkOK' /\ PlaceOK'
  BY <1>1, <1>2, <1>3 DEF TalkOK, PlaceOK, LoadAnswers, lists, site
<1>5. Mix
  BY <1>2 DEF Mix, Clean, AllMine, LoadAnswers
<1> QED BY <1>4, <1>5, RestKept, KeptStep DEF LoadAnswers, Kept, composer

LEMMA RowsOfChats ==
  ASSUME messages \in Seq(Rows), NEW i \in 1..Len(messages)
  PROVE  messages[i] \in Rows /\ messages[i].from \subseteq Chats
<1>1. messages[i] \in Rows
  BY ElementOfSeq
<1> QED BY <1>1 DEF Rows

\* The messages of a step that adds what its answer brings to the last one.
LEMMA MixesWithin ==
  ASSUME PageInv, NEW s \in Streams, Reading(s), selected' = selected,
         messages' \in Seq(Rows), Len(messages') = Len(messages),
         AllMine /\ (Calm \/ drawn \subseteq {selected}) /\ Clean =>
           /\ \A i \in 1..Len(messages) : messages'[i].from \subseteq {selected}
           /\ chips' \cup quote' \subseteq {selected}
  PROVE  Mix
BY DEF Mix, Clean

LEMMA TokenStep ==
  ASSUME PageInv, NEW s \in Streams, Token(s), moves' = moves
  PROVE  StepOK
<1>1. TalkOK /\ PlaceOK /\ streams[s].chat \in Chats
  BY Typed, Asking DEF PageInv
<1>2. messages' = OnLast({streams[s].chat}) /\ messages \in Seq(Rows)
  BY <1>1 DEF Token, TalkOK
<1>3. \A i \in 1..Len(messages) : messages[i].from \subseteq Chats
  BY <1>2, RowsOfChats
<1>4. messages' \in Seq(Rows) /\ Len(messages') = Len(messages)
  BY <1>1, <1>2, <1>3, OnLastIs
<1>5. ASSUME AllMine, Clean
      PROVE  \A i \in 1..Len(messages) : messages'[i].from \subseteq {selected}
  <2>1. streams[s].chat = selected
    BY <1>5 DEF AllMine, Reading, Token
  <2>2. {streams[s].chat} \in SUBSET Chats /\ {streams[s].chat} \subseteq {selected}
    BY <1>1, <2>1
  <2>3. \A i \in 1..Len(messages) : messages[i].from \subseteq {selected}
    BY <1>5 DEF Clean
  <2>4. \A i \in 1..Len(messages) : OnLast({streams[s].chat})[i].from \subseteq {selected}
    BY <1>2, <2>2, <2>3, OnLastIs
  <2> QED BY <1>2, <2>3, <2>4
<1>6. Mix
  BY <1>4, <1>5, MixesWithin DEF Token, Reading, Clean
<1>7. TalkOK'
  BY <1>1, <1>4 DEF TalkOK, Token
<1>8. ComposerOK' /\ ImageMine' /\ PlaceOK'
  BY <1>1, RestKept, PlaceKept DEF Token, PlaceOK, site
<1> QED BY <1>6, <1>7, <1>8, KeptStep DEF Token, Kept

LEMMA ToolCallStep ==
  ASSUME PageInv, NEW s \in Streams, ToolCall(s), moves' = moves
  PROVE  StepOK
<1>1. TalkOK /\ PlaceOK /\ streams[s].chat \in Chats
  BY Typed, Asking DEF PageInv
<1>2. Mix
  BY DEF Mix, Clean, AllMine, Reading, ToolCall
<1>3. TalkOK'
  BY <1>1 DEF TalkOK, ToolCall
<1>4. ComposerOK' /\ ImageMine' /\ PlaceOK'
  BY <1>1, RestKept, PlaceKept DEF ToolCall, PlaceOK, site
<1> QED BY <1>2, <1>3, <1>4, KeptStep DEF ToolCall, Kept

LEMMA DrawingStep ==
  ASSUME PageInv, NEW s \in Streams, DrawingEvent(s), moves' = moves
  PROVE  StepOK
<1>1. TalkOK /\ PlaceOK /\ streams[s].chat \in Chats
  BY Typed, Asking DEF PageInv
<1>2. /\ messages' = OnLast(drawn') /\ messages \in Seq(Rows)
      /\ drawn' = drawn \cup {streams[s].chat} /\ drawn' \in SUBSET Chats
  BY <1>1 DEF DrawingEvent, TalkOK
<1>3. \A i \in 1..Len(messages) : messages[i].from \subseteq Chats
  BY <1>2, RowsOfChats
<1>4. messages' \in Seq(Rows) /\ Len(messages') = Len(messages)
  BY <1>2, <1>3, OnLastIs
<1>5. Calm => drawn \subseteq {streams[s].chat}
  BY DEF PageInv, Calm, Undisturbed, Open, DrawingEvent
<1>6. ASSUME AllMine, Clean, Calm \/ drawn \subseteq {selected}
      PROVE  \A i \in 1..Len(messages) : messages'[i].from \subseteq {selected}
  <2>1. streams[s].chat = selected
    BY <1>6 DEF AllMine, Reading, DrawingEvent
  <2>2. drawn' \subseteq {selected}
    BY <1>2, <1>5, <1>6, <2>1
  <2> QED BY <1>2, <1>6, <2>2, OnLastIs DEF Clean
<1>7. Mix
  BY <1>4, <1>6, MixesWithin DEF DrawingEvent, Reading, Clean
<1>8. TalkOK'
  BY <1>1, <1>2, <1>4 DEF TalkOK, DrawingEvent
<1>9. ComposerOK' /\ ImageMine' /\ PlaceOK'
  BY <1>1, RestKept, PlaceKept DEF DrawingEvent, PlaceOK, site
<1>10. Undisturbed'
  <2>1. streams' = streams /\ streaming' = streaming /\ Open(s)
    BY DEF DrawingEvent, Open
  <2> QED BY <1>2, <2>1 DEF PageInv, Undisturbed, Open, Streams
<1> QED BY <1>7, <1>8, <1>9, <1>10, TypedNext DEF StepOK, PageInv, ImageMine

\* An answer ends, or breaks with an error.
LEMMA Ending ==
  ASSUME PageInv, NEW s \in Streams, Reading(s),
         \/ Close(s) /\ streaming' = FALSE
         \/ Break(s, "erred")
         \/ Break(s, "over"),
         drawn' = drawn
  PROVE  /\ streams' \in Seq(Asked)
         /\ Undisturbed'
<1>1. TalkOK /\ streams[s] \in Asked
  BY Typed, Asking DEF PageInv
<1>2. PICK x \in States, bad \in BOOLEAN :
         /\ Turned(s, x, bad) /\ x # "open"
         /\ bad \/ (Open(s) /\ ~streams[s].disturbed)
  <2>1. "over" \in States /\ "erred" \in States /\ TRUE \in BOOLEAN
    BY DEF States
  <2>2. CASE Close(s)
    <3>1. (streams[s].state = "erred" \/ streams[s].disturbed) \in BOOLEAN
      BY <1>1 DEF Asked
    <3>2. (streams[s].state = "erred" \/ streams[s].disturbed) \/ (Open(s) /\ ~streams[s].disturbed)
      BY DEF Reading, Open
    <3> QED BY <2>1, <2>2, <3>1, <3>2 DEF Close
  <2> QED BY <2>1, <2>2 DEF Break
<1>3. /\ SameAnswers /\ streams'[s].state = x
      /\ \A r \in Streams : r # s =>
           /\ streams'[r].state = streams[r].state
           /\ streams'[r].disturbed = (streams[r].disturbed \/ (bad /\ Open(r)))
  BY <1>1, <1>2, TurnedIs
<1>4. \A r \in Streams : ~(streams'[r].state = "open" /\ ~streams'[r].disturbed)
  <2> SUFFICES ASSUME NEW r \in Streams, streams'[r].state = "open", ~streams'[r].disturbed
               PROVE  FALSE
    OBVIOUS
  <2>1. r # s /\ Open(r) /\ ~streams[r].disturbed /\ ~bad
    BY <1>2, <1>3 DEF Open
  <2>2. r = Len(streams) /\ s = Len(streams)
    BY <1>2, <2>1 DEF PageInv, Undisturbed
  <2> QED BY <2>1, <2>2
<1> QED BY <1>3, <1>4 DEF SameAnswers, Undisturbed, Open

LEMMA DoneStep ==
  ASSUME PageInv, NEW s \in Streams, Done(s), moves' = moves
  PROVE  StepOK
<1>1. TalkOK /\ PlaceOK /\ streams[s].chat \in Chats
  BY Typed, Asking DEF PageInv
<1>2. messages' = Credited(s) /\ messages \in Seq(Rows) /\ chips \in SUBSET Chats
  BY <1>1 DEF Done, TalkOK
<1>3. \A i \in 1..Len(messages) : messages[i].from \subseteq Chats
  BY <1>2, RowsOfChats
<1>4. messages' \in Seq(Rows) /\ Len(messages') = Len(messages)
  BY <1>1, <1>2, <1>3, CreditedIs
<1>5. ASSUME AllMine, Clean
      PROVE  \A i \in 1..Len(messages) : messages'[i].from \subseteq {selected}
  <2>1. streams[s].chat = selected
    BY <1>5 DEF AllMine, Done
  <2> QED BY <1>1, <1>2, <1>5, <2>1, CreditedIs DEF Clean
<1>6. Mix
  BY <1>4, <1>5, MixesWithin DEF Done, Clean
<1>7. streams' \in Seq(Asked) /\ Undisturbed'
  BY Ending DEF Done
<1>8. TalkOK'
  BY <1>1, <1>4, <1>7 DEF TalkOK, Done
<1>9. ComposerOK' /\ ImageMine' /\ PlaceOK'
  BY <1>1, RestKept, PlaceKept DEF Done, PlaceOK, site
<1> QED BY <1>6, <1>7, <1>8, <1>9, TypedNext DEF StepOK, PageInv, ImageMine

LEMMA BreakStep ==
  ASSUME PageInv, NEW s \in Streams, ErrorEvent(s) \/ FetchFails(s), moves' = moves
  PROVE  StepOK
<1>1. TalkOK /\ PlaceOK /\ streams[s].chat \in Chats /\ OnError(s) /\ Reading(s)
  BY Typed, Asking DEF PageInv, ErrorEvent, FetchFails, Reading
<1>2. messages' \in {messages, OnLast({streams[s].chat})} /\ messages \in Seq(Rows)
  BY <1>1 DEF OnError, TalkOK
<1>3. \A i \in 1..Len(messages) : messages[i].from \subseteq Chats
  BY <1>2, RowsOfChats
<1>4. messages' \in Seq(Rows) /\ Len(messages') = Len(messages)
  <2>1. OnLast({streams[s].chat}) \in Seq(Rows)
        /\ Len(OnLast({streams[s].chat})) = Len(messages)
    <3>1. {streams[s].chat} \in SUBSET Chats
      BY <1>1
    <3> QED BY <1>2, <1>3, <3>1, OnLastIs
  <2> QED BY <1>2, <2>1
<1>5. ASSUME AllMine, Clean
      PROVE  \A i \in 1..Len(messages) : messages'[i].from \subseteq {selected}
  <2>1. streams[s].chat = selected
    BY <1>1, <1>5 DEF AllMine
  <2>2. {streams[s].chat} \in SUBSET Chats /\ {streams[s].chat} \subseteq {selected}
    BY <1>1, <2>1
  <2>3. \A i \in 1..Len(messages) : messages[i].from \subseteq {selected}
    BY <1>5 DEF Clean
  <2>4. \A i \in 1..Len(messages) : OnLast({streams[s].chat})[i].from \subseteq {selected}
    BY <1>2, <2>2, <2>3, OnLastIs
  <2> QED BY <1>2, <2>3, <2>4
<1>6. Mix
  BY <1>1, <1>4, <1>5, MixesWithin DEF OnError, Clean
<1>7. streams' \in Seq(Asked) /\ Undisturbed'
  BY <1>1, Ending DEF ErrorEvent, FetchFails, OnError
<1>8. TalkOK'
  BY <1>1, <1>4, <1>7 DEF TalkOK, OnError
<1>9. ComposerOK' /\ ImageMine' /\ PlaceOK'
  BY <1>1, RestKept, PlaceKept DEF OnError, PlaceOK
<1> QED BY <1>6, <1>7, <1>8, <1>9, TypedNext DEF StepOK, PageInv, ImageMine

-----------------------------------------------------------------------------
(* What the user does, and the page itself.                                *)

LEMMA ChoiceStep ==
  ASSUME PageInv, moves' \in 0..MaxMoves,
         \/ \E c \in Chats : SelectChat(c)
         \/ ChatCreated \/ CreateChat \/ ConfigAnswers \/ AttachFile \/ RemoveImage
  PROVE  StepOK
<1>1. ComposerOK /\ PlaceOK /\ ImageMine
  BY Typed DEF PageInv, ImageMine
<1>2. Kept /\ TalkOK' /\ Mix
  BY TalkKept DEF SelectChat, ChatCreated, CreateChat, ConfigAnswers, AttachFile, RemoveImage
<1>3. ComposerOK' /\ ImageMine' /\ PlaceOK'
  <2>1. ASSUME NEW c \in Chats, SelectChat(c)
        PROVE  ComposerOK' /\ ImageMine' /\ PlaceOK'
    BY <1>1, <2>1, SelectKeeps DEF SelectChat, PlaceOK, lists, site
  <2>2. CASE ChatCreated
    <3>1. CASE Select(creating)
      <4>1. creating \in Chats
        BY <1>1, <2>2 DEF ChatCreated, PlaceOK
      <4>2. listed' \in SUBSET Chats /\ creating' = NoChat /\ UNCHANGED site
        BY <1>1, <2>2, <4>1 DEF ChatCreated, PlaceOK
      <4> QED BY <1>1, <3>1, <4>1, <4>2, SelectKeeps DEF PlaceOK, site
    <3>2. CASE UNCHANGED <<listed, composer, selected, loads>>
      <4>1. ComposerOK' /\ ImageMine'
        BY <3>2, RestKept
      <4> QED BY <1>1, <2>2, <3>2, <4>1 DEF ChatCreated, PlaceOK, site
    <3> QED BY <2>2, <3>1, <3>2 DEF ChatCreated
  <2>3. CASE CreateChat
    <3>1. ComposerOK' /\ ImageMine'
      BY <2>3, RestKept DEF CreateChat
    <3> QED BY <1>1, <2>3, <3>1 DEF CreateChat, PlaceOK, site
  <2>4. CASE ConfigAnswers
    BY <1>1, <2>4, Attachments DEF ConfigAnswers, ComposerOK, ImageMine, PlaceOK, lists
  <2>5. CASE AttachFile \/ RemoveImage
    <3>1. image' \in {NoImage, File} /\ UNCHANGED <<pending, saved, sent, lists, site, selected, loads>>
      BY <2>5 DEF AttachFile, RemoveImage
    <3> QED BY <1>1, <3>1, Attachments DEF ComposerOK, ImageMine, PlaceOK, lists, site
  <2> QED BY <2>1, <2>2, <2>3, <2>4, <2>5
<1> QED BY <1>2, <1>3, KeptStep

LEMMA QuoteStep ==
  ASSUME PageInv, moves' \in 0..MaxMoves, ClearChat \/ TakeQuote \/ DropQuote
  PROVE  StepOK
<1>1. TalkOK /\ ComposerOK /\ PlaceOK /\ ImageMine
  BY Typed DEF PageInv, ImageMine
<1>2. CASE ClearChat
  <2>1. TalkOK' /\ ComposerOK' /\ PlaceOK' /\ ImageMine'
    BY <1>1, <1>2, Attachments, EmptySeq
    DEF ClearChat, TalkOK, ComposerOK, PlaceOK, ImageMine, lists, site
  <2>2. Mix
    BY <1>2, EmptySeq DEF ClearChat, Mix, Clean
  <2> QED BY <1>2, <2>1, <2>2, KeptStep DEF ClearChat, Kept
<1>3. CASE TakeQuote \/ DropQuote
  <2>1. /\ quote' \in SUBSET Chats
        /\ quote' = {} \/ \E i \in 1..Len(messages) : quote' = messages[i].from
        /\ UNCHANGED <<messages, streaming, chips, drawn, composer, lists,
                       site, selected, loads, streams>>
    <3>1. CASE DropQuote
      BY <3>1 DEF DropQuote
    <3>2. CASE TakeQuote
      <4>1. PICK i \in 1..Len(messages) : quote' = messages[i].from
        BY <3>2 DEF TakeQuote
      <4>2. messages[i].from \subseteq Chats
        BY <1>1, RowsOfChats DEF TalkOK
      <4> QED BY <3>2, <4>1, <4>2 DEF TakeQuote
    <3> QED BY <1>3, <3>1, <3>2
  <2>2. TalkOK' /\ PlaceOK'
    BY <1>1, <2>1 DEF TalkOK, PlaceOK, lists, site
  <2>3. Mix
    BY <2>1 DEF Mix, Clean
  <2> QED BY <2>1, <2>2, <2>3, RestKept, KeptStep DEF Kept
<1> QED BY <1>2, <1>3

\* A question is asked where no answer is being written.
LEMMA SendStep ==
  ASSUME PageInv, MaySend, NEW context \in Seq(Rows), context # <<>>,
         NEW again \in BOOLEAN, Send(context, again),
         Clean => \A i \in 1..Len(context) : context[i].from \subseteq {selected},
         moves' \in 0..MaxMoves, ComposerOK', ImageMine',
         UNCHANGED <<lists, site, selected, loads>>
  PROVE  StepOK
<1>1. TalkOK /\ PlaceOK /\ selected \in Chats /\ ~streaming
  BY Typed DEF PageInv, MaySend, PlaceOK
<1> DEFINE answer == Message("assistant", {}, NoChat)
           drawing == context[Len(context)].drawing
           mine == Request(drawing, again)
<1>0. drawing \in Chats \cup {NoChat}
  <2>1. context[Len(context)] \in Rows
    BY EmptySeq, LenProperties, ElementOfSeq
  <2> QED BY <2>1 DEF Rows
<1> HIDE DEF drawing
<1>2. answer \in Rows /\ answer.from = {} /\ mine \in Asked
  BY <1>0, <1>1 DEF Message, Rows, Request, Asked, States
<1>3. mine.state = "open" /\ mine.chat = selected
  BY DEF Request
<1>4. messages' = Append(context, answer) /\ streams' = Append(streams, mine)
      /\ streaming' = TRUE /\ chips' = {} /\ drawn' = {} /\ quote' = {}
  BY DEF Send, drawing
<1> HIDE DEF answer, mine
<1>5. /\ messages' \in Seq(Rows) /\ Len(messages') = Len(context) + 1
      /\ \A i \in 1..Len(context) : messages'[i] = context[i]
      /\ messages'[Len(context) + 1] = answer
  BY <1>2, <1>4, AppendProperties
<1>6. /\ streams' \in Seq(Asked) /\ Len(streams') = Len(streams) + 1
      /\ \A s \in 1..Len(streams) : streams'[s] = streams[s]
      /\ streams'[Len(streams) + 1] = mine
  BY <1>1, <1>2, <1>4, AppendProperties DEF TalkOK
<1>7. Len(context) \in Nat /\ Len(streams) \in Nat
  BY <1>1, LenProperties DEF TalkOK
<1>8. TalkOK' /\ PlaceOK'
  BY <1>1, <1>4, <1>5, <1>6 DEF TalkOK, PlaceOK, lists, site
<1>9. Mix
  BY <1>2, <1>4, <1>5, <1>7 DEF Mix, Clean
<1>10. Undisturbed'
  <2>1. \A s \in 1..Len(streams) : streams[s].state = "open" => streams[s].disturbed
    BY <1>1 DEF PageInv, Undisturbed, Open, Streams
  <2>2. \A s \in Streams' : streams'[s].state = "open" /\ ~streams'[s].disturbed => s = Len(streams')
    BY <1>6, <1>7, <2>1 DEF Streams
  <2> QED BY <1>4, <2>2 DEF Undisturbed, Open
<1> QED BY <1>8, <1>9, <1>10, TypedNext DEF StepOK, PageInv, ImageMine

LEMMA SubmitStep ==
  ASSUME PageInv, Submit, moves' \in 0..MaxMoves
  PROVE  StepOK
<1>1. TalkOK /\ ComposerOK /\ PlaceOK /\ selected \in Chats /\ ImageMine /\ MaySend
  BY Typed DEF PageInv, Submit, MaySend, PlaceOK, ImageMine
<1> DEFINE all == {selected} \cup quote \cup ({image.chat} \ {NoChat})
           asked == Message("user", all, image.chat)
           context == Append(messages, asked)
<1>2. asked \in Rows /\ asked.from = all
  BY <1>1 DEF Message, Rows, TalkOK, ComposerOK
<1>3. all \subseteq {selected} \cup quote
  BY <1>1 DEF ImageMine
<1>4. Send(context, FALSE)
  BY DEF Submit
<1> HIDE DEF asked, all
<1>5. /\ context \in Seq(Rows) /\ Len(context) = Len(messages) + 1
      /\ \A i \in 1..Len(messages) : context[i] = messages[i]
      /\ context[Len(messages) + 1] = asked
  BY <1>1, <1>2, AppendProperties DEF TalkOK
<1> HIDE DEF context
<1>6. Len(messages) \in Nat
  BY <1>1, LenProperties DEF TalkOK
<1>7. Clean => \A i \in 1..Len(context) : context[i].from \subseteq {selected}
  BY <1>2, <1>3, <1>5, <1>6 DEF Clean
<1>8. ComposerOK' /\ ImageMine' /\ UNCHANGED <<lists, site, selected, loads>>
  BY <1>1, Attachments DEF Submit, ComposerOK, ImageMine
<1>9. context # <<>>
  BY <1>5, <1>6, EmptySeq
<1> QED BY <1>1, <1>4, <1>5, <1>7, <1>8, <1>9, SendStep

LEMMA RetryStep ==
  ASSUME PageInv, NEW i \in 1..Len(messages), Retry(i), moves' \in 0..MaxMoves
  PROVE  StepOK
<1>1. TalkOK /\ MaySend
  BY Typed DEF PageInv, Retry
<1>2. PICK q \in 1..i : Send(SubSeq(messages, 1, q), TRUE)
  BY DEF Retry
<1> DEFINE context == SubSeq(messages, 1, q)
<1>3. Len(messages) \in Nat /\ q \in Nat /\ q <= Len(messages) /\ q >= 1
  BY <1>1, LenProperties DEF TalkOK
<1>4. \A j \in 1..q : messages[j] \in Rows
  BY <1>1, <1>3, RowsOfChats DEF TalkOK
<1>5. /\ context \in Seq(Rows) /\ Len(context) = q
      /\ \A j \in 1..q : context[j] = messages[j]
  BY <1>3, <1>4, SubSeqProperties
<1> HIDE DEF context
<1>6. Clean => \A j \in 1..Len(context) : context[j].from \subseteq {selected}
  BY <1>3, <1>5 DEF Clean
<1>7. ComposerOK' /\ ImageMine' /\ UNCHANGED <<lists, site, selected, loads>>
  BY RestKept DEF Retry
<1>8. context # <<>>
  BY <1>3, <1>5, EmptySeq
<1> QED BY <1>1, <1>2, <1>5, <1>6, <1>7, <1>8, SendStep DEF context

LEMMA VisitStep ==
  ASSUME PageInv, AttachDrawing \/ VisitSettings, moves' \in 0..MaxMoves
  PROVE  StepOK
<1>1. ComposerOK /\ PlaceOK
  BY Typed DEF PageInv
<1>2. CASE AttachDrawing
  BY <1>1, <1>2, MountedStep DEF AttachDrawing, ComposerOK, PlaceOK
<1>3. CASE VisitSettings
  BY <1>1, <1>3, MountedStep DEF VisitSettings, ComposerOK
<1> QED BY <1>2, <1>3

LEMMA LogOutStep ==
  ASSUME PageInv, LogOut, moves' \in 0..MaxMoves
  PROVE  StepOK
<1>1. TalkOK /\ PlaceOK
  BY Typed DEF PageInv
<1>2. /\ SameAnswers
      /\ \A s \in Streams : \/ streams'[s] = streams[s] /\ (Open(s) => s # Len(streams))
                            \/ streams'[s].state = "aborted" /\ s = Len(streams)
  <2> DEFINE off(s) == [streams[s] EXCEPT !.state = "aborted", !.disturbed = FALSE]
  <2>1. streams' = [s \in Streams |->
          IF s = Len(streams) /\ Reading(s) THEN off(s) ELSE streams[s]]
    BY Zenon DEF LogOut
  <2>2. \A s \in Streams : /\ streams[s] \in Asked /\ off(s) \in Asked /\ off(s).state = "aborted"
                           /\ \A e \in {"chat", "drawing", "again"} : off(s)[e] = streams[s][e]
    BY <1>1, Asking, StateSet DEF States
  <2> HIDE DEF off
  <2>3. streams' \in [Streams -> Asked]
    BY <2>1, <2>2
  <2> QED BY <1>1, <2>1, <2>2, <2>3, Restated DEF Reading, Open
<1>4. TalkOK' /\ PlaceOK' /\ ComposerOK' /\ ImageMine'
  BY <1>1, <1>2, RestKept DEF LogOut, talk, TalkOK, PlaceOK, lists, SameAnswers
<1>5. Undisturbed'
  <2>1. \A s \in Streams : ~(streams'[s].state = "open" /\ ~streams'[s].disturbed)
    BY <1>2 DEF PageInv, Undisturbed, Open
  <2> QED BY <1>2, <2>1 DEF SameAnswers, Undisturbed, Open
<1>7. Mix
  BY DEF Mix, Clean, LogOut, talk
<1> QED BY <1>4, <1>5, <1>7, TypedNext DEF StepOK, PageInv, ImageMine

-----------------------------------------------------------------------------
LEMMA PageInit == Init => PageInv
<1> SUFFICES ASSUME Init PROVE PageInv
  OBVIOUS
<1>1. TalkOK /\ Streams = {}
  <2>1. messages = <<>> /\ streams = <<>> /\ streaming = FALSE
        /\ chips = {} /\ drawn = {} /\ quote = {}
    BY DEF Init
  <2>2. <<>> \in Seq(Rows) /\ <<>> \in Seq(Asked) /\ 1..Len(<<>>) = {}
    BY EmptySeq
  <2> QED BY <2>1, <2>2 DEF TalkOK, Streams
<1>2. ComposerOK /\ ImageMine
  BY Attachments, ChatPageAssumption DEF Init, ComposerOK, ImageMine
<1>3. PlaceOK
  <2>1. 0 \in 0..MaxMoves /\ 0 \in 0..MaxLoads /\ 1 \in 0..MaxLoads
    BY ChatPageAssumption
  <2>2. selected \in Chats
    BY ChatPageAssumption DEF Init
  <2> QED BY <2>1, <2>2, ChatPageAssumption DEF Init, PlaceOK
<1> QED BY <1>1, <1>2, <1>3, Typed DEF PageInv, ImageMine, Undisturbed

LEMMA PageStep == PageInv /\ [Next]_vars => PageInv' /\ [Mix]_vars
<1>1. ASSUME PageInv, UNCHANGED vars PROVE PageInv'
  <2>1. /\ UNCHANGED <<route, moves, selected, loads, streams, listed, creating, ready, crashed>>
        /\ UNCHANGED <<messages, streaming, chips, drawn, quote, image, pending, saved, sent>>
    BY <1>1 DEF vars, talk, composer, lists, site
  <2> QED BY <1>1, <2>1 DEF PageInv, TypeOK, Undisturbed, Open, Streams
<1>2. ASSUME PageInv, Move PROVE StepOK
  <2>1. moves' \in 0..MaxMoves
    BY <1>2, Typed, ChatPageAssumption DEF PageInv, PlaceOK, Move
  <2> QED BY <1>2, <2>1, ChoiceStep, QuoteStep, SubmitStep, RetryStep, VisitStep, LogOutStep
          DEF Move, Uses
<1>3. ASSUME PageInv, Arrive PROVE StepOK
  <2>1. moves' = moves /\ moves' \in 0..MaxMoves
    BY <1>3, Typed DEF PageInv, PlaceOK, Arrive
  <2>2. CASE Answers
    BY <1>3, <2>1, <2>2, LoadStep, ChoiceStep DEF Answers
  <2>3. ASSUME NEW s \in Streams, Hears(s) PROVE StepOK
    BY <1>3, <2>1, <2>3, TokenStep, ToolCallStep, DrawingStep, DoneStep, BreakStep DEF Hears
  <2> QED BY <1>3, <2>2, <2>3 DEF Arrive
<1> QED BY <1>1, <1>2, <1>3 DEF Next, StepOK

\* The variables keep their types: no number of loads, answers or drawings
\* leaves its range.
THEOREM TypeCorrect == Spec => []TypeOK
<1>1. PageInv => TypeOK
  BY DEF PageInv
<1> QED BY <1>1, PageInit, PageStep, PTL DEF Spec

\* While an answer is being written the composer is locked, unless after it
\* began another answer ended that had reported an error, or broke, or was
\* itself disturbed in this way.
THEOREM ComposerLocked == Spec => []LockedWhileAnswering
<1>1. PageInv => LockedWhileAnswering
  BY DEF PageInv, Undisturbed, Open, LockedWhileAnswering
<1> QED BY <1>1, PageInit, PageStep, PTL DEF Spec

\* Text of another chat reaches a clean screen by a late answer only, or by
\* the diagram kept while several answers are written after an error.
THEOREM LateAnswersOnly == Spec => OnlyLateAnswersMix
<1>1. PageInv /\ [Next]_vars => PageInv'
  BY PageStep
<1>2. PageInv /\ [Next]_vars => [Clean /\ AllMine /\ (Calm \/ drawn \subseteq {selected})
                                 /\ selected' = selected => Clean']_vars
  BY PageStep DEF Mix
<1> QED BY <1>1, <1>2, PageInit, PTL DEF Spec, OnlyLateAnswersMix

-----------------------------------------------------------------------------
(* The questions a drawing was posted with.                                *)

Posted(c) == c = NoChat \/ \E r \in Streams : FirstPost(r, c)

\* What was asked before the answer s.
PostedBefore(s, c) == \E r \in 1..(s - 1) : FirstPost(r, c)

PostInv ==
  /\ \A i \in 1..Len(messages) : Posted(messages[i].drawing)
  /\ \A s \in Streams : streams[s].drawing # NoChat =>
       \/ FirstPost(s, streams[s].drawing)
       \/ streams[s].again /\ PostedBefore(s, streams[s].drawing)

\* Every drawing that was posted was first posted with a new question.
LEMMA AllPosted ==
  ASSUME PageInv, PostInv, NEW s \in Streams
  PROVE  Posted(streams[s].drawing)
<1>1. Len(streams) \in Nat
  BY Typed, Asking DEF PageInv
<1>2. \A r \in 1..(s - 1) : r \in Streams
  BY <1>1 DEF Streams
<1> QED BY <1>2 DEF PostInv, Posted, PostedBefore

LEMMA SamePosts ==
  ASSUME PageInv, SameAnswers
  PROVE  /\ \A r \in Streams : \A c : FirstPost(r, c)' <=> FirstPost(r, c)
         /\ \A c : Posted(c) => Posted(c)'
         /\ \A s \in Streams : \A c : PostedBefore(s, c) => PostedBefore(s, c)'
<1>1. \A r \in Streams : /\ streams'[r].chat = streams[r].chat
                         /\ streams'[r].drawing = streams[r].drawing
                         /\ streams'[r].again = streams[r].again
  <2> SUFFICES ASSUME NEW r \in Streams
               PROVE  /\ streams'[r].chat = streams[r].chat
                      /\ streams'[r].drawing = streams[r].drawing
                      /\ streams'[r].again = streams[r].again
    OBVIOUS
  <2>1. \A e \in {"chat", "drawing", "again"} : streams'[r][e] = streams[r][e]
    BY DEF SameAnswers
  <2>2. "chat" \in {"chat", "drawing", "again"} /\ "drawing" \in {"chat", "drawing", "again"}
        /\ "again" \in {"chat", "drawing", "again"}
    OBVIOUS
  <2> QED BY <2>1, <2>2
<1>2. \A r \in Streams : \A c : FirstPost(r, c)' <=> FirstPost(r, c)
  BY <1>1 DEF FirstPost
<1>3. Len(streams) \in Nat
  BY Typed, Asking DEF PageInv
<1>4. \A s \in Streams : \A r \in 1..(s - 1) : r \in Streams
  BY <1>3 DEF Streams
<1> QED BY <1>2, <1>4 DEF Posted, PostedBefore, SameAnswers

\* The invariant of the next state, its drawings named.
LEMMA PostRead ==
  ASSUME \A i \in 1..Len(messages') : \A c : c = messages'[i].drawing => Posted(c)',
         \A s \in Streams' : \A c : c = streams'[s].drawing /\ c # NoChat =>
           FirstPost(s, c)' \/ (streams'[s].again /\ PostedBefore(s, c)')
  PROVE  PostInv'
BY DEF PostInv, Posted, FirstPost, PostedBefore

\* A step that asks nothing, and shows no question that was not shown or asked.
LEMMA PostKeeps ==
  ASSUME PageInv, PostInv, SameAnswers,
         \A i \in 1..Len(messages') :
           \/ messages'[i].drawing = NoChat
           \/ \E j \in 1..Len(messages) : messages'[i].drawing = messages[j].drawing
           \/ \E s \in Streams : messages'[i].drawing = streams[s].drawing
  PROVE  PostInv'
<1>1. \A i \in 1..Len(messages') : Posted(messages'[i].drawing)
  BY AllPosted DEF PostInv, Posted
<1>2. \A i \in 1..Len(messages') : \A c : c = messages'[i].drawing => Posted(c)'
  BY <1>1, SamePosts
<1>3. \A s \in Streams : streams'[s].drawing = streams[s].drawing /\ streams'[s].again = streams[s].again
  BY DEF SameAnswers
<1>4. \A s \in Streams : \A c : c = streams'[s].drawing /\ c # NoChat =>
         \/ FirstPost(s, c)'
         \/ streams'[s].again /\ PostedBefore(s, c)'
  <2> SUFFICES ASSUME NEW s \in Streams, NEW c, c = streams'[s].drawing, c # NoChat
               PROVE  \/ FirstPost(s, c)'
                      \/ streams'[s].again /\ PostedBefore(s, c)'
    OBVIOUS
  <2>1. FirstPost(s, c) \/ (streams[s].again /\ PostedBefore(s, c))
    BY <1>3 DEF PostInv
  <2> QED BY <1>3, <2>1, SamePosts
<1>5. Streams' = Streams
  BY DEF SameAnswers
<1> QED BY <1>2, <1>4, <1>5, PostRead

\* A question is asked: a new one with a drawing of its own chat or none, or
\* one from the screen again.
LEMMA AskKeeps ==
  ASSUME PageInv, PostInv, NEW context \in Seq(Rows), NEW n \in Nat, Len(context) = n + 1,
         NEW again \in BOOLEAN, Send(context, again),
         \A i \in 1..n : Posted(context[i].drawing),
         IF again THEN Posted(context[n + 1].drawing)
                  ELSE context[n + 1].drawing \in {NoChat, selected}
  PROVE  PostInv'
<1> DEFINE answer == Message("assistant", {}, NoChat)
           drawing == context[n + 1].drawing
           mine == Request(drawing, again)
<1>1. /\ mine.chat = selected /\ mine.again = again /\ mine.drawing = drawing
      /\ answer.drawing = NoChat
  BY DEF Request, Message
<1>2. messages' = Append(context, answer) /\ streams' = Append(streams, mine)
  BY DEF Send
<1> HIDE DEF answer, mine
<1>3. /\ Len(messages') = n + 2 /\ messages'[n + 2] = answer
      /\ \A i \in 1..(n + 1) : messages'[i] = context[i]
  BY <1>2, AppendProperties
<1>4. PICK m \in Nat :
        /\ m = Len(streams) /\ Len(streams') = m + 1 /\ streams'[m + 1] = mine
        /\ \A s \in 1..m : streams'[s] = streams[s]
  BY <1>2, Typed, Asking, AppendProperties DEF PageInv, TalkOK
<1> DEFINE new == m + 1
<1>0. /\ new \in Streams' /\ Streams = 1..(new - 1)
      /\ \A s \in Streams' : s \in Streams \/ s = new
      /\ \A s \in Streams : s \in Streams' /\ \A r \in 1..(s - 1) : r \in Streams
  BY <1>4 DEF Streams
<1>11. streams'[new] = mine /\ \A s \in Streams : streams'[s] = streams[s]
  BY <1>4 DEF Streams
<1> HIDE DEF new
<1>5. \A r \in Streams : \A c : FirstPost(r, c)' <=> FirstPost(r, c)
  BY <1>11 DEF FirstPost
<1>6. /\ \A c : Posted(c) => Posted(c)'
      /\ \A s \in Streams : \A c : PostedBefore(s, c) => PostedBefore(s, c)'
      /\ \A c : Posted(c) /\ c # NoChat => PostedBefore(new, c)'
  BY <1>0, <1>5 DEF Posted, PostedBefore
<1>7. \A c : c = drawing /\ c # NoChat =>
        FirstPost(new, c)' \/ (again /\ PostedBefore(new, c)')
  <2>1. CASE again
    BY <2>1, <1>6
  <2>2. CASE ~again
    <3>1. streams'[new].drawing = drawing /\ streams'[new].chat = selected /\ ~streams'[new].again
      BY <1>1, <1>11, <2>2
    <3>2. drawing \in {NoChat, selected}
      BY <2>2
    <3> QED BY <3>1, <3>2 DEF FirstPost
  <2> QED BY <2>1, <2>2
<1>8. \A c : c = drawing => Posted(c)'
  <2>1. CASE again
    BY <2>1, <1>6
  <2>2. CASE ~again
    BY <1>0, <1>7, <2>2 DEF Posted
  <2> QED BY <2>1, <2>2
<1>9. \A i \in 1..Len(messages') : \A c : c = messages'[i].drawing => Posted(c)'
  <2>1. \A i \in 1..Len(messages') : i \in 1..n \/ i = n + 1 \/ i = n + 2
    BY <1>3
  <2>2. \A i \in 1..n : i \in 1..(n + 1)
    OBVIOUS
  <2>3. Posted(NoChat)'
    BY DEF Posted
  <2> QED BY <1>1, <1>3, <1>6, <1>8, <2>1, <2>2, <2>3
<1>10. \A s \in Streams' : \A c : c = streams'[s].drawing /\ c # NoChat =>
         FirstPost(s, c)' \/ (streams'[s].again /\ PostedBefore(s, c)')
  <2>1. \A s \in Streams : \A c : c = streams[s].drawing /\ c # NoChat =>
          FirstPost(s, c)' \/ (streams[s].again /\ PostedBefore(s, c)')
    BY <1>5, <1>6 DEF PostInv
  <2> QED BY <1>0, <1>1, <1>7, <1>11, <2>1
<1> QED BY <1>9, <1>10, PostRead

LEMMA SameStreams ==
  ASSUME PageInv, streams' = streams
  PROVE  SameAnswers
BY Typed DEF PageInv, TalkOK, SameAnswers, Streams

\* What an answer brings leaves the questions as they are.
LEMMA HearsPost ==
  ASSUME PageInv, PostInv, NEW s \in Streams, Hears(s)
  PROVE  PostInv'
<1>1. TalkOK /\ streams[s] \in Asked /\ {streams[s].chat} \in SUBSET Chats
  BY Typed, Asking DEF PageInv
<1>2. SameAnswers
  <2>1. CASE Token(s) \/ ToolCall(s) \/ DrawingEvent(s)
    BY <2>1, SameStreams DEF Token, ToolCall, DrawingEvent
  <2>2. "over" \in States /\ "erred" \in States /\ TRUE \in BOOLEAN
        /\ (streams[s].state = "erred" \/ streams[s].disturbed) \in BOOLEAN
    BY <1>1 DEF States, Asked
  <2>3. CASE Done(s)
    BY <1>1, <2>2, <2>3, TurnedIs DEF Done, Close
  <2>4. CASE ErrorEvent(s) \/ FetchFails(s)
    BY <1>1, <2>2, <2>4, TurnedIs DEF ErrorEvent, FetchFails, Break
  <2> QED BY <2>1, <2>3, <2>4 DEF Hears
<1>3. messages \in Seq(Rows) /\ chips \in SUBSET Chats /\ drawn \in SUBSET Chats
  BY <1>1 DEF TalkOK
<1>4. \A i \in 1..Len(messages) : messages[i].from \subseteq Chats
  BY <1>3, RowsOfChats
<1>5. \A from \in SUBSET Chats :
        /\ Len(OnLast(from)) = Len(messages)
        /\ \A i \in 1..Len(messages) : OnLast(from)[i].drawing = messages[i].drawing
  BY <1>3, <1>4, OnLastIs
<1>6. /\ Len(Credited(s)) = Len(messages)
      /\ \A i \in 1..Len(messages) : Credited(s)[i].drawing = messages[i].drawing
  BY <1>1, <1>3, <1>4, CreditedIs
<1>7. \/ messages' = messages \/ messages' = Credited(s)
      \/ \E from \in SUBSET Chats : messages' = OnLast(from)
  <2>1. CASE Token(s)
    BY <1>1, <2>1 DEF Token
  <2>2. CASE ToolCall(s)
    BY <2>2 DEF ToolCall
  <2>3. CASE DrawingEvent(s)
    <3>1. drawn \cup {streams[s].chat} \in SUBSET Chats
      BY <1>1, <1>3
    <3> QED BY <2>3, <3>1 DEF DrawingEvent
  <2>4. CASE Done(s)
    BY <2>4 DEF Done
  <2>5. CASE ErrorEvent(s) \/ FetchFails(s)
    BY <1>1, <2>5 DEF ErrorEvent, FetchFails, OnError
  <2> QED BY <2>1, <2>2, <2>3, <2>4, <2>5 DEF Hears
<1>8. /\ Len(messages') = Len(messages)
      /\ \A i \in 1..Len(messages) : messages'[i].drawing = messages[i].drawing
  BY <1>5, <1>6, <1>7
<1> QED BY <1>2, <1>8, PostKeeps

\* The messages of a chat come with drawings that were posted in it.
LEMMA LoadPost ==
  ASSUME PageInv, PostInv, NEW c \in Chats, LoadAnswers(c)
  PROVE  PostInv'
<1> DEFINE d0 == {NoChat} \cup {streams[s].drawing : s \in {x \in Streams : streams[x].chat = c}}
           r == [Message("assistant", {c}, NoChat) EXCEPT !.usage = TRUE]
<1>1. PICK d \in d0 : messages' \in {<<>>, <<Message("user", {c}, d)>>, <<Message("user", {c}, d), r>>}
  BY DEF LoadAnswers, Histories
<1> DEFINE q == Message("user", {c}, d)
<1>2. messages' \in {<<>>, <<q>>, <<q, r>>}
  BY <1>1
<1>3. q.drawing = d /\ r.drawing = NoChat
  BY DEF Message
<1>4. d = NoChat \/ \E s \in Streams : d = streams[s].drawing
  OBVIOUS
<1> HIDE DEF q, r, d0
<1>5. \A i \in 1..Len(messages') : messages'[i].drawing \in {d, NoChat}
  <2>1. CASE messages' = <<>>
    BY <2>1
  <2>2. CASE messages' = <<q>>
    BY <2>2, <1>3
  <2>3. CASE messages' = <<q, r>>
    BY <2>3, <1>3
  <2> QED BY <1>2, <2>1, <2>2, <2>3
<1> QED BY <1>4, <1>5, PostKeeps, SameStreams DEF LoadAnswers

LEMMA SubmitPost ==
  ASSUME PageInv, PostInv, Submit
  PROVE  PostInv'
<1>1. TalkOK /\ ComposerOK /\ selected \in Chats /\ image.chat \in {selected, NoChat}
  BY Typed DEF PageInv, Submit, MaySend, PlaceOK
<1> DEFINE all == {selected} \cup quote \cup ({image.chat} \ {NoChat})
           asked == Message("user", all, image.chat)
           context == Append(messages, asked)
<1>2. asked \in Rows /\ asked.drawing = image.chat
  BY <1>1 DEF Message, Rows, TalkOK, ComposerOK
<1>3. Send(context, FALSE)
  BY DEF Submit
<1> HIDE DEF asked
<1>4. /\ Len(messages) \in Nat /\ context \in Seq(Rows) /\ Len(context) = Len(messages) + 1
      /\ \A i \in 1..Len(messages) : context[i] = messages[i]
      /\ context[Len(messages) + 1] = asked
  BY <1>1, <1>2, LenProperties, AppendProperties DEF TalkOK
<1> HIDE DEF context
<1>5. \A i \in 1..Len(messages) : Posted(context[i].drawing)
  BY <1>4 DEF PostInv
<1> QED BY <1>1, <1>2, <1>3, <1>4, <1>5, AskKeeps

LEMMA RetryPost ==
  ASSUME PageInv, PostInv, NEW i \in 1..Len(messages), Retry(i)
  PROVE  PostInv'
<1>1. TalkOK
  BY Typed DEF PageInv
<1>2. PICK q \in 1..i : Send(SubSeq(messages, 1, q), TRUE)
  BY DEF Retry
<1> DEFINE context == SubSeq(messages, 1, q)
<1>3. Len(messages) \in Nat /\ q \in Nat /\ q <= Len(messages) /\ q >= 1
  BY <1>1, LenProperties DEF TalkOK
<1>4. \A j \in 1..q : messages[j] \in Rows
  BY <1>1, <1>3, RowsOfChats DEF TalkOK
<1>5. /\ context \in Seq(Rows) /\ Len(context) = q
      /\ \A j \in 1..q : context[j] = messages[j]
  BY <1>3, <1>4, SubSeqProperties
<1>6. Send(context, TRUE)
  BY <1>2
<1> HIDE DEF context
<1>7. \A j \in 1..q : Posted(context[j].drawing)
  BY <1>3, <1>5 DEF PostInv
<1> DEFINE n == q - 1
<1>8. n \in Nat /\ q = n + 1 /\ \A j \in 1..n : j \in 1..q
  BY <1>3
<1>9. n + 1 \in 1..q
  BY <1>8
<1> HIDE DEF n
<1> QED BY <1>5, <1>6, <1>7, <1>8, <1>9, AskKeeps

LEMMA PostStep == PageInv /\ PostInv /\ [Next]_vars => PostInv'
<1> SUFFICES ASSUME PageInv, PostInv, [Next]_vars PROVE PostInv'
  OBVIOUS
<1>1. ASSUME UNCHANGED <<messages, streams>> PROVE PostInv'
  BY <1>1, PostKeeps, SameStreams
<1>2. ASSUME SameAnswers, messages' \in {messages, <<>>} PROVE PostInv'
  <2>1. \A i \in 1..Len(messages') : \E j \in 1..Len(messages) : messages'[i].drawing = messages[j].drawing
    BY <1>2, EmptySeq
  <2> QED BY <1>2, <2>1, PostKeeps
<1>3. ASSUME AttachDrawing \/ VisitSettings PROVE PostInv'
  <2>1. TalkOK
    BY Typed DEF PageInv
  <2> DEFINE over(s) == [streams[s] EXCEPT !.state = "over", !.disturbed = FALSE]
  <2>2. streams' = [s \in Streams |-> over(s)] /\ messages' = <<>>
    BY <1>3, Zenon DEF AttachDrawing, VisitSettings, Mounted
  <2>3. \A s \in Streams : /\ over(s) \in Asked
                           /\ \A e \in {"chat", "drawing", "again"} : over(s)[e] = streams[s][e]
    BY <2>1, Asking, StateSet DEF States
  <2> HIDE DEF over
  <2>4. SameAnswers
    BY <2>1, <2>2, <2>3, Restated
  <2> QED BY <1>2, <2>2, <2>4
<1>4. ASSUME LogOut PROVE PostInv'
  <2>1. TalkOK
    BY Typed DEF PageInv
  <2> DEFINE off(s) == [streams[s] EXCEPT !.state = "aborted", !.disturbed = FALSE]
  <2>2. streams' = [s \in Streams |->
          IF s = Len(streams) /\ Reading(s) THEN off(s) ELSE streams[s]] /\ messages' = messages
    BY <1>4, Zenon DEF LogOut, talk
  <2>3. \A s \in Streams : /\ streams[s] \in Asked /\ off(s) \in Asked
                           /\ \A e \in {"chat", "drawing", "again"} : off(s)[e] = streams[s][e]
    BY <2>1, Asking, StateSet DEF States
  <2> HIDE DEF off
  <2>5. streams' \in [Streams -> Asked]
    BY <2>2, <2>3
  <2>4. SameAnswers
    BY <2>1, <2>2, <2>3, <2>5, Restated
  <2> QED BY <1>2, <2>2, <2>4
<1>5. ASSUME ClearChat PROVE PostInv'
  BY <1>2, <1>5, SameStreams DEF ClearChat
<1>6. ASSUME \/ \E c \in Chats : SelectChat(c)
             \/ CreateChat \/ TakeQuote \/ DropQuote \/ AttachFile \/ RemoveImage
             \/ ChatCreated \/ ConfigAnswers
      PROVE  UNCHANGED <<messages, streams>>
  BY <1>6 DEF SelectChat, CreateChat, TakeQuote, DropQuote, AttachFile, RemoveImage,
              ChatCreated, ConfigAnswers, talk
<1>7. CASE UNCHANGED vars
  BY <1>1, <1>7 DEF vars, talk
<1>8. CASE Uses
  BY <1>1, <1>3, <1>4, <1>5, <1>6, <1>8, SubmitPost, RetryPost DEF Uses
<1>9. CASE Answers
  BY <1>1, <1>6, <1>9, LoadPost DEF Answers
<1> QED BY <1>7, <1>8, <1>9, HearsPost DEF Next, Move, Arrive

\* A drawing is attached in the chat it was made for and nowhere else, and to
\* one new question at most; it is posted again only by a retry of that
\* question.
THEOREM DrawingsHaveOneQuestion == Spec => []DrawingHasOneQuestion
<1>1. Init => PostInv
  <2>1. Init => messages = <<>> /\ streams = <<>>
    BY DEF Init
  <2>2. 1..Len(<<>>) = {}
    BY EmptySeq
  <2> QED BY <2>1, <2>2 DEF PostInv, Streams
<1>2. PageInv /\ [Next]_vars => PageInv'
  BY PageStep
<1>3. DraftInv /\ PageInv /\ PostInv => DrawingHasOneQuestion
  BY DEF DraftInv, PostInv, PostedBefore, Outstanding, DrawingHasOneQuestion
<1> QED BY <1>1, <1>2, <1>3, DraftInit, DraftStep, PageInit, PostStep, PTL DEF Spec

=============================================================================
