-------------------------------- MODULE Sidebar --------------------------------
(***************************************************************************)
(* The sidebar of the chat page: its subjects and chats (AppSidebar.tsx,   *)
(* InlineRename.tsx, MoreMenu.tsx and the state of pages/ChatPage.tsx that *)
(* backs them), the calls of lib/api.ts behind them, and the routes that   *)
(* answer (routes/subjects_chats.py, the titles of routes/chat.py).        *)
(*                                                                         *)
(* Subjects and chats are items with a name.  A name is changed by the     *)
(* user, by an edit in place, and by the server, which names a new chat    *)
(* after its first question; lists are read while both go on.  Nothing     *)
(* orders the calls, and their answers change the page when they come.     *)
(***************************************************************************)
EXTENDS Naturals, Sequences, FiniteSets, SequencesExt, Lists

CONSTANTS
  Subjects, Chats,
  Home,         \* the subject a chat is made in
  FirstNames,   \* the name of what exists when the page opens, None of the rest
  Names,        \* names of items
  NewChat,      \* the name of a chat that was never named
  EmptyTitle,   \* the empty title, of a model that answers with blanks
  Cut,          \* what is left of a name after 40 characters
  None,
  MaxCalls,     \* bound: calls in flight
  MaxMoves      \* bound: what the user does

Items == Subjects \cup Chats

VARIABLES
  side,    \* the state of the page
  calls,   \* what was asked of the server and has not been heard of
  names    \* the name of each item that exists, at the server

vars == <<side, calls, names>>

\* The items whose names must differ from the name of i.
Siblings(i) ==
  (IF i \in Subjects THEN Subjects ELSE {c \in Chats : Home[c] = Home[i]}) \ {i}

Taken(i, v, list) == \E j \in Siblings(i) : list[j] = v

Exists(i) == names[i] # None
ShownItem(i) == side.shown[i] # None

-----------------------------------------------------------------------------
(* Calls.                                                                  *)

\* The items an answer may say something about.
About(call) ==
  CASE call.kind = "load" -> Items
    [] call.kind = "list" -> {c \in Chats : Home[c] = call.item}
    [] OTHER -> {call.item}

Call(kind, item, value) ==
  [kind |-> kind, item |-> item, value |-> value, at |-> "sent", list |-> None, heard |-> TRUE]

Room == Len(calls) < MaxCalls

\* Two calls about one item that are out together may be answered in any
\* order.  mixed only serves the property.
Asked(page, out, call) ==
  [page EXCEPT !.mixed = @ \cup
     UNION {About(call) \cap About(out[n]) : n \in DOMAIN out}]

Ask(page, call) ==
  /\ Room /\ calls' = Append(calls, call)
  /\ side' = Asked(page, calls, call)

Opened == [loading |-> TRUE, shown |-> [i \in Items |-> None], editing |-> None,
           dialog |-> FALSE, mixed |-> {}, moves |-> 0]

-----------------------------------------------------------------------------
(* The server.                                                             *)

\* A call is answered to the page that made it, if it is still there.
Answer(n, at, list) ==
  calls' = IF calls[n].heard THEN [calls EXCEPT ![n].at = at, ![n].list = list]
           ELSE RemoveAt(calls, n)

Sent(n, kind) == calls[n].kind = kind /\ calls[n].at = "sent"

\* get_subjects and get_chats.
ServeList(n) ==
  /\ Sent(n, "load") \/ Sent(n, "list")
  /\ Answer(n, "done", names)
  /\ UNCHANGED <<side, names>>

ServeCreate(n) ==
  /\ Sent(n, "create") /\ ~Exists(calls[n].item)
  /\ names' = [names EXCEPT ![calls[n].item] = calls[n].value]
  /\ Answer(n, "done", None)
  /\ UNCHANGED side

\* The routes that rename: refused if the name is taken.
ServeRename(n) ==
  /\ Sent(n, "rename")
  /\ IF Taken(calls[n].item, calls[n].value, names)
     THEN Answer(n, "refused", None) /\ UNCHANGED names
     ELSE /\ names' = [names EXCEPT ![calls[n].item] = calls[n].value]
          /\ Answer(n, "done", None)
  /\ UNCHANGED side

\* A request that is lost, or whose answer is: the page hears of a failure.
Fail(n) ==
  /\ calls[n].kind \in {"load", "list", "create", "rename"}
  /\ calls[n].at \in {"sent", "done"}
  /\ Answer(n, "failed", None)
  /\ side' = [side EXCEPT !.mixed = @ \cup
                IF calls[n].at = "done" THEN About(calls[n]) ELSE {}]
  /\ UNCHANGED names

\* _maybe_generate_title checks the name before the model is asked for one.
CheckName(n) ==
  /\ Sent(n, "name")
  /\ calls' = IF names[calls[n].item] = NewChat THEN [calls EXCEPT ![n].at = "asked"]
              ELSE RemoveAt(calls, n)
  /\ UNCHANGED <<side, names>>

\* The model has found a title.  It is written first, if it is neither blank
\* nor taken, and at most 40 characters of it (update_chat_title, whose refusal
\* nobody reads); then all of it is sent to the page.
FindName(n) ==
  LET item == calls[n].item
  IN  /\ calls[n].kind = "name" /\ calls[n].at = "asked"
      /\ \E v \in Names \cup {EmptyTitle} :
           LET kept == IF v = EmptyTitle \/ Taken(item, Cut[v], names) THEN names[item] ELSE Cut[v]
           IN  /\ names' = [names EXCEPT ![item] = kept]
               /\ IF calls[n].heard
                  THEN /\ calls' = [calls EXCEPT ![n] = Call("event", item, v)]
                       /\ side' = [side EXCEPT !.mixed = @ \cup IF kept = v THEN {} ELSE {item}]
                  ELSE calls' = RemoveAt(calls, n) /\ UNCHANGED side

\* The model finds none, or the stream of the answer breaks: the page never
\* hears of the name, which the server has written, will yet write, or not.
LoseName(n) ==
  LET item == calls[n].item
  IN  /\ calls[n].kind \in {"name", "event"}
      /\ \/ calls' = RemoveAt(calls, n) /\ calls[n].kind = "name" /\ UNCHANGED side
         \/ /\ calls' = IF calls[n].kind = "name" THEN [calls EXCEPT ![n].heard = FALSE]
                        ELSE RemoveAt(calls, n)
            /\ side' = [side EXCEPT !.mixed = @ \cup {item}]
      /\ UNCHANGED names

-----------------------------------------------------------------------------
(* What the page hears.                                                    *)

Over(n) == calls' = RemoveAt(calls, n) /\ UNCHANGED names

\* Mutant: a failed load is taken for an answer.
LoadedAnyhow(n) ==
  /\ calls[n].kind = "load" /\ calls[n].at \in {"done", "failed"}
  /\ side' = [side EXCEPT !.loading = FALSE, !.shown = calls[n].list]
  /\ Over(n)

\* loadSubjects, to its end.
Loaded(n) ==
  /\ calls[n].kind = "load" /\ calls[n].at \in {"done", "failed"}
  /\ side' = [side EXCEPT !.loading = FALSE,
                !.shown = IF calls[n].at = "done" THEN calls[n].list ELSE @]
  /\ Over(n)

\* handleChatCreated after its await: the list of the whole subject.
Listed(n) ==
  /\ calls[n].kind = "list" /\ calls[n].at \in {"done", "failed"}
  /\ side' = IF calls[n].at = "failed" THEN side
             ELSE [side EXCEPT !.shown =
                     [i \in Items |-> IF i \in About(calls[n]) THEN calls[n].list[i] ELSE @[i]]]
  /\ Over(n)

\* The dialog closes, whatever it is open for by now.  A subject is shown at
\* once; for a chat the list of its subject is read.
Created(n) ==
  LET call == calls[n]
      rest == RemoveAt(calls, n)
  IN  /\ call.kind = "create" /\ call.at \in {"done", "failed"}
      /\ UNCHANGED names
      /\ IF call.at = "failed" THEN UNCHANGED side /\ calls' = rest
         ELSE IF call.item \in Subjects
         THEN /\ side' = [side EXCEPT !.dialog = FALSE, !.shown[call.item] = call.value]
              /\ calls' = rest
         ELSE LET list == Call("list", Home[call.item], None)
              IN  /\ side' = Asked([side EXCEPT !.dialog = FALSE], rest, list)
                  /\ calls' = Append(rest, list)

\* Mutant: the new name goes to the item that is being edited by now.
RenamedEdited(n) ==
  LET call == calls[n]
  IN  /\ call.kind = "rename" /\ call.at \in {"done", "refused", "failed"}
      /\ side' = IF call.at # "done" \/ side.editing = None THEN side
                 ELSE [side EXCEPT !.editing = None, !.shown[side.editing] = call.value]
      /\ Over(n)

\* onSave after its await: the new name is shown and the edit closes, also
\* when it is another one by now.  A refusal leaves it open.
Renamed(n) ==
  LET call == calls[n]
  IN  /\ call.kind = "rename" /\ call.at \in {"done", "refused", "failed"}
      /\ side' = IF call.at # "done" THEN side
                 ELSE [side EXCEPT !.editing = None,
                         !.shown[call.item] = IF @ = None THEN None ELSE call.value]
      /\ Over(n)

\* onTitle.
Titled(n) ==
  /\ calls[n].kind = "event"
  /\ side' = [side EXCEPT !.shown[calls[n].item] = IF @ = None THEN None ELSE calls[n].value]
  /\ Over(n)

-----------------------------------------------------------------------------
(* The user.                                                               *)

Move(page) ==
  /\ side.moves < MaxMoves /\ ~side.loading
  /\ side' = [page EXCEPT !.moves = @ + 1]
  /\ UNCHANGED <<calls, names>>

MoveAsking(page, call) ==
  /\ side.moves < MaxMoves /\ ~side.loading
  /\ Ask([page EXCEPT !.moves = @ + 1], call)
  /\ UNCHANGED names

\* startEditSubject and startEditChat: one edit at a time.
StartEdit(i) ==
  /\ ShownItem(i) /\ side.editing # i
  /\ Move([side EXCEPT !.editing = i])

\* Escape, or a name left as it was.
CancelEdit ==
  /\ side.editing # None
  /\ Move([side EXCEPT !.editing = None])

\* handleSave, by Enter and again when the focus is lost: a name is left as it
\* was if it is the one shown by now, and refused here if another item on
\* screen has it.
SaveEdit(v) ==
  LET i == side.editing
  IN  /\ i # None /\ ShownItem(i) /\ v # side.shown[i]
      /\ ~Taken(i, v, side.shown)
      /\ MoveAsking(side, Call("rename", i, v))

OpenDialog == ~side.dialog /\ Move([side EXCEPT !.dialog = TRUE])
CloseDialog == side.dialog /\ Move([side EXCEPT !.dialog = FALSE])

\* handleCreateSubject and handleCreateChat, in a subject on screen.  Nothing
\* keeps the dialog from being submitted twice.
Create(i, v) ==
  /\ side.dialog
  /\ ~Exists(i) /\ \A n \in DOMAIN calls : calls[n].item # i
  /\ IF i \in Subjects THEN TRUE ELSE v = NewChat /\ ShownItem(Home[i])
  /\ MoveAsking(side, Call("create", i, v))

\* A question is asked in a chat, one at a time: the server names the chat on
\* the way.
Question(c) ==
  /\ ShownItem(c)
  /\ \A n \in DOMAIN calls : calls[n].kind \in {"name", "event"} => ~calls[n].heard
  /\ MoveAsking(side, Call("name", c, None))

\* To another page and back.  The page forgets its calls; those that were sent
\* are served all the same, and a name may be found and written or not.
Revisit ==
  LET served == {call \in ToSet(calls) : call.at = "sent" /\ call.kind \in {"create", "rename"}}
      named == {call \in ToSet(calls) : call.kind = "name"}
  IN  /\ side.moves < MaxMoves
      /\ \E kept \in {served, served \cup named} :
           LET out == Keep(calls, kept)
               load == Call("load", None, None)
           IN  /\ side' = [Asked(Opened, out, load) EXCEPT !.moves = side.moves + 1]
               /\ calls' = Append([n \in DOMAIN out |-> [out[n] EXCEPT !.heard = FALSE]], load)
      /\ UNCHANGED names

-----------------------------------------------------------------------------
Init ==
  /\ calls = <<Call("load", None, None)>> /\ side = Opened /\ names = FirstNames

Serves(n) ==
  \/ ServeList(n) \/ ServeCreate(n) \/ ServeRename(n) \/ Fail(n)
  \/ CheckName(n) \/ FindName(n) \/ LoseName(n)

Hears(n) == Loaded(n) \/ Listed(n) \/ Created(n) \/ Renamed(n) \/ Titled(n)

Uses ==
  \/ \E i \in Items : StartEdit(i) \/ \E v \in Names : Create(i, v)
  \/ CancelEdit \/ \E v \in Names : SaveEdit(v)
  \/ OpenDialog \/ CloseDialog \/ Revisit
  \/ \E c \in Chats : Question(c)

Next == Uses \/ \E n \in DOMAIN calls : Serves(n) \/ Hears(n)

Spec == Init /\ [][Next]_vars

-----------------------------------------------------------------------------
(* Properties.                                                             *)

Lists == [Items -> Names \cup {None}]

TypeOK ==
  /\ names \in Lists
  /\ side \in [loading : BOOLEAN, shown : [Items -> Names \cup {EmptyTitle, None}],
               editing : Items \cup {None}, dialog : BOOLEAN, mixed : SUBSET Items,
               moves : 0..MaxMoves]
  /\ calls \in Seq([kind : {"load", "list", "create", "rename", "name", "event"},
                    item : Items \cup {None}, value : Names \cup {EmptyTitle, None},
                    at : {"sent", "asked", "done", "refused", "failed"},
                    list : Lists \cup {None}, heard : BOOLEAN])

\* When nothing is on its way, what the sidebar shows is what the server
\* keeps: unless two calls about the item were out together, an answer was
\* lost, or the title the server found was blank, refused or cut when it was
\* written.
\* (onTitle, onSubjectUpdated and onChatUpdated, _maybe_generate_title)
NamesShown ==
  calls = <<>> =>
    \A i \in Items \ side.mixed : side.shown[i] \in {None, names[i]}
================================================================================
