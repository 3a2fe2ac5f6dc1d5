------------------------------- MODULE DebugPage -------------------------------
(***************************************************************************)
(* The page of the debug frontend (frontend-debug/src/pages/DebugPage.tsx) *)
(* and the calls of its lib/api.ts: a browser of users, subjects, chats    *)
(* and messages, an SQL editor with a table of its result, and the traces  *)
(* of messages.  One tab is mounted at a time; leaving it drops its state. *)
(*                                                                         *)
(* Both the browser and the traces show lists, each of the children of     *)
(* what is chosen in the list before.  Choosing asks for the next list and *)
(* goes on; answers change the page in whichever order they come.          *)
(***************************************************************************)
EXTENDS Integers, Lists, SequencesExt

CONSTANTS
  Roots,         \* the users, and the messages that have traces
  Children,      \* the children of each user, subject and chat that has any
  None, Root,
  Tables,        \* what statements return: one column, a cell a row
  Limits,        \* LIMIT_OPTIONS
  MaxAsked,      \* bound: calls out at once
  MaxPageMoves   \* bound: what the user does on the page

VARIABLES
  tab,           \* the panel that is mounted
  lists,         \* of whose children each list is
  chosen,        \* what is chosen in each list
  loading,       \* the flags that show a spinner
  sql,           \* the state of the SQL editor and its table
  opened,        \* whether a row of the trace is expanded
  asked,         \* the calls that are out
  pageMoves,
  amiss,         \* the lists whose last answer failed or was late, and those
                 \* chosen from while they were; it only serves the property
  authorised     \* whether a call made now carries a good token


-----------------------------------------------------------------------------
(* The lists.                                                              *)

Levels == {"users", "subjects", "chats", "messages", "traces", "logs"}

Below == [users |-> "subjects", subjects |-> "chats", chats |-> "messages",
          traces |-> "logs", messages |-> None, logs |-> None]

Deeper(l) ==
  CASE l = "users" -> {"subjects", "chats", "messages"}
    [] l = "subjects" -> {"chats", "messages"}
    [] l = "chats" -> {"messages"}
    [] l = "traces" -> {"logs"}
    [] OTHER -> {}

Above(l) == CHOOSE u \in Levels : Below[u] = l

Top(l) == l \in {"users", "traces"}

\* What a list of l should be of.
Wanted(l) == IF Top(l) THEN Root ELSE chosen[Above(l)]

\* BrowserPanel has one flag for all of its calls, TracePanel one for each.
Flag(l) == IF l \in {"traces", "logs"} THEN l ELSE "browser"

Elements(l, of) ==
  IF of = None THEN {} ELSE IF of = Root THEN Roots[l]
  ELSE IF of \in DOMAIN Children THEN Children[of] ELSE {}

\* Under its chosen parent in the tree, or in the grid of the chosen parent.
OnScreen(l) ==
  IF Top(l) THEN tab = IF l = "users" THEN "browser" ELSE "trace"
  ELSE LET parent == chosen[Above(l)]
       IN  /\ parent # None
           /\ \/ parent \in Elements(Above(l), lists[Above(l)])
              \/ chosen[l] = None /\ ~loading[Flag(l)]

\* A call for the children of a node; may is whether it may succeed.
Call(l, of) == [list |-> l, of |-> of, may |-> authorised]

Blank == [rows |-> None, error |-> FALSE, limit |-> 20, ran |-> 20, running |-> FALSE,
          may |-> FALSE, query |-> None, sorted |-> FALSE, dir |-> "asc"]

NothingAmiss == [late |-> {}, astray |-> {}]

\* The three panels as they are mounted; TracePanel asks at once.
Mounted(t) ==
  /\ tab' = t
  /\ lists' = [l \in Levels |-> None] /\ chosen' = [l \in Levels |-> None]
  /\ loading' = [f \in {"browser", "traces", "logs"} |-> t = "trace" /\ f = "traces"]
  /\ sql' = Blank /\ opened' = FALSE /\ amiss' = NothingAmiss
  /\ asked' = IF t = "trace" THEN <<Call("traces", Root)>> ELSE <<>>

Asks(l, of) ==
  /\ Len(asked) < MaxAsked
  /\ asked' = Append(asked, Call(l, of))
  /\ loading' = [loading EXCEPT ![Flag(l)] = TRUE]

Move == pageMoves < MaxPageMoves /\ pageMoves' = pageMoves + 1

SwitchTab(t) == tab # t /\ Move /\ Mounted(t)

\* loadUsers and loadMessages, by their button.
Reload(l) ==
  /\ OnScreen(l) /\ ~loading[Flag(l)] /\ Move /\ Asks(l, Root)
  /\ UNCHANGED <<tab, lists, chosen, sql, opened, amiss>>

\* Mutant: choosing leaves what was chosen below.
ChooseOnly(l, n) ==
  /\ OnScreen(l) /\ Move
  /\ chosen' = [chosen EXCEPT ![l] = n]
  /\ lists' = [d \in Levels |-> IF d \in Deeper(l) \ {Below[l]} THEN None ELSE lists[d]]
  /\ amiss' = [amiss EXCEPT !.astray = IF lists[l] = Wanted(l) THEN @ \ {l} ELSE @ \cup {l}]
  /\ opened' = FALSE
  /\ Asks(Below[l], n)
  /\ UNCHANGED <<tab, sql>>

\* selectUser, selectSubject, selectChat and selectMessage up to their await:
\* what is below is forgotten, but not the list that is asked for.
Choose(l, n) ==
  /\ OnScreen(l) /\ Move
  /\ chosen' = [d \in Levels |-> IF d = l THEN n ELSE IF d \in Deeper(l) THEN None ELSE chosen[d]]
  /\ lists' = [d \in Levels |-> IF d \in Deeper(l) \ {Below[l]} THEN None ELSE lists[d]]
  /\ amiss' = [amiss EXCEPT !.astray = IF lists[l] = Wanted(l) THEN @ \ {l} ELSE @ \cup {l}]
  /\ opened' = FALSE
  /\ Asks(Below[l], n)
  /\ UNCHANGED <<tab, sql>>

\* After the await: the list is shown whatever is chosen by now, and a failure
\* leaves the list there was.  New users clear everything.
Answer(n, good) ==
  LET call == asked[n]
      l == call.list
      forgotten == IF l = "users" THEN Deeper(l) ELSE {}
  IN  /\ good => call.may
      /\ asked' = RemoveAt(asked, n)
      /\ loading' = [loading EXCEPT ![Flag(l)] = FALSE]
      /\ lists' = IF good THEN [d \in Levels |-> IF d = l THEN call.of
                                  ELSE IF d \in forgotten THEN None ELSE lists[d]]
                  ELSE lists
      /\ chosen' = IF good /\ l = "users"
                   THEN [d \in Levels |-> IF d \in {l} \cup forgotten THEN None ELSE chosen[d]]
                   ELSE chosen
      /\ amiss' = [amiss EXCEPT !.late = IF good /\ call.of = Wanted(l) THEN @ \ {l} ELSE @ \cup {l}]
      /\ UNCHANGED <<tab, sql, opened, pageMoves>>

\* WaterfallTrace: a row is expanded or closed; the rows are those of the logs.
Expand ==
  /\ tab = "trace" /\ chosen["traces"] # None /\ ~loading["logs"]
  /\ lists["logs"] # None /\ Move
  /\ opened' = ~opened
  /\ UNCHANGED <<tab, lists, chosen, loading, sql, asked, amiss>>

-----------------------------------------------------------------------------
(* The SQL editor and its table.                                           *)

\* A cell is its number, if it reads as one, and the place of its text in the
\* alphabet.  NULL is None.
Numeric(c) == c # None /\ c.num # None

CompareValues(a, b) ==
  IF a = b THEN 0 ELSE IF a = None THEN -1 ELSE IF b = None THEN 1
  ELSE IF Numeric(a) /\ Numeric(b) THEN a.num - b.num ELSE a.text - b.text

\* The engine sorts a short array by insertion, equal rows in their order.
Insert(sign, rows, cell) ==
  LET after == {i \in DOMAIN rows : CompareValues(cell, rows[i]) * sign < 0}
      n == IF after = {} THEN Len(rows) + 1 ELSE CHOOSE i \in after : \A j \in after : i <= j
  IN  InsertAt(rows, n, cell)

Inserting == INSTANCE Loop WITH Body <- Insert

\* filtered: the rows that match the search, in the order of the column.
Filtered(table) ==
  LET found == IF table.query = None THEN table.rows ELSE Keep(table.rows, {table.query})
      sign == IF table.dir = "asc" THEN 1 ELSE -1
  IN  IF table.sorted THEN Inserting!Loop(sign, <<>>, found) ELSE found

Editor(next) == tab = "sql" /\ sql' = next /\ UNCHANGED <<tab, lists, chosen, loading, opened, asked, amiss>>

\* handleExecute up to its await: the table is unmounted.
Execute ==
  /\ ~sql.running /\ Move
  /\ Editor([Blank EXCEPT !.limit = sql.limit, !.ran = sql.limit, !.running = TRUE,
                          !.may = authorised])

\* Its answer: _apply_limit of the server has cut the rows to the limit the
\* call was made with, unless the statement had one.
Executed ==
  /\ sql.running /\ UNCHANGED pageMoves
  /\ \/ Editor([sql EXCEPT !.running = FALSE, !.error = TRUE])
     \/ /\ sql.may
        /\ \E rows \in Tables : \E n \in {sql.ran, Len(rows)} :
             Editor([sql EXCEPT !.running = FALSE,
                       !.rows = IF n = None \/ n > Len(rows) THEN rows ELSE SubSeq(rows, 1, n)])

SetLimit(n) == sql.limit # n /\ Move /\ Editor([sql EXCEPT !.limit = n])

Search(c) == sql.rows # None /\ sql.query # c /\ Move /\ Editor([sql EXCEPT !.query = c])

\* toggleSort: up, down, and as they came.
ToggleSort ==
  /\ sql.rows # None /\ Move
  /\ Editor(IF ~sql.sorted THEN [sql EXCEPT !.sorted = TRUE, !.dir = "asc"]
            ELSE IF sql.dir = "asc" THEN [sql EXCEPT !.dir = "desc"]
            ELSE [sql EXCEPT !.sorted = FALSE, !.dir = "asc"])

-----------------------------------------------------------------------------
\* No page, or one that was left: nothing of it is kept.
Closed ==
  /\ tab = None /\ pageMoves = 0 /\ sql = Blank /\ opened = FALSE /\ amiss = NothingAmiss
  /\ lists = [l \in Levels |-> None] /\ chosen = [l \in Levels |-> None]
  /\ loading = [f \in {"browser", "traces", "logs"} |-> FALSE]
  /\ asked = <<>>

PageStep ==
  \/ \E t \in {"browser", "sql", "trace"} : SwitchTab(t)
  \/ \E l \in {"users", "traces"} : Reload(l)
  \/ \E l \in {"users", "subjects", "chats", "traces"} :
       \E n \in Elements(l, lists[l]) : Choose(l, n)
  \/ \E n \in DOMAIN asked, good \in BOOLEAN : Answer(n, good)
  \/ Expand
  \/ Execute \/ Executed \/ ToggleSort
  \/ \E n \in Limits : SetLimit(n)
  \/ \E rows \in Tables : \E i \in DOMAIN rows : rows[i] # None /\ Search(rows[i])

-----------------------------------------------------------------------------
(* Properties.                                                             *)

\* A list on screen whose answer is not awaited is of what is chosen above it,
\* and what is chosen in it belongs there, unless its last answer was late or
\* a failure, or the choice was made from such a list.
Rests(l) == \A n \in DOMAIN asked : asked[n].list # l

BrowsedIsChosen ==
  \A l \in Levels :
    ~Top(l) /\ chosen[Above(l)] # None =>
      /\ Rests(l) /\ l \notin amiss.late => lists[l] = chosen[Above(l)]
      /\ chosen[l] # None /\ l \notin amiss.astray
           => chosen[l] \in Elements(l, chosen[Above(l)])

\* A column of numbers or of text is shown in its order, NULL first or last.
OneKind(rows) ==
  \A i, j \in DOMAIN rows : None \in {rows[i], rows[j]} \/ (Numeric(rows[i]) <=> Numeric(rows[j]))

Before(a, b) ==
  a # b /\ (a = None \/ (b # None /\ IF Numeric(a) THEN a.num < b.num ELSE a.text < b.text))

SortedAsAsked ==
  sql.rows # None /\ sql.sorted /\ OneKind(sql.rows) =>
    LET rows == Filtered(sql)
    IN  \A i, j \in DOMAIN rows : i < j =>
          IF sql.dir = "asc" THEN ~Before(rows[j], rows[i]) ELSE ~Before(rows[i], rows[j])

\* What the debug page shows is what was chosen, sorted as was asked.
\* (the selections of BrowserPanel and TracePanel, filtered of SqlResultsTable)
ShownIsChosen == BrowsedIsChosen /\ SortedAsAsked
================================================================================
