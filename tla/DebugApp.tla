-------------------------------- MODULE DebugApp --------------------------------
(***************************************************************************)
(* The debug frontend: its page on one device, behind the session that     *)
(* ProtectedRoute of App.tsx asks for, while the learner uses others, too. *)
(***************************************************************************)
EXTENDS Session, Integers, Sequences

CONSTANTS
  Here,   \* the device the debug page is used on
  Roots, Children, None, Root, Tables, Limits, MaxAsked, MaxPageMoves

\* A cell of a result is a number or a text, its rank among texts, or NULL.
ASSUME DebugAppAssumption ==
  /\ Here \in Devices /\ {MaxAsked, MaxPageMoves} \subseteq Nat
  /\ DOMAIN Roots = {"users", "traces"} /\ {None, Root} \cap DOMAIN Children = {}
  /\ Tables \subseteq Seq([num : Int \cup {None}, text : Int] \cup {None})
  /\ Limits \subseteq Nat \cup {None}

VARIABLES tab, lists, chosen, loading, sql, opened, asked, pageMoves, amiss

\* A call of the page carries the access token of its device.
Debug == INSTANCE DebugPage WITH authorised <- jar[Here].access > clock

ASSUME NoneIsNoList == None \notin Debug!Levels

pageVars == <<tab, lists, chosen, loading, sql, opened, asked, amiss>>
appVars == <<vars, pageVars, pageMoves>>

\* ProtectedRoute.
SignedIn == page[Here].user

AppInit == Init /\ Debug!Closed

OnPage == SignedIn /\ Debug!PageStep /\ UNCHANGED vars

\* The page is mounted with its first tab when somebody has signed in, and
\* unmounted when nobody is.
OnSession ==
  /\ Next /\ UNCHANGED pageMoves
  /\ IF page'[Here].user = SignedIn THEN UNCHANGED pageVars
     ELSE Debug!Mounted(IF SignedIn THEN None ELSE "browser")

AppNext == OnPage \/ OnSession

AppSpec == AppInit /\ [][AppNext]_appVars

-----------------------------------------------------------------------------
(* Property.                                                               *)

\* What the debug page shows is what was chosen, sorted as was asked.
\* (BrowserPanel, TracePanel, SqlResultsTable)
ShownIsChosen == Debug!ShownIsChosen
================================================================================
