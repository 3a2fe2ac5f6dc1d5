-------------------------------- MODULE Frontend --------------------------------
(***************************************************************************)
(* The pages of the browser application beside the conversation itself:    *)
(* the sidebar of the chat page, the whiteboard and the settings, one of   *)
(* which the router of App.tsx shows.  What they keep in common lives at   *)
(* the server or is modelled in ChatPage (the drawing handed over), so a   *)
(* tab is followed on the page it opened; leaving it and coming back is an *)
(* action of each page.  The whiteboard is extended, the others are        *)
(* instances: names of this module begin with App where it has them too.   *)
(***************************************************************************)
EXTENDS Whiteboard, FiniteSets

CONSTANTS
  Aliases, Keys, Sections, Reasons, MaxModels, MaxEdits, MaxSaves, MaxVisits,
  Subjects, Chats, Home, FirstNames, Names, NewChat, EmptyTitle, Cut, MaxCalls, MaxMoves

\* The bound on models has room for the stored configuration, and for a model
\* that is added to an imported one.
ASSUME FrontendAssumption ==
  /\ {MaxPos, MaxElements, MaxStrokes, MaxModels, MaxEdits, MaxSaves, MaxVisits,
      MaxCalls, MaxMoves} \subseteq Nat
  /\ Len(Sections) \in Nat \ {0} /\ MaxVisits >= 1
  /\ IsFiniteSet(Aliases) /\ Cardinality(Aliases) <= MaxModels /\ MaxModels >= 2
  /\ Subjects \cap Chats = {} /\ Home \in [Chats -> Subjects]
  /\ NewChat \in Names /\ Cut \in [Names -> Names] /\ Cut[NewChat] = NewChat
  /\ FirstNames \in [Subjects \cup Chats -> Names \cup {None}]
  /\ None \notin Aliases \cup Keys \cup Subjects \cup Chats
  /\ EmptyTitle \notin Names \cup {None}

VARIABLES
  route,   \* the page that is shown
  form, saves, used, stored,
  side, calls, names

Form == INSTANCE Settings
Side == INSTANCE Sidebar

ASSUME NoneIsNoConfiguration == None \notin Form!Configs

formVars == <<form, saves, used, stored>>
sideVars == <<side, calls, names>>
appVars == <<route, board, formVars, sideVars>>

AppInit ==
  /\ route \in {"chat", "whiteboard", "settings"}
  /\ Init /\ Form!Init /\ Side!Init
  /\ route # "settings" => stored = Form!Empty

OnWhiteboard == route = "whiteboard" /\ Next /\ UNCHANGED <<route, formVars, sideVars>>
OnSettings == route = "settings" /\ Form!Next /\ UNCHANGED <<route, board, sideVars>>
OnChat == route = "chat" /\ Side!Next /\ UNCHANGED <<route, board, formVars>>

AppNext == OnWhiteboard \/ OnSettings \/ OnChat

AppSpec == AppInit /\ [][AppNext]_appVars

-----------------------------------------------------------------------------
(* Properties.                                                             *)

AppTypeOK == TypeOK /\ Form!TypeOK /\ Side!TypeOK

\* At rest the settings show what the server keeps, also when answers are
\* lost, unless saves or answers overtook one another, an edit led back to what
\* the page took for saved, or an error is reported.  (the effect on config,
\* saveLlmConfig)
SavedMeansStored == Form!SavedMeansStored

\* The mask of a key takes the place of the key only after a rename, or when a
\* save was stored after one sent later or after the load of a later visit was
\* served.  (apply_incoming, submitDialog)
MaskNeverStored == Form!MaskNeverStored

\* At rest the sidebar shows the names the server keeps, unless calls about an
\* item crossed, an answer was lost, or a found title was blank, refused or
\* cut.  (onTitle, onChatUpdated, _maybe_generate_title)
NamesShown == Side!NamesShown
=============================================================================
