\* One page each: two elements on three positions; two models, two edits and two saves;
\* a subject and a chat, one of each to be created.
SPECIFICATION AppSpec
CONSTANTS
  None = None
  MaxPos = 2
  MaxElements = 2
  MaxStrokes = 7
  Aliases = {a, b}
  a = a
  b = b
  Keys = {k}
  k = k
  Sections <- MCSections
  Reasons = {"rate_limit"}
  MaxModels = 2
  MaxEdits = 2
  MaxSaves = 2
  MaxVisits = 2
  Subjects = {biology, physics}
  Chats = {cells, plants}
  biology = biology
  physics = physics
  cells = cells
  plants = plants
  Home <- MCHome
  FirstNames <- MCFirstNames
  Names = {"New Chat", "name", "long name"}
  NewChat = "New Chat"
  EmptyTitle = ""
  Cut <- MCCut
  MaxCalls = 2
  MaxMoves = 4
CHECK_DEADLOCK FALSE
INVARIANTS AppTypeOK UndoIsOffered SavedMeansStored MaskNeverStored NamesShown
PROPERTIES UndoIsExact
