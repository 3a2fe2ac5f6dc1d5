\* Two devices for three minutes; two users one of whom has a subject with a chat.
SPECIFICATION AppSpec
CONSTANTS
  Devices = {here, there}
  here = here
  there = there
  Here = here
  AccessLife = 3
  Interval = 2
  CodeLife = 2
  Latency = 1
  MaxTime = 6
  MaxMoves = 3
  None = None
  Root = Root
  ann = ann
  bob = bob
  biology = biology
  cells = cells
  asked1 = asked1
  asked2 = asked2
  Roots <- MCRoots
  Children <- MCChildren
  Tables <- MCTables
  Limits = {20, 2}
  MaxAsked = 2
  MaxPageMoves = 5
CONSTRAINT OneAtATime
CHECK_DEADLOCK FALSE
INVARIANTS KeptAuthorised NobodyAfterLogout ShownIsChosen
