\* One chat and one to be created; four moves of the user, three questions, one drawing.
SPECIFICATION LiveSpec
CONSTANTS
  Chats = {a, b}
  a = a
  b = b
  NoChat = NoChat
  FirstChats = {a}
  MaxStreams = 3
  MaxLoads = 1
  MaxDrawings = 1
  MaxMoves = 4
CHECK_DEADLOCK FALSE
INVARIANTS TypeOK DrawingHasOneQuestion LockedWhileAnswering
PROPERTIES OnlyLateAnswersMix ComposerComesBack
