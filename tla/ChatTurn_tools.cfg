\* One turn with up to two rounds of tools and a graph ahead of its reader.
SPECIFICATION LiveSpec
CONSTANTS
  Turns = {turn}
  diagram = diagram
  sketch = sketch
  topic = topic
  Calls = {diagram, sketch, topic}
  WhiteboardCalls = {diagram, sketch}
  EmptyCalls = {sketch}
  RouteCalls = {topic}
  Batches <- MCBatches
  MaxTokens = 1
  RecursionLimit = 6
CHECK_DEADLOCK FALSE
INVARIANTS TypeOK RefusedLeavesNothing AnswerIsWhatWasShown NothingLeftOut NeverRunAgain
PROPERTY EveryTurnEnds
