CONSTANTS
  h1 = h1
  h2 = h2
  Host = {h1, h2}
  mDetectMaxNode = 2
SPECIFICATION Spec
INVARIANTS
  TypeOK
  LaterRequestWins
  Bounded
PROPERTIES
  ProbedBeforeDropped
  NoFalseAnswer
  ImplementsBoard
  ProbedWhileWaiting
