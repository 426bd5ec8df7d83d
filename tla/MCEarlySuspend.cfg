SPECIFICATION FairSpec
CONSTANTS
  h1 = h1
  h2 = h2
  h3 = h3
  Handlers <- MCHandlers
  Level <- MCLevel
INVARIANTS
  OnMeansHeld
  ReleasedMeansDown
  CallsAlternate
  HandlersFollowState
  LevelOrder
PROPERTIES
  LastRequestWins
