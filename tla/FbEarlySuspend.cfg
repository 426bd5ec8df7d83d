SPECIFICATION FbFairSpec
CONSTANTS
  Display = display
  Watchers = {w1, w2}
  Worker = worker
INVARIANTS
  HandshakeSound
PROPERTIES
  ScreenGoesOff
  DrawsAgain
