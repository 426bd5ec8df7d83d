SPECIFICATION FairSpec
CONSTANTS
  Handlers = {h1, h2}
  Level <- MCLevel
  Main = main
  Unknown = unknown
  Clients = {a}
  IdleLocks = {}
  Timeouts = {}
  HalfSecond = 1
  H = 2
  MaxLate = 0
  EventMod = 2
INVARIANTS
  SleepsOnlyAsked
PROPERTIES
  ImplementsEarlySuspend
  KeepsTrying
  OnAtLast
