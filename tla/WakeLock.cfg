SPECIFICATION FairSpec
CONSTANTS
  Main = main
  Unknown = unknown
  Clients = {a, b}
  IdleLocks = {}
  Timeouts = {0, 2}
  HalfSecond = 1
  H = 3
  MaxLate = 1
  EventMod = 3
INVARIANTS
  TypeOK
  NoSleepWhileHeld
  ListWellFormed
  PreventingCharged
  SuspendArmed
PROPERTIES
  OnlyOwnerReleases
  ImplementsBlocker
