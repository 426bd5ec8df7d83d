SPECIFICATION UserSpec
CONSTANTS
  Main = main
  Unknown = unknown
  Clients <- MCNames
  IdleLocks = {}
  Timeouts = {1}
  HalfSecond = 1
  H = 4
  MaxLate = 1
  EventMod = 3
  Nanoseconds <- MCFits
  NsPerJiffy = 2
  U64 = 64
  Nobody = nobody
INVARIANTS
  ServedAsAsked
  TreeOrdered
