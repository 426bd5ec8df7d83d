SPECIFICATION Spec
CONSTANTS
  d1 = d1
  d2 = d2
  d3 = d3
  NoDevice = NoDevice
  Devices <- MCDevices
  Parent <- MCParent
  NotifierCount = 2
  Governors <- MCGovernors
INVARIANT
  DepthFirst
