SPECIFICATION FairSpec
CONSTANTS
  w1 = w1
  w2 = w2
  r1 = r1
  Nobody = Nobody
  Writers <- MCWriters
  Readers <- MCReaders
  Size = 8
  Header = 2
  Payloads = {1, 2}
  StaleFaults = TRUE
  MaxWrites = 3
INVARIANT
  LogParses
