CONSTANTS
  MaxParts = 2
  MaxArgs = 2
  MaxWrites = 4
  MaxNested = 4
  Runners = {r1, r2}
  MaxRuns = 3
  Attempts = {0, 1, 2}
  MaxLookups = 2
  Numbers = {1, 2}
  Durations = {0, 1, 2, 3, 4}
  MaxNow = 6
  MaxCalls = 4
  PcapWriters <- MCPcapWriters
  PcapPackets <- MCPcapPackets
  MaxPackets = 3
  NGWriters <- MCNGWriters
  NGInterfaces <- MCNGInterfaces
  NGPackets <- MCNGPackets
  MaxBlocks = 5
  MaxSections = 2
SPECIFICATION Spec
CHECK_DEADLOCK FALSE
INVARIANTS
  QuestionMarksBind
  CommitsWhatReturned
  MigratesOnce
  LookupTruthful
  KeepsWhatWasSet
  ReadsBack
