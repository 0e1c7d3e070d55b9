CONSTANTS
  Totals <- MCTotals
  Requests <- MCRequests
  WarmupsMs <- MCWarmupsMs
  FramesUs <- MCFramesUs
  MaxFaults = 2
  LaceMax = 2
  MaxSegments = 3
  MaxDuration = 3
  HeadSize = 1
  TagsSizes <- MCTagsSizes
  Sizes <- MCSizes
  Durations <- MCDurations
  Targets <- MCTargets
  MaxPackets = 5
  MaxFailures = 2
SPECIFICATION MCSpec
INVARIANTS OnePacketPerFrame FaultsAreReported ContinuationExact GranuleIsOfLastCompleted EosClosesTheStream
PROPERTIES EveryCallReturns ImplementsLog
CHECK_DEADLOCK FALSE
