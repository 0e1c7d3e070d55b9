CONSTANTS
  Sources <- MCChained
  LaceMax = 2
  MaxPacketBytes = 7
  MaxAnswers = 7
  MaxRewinds = 1
  MaxIoFailures = 1
SPECIFICATION Spec
INVARIANTS RewindReplays
CHECK_DEADLOCK FALSE
