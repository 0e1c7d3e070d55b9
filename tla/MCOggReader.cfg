CONSTANTS
  Sources <- MCSources
  LaceMax = 2
  MaxPacketBytes = 7
  MaxAnswers = 7
  MaxRewinds = 1
  MaxIoFailures = 1
SPECIFICATION Spec
INVARIANTS FaithfulUntilError SplicedOnlyOverLostPages RewindReplays
PROPERTIES EndIsReached
CHECK_DEADLOCK FALSE
