CONSTANTS
  Streams <- MCStreams
  Calls <- MCCalls
  Audio <- MCAudio
  PayloadSizes <- MCPayloadSizes
SPECIFICATION Spec
INVARIANTS ReadAsCoded KeepsItsBudget PausesEnd AstrayOnlyWhenStarved
CHECK_DEADLOCK FALSE
