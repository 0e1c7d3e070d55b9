CONSTANTS
  Shapes <- MCShapes
  Spoken <- MCSpoken
  MaxFrames = 4
  Candidates = 3
  BufferLength = 3
  SubframeSamples = 2
  FrameKinds <- MCFrameKinds
  Costs <- MCCosts
  CeltFrames <- MCCeltFramesStarved
  NoiseAfter = 3
  Memory = 3
  MaxCeltFrames = 8
SPECIFICATION MCSpec
INVARIANTS PostfilterUndoesPrefilter
CHECK_DEADLOCK FALSE
