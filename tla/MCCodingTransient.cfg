CONSTANTS
  SymBits = 2
  CodeBits = 12
  UintBits = 2
  LaplaceBits = 6
  LaplaceTail = 4
  MaxLength = 3
  MaxPulses = 2
  MaxSymbols = 4
  PadPending = FALSE
  Sizes <- MCSizes
  FlagBits <- MCFlagBits
  Symbols <- MCSymbols
  Frames <- MCShortAttacks
  Pitches <- MCPitches
  Energies <- MCEnergies
  Resolutions <- MCResolutions
  Boosts <- MCBoosts
  Trims <- MCTrims
  Targets <- MCTargets
  Stereos <- MCStereos
  Shapes <- MCShapes
SPECIFICATION MCSpec
INVARIANTS SameModels
CHECK_DEADLOCK FALSE
