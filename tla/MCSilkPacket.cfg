CONSTANTS
  Uses <- MCUses
  Setups <- MCSetups
  Plans <- MCPlans
  Fec <- MCFec
  Bumps <- MCBumps
  Shell <- MCShell
SPECIFICATION Spec
INVARIANTS ParsedAsCoded GainsRejoin RecoversThePacketBefore
