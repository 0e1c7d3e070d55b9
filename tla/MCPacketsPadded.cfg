CONSTANTS
  Base = 16
  Step = 4
  Spans <- MCSpans
  MaxSpan = 6
  Packets <- MCPackets
  DelimitedPackets <- MCPadded
  Trailers <- MCTrailers
  Lengths <- MCLengths
  Setups <- MCSetups
  Styles <- MCStyles
  Rooms <- MCRooms
  Spoilt <- MCSpoilt
  MaxCalls = 3
SPECIFICATION MCSpec
INVARIANTS TakenWhole
CHECK_DEADLOCK FALSE
