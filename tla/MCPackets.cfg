CONSTANTS
  Base = 16
  Step = 4
  Spans <- MCSpans
  MaxSpan = 6
  Packets <- MCPackets
  DelimitedPackets <- MCDelimited
  Trailers <- MCTrailers
  Lengths <- MCLengths
  Setups <- MCSetups
  Styles <- MCStyles
  Rooms <- MCRooms
  Spoilt <- MCSpoilt
  MaxCalls = 3
SPECIFICATION MCSpec
INVARIANTS MeaningKept TakenWhole EachChannelItsOwn DecodersTogether HeadersDescribeTheStream
CHECK_DEADLOCK FALSE
