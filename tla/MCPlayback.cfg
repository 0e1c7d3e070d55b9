CONSTANTS
  Packets <- MCPackets
  Rooms <- MCRooms
  FullRates = {TRUE, FALSE}
  PreSkips <- MCPreSkips
  FrameTicks = 12
  Clips <- MCClips
  ForeignFiles <- MCForeignFiles
SPECIFICATION MCSpec
INVARIANTS ReceivedJoinsItsOwn SilkNeverAcrossAGap SeamJoinedOnce ComesBackExact HonestIsExact
CHECK_DEADLOCK FALSE
