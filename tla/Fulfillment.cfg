SPECIFICATION FairSpec
CONSTANTS
  d1 = d1
  d2 = d2
  NoDelivery = NoDelivery
  Nothing = Nothing
  Waiting = Waiting
  Deliveries = {d1, d2}
  Total = 5
  WINDOW_SIZE = 2
  AckPoints = {1, 2, 3}
  MaxDown = 1
  MaxDrops = 1
  MaxFaults = 1
INVARIANT NeverAWindowAhead
INVARIANT CompleteIsWhole
INVARIANT UnfinishedOnlyByFault
PROPERTY RefinesTransfer
PROPERTY EveryDeliveryIsLetGo
CHECK_DEADLOCK FALSE
