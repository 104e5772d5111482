SPECIFICATION FairSpec
CONSTANTS
  Configured = {0, Now}
  Truncates = {FALSE, TRUE}
  MaxBatch = 2
  MaxBuffer = 3
  Now = Now
  MaxLen = 3
  MaxStarts = 2
  MaxTopic = 3
INVARIANTS
  IInv
  SegmentInv
  NoLoss
  FirstOfKeySuffices
  FirstDeliveriesInOrder
  RecordIsSegment
  DoneMeansForwarded
PROPERTIES
  NeverResumesEarlier
  BeginsOnce
  ImplementsAtLeastOnce
  ForwardedEventually
  ClosedStreamEnds
CHECK_DEADLOCK FALSE
