CONSTANTS
  q1 = q1
  Request <- RequestSet
  Capacity = 1
  MaxUnits = 2
  Backlog = 1
  MaxFaults = 2
SPECIFICATION FairSpec
INVARIANT TypeOK
INVARIANT NothingLeftRunning
PROPERTY ImplementsNalStream
PROPERTY MediaStarts
PROPERTY FeedersEnd
