CONSTANTS
  t1 = t1
  t2 = t2
  Tabs <- OneTab
  BufferSize = 2
  MaxStreams = 1
  MaxEvents = 3
  MaxDrops = 2
  MaxLeaves = 1
  MaxRestarts = 1
SPECIFICATION FairSpec
CHECK_DEADLOCK FALSE
INVARIANTS ReplayIsHonest NothingLost
PROPERTY StreamRecovers
