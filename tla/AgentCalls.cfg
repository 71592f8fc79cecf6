\* Two turns of one answer each, or one of two; two tools may outlast the deadline.
SPECIFICATION FairSpec
CONSTANTS
  Keys = {"read", "grep", "browser"}
  Reads = {"read", "grep"}
  Cameras = {"browser"}
  Slow = {"read", "grep"}
  MaxCalls = 2
  Works = {"w1", "w2", "w3", "w4", "w5", "w6", "w7", "w8", "w9"}
  None = None
  CallLists <- MixedLists
  Troubles = {"empty"}
  Budget = 1
  MaxToolCalls = 2
  DoomStop = 2
  KeepRecent = 1
  CompactAt = 5
  MaxTurns = 2
  MaxRequests = 2
  MaxWords = 1
INVARIANTS ParkedIsKept
PROPERTIES StoppedTurnEnds
\* Every turn may be over and every answer given.
CHECK_DEADLOCK FALSE
