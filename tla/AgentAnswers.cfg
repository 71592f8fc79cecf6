\* Two turns over three answers, with two calls in an answer at most.
SPECIFICATION Spec
CONSTANTS
  Keys = {"read", "grep", "browser"}
  Reads = {"read", "grep"}
  Cameras = {"browser"}
  Slow = {"grep"}
  MaxCalls = 2
  Works = {"w1", "w2", "w3", "w4", "w5", "w6", "w7", "w8", "w9"}
  None = None
  CallLists <- MixedLists
  Troubles = {"empty"}
  Budget = 1
  MaxToolCalls = 2
  DoomStop = 2
  KeepRecent = 1
  CompactAt = 5
  MaxTurns = 2
  MaxRequests = 3
  MaxWords = 1
INVARIANTS ResultsFollowCalls WordsHaveOnePlace ReplyIsTheAnswer
\* Every turn may be over and every answer given.
CHECK_DEADLOCK FALSE
