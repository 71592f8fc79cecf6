\* Two turns and a door of one chat, with nothing serialised.
SPECIFICATION FairSpec
CONSTANTS
  Chats = {c1}
  Convs = {v1}
  Sends = {s1, s2}
  Doors = {d1}
  Loader = Loader
  Models = {m1, m2}
  Levels = {l1}
  Presses = {"dial", "level", "refresh", "reload", "narrow", "stop", "close", "keyless"}
  Serial = FALSE
  None = None
INVARIANTS OneTurn StopReaches NothingStranded StanceIsRebuilt DialsArriveUncrossed
PROPERTIES StoppedEnds
CHECK_DEADLOCK FALSE
