\* Two screens after one another, two requests, and the server's end.
SPECIFICATION FairSpec
CONSTANTS
  Screens = {s1, s2}
  Requests = {r1, r2}
  NoScreen = NoScreen
  Patient = TRUE
INVARIANTS WaitersHearTheNext
PROPERTIES LiveScreenKept WaitEnds
\* Every screen may be gone and every request ended.
CHECK_DEADLOCK FALSE
