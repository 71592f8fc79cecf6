\* A screen reconnects before the engine has noticed that its old wire ended.
SPECIFICATION Spec
CONSTANTS
  Screens = {s1, s2}
  Requests = {r1}
  NoScreen = NoScreen
  Patient = FALSE
SYMMETRY PeerSymmetry
INVARIANTS OneScreen
CHECK_DEADLOCK FALSE
