\* Two chats and their dials, opened and left while two turns work and end.
SPECIFICATION Spec
CONSTANTS
  Chats = {c1, c2}
  Convs = {v1, v2}
  Sends = {s1, s2}
  Doors = {d1}
  Loader = Loader
  Models = {m1, m2}
  Levels = {l1}
  Presses = {"dial", "cancel", "load", "new"}
  Serial = TRUE
  None = None
SYMMETRY GateSymmetry
VIEW GateView
INVARIANTS HeldUnlessDropped StrandedWasDropped OwnDials
CHECK_DEADLOCK FALSE
