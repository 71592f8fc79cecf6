\* A child and an attached engine, a binding of the window, and a user who
\* switches while a wire is up.
SPECIFICATION Spec
CONSTANTS
  Wires = {w1, w2}
  Bindings = {b1}
  NoWire = NoWire
  Engines = {child, attached}
  Attached = {attached}
  NoEngine = NoEngine
  MaxRestarts = 2
  SwitchAt <- WhenLive
  DropAt <- AnyTime
SYMMETRY WireSymmetry
INVARIANTS OneEngine StoresMatchTheEngine NobodyIsStranded
CHECK_DEADLOCK FALSE
