\* Two delegations and one slot; a question may outlive its call; every Stop door.
SPECIFICATION FairSpec
CONSTANTS
  Tasks = {t1, t2}
  Questions = {q1}
  Callers = {}
  MaxConcurrent = 1
  MaxRuns = 0
  SlowAnswers = TRUE
  NoTask = NoTask
  NoQuestion = NoQuestion
INVARIANTS SlotsAreHeld StopShownAsStop
PROPERTIES ImplementsPool StopEnds LineMoves
\* A session may end with every delegation over and nothing left to do.
CHECK_DEADLOCK FALSE
