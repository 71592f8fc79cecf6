\* Two questions of one delegate, answered inside the deadline; one caller.
SPECIFICATION FairSpec
CONSTANTS
  Tasks = {t1}
  Questions = {q1, q2}
  Callers = {c1}
  MaxConcurrent = 1
  MaxRuns = 1
  SlowAnswers = FALSE
  NoTask = NoTask
  NoQuestion = NoQuestion
INVARIANTS NoStrandedQuestion OneAnswerPerQuestion
PROPERTIES AcceptedAnswerIsHeard CollectReturns
\* A session may end with every delegation over and nothing left to do.
CHECK_DEADLOCK FALSE
