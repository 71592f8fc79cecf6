\* Three calls, a queue of one, and a close at any moment.
SPECIFICATION FairSpec
CONSTANTS
  Calls = {c1, c2, c3}
  OutQueue = 1
  NoCall = NoCall
INVARIANTS HandOverIsSafe AnswerFindsCaller
PROPERTIES ImplementsRemoteCall CloseEndsCalls
\* A connection may close with every call over and nothing left to do.
CHECK_DEADLOCK FALSE
