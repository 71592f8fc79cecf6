\* Three chats, three turns and one crash.
SPECIFICATION Spec
CONSTANTS
  Chats = {c1, c2, c3}
  MaxTurns = 3
  MaxCrashes = 1
  None = None
INVARIANTS RowsArePairs AskedOnce ThreeCopiesAgree
PROPERTIES AnswersAreKept QuestionsEnd
