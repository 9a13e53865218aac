SPECIFICATION Spec
CONSTANTS
  Row = {1, 2, 3, 4, 5, 6, 7, 8, 9}
  Answers <- SmallAnswers
  Queries <- SmallQueries
  Limits = {1, 2}
  Chunks <- OneThenTwo
  PageSize = 2
  MaxChanges = 2
INVARIANT SkippedTablesWarned
CHECK_DEADLOCK FALSE
