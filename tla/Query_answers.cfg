CONSTANTS
  IntLimit = 4
  Distance <- PlaneDistance
  Matches <- Like
  Inside <- InSquare
  Columns <- Schema
  Inserts <- Given
  Deletes <- Removed
  Selects <- Statements
  IndexTypes <- Indexed
  Orders <- Meetings
  MaxRows = 3
  MaxIndexes = 2
  SortInputs <- Unsorted
  MergeInputs <- SortedRuns
  SortMemory = 2
  FanIn = 2
  HashInputs <- Both
  HashMemory = 2
  Partitions = 2
  MaxPartitionDepth = 2
  PartitionOf <- Hashed
SPECIFICATION QuerySpec
INVARIANTS AnswerMeant IndexNeutral SpillExact
CHECK_DEADLOCK FALSE
