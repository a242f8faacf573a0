SPECIFICATION FairSpec
CONSTANTS
  Readers = {r1, r2}
  Writers = {w1}
  Paths = {a, b}
  Stored = {a}
  ReadBatch = 2
  WriteBatch = 2
  MaxReads = 2
  MaxWrites = 2
INVARIANTS
  AcknowledgedIsRead
PROPERTIES
  ThreadsImplementExecutor
  RequestsAnswered
  DestructorReturns
CHECK_DEADLOCK FALSE
