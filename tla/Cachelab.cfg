CONSTANTS
  CommandLines <- CsimCommands
  TraceLines <- Trace
  MaxLines = 6
  Chunk = 8
  Sizes <- MatrixSizes
  Reach = 4400
SPECIFICATION Spec
INVARIANTS TypeOK RingsIntact SubmissionCorrect FullMarks InBounds
PROPERTIES NothingUndone ImplementsLru
CHECK_DEADLOCK FALSE
