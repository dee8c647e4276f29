CONSTANTS
  CommandLines <- Commands
  arg_test_range <- Ranges
  RandomWords <- Random
  MaxAlarms = 2
  LatePuzzles = {1, 11, 13}
SPECIFICATION Spec
INVARIANTS TypeOK PassedMeansAgrees ErrorsExplained FullScore ChargedOnce
CHECK_DEADLOCK FALSE
