CONSTANTS
  MAXJOBS = 2
  Pids = {p1, p2}
  JidBound = 3
  Lines <- FgLines
  Keyboard = {}
  ForkMayFail = FALSE
  StopsSelf = FALSE
SPECIFICATION Spec
INVARIANT OneForegroundJob
