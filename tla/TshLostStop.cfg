CONSTANTS
  MAXJOBS = 2
  Pids = {p1, p2}
  JidBound = 2
  Lines <- JobLines
  Keyboard = {}
  ForkMayFail = FALSE
  StopsSelf = TRUE
SPECIFICATION FairSpec
PROPERTY WaitfgReturns
