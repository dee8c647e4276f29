CONSTANTS
  MAXJOBS = 2
  Pids = {p1, p2, p3}
  JidBound = 3
  Lines <- FewLines
  Keyboard = {"INT"}
  ForkMayFail = FALSE
  StopsSelf = FALSE
SPECIFICATION FairSpec
PROPERTIES
  WaitfgReturns
  ZombiesReaped
  RefusedOnlyWhenFull
