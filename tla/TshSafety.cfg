CONSTANTS
  MAXJOBS = 2
  Pids = {p1, p2}
  JidBound = 2
  Lines <- AllLines
  Keyboard = {"INT", "TSTP", "QUIT"}
  ForkMayFail = TRUE
  StopsSelf = TRUE
SPECIFICATION Spec
SYMMETRY Symmetry
INVARIANTS
  Inv
  NoLostSigchld
  TableMatchesChildren
  PidsUnique
  NoIdleWait
PROPERTY ImplementsJobLife
