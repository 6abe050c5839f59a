CONSTANTS
  Pids = {p1, p2}
  NoPid = NoPid
  MAXJOBS = 1
  JidBound = 2
SPECIFICATION FairSpec
PROPERTIES
  ZombiesReaped
  CtrlCEndsWait
