CONSTANTS
  Pids = {p1, p2}
  NoPid = NoPid
  MAXJOBS = 2
  JidBound = 3
SPECIFICATION Spec
INVARIANTS
  AtMostOneFG
  ForegroundWaited
  JobsAreChildren
  StopsRecorded
  InternalChecksHold
