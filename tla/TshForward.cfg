CONSTANTS
  Pids = {p1}
  NoPid = NoPid
  MAXJOBS = 1
  JidBound = 2
SPECIFICATION Spec
INVARIANT ForwardReachesJob
