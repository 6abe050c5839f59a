CONSTANTS
  Pids = {p1, p2, p3, p4}
  NoPid = NoPid
  MAXJOBS = 4
  JidBound = 6
SPECIFICATION TableSpec
INVARIANT JobIdNamesJob
