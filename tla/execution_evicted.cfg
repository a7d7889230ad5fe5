SPECIFICATION Spec
CONSTANTS
  r1 = r1
  r2 = r2
  j1 = j1
  j2 = j2
  Repo = {r1, r2}
  Commit = {0}
  Budget = 3
  Job = {j1, j2}
  May = {}
INVARIANTS
  ActiveKept
CHECK_DEADLOCK FALSE
