SPECIFICATION Spec
CONSTANTS
  Client = {c1, c2}
  MaxRuns = 2
  MaxRestarts = 0
  May = {"fail"}
INVARIANTS
  RowIsSnapshot
CHECK_DEADLOCK FALSE
