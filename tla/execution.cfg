SPECIFICATION Spec
CONSTANTS
  r1 = r1
  r2 = r2
  Repo = {r1, r2}
  Commit = {0, 1}
  Budget = 3
  j1 = j1
  j2 = j2
  Job = {j1, j2}
  May = {"cancel", "fail", "install", "oom", "push", "forcepush"}
INVARIANTS
  TypeOK
  CancelStopsChild
  BuildsAdmitted
  OomHonest
  NothingLeft
  WithinBudget
CONSTRAINT OneOrUnspawned
SYMMETRY Interchangeable
CHECK_DEADLOCK FALSE
