SPECIFICATION Spec
CONSTANTS
  k1 = k1
  k2 = k2
  c1 = c1
  c2 = c2
  Key = {k1, k2}
  Client = {c1, c2}
  MaxClass = 1
  Slots <- OneSlotEach
  MaxQueued = 1
  MaxJobs = 3
  MaxRestarts = 0
  May = {"agents", "requeue"}
INVARIANTS
  NothingStartable
CHECK_DEADLOCK FALSE
