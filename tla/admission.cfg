SPECIFICATION Spec
CONSTANTS
  k1 = k1
  k2 = k2
  c1 = c1
  c2 = c2
  Key = {k1, k2}
  Client = {c1, c2}
  MaxClass = 1
  Slots <- OneSlotEach
  MaxQueued = 1
  MaxJobs = 3
  MaxRestarts = 1
  May = {"storefail", "cancel", "stop", "agents", "requeue"}
INVARIANTS
  TypeOK
  InOnePlace
  KeyIsJob
  StartedUnlessStalled
  EstimateIsDispatch
  SameRule
PROPERTIES
  NoOvertaking
SYMMETRY Interchangeable
CHECK_DEADLOCK FALSE
