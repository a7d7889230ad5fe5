SPECIFICATION FairSpec
CONSTANTS
  Client = {c1, c2}
  MaxRuns = 2
  MaxRestarts = 1
  May = {"fail", "requeue", "panic", "stop", "storefail"}
INVARIANTS
  TypeOK
  NeverInFlight
  TerminalBacked
  QueuedIsFresh
PROPERTIES
  EndsOnce
  NothingAfterEnd
  Ends
CHECK_DEADLOCK FALSE
