SPECIFICATION Spec
CONSTANTS
  a1 = a1
  a2 = a2
  NoAgent = NoAgent
  Job = {1}
  Agent <- OneAgent
  AgentClass <- LargeClass
  MaxClass = 1
  Retries = 1
  MaxEpoch = 3
  MaxConn = 3
  MaxChannels = 2
  MaxRestarts = 0
  May = {"drop", "expire", "beat"}
INVARIANTS
  TypeOK
  EventsInOrder
  InSequence
  VerdictHonest
  NeverUnasked
  LostAfterRetries
CHECK_DEADLOCK FALSE
