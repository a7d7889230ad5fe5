SPECIFICATION Spec
CONSTANTS
  a1 = a1
  a2 = a2
  NoAgent = NoAgent
  Job = {1}
  Agent <- OneAgent
  AgentClass <- OneClass
  MaxClass = 0
  Retries = 0
  MaxEpoch = 2
  MaxConn = 3
  MaxChannels = 2
  MaxRestarts = 1
  May = {"expire"}
INVARIANTS
  NeverUnasked
CHECK_DEADLOCK FALSE
