SPECIFICATION Spec
CONSTANTS
  a1 = a1
  a2 = a2
  NoAgent = NoAgent
  Job = {1}
  Agent <- TwoAgents
  AgentClass <- SmallAndLarge
  MaxClass = 1
  Retries = 0
  MaxEpoch = 3
  MaxConn = 2
  MaxChannels = 2
  MaxRestarts = 0
  May = {"reroute"}
INVARIANTS
  RerouteMoves
CHECK_DEADLOCK FALSE
