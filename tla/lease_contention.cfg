SPECIFICATION FairSpec
CONSTANTS
  a1 = a1
  a2 = a2
  NoAgent = NoAgent
  Job = {1, 2}
  Agent <- OneAgent
  AgentClass <- OneClass
  MaxClass = 0
  Retries = 0
  MaxEpoch = 2
  MaxConn = 2
  MaxChannels = 2
  MaxRestarts = 0
  May = {"expire", "agentcrash", "panic"}
INVARIANTS
  OneLeasePerAgent
  AssignFindsFree
PROPERTIES
  JobEnds
CHECK_DEADLOCK FALSE
