SPECIFICATION Spec
CONSTANTS
  a1 = a1
  a2 = a2
  NoAgent = NoAgent
  Job = {1}
  Agent <- TwoAgents
  AgentClass <- OneClass
  MaxClass = 0
  Retries = 0
  MaxEpoch = 3
  MaxConn = 2
  MaxChannels = 2
  MaxRestarts = 1
  May = {"expire", "stop", "cancel"}
INVARIANTS
  Fence
  EpochHasOneHolder
  NoInternalFailure
  AttemptsBounded
  AcceptedIsPublished
PROPERTIES
  EndStands
  FollowsLifecycle
CHECK_DEADLOCK FALSE
