SPECIFICATION FairSpec
CONSTANTS
  a1 = a1
  a2 = a2
  NoAgent = NoAgent
  Job = {1}
  Agent <- OneAgent
  AgentClass <- OneClass
  MaxClass = 1
  Retries = 0
  MaxEpoch = 2
  MaxConn = 2
  MaxChannels = 2
  MaxRestarts = 0
  May = {"cancel", "stop", "hold", "agentcrash", "fail", "oom", "reroute"}
PROPERTIES
  RunnerReturns
  CancelFreesWorker
  AgentLetsGo
CHECK_DEADLOCK FALSE
