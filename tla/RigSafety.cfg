\* One rig, two jobs, one failure, operators that stop the agent.
SPECIFICATION RigSpec
CONSTANTS
  Agents = {a1}
  NoAgent = NoAgent
  MaxJobs = 2
  MaxFaults = 1
  Timeout = 1
  Extra = 1
  OpenWait = 1
  ValidateWait = 1
  MayRestart = TRUE
  MayStop = TRUE
INVARIANTS PluginSafe ReportsSafe
