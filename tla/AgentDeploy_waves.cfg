\* Two deploys, rollbacks or flows, one after the other or at once; cancel, timeout, a crash.
CONSTANTS
  s1 = s1
  s2 = s2
  None = None
  MaxRuns = 2
  NApps = 2
  StartGroup <- Groups
  ProcessManager <- Managing
  Scripts <- TwoScripts
  Startable = {1, 2}
  HasPort = {2}
  Probed = {1}
  Commands <- AllCommands
  Shas = {s1}
  Keep = 1
  MaxFaults = 1
SPECIFICATION FairSpec
INVARIANTS
  LiveTree
  
PROPERTIES
  Implements
  
CHECK_DEADLOCK FALSE
