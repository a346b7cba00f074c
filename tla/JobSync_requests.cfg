\* Two requests of any kind one at a time; or two that overlap, patching and deleting; one broken stream or restart.
CONSTANTS
  Jobs = {j1}
  Servers = {s1}
  Labels = {l1}
  Reqs = {1, 2}
  Ops = {"create", "patch", "setEnabled", "delete", "labels", "runNow"}
  OverlapOps = {"patch", "delete"}
  MaxDrops = 1
  None = None
  Deleted = Deleted
SPECIFICATION MCFairSpec
INVARIANTS
  InSync
  
PROPERTIES
  EventuallyInSync
CHECK_DEADLOCK FALSE
