\* Three syncs of two jobs in two timezones, some with a bad expression; or four windows and two crashes for a job of each policy.
CONSTANTS
  j1 = j1
  j2 = j2
  Jobs = {j1, j2}
  Zones = {z1, z2}
  Crons = {c1, bad}
  BadCrons = {bad}
  MaxSyncs = 3
  None = None
  Policy <- OnceAndAll
  Cap = 2
  MaxTime = 4
  MaxCrashes = 2
SPECIFICATION MCSpec
SYMMETRY Symmetry
INVARIANTS
  HeldOnce
  FollowsSync
  CachedZonesRun
  
CHECK_DEADLOCK FALSE
