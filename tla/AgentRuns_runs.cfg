\* Two runs of one job compete for its slot while its definition changes; or one run with a retry and a line per pipe.
CONSTANTS
  Jobs = {j1}
  Runs = {r1, r2}
  JobOf <- SameJob
  Sources = {"schedule", "manual", "catchup"}
  MaxRetries = 1
  SeqBlock = 1
  MaxLines = 1
  MaxSyncs = 1
SPECIFICATION MCSpec
INVARIANTS
  Exclusive
  RunsAccounted

  
CHECK_DEADLOCK FALSE
