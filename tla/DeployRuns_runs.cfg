\* Two requests, or a request and a fault; a push, deploys that fail, a rollback.
CONSTANTS
  MaxReqs = 2
  Deliveries = {d1}
  MaxCommit = 2
  MaxRuns = 3
  MaxInputs = 2
SPECIFICATION FairSpec
INVARIANTS
  DeliveryOnce
  RollbackWarranted
  SucceededIsTrue
PROPERTIES
  RunsClose
CHECK_DEADLOCK FALSE
