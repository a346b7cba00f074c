\* Three streams that supersede one another and a restart; or three streams and two crashes, with loss and handlers that overlap; or a run that writes past its cap and two viewers.
CONSTANTS
  Runs = {r1}
  MaxConns = 3
  MaxCrashes = 2
  Envs <- AllEnvs
  MaxStreams = 3
  MaxRestarts = 1
  MaxChunks = 3
  LogCap = 2
  Buffer = 2
  MaxViews = 2
  MaxFaults = 1
SPECIFICATION MCSpec
INVARIANTS
  OnlineIsBacked
  ReportsKept
  
PROPERTIES
  NewestCounts
  GatewaySettles
CHECK_DEADLOCK FALSE
