\* Two requests and one fault, for an nginx, a systemd and a pm2 connector; or two web terminals and one fault.
CONSTANTS
  good = good
  new = new
  unfit = unfit
  None = None
  MaxRequests = 2
  Hosts <- ThreeHosts
  Contents = {good, new, unfit}
  Parses = {good, new, unfit}
  Fits = {good, new}
  Boots = {good, new}
  Original = good
  Keep = 1
  MaxFaults = 1
  MaxSessions = 2
  MaxOut <- OneUsed
  MaxIn <- OneUsed
  BusCap = 1
  DirectCap = 2
  MaxBreaks = 1
SPECIFICATION MCSpec
INVARIANTS
  
  RowsAreTrue
  TerminalsRight
PROPERTIES
  ConnectorsSettle
CHECK_DEADLOCK FALSE
