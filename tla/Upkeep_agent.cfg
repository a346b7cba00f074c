\* Two changes of the root flag on five kinds of hosts, or two updates of eight kinds of agents, with one fault.
CONSTANTS
  Parts = {"root", "update"}
  Hosts <- HostKinds
  Toggles = {1, 2}
  MaxFaults = 1
  None = None
  Updates = {1, 2}
  Families = {"tools"}
  Backend = {"nm"}
  MaxOf <- Nothing
  MaxLines <- Lines
  Cap = 2
  DirectCap = 3
  NetArgs = {}
  a1 = a1
  g1 = g1
SPECIFICATION MCSpec
INVARIANTS
  NoRestartLoop
  
PROPERTIES
  UpkeepSettles
CHECK_DEADLOCK FALSE
