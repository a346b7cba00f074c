\* Toolchain installs, pairings, network and radio changes, with one fault (an overlap, a drop, a full buffer, a late answer, a client or an agent that goes away).
CONSTANTS
  Parts = {"requests"}
  Hosts <- HostKinds
  Toggles = {}
  MaxFaults = 1
  None = None
  Updates = {}
  Families = {"tools", "pair", "net", "radio"}
  Backend = {"nm", "netplan"}
  MaxOf <- Few
  MaxLines <- Lines
  Cap = 2
  DirectCap = 3
  NetArgs <- Changes
  a1 = a1
  g1 = g1
SPECIFICATION MCSpec

  
PROPERTIES
  
  PrimaryKept
CHECK_DEADLOCK FALSE
