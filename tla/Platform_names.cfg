\* Two projects that both ship a web app.
CONSTANTS
  Projects = {"shop", "blog"}
  AppsOf <- BothWeb
  Ecosystem <- NoFiles
  Commands <- PlainDeploys
  MaxDeploys = 2
  MaxFaults = 0
  Repos = 0
  Acts = 0
  None = None
SPECIFICATION MCSafe
INVARIANTS
  NoCollision
CHECK_DEADLOCK FALSE
