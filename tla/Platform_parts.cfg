\* Three deploys of two projects and a fault; two imports of a repository, or two changes of a project, and what else happens to it.
CONSTANTS
  Projects = {"shop", "blog"}
  AppsOf <- TwoProjects
  Ecosystem <- EcoFiles
  Commands <- Deploys
  MaxDeploys = 3
  MaxFaults = 1
  Repos = 2
  Acts = 2
  None = None
SPECIFICATION MCSpec

  
PROPERTIES
  PlatformSettles
CHECK_DEADLOCK FALSE
