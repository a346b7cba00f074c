\* Two browsers and two requests that sign in; two requests for a git token; two enrolments with crashes; an event and two requests or failures.
CONSTANTS
  Browsers = {b1, b2}
  e1 = e1
  Emails = {e1, e2}
  Accounts = {a1}
  EmailOf <- OneAddress
  Keys = {k1}
  Requests = {r1, r2}
  MaxStarted = 2
  None = None
  Calls = {c1, c2}
  Logins = {g1, g2}
  Hosts = {h1, h2}
  Servers = {1}
  MaxTime = 3
  MaxTokens = 2
  MaxEnrolls = 2
  GitFaults = 1
  EnrollFaults = 2
  Targets <- Tgts
  Events <- Happenings
  Patches <- Forms
  Subscribing <- Opts
  Endpoints = {p1}
  MaxEvents = 1
  MaxTurns = 2
SPECIFICATION MCSpec
INVARIANTS
  LetInRight
  
  EnrolledRight
  NotifyRight
PROPERTIES
  AccessSettles
CHECK_DEADLOCK FALSE
