SPECIFICATION Spec
CONSTANTS
  web = web
  api = api
  Services = {web, api}
  Length = 3
  Deploys <- Entries
  ServiceOf <- TwiceWeb
INVARIANT TerminatedLeavesNoHalfDeploy
CHECK_DEADLOCK FALSE
