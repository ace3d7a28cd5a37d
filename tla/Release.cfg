SPECIFICATION FairSpec
CONSTANTS
  web = web
  api = api
  Services = {web, api}
  Length = 3
  Deploys <- Entries
  ServiceOf <- TwiceWeb
INVARIANTS
  TypeOK
  AllPromotedIsTrue
  PartialFailureSurfaced
  NoHalfDeploy
  OneDeployPerService
PROPERTY EveryReleaseEnds
CHECK_DEADLOCK FALSE
