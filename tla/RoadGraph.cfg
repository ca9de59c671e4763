SPECIFICATION Spec
CONSTANTS
  Requests = {r1, r2}
  start = start
  direct = direct
  left = left
  right = right
  Streets <- MCStreets
  Networks <- MCNetworks
  Cuts <- MCCuts
  Coverages <- MCCoverages
  Candidates <- MCCandidates
  BannedTurns <- MCBannedTurns
  LastLoad = 2
INVARIANTS
  GraphIsOfOneLoad
  AnalysisIsOfItsLoad
  VariantAvoidsCut
  IsolationIsReal
PROPERTY NobodyWaitsForever
CHECK_DEADLOCK FALSE
