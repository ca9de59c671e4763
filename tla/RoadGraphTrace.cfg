SPECIFICATION Spec
CONSTANTS
  Requests = {r1}
  start = start
  direct = direct
  left = left
  right = right
  Streets <- MCStreets
  Networks <- MCNetworks
  Cuts <- MCCuts
  Coverages <- MCCoverages
  Candidates <- MCCandidates
  BannedTurns <- MCBannedTurns
  LastLoad = 2
INVARIANT TraceNamesTheGraph
CHECK_DEADLOCK FALSE
