SPECIFICATION CatalogueSpec
CONSTANTS
  Recorridos = {1, 2, 3, 4, 5}
  Stops = {1, 2, 3, 4, 5, 6, 7, 8}
  StopsOf <- MCStopsOf
  Walks <- MCWalks
  Cells = {10, 11, 12, 20, 30}
  StopsNear <- MCStopsNear
  Hours = {8, 9}
  MaximumAlternatives = 2
  Parts = 2
  Surveys <- MCSurveys
  NameOf <- MCNameOf
  Searches <- MCSearches
  Sizes = {0, 1, 9}
  DefaultPageSize = 2
  MaximumPageSize = 3
  WeakEvidence = 1
  Places = {0, 1, 2, 3, 4, 5, 6, 7, 8, 9, 10, 11}
  Meters <- MCMeters
  AlignmentTolerance = 5
  EndpointTolerance = 4
  Whole = 4
  MinimumCoverage = 1
  DefaultCount = 2
  MaximumCount = 3
  StoredLines <- MCStoredLines
  Drawings <- MCDrawings
  CandidateSets <- MCCandidateSets
INVARIANTS
  RankingIsTheSplit
  ZonesAreOneFlow
  PagesAreTheRanking
  ShortlistIsBest
  ExportsAreFaithful
