SPECIFICATION Spec
CONSTANTS
  Calls <- MCCalls
  Databases <- MCDatabases
  TariffTables <- MCTariffTables
  Jurisdictions = {"caba", "national"}
  MaxUpdates = 1
  Corridors = 2
  MinimumReferenceRoutes = 2
  Whole = 2
  Unit = 4
  Radius = 3
  None = None
INVARIANTS
  TypeOK
  CauseIsReported
  NarrowestCorridor
  PacesAreMedian
  TripsAreCountedOnce
  FaresOfTheOriginal
  NeverFailsInternally
