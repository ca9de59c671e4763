SPECIFICATION FairSpec
CONSTANTS
  r1 = r1
  r2 = r2
  Requests = {r1, r2}
  Callers <- MCCallers
  Interval = 1
  ReadHeaderTimeout = 1
  ReadTimeout = 2
  WriteTimeout = 3
  SimulationTimeout = 2
  ShutdownTimeout = 2
  LastArrival = 0
  LastSignal = 3
  MaxTime = 6
INVARIANTS
  DownloadsAreSpaced
  TimelyBodiesAreAnswered
  ShutdownIsGraceful
PROPERTIES
  GateNeverIdles
  ConnectionsEnd
