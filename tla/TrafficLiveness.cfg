SPECIFICATION FairSpec
CONSTANTS
  Requests = {r1, r2}
  Selections <- AllTiles
  ContextEnds = {"canceled"}
  Tiles = {t1, t2}
  Bodies <- MCPlainBodies
  Maximum = 1
  MaximumBytes = 2
  Ttl = 1
  MaxTime = 1
  DownloadErrors = {"unavailable"}
  NoEntry = NoEntry
  NoLeader = NoLeader
INVARIANT CancellationIsForeign
PROPERTY RequestsAnswered
