SPECIFICATION Spec
CONSTANTS
  Requests = {r1, r2}
  Selections <- AnyTiles
  ContextEnds = {}
  Tiles = {t1, t2}
  Bodies <- MCBodies
  Maximum = 2
  MaximumBytes = 2
  Ttl = 1
  MaxTime = 3
  DownloadErrors = {"unavailable"}
  NoEntry = NoEntry
  NoLeader = NoLeader
SYMMETRY MCSymmetry
INVARIANTS
  UndecodableIsTransient
  StoreConsistent
PROPERTIES
  AnswersAreFresh
  LoadsAreShared
