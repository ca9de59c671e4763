SPECIFICATION Spec
CONSTANTS
  StopCount = 5
  Parts = 2
  NoStop = NoStop
  NoPath = NoPath
  NoState = NoState
INVARIANTS
  TypeOK
  EveryCandidateIsRouted
  StopsAreServed
  SewnExactly
  NeverFailsInternally
CHECK_DEADLOCK FALSE
