CONSTANTS
  Runs = {a, b}
  MaxStarts = 4
SPECIFICATION Spec
SYMMETRY Interchangeable
INVARIANTS OneBuilder AloneNeverErrs
PROPERTIES RunsBuildAll OnlyResetDestroys
CHECK_DEADLOCK FALSE
