SPECIFICATION MCSpec
CONSTANTS
  g1 = g1
  g2 = g2
  c = c
  s = s
  album = album
  None = None
  Order <- MCOrder
  Key <- MCKey
  Streams = {s}
  Lingering = {c}
  Closing = {s}
  Workers = 2
  Retry = 2
  Size = 1
  IgnoreErrors = TRUE
  Parts = {"task", "queue"}
  N = 2
  ActiveLimit = 1
  Finisher = finisher
  MaxBytes = 1
  MaxFree = 2
  Nothing = nothing
CHECK_DEADLOCK FALSE
INVARIANTS
  CompletedStored
  ReportInv
PROPERTIES
  VerdictFinal
  TaskReturns
  FinalPerformed
