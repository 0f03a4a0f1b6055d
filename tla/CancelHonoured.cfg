SPECIFICATION MCSpec
CONSTANTS
  g1 = g1
  g2 = g2
  c = c
  s = s
  album = album
  None = None
  Order <- MCOne
  Key <- MCNoKey
  Streams = {}
  Lingering = {c}
  Closing = {}
  Workers = 2
  Retry = 2
  Size = 1
  IgnoreErrors = TRUE
  Parts = {"task"}
  N = 2
  ActiveLimit = 1
  Finisher = finisher
  MaxBytes = 1
  MaxFree = 2
  Nothing = nothing
CHECK_DEADLOCK FALSE
INVARIANT CancelHonoured
