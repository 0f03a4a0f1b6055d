SPECIFICATION MCSpec
CONSTANTS
  f1 = f1
  f2 = f2
  f3 = f3
  Files = {f1, f2, f3}
  Url <- MCUrl
  Workers = 2
  Retry = 2
  IgnoreErrors = TRUE
  KeepFile = FALSE
  None = None
  Chosen = {"tasks"}
  RetryTimes = 2
  Chunks = 2
  ItemSets <- MCItemSets
  MaxTries = 2
  MaxAlbum = 2
  MaxParts = 3
  SplitAttempts = 2
  Names = {"A", "B"}
  UserIDs <- MCUserIDs
  NamesOf <- MCNamesOf
  Callers = {c1, c2, c3}
  Loader = ld
  NoStorage = none
  MaxInstances = 4
  Paths = {p1}
  Uploaders = {w1, w2}
  Main = main
  Timers = {t1}
  QueueSize = 1
  Retries = 2
  Overwrite = TRUE
  MaxChanges = 2
  NoPath = nopath
  TopFiles = {}
  DeepFiles = {deep}
  MaxSize = 1
  MaxVersion = 3
CHECK_DEADLOCK FALSE
INVARIANT
  DownloadCanceled
