SPECIFICATION MCSpec
CONSTANTS
  Request <- MCRequest
  Group <- MCGroup
  NoGroup = "none"
  Rules <- MCRules
  DirRow <- MCDirRow
  Settings <- MCSettings
  Slots <- MCSlots
  Usable = {"A", "B"}
  MaxEdits = 2
  MaxRequests = 1
  Storages = {"A", "B"}
  NoStorage = ""
  Commands <- MCCommands
  Handlers <- MCHandlers
  Chats = {"c"}
  MaxRows = 2
  Savers = {s1, s2}
  Attempts = 1
  Chunks = 2
  MaxTries = 2
  Owner = owner
  NoFile = none
  AlistSavers = {s1, s2}
  Ticker = ticker
  MaxLapses = 2
  Nobody = none
  N = 2
  ActiveLimit = 1
  Finisher = finisher
  MaxBytes = 1
  MaxFree = 2
  Nothing = nothing
CHECK_DEADLOCK FALSE
INVARIANTS
  ChoicesKept
  FilesAccounted
  SettingsInv
  SaveInv
  TokenInv
  
