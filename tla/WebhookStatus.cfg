SPECIFICATION MCSpec
CONSTANTS
  Tasks = {api, bot}
  ApiTasks = {api}
  HookTasks = {api}
  CopyTasks = {}
  w1 = w1
  w2 = w2
  Workers <- MCWorkers
  Callers = {http, button}
  HttpCallers = {http}
  None = None
  Asked <- MCAsked
  Album <- MCAlbum
  NoAlbum = 0
  Media = {1, 2, 3, 5}
  Files = {1, 2, 3}
  Sees <- MCSees
  Fleeting = {1, 2}
  MaxRequests = 2
  Parts = {"runner"}
  Originals <- MCOriginals
  Editors = {e1}
  MaxEdits = 1
  MaxSaves = 2
  NoPage = none
  Attempts = {at1, at2}
  MaxWrong = 1
  NoAttempt = none
CHECK_DEADLOCK FALSE
INVARIANT WebhookStatus
