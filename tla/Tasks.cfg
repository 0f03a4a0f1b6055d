SPECIFICATION MCSpec
CONSTANTS
  t1 = t1
  t2 = t2
  t3 = t3
  a = a
  b = b
  Tasks <- MCTasks
  IDs <- MCIDs
  id <- MCid
  Workers = {w1, w2}
  Callers = {c1, c2}
  None = None
  ApiTasks = {api}
  BotTasks = {bot}
  RunnerWorker = w3
  HttpCallers = {http}
CHECK_DEADLOCK FALSE
INVARIANTS
  QueueInv
PROPERTIES
  IdentifiersReturn
  ImplementsPool
  ServesQueue
  TasksSettle
