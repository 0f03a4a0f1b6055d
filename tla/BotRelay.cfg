SPECIFICATION MCSpec
CONSTANTS
  Routes = {r1, r2}
  Owners = {o1}
  Puts = {p1, p2}
  Links <- MCLinks
  PageSize = 1
  HistoryLimit = 1
  MaxRows = 2
  Targets = {t1, t2}
  Handlers = {h1, h2}
  Capacity = 2
  None = None
  Nobody = Nobody
SYMMETRY MCSymmetry
CHECK_DEADLOCK FALSE
INVARIANTS
  NothingSkipped
  RouteInv
  AnswersBelong
