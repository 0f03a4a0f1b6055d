SPECIFICATION MCSpec
CONSTANTS
  a1 = a1
  a2 = a2
  a3 = a3
  b1 = b1
  A = A
  B = B
  None = None
  NoEvent = NoEvent
  Items <- MCItems
  Keys = {A, B}
  KeyOf <- MCKeyOf
  AlbumRule = TRUE
  Msgs = {a1, a2, b1}
  Deliveries <- MCDeliveries
  AlbumOf <- MCAlbumOf
  NoAlbum = NoAlbum
  Users = {anna}
  AlbumUsers = {anna}
  ChanCap = 1
  Attempts = {at1}
  MaxWrong = 1
  NoAttempt = none
CHECK_DEADLOCK FALSE
INVARIANTS
  AlbumInv
  CountsFromNewest
  WatchInv
PROPERTIES
  EveryFileSettles
  MessageReceived
  AnswerLeadsOn
