SPECIFICATION Spec
CONSTANTS
  t1 = t1
  t2 = t2
  Threads = {t1, t2}
  Applications <- MCApplications
  HEAPMAXSIZE = 131072
  UNTRUSTEDSTACK = 36864
  WORDBITS = 20
  Lengths = {0, 2, 40000, 262145}
  MaxInits = 1
  None = None
INVARIANTS TypeOK ReplyMatchesStatus BufferHoldsCount NothingLeaks StoreNotReentered
CHECK_DEADLOCK FALSE
