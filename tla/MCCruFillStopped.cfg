CONSTANTS
  Page = {p1, p2}
  NumLinks = 2
  LinkCap = 1
  ReadyCap = 2
  CounterMod = 2
  IndexMod = 2
  FullSize = 1
  SizeReported = TRUE
SPECIFICATION Spec
INVARIANTS NeverFatal
