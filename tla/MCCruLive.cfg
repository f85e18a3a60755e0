CONSTANTS
  Page = {p1, p2, p3}
  NumLinks = 2
  LinkCap = 2
  ReadyCap = 3
  CounterMod = 3
  IndexMod = 3
  FullSize = 1
  SizeReported = TRUE
SPECIFICATION FairSpec
PROPERTIES FilledIsDelivered CallsReturn
