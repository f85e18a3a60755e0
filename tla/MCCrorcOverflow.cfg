CONSTANTS
  Page = {p1, p2, p3}
  TransferCap = 2
  ReadyCap = 2
  CounterMod = 4
  FullSize = 1
SPECIFICATION Spec
PROPERTIES FilledIsMovedToReady
