CONSTANTS
  Page = {p1, p2, p3, p4}
  NumLinks = 2
  LinkCap = 2
  ReadyCap = 2
  CounterMod = 4
  IndexMod = 2
  FullSize = 2
  SizeReported = TRUE
SPECIFICATION Spec
SYMMETRY Symmetric
INVARIANTS
  TypeOK SlotAccounting NoImpossibleError NoStrayDma ReadyMeansFilled 
  StoppedMeansReclaimed
PROPERTIES ImplementsOwnership
