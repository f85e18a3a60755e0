CONSTANTS
  Page = {p1, p2, p3}
  TransferCap = 2
  ReadyCap = 3
  CounterMod = 4
  FullSize = 2
SPECIFICATION FairSpec
INVARIANTS ReportedRightly
PROPERTIES PushedComesBack InOrder ImplementsOwnership
