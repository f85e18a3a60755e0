CONSTANTS
  Page = {p1, p2, p3}
  TransferCap = 2
  ReadyCap = 2
  Options <- MCOptions
SPECIFICATION Spec
INVARIANTS
  BooksBalance
PROPERTIES Finishes EndsWhenTold FilledIsReadOut
