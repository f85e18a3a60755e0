CONSTANTS
  Size = 3
  Value = {a, b}
  NoValue = NoValue
SPECIFICATION FairSpec
INVARIANTS NoOverwrite HandedOutIntact GuessesAreBounds
PROPERTIES ImplementsFifo AcceptedIsDelivered
