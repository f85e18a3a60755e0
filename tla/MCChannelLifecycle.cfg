CONSTANTS
  Proc = {a, b, c}
  Slot = {s, t}
  Buf = {"pages", "fifo"}
  Nobody = Nobody
  UserStops = TRUE
SPECIFICATION Spec
INVARIANTS
  TypeOK LiveBuffersStay BuffersAreGuarded 
PROPERTIES TakenFromTheDead 
