CONSTANTS
  Proc = {a, b}
  Slot = {s, t}
  Buf = {"pages"}
  Nobody = Nobody
  UserStops = TRUE
SPECIFICATION Safety
INVARIANTS OnePdaCaller
