CONSTANTS
  Agent = {a1}
  Svr = {s1}
  Weight = {0, 1}
  MaxEdits = 2
  BufCap = 1
  WireCap = 1
SPECIFICATION Spec
INVARIANTS DeletedIsGone
