CONSTANTS
  Agent = {a1, a2}
  Svr = {s1}
  Weight = {0, 1}
  MaxEdits = 2
  BufCap = 1
  WireCap = 0
SPECIFICATION Spec
INVARIANTS TypeOK Agreement
PROPERTIES NeverBackwards EditsArrive
