CONSTANTS
  Agent = {a1}
  Svr = {s1}
  Weight = {1}
  MaxEdits = 1
  BufCap = 1
  WireCap = 0
SPECIFICATION Spec
PROPERTIES Reconnects
