SPECIFICATION Spec
CONSTANTS
  None = None
  Clients = {c1, c2}
  MaxId = 4
  MaxStops = 0
  Hups = 0
  MaxDefers = 0
  Faults = {"stall"}
  Base = 3
  Written = {}
INVARIANTS
  PrintsWholeFile
