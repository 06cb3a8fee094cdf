SPECIFICATION Spec
CONSTANTS
  None = None
  Clients = {c1, c2}
  MaxId = 4
  MaxStops = 1
  Hups = 0
  MaxDefers = 0
  Faults = {}
  Base = 3
  Written = {}
INVARIANTS
  AckedIsSafe
