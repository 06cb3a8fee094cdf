SPECIFICATION FairSpec
CONSTANTS
  None = None
  Clients = {c1, c2}
  MaxId = 3
  Base = 3
  Written = {3}
  MaxStops = 1
  Hups = 1
  MaxDefers = 1
  Faults = {"timeout", "write", "creat", "open", "read"}
INVARIANTS
  OneJobOneFile
  FirstComeFirstServed
  SpoolIsCleared
  AckedIsKept
  NeverForgotten
PROPERTIES
  AckedIsPrinted
