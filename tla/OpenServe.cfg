SPECIFICATION FairSpec
CONSTANTS
  c1 = c1  c2 = c2  c3 = c3
  None = None
  Clients = {c1, c2, c3}
  Loops = {"poll", "select"}
  Menu <- ServeMenu
  MAXLINE = 3
  NALLOC = 2
  MaxFaults = 1
INVARIANTS
  TablesAgree
  OwnAnswer
  NoFormatError
  RequestUid
PROPERTIES
  OpenReturns
