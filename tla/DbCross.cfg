SPECIFICATION Spec
CONSTANTS
  p1 = p1  p2 = p2  p3 = p3
  a = a  b = b  c = c
  x = x  y = y  z = z
  C1 = C1  C2 = C2
  Blank = Blank  FREE = FREE  TAIL = TAIL  DAT = DAT
  Procs = {p1, p2, p3}
  Keys = {a, b, c}
  Values = {x, y, z}
  Chains = {C1, C2}
  Hash <- MCHash
  KeyLen <- MCKeyLen
  DatLen <- MCDatLen
  PtrMax = 9
  Preload <- CrossPreload
  Menu <- CrossMenu
  CrashOps = {}
INVARIANTS
  RecordsUnshared
  NoRecordLost
  AppendAtEof
