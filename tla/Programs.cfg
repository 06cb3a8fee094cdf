SPECIFICATION MCSpec
CONSTANTS
  p1 = p1  p2 = p2  p3 = p3
  Procs = {p1, p2, p3}
  FlagSets <- RaceFlags
  Existing = FALSE
  Null = Null
  MaxSeconds = 2
  CmdFds = {3, 4}  Pids = {1, 2}
  NLOOPS = 4
  Cbreak = {"icanon", "vmin"}  Raw = {"icanon", "vmin", "opost"}
  MaxLines = 3
  MaxData = 2
  Copies = {1, 2}  OpenFds = {0, 2, 5, 9}  MaxFd = 8
  Chars = {1, 2}  MaxSize = 3  MaxOps = 4
  Files = {"root", "dir", "reg", "slink", "deep"}  Root = "root"
  Parent <- MCParent  NameLen <- MCNameLen  Kind <- MCKind  Target <- MCTarget
  NAME_MAX = 3  pathmax = 10
  StatusSize = 9
  MaxCalls = 3
  NBUF = 2  Size = 5
  HDR = 2  FILE = 2  IOBUFSZ = 2  MAXSLEEP = 4  Addrs = 2
  MAX_PASS_LEN = 2  MaxTyped = 3
INVARIANTS
  CreatedOnce
  CallerRestored
  AnswersRight
  RunsAlone
  InBounds
  ContentsExact
PROPERTIES
  CallsEnd
