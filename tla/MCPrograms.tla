----------------------------- MODULE MCPrograms -----------------------------
(***************************************************************************)
(* The library functions and programs on processes, signals, terminals and *)
(* files, side by side: a behaviour is one of the program named by which,  *)
(* the others rest in their initial states.  DbOpen has three processes    *)
(* that open one new database, with every combination of flags.            *)
(***************************************************************************)
EXTENDS DbOpen, Integers, Sequences

CONSTANTS
  Null,                                      \* no descriptor, no process
  MaxSeconds,                                \* Sleep
  CmdFds, Pids,                              \* Popen
  NLOOPS,                                    \* TellWait
  Cbreak, Raw,                               \* TtyModes
  MaxLines,                                  \* Coprocess
  MaxData,                                   \* PtyLoop
  Copies, OpenFds, MaxFd,                    \* Daemon
  Chars, MaxSize, MaxOps,                    \* MemStream
  Files, Root, Parent, NameLen, Kind, Target, NAME_MAX, pathmax,   \* Ftw
  StatusSize,                                \* PrinterStatus
  MaxCalls,                                  \* OpenFork
  NBUF, Size,                                \* Rot13Aio
  HDR, FILE, IOBUFSZ, MAXSLEEP, Addrs,       \* PrintClient
  MAX_PASS_LEN, MaxTyped                     \* GetPass

ASSUME DaemonAssumption == MaxFd \in Nat /\ OpenFds \subseteq Nat /\ Null \notin Copies \X (0 .. 2)
ASSUME PassAssumption == MAX_PASS_LEN \in Nat
ASSUME AioAssumption == NBUF \in Nat /\ Size \in Nat
ASSUME UploadAssumption == HDR \in Nat \ {0} /\ FILE \in Nat /\ IOBUFSZ \in Nat
ASSUME MemAssumption == MaxSize \in Nat /\ 0 \notin Chars

VARIABLES
  which,
  spc, seconds, timer, action, oldmask, masked, pend, interrupted, oldRan,
  ypc, callerAct, ignored, chldmask, chldpend, child, cignored, exitst, status, dead,
  childpid, fdOf, type, cstate, held, kept, ppc, waitFor,
  by, area, wpc, i, bytes, sigflag, block, spend, waits,
  tty, save_termios, ttystate, ttysavefd, rpc, mode, res, stuck,
  input, line, kpc, fd1, fd2, stdio, copro, out,
  ignoreeof, ptytty, prog, made, copied, typed, xpc, zpc, handler, sigcaught,
  form, dpc, gen, leader, ctty, fds, flock, pidfile, hup, mask, dpend, rereads,
  msflags, mybuf, msbuf, rsize, vsize, curpos, ops, wrote, file,
  exists, readable, stack, next, path, pathlen, visited, count, changed,
  final, net, answer, bufsz, datsz, pos, lpc, success, whole, gaveUp,
  opc, fd, asked, got, req, ans, srv, cur, own,
  bufop, aiocb, bdata, busy, off, numop, scan, ofile, adone,
  cpc, aip, numsec, sent, bad, told, sock, resp, vpc, hdr, stored, stalled, failed,
  bpc, sigabrt, blocked, unsent, seen,
  gpc, echo, osig, heldBack, keys, keyed, pass, run, unrestored

sleepVars == <<spc, seconds, timer, action, oldmask, masked, pend, interrupted, oldRan>>
systemVars == <<ypc, callerAct, ignored, chldmask, chldpend, child, cignored, exitst, status, dead>>
popenVars == <<childpid, fdOf, type, cstate, held, kept, ppc, waitFor>>
tellVars == <<by, area, wpc, i, bytes, sigflag, block, spend, waits>>
ttyVars == <<tty, save_termios, ttystate, ttysavefd, rpc, mode, res, stuck>>
coproVars == <<input, line, kpc, fd1, fd2, stdio, copro, out>>
ptyVars == <<ignoreeof, ptytty, prog, made, copied, typed, xpc, zpc, handler, sigcaught>>
daemonVars == <<form, dpc, gen, leader, ctty, fds, flock, pidfile, hup, mask, dpend, rereads>>
memVars == <<msflags, mybuf, msbuf, rsize, vsize, curpos, ops, wrote, file>>
ftwVars == <<exists, readable, stack, next, path, pathlen, visited, count, changed>>
statusVars == <<final, net, answer, bufsz, datsz, pos, lpc, success, whole, gaveUp>>
forkVars == <<opc, fd, asked, got, req, ans, srv, cur, own>>
aioVars == <<bufop, aiocb, bdata, busy, off, numop, scan, ofile, adone>>
printVars == <<cpc, aip, numsec, sent, bad, told, sock, resp, vpc, hdr, stored, stalled, failed>>
abortVars == <<bpc, sigabrt, blocked, unsent, seen>>
passVars == <<gpc, echo, osig, heldBack, keys, keyed, pass, run, unrestored>>

Slp == INSTANCE Sleep
Sys == INSTANCE SystemCmd
Pop == INSTANCE Popen WITH Fds <- CmdFds
Tell == INSTANCE TellWait
Mode == INSTANCE TtyModes WITH Nofd <- Null
Copro == INSTANCE Coprocess
Pty == INSTANCE PtyLoop WITH tty <- ptytty, ypc <- zpc
Dmn == INSTANCE Daemon WITH Nobody <- Null
Mem == INSTANCE MemStream
Walk == INSTANCE Ftw

(* The files are a tree of directories: among any of them one is the root or *)
(* has its directory outside.  The root's own name may be longer than        *)
(* NAME_MAX, and a path may be longer than a name (limits.h).                *)
ASSUME TreeAssumption ==
  /\ IsFiniteSet(Files) /\ Root \in Files /\ "none" \notin Files
  /\ NAME_MAX \in Nat /\ pathmax \in Nat /\ pathmax > NAME_MAX
  /\ NameLen \in [Files -> Nat \ {0}] /\ Kind \in [Files -> {"reg", "dir", "slink"}]
  /\ \A f \in Files \ {Root} : Parent[f] \in Files /\ Kind[Parent[f]] = "dir" /\ NameLen[f] <= NAME_MAX
  /\ \A S \in SUBSET Files : S # {} => \E f \in S : f = Root \/ Parent[f] \notin S
Answer == INSTANCE PrinterStatus WITH IOBUFSZ <- StatusSize, data <- answer
Fork == INSTANCE OpenFork
Aio == INSTANCE Rot13Aio
Upload == INSTANCE PrintClient
Abt == INSTANCE Abort
Pass == INSTANCE GetPass

All == <<which, vars, sleepVars, systemVars, popenVars, tellVars, ttyVars, coproVars,
         ptyVars, daemonVars, memVars, ftwVars, statusVars, forkVars, aioVars,
         printVars, abortVars, passVars>>

MCInit ==
  /\ which \in {"open", "sleep", "system", "popen", "tell", "tty", "copro", "pty", "daemon", "mem",
              "ftw", "status", "fork", "aio", "print", "abort", "pass"}
  /\ Init /\ (which = "open" \/ \A p \in Procs : flags[p] = {})
  /\ Slp!Init /\ (which = "sleep" \/ (seconds = 1 /\ timer = 0 /\ ~oldmask))
  /\ Sys!Init /\ (which = "system" \/ callerAct = "dfl")
  /\ Pop!Init /\ Mode!Init /\ Copro!Init /\ Fork!Init /\ Aio!Init /\ Upload!Init
  /\ Abt!Init /\ (which = "abort" \/ (sigabrt = "dfl" /\ ~blocked /\ ~unsent))
  /\ Pass!Init /\ (which = "pass" \/ ~osig)
  /\ Tell!Init /\ (which = "tell" \/ by = "pipe")
  /\ Pty!Init /\ (which = "pty" \/ (~ignoreeof /\ ptytty = "orig"))
  /\ Dmn!Init /\ (which = "daemon" \/ form = "thread")
  /\ IF which = "mem" THEN Mem!Init
     ELSE msflags = {} /\ mybuf = FALSE /\ msbuf = <<>> /\ rsize = 0 /\ vsize = 0 /\ curpos = 0
          /\ ops = 0 /\ wrote = FALSE /\ file = <<>>
  /\ Walk!Init /\ (which = "ftw" \/ pathlen = Walk!myftw(Walk!path_alloc(TRUE)))
  /\ Answer!Init /\ (which = "status" \/ (net = <<final>> /\ Answer!Said))

Rest(p) ==
  /\ which = p /\ UNCHANGED which
  /\ IF p = "open" THEN TRUE ELSE UNCHANGED vars
  /\ IF p = "sleep" THEN TRUE ELSE UNCHANGED sleepVars
  /\ IF p = "system" THEN TRUE ELSE UNCHANGED systemVars
  /\ IF p = "popen" THEN TRUE ELSE UNCHANGED popenVars
  /\ IF p = "tell" THEN TRUE ELSE UNCHANGED tellVars
  /\ IF p = "tty" THEN TRUE ELSE UNCHANGED ttyVars
  /\ IF p = "copro" THEN TRUE ELSE UNCHANGED coproVars
  /\ IF p = "pty" THEN TRUE ELSE UNCHANGED ptyVars
  /\ IF p = "daemon" THEN TRUE ELSE UNCHANGED daemonVars
  /\ IF p = "mem" THEN TRUE ELSE UNCHANGED memVars
  /\ IF p = "ftw" THEN TRUE ELSE UNCHANGED ftwVars
  /\ IF p = "status" THEN TRUE ELSE UNCHANGED statusVars
  /\ IF p = "fork" THEN TRUE ELSE UNCHANGED forkVars
  /\ IF p = "aio" THEN TRUE ELSE UNCHANGED aioVars
  /\ IF p = "print" THEN TRUE ELSE UNCHANGED printVars
  /\ IF p = "abort" THEN TRUE ELSE UNCHANGED abortVars
  /\ IF p = "pass" THEN TRUE ELSE UNCHANGED passVars

(* The programs that come to an end, and the one that may hang: the signals  *)
(* of TellWait.                                                              *)
Finished ==
  /\ \/ which = "sleep" /\ spc = "done"
     \/ which = "system" /\ (ypc = "done" \/ dead # "no")
     \/ which = "popen"
     \/ which = "tell" /\ (by = "signal" \/ \A s \in DOMAIN wpc : wpc[s] = "exit")
     \/ which = "copro" /\ kpc = "exit"
     \/ which = "pty" /\ Pty!parentGone /\ Pty!childGone
     \/ which = "daemon" /\ \A d \in DOMAIN dpc : dpc[d] = "dead"
     \/ which = "mem" /\ ops = MaxOps
     \/ which = "ftw" /\ Walk!Done
     \/ which = "status" /\ lpc = "done"
     \/ which = "fork" /\ (Fork!clientGone \/ fd = "both") /\ Fork!serverGone
     \/ which = "aio" /\ adone
     \/ which = "print" /\ (cpc = "exit" \/ bad) /\ vpc \in {"none", "gone"}
     \/ which = "abort" /\ bpc \in {"dead", "left", "exit"}
     \/ which = "pass" /\ (gpc = "return" \/ run \in {"killed", "quit"})
  /\ UNCHANGED All

MCNext ==
  \/ Rest("open") /\ Next
  \/ Rest("sleep") /\ Slp!Next
  \/ Rest("system") /\ Sys!Next
  \/ Rest("popen") /\ Pop!Next
  \/ Rest("tell") /\ Tell!Next
  \/ Rest("tty") /\ Mode!Next
  \/ Rest("copro") /\ Copro!Next
  \/ Rest("pty") /\ Pty!Next
  \/ Rest("daemon") /\ Dmn!Next
  \/ Rest("mem") /\ Mem!Next
  \/ Rest("ftw") /\ Walk!Next
  \/ Rest("status") /\ Answer!Next
  \/ Rest("fork") /\ Fork!Next
  \/ Rest("aio") /\ Aio!Next
  \/ Rest("print") /\ Upload!Next
  \/ Rest("abort") /\ Abt!Next
  \/ Rest("pass") /\ Pass!Next
  \/ Finished

(* Processes that can run do run, clocks go on, and commands end when their  *)
(* input does.  Signals, keys, failures and typed input are never owed.      *)
MCSpec ==
  /\ MCInit /\ [][MCNext]_All
  /\ WF_All(Rest("sleep") /\ Slp!sleep) /\ WF_All(Rest("sleep") /\ Slp!Tick)
  /\ WF_All(Rest("popen") /\ Pop!PcloseWait)
  /\ \A p \in Pids : WF_All(Rest("popen") /\ (Pop!Exec(p) \/ Pop!ChildExit(p)))
  /\ \A s \in {"parent", "child"} : WF_All(Rest("tell") /\ Tell!Step(s))
  /\ WF_All(Rest("copro") /\ Copro!parent) /\ WF_All(Rest("copro") /\ Copro!add2)
  /\ WF_All(Rest("pty") /\ Pty!parent) /\ WF_All(Rest("pty") /\ Pty!child /\ zpc # "read")
  /\ \A d \in Copies : WF_All(Rest("daemon") /\ Dmn!thr_fn(d))
  /\ WF_All(Rest("ftw") /\ Walk!walk)
  /\ WF_All(Rest("status") /\ Answer!printer_status)
  /\ WF_All(Rest("fork") /\ Fork!csopen) /\ WF_All(Rest("fork") /\ Fork!opend)
  /\ WF_All(Rest("aio") /\ Aio!main) /\ \A b \in 1 .. NBUF : WF_All(Rest("aio") /\ Aio!Complete(b))
  /\ WF_All(Rest("print") /\ Upload!print) /\ WF_All(Rest("print") /\ Upload!client_thread)

-----------------------------------------------------------------------------
(* The instance that is checked.  Two commands, each at either descriptor;   *)
(* two rounds for each side of TellWait, so a wait that is not the first;    *)
(* two copies of the daemon, and a descriptor above rlim_max; a directory in *)
(* the root with a file in each and a link to it, and a path buffer too      *)
(* small for the second level; a call of csopen after an answer of each      *)
(* kind; more blocks than buffers; a header and a file that come in two      *)
(* pieces; one character more than a password's buffer has room for.         *)
CONSTANTS p1, p2, p3

RaceFlags == SUBSET {"creat", "trunc"}
MCParent == [dir |-> "root", reg |-> "root", slink |-> "root", deep |-> "dir"]
MCNameLen == [root |-> 4, dir |-> 3, reg |-> 1, slink |-> 2, deep |-> 3]
MCKind == [root |-> "dir", dir |-> "dir", reg |-> "reg", slink |-> "slink", deep |-> "reg"]
MCTarget == [slink |-> "dir"]

-----------------------------------------------------------------------------
(* What a library function changes for a while it puts back.  sleep(): the   *)
(* action for SIGALRM and the mask; its own alarm runs the caller's action   *)
(* only when another signal, or the caller's own alarm, has ended the wait.  *)
(* ttymodes.c: the terminal is in the mode that ttystate says, also after a  *)
(* tcsetattr that did half of it, and out of a mode it is as it was, unless  *)
(* a tcsetattr has left some of what it was to put back.  getpass(): the     *)
(* echo, at the return and when the interrupt or suspend key takes effect,   *)
(* unless its last tcsetattr fails; the quit key is not held back and leaves *)
(* the echo as it is.                                                        *)
CallerRestored == Slp!ActionKept /\ Mode!StateIsTrue /\ Pass!EchoIsBack

(* What comes back belongs to what was asked: system() returns its own       *)
(* command's status and no key ends the caller meanwhile; parent and child   *)
(* count in turns (devzero.c); a coprocess's answer goes with its line       *)
(* (pipe4.c); the pty parent has copied all when the program ends (loop.c);  *)
(* a job counts as printed if and only if the printer said so in one piece;  *)
(* csopen gets the answer to its own request (open.fe); the print command is *)
(* told a job number when its whole file is in the spool.                    *)
AnswersRight ==
  /\ Sys!StatusIsChilds /\ Tell!TakeTurns /\ Copro!AnswersMatch
  /\ Pty!OutputComplete /\ Answer!AnswerUnderstood
  /\ Fork!OwnResult /\ Upload!SubmitRight

(* At most one copy of a daemon runs and its pid is in the lock file; it has *)
(* no controlling terminal and can get none (daemonize, already_running).    *)
RunsAlone == Dmn!OneDaemon /\ Dmn!Detached

(* Buffers are big enough: no call on a memory stream leaves its buffer, a   *)
(* path has room in fullpath at every depth of the walk, a password in buf.  *)
InBounds == Mem!InBuffer /\ Walk!PathFits /\ Pass!PassFits

(* A memory stream holds what a file would hold; the walk of ftw8 visits     *)
(* each file once, by its own path, and counts it by its own type; rot13c2    *)
(* puts each block in its place whatever order the operations finish in; and *)
(* abort() ends the process with its streams flushed.                        *)
ContentsExact == Mem!LikeAFile /\ Walk!PathIsFiles /\ Walk!VisitedOnce /\ Aio!OutputInPlace
                 /\ Abt!DiesFlushed

(* Every call ends: sleep() whatever the alarm's timing; pclose in any order *)
(* of the streams; the waits of TELL_WAIT; the answer of the coprocess; both *)
(* processes of pty; a SIGHUP is heard; the walk, with files disappearing;   *)
(* printer_status, with an answer in one piece; csopen, and the server with  *)
(* its client; the copy of rot13c2; and the print command, with the thread   *)
(* that serves it.                                                           *)
CallsEnd ==
  /\ which = "sleep" => Slp!Returns
  /\ which = "tell" => Tell!TurnsGoOn
  /\ which = "ftw" => <>Walk!Done
  /\ which = "status" => Answer!StatusEnds
  /\ which = "aio" => Aio!CopyEnds
  /\ which = "print" => Upload!SubmitEnds
  /\ Fork!OpenEnds
  /\ Pop!PcloseReturns /\ Copro!AnswerComes /\ Pty!BothEnd /\ Dmn!HupIsHeard
=============================================================================
