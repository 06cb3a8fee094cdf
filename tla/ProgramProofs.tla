---------------------------- MODULE ProgramProofs ----------------------------
(***************************************************************************)
(* For any number of processes, files, blocks, answers and characters:     *)
(* what MCPrograms says of the library functions and programs.  Each has   *)
(* its own inductive invariant; a step of one leaves the others as they    *)
(* are.                                                                    *)
(***************************************************************************)
EXTENDS MCPrograms, FiniteSetTheorems, SequenceTheorems, WellFoundedInduction, TLAPS

\* A step of one program leaves the others as they are.
LEMMA Steps ==
  ASSUME [MCNext]_All
  PROVE  /\ [Next]_vars /\ [Slp!Next]_sleepVars /\ [Sys!Next]_systemVars /\ [Tell!Next]_tellVars
         /\ [Mode!Next]_ttyVars /\ [Copro!Next]_coproVars /\ [Pty!Next]_ptyVars /\ [Dmn!Next]_daemonVars
         /\ [Mem!Next]_memVars /\ [Walk!Next]_ftwVars /\ [Answer!Next]_statusVars /\ [Fork!Next]_forkVars
         /\ [Aio!Next]_aioVars /\ [Upload!Next]_printVars /\ [Abt!Next]_abortVars /\ [Pass!Next]_passVars
BY DEF MCNext, Rest, Finished, All

\* Queues of one element and of two.
LEMMA OneElement ==
  ASSUME NEW x, NEW y
  PROVE  /\ Append(<<>>, x) = <<x>> /\ Head(<<x>>) = x /\ Tail(<<x>>) = <<>>
         /\ Append(<<x>>, y) = <<x, y>> /\ Head(<<x, y>>) = x /\ Tail(<<x, y>>) = <<y>>
         /\ <<x>> # <<>> /\ <<x, y>> # <<>>
<1>1. Append(<<>>, x) = <<x>> /\ Head(<<x>>) = x /\ Tail(<<x>>) = <<>> /\ <<x>> # <<>>
  OBVIOUS
<1>2. Append(<<x>>, y) = <<x, y>>
  <2>1. <<x>> \in Seq({x, y}) /\ <<x, y>> \in Seq({x, y}) /\ Len(<<x>>) = 1 /\ <<x>>[1] = x
    OBVIOUS
  <2>2. Len(<<x, y>>) = 2 /\ <<x, y>>[1] = x /\ <<x, y>>[2] = y
    OBVIOUS
  <2> DEFINE t == Append(<<x>>, y)
  <2>3. t \in Seq({x, y}) /\ Len(t) = 2 /\ t[1] = x /\ t[2] = y
    BY <2>1, AppendProperties
  <2> HIDE DEF t
  <2>4. \A n \in 1 .. Len(t) : t[n] = <<x, y>>[n]
    BY <2>2, <2>3
  <2>5. t = <<x, y>>
    BY <2>1, <2>2, <2>3, <2>4, SeqEqual
  <2> QED  BY <2>5 DEF t
<1>3. Head(<<x, y>>) = x /\ <<x, y>> # <<>>
  OBVIOUS
<1>4. Tail(<<x, y>>) = <<y>>
  <2>1. <<x>> \in Seq({x, y})
    OBVIOUS
  <2> QED  BY <1>1, <1>2, <2>1, HeadTailAppend
<1> QED  BY <1>1, <1>2, <1>3, <1>4

\* A set of natural numbers has a least one.
LEMMA LeastNat ==
  ASSUME NEW S \in SUBSET Nat, S # {}
  PROVE  \E m \in S : \A n \in S : m <= n
<1>1. PICK m \in S : \A n \in S : ~(<<n, m>> \in OpToRel(<, Nat))
  BY NatLessThanWellFounded, WFMin
<1>2. \A n \in S : ~(n < m)
  BY <1>1 DEF OpToRel
<1> QED BY <1>2

-----------------------------------------------------------------------------
(* lib/sleep.c.                                                            *)

\* From where to where the action for SIGALRM is sleep()'s and the signal blocked, and
\* where the alarm of sleep() may be running.
SleepInv ==
  /\ spc \in {"sigaction", "block", "alarm", "sigsuspend", "suspended", "cancel", "restore", "unblock", "done"}
  /\ timer \in Nat /\ seconds \in Nat /\ action \in {"old", "ours"}
  /\ action = "old" <=> spc \in {"sigaction", "unblock", "done"}
  /\ spc \in {"alarm", "sigsuspend", "cancel", "restore", "unblock"} => masked
  /\ spc = "suspended" => ~masked /\ ~pend
  /\ spc \in {"restore", "unblock", "done"} => timer = 0
  /\ spc = "cancel" /\ timer > 0 => interrupted
  /\ spc \in {"cancel", "restore", "unblock"} /\ pend => interrupted
  /\ oldRan => interrupted
  /\ spc = "done" => masked = oldmask

LEMMA SleepInit == Slp!Init => SleepInv
BY DEF Slp!Init, SleepInv

LEMMA SleepStep == SleepInv /\ [Slp!Next]_sleepVars => SleepInv'
<1> SUFFICES ASSUME SleepInv, [Slp!Next]_sleepVars PROVE SleepInv'
  OBVIOUS
<1> USE DEF SleepInv, Slp!Go
<1>1. CASE UNCHANGED sleepVars
  BY <1>1 DEF sleepVars
<1>2. CASE Slp!Tick
  <2>0. timer > 0 /\ timer' = timer - 1 /\ UNCHANGED <<seconds, action, oldmask, interrupted>>
    BY <1>2 DEF Slp!Tick
  <2>1. CASE timer > 1
    BY <1>2, <2>1 DEF Slp!Tick
  <2>2. CASE timer <= 1 /\ masked
    <3>0. timer = 1 /\ timer' = 0
      BY <2>0, <2>2
    <3>1. UNCHANGED <<spc, masked, oldRan>>
      BY <1>2, <2>2, <3>0 DEF Slp!Tick
    <3>2. spc # "suspended" /\ spc # "done" /\ (spc = "cancel" => interrupted)
      BY <2>0, <2>2
    <3>3. spc \in {"restore", "unblock", "done"} => FALSE
      BY <2>0
    <3>4. /\ timer' \in Nat
          /\ spc' \in {"alarm", "sigsuspend", "cancel", "restore", "unblock"} => masked'
          /\ spc' = "suspended" => ~masked' /\ ~pend'
          /\ spc' = "done" => masked' = oldmask'
      BY <2>2, <3>0, <3>1, <3>2
    <3>5. /\ spc' = "cancel" => interrupted'
          /\ spc' \in {"cancel", "restore", "unblock"} /\ pend' => interrupted'
          /\ oldRan' => interrupted'
      BY <2>0, <3>1, <3>2, <3>3
    <3> QED  BY <2>0, <3>0, <3>1, <3>4, <3>5
  <2>3. CASE timer <= 1 /\ ~masked
    <3>0. timer = 1 /\ timer' = 0
      BY <2>0, <2>3
    <3>1. UNCHANGED pend
      BY <1>2, <2>3, <3>0 DEF Slp!Tick
    <3>2. ~(Slp!Ours /\ action = "old")
      BY <2>0 DEF Slp!Ours
    <3>3. oldRan' => oldRan
      BY <1>2, <2>3, <3>0, <3>2 DEF Slp!Tick
    <3>4. spc = "suspended" => spc' = "cancel" /\ masked'
      BY <1>2, <2>3, <3>0 DEF Slp!Tick
    <3>5. spc # "suspended" => UNCHANGED <<spc, masked>>
      BY <1>2, <2>3, <3>0 DEF Slp!Tick
    <3>6. spc \notin {"cancel", "restore", "unblock", "done"}
      BY <2>0, <2>3
    <3> QED  BY <2>0, <2>3, <3>0, <3>1, <3>3, <3>4, <3>5, <3>6
  <2> QED  BY <2>0, <2>1, <2>2, <2>3
<1>3. CASE Slp!OtherSignal
  BY <1>3 DEF Slp!OtherSignal
<1>4. CASE Slp!sleep
  <2>1. CASE Slp!SetAction
    BY <1>4, <2>1 DEF Slp!sleep, Slp!SetAction
  <2>2. CASE Slp!Block
    BY <1>4, <2>2 DEF Slp!sleep, Slp!Block
  <2>3. CASE Slp!Alarm
    BY <1>4, <2>3 DEF Slp!sleep, Slp!Alarm
  <2>4. CASE Slp!Suspend
    BY <1>4, <2>4 DEF Slp!sleep, Slp!Suspend
  <2>5. CASE Slp!Cancel
    BY <1>4, <2>5 DEF Slp!sleep, Slp!Cancel
  <2>6. CASE Slp!Restore
    BY <1>4, <2>6 DEF Slp!sleep, Slp!Restore
  <2>7. CASE Slp!Unblock
    BY <1>4, <2>7 DEF Slp!sleep, Slp!Unblock
  <2> QED  BY <1>4, <2>1, <2>2, <2>3, <2>4, <2>5, <2>6, <2>7 DEF Slp!sleep
<1> QED  BY <1>1, <1>2, <1>3, <1>4 DEF Slp!Next

-----------------------------------------------------------------------------
(* lib/ttymodes.c.                                                         *)

\* While a mode is being set what was saved is the terminal as it was at first, unless
\* some of an earlier mode was left.
TtyInv ==
  /\ rpc \in {"idle", "set", "verify"} /\ ttystate \in {"RESET", "RAW", "CBREAK"}
  /\ rpc # "idle" => mode \in {"RAW", "CBREAK"} /\ ttystate = "RESET"
  /\ rpc = "set" => tty = save_termios
  /\ rpc # "idle" /\ ~stuck => save_termios = {}
  /\ Mode!StateIsTrue

LEMMA TtyInit == Mode!Init => TtyInv
BY DEF Mode!Init, TtyInv, Mode!StateIsTrue

LEMMA TtyStep == TtyInv /\ [Mode!Next]_ttyVars => TtyInv'
<1> SUFFICES ASSUME TtyInv, [Mode!Next]_ttyVars PROVE TtyInv'
  OBVIOUS
<1> USE DEF TtyInv, Mode!StateIsTrue
<1>1. CASE UNCHANGED ttyVars
  BY <1>1 DEF ttyVars
<1>2. CASE Mode!tty_cbreak
  BY <1>2 DEF Mode!tty_cbreak, Mode!Start
<1>3. CASE Mode!tty_raw
  BY <1>3 DEF Mode!tty_raw, Mode!Start
<1>4. CASE Mode!Set
  BY <1>4 DEF Mode!Set
<1>5. CASE Mode!Verify
  BY <1>5 DEF Mode!Verify, Mode!PutBack, Mode!Wanted
<1>6. CASE Mode!tty_reset
  BY <1>6 DEF Mode!tty_reset, Mode!PutBack
<1> QED  BY <1>1, <1>2, <1>3, <1>4, <1>5, <1>6 DEF Mode!Next, Mode!tty_atexit

-----------------------------------------------------------------------------
(* termios/getpass.c.                                                      *)

\* Two of the keys are blocked wherever the echo is off, unless putting it back has failed.
\* What does not fit is dropped, so buf is all that was typed until it is full.
PassInv ==
  /\ gpc \in {"open", "block", "noecho", "read", "echo", "mask", "return"}
  /\ keyed \in Seq({1, 2}) /\ pass \in Seq({1, 2})
  /\ gpc \in {"noecho", "read", "echo", "mask"} => heldBack /\ run \in {"yes", "quit"}
  /\ gpc \in {"open", "block", "noecho"} => echo
  /\ gpc \in {"mask", "return"} => echo \/ unrestored
  /\ gpc \in {"open", "block", "return"} => heldBack = osig
  /\ Len(pass) <= MAX_PASS_LEN /\ Len(pass) <= Len(keyed)
  /\ Len(pass) < MAX_PASS_LEN => Len(pass) = Len(keyed)
  /\ \A n \in 1 .. Len(pass) : pass[n] = keyed[n]

LEMMA PassInit == Pass!Init => PassInv
BY PassAssumption DEF Pass!Init, PassInv

LEMMA PassStep == PassInv /\ [Pass!Next]_passVars => PassInv'
<1> SUFFICES ASSUME PassInv, [Pass!Next]_passVars PROVE PassInv'
  OBVIOUS
<1> USE PassAssumption DEF PassInv, Pass!At, Pass!Deliver
<1>1. CASE UNCHANGED passVars
  BY <1>1 DEF passVars
<1>2. CASE Pass!Open
  BY <1>2 DEF Pass!Open
<1>3. CASE Pass!Block
  BY <1>3 DEF Pass!Block
<1>4. CASE Pass!NoEcho
  BY <1>4 DEF Pass!NoEcho
<1>5. CASE Pass!Getc
  <2>1. ASSUME NEW c \in {1, 2}, keyed' = Append(keyed, c), Pass!Keep(c)
        PROVE  /\ keyed' \in Seq({1, 2}) /\ pass' \in Seq({1, 2})
               /\ Len(pass') <= MAX_PASS_LEN /\ Len(pass') <= Len(keyed')
               /\ Len(pass') < MAX_PASS_LEN => Len(pass') = Len(keyed')
               /\ \A n \in 1 .. Len(pass') : pass'[n] = keyed'[n]
    <3>1. /\ keyed \in Seq({1, 2}) /\ pass \in Seq({1, 2}) /\ MAX_PASS_LEN \in Nat
          /\ Len(pass) <= MAX_PASS_LEN /\ Len(pass) <= Len(keyed)
          /\ Len(pass) < MAX_PASS_LEN => Len(pass) = Len(keyed)
          /\ \A n \in 1 .. Len(pass) : pass[n] = keyed[n]
      OBVIOUS
    <3>2. /\ keyed' = Append(keyed, c)
          /\ IF Len(pass) < MAX_PASS_LEN THEN pass' = Append(pass, c) ELSE pass' = pass
      BY <2>1 DEF Pass!Keep
    <3>3. /\ keyed' \in Seq({1, 2}) /\ Len(keyed') = Len(keyed) + 1 /\ keyed'[Len(keyed) + 1] = c
          /\ \A n \in 1 .. Len(keyed) : keyed'[n] = keyed[n]
      BY ONLY <3>1, <3>2, c \in {1, 2}, AppendProperties
    <3>4. CASE Len(pass) < MAX_PASS_LEN
      <4>1. /\ pass' \in Seq({1, 2}) /\ Len(pass') = Len(pass) + 1 /\ pass'[Len(pass) + 1] = c
            /\ \A n \in 1 .. Len(pass) : pass'[n] = pass[n]
        BY ONLY <3>1, <3>2, <3>4, c \in {1, 2}, AppendProperties
      <4>2. Len(pass) \in Nat /\ Len(keyed) = Len(pass)
        BY ONLY <3>1, <3>4
      <4> QED  BY ONLY <3>1, <3>3, <3>4, <4>1, <4>2
    <3>5. CASE ~(Len(pass) < MAX_PASS_LEN)
      <4>1. Len(pass) \in Nat /\ Len(keyed) \in Nat
        BY ONLY <3>1
      <4> QED  BY ONLY <3>1, <3>2, <3>3, <3>5, <4>1
    <3> QED  BY ONLY <3>4, <3>5
  <2> QED  BY <1>5, <2>1 DEF Pass!Getc
<1>6. CASE Pass!Restore
  BY <1>6 DEF Pass!Restore
<1>7. ASSUME NEW k \in {"int", "tstp"}, Pass!Key(k) PROVE PassInv'
  BY <1>7 DEF Pass!Key
<1>8. CASE Pass!Continue
  BY <1>8 DEF Pass!Continue
<1>9. CASE Pass!QuitKey
  BY <1>9 DEF Pass!QuitKey
<1> QED  BY <1>1, <1>2, <1>3, <1>4, <1>5, <1>6, <1>7, <1>8, <1>9 DEF Pass!Next, Pass!getpass

LEMMA PassHolds == PassInv => Pass!EchoIsBack /\ Pass!PassFits
BY DEF PassInv, Pass!EchoIsBack, Pass!PassFits

-----------------------------------------------------------------------------
(* signals/abort.c.                                                        *)

\* With the default action set, nothing is left to flush.
AbortInv ==
  /\ bpc \in {"reset", "unblock", "kill", "handler", "again", "unblock2", "kill2", "left", "dead"}
  /\ sigabrt \in {"dfl", "ign", "handler"}
  /\ bpc = "reset" => seen = sigabrt
  /\ bpc \in {"unblock", "kill"} => sigabrt # "ign" /\ (sigabrt = "dfl" => ~unsent)
  /\ bpc \in {"unblock2", "kill2"} => sigabrt = "dfl" /\ ~unsent
  /\ bpc \in {"kill", "kill2"} => ~blocked
  /\ bpc = "dead" => ~unsent

LEMMA AbortInit == Abt!Init => AbortInv
BY DEF Abt!Init, AbortInv

LEMMA AbortStep == AbortInv /\ [Abt!Next]_abortVars => AbortInv'
<1> SUFFICES ASSUME AbortInv, [Abt!Next]_abortVars PROVE AbortInv'
  OBVIOUS
<1> USE DEF AbortInv
<1>1. CASE UNCHANGED abortVars
  BY <1>1 DEF abortVars
<1>2. CASE Abt!Reset
  BY <1>2 DEF Abt!Reset
<1>3. CASE Abt!Unblock
  BY <1>3 DEF Abt!Unblock
<1>4. CASE Abt!Kill
  BY <1>4 DEF Abt!Kill
<1>5. CASE Abt!Handler
  BY <1>5 DEF Abt!Handler
<1>6. CASE Abt!Again
  BY <1>6 DEF Abt!Again
<1> QED  BY <1>1, <1>2, <1>3, <1>4, <1>5, <1>6 DEF Abt!Next, Abt!abort

-----------------------------------------------------------------------------
(* signals/system.c.                                                       *)

\* From the fork to the waitpid SIGCHLD is blocked and both keys are ignored.
SystemInv ==
  /\ ypc \in {"ignint", "ignquit", "block", "fork", "wait", "resint", "resquit", "resmask", "done"}
  /\ ypc \in {"fork", "wait", "resint", "resquit", "resmask"} => chldmask
  /\ ypc \in {"block", "fork", "wait", "resint"} => ignored = {"INT", "QUIT"}
  /\ ypc \in {"ignint", "ignquit", "block", "fork"} => child = "none"
  /\ ypc = "wait" => child \in {"new", "sh", "zombie"}
  /\ ypc \in {"resint", "resquit", "resmask", "done"} => child \in {"waited", "none"}
  /\ child = "waited" => status = exitst
  /\ child = "sh" => cignored = {}
  /\ dead \notin {"fork", "wait"}

LEMMA SystemInit == Sys!Init => SystemInv
BY DEF Sys!Init, SystemInv

LEMMA SystemStep == SystemInv /\ [Sys!Next]_systemVars => SystemInv'
<1> SUFFICES ASSUME SystemInv, [Sys!Next]_systemVars PROVE SystemInv'
  OBVIOUS
<1> USE DEF SystemInv, Sys!Ends, Sys!Go, Sys!Keys
<1>1. CASE UNCHANGED systemVars
  BY <1>1 DEF systemVars
<1>2. CASE Sys!ChildExec
  BY <1>2 DEF Sys!ChildExec
<1>3. CASE Sys!ChildExit
  BY <1>3 DEF Sys!ChildExit
<1>4. ASSUME NEW s \in Sys!Keys, Sys!Key(s) PROVE SystemInv'
  BY <1>4 DEF Sys!Key
<1>5. CASE Sys!system
  BY <1>5 DEF Sys!system, Sys!Ignore, Sys!Block, Sys!Fork, Sys!Wait, Sys!Restore
<1> QED  BY <1>1, <1>2, <1>3, <1>4, <1>5 DEF Sys!Next

LEMMA SystemHolds == SystemInv => Sys!StatusIsChilds
BY DEF SystemInv, Sys!StatusIsChilds

LEMMA SleepHolds == SleepInv => Slp!ActionKept
BY DEF SleepInv, Slp!ActionKept

LEMMA TtyHolds == TtyInv => Mode!StateIsTrue
BY DEF TtyInv, Mode!StateIsTrue

LEMMA AbortHolds == AbortInv => Abt!DiesFlushed
BY DEF AbortInv, Abt!DiesFlushed

-----------------------------------------------------------------------------
(* ipc1/devzero.c with ipc1/tellwait.c or lib/tellwait.c.                  *)

TellTypes ==
  /\ by \in {"pipe", "signal"} /\ area \in Int
  /\ i \in [Tell!Sides -> Int] /\ bytes \in [Tell!Sides -> Nat]
  /\ wpc \in [Tell!Sides -> {"update", "tell", "wait", "sigsuspend", "suspended", "exit"}]
  /\ DOMAIN sigflag = Tell!Sides /\ DOMAIN spend = Tell!Sides

Waiting(s) == wpc[s] \in {"wait", "sigsuspend", "suspended", "exit"}
Untold(s) == bytes[s] = 0 /\ ~sigflag[s] /\ ~spend[s]
\* s has been told, once: a byte in its pipe, or a signal that is pending or was handled.
Told(s) ==
  \/ by = "pipe" /\ bytes[s] = 1 /\ ~sigflag[s] /\ ~spend[s]
  \/ by = "signal" /\ bytes[s] = 0 /\ sigflag[s] /\ ~spend[s]
  \/ by = "signal" /\ bytes[s] = 0 /\ ~sigflag[s] /\ spend[s]

\* Whose turn it is, and that the counter is what that one expects.
ParentsTurn ==
  /\ Waiting("child") /\ Untold("child") /\ i["child"] = i["parent"] + 1
  /\ \/ wpc["parent"] \in {"update", "exit"} /\ Untold("parent") /\ area = i["parent"]
     \/ wpc["parent"] = "tell" /\ Untold("parent") /\ area = i["parent"] + 1
ChildsTurn ==
  /\ Waiting("parent") /\ Untold("parent") /\ i["child"] = i["parent"] + 1
  /\ \/ Waiting("child") /\ Told("child") /\ area = i["child"]
     \/ wpc["child"] = "update" /\ Untold("child") /\ area = i["child"]
     \/ wpc["child"] = "tell" /\ Untold("child") /\ area = i["child"] + 1
TurnOver ==
  /\ Waiting("parent") /\ Told("parent") /\ Waiting("child") /\ Untold("child")
  /\ i["child"] = i["parent"] + 3 /\ area = i["parent"] + 2

TellInv == TellTypes /\ (ParentsTurn \/ ChildsTurn \/ TurnOver)

LEMMA TellInit == Tell!Init => TellInv
BY DEF Tell!Init, TellInv, TellTypes, ParentsTurn, Untold, Waiting, Tell!Sides

LEMMA UpdateKeeps == ASSUME TellInv, NEW s \in Tell!Sides, Tell!update(s) PROVE TellInv'
<1> USE DEF TellInv, Tell!update, Tell!Sides
<1>1. area = i[s] /\ wpc' = [wpc EXCEPT ![s] = "tell"]
  BY DEF TellTypes, ParentsTurn, ChildsTurn, TurnOver, Waiting
<1>2. TellTypes'
  BY <1>1 DEF TellTypes
<1>3. (ParentsTurn \/ ChildsTurn \/ TurnOver)'
  BY <1>1 DEF TellTypes, ParentsTurn, ChildsTurn, TurnOver, Waiting, Untold, Told
<1> QED  BY <1>2, <1>3

LEMMA TellKeeps == ASSUME TellInv, NEW s \in Tell!Sides, Tell!TELL(s) PROVE TellInv'
<1> USE DEF TellInv, Tell!Sides, Tell!Other
<1>1. CASE s = "parent"
  <2>1. /\ Waiting("child") /\ Untold("child") /\ i["child"] = i["parent"] + 1
        /\ Untold("parent") /\ area = i["parent"] + 1
    BY <1>1 DEF Tell!TELL, ParentsTurn, ChildsTurn, TurnOver, Waiting
  <2>2. /\ i' = i /\ area' = area /\ by' = by
        /\ wpc'["parent"] = "wait" /\ wpc' \in [Tell!Sides -> {"update", "tell", "wait", "sigsuspend", "suspended", "exit"}]
        /\ Waiting("child")'
    BY <1>1, <2>1 DEF Tell!TELL, TellTypes, Waiting
  <2>3. /\ bytes' \in [Tell!Sides -> Nat] /\ DOMAIN sigflag' = Tell!Sides /\ DOMAIN spend' = Tell!Sides
        /\ Told("child")' /\ Untold("parent")'
    <3>1. CASE by = "pipe"
      BY <1>1, <2>1, <3>1 DEF Tell!TELL, TellTypes, Untold, Told
    <3>2. CASE by = "signal"
      BY <1>1, <2>1, <3>2 DEF Tell!TELL, Tell!Deliver, TellTypes, Untold, Told
    <3> QED  BY <3>1, <3>2 DEF TellTypes
  <2> QED  BY <2>1, <2>2, <2>3 DEF TellTypes, ChildsTurn, Waiting
<1>2. CASE s = "child"
  <2>1. /\ Waiting("parent") /\ Untold("parent") /\ i["child"] = i["parent"] + 1
        /\ Untold("child") /\ area = i["child"] + 1
    BY <1>2 DEF Tell!TELL, ParentsTurn, ChildsTurn, TurnOver, Waiting
  <2>2. /\ i'["parent"] = i["parent"] /\ i'["child"] = i["child"] + 2 /\ i' \in [Tell!Sides -> Int]
        /\ area' = area /\ by' = by
        /\ wpc'["child"] \in {"wait", "exit"}
        /\ wpc' \in [Tell!Sides -> {"update", "tell", "wait", "sigsuspend", "suspended", "exit"}]
        /\ Waiting("parent")'
    BY <1>2, <2>1 DEF Tell!TELL, TellTypes, Waiting, Tell!Looped
  <2>3. /\ bytes' \in [Tell!Sides -> Nat] /\ DOMAIN sigflag' = Tell!Sides /\ DOMAIN spend' = Tell!Sides
        /\ Told("parent")' /\ Untold("child")'
    <3>1. CASE by = "pipe"
      BY <1>2, <2>1, <3>1 DEF Tell!TELL, TellTypes, Untold, Told
    <3>2. CASE by = "signal"
      BY <1>2, <2>1, <3>2 DEF Tell!TELL, Tell!Deliver, TellTypes, Untold, Told
    <3> QED  BY <3>1, <3>2 DEF TellTypes
  <2> QED  BY <2>1, <2>2, <2>3 DEF TellTypes, TurnOver, Waiting
<1> QED  BY <1>1, <1>2

\* The end of a wait: the one that was told goes on and nobody is told any more.
LEMMA WaitedKeeps ==
  ASSUME TellInv, NEW s \in Tell!Sides, wpc[s] = "wait", Told(s), Tell!Waited(s), by' = by, area' = area,
         bytes' \in [Tell!Sides -> Nat], DOMAIN sigflag' = Tell!Sides, DOMAIN spend' = Tell!Sides,
         Untold(s)', \A u \in Tell!Sides : u # s => (Untold(u) => Untold(u)')
  PROVE  TellInv'
<1> USE DEF TellInv, Tell!Sides, Tell!Waited
<1>1. ~Untold(s)
  BY DEF Told, Untold
<1>2. CASE s = "parent"
  <2>1. TurnOver
    BY <1>1, <1>2 DEF ParentsTurn, ChildsTurn
  <2>2. /\ wpc'["parent"] \in {"update", "exit"} /\ wpc'["child"] = wpc["child"]
        /\ wpc' \in [Tell!Sides -> {"update", "tell", "wait", "sigsuspend", "suspended", "exit"}]
        /\ i'["parent"] = i["parent"] + 2 /\ i'["child"] = i["child"] /\ i' \in [Tell!Sides -> Int]
    BY <1>2 DEF TellTypes, Tell!Looped
  <2> QED  BY <1>2, <2>1, <2>2 DEF TellTypes, TurnOver, ParentsTurn, Waiting
<1>3. CASE s = "child"
  <2>1. ChildsTurn /\ area = i["child"]
    BY <1>1, <1>3 DEF ParentsTurn, ChildsTurn, TurnOver
  <2>2. /\ wpc'["child"] = "update" /\ wpc'["parent"] = wpc["parent"]
        /\ wpc' \in [Tell!Sides -> {"update", "tell", "wait", "sigsuspend", "suspended", "exit"}]
        /\ i' = i
    BY <1>3 DEF TellTypes
  <2> QED  BY <1>3, <2>1, <2>2 DEF TellTypes, ChildsTurn, Waiting
<1> QED  BY <1>2, <1>3

\* What WAIT does by signals before its end: nobody's turn changes.
LEMMA WaitingKeeps ==
  ASSUME TellInv, NEW s \in Tell!Sides, Waiting(s),
         NEW x \in {"wait", "sigsuspend", "suspended"}, wpc' = [wpc EXCEPT ![s] = x],
         UNCHANGED <<by, area, i, bytes>>, DOMAIN sigflag' = Tell!Sides, DOMAIN spend' = Tell!Sides,
         wpc[s] # "exit",
         \A u \in Tell!Sides : (Untold(u) => Untold(u)') /\ (Told(u) => Told(u)')
  PROVE  TellInv'
<1> USE DEF TellInv, Tell!Sides
<1>1. TellTypes'
  BY DEF TellTypes
<1>2. /\ \A u \in Tell!Sides : Waiting(u) => Waiting(u)'
      /\ \A u \in Tell!Sides : u # s => wpc'[u] = wpc[u]
  BY DEF TellTypes, Waiting
<1>3. ParentsTurn => ParentsTurn'
  BY <1>2 DEF ParentsTurn, Waiting
<1>4. ChildsTurn => ChildsTurn'
  BY <1>2 DEF ChildsTurn, Waiting
<1>5. TurnOver => TurnOver'
  BY <1>2 DEF TurnOver
<1> QED  BY <1>1, <1>3, <1>4, <1>5

LEMMA TellStep == TellInv /\ [Tell!Next]_tellVars => TellInv'
<1> SUFFICES ASSUME TellInv, [Tell!Next]_tellVars PROVE TellInv'
  OBVIOUS
<1>1. CASE UNCHANGED tellVars
  BY <1>1 DEF tellVars, TellInv, TellTypes, ParentsTurn, ChildsTurn, TurnOver, Waiting, Untold, Told
<1>2. ASSUME NEW s \in Tell!Sides, Tell!WaitPipe(s) PROVE TellInv'
  <2>1. Told(s) /\ bytes[s] = 1 /\ by = "pipe" /\ bytes \in [Tell!Sides -> Nat]
    BY <1>2 DEF Tell!WaitPipe, TellInv, TellTypes, ParentsTurn, ChildsTurn, TurnOver, Waiting, Untold, Told, Tell!Sides
  <2>2. bytes' \in [Tell!Sides -> Nat] /\ bytes'[s] = 0 /\ \A u \in Tell!Sides : u # s => bytes'[u] = bytes[u]
    BY <1>2, <2>1 DEF Tell!WaitPipe
  <2>3. UNCHANGED <<by, area, sigflag, spend>> /\ Tell!Waited(s) /\ wpc[s] = "wait"
    BY <1>2 DEF Tell!WaitPipe
  <2>4. Untold(s)' /\ \A u \in Tell!Sides : u # s => (Untold(u) => Untold(u)')
    BY <2>1, <2>2, <2>3 DEF Untold, Told
  <2> QED  BY <2>1, <2>2, <2>3, <2>4, WaitedKeeps DEF TellInv, TellTypes
<1>3. ASSUME NEW s \in Tell!Sides, Tell!WaitSignal(s) PROVE TellInv'
  <2> USE DEF Tell!Go
  <2>0. by = "signal" /\ UNCHANGED <<by, area, bytes>>
    BY <1>3 DEF Tell!WaitSignal
  <2>1. CASE ~sigflag[s] /\ Tell!Go(s, "wait", "sigsuspend") /\ UNCHANGED <<i, sigflag, block, spend, waits>>
    BY <2>0, <2>1, WaitingKeeps DEF Waiting, Untold, Told, TellInv, TellTypes
  <2>2. CASE ~spend[s] /\ Tell!Go(s, "sigsuspend", "suspended") /\ UNCHANGED <<i, sigflag, block, spend, waits>>
    BY <2>0, <2>2, WaitingKeeps DEF Waiting, Untold, Told, TellInv, TellTypes
  <2>3. CASE /\ spend[s] /\ Tell!Go(s, "sigsuspend", "wait") /\ spend' = [spend EXCEPT ![s] = FALSE]
             /\ sigflag' = [sigflag EXCEPT ![s] = TRUE] /\ UNCHANGED <<i, block, waits>>
    <3>1. DOMAIN sigflag = Tell!Sides /\ DOMAIN spend = Tell!Sides
      BY DEF TellInv, TellTypes
    <3>2. \A u \in Tell!Sides : (Untold(u) => Untold(u)') /\ (Told(u) => Told(u)')
      BY <2>0, <2>3, <3>1 DEF Untold, Told
    <3> QED  BY <2>0, <2>3, <3>1, <3>2, WaitingKeeps DEF Waiting
  <2>4. CASE /\ wpc[s] = "wait" /\ sigflag[s] /\ Tell!Waited(s)
             /\ sigflag' = [sigflag EXCEPT ![s] = FALSE] /\ block' = [block EXCEPT ![s] = FALSE]
             /\ UNCHANGED spend
    <3>1. DOMAIN sigflag = Tell!Sides /\ DOMAIN spend = Tell!Sides /\ bytes \in [Tell!Sides -> Nat]
      BY DEF TellInv, TellTypes
    <3>2. Told(s)
      BY <2>4 DEF TellInv, TellTypes, ParentsTurn, ChildsTurn, TurnOver, Waiting, Untold, Tell!Sides
    <3>3. Untold(s)' /\ \A u \in Tell!Sides : u # s => (Untold(u) => Untold(u)')
      BY <2>0, <2>4, <3>1, <3>2 DEF Untold, Told
    <3> QED  BY <2>0, <2>4, <3>1, <3>2, <3>3, WaitedKeeps
  <2> QED  BY <1>3, <2>1, <2>2, <2>3, <2>4 DEF Tell!WaitSignal
<1> QED  BY <1>1, <1>2, <1>3, UpdateKeeps, TellKeeps DEF Tell!Next, Tell!Step

LEMMA TellHolds == TellInv => Tell!TakeTurns
BY DEF TellInv, TellTypes, Tell!TakeTurns

-----------------------------------------------------------------------------
(* ipc1/pipe4.c with add2.c.                                               *)

Answers == {Copro!Answer(l) : l \in Copro!Lines}
CoproTypes ==
  /\ input \in Seq(Copro!Lines) /\ line \in Copro!Lines
  /\ kpc \in {"fgets", "write", "read", "exit"}
  /\ out \in Seq(Answers) /\ fd1 \in Seq(Copro!Lines) /\ fd2 \in Seq(Answers)

\* One line at a time is with the parent, in a pipe, or its answer in the other.
CoproInv ==
  /\ CoproTypes
  /\ Len(out) <= Len(input)
  /\ \A n \in 1 .. Len(out) : out[n] = Copro!Answer(input[n])
  /\ kpc = "fgets" => Len(input) = Len(out) /\ fd1 = <<>> /\ fd2 = <<>>
  /\ kpc \in {"write", "read"} => Len(input) = Len(out) + 1 /\ line = input[Len(input)]
  /\ kpc = "write" => fd1 = <<>> /\ fd2 = <<>>
  /\ kpc = "read" => \/ fd1 = <<line>> /\ fd2 = <<>>
                     \/ fd1 = <<>> /\ fd2 = <<Copro!Answer(line)>>

LEMMA CoproInit == Copro!Init => CoproInv
BY DEF Copro!Init, CoproInv, CoproTypes, Copro!Lines

LEMMA CoproStep == CoproInv /\ [Copro!Next]_coproVars => CoproInv'
<1> SUFFICES ASSUME CoproInv, [Copro!Next]_coproVars PROVE CoproInv'
  OBVIOUS
<1> USE DEF CoproInv, CoproTypes, Copro!Go
<1>1. CASE UNCHANGED coproVars
  BY <1>1 DEF coproVars
<1>2. CASE /\ Copro!Go("fgets", "write")
           /\ \E l \in Copro!Lines : line' = l /\ input' = Append(input, l)
           /\ UNCHANGED <<fd1, fd2, out>>
  BY <1>2
<1>3. CASE Copro!Go("write", "read") /\ copro = "run" /\ fd1' = Append(fd1, line) /\ UNCHANGED <<input, line, fd2, out>>
  <2>1. fd1 = <<>> /\ fd2 = <<>> /\ fd1' = <<line>> /\ kpc' = "read"
    BY <1>3, OneElement
  <2>2. fd1' \in Seq(Copro!Lines)
    BY <2>1
  <2> QED  BY <1>3, <2>1, <2>2
<1>4. CASE Copro!Go("read", "fgets") /\ fd2 # <<>> /\ out' = Append(out, Head(fd2)) /\ fd2' = Tail(fd2)
           /\ UNCHANGED <<input, line, fd1>>
  <2>1. fd1 = <<>> /\ fd2 = <<Copro!Answer(line)>>
    BY <1>4
  <2>2. Head(fd2) = Copro!Answer(line) /\ Tail(fd2) = <<>> /\ Head(fd2) \in Answers
    BY <2>1, OneElement DEF Answers
  <2> QED  BY <1>4, <2>1, <2>2
<1>5. CASE kpc' = "exit" /\ UNCHANGED <<input, line, fd1, fd2, out>>
  BY <1>5
<1>6. CASE Copro!add2
  <2>1. CASE fd1 = <<>>
    BY <1>6, <2>1 DEF Copro!add2
  <2>2. CASE fd1 # <<>>
    <3>1. fd1' = Tail(fd1) /\ fd2' = Append(fd2, Copro!Answer(Head(fd1))) /\ UNCHANGED <<input, line, kpc, out>>
      BY <1>6, <2>2 DEF Copro!add2
    <3>2. fd1' \in Seq(Copro!Lines) /\ fd2' \in Seq(Answers)
      <4>1. Copro!Answer(Head(fd1)) \in Answers
        BY <2>2 DEF Answers
      <4>2. Tail(fd1) \in Seq(Copro!Lines)
        BY <2>2
      <4> QED  BY <3>1, <4>1, <4>2
    <3>3. kpc = "read" => fd1' = <<>> /\ fd2' = <<Copro!Answer(line)>>
      BY <2>2, <3>1, OneElement
    <3> QED  BY <2>2, <3>1, <3>2, <3>3
  <2> QED  BY <2>1, <2>2
<1>7. CASE Copro!Kill
  BY <1>7 DEF Copro!Kill
<1> QED  BY <1>1, <1>2, <1>3, <1>4, <1>5, <1>6, <1>7 DEF Copro!Next, Copro!parent, Copro!sig_pipe

LEMMA CoproHolds == CoproInv => Copro!AnswersMatch
BY DEF CoproInv, CoproTypes, Copro!AnswersMatch

-----------------------------------------------------------------------------
(* pty/main.c and loop.c.                                                  *)

\* Who stops without a signal has seen the end of the program's output.
PtyInv ==
  /\ xpc \in {"signal", "read", "write", "stop", "error", "exit", "killed"}
  /\ made \in Nat /\ copied \in Nat /\ copied <= made
  /\ xpc = "write" => copied < made
  /\ xpc \in {"stop", "exit"} /\ ~sigcaught => copied = made /\ prog = "end"
  /\ xpc = "error" => sigcaught
  /\ xpc = "exit" => ptytty = "orig"

LEMMA PtyInit == Pty!Init => PtyInv
BY DEF Pty!Init, PtyInv

LEMMA PtyStep == PtyInv /\ [Pty!Next]_ptyVars => PtyInv'
<1> SUFFICES ASSUME PtyInv, [Pty!Next]_ptyVars PROVE PtyInv'
  OBVIOUS
<1> USE DEF PtyInv, Pty!Exit
<1>1. CASE UNCHANGED ptyVars
  BY <1>1 DEF ptyVars
<1>2. CASE Pty!Program
  BY <1>2 DEF Pty!Program
<1>3. CASE Pty!child
  <2>0. UNCHANGED <<prog, made, copied>> /\ (ptytty' = ptytty \/ ptytty' = "orig")
    BY <1>3 DEF Pty!child
  <2>1. CASE UNCHANGED <<xpc, sigcaught>>
    BY <2>0, <2>1
  <2>2. CASE Pty!TermParent
    <3>1. \/ UNCHANGED <<xpc, sigcaught>> \/ (xpc' = "killed" /\ UNCHANGED sigcaught)
          \/ sigcaught' /\ (xpc' = xpc \/ (xpc = "read" /\ xpc' = "stop") \/ (xpc = "write" /\ xpc' = "error"))
      BY <2>2 DEF Pty!TermParent
    <3> QED  BY <2>0, <3>1
  <2> QED  BY <1>3, <2>1, <2>2 DEF Pty!child
<1>4. CASE Pty!parent
  <2>1. CASE Pty!SignalHandler
    BY <1>4, <2>1 DEF Pty!parent, Pty!SignalHandler
  <2>2. CASE Pty!Copy
    BY <1>4, <2>2 DEF Pty!parent, Pty!Copy
  <2>3. CASE Pty!Stop
    BY <1>4, <2>3 DEF Pty!parent, Pty!Stop
  <2>4. CASE Pty!Error
    BY <1>4, <2>4 DEF Pty!parent, Pty!Error
  <2> QED  BY <1>4, <2>1, <2>2, <2>3, <2>4 DEF Pty!parent
<1> QED  BY <1>1, <1>2, <1>3, <1>4 DEF Pty!Next

LEMMA PtyHolds == PtyInv => Pty!OutputComplete
BY DEF PtyInv, Pty!OutputComplete

-----------------------------------------------------------------------------
(* lib/daemonize.c with daemons/.                                          *)

\* What a copy goes through, and from where it holds the lock.
HolderPcs == {"trunc", "write", "sigs", "block", "run"}
ClosedPcs == {"lock"} \cup HolderPcs
LastPcs == {"close"} \cup ClosedPcs
DetachedPcs == {"ignore", "fork2"} \cup LastPcs
DaemonPcs == {"fork1", "setsid", "dead"} \cup DetachedPcs

DaemonTypes ==
  /\ dpc \in [Copies -> DaemonPcs] /\ gen \in [Copies -> 0 .. 2]
  /\ DOMAIN leader = Copies /\ DOMAIN ctty = Copies /\ DOMAIN fds = Copies
  /\ \A d \in Copies : DOMAIN fds[d] \subseteq Nat
  /\ \A d \in Copies : dpc[d] = "fork1" => gen[d] = 0
  /\ \A d \in Copies : dpc[d] \in {"setsid", "ignore", "fork2"} => gen[d] = 1

\* The lock is held by exactly the copy that is past it, as the process it is now.
LockHeld ==
  /\ \A d \in Copies : dpc[d] \in HolderPcs => flock = <<d, gen[d]>>
  /\ flock # Null => \E d \in Copies : dpc[d] \in HolderPcs /\ flock = <<d, gen[d]>>
  /\ \A d \in Copies : dpc[d] \in {"sigs", "block", "run"} => pidfile = <<d, gen[d]>>

Apart ==
  \A d \in Copies :
    /\ dpc[d] \in DetachedPcs => ~ctty[d]
    /\ dpc[d] \in LastPcs => ~leader[d]
    /\ dpc[d] \in ClosedPcs => \A f \in DOMAIN fds[d] : f < MaxFd => fds[d][f] = "null"

DaemonInv == DaemonTypes /\ LockHeld /\ Apart

LEMMA DaemonInit == Dmn!Init => DaemonInv
BY DaemonAssumption DEF Dmn!Init, DaemonInv, DaemonTypes, LockHeld, Apart,
   HolderPcs, ClosedPcs, LastPcs, DetachedPcs, DaemonPcs

\* The copies stay as they are but for the place of one, which does not hold the lock.
LEMMA ForkKeeps == ASSUME DaemonInv, NEW d \in Copies, Dmn!Fork(d) PROVE DaemonInv'
<1> USE DaemonAssumption DEF DaemonInv, Dmn!Fork, Dmn!Go, HolderPcs, ClosedPcs, LastPcs, DetachedPcs, DaemonPcs
<1>1. /\ DaemonTypes' /\ dpc[d] \notin HolderPcs /\ dpc'[d] \notin HolderPcs
      /\ \A e \in Copies : e # d => dpc'[e] = dpc[e] /\ gen'[e] = gen[e]
  BY DEF DaemonTypes
<1>2. LockHeld'
  BY <1>1 DEF LockHeld
<1>3. Apart'
  BY DEF DaemonTypes, Apart
<1> QED  BY <1>1, <1>2, <1>3

LEMMA PrepareKeeps ==
  ASSUME DaemonInv, NEW d \in Copies, Dmn!Setsid(d) \/ Dmn!IgnoreHup(d)
  PROVE  DaemonInv'
<1> USE DaemonAssumption DEF DaemonInv, Dmn!Setsid, Dmn!IgnoreHup, Dmn!Go,
        HolderPcs, ClosedPcs, LastPcs, DetachedPcs, DaemonPcs
<1>1. DaemonTypes'
  BY DEF DaemonTypes
<1>2. LockHeld'
  BY DEF DaemonTypes, LockHeld
<1>3. Apart'
  BY DEF DaemonTypes, Apart
<1> QED  BY <1>1, <1>2, <1>3

LEMMA CloseKeeps == ASSUME DaemonInv, NEW d \in Copies, Dmn!CloseAll(d) PROVE DaemonInv'
<1> USE DaemonAssumption DEF DaemonInv, Dmn!CloseAll, Dmn!Go, HolderPcs, ClosedPcs, LastPcs, DetachedPcs, DaemonPcs
<1> DEFINE left == (0 .. 2) \cup {g \in DOMAIN fds[d] : g >= MaxFd}
<1>1. /\ fds'[d] = [f \in left |-> IF f <= 2 THEN "null" ELSE fds[d][f]]
      /\ DOMAIN fds' = Copies /\ \A e \in Copies : e # d => fds'[e] = fds[e]
  BY DEF DaemonTypes
<1>2. left \subseteq Nat /\ \A f \in left : f < MaxFd => f <= 2
  BY DEF DaemonTypes
<1> HIDE DEF left
<1>3. DOMAIN fds'[d] \subseteq Nat /\ \A f \in DOMAIN fds'[d] : f < MaxFd => fds'[d][f] = "null"
  <2>1. DOMAIN fds'[d] = left /\ \A f \in left : fds'[d][f] = IF f <= 2 THEN "null" ELSE fds[d][f]
    BY ONLY <1>1
  <2> QED  BY ONLY <1>2, <2>1
<1>4. DaemonTypes'
  BY <1>1, <1>3 DEF DaemonTypes
<1>5. LockHeld'
  BY DEF DaemonTypes, LockHeld
<1>6. Apart'
  BY <1>1, <1>3 DEF DaemonTypes, Apart
<1> QED  BY <1>4, <1>5, <1>6

LEMMA LockfileKeeps == ASSUME DaemonInv, NEW d \in Copies, Dmn!already_running(d) PROVE DaemonInv'
<1> USE DaemonAssumption DEF DaemonInv, Dmn!Go, Dmn!Pid, HolderPcs, ClosedPcs, LastPcs, DetachedPcs, DaemonPcs
<1>0. UNCHANGED <<gen, leader, ctty, fds>>
  BY DEF Dmn!already_running
<1>1. CASE Dmn!Go(d, "lock", "trunc") /\ Dmn!lockfile(d) /\ UNCHANGED pidfile
  <2>1. DaemonTypes' /\ Apart'
    BY <1>0, <1>1 DEF DaemonTypes, Apart
  <2>2. LockHeld'
    BY <1>0, <1>1 DEF DaemonTypes, LockHeld, Dmn!lockfile
  <2> QED  BY <2>1, <2>2
<1>2. CASE Dmn!Go(d, "lock", "dead") /\ UNCHANGED <<flock, pidfile>>
  BY <1>0, <1>2 DEF DaemonTypes, Apart, LockHeld
<1>3. CASE Dmn!Go(d, "trunc", "write") /\ pidfile' = Null /\ UNCHANGED flock
  <2>1. DaemonTypes' /\ Apart'
    BY <1>0, <1>3 DEF DaemonTypes, Apart
  <2>2. LockHeld'
    BY <1>0, <1>3 DEF DaemonTypes, LockHeld
  <2> QED  BY <2>1, <2>2
<1>4. CASE Dmn!Go(d, "write", "sigs") /\ pidfile' = Dmn!Pid(d) /\ UNCHANGED flock
  <2>1. DaemonTypes' /\ Apart'
    BY <1>0, <1>4 DEF DaemonTypes, Apart
  <2>2. LockHeld'
    BY <1>0, <1>4 DEF DaemonTypes, LockHeld
  <2> QED  BY <2>1, <2>2
<1> QED  BY <1>1, <1>2, <1>3, <1>4 DEF Dmn!already_running

LEMMA SignalsKeep == ASSUME DaemonInv, NEW d \in Copies, Dmn!Signals(d) PROVE DaemonInv'
<1> USE DEF DaemonInv, Dmn!Signals, Dmn!Go, HolderPcs, ClosedPcs, LastPcs, DetachedPcs, DaemonPcs
<1>1. DaemonTypes' /\ Apart'
  BY DEF DaemonTypes, Apart
<1>2. LockHeld'
  BY DEF DaemonTypes, LockHeld
<1> QED  BY <1>1, <1>2

\* The lock goes with the process.
LEMMA DeathKeeps ==
  ASSUME DaemonInv, NEW d \in Copies, Dmn!Dies(d), UNCHANGED <<gen, leader, ctty, fds, pidfile>>
  PROVE  DaemonInv'
<1> USE DaemonAssumption DEF DaemonInv, Dmn!Dies, Dmn!Pid, HolderPcs, ClosedPcs, LastPcs, DetachedPcs, DaemonPcs
<1>1. DaemonTypes' /\ Apart'
  BY DEF DaemonTypes, Apart
<1>2. LockHeld'
  <2>1. \A e \in Copies : <<e, gen[e]>> = <<d, gen[d]>> => e = d
    OBVIOUS
  <2>2. CASE flock = <<d, gen[d]>>
    BY <2>1, <2>2 DEF DaemonTypes, LockHeld
  <2>3. CASE flock # <<d, gen[d]>>
    BY <2>1, <2>3 DEF DaemonTypes, LockHeld
  <2> QED  BY <2>2, <2>3
<1> QED  BY <1>1, <1>2

LEMMA DaemonStep == DaemonInv /\ [Dmn!Next]_daemonVars => DaemonInv'
<1> SUFFICES ASSUME DaemonInv, [Dmn!Next]_daemonVars PROVE DaemonInv'
  OBVIOUS
<1>1. CASE UNCHANGED <<dpc, gen, leader, ctty, fds, flock, pidfile>>
  BY <1>1 DEF DaemonInv, DaemonTypes, LockHeld, Apart
<1>2. ASSUME NEW d \in Copies, Dmn!main(d) PROVE DaemonInv'
  BY <1>2, ForkKeeps, PrepareKeeps, CloseKeeps, LockfileKeeps, SignalsKeep DEF Dmn!main, Dmn!daemonize
<1>3. ASSUME NEW d \in Copies, Dmn!thr_fn(d) PROVE DaemonInv'
  BY <1>1, <1>3, DeathKeeps DEF Dmn!thr_fn
<1>4. ASSUME NEW d \in Copies, Dmn!OpenTty(d) PROVE DaemonInv'
  <2>1. ctty'[d] <=> ctty[d]
    BY <1>4 DEF DaemonInv, DaemonTypes, Apart, Dmn!OpenTty, HolderPcs, ClosedPcs, LastPcs, DetachedPcs
  <2> QED  BY <1>4, <2>1 DEF DaemonInv, DaemonTypes, LockHeld, Apart, Dmn!OpenTty
<1>5. ASSUME NEW d \in Copies, NEW s \in {"HUP", "TERM"}, Dmn!Kill(d, s) PROVE DaemonInv'
  BY <1>1, <1>5, DeathKeeps DEF Dmn!Kill
<1> QED  BY <1>1, <1>2, <1>3, <1>4, <1>5 DEF Dmn!Next, daemonVars

LEMMA OneAtMost ==
  ASSUME NEW S, \A x, y \in S : x = y
  PROVE  Dmn!Cardinality(S) <= 1
<1>1. Dmn!Cardinality(S) = Cardinality(S)
  BY DEF Dmn!Cardinality, Cardinality
<1>2. CASE S = {}
  BY <1>1, <1>2, FS_EmptySet
<1>3. CASE S # {}
  <2>1. PICK x \in S : S = {x}
    BY <1>3
  <2> QED  BY <1>1, <2>1, FS_Singleton
<1> QED  BY <1>2, <1>3

LEMMA DaemonHolds == DaemonInv => Dmn!OneDaemon /\ Dmn!Detached
<1> SUFFICES ASSUME DaemonInv PROVE Dmn!OneDaemon /\ Dmn!Detached
  OBVIOUS
<1>1. \A d, e \in {x \in Copies : dpc[x] \in HolderPcs} : d = e
  BY DEF DaemonInv, LockHeld
<1>2. Dmn!OneDaemon
  BY <1>1, OneAtMost DEF DaemonInv, LockHeld, Dmn!OneDaemon, Dmn!Pid, HolderPcs
<1>3. Dmn!Detached
  BY DEF DaemonInv, Apart, Dmn!Detached, HolderPcs, ClosedPcs, LastPcs, DetachedPcs
<1> QED  BY <1>2, <1>3

-----------------------------------------------------------------------------
(* ipc2/open.fe with opend.fe.                                             *)

Asked == asked[Len(asked)]
\* The answers that may be in the pipe: none, a whole one, the rest of one.
AnswerLeft ==
  \/ ans = <<>>
  \/ Asked = "file" /\ ans = <<"fd">>
  \/ Asked = "missing" /\ (ans = <<"text">> \/ ans = <<"text", "status">> \/ ans = <<"status">>)

\* While a client waits, its request is in one place: the pipe, the server, or answered.
InService ==
  \/ srv \in {"none", "start", "read"} /\ req = <<Asked>> /\ ans = <<>>
  \/ srv = "handle" /\ req = <<>> /\ ans = <<>> /\ cur = Asked
  \/ srv = "status" /\ req = <<>> /\ Asked = "missing" /\ (ans = <<"text">> \/ ans = <<>>)
  \/ srv = "read" /\ req = <<>> /\ Asked = "file" /\ ans = <<"fd">>
  \/ srv = "read" /\ req = <<>> /\ Asked = "missing" /\ (ans = <<"text", "status">> \/ ans = <<"status">>)
  \/ srv = "exit" /\ AnswerLeft

ForkInv ==
  /\ opc \in {"idle", "start", "writev", "recv", "exit", "killed"} /\ fd \in {"none", "open", "both"}
  /\ srv \in {"none", "start", "read", "handle", "status", "exit"}
  /\ asked \in Seq({"file", "missing"}) /\ got \in Seq({"fd", "error", "closed", "failed"})
  /\ Len(got) <= Len(asked)
  /\ \A n \in 1 .. Len(got) : (got[n] = "fd" => asked[n] = "file") /\ (got[n] = "error" => asked[n] = "missing")
  /\ opc = "idle" => Len(got) = Len(asked)
  /\ opc \in {"start", "writev", "recv"} => Len(asked) = Len(got) + 1
  /\ opc \in {"idle", "start", "writev"} =>
       ans = <<>> /\ (srv \in {"none", "start", "read", "exit"}) /\ (fd = "open" /\ srv # "exit" => req = <<>>)
  /\ fd = "none" => req = <<>>
  /\ fd # "open" => srv = "none" /\ ans = <<>>
  /\ fd = "open" => srv # "none"
  /\ (opc = "start" => fd = "none") /\ (opc = "writev" => fd # "none")
  /\ opc = "recv" /\ fd = "open" => InService

LEMMA ForkInit == Fork!Init => ForkInv
<1> SUFFICES ASSUME Fork!Init PROVE ForkInv
  OBVIOUS
<1> USE DEF Fork!Init
<1>1. /\ asked = <<>> /\ got = <<>> /\ Len(asked) = 0 /\ Len(got) = 0
      /\ asked \in Seq({"file", "missing"}) /\ got \in Seq({"fd", "error", "closed", "failed"})
  BY EmptySeq
<1>2. opc = "idle" /\ fd = "none" /\ req = <<>> /\ ans = <<>> /\ srv = "none"
  OBVIOUS
<1> QED  BY ONLY <1>1, <1>2 DEF ForkInv

LEMMA CallKeeps ==
  ASSUME ForkInv, NEW x \in {"file", "missing"}, Fork!Call(x)
  PROVE  ForkInv'
<1> USE DEF ForkInv, Fork!Call
<1>1. asked' \in Seq({"file", "missing"}) /\ Len(asked') = Len(asked) + 1
      /\ \A n \in 1 .. Len(got) : asked'[n] = asked[n]
  OBVIOUS
<1>2. opc' \in {"start", "writev"} /\ (opc' = "start" => fd = "none") /\ (opc' = "writev" => fd # "none")
      /\ UNCHANGED <<fd, got, req, ans, srv, cur, own>>
  OBVIOUS
<1> HIDE DEF Fork!Call
<1>3. opc = "idle"
  BY DEF Fork!Call
<1> QED  BY <1>1, <1>2, <1>3

\* csopen returns: the result is the last of got.
LEMMA ReturnKeeps ==
  ASSUME ForkInv, opc \in {"start", "recv"}, NEW r \in {"fd", "error", "closed", "failed"}, Fork!Return(r),
         r = "fd" => Asked = "file", r = "error" => Asked = "missing", asked' = asked
  PROVE  /\ opc' = "idle" /\ got' \in Seq({"fd", "error", "closed", "failed"}) /\ Len(got') = Len(asked)
         /\ \A n \in 1 .. Len(got') : (got'[n] = "fd" => asked[n] = "file")
                                       /\ (got'[n] = "error" => asked[n] = "missing")
<1> USE DEF ForkInv, Fork!Return, Asked
<1>1. opc' = "idle" /\ got' \in Seq({"fd", "error", "closed", "failed"}) /\ Len(got') = Len(got) + 1
      /\ got'[Len(got) + 1] = r /\ \A n \in 1 .. Len(got) : got'[n] = got[n]
  OBVIOUS
<1>2. Len(asked) = Len(got) + 1
  OBVIOUS
<1> QED  BY <1>1, <1>2

LEMMA StartKeeps == ASSUME ForkInv, Fork!StartServer PROVE ForkInv'
<1>0. opc = "start" /\ UNCHANGED <<asked, req, ans, cur, own>>
  BY DEF Fork!StartServer
<1>1. CASE Fork!Return("failed") /\ UNCHANGED srv /\ (fd' = fd \/ fd' = "both")
  BY <1>0, <1>1, ReturnKeeps DEF ForkInv
<1>2. CASE opc' = "writev" /\ fd' = "open" /\ srv' = "start" /\ UNCHANGED got
  BY <1>0, <1>2 DEF ForkInv
<1> QED  BY <1>1, <1>2 DEF Fork!StartServer

LEMMA WritevKeeps == ASSUME ForkInv, Fork!Writev PROVE ForkInv'
<1>0. opc = "writev" /\ UNCHANGED <<fd, asked, got, ans, srv, cur, own>>
  BY DEF Fork!Writev
<1>1. CASE opc' = "killed" /\ UNCHANGED req
  BY <1>0, <1>1 DEF ForkInv
<1>2. CASE ~(fd = "open" /\ Fork!serverGone) /\ opc' = "recv" /\ req' = Append(req, Asked)
  <2>1. fd # "none"
    BY <1>2, <1>0 DEF ForkInv
  <2>2. fd = "open" => req' = <<Asked>> /\ srv \in {"start", "read"} /\ ans = <<>>
    BY <1>0, <1>2, OneElement DEF ForkInv, Fork!serverGone
  <2>3. fd = "open" => InService'
    BY <1>0, <2>2 DEF InService, Asked
  <2> QED  BY <1>0, <1>2, <2>1, <2>3 DEF ForkInv
<1> QED  BY <1>1, <1>2 DEF Fork!Writev, Asked

LEMMA RecvKeeps == ASSUME ForkInv, Fork!recv_fd PROVE ForkInv'
<1>0. opc = "recv" /\ UNCHANGED <<fd, asked, req, srv, cur, own>> /\ Asked' = Asked
  BY DEF Fork!recv_fd, Asked
<1>1. CASE ans # <<>> /\ ans' = Tail(ans)
           /\ IF Head(ans) = "text" THEN UNCHANGED <<opc, got>>
              ELSE Fork!Return(IF Head(ans) = "fd" THEN "fd" ELSE "error")
  <2>0. fd = "open" /\ InService
    BY <1>0, <1>1 DEF ForkInv
  <2>1. CASE ans = <<"fd">>
    <3>1. Asked = "file" /\ srv \in {"read", "exit"} /\ ans' = <<>> /\ Fork!Return("fd")
          /\ (srv # "exit" => req = <<>>)
      BY <1>1, <2>0, <2>1, OneElement DEF InService, AnswerLeft
    <3> QED  BY <1>0, <2>0, <3>1, ReturnKeeps DEF ForkInv
  <2>2. CASE ans = <<"status">>
    <3>1. Asked = "missing" /\ srv \in {"read", "exit"} /\ ans' = <<>> /\ Fork!Return("error")
          /\ (srv # "exit" => req = <<>>)
      BY <1>1, <2>0, <2>2, OneElement DEF InService, AnswerLeft
    <3> QED  BY <1>0, <2>0, <3>1, ReturnKeeps DEF ForkInv
  <2>3. CASE ans = <<"text">>
    <3>1. Asked = "missing" /\ srv \in {"status", "exit"} /\ ans' = <<>> /\ UNCHANGED <<opc, got>>
          /\ (srv # "exit" => req = <<>>)
      BY <1>1, <2>0, <2>3, OneElement DEF InService, AnswerLeft
    <3>2. InService'
      BY <1>0, <3>1 DEF InService, AnswerLeft
    <3> QED  BY <1>0, <2>0, <3>1, <3>2 DEF ForkInv
  <2>4. CASE ans = <<"text", "status">>
    <3>1. Asked = "missing" /\ srv \in {"read", "exit"} /\ ans' = <<"status">> /\ UNCHANGED <<opc, got>>
          /\ (srv # "exit" => req = <<>>)
      BY <1>1, <2>0, <2>4, OneElement DEF InService, AnswerLeft
    <3>2. InService'
      BY <1>0, <3>1 DEF InService, AnswerLeft
    <3> QED  BY <1>0, <2>0, <3>1, <3>2 DEF ForkInv
  <2> QED  BY <1>1, <2>0, <2>1, <2>2, <2>3, <2>4 DEF InService, AnswerLeft
<1>2. CASE ans = <<>> /\ fd = "open" /\ Fork!serverGone /\ Fork!Return("closed") /\ UNCHANGED ans
  <2>1. srv = "exit"
    BY <1>2 DEF ForkInv, Fork!serverGone
  <2> QED  BY <1>0, <1>2, <2>1, ReturnKeeps DEF ForkInv
<1> QED  BY <1>1, <1>2 DEF Fork!recv_fd

\* A step of the server keeps what the waiting client relies on.
LEMMA OpendKeeps ==
  ASSUME ForkInv, fd = "open", UNCHANGED <<opc, fd, asked, got>>,
         srv' \in {"start", "read", "handle", "status", "exit"},
         opc = "recv" => InService',
         opc \in {"idle", "start", "writev"} =>
           ans' = <<>> /\ srv' \in {"start", "read", "exit"} /\ (srv' # "exit" => req' = <<>>)
  PROVE  ForkInv'
BY DEF ForkInv

LEMMA ServerKeeps == ASSUME ForkInv, Fork!opend PROVE ForkInv'
<1>0. UNCHANGED <<opc, fd, asked, got>> /\ Asked' = Asked /\ srv # "none"
  BY DEF Fork!opend, Fork!Exec, Fork!Read, Fork!handle_request, Asked
<1>1. fd = "open"
  BY <1>0 DEF ForkInv
<1>2. CASE Fork!Exec
  <2>1. srv = "start" /\ srv' \in {"read", "exit"} /\ UNCHANGED <<req, ans>>
    BY <1>2 DEF Fork!Exec
  <2>2. opc = "recv" => InService'
    BY <1>0, <1>1, <2>1 DEF ForkInv, InService, AnswerLeft
  <2> QED  BY <1>0, <1>1, <2>1, <2>2, OpendKeeps DEF ForkInv
<1>3. CASE Fork!Read
  <2>0. srv = "read" /\ UNCHANGED ans
    BY <1>3 DEF Fork!Read
  <2>1. CASE req # <<>> /\ cur' = Head(req) /\ req' = Tail(req) /\ srv' = "handle"
    <3>1. opc \notin {"idle", "start", "writev"}
      BY <1>1, <2>0, <2>1 DEF ForkInv
    <3>2. opc = "recv" => req = <<Asked>> /\ ans = <<>>
      BY <1>1, <2>0, <2>1 DEF ForkInv, InService
    <3>3. opc = "recv" => InService'
      BY <1>0, <2>0, <2>1, <3>2, OneElement DEF InService
    <3> QED  BY <1>0, <1>1, <2>1, <3>1, <3>3, OpendKeeps
  <2>2. CASE Fork!clientGone /\ srv' = "exit"
    BY <1>0, <1>1, <2>2, OpendKeeps DEF Fork!clientGone
  <2> QED  BY <1>3, <2>1, <2>2 DEF Fork!Read
<1>4. CASE Fork!handle_request
  <2>0. UNCHANGED <<req, cur>>
    BY <1>4 DEF Fork!handle_request
  <2>1. CASE Fork!clientGone /\ srv' = "exit"
    BY <1>0, <1>1, <2>1, OpendKeeps DEF Fork!clientGone
  <2>2. ASSUME srv \in {"handle", "status"} PROVE opc \notin {"idle", "start", "writev"}
    BY <2>2 DEF ForkInv
  <2>3. CASE srv = "handle" /\ cur = "file" /\ ans' = Append(ans, "fd") /\ srv' = "read"
    <3>1. opc = "recv" => req = <<>> /\ ans' = <<"fd">> /\ Asked = "file"
      BY <1>1, <2>3, OneElement DEF ForkInv, InService
    <3>2. opc = "recv" => InService'
      BY <1>0, <2>0, <2>3, <3>1 DEF InService
    <3> QED  BY <1>0, <1>1, <2>2, <2>3, <3>2, OpendKeeps
  <2>4. CASE srv = "handle" /\ cur # "file" /\ ans' = Append(ans, "text") /\ srv' = "status"
    <3>1. opc = "recv" => req = <<>> /\ ans' = <<"text">> /\ Asked = "missing"
      <4>1. opc = "recv" => Asked \in {"file", "missing"}
        BY DEF ForkInv, Asked
      <4> QED  BY <1>1, <2>4, <4>1, OneElement DEF ForkInv, InService
    <3>2. opc = "recv" => InService'
      BY <1>0, <2>0, <2>4, <3>1 DEF InService
    <3> QED  BY <1>0, <1>1, <2>2, <2>4, <3>2, OpendKeeps
  <2>5. CASE srv = "status" /\ ans' = Append(ans, "status") /\ srv' = "read"
    <3>1. opc = "recv" => req = <<>> /\ Asked = "missing" /\ (ans' = <<"status">> \/ ans' = <<"text", "status">>)
      <4>1. Append(<<>>, "status") = <<"status">> /\ Append(<<"text">>, "status") = <<"text", "status">>
        BY OneElement
      <4> QED  BY <1>1, <2>5, <4>1 DEF ForkInv, InService
    <3>2. opc = "recv" => InService'
      BY <1>0, <2>0, <2>5, <3>1 DEF InService
    <3> QED  BY <1>0, <1>1, <2>2, <2>5, <3>2, OpendKeeps
  <2> QED  BY <1>4, <2>1, <2>3, <2>4, <2>5 DEF Fork!handle_request
<1> QED  BY <1>2, <1>3, <1>4 DEF Fork!opend

LEMMA ForkStep == ForkInv /\ [Fork!Next]_forkVars => ForkInv'
<1> SUFFICES ASSUME ForkInv, [Fork!Next]_forkVars PROVE ForkInv'
  OBVIOUS
<1>1. CASE UNCHANGED forkVars
  BY <1>1 DEF forkVars, ForkInv, InService, AnswerLeft, Asked
<1>2. CASE Fork!End
  BY <1>2 DEF Fork!End, ForkInv
<1>3. CASE Fork!Kill
  <2>1. UNCHANGED <<fd, asked, got, req, ans, cur, own>> /\ Asked' = Asked
    BY <1>3 DEF Fork!Kill, Asked
  <2>2. CASE opc' = "killed" /\ UNCHANGED srv
    BY <2>1, <2>2 DEF ForkInv
  <2>3. CASE ~Fork!serverGone /\ srv' = "exit" /\ UNCHANGED opc
    <3>1. fd = "open"
      BY <2>3 DEF ForkInv, Fork!serverGone
    <3>2. opc = "recv" => InService'
      BY <2>1, <2>3, <3>1 DEF ForkInv, InService, AnswerLeft
    <3> QED  BY <2>1, <2>3, <3>1, <3>2, OpendKeeps DEF ForkInv
  <2> QED  BY <1>3, <2>2, <2>3 DEF Fork!Kill
<1> QED  BY <1>1, <1>2, <1>3, CallKeeps, StartKeeps, WritevKeeps, RecvKeeps, ServerKeeps
         DEF Fork!Next, Fork!csopen

LEMMA ForkHolds == ForkInv => Fork!OwnResult
BY DEF ForkInv, Fork!OwnResult

-----------------------------------------------------------------------------
(* advio/rot13c2.c: a block that was read is in a buffer or in the output. *)

BufsInUse == {b \in 1 .. NBUF : bufop[b] # "UNUSED"}

AioTypes ==
  /\ bufop \in [1 .. NBUF -> {"UNUSED", "READ", "WRITE"}] /\ aiocb \in [1 .. NBUF -> Int]
  /\ DOMAIN bdata = 1 .. NBUF /\ DOMAIN ofile = 0 .. Size - 1
  /\ off \in 0 .. Size /\ scan \in 1 .. NBUF + 1 /\ busy \subseteq BufsInUse
  /\ numop = Cardinality(BufsInUse)

BuffersOwnBlocks ==
  \A b \in 1 .. NBUF :
    /\ bufop[b] # "UNUSED" => aiocb[b] \in 0 .. off - 1
    /\ bufop[b] = "READ" /\ b \notin busy => bdata[b] = <<"plain", aiocb[b]>>
    /\ bufop[b] = "WRITE" => bdata[b] = <<"rot13", aiocb[b]>>
    /\ bufop[b] = "WRITE" /\ b \notin busy => ofile[aiocb[b]] = <<"rot13", aiocb[b]>>

NothingLost ==
  /\ \A n \in 0 .. Size - 1 : ofile[n] \in {Aio!Nothing, <<"rot13", n>>}
  /\ \A n \in 0 .. off - 1 : ofile[n] = <<"rot13", n>> \/ \E b \in BufsInUse : aiocb[b] = n
  /\ adone => \A n \in 0 .. Size - 1 : ofile[n] = <<"rot13", n>>

AioInv == AioTypes /\ BuffersOwnBlocks /\ NothingLost

LEMMA UseFinite == IsFiniteSet(BufsInUse)
<1>1. IsFiniteSet(1 .. NBUF)
  BY AioAssumption, FS_Interval
<1> QED  BY <1>1, FS_Subset DEF BufsInUse

LEMMA AioInit == Aio!Init => AioInv
<1> SUFFICES ASSUME Aio!Init PROVE AioInv
  OBVIOUS
<1> USE AioAssumption DEF Aio!Init, Aio!Bufs, Aio!Block
<1>1. BufsInUse = {}
  BY DEF BufsInUse
<1>2. AioTypes
  BY <1>1, FS_EmptySet DEF AioTypes
<1> QED  BY <1>2 DEF AioInv, BuffersOwnBlocks, NothingLost

LEMMA CompleteKeeps == ASSUME AioInv, NEW b \in 1 .. NBUF, Aio!Complete(b) PROVE AioInv'
<1> USE AioAssumption DEF AioInv, Aio!Complete
<1>0. UNCHANGED <<bufop, aiocb, off, numop, scan, adone>> /\ BufsInUse' = BufsInUse /\ busy' = busy \ {b}
      /\ b \in BufsInUse
  BY DEF BufsInUse, AioTypes
<1>1. CASE bufop[b] = "READ"
  <2>1. bdata' = [bdata EXCEPT ![b] = <<"plain", aiocb[b]>>] /\ ofile' = ofile
    BY <1>1
  <2>2. AioTypes'
    BY <1>0, <2>1 DEF AioTypes
  <2>3. BuffersOwnBlocks'
    BY <1>0, <1>1, <2>1 DEF AioTypes, BuffersOwnBlocks
  <2>4. NothingLost'
    BY <1>0, <2>1 DEF NothingLost
  <2> QED  BY <2>2, <2>3, <2>4
<1>2. CASE bufop[b] = "WRITE"
  <2>1. ofile' = [ofile EXCEPT ![aiocb[b]] = <<"rot13", aiocb[b]>>] /\ bdata' = bdata
        /\ aiocb[b] \in 0 .. Size - 1
    BY <1>2 DEF AioTypes, BuffersOwnBlocks
  <2>2. AioTypes'
    BY <1>0, <2>1 DEF AioTypes
  <2>3. BuffersOwnBlocks'
    BY <1>0, <1>2, <2>1 DEF AioTypes, BuffersOwnBlocks
  <2>4. NothingLost'
    BY <1>0, <2>1 DEF AioTypes, NothingLost
  <2> QED  BY <2>2, <2>3, <2>4
<1> QED  BY <1>0, <1>1, <1>2 DEF BufsInUse, AioTypes

LEMMA UnusedKeeps ==
  ASSUME AioInv, scan \in 1 .. NBUF, scan' = scan + 1, Aio!Unused(scan), UNCHANGED <<ofile, adone>>
  PROVE  AioInv'
<1> USE AioAssumption DEF AioInv, Aio!Unused
<1>1. CASE off < Size
  <2>0. /\ bufop' = [bufop EXCEPT ![scan] = "READ"] /\ aiocb' = [aiocb EXCEPT ![scan] = off]
        /\ off' = off + 1 /\ busy' = busy \cup {scan} /\ numop' = numop + 1 /\ bdata' = bdata
        /\ scan \notin BufsInUse
    BY <1>1 DEF BufsInUse
  <2>1. BufsInUse' = BufsInUse \cup {scan}
    BY <2>0 DEF BufsInUse, AioTypes
  <2>2. Cardinality(BufsInUse') = Cardinality(BufsInUse) + 1
    BY <2>0, <2>1, UseFinite, FS_AddElement
  <2>3. AioTypes'
    BY <1>1, <2>0, <2>1, <2>2 DEF AioTypes
  <2>4. BuffersOwnBlocks'
    BY <2>0 DEF AioTypes, BuffersOwnBlocks, BufsInUse
  <2>5. NothingLost'
    <3>1. \A n \in 0 .. off - 1 : ofile'[n] = <<"rot13", n>> \/ \E b \in BufsInUse' : aiocb'[b] = n
      BY <2>0, <2>1 DEF AioTypes, NothingLost
    <3>2. scan \in BufsInUse' /\ aiocb'[scan] = off
      BY <2>0, <2>1 DEF AioTypes
    <3> QED  BY <2>0, <3>1, <3>2 DEF AioTypes, NothingLost
  <2> QED  BY <2>3, <2>4, <2>5
<1>2. CASE ~(off < Size)
  <2>0. UNCHANGED <<bufop, aiocb, off, busy, numop, bdata>> /\ BufsInUse' = BufsInUse
    BY <1>2 DEF BufsInUse
  <2>1. AioTypes'
    BY <2>0 DEF AioTypes
  <2> QED  BY <2>0, <2>1 DEF BuffersOwnBlocks, NothingLost
<1> QED  BY <1>1, <1>2

LEMMA ReadPendingKeeps ==
  ASSUME AioInv, scan \in 1 .. NBUF, scan' = scan + 1, Aio!ReadPending(scan), UNCHANGED <<ofile, adone>>
  PROVE  AioInv'
<1> USE AioAssumption DEF AioInv, Aio!ReadPending, Aio!InProgress
<1>0. UNCHANGED <<aiocb, off, numop, ofile, adone>>
  OBVIOUS
<1>1. CASE scan \in busy
  <2>0. UNCHANGED <<bufop, busy, bdata>> /\ BufsInUse' = BufsInUse
    BY <1>1 DEF BufsInUse
  <2>1. AioTypes'
    BY <1>0, <2>0 DEF AioTypes
  <2> QED  BY <1>0, <2>0, <2>1 DEF BuffersOwnBlocks, NothingLost
<1>2. CASE scan \notin busy
  <2>0. /\ bdata' = [bdata EXCEPT ![scan] = <<"rot13", aiocb[scan]>>]
        /\ bufop' = [bufop EXCEPT ![scan] = "WRITE"] /\ busy' = busy \cup {scan}
    BY <1>2 DEF AioTypes, BuffersOwnBlocks, Aio!translate
  <2>1. BufsInUse' = BufsInUse /\ scan \in BufsInUse
    BY <2>0 DEF BufsInUse, AioTypes
  <2>2. AioTypes'
    BY <1>0, <2>0, <2>1 DEF AioTypes
  <2>3. BuffersOwnBlocks'
    BY <1>0, <2>0 DEF AioTypes, BuffersOwnBlocks
  <2>4. NothingLost'
    BY <1>0, <2>1 DEF NothingLost
  <2> QED  BY <2>2, <2>3, <2>4
<1> QED  BY <1>1, <1>2

LEMMA WritePendingKeeps ==
  ASSUME AioInv, scan \in 1 .. NBUF, scan' = scan + 1, Aio!WritePending(scan), UNCHANGED <<ofile, adone>>
  PROVE  AioInv'
<1> USE AioAssumption DEF AioInv, Aio!WritePending, Aio!InProgress
<1>0. UNCHANGED <<aiocb, off, busy, bdata, ofile, adone>>
  OBVIOUS
<1>1. CASE scan \in busy
  <2>0. UNCHANGED <<bufop, numop>> /\ BufsInUse' = BufsInUse
    BY <1>1 DEF BufsInUse
  <2>1. AioTypes'
    BY <1>0, <2>0 DEF AioTypes
  <2> QED  BY <1>0, <2>0, <2>1 DEF BuffersOwnBlocks, NothingLost
<1>2. CASE scan \notin busy
  <2>0. bufop' = [bufop EXCEPT ![scan] = "UNUSED"] /\ numop' = numop - 1 /\ bufop[scan] = "WRITE"
    BY <1>2
  <2>1. BufsInUse' = BufsInUse \ {scan} /\ scan \in BufsInUse
    BY <2>0 DEF BufsInUse, AioTypes
  <2>2. Cardinality(BufsInUse') = Cardinality(BufsInUse) - 1
    BY <2>1, UseFinite, FS_RemoveElement
  <2>3. AioTypes'
    BY <1>0, <1>2, <2>0, <2>1, <2>2 DEF AioTypes
  <2>4. BuffersOwnBlocks'
    BY <1>0, <2>0 DEF AioTypes, BuffersOwnBlocks
  <2>5. NothingLost'
    <3>1. ofile[aiocb[scan]] = <<"rot13", aiocb[scan]>>
      BY <1>2, <2>0 DEF BuffersOwnBlocks
    <3> QED  BY <1>0, <2>1, <3>1 DEF NothingLost
  <2> QED  BY <2>3, <2>4, <2>5
<1> QED  BY <1>1, <1>2

LEMMA SuspendKeeps == ASSUME AioInv, ~adone, Aio!Suspend PROVE AioInv'
<1> USE AioAssumption DEF AioInv, Aio!Suspend
<1>0. UNCHANGED <<bufop, aiocb, bdata, busy, off, numop, ofile>> /\ scan' = 1 /\ BufsInUse' = BufsInUse
  BY DEF BufsInUse
<1>1. AioTypes' /\ BuffersOwnBlocks'
  BY <1>0 DEF AioTypes, BuffersOwnBlocks
<1>2. adone' => numop = 0 /\ off = Size
  <2>1. CASE numop = 0
    <3>1. adone' = (off >= Size)
      BY <2>1
    <3>2. off >= Size => off = Size
      BY DEF AioTypes
    <3> QED  BY ONLY <2>1, <3>1, <3>2
  <2>2. CASE numop # 0
    <3>1. adone' = adone
      BY <2>2
    <3> QED  BY <3>1
  <2> QED  BY <2>1, <2>2
<1>3. numop = 0 => BufsInUse = {}
  BY UseFinite, FS_EmptySet DEF AioTypes
<1> QED  BY <1>0, <1>1, <1>2, <1>3 DEF NothingLost

LEMMA AioStep == AioInv /\ [Aio!Next]_aioVars => AioInv'
<1> SUFFICES ASSUME AioInv, [Aio!Next]_aioVars PROVE AioInv'
  OBVIOUS
<1>1. CASE UNCHANGED aioVars
  <2>1. BufsInUse' = BufsInUse
    BY <1>1 DEF aioVars, BufsInUse
  <2> QED  BY <1>1, <2>1 DEF aioVars, AioInv, AioTypes, BuffersOwnBlocks, NothingLost
<1>2. CASE Aio!main
  <2>1. CASE Aio!Suspend
    BY <1>2, <2>1, SuspendKeeps DEF Aio!main
  <2>2. CASE /\ scan <= NBUF /\ scan' = scan + 1
             /\ Aio!Unused(scan) \/ Aio!ReadPending(scan) \/ Aio!WritePending(scan)
             /\ UNCHANGED <<ofile, adone>>
    <3>1. scan \in 1 .. NBUF
      BY <2>2, AioAssumption DEF AioInv, AioTypes
    <3> QED  BY <2>2, <3>1, UnusedKeeps, ReadPendingKeeps, WritePendingKeeps
  <2> QED  BY <1>2, <2>1, <2>2 DEF Aio!main
<1> QED  BY <1>1, <1>2, CompleteKeeps DEF Aio!Next, Aio!Bufs

LEMMA AioHolds == AioInv => Aio!OutputInPlace
BY DEF AioInv, NothingLost, Aio!OutputInPlace, Aio!Block, Aio!Nothing

-----------------------------------------------------------------------------
(* The upload of a file: printer/print.c with client_thread of printd.c.   *)

\* The tokens that follow number a, in their order.
Numbered(s, a) == s \in Seq(Nat) /\ \A t \in 1 .. Len(s) : s[t] = a + t

LEMMA NumberedNew ==
  ASSUME NEW a \in Nat, NEW k \in Nat
  PROVE  Numbered([t \in 1 .. k |-> a + t], a) /\ Len([t \in 1 .. k |-> a + t]) = k
BY DEF Numbered

LEMMA NumberedIs ==
  ASSUME NEW a \in Nat, NEW s, Numbered(s, a)
  PROVE  s = [t \in 1 .. Len(s) |-> a + t]
BY DEF Numbered

LEMMA NumberedConcat ==
  ASSUME NEW a \in Nat, NEW s, Numbered(s, a), NEW r, Numbered(r, a + Len(s))
  PROVE  Numbered(s \o r, a) /\ Len(s \o r) = Len(s) + Len(r)
<1>1. s \in Seq(Nat) /\ r \in Seq(Nat) /\ Len(s) \in Nat /\ Len(r) \in Nat
  BY DEF Numbered
<1>2. s \o r \in Seq(Nat) /\ Len(s \o r) = Len(s) + Len(r)
  BY <1>1, ConcatProperties
<1>3. \A t \in 1 .. Len(s) + Len(r) : (s \o r)[t] = IF t <= Len(s) THEN s[t] ELSE r[t - Len(s)]
  BY <1>1, ConcatProperties
<1>4. ASSUME NEW t \in 1 .. Len(s \o r) PROVE (s \o r)[t] = a + t
  <2>1. CASE t <= Len(s)
    BY <1>1, <1>2, <1>3, <2>1 DEF Numbered
  <2>2. CASE ~(t <= Len(s))
    <3>1. t - Len(s) \in 1 .. Len(r) /\ (s \o r)[t] = r[t - Len(s)]
      BY <1>1, <1>2, <1>3, <2>2
    <3>2. r[t - Len(s)] = (a + Len(s)) + (t - Len(s))
      BY <3>1 DEF Numbered
    <3> QED  BY <1>1, <3>1, <3>2
  <2> QED  BY <2>1, <2>2
<1> QED  BY <1>2, <1>4 DEF Numbered

LEMMA NumberedParts ==
  ASSUME NEW a \in Nat, NEW s, Numbered(s, a), NEW k \in 0 .. Len(s)
  PROVE  /\ Numbered(SubSeq(s, 1, k), a) /\ Len(SubSeq(s, 1, k)) = k
         /\ Numbered(SubSeq(s, k + 1, Len(s)), a + k) /\ Len(SubSeq(s, k + 1, Len(s))) = Len(s) - k
<1>1. s \in Seq(Nat) /\ Len(s) \in Nat /\ \A t \in 1 .. Len(s) : s[t] = a + t
  BY DEF Numbered
<1>2. SubSeq(s, 1, k) \in Seq(Nat) /\ Len(SubSeq(s, 1, k)) = k
      /\ \A t \in 1 .. k : SubSeq(s, 1, k)[t] = s[t]
  BY <1>1
<1>3. SubSeq(s, k + 1, Len(s)) \in Seq(Nat) /\ Len(SubSeq(s, k + 1, Len(s))) = Len(s) - k
      /\ \A t \in 1 .. Len(s) - k : SubSeq(s, k + 1, Len(s))[t] = s[k + t]
  BY <1>1
<1>4. \A t \in 1 .. k : SubSeq(s, 1, k)[t] = a + t
  BY <1>1, <1>2
<1>5. \A t \in 1 .. Len(s) - k : SubSeq(s, k + 1, Len(s))[t] = (a + k) + t
  BY <1>1, <1>3
<1> QED  BY <1>2, <1>3, <1>4, <1>5 DEF Numbered

-----------------------------------------------------------------------------
UploadTypes ==
  /\ cpc \in {"connect", "header", "exit"} /\ vpc \in {"none", "header", "creat", "file", "reqs", "gone"}
  /\ told \in {"none", "failed", "jobid", "rejected"} /\ resp \in {"none", "reset", "jobid", "rejected"}
  /\ sent \in 0 .. HDR + FILE /\ hdr \in 0 .. HDR
  /\ stalled \in BOOLEAN /\ failed \in BOOLEAN
  /\ resp # "none" \/ told \in {"jobid", "rejected"} => vpc = "gone"
  /\ vpc = "none" => sent = 0 /\ cpc # "header"
  /\ cpc = "connect" => vpc = "none" /\ told = "none"

\* The tokens are where they belong: in the header, in the file, on their way.
TokensInPlace ==
  /\ Numbered(stored, HDR)
  /\ vpc # "gone" => Numbered(sock, hdr + Len(stored)) /\ hdr + Len(stored) + Len(sock) = sent
  /\ vpc \in {"none", "header"} => hdr < HDR /\ stored = <<>>
  /\ vpc \in {"creat", "file", "reqs"} => hdr = HDR

Whole == Len(stored) = FILE

AnswersTrue ==
  /\ vpc = "reqs" /\ cpc # "exit" /\ ~stalled => Whole
  /\ resp = "jobid" /\ cpc # "exit" /\ ~stalled => Whole
  /\ told = "jobid" /\ ~stalled => Whole
  /\ resp = "rejected" /\ cpc # "exit" => stalled \/ failed
  /\ told = "rejected" => stalled \/ failed

UploadInv == UploadTypes /\ TokensInPlace /\ AnswersTrue

LEMMA UploadInit == Upload!Init => UploadInv
<1> SUFFICES ASSUME Upload!Init PROVE UploadInv
  OBVIOUS
<1> USE UploadAssumption DEF Upload!Init
<1>1. Numbered(<<>>, HDR) /\ Numbered(<<>>, 0) /\ Len(<<>>) = 0
  BY DEF Numbered
<1>2. UploadTypes /\ AnswersTrue
  <2>1. 0 \in 0 .. HDR + FILE /\ 0 \in 0 .. HDR
    OBVIOUS
  <2> QED  BY <2>1 DEF UploadTypes, AnswersTrue
<1>3. TokensInPlace
  BY <1>1 DEF TokensInPlace
<1> QED  BY <1>2, <1>3 DEF UploadInv

LEMMA ConnectKeeps == ASSUME UploadInv, Upload!connect_retry PROVE UploadInv'
<1> USE UploadAssumption DEF UploadInv
<1>0. cpc = "connect" /\ vpc = "none" /\ UNCHANGED <<sent, sock, resp, hdr, stored, stalled, failed>>
  BY DEF Upload!connect_retry, UploadTypes
<1>1. \/ cpc' = "header" /\ vpc' = "header" /\ told' = told
      \/ cpc' = cpc /\ vpc' = vpc /\ told' = told
      \/ cpc' = "exit" /\ vpc' = vpc /\ told' = "failed"
  BY DEF Upload!connect_retry, Upload!NextAddr, Upload!Exit
<1>2. UploadTypes' /\ AnswersTrue'
  BY <1>0, <1>1 DEF UploadTypes, AnswersTrue, Whole
<1>3. TokensInPlace'
  BY <1>0, <1>1 DEF TokensInPlace
<1> QED  BY <1>2, <1>3

LEMMA WritenKeeps ==
  ASSUME UploadInv, NEW upto \in Nat, upto <= HDR + FILE, cpc = "header", Upload!writen(upto),
         UNCHANGED <<aip, numsec, bad, vpc, hdr, stored, stalled, failed>>
  PROVE  UploadInv'
<1> USE UploadAssumption DEF UploadInv
<1>1. PICK k \in 1 .. upto - sent :
        /\ sent' = sent + k
        /\ IF vpc # "gone" THEN sock' = sock \o [t \in 1 .. k |-> sent + t] /\ UNCHANGED <<cpc, resp, told>>
           ELSE UNCHANGED sock /\ \/ resp' \in {resp, "reset"} /\ UNCHANGED <<cpc, told>>
                                  \/ Upload!Exit("failed") /\ UNCHANGED resp
  BY DEF Upload!writen
<1>2. sent' \in 0 .. HDR + FILE /\ k \in Nat /\ k > 0 /\ sent \in Nat /\ sent < HDR + FILE
  BY <1>1 DEF UploadTypes
<1>3. CASE vpc # "gone"
  <2>1. sock' = sock \o [t \in 1 .. k |-> sent + t] /\ UNCHANGED <<cpc, resp, told>>
    BY <1>1, <1>3
  <2>2. vpc # "reqs" \/ Whole \/ stalled
    BY DEF AnswersTrue
  <2>3. UploadTypes' /\ AnswersTrue'
    BY <1>2, <2>1 DEF UploadTypes, AnswersTrue, Whole
  <2>4. Numbered(sock, hdr + Len(stored)) /\ hdr + Len(stored) + Len(sock) = sent /\ hdr + Len(stored) \in Nat
        /\ Len(sock) \in Nat /\ Len(stored) \in Nat /\ hdr \in Nat
    BY <1>3 DEF TokensInPlace, UploadTypes, Numbered
  <2>5. Numbered([t \in 1 .. k |-> sent + t], (hdr + Len(stored)) + Len(sock))
        /\ Len([t \in 1 .. k |-> sent + t]) = k
    BY <1>2, <2>4, NumberedNew
  <2>6. Numbered(sock', hdr + Len(stored)) /\ Len(sock') = Len(sock) + k
    BY <2>1, <2>4, <2>5, NumberedConcat
  <2>7. TokensInPlace'
    BY <1>1, <1>2, <1>3, <2>4, <2>6 DEF TokensInPlace, UploadTypes
  <2> QED  BY <2>3, <2>7
<1>4. CASE vpc = "gone"
  <2>1. \/ resp' \in {resp, "reset"} /\ UNCHANGED <<cpc, told>>
        \/ cpc' = "exit" /\ told' = "failed" /\ UNCHANGED resp
    BY <1>1, <1>4 DEF Upload!Exit
  <2>2. UploadTypes' /\ AnswersTrue'
    BY <1>2, <1>4, <2>1 DEF UploadTypes, AnswersTrue, Whole
  <2>3. TokensInPlace'
    BY <1>4 DEF TokensInPlace
  <2> QED  BY <2>2, <2>3
<1> QED  BY <1>3, <1>4

LEMMA ResponseKeeps ==
  ASSUME UploadInv, Upload!ReadResponse, UNCHANGED <<vpc, hdr, stored, stalled, failed>>
  PROVE  UploadInv'
<1> USE UploadAssumption DEF UploadInv, Upload!ReadResponse, Upload!Exit
<1>1. UploadTypes' /\ AnswersTrue'
  BY DEF UploadTypes, AnswersTrue, Whole
<1>2. TokensInPlace'
  BY DEF TokensInPlace
<1> QED  BY <1>1, <1>2

LEMMA FaultKeeps == ASSUME UploadInv, Upload!Fault PROVE UploadInv'
<1> USE UploadAssumption DEF UploadInv, Upload!Fault
<1>0. UNCHANGED <<sent, told, sock, hdr, stored, stalled>>
  OBVIOUS
<1>1. \/ UNCHANGED <<cpc, vpc, resp, failed>>
      \/ cpc' = "exit" /\ UNCHANGED <<vpc, resp, failed>>
      \/ vpc \notin {"none", "gone"} /\ vpc' = "gone" /\ resp' = "reset" /\ failed' = TRUE /\ cpc' = cpc
  OBVIOUS
<1> HIDE DEF Upload!Fault
<1>2. UploadTypes' /\ AnswersTrue'
  BY <1>0, <1>1 DEF UploadTypes, AnswersTrue, Whole
<1>3. TokensInPlace'
  BY <1>0, <1>1 DEF TokensInPlace
<1> QED  BY <1>2, <1>3

\* What a read takes from the connection follows what was read before.
LEMMA TreadTakes ==
  ASSUME UploadInv, vpc # "gone", NEW n \in Nat, NEW k \in 1 .. n, Upload!Tread(n, k)
  PROVE  /\ Numbered(SubSeq(sock, 1, k), hdr + Len(stored)) /\ Len(SubSeq(sock, 1, k)) = k
         /\ Numbered(sock', hdr + Len(stored) + k) /\ hdr + Len(stored) + k + Len(sock') = sent
         /\ Len(sock') \in Nat /\ Len(stored) \in Nat
<1> USE UploadAssumption
<1>1. Numbered(sock, hdr + Len(stored)) /\ hdr + Len(stored) + Len(sock) = sent
      /\ Len(sock) \in Nat /\ Len(stored) \in Nat /\ hdr \in Nat /\ sent \in Nat
  BY DEF UploadInv, UploadTypes, TokensInPlace, Numbered
<1>2. k \in 0 .. Len(sock) /\ sock' = SubSeq(sock, k + 1, Len(sock)) /\ hdr + Len(stored) \in Nat
  BY <1>1 DEF Upload!Tread
<1>3. /\ Numbered(SubSeq(sock, 1, k), hdr + Len(stored)) /\ Len(SubSeq(sock, 1, k)) = k
      /\ Numbered(sock', hdr + Len(stored) + k) /\ Len(sock') = Len(sock) - k
  BY <1>1, <1>2, NumberedParts
<1>4. k \in Nat /\ Len(sock') \in Nat /\ hdr + Len(stored) + k + Len(sock') = sent
  <2>1. \A a, b, c, d \in Nat : \A m \in 0 .. c : a + b + c = d => a + b + m + (c - m) = d /\ c - m \in Nat
    OBVIOUS
  <2>2. hdr + Len(stored) + k + (Len(sock) - k) = sent /\ Len(sock) - k \in Nat /\ k \in Nat
    BY ONLY <1>1, <1>2, <2>1
  <2> QED  BY ONLY <1>3, <2>2
<1> QED  BY <1>1, <1>3, <1>4

\* Nothing to read: if all was sent the client is gone, or the file is whole.
LEMMA NothingMeans ==
  ASSUME UploadInv, vpc \notin {"none", "gone"}, Upload!Nothing
  PROVE  /\ stalled' \in BOOLEAN /\ (stalled => stalled')
         /\ vpc = "header" /\ cpc # "exit" => stalled'
         /\ vpc = "file" /\ cpc # "exit" /\ ~stalled' => Whole
<1> USE UploadAssumption DEF UploadInv, UploadTypes
<1>1. Len(sock) = 0 /\ stalled' = (stalled \/ (cpc # "exit" /\ sent < HDR + FILE))
  BY DEF Upload!Nothing
<1>2. Len(stored) \in Nat /\ hdr + Len(stored) + Len(sock) = sent
  BY DEF TokensInPlace, Numbered
<1>3. vpc = "header" => sent < HDR + FILE
  BY <1>1, <1>2 DEF TokensInPlace
<1>4. vpc = "file" /\ ~(sent < HDR + FILE) => Whole
  BY <1>1, <1>2 DEF TokensInPlace, Whole
<1> QED  BY <1>1, <1>3, <1>4

LEMMA TreadnKeeps == ASSUME UploadInv, Upload!treadn, UNCHANGED <<cpc, sent, told>> PROVE UploadInv'
<1> USE UploadAssumption DEF UploadInv
<1>0. vpc = "header" /\ UNCHANGED <<stored, failed>> /\ stored = <<>> /\ Len(stored) = 0 /\ hdr \in Nat
      /\ hdr < HDR
  BY DEF Upload!treadn, TokensInPlace, UploadTypes
<1>1. ASSUME NEW k \in 1 .. HDR - hdr, Upload!Tread(HDR - hdr, k), hdr' = hdr + k, UNCHANGED <<resp, stalled>>,
             vpc' = IF hdr' = HDR THEN "creat" ELSE "header"
      PROVE  UploadInv'
  <2>1. HDR - hdr \in Nat
    BY <1>0
  <2>2. Numbered(sock', hdr + k) /\ hdr + k + Len(sock') = sent
    BY <1>0, <1>1, <2>1, TreadTakes
  <2>3. UploadTypes' /\ AnswersTrue'
    BY <1>0, <1>1 DEF UploadTypes, AnswersTrue, Whole
  <2>4. TokensInPlace'
    BY <1>0, <1>1, <2>2 DEF TokensInPlace, UploadTypes
  <2> QED  BY <2>3, <2>4
<1>2. ASSUME Upload!Nothing, UNCHANGED <<hdr, sock>>, Upload!Answer("rejected")
      PROVE  UploadInv'
  <2>1. vpc' = "gone" /\ resp' \in {"rejected", "reset"}
    BY <1>2 DEF Upload!Answer
  <2>2. stalled' \in BOOLEAN /\ (stalled => stalled') /\ (cpc # "exit" => stalled')
    <3> HIDE DEF UploadInv
    <3>1. vpc \notin {"none", "gone"} /\ vpc = "header"
      BY <1>0
    <3>2. UploadInv /\ Upload!Nothing
      BY <1>2
    <3> QED  BY ONLY <3>1, <3>2, NothingMeans
  <2>3. UploadTypes' /\ AnswersTrue'
    BY <1>0, <1>2, <2>1, <2>2 DEF UploadTypes, AnswersTrue, Whole
  <2>4. TokensInPlace'
    BY <1>0, <1>2, <2>1 DEF TokensInPlace
  <2> QED  BY <2>3, <2>4
<1> QED  BY <1>1, <1>2 DEF Upload!treadn

LEMMA StoreKeeps == ASSUME UploadInv, Upload!Store, UNCHANGED <<cpc, sent, told>> PROVE UploadInv'
<1> USE UploadAssumption DEF UploadInv
<1>0. vpc = "file" /\ UNCHANGED hdr /\ hdr = HDR /\ Numbered(stored, HDR)
  BY DEF Upload!Store, TokensInPlace
<1>1. ASSUME NEW k \in 1 .. IOBUFSZ, Upload!Tread(IOBUFSZ, k), UNCHANGED stalled,
             stored' = stored \o SubSeq(sock, 1, k), UNCHANGED <<vpc, resp, failed>>
      PROVE  UploadInv'
  <2>1. /\ Numbered(SubSeq(sock, 1, k), HDR + Len(stored)) /\ Len(SubSeq(sock, 1, k)) = k
        /\ Numbered(sock', HDR + Len(stored) + k) /\ HDR + Len(stored) + k + Len(sock') = sent
        /\ Len(sock') \in Nat /\ Len(stored) \in Nat
    BY <1>0, <1>1, TreadTakes
  <2>2. Numbered(stored', HDR) /\ Len(stored') = Len(stored) + k
    BY <1>0, <1>1, <2>1, NumberedConcat
  <2>3. resp = "none" /\ told \notin {"jobid", "rejected"}
    BY <1>0 DEF UploadTypes
  <2>4. UploadTypes'
    BY <1>0, <1>1 DEF UploadTypes
  <2>5. TokensInPlace'
    BY <1>0, <1>1, <2>1, <2>2 DEF TokensInPlace
  <2> QED  BY <1>0, <1>1, <2>3, <2>4, <2>5 DEF AnswersTrue
<1>2. ASSUME Upload!Answer("rejected"), failed' = TRUE, UNCHANGED <<stored, stalled>>
      PROVE  UploadInv'
  <2>1. vpc' = "gone" /\ resp' \in {"rejected", "reset"}
    BY <1>2 DEF Upload!Answer
  <2>2. UploadTypes' /\ AnswersTrue'
    BY <1>0, <1>2, <2>1 DEF UploadTypes, AnswersTrue, Whole
  <2>3. TokensInPlace'
    BY <1>0, <1>2, <2>1 DEF TokensInPlace
  <2> QED  BY <2>2, <2>3
<1>3. ASSUME Upload!Nothing, vpc' = "reqs", UNCHANGED <<resp, stored, sock, failed>>
      PROVE  UploadInv'
  <2>1. stalled' \in BOOLEAN /\ (stalled => stalled') /\ (cpc # "exit" /\ ~stalled' => Whole)
    <3> HIDE DEF UploadInv
    <3>1. vpc \notin {"none", "gone"} /\ vpc = "file"
      BY <1>0
    <3>2. UploadInv /\ Upload!Nothing
      BY <1>3
    <3> QED  BY ONLY <3>1, <3>2, NothingMeans
  <2>2. UploadTypes' /\ AnswersTrue'
    BY <1>0, <1>3, <2>1 DEF UploadTypes, AnswersTrue, Whole
  <2>3. TokensInPlace'
    BY <1>0, <1>3 DEF TokensInPlace
  <2> QED  BY <2>2, <2>3
<1> QED  BY <1>1, <1>2, <1>3 DEF Upload!Store

LEMMA FilesKeep == ASSUME UploadInv, Upload!SpoolFiles, UNCHANGED <<cpc, sent, told>> PROVE UploadInv'
<1> USE UploadAssumption DEF UploadInv
<1>0. UNCHANGED <<sock, hdr, stored, stalled>>
  BY DEF Upload!SpoolFiles
<1>1. \/ vpc = "creat" /\ vpc' = "file" /\ UNCHANGED <<resp, failed>>
      \/ vpc = "reqs" /\ vpc' = "gone" /\ resp' \in {"jobid", "reset"} /\ UNCHANGED failed
      \/ vpc \in {"creat", "reqs"} /\ vpc' = "gone" /\ resp' \in {"rejected", "reset"} /\ failed' = TRUE
  BY DEF Upload!SpoolFiles, Upload!Answer
<1>2. UploadTypes' /\ AnswersTrue'
  BY <1>0, <1>1 DEF UploadTypes, AnswersTrue, Whole
<1>3. TokensInPlace'
  BY <1>0, <1>1 DEF TokensInPlace
<1> QED  BY <1>2, <1>3

LEMMA UploadStep == UploadInv /\ [Upload!Next]_printVars => UploadInv'
<1> SUFFICES ASSUME UploadInv, [Upload!Next]_printVars PROVE UploadInv'
  OBVIOUS
<1>1. CASE UNCHANGED printVars
  BY <1>1 DEF printVars, UploadInv, UploadTypes, TokensInPlace, AnswersTrue, Whole
<1>2. CASE Upload!client_thread
  BY <1>2, TreadnKeeps, StoreKeeps, FilesKeep DEF Upload!client_thread, Upload!client
<1>3. CASE Upload!print
  <2>1. CASE Upload!connect_retry
    BY <2>1, ConnectKeeps
  <2>2. CASE (Upload!SendHeader \/ Upload!SendFile \/ Upload!ReadResponse)
             /\ UNCHANGED <<aip, numsec, bad, Upload!server>>
    <3>1. UNCHANGED <<aip, numsec, bad, vpc, hdr, stored, stalled, failed>>
      BY <2>2 DEF Upload!server
    <3>2. HDR \in Nat /\ HDR + FILE \in Nat /\ HDR <= HDR + FILE
      BY UploadAssumption
    <3> QED  BY <2>2, <3>1, <3>2, WritenKeeps, ResponseKeeps DEF Upload!SendHeader, Upload!SendFile
  <2> QED  BY <1>3, <2>1, <2>2 DEF Upload!print
<1> QED  BY <1>1, <1>2, <1>3, FaultKeeps DEF Upload!Next

LEMMA UploadHolds == UploadInv => Upload!SubmitRight
<1> SUFFICES ASSUME UploadInv PROVE Upload!SubmitRight
  OBVIOUS
<1>1. stored = [t \in 1 .. Len(stored) |-> HDR + t]
  BY UploadAssumption, NumberedIs DEF UploadInv, TokensInPlace
<1> QED  BY <1>1 DEF UploadInv, AnswersTrue, Whole, Upload!SubmitRight

-----------------------------------------------------------------------------
(* printer_status: with an answer in each read, it is at its own place of  *)
(* the last answer at every step.                                          *)

LEMMA FlattenTwo ==
  ASSUME NEW a, NEW b
  PROVE  Answer!FlattenSeq(<<a, b>>) = a \o b
<1> DEFINE s == <<a, b>>
           G(f) == [n \in 1 .. Len(s) |-> IF n = 1 THEN s[n] ELSE f[n - 1] \o s[n]]
           h == CHOOSE f : f = G(f)
           w == [n \in 1 .. Len(s) |-> IF n = 1 THEN a ELSE a \o b]
<1>1. Answer!FlattenSeq(s) = h[Len(s)]
  BY DEF Answer!FlattenSeq
<1>2. Len(s) = 2 /\ s[1] = a /\ s[2] = b
  OBVIOUS
<1>3. w = G(w)
  BY <1>2
<1>4. h = G(h)
  BY <1>3
<1> HIDE DEF h, s
<1>5. h[1] = s[1]
  BY <1>2, <1>4
<1>6. h[2] = h[1] \o s[2]
  <2>1. \A n \in 1 .. Len(s) : h[n] = IF n = 1 THEN s[n] ELSE h[n - 1] \o s[n]
    BY ONLY <1>4, Zenon
  <2>2. 2 \in 1 .. Len(s) /\ 2 # 1 /\ 2 - 1 = 1
    BY <1>2
  <2>3. h[2] = h[2 - 1] \o s[2]
    BY ONLY <2>1, <2>2, Zenon
  <2> QED  BY ONLY <2>2, <2>3, Zenon
<1> QED BY <1>1, <1>2, <1>5, <1>6 DEF s

LEMMA FlattenOne ==
  ASSUME NEW a
  PROVE  Answer!FlattenSeq(<<a>>) = a
<1> DEFINE s == <<a>>
           G(f) == [n \in 1 .. Len(s) |-> IF n = 1 THEN s[n] ELSE f[n - 1] \o s[n]]
           h == CHOOSE f : f = G(f)
           w == [n \in 1 .. Len(s) |-> a]
<1>1. Answer!FlattenSeq(s) = h[Len(s)]
  BY DEF Answer!FlattenSeq
<1>2. Len(s) = 1 /\ s[1] = a
  OBVIOUS
<1>3. w = G(w)
  BY <1>2
<1>4. h = G(h)
  BY <1>3
<1> HIDE DEF h, s
<1>5. h[1] = s[1]
  BY <1>2, <1>4
<1> QED BY <1>1, <1>2, <1>5 DEF s

LEMMA FlattenNone == Answer!FlattenSeq(<<>>) = <<>>
BY DEF Answer!FlattenSeq

Info == <<"info", "nl">>

\* The last answer, as far as the program looks at it.
IsReply(x) ==
  /\ x \in Seq(Answer!Tokens) /\ Len(x) = 9 /\ x[1] \in {"ok", "error", "garbled"}
  /\ x[2] = "h" /\ x[3] = "c" /\ x[4] = "length" /\ x[5] = "nl" /\ x[6] = "cr" /\ x[7] = "nl"
  /\ Answer!Reply("ok", "status+", "id+") = x <=> (x[1] = "ok" /\ x[8] = "status+" /\ x[9] = "id+")

LEMMA RepliesAre == \A x \in Answer!Finals : IsReply(x)
<1> SUFFICES ASSUME NEW x \in Answer!Finals PROVE IsReply(x)
  OBVIOUS
<1>1. PICK code \in {"ok", "error", "garbled"}, st \in {"status+", "status-"}, id \in {"id+", "id-"} :
        x = Answer!Reply(code, st, id)
  BY DEF Answer!Finals, Answer!Codes
<1>2. x = <<code, "h", "c", "length", "nl", "cr", "nl", st, id>>
  BY <1>1 DEF Answer!Reply
<1>3. x \in Seq(Answer!Tokens) /\ Len(x) = 9
  BY <1>2 DEF Answer!Tokens, Answer!Codes, Answer!Body
<1>4. /\ x[1] = code /\ x[2] = "h" /\ x[3] = "c" /\ x[4] = "length" /\ x[5] = "nl"
      /\ x[6] = "cr" /\ x[7] = "nl" /\ x[8] = st /\ x[9] = id
  BY <1>2
<1>5. Answer!Reply("ok", "status+", "id+") = x <=> (code = "ok" /\ st = "status+" /\ id = "id+")
  BY <1>1 DEF Answer!Reply
<1> QED  BY <1>3, <1>4, <1>5 DEF IsReply

StatusInv ==
  whole =>
    /\ IsReply(final)
    /\ lpc \in {"tread", "code", "search", "after", "find", "found", "body", "ipp", "done"}
    /\ lpc # "done" => success = FALSE /\ gaveUp = FALSE
    /\ lpc = "tread" => net \in {<<>>, <<final>>, <<Info, final>>}
    /\ lpc = "code" => \/ answer = Info /\ net = <<final>>
                       \/ answer = final /\ net = <<>>
    /\ lpc = "code" => pos = 1 /\ datsz = Len(answer)
    /\ lpc \in {"search", "after", "find", "found", "body", "ipp"} =>
         answer = final /\ final[1] = "ok" /\ datsz = 9
    /\ (lpc = "search" => pos \in 1 .. 3) /\ (lpc \in {"after", "find"} => pos = 4)
    /\ lpc \in {"found", "body", "ipp"} => pos = 7
    /\ lpc = "done" => success = (Answer!Said /\ ~gaveUp)

LEMMA StatusInit == Answer!Init => StatusInv
<1> SUFFICES ASSUME Answer!Init PROVE StatusInv
  OBVIOUS
<1>1. PICK f \in Answer!First : net = Append(f, final)
  BY DEF Answer!Init
<1>2. CASE f = <<>>
  <2>1. net = <<final>>
    BY <1>1, <1>2
  <2> QED  BY <2>1, RepliesAre DEF Answer!Init, StatusInv
<1>3. CASE f = <<Info>>
  <2>1. net = <<Info, final>>
    BY <1>1, <1>3, OneElement
  <2> QED  BY <2>1, RepliesAre DEF Answer!Init, StatusInv
<1> QED  BY <1>2, <1>3 DEF Answer!First, Info

\* What is left behind a piece of unknown tokens does not matter: only a whole answer does.
LEMMA WholeRead ==
  ASSUME NEW x \in Seq(Answer!Tokens), NEW k \in 1 .. bufsz, Answer!tread(0, bufsz, k), whole',
         net = <<x>> \/ \E y \in Seq(Answer!Tokens) : net = <<x, y>>
  PROVE  answer' = x /\ k = Len(x) /\ net' = Tail(net)
<1> DEFINE all == Answer!FlattenSeq(net)
<1>1. Head(net) = x
  BY OneElement
<1>2. k = Len(x) /\ net' = Tail(net) /\ k \in Nat
  <2>1. whole' = (whole /\ 0 = 0 /\ k = Len(Head(net)))
        /\ net' = IF whole' THEN Tail(net) ELSE <<SubSeq(all, k + 1, Len(all))>>
    BY DEF Answer!tread
  <2>2. k = Len(Head(net)) /\ net' = Tail(net)
    BY <2>1, Zenon
  <2> QED  BY <1>1, <2>2
<1>3. \A p \in 1 .. Len(x) : all[p] = x[p]
  <2>1. CASE net = <<x>>
    BY <2>1, FlattenOne
  <2>2. ASSUME NEW y \in Seq(Answer!Tokens), net = <<x, y>> PROVE \A p \in 1 .. Len(x) : all[p] = x[p]
    <3>1. all = x \o y
      BY <2>2, FlattenTwo
    <3> QED  BY <3>1, ConcatProperties
  <2> QED  BY <2>1, <2>2
<1>4. answer' = [p \in 1 .. k |-> all[p]]
  <2>1. answer' = [p \in 1 .. 0 + k |-> IF p > 0 /\ p <= 0 + k THEN all[p - 0]
                                      ELSE IF p <= Len(answer) THEN answer[p] ELSE "junk"]
    <3>1. answer' = [p \in 1 .. (IF 0 = 0 \/ 0 + k > Len(answer) THEN 0 + k ELSE Len(answer)) |->
                     IF p > 0 /\ p <= 0 + k THEN all[p - 0]
                     ELSE IF p <= Len(answer) THEN answer[p] ELSE "junk"]
      BY DEF Answer!tread
    <3>2. (IF 0 = 0 \/ 0 + k > Len(answer) THEN 0 + k ELSE Len(answer)) = 0 + k
      OBVIOUS
    <3> QED  BY ONLY <3>1, <3>2, Zenon
  <2> HIDE DEF all
  <2>2. 0 + k = k /\ \A p \in 1 .. k : p > 0 /\ p <= 0 + k /\ p - 0 = p
    BY <1>2
  <2> QED  BY ONLY <1>2, <2>1, <2>2
<1> HIDE DEF all
<1>5. answer' = [p \in 1 .. Len(x) |-> x[p]]
  BY <1>2, <1>3, <1>4
<1> QED  BY <1>2, <1>5

LEMMA ReadFirstKeeps == ASSUME StatusInv, whole, whole', Answer!ReadFirst, UNCHANGED final PROVE StatusInv'
<1> USE DEF StatusInv, Info
<1>1. CASE Answer!GiveUp
  BY <1>1 DEF Answer!GiveUp, Answer!ReadFirst, Answer!Said
<1>2. ASSUME NEW k \in 1 .. bufsz, Answer!tread(0, bufsz, k), datsz' = k, pos' = 1, lpc' = "code",
             UNCHANGED <<bufsz, success, gaveUp>>
      PROVE  StatusInv'
  <2>0. lpc = "tread" /\ final \in Seq(Answer!Tokens) /\ Info \in Seq(Answer!Tokens)
    BY DEF Answer!ReadFirst, IsReply, Answer!Tokens, Answer!Codes
  <2>1. net # <<>>
    <3>1. k > 0 /\ k <= Len(Answer!FlattenSeq(net))
      BY <1>2 DEF Answer!tread
    <3> QED  BY <3>1, FlattenNone
  <2>2. CASE net = <<final>>
    <3>1. answer' = final /\ k = Len(final) /\ net' = <<>>
      BY <1>2, <2>0, <2>2, WholeRead, OneElement
    <3> QED  BY <1>2, <2>0, <3>1
  <2>3. CASE net = <<Info, final>>
    <3>1. answer' = Info /\ k = Len(Info) /\ net' = <<final>>
      BY <1>2, <2>0, <2>3, WholeRead, OneElement
    <3> QED  BY <1>2, <2>0, <3>1
  <2> QED  BY <2>0, <2>1, <2>2, <2>3
<1> QED  BY <1>1, <1>2 DEF Answer!ReadFirst

LEMMA StatusLineKeeps == ASSUME StatusInv, whole, Answer!StatusLine, UNCHANGED final PROVE StatusInv'
<1>0. /\ lpc = "code" /\ pos' = pos
      /\ Answer!Goto(CASE answer[1] = "ok" -> "search" [] answer[1] = "error" -> "done" [] OTHER -> "tread")
  BY DEF Answer!StatusLine
<1>1. /\ lpc' = CASE answer[1] = "ok" -> "search" [] answer[1] = "error" -> "done" [] OTHER -> "tread"
      /\ pos' = pos /\ net' = net /\ answer' = answer /\ datsz' = datsz /\ final' = final
      /\ success' = success /\ whole' = whole /\ gaveUp' = gaveUp
  BY <1>0 DEF Answer!Goto
<1>2. /\ IsReply(final) /\ success = FALSE /\ gaveUp = FALSE /\ pos = 1 /\ datsz = Len(answer)
      /\ (answer = Info /\ net = <<final>>) \/ (answer = final /\ net = <<>>)
  BY <1>0 DEF StatusInv
<1>3. CASE answer = Info /\ net = <<final>>
  <2>1. answer[1] = "info"
    BY <1>3 DEF Info
  <2>2. lpc' = "tread"
    BY <1>1, <2>1
  <2> QED  BY <1>1, <1>2, <1>3, <2>2 DEF StatusInv
<1>4. CASE answer = final /\ net = <<>>
  <2>1. answer[1] \in {"ok", "error", "garbled"} /\ Len(answer) = 9
    BY <1>2, <1>4 DEF IsReply
  <2>2. CASE answer[1] = "ok"
    <3>1. lpc' = "search"
      BY <1>1, <2>2
    <3> QED  BY <1>1, <1>2, <1>4, <2>1, <2>2, <3>1 DEF StatusInv
  <2>3. CASE answer[1] = "error"
    <3>1. lpc' = "done"
      BY <1>1, <2>3
    <3>2. ~Answer!Said /\ Answer!Said' = Answer!Said
      BY <1>1, <1>2, <1>4, <2>3 DEF IsReply, Answer!Said
    <3>3. success' = (Answer!Said' /\ ~gaveUp')
      BY <1>1, <1>2, <3>2
    <3> QED  BY <1>1, <1>2, <3>1, <3>3 DEF StatusInv
  <2>4. CASE answer[1] = "garbled"
    <3>1. lpc' = "tread"
      BY <1>1, <2>4
    <3> QED  BY <1>1, <1>2, <1>4, <3>1 DEF StatusInv
  <2> QED  BY <2>1, <2>2, <2>3, <2>4
<1> QED  BY <1>2, <1>3, <1>4

\* The program is inside of the last answer: what it reads there is what is there.
Inside == whole /\ answer = final /\ IsReply(final) /\ final[1] = "ok" /\ datsz = 9

LEMMA AtIs ==
  ASSUME Inside, NEW p \in 0 .. 8
  PROVE  Answer!At(p) = {final[p + 1]}
<1>1. p < Len(answer) /\ answer[p + 1] = final[p + 1]
  BY DEF Inside, IsReply
<1>2. p + 1 \in 1 .. Len(final) /\ final \in Seq(Answer!Tokens)
  BY DEF Inside, IsReply
<1>3. final[p + 1] \in Answer!Tokens
  BY ONLY <1>2
<1> QED  BY <1>1, <1>3 DEF Answer!At

\* One step inside of the answer, to the place q.
LEMMA GotoKeeps ==
  ASSUME StatusInv, Inside, NEW q \in {"search", "after", "find", "found", "body", "ipp"}, Answer!Goto(q),
         UNCHANGED final, lpc # "done", pos' \in Int,
         q = "search" => pos' \in 1 .. 3, q \in {"after", "find"} => pos' = 4,
         q \in {"found", "body", "ipp"} => pos' = 7
  PROVE  StatusInv'
<1>1. IsReply(final) /\ success = FALSE /\ gaveUp = FALSE /\ answer = final /\ final[1] = "ok" /\ datsz = 9
  BY DEF StatusInv, Inside
<1>2. /\ lpc' = q /\ net' = net /\ answer' = answer /\ datsz' = datsz /\ final' = final
      /\ success' = success /\ whole' = whole /\ gaveUp' = gaveUp
  BY DEF Answer!Goto
<1> QED  BY <1>1, <1>2 DEF StatusInv

LEMMA SearchKeeps == ASSUME StatusInv, whole, Answer!Search, UNCHANGED final PROVE StatusInv'
<1>1. lpc = "search" /\ Inside /\ pos \in 1 .. 3
  BY DEF StatusInv, Inside, Answer!Search
<1>2. PICK t \in Answer!At(pos) : pos' = pos + 1 /\ Answer!Goto(IF t = "length" THEN "after" ELSE "search")
  BY <1>1 DEF Answer!Search, Inside
<1>3. t = final[pos + 1]
  BY <1>1, <1>2, AtIs
<1>4. IF pos = 3 THEN t = "length" ELSE t # "length"
  BY <1>1, <1>3 DEF Inside, IsReply
<1>5. CASE pos = 3
  BY <1>1, <1>2, <1>4, <1>5, GotoKeeps
<1>6. CASE pos # 3
  BY <1>1, <1>2, <1>4, <1>6, GotoKeeps
<1> QED  BY <1>5, <1>6

LEMMA AfterKeeps == ASSUME StatusInv, whole, Answer!After, UNCHANGED final PROVE StatusInv'
<1>1. lpc = "after" /\ Inside /\ pos = 4
  BY DEF StatusInv, Inside, Answer!After
<1>2. Answer!Goto("find") /\ pos' = pos
  BY <1>1 DEF Answer!After, Inside
<1> QED  BY <1>1, <1>2, GotoKeeps

LEMMA FindEndKeeps == ASSUME StatusInv, whole, Answer!FindEnd, UNCHANGED final PROVE StatusInv'
<1>1. lpc = "find" /\ Inside /\ pos = 4
  BY DEF StatusInv, Inside, Answer!FindEnd
<1>2. pos < datsz - 2
  BY <1>1 DEF Inside
<1>3. PICK t \in Answer!At(pos) \X Answer!At(pos + 1) \X Answer!At(pos + 2) :
        IF t = <<"nl", "cr", "nl">> THEN pos' = pos + 3 /\ Answer!Goto("found")
                                    ELSE pos' = pos + 1 /\ Answer!Goto("find")
  BY <1>2 DEF Answer!FindEnd
<1>4. /\ Answer!At(pos) = {final[5]} /\ Answer!At(pos + 1) = {final[6]} /\ Answer!At(pos + 2) = {final[7]}
  BY <1>1, AtIs
<1>5. t = <<"nl", "cr", "nl">>
  BY <1>1, <1>3, <1>4 DEF Inside, IsReply
<1>6. pos' = 7 /\ Answer!Goto("found")
  BY <1>1, <1>3, <1>5
<1> QED  BY <1>1, <1>6, GotoKeeps

LEMMA BodyKeeps == ASSUME StatusInv, whole, Answer!Found \/ Answer!GetBody, UNCHANGED final PROVE StatusInv'
<1>1. lpc \in {"found", "body"} /\ Inside /\ pos = 7
  BY DEF StatusInv, Inside, Answer!Found, Answer!GetBody
<1>2. (Answer!Goto("body") \/ Answer!Goto("ipp")) /\ pos' = pos
  BY <1>1 DEF Answer!Found, Answer!GetBody, Answer!len, Inside
<1> QED  BY <1>1, <1>2, GotoKeeps

LEMMA IppKeeps == ASSUME StatusInv, whole, Answer!IppStatus, UNCHANGED final PROVE StatusInv'
<1>1. lpc = "ipp" /\ Inside /\ pos = 7 /\ gaveUp = FALSE
  BY DEF StatusInv, Inside, Answer!IppStatus
<1>2. PICK t \in Answer!At(pos) \X Answer!At(pos + 1) : success' = (t = <<"status+", "id+">>)
  BY DEF Answer!IppStatus
<1>3. Answer!At(pos) = {final[8]} /\ Answer!At(pos + 1) = {final[9]}
  BY <1>1, AtIs
<1>4. t = <<"status+", "id+">> <=> (final[8] = "status+" /\ final[9] = "id+")
  BY <1>2, <1>3
<1>5. t = <<"status+", "id+">> <=> Answer!Said
  BY <1>1, <1>4 DEF Inside, IsReply, Answer!Said
<1>6. success' = Answer!Said
  BY <1>2, <1>5 DEF Answer!Said
<1>7. lpc' = "done" /\ UNCHANGED <<gaveUp, whole, final>> /\ IsReply(final) /\ Answer!Said' = Answer!Said
  BY <1>1 DEF Answer!IppStatus, Inside, Answer!Said
<1>8. gaveUp' = FALSE
  BY <1>1, <1>7
<1>9. success' = (Answer!Said' /\ ~gaveUp')
  BY ONLY <1>6, <1>7, <1>8 DEF Answer!Said
<1> QED  BY <1>7, <1>9 DEF StatusInv

LEMMA StatusStep == StatusInv /\ [Answer!Next]_statusVars => StatusInv'
<1> SUFFICES ASSUME StatusInv, [Answer!Next]_statusVars, whole' PROVE StatusInv'
  BY DEF StatusInv
<1>1. CASE UNCHANGED statusVars
  BY <1>1 DEF statusVars, StatusInv, Answer!Said
<1>2. CASE Answer!printer_status
  <2>1. whole
    BY <1>2 DEF Answer!printer_status, Answer!ReadFirst, Answer!StatusLine, Answer!Search, Answer!After,
       Answer!FindEnd, Answer!Found, Answer!GetBody, Answer!IppStatus, Answer!readmore, Answer!tread,
       Answer!GiveUp, Answer!Goto
  <2> QED  BY <1>2, <2>1, ReadFirstKeeps, StatusLineKeeps, SearchKeeps, AfterKeeps, FindEndKeeps,
              BodyKeeps, IppKeeps DEF Answer!printer_status
<1> QED  BY <1>1, <1>2 DEF Answer!Next

LEMMA StatusHolds == StatusInv => Answer!AnswerUnderstood
BY DEF StatusInv, Answer!AnswerUnderstood

-----------------------------------------------------------------------------
(* exercises/fmemopen.c: what a memory stream holds a file would hold.     *)

LEMMA MinMax ==
  ASSUME NEW a \in Nat, NEW b \in Nat
  PROVE  /\ Mem!Min({a, b}) = (IF a <= b THEN a ELSE b)
         /\ Mem!Max({a, b}) = (IF a <= b THEN b ELSE a)
<1>1. Mem!Min({a, b}) = (IF a <= b THEN a ELSE b)
  BY DEF Mem!Min
<1>2. Mem!Max({a, b}) = (IF a <= b THEN b ELSE a)
  BY DEF Mem!Max
<1> QED  BY <1>1, <1>2

Content == Chars \cup {0}

MemTypes ==
  /\ rsize \in Nat /\ vsize \in 0 .. rsize /\ curpos \in 0 .. vsize
  /\ msbuf \in [0 .. rsize - 1 -> Content] /\ file \in Seq(Content) /\ Len(file) = vsize
  /\ wrote \in BOOLEAN
  /\ msflags # {} => rsize > 0
  /\ {"READ", "APPEND"} \subseteq msflags => "WRITE" \in msflags

MemInv ==
  /\ MemTypes
  /\ "READ" \in msflags => \A k \in 0 .. vsize - 1 : file[k + 1] = msbuf[k]
  /\ msflags = {"APPEND"} => \A k \in 0 .. vsize - 1 : k < rsize - 1 => file[k + 1] = msbuf[k]
  /\ wrote /\ "READ" \notin msflags => \E k \in 0 .. rsize - 1 : msbuf[k] = 0

\* The other programs leave the stream unopened.
Unopened ==
  /\ msflags = {} /\ mybuf = FALSE /\ msbuf = <<>> /\ rsize = 0 /\ vsize = 0 /\ curpos = 0
  /\ ops = 0 /\ wrote = FALSE /\ file = <<>>

LEMMA UnopenedInit == Unopened => MemInv
<1> SUFFICES ASSUME Unopened PROVE MemInv
  OBVIOUS
<1>1. msbuf \in [0 .. rsize - 1 -> Content] /\ file \in Seq(Content) /\ Len(file) = 0
  BY DEF Unopened
<1>2. /\ rsize = 0 /\ vsize = 0 /\ curpos = 0 /\ 0 \in Nat /\ 0 \in 0 .. 0 /\ wrote = FALSE
      /\ "READ" \notin msflags /\ msflags = {} /\ {} # {"APPEND"}
  BY DEF Unopened
<1> QED  BY ONLY <1>1, <1>2 DEF MemInv, MemTypes

LEMMA FindEnd ==
  ASSUME rsize \in Nat, DOMAIN msbuf = 0 .. rsize - 1
  PROVE  Mem!find_end(msbuf) \in 0 .. rsize
<1> DEFINE S == {k \in DOMAIN msbuf : msbuf[k] = 0} \cup {rsize}
<1>1. S \in SUBSET Nat /\ rsize \in S
  OBVIOUS
<1>2. Mem!find_end(msbuf) = CHOOSE m \in S : \A n \in S : m <= n
  BY DEF Mem!find_end, Mem!Min
<1> HIDE DEF S
<1>3. \E m \in S : \A n \in S : m <= n
  BY <1>1, LeastNat
<1>4. Mem!find_end(msbuf) \in S /\ Mem!find_end(msbuf) <= rsize
  BY <1>1, <1>2, <1>3
<1>5. Mem!find_end(msbuf) \in Nat
  BY <1>1, <1>4
<1> QED  BY ONLY <1>4, <1>5, rsize \in Nat

LEMMA StreamInit == Mem!Init => MemInv
<1> SUFFICES ASSUME Mem!Init PROVE MemInv
  OBVIOUS
<1> USE MemAssumption
<1>1. /\ rsize \in Nat /\ rsize > 0 /\ msbuf \in [0 .. rsize - 1 -> Content]
      /\ curpos = IF "APPEND" \in msflags /\ ~mybuf THEN Mem!find_end(msbuf) ELSE 0
      /\ vsize = IF "APPEND" \in msflags THEN curpos ELSE IF "TRUNCATE" \in msflags THEN 0 ELSE rsize
      /\ wrote = FALSE /\ file = Mem!Bytes(msbuf, vsize)
  BY DEF Mem!Init, Mem!fmemopen, Content
<1>2. curpos \in 0 .. rsize /\ vsize \in 0 .. rsize /\ curpos <= vsize
  BY <1>1, FindEnd
<1>3. {"READ", "APPEND"} \subseteq msflags => "WRITE" \in msflags
  BY DEF Mem!Init, Mem!fmemopen, Mem!type_to_flags, Mem!Types
<1>4. file = [k \in 1 .. vsize |-> msbuf[k - 1]]
  BY <1>1 DEF Mem!Bytes
<1>5. \A k \in 1 .. vsize : msbuf[k - 1] \in Content
  BY <1>1, <1>2
<1>6. file \in Seq(Content) /\ Len(file) = vsize
  BY <1>2, <1>4, <1>5
<1>7. \A k \in 0 .. vsize - 1 : file[k + 1] = msbuf[k]
  BY <1>1, <1>2, <1>4
<1> QED  BY <1>1, <1>2, <1>3, <1>6, <1>7 DEF MemInv, MemTypes

LEMMA ReadKeeps == ASSUME MemInv, NEW len \in Nat, Mem!mstream_read(len) PROVE MemInv'
<1>1. UNCHANGED <<msflags, rsize, msbuf, vsize, wrote, file>>
      /\ curpos' = IF curpos >= vsize THEN curpos ELSE curpos + Mem!Min({len, vsize - curpos})
  BY DEF Mem!mstream_read, Mem!Call
<1>2. curpos' \in 0 .. vsize
  <2>1. CASE curpos >= vsize
    BY <1>1, <2>1 DEF MemInv, MemTypes
  <2>2. CASE ~(curpos >= vsize)
    <3>1. vsize - curpos \in Nat
      BY <2>2 DEF MemInv, MemTypes
    <3>2. Mem!Min({len, vsize - curpos}) = IF len <= vsize - curpos THEN len ELSE vsize - curpos
      BY <3>1, MinMax
    <3> QED  BY <1>1, <2>2, <3>1, <3>2 DEF MemInv, MemTypes
  <2> QED  BY <2>1, <2>2
<1> QED  BY <1>1, <1>2 DEF MemInv, MemTypes

LEMMA SeekKeeps ==
  ASSUME MemInv, NEW p \in Int, NEW whence \in {"SET", "END", "CUR"}, Mem!mstream_seek(p, whence)
  PROVE  MemInv'
<1>1. UNCHANGED <<msflags, rsize, msbuf, vsize, wrote, file>>
  BY DEF Mem!mstream_seek, Mem!Call
<1>2. PICK o \in Int : curpos' = IF o < 0 \/ o > vsize THEN curpos ELSE o
  <2>1. p + (CASE whence = "SET" -> 0 [] whence = "END" -> vsize [] whence = "CUR" -> curpos) \in Int
    BY DEF MemInv, MemTypes
  <2> QED  BY <2>1 DEF Mem!mstream_seek
<1>3. curpos' \in 0 .. vsize
  BY <1>2 DEF MemInv, MemTypes
<1> QED  BY <1>1, <1>3 DEF MemInv, MemTypes

LEMMA Indices ==
  ASSUME NEW r \in Nat, NEW v \in 0 .. r
  PROVE  \A k \in 0 .. v - 1 : k \in Int /\ k + 1 \in 1 .. v /\ k \in 0 .. r - 1
OBVIOUS

LEMMA WriteKeeps ==
  ASSUME MemInv, NEW s \in Seq(Chars), Mem!mstream_write(s)
  PROVE  MemInv'
<1> DEFINE from == Mem!WriteAt
           nw == Mem!Min({Len(s), rsize - from})
           to == from + nw
           nulls == Mem!Terminator(to, to > vsize)
<1>0. /\ rsize \in Nat /\ vsize \in 0 .. rsize /\ curpos \in 0 .. vsize /\ Len(file) = vsize
      /\ msbuf \in [0 .. rsize - 1 -> Content] /\ file \in Seq(Content)
  BY DEF MemInv, MemTypes
<1>1. from \in 0 .. vsize /\ nw \in Nat /\ nw <= Len(s) /\ to \in 0 .. rsize /\ to >= from /\ to - from = nw
  <2>1. from \in 0 .. vsize /\ rsize - from \in Nat /\ Len(s) \in Nat
    BY <1>0 DEF Mem!WriteAt
  <2>2. nw = IF Len(s) <= rsize - from THEN Len(s) ELSE rsize - from
    BY <2>1, MinMax
  <2> QED  BY <1>0, <2>1, <2>2
<1>2. /\ {"APPEND", "WRITE"} \cap msflags # {} /\ UNCHANGED <<msflags, rsize>> /\ wrote' = TRUE
      /\ msbuf' = [k \in DOMAIN msbuf \cup (from .. to - 1) \cup nulls |->
                    IF k \in nulls THEN 0
                    ELSE IF from <= k /\ k < to THEN s[k - from + 1] ELSE msbuf[k]]
      /\ curpos' = to /\ vsize' = Mem!Max({vsize, to})
  BY DEF Mem!mstream_write, Mem!Call
<1>3. file' = LET at == IF "APPEND" \in msflags THEN Len(file) ELSE curpos IN
              [k \in 1 .. Mem!Max({Len(file), at + nw}) |->
                 IF k > at /\ k <= at + nw THEN s[k - at] ELSE file[k]]
  BY DEF Mem!mstream_write
<1>4. (IF "APPEND" \in msflags THEN Len(file) ELSE curpos) = from
  BY <1>0 DEF Mem!WriteAt
<1>5. file' = [k \in 1 .. Mem!Max({Len(file), to}) |-> IF k > from /\ k <= to THEN s[k - from] ELSE file[k]]
  BY <1>3, <1>4
<1>6. nulls = (IF to > vsize /\ {"READ", "WRITE"} \subseteq msflags /\ to < rsize THEN {to} ELSE {})
              \cup (IF "READ" \in msflags THEN {} ELSE {IF to < rsize THEN to ELSE rsize - 1})
  BY DEF Mem!Terminator
<1>20. "APPEND" \in msflags => from = vsize
  BY DEF Mem!WriteAt
<1> HIDE DEF from, nw, to, nulls
<1>7. vsize' = IF vsize <= to THEN to ELSE vsize
  <2>1. vsize \in Nat /\ to \in Nat
    BY <1>0, <1>1
  <2> QED  BY ONLY <1>2, <2>1, MinMax
<1>8. vsize' \in 0 .. rsize /\ curpos' \in 0 .. vsize'
  BY <1>0, <1>1, <1>2, <1>7
<1>8a. DOMAIN msbuf \cup (from .. to - 1) \cup nulls = 0 .. rsize - 1
  <2>1. rsize > 0
    BY <1>2 DEF MemInv, MemTypes
  <2>2. \A k \in from .. to - 1 : k \in 0 .. rsize - 1
    BY <1>0, <1>1
  <2>3. nulls \subseteq 0 .. rsize - 1
    BY <1>0, <1>1, <1>6, <2>1
  <2>4. DOMAIN msbuf = 0 .. rsize - 1
    BY <1>0
  <2> QED  BY ONLY <2>2, <2>3, <2>4
<1>8b. msbuf' = [k \in 0 .. rsize - 1 |->
                   IF k \in nulls THEN 0
                   ELSE IF from <= k /\ k < to THEN s[k - from + 1] ELSE msbuf[k]]
  BY <1>2, <1>8a
<1>9. \A k \in 0 .. rsize - 1 :
        msbuf'[k] = IF k \in nulls THEN 0 ELSE IF from <= k /\ k < to THEN s[k - from + 1] ELSE msbuf[k]
  BY ONLY <1>8b
<1>10. file' = [k \in 1 .. vsize' |-> IF k > from /\ k <= to THEN s[k - from] ELSE file[k]]
  BY <1>0, <1>2, <1>5
<1>11. \A k \in 1 .. vsize' : file'[k] = IF k > from /\ k <= to THEN s[k - from] ELSE file[k]
  BY <1>10
<1>12. \A k \in 0 .. rsize - 1 : from <= k /\ k < to => s[k - from + 1] \in Content
  <2> SUFFICES ASSUME NEW k \in 0 .. rsize - 1, from <= k, k < to PROVE s[k - from + 1] \in Content
    OBVIOUS
  <2>1. k - from + 1 \in 1 .. Len(s)
    BY <1>0, <1>1
  <2> QED  BY <2>1 DEF Content
<1>13. msbuf' \in [0 .. rsize - 1 -> Content]
  <2>1. \A k \in 0 .. rsize - 1 : msbuf'[k] \in Content
    BY <1>0, <1>9, <1>12 DEF Content
  <2> QED  BY <1>8b, <2>1
<1>14. file' \in Seq(Content) /\ Len(file') = vsize'
  <2>1. ASSUME NEW k \in 1 .. vsize' PROVE file'[k] \in Content
    <3>1. CASE k > from /\ k <= to
      <4>1. k - 1 \in 0 .. rsize - 1 /\ from <= k - 1 /\ k - 1 < to /\ (k - 1) - from + 1 = k - from
        BY <1>0, <1>1, <1>8, <3>1
      <4> QED  BY <1>11, <1>12, <3>1, <4>1
    <3>2. CASE ~(k > from /\ k <= to)
      <4>1. k \in 1 .. vsize
        BY <1>0, <1>1, <1>7, <3>2
      <4> QED  BY <1>0, <1>11, <3>2, <4>1
    <3> QED  BY <3>1, <3>2
  <2> QED  BY <1>8, <1>10, <2>1
<1>15. \A k \in 0 .. vsize' - 1 : k \notin nulls =>
          \/ file'[k + 1] = msbuf'[k]
          \/ k \in 0 .. vsize - 1 /\ file'[k + 1] = file[k + 1] /\ msbuf'[k] = msbuf[k]
  <2> SUFFICES ASSUME NEW k \in 0 .. vsize' - 1, k \notin nulls
               PROVE  \/ file'[k + 1] = msbuf'[k]
                      \/ k \in 0 .. vsize - 1 /\ file'[k + 1] = file[k + 1] /\ msbuf'[k] = msbuf[k]
    OBVIOUS
  <2>0. k \in Int /\ from \in Int /\ to \in Int /\ k + 1 \in 1 .. vsize' /\ k \in 0 .. rsize - 1
    <3>1. rsize \in Nat /\ vsize' \in 0 .. rsize /\ from \in Int /\ to \in Int
      BY <1>0, <1>1, <1>8
    <3> QED  BY <3>1, Indices
  <2>1. (k + 1) - from = k - from + 1 /\ ((k + 1 > from /\ k + 1 <= to) <=> (from <= k /\ k < to))
    BY ONLY <2>0
  <2>2. CASE from <= k /\ k < to
    <3>1. file'[k + 1] = s[k - from + 1]
      BY <1>11, <2>0, <2>1, <2>2
    <3>2. msbuf'[k] = s[k - from + 1]
      BY <1>9, <2>0, <2>2
    <3> QED  BY <3>1, <3>2
  <2>3. CASE ~(from <= k /\ k < to)
    <3>1. k \in 0 .. vsize - 1
      BY <1>0, <1>1, <1>7, <2>3
    <3>2. file'[k + 1] = file[k + 1]
      BY <1>11, <2>0, <2>1, <2>3
    <3>3. msbuf'[k] = msbuf[k]
      BY <1>9, <2>0, <2>3
    <3> QED  BY <2>3, <3>1, <3>2, <3>3
  <2> QED  BY <2>2, <2>3
<1>16. MemTypes'
  BY <1>2, <1>8, <1>13, <1>14 DEF MemInv, MemTypes
<1>17. ASSUME "READ" \in msflags, NEW k \in 0 .. vsize' - 1 PROVE file'[k + 1] = msbuf'[k]
  <2>1. k \notin nulls
    BY <1>0, <1>1, <1>6, <1>7, <1>17
  <2> QED  BY <1>15, <1>17, <2>1 DEF MemInv
<1>18. ASSUME msflags = {"APPEND"}, NEW k \in 0 .. vsize' - 1, k < rsize - 1 PROVE file'[k + 1] = msbuf'[k]
  <2>1. k \notin nulls
    <3>1. nulls = {IF to < rsize THEN to ELSE rsize - 1} /\ vsize' = to
      BY <1>0, <1>1, <1>6, <1>7, <1>18, <1>20
    <3> QED  BY <1>1, <1>18, <3>1
  <2> QED  BY <1>0, <1>15, <1>18, <2>1 DEF MemInv
<1>19. "READ" \notin msflags => \E k \in 0 .. rsize - 1 : msbuf'[k] = 0
  <2> SUFFICES ASSUME "READ" \notin msflags PROVE \E k \in 0 .. rsize - 1 : msbuf'[k] = 0
    OBVIOUS
  <2>1. rsize > 0
    BY <1>2 DEF MemInv, MemTypes
  <2>2. PICK k \in 0 .. rsize - 1 : k \in nulls
    <3>1. (IF to < rsize THEN to ELSE rsize - 1) \in 0 .. rsize - 1
      BY <1>0, <1>1, <2>1
    <3> QED  BY <1>6, <3>1
  <2> QED  BY <1>9, <2>2
<1> QED  BY <1>2, <1>16, <1>17, <1>18, <1>19 DEF MemInv

LEMMA MemStep == MemInv /\ [Mem!Next]_memVars => MemInv'
<1> SUFFICES ASSUME MemInv, [Mem!Next]_memVars PROVE MemInv'
  OBVIOUS
<1>1. CASE UNCHANGED memVars
  BY <1>1 DEF memVars, MemInv, MemTypes
<1>2. ASSUME NEW len \in 1 .. 2, Mem!mstream_read(len) PROVE MemInv'
  BY <1>2, ReadKeeps
<1>3. ASSUME NEW s \in Mem!Texts, Mem!mstream_write(s) PROVE MemInv'
  <2>1. PICK n \in 1 .. 2 : s \in [1 .. n -> Chars]
    BY DEF Mem!Texts
  <2>2. s \in Seq(Chars)
    BY <2>1
  <2> QED  BY <1>3, <2>2, WriteKeeps
<1>4. ASSUME NEW p \in -1 .. 1, NEW whence \in {"SET", "END", "CUR"}, Mem!mstream_seek(p, whence) PROVE MemInv'
  BY <1>4, SeekKeeps
<1> QED  BY <1>1, <1>2, <1>3, <1>4 DEF Mem!Next

LEMMA MemHolds == MemInv => Mem!InBuffer /\ Mem!LikeAFile
<1> SUFFICES ASSUME MemInv PROVE Mem!InBuffer /\ Mem!LikeAFile
  OBVIOUS
<1>1. Mem!InBuffer
  BY DEF MemInv, MemTypes, Mem!InBuffer
<1>2. ASSUME "READ" \in msflags PROVE file = Mem!Bytes(msbuf, vsize)
  <2>1. file = [k \in 1 .. vsize |-> file[k]]
    BY DEF MemInv, MemTypes
  <2>2. \A k \in 1 .. vsize : k - 1 \in 0 .. vsize - 1 /\ (k - 1) + 1 = k
    BY DEF MemInv, MemTypes
  <2>3. \A k \in 1 .. vsize : file[k] = msbuf[k - 1]
    BY <1>2, <2>2 DEF MemInv
  <2> QED  BY <2>1, <2>3 DEF Mem!Bytes
<1>3. DOMAIN msbuf = 0 .. rsize - 1
  BY DEF MemInv, MemTypes
<1> QED  BY <1>1, <1>2, <1>3 DEF MemInv, Mem!LikeAFile

-----------------------------------------------------------------------------
(* filedir/ftw8.c: the lengths of the paths.  A part of the tree is one that *)
(* has the directory of each of its files.                                   *)

PathStep(g, f) == IF f = Root THEN NameLen[f] ELSE g[Parent[f]] + 1 + NameLen[f]
IsPart(S) == S \subseteq Files /\ \A f \in S : f = Root \/ Parent[f] \in S
HasPaths(S) == \E g \in [Files -> Nat] : \A f \in S : g[f] = PathStep(g, f)

\* A part that is not the whole tree can be extended by a file.
LEMMA PartGrows ==
  ASSUME NEW S, IsPart(S), HasPaths(S), S # Files
  PROVE  \E b \in Files \ S : IsPart(S \cup {b}) /\ HasPaths(S \cup {b})
<1>1. PICK b \in Files \ S : b = Root \/ Parent[b] \notin Files \ S
  <2>1. Files \ S # {} /\ Files \ S \in SUBSET Files
    BY DEF IsPart
  <2> QED  BY ONLY <2>1, TreeAssumption
<1>2. b = Root \/ Parent[b] \in S
  BY <1>1, TreeAssumption
<1>3. IsPart(S \cup {b})
  BY <1>1, <1>2 DEF IsPart
<1>4. PICK g \in [Files -> Nat] : \A f \in S : g[f] = PathStep(g, f)
  BY DEF HasPaths
<1> DEFINE h == [g EXCEPT ![b] = PathStep(g, b)]
<1>5. PathStep(g, b) \in Nat
  <2>1. NameLen[b] \in Nat /\ (b # Root => Parent[b] \in Files)
    BY TreeAssumption
  <2> QED  BY <2>1 DEF PathStep
<1>6. h \in [Files -> Nat] /\ h[b] = PathStep(g, b) /\ \A f \in Files : f # b => h[f] = g[f]
  BY <1>5
<1> HIDE DEF h
<1>7. ASSUME NEW f \in S \cup {b} PROVE h[f] = PathStep(h, f)
  <2>1. h[f] = PathStep(g, f)
    BY <1>1, <1>4, <1>6 DEF IsPart
  <2>2. f # Root => Parent[f] \in S /\ h[Parent[f]] = g[Parent[f]]
    BY <1>1, <1>2, <1>6 DEF IsPart
  <2> QED  BY <2>1, <2>2 DEF PathStep
<1> QED  BY <1>3, <1>6, <1>7 DEF HasPaths

\* So the tree has lengths of paths: of the parts that have, one is largest.
LEMMA TreeHasPaths == HasPaths(Files)
<1> DEFINE Left == {n \in Nat : \E S \in SUBSET Files :
                                  IsPart(S) /\ HasPaths(S) /\ n = Cardinality(Files \ S)}
<1>1. \A S \in SUBSET Files : IsFiniteSet(Files \ S) /\ Cardinality(Files \ S) \in Nat
  BY TreeAssumption, FS_Subset, FS_CardinalityType
<1>2. IsPart({}) /\ HasPaths({})
  <2>1. [f \in Files |-> 0] \in [Files -> Nat]
    OBVIOUS
  <2> QED  BY <2>1 DEF IsPart, HasPaths
<1>3. Left \in SUBSET Nat /\ Left # {}
  BY <1>1, <1>2
<1>4. PICK m \in Left : \A n \in Left : m <= n
  <2> HIDE DEF Left
  <2> QED  BY <1>3, LeastNat
<1>5. PICK S \in SUBSET Files : IsPart(S) /\ HasPaths(S) /\ m = Cardinality(Files \ S)
  OBVIOUS
<1>6. SUFFICES ASSUME S # Files PROVE FALSE
  BY <1>5
<1>7. PICK b \in Files \ S : IsPart(S \cup {b}) /\ HasPaths(S \cup {b})
  BY <1>5, <1>6, PartGrows
<1>8. Files \ (S \cup {b}) = (Files \ S) \ {b} /\ S \cup {b} \in SUBSET Files
  OBVIOUS
<1>9. Cardinality(Files \ (S \cup {b})) = m - 1 /\ m \in Nat
  <2>1. IsFiniteSet(Files \ S) /\ m \in Nat /\ m = Cardinality(Files \ S) /\ b \in Files \ S
    BY ONLY <1>1, <1>5, <1>7
  <2>2. Cardinality((Files \ S) \ {b}) = Cardinality(Files \ S) - 1
    BY ONLY <2>1, FS_RemoveElement
  <2> QED  BY ONLY <1>8, <2>1, <2>2
<1>10. m - 1 \in Left
  BY <1>1, <1>7, <1>8, <1>9
<1>11. m <= m - 1
  BY <1>4, <1>10
<1> QED  BY <1>9, <1>11

\* And PathOf is what its definition says.
LEMMA PathOfIs ==
  /\ Walk!PathOf \in [Files -> Nat]
  /\ Walk!PathOf = [f \in Files |-> IF f = Root THEN NameLen[f] ELSE Walk!PathOf[Parent[f]] + 1 + NameLen[f]]
<1> DEFINE G(g) == [f \in Files |-> IF f = Root THEN NameLen[f] ELSE g[Parent[f]] + 1 + NameLen[f]]
           P == CHOOSE g : g = G(g)
<1>1. Walk!PathOf = P
  BY DEF Walk!PathOf
<1>2. PICK w \in [Files -> Nat] : \A f \in Files : w[f] = PathStep(w, f)
  BY TreeHasPaths DEF HasPaths
<1>3. w = G(w)
  BY <1>2 DEF PathStep
<1>4. P = G(P)
  <2> HIDE DEF G
  <2> QED  BY <1>3
<1>5. \A f \in Files : P[f] = PathStep(P, f)
  <2>1. \A f \in Files : G(P)[f] = PathStep(P, f)
    BY DEF PathStep
  <2> QED  BY <1>4, <2>1
<1> HIDE DEF P
<1>6. \A f \in Files : P[f] = w[f]
  <2> DEFINE D == {f \in Files : P[f] # w[f]}
  <2>1. SUFFICES ASSUME D # {} PROVE FALSE
    OBVIOUS
  <2>2. D \in SUBSET Files
    OBVIOUS
  <2>3. PICK f \in D : f = Root \/ Parent[f] \notin D
    <3> HIDE DEF D
    <3> QED  BY ONLY <2>1, <2>2, TreeAssumption
  <2>4. f # Root => P[Parent[f]] = w[Parent[f]]
    BY <2>3, TreeAssumption
  <2> QED  BY <1>2, <1>5, <2>3, <2>4 DEF PathStep
<1>7. P = w
  <2>1. G(P) = G(w)
    <3>1. \A f \in Files \ {Root} : Parent[f] \in Files
      BY TreeAssumption
    <3> QED  BY <1>6, <3>1
  <2> HIDE DEF G
  <2> QED  BY <1>3, <1>4, <2>1
<1> QED
  <2>1. Walk!PathOf = w
    BY <1>1, <1>7
  <2> QED  BY <1>2, <1>3, <2>1

\* What is known of the tree.
LEMMA TreeFacts ==
  /\ IsFiniteSet(Files) /\ Root \in Files /\ "none" \notin Files
  /\ NAME_MAX \in Nat /\ pathmax \in Nat /\ pathmax > NAME_MAX
  /\ NameLen \in [Files -> Nat \ {0}] /\ Kind \in [Files -> {"reg", "dir", "slink"}]
  /\ \A f \in Files \ {Root} : Parent[f] \in Files /\ Kind[Parent[f]] = "dir" /\ NameLen[f] <= NAME_MAX
  /\ Walk!PathOf = [f \in Files |-> IF f = Root THEN NameLen[f] ELSE Walk!PathOf[Parent[f]] + 1 + NameLen[f]]
  /\ Walk!PathOf \in [Files -> Nat]
BY ONLY TreeAssumption, PathOfIs

-----------------------------------------------------------------------------
(* filedir/ftw8.c: what is still to be visited is in the frames of dopath. *)

FrameSet == [dir : Files, n : Nat, todo : SUBSET Files, open : BOOLEAN]
FileKinds == {"reg", "dir", "slink"}

Visited == {f \in Files : visited[f]["F"] + visited[f]["D"] + visited[f]["NS"] # 0}
CountedAs(k) == {f \in Files : Kind[f] = k /\ visited[f]["F"] + visited[f]["D"] # 0}
NotYet == [t \in Walk!FtwTypes |-> 0]
Rightly(f) == [t \in Walk!FtwTypes |-> IF t = (IF Kind[f] = "dir" THEN "D" ELSE "F") THEN 1 ELSE 0]

WalkTypes ==
  /\ exists \subseteq Files /\ readable \subseteq Files /\ changed \subseteq Files
  /\ next \in Files \cup {"none"} /\ stack \in Seq(FrameSet) /\ path \in Nat /\ pathlen \in Nat
  /\ visited \in [Files -> [Walk!FtwTypes -> Nat]] /\ count \in [FileKinds -> Nat]
  /\ Files \ changed \subseteq exists \cap readable

\* The frames: each deeper than the one before, all but the last with an open directory.
Frames ==
  /\ \A k \in 1 .. Len(stack) :
       /\ stack[k].n = Walk!PathOf[stack[k].dir] + 1
       /\ stack[k].todo \subseteq Walk!Children(stack[k].dir)
       /\ k < Len(stack) => stack[k].open
  /\ \A j, k \in 1 .. Len(stack) : j < k => stack[j].n < stack[k].n
  /\ next # "none" => \/ Len(stack) = 0 /\ next = Root
                      \/ Len(stack) > 0 /\ stack[Len(stack)].open /\ next \in Walk!Children(stack[Len(stack)].dir)

Room ==
  /\ path + 1 <= pathlen /\ NAME_MAX + 1 <= pathlen
  /\ \A k \in 1 .. Len(stack) : stack[k].n + NAME_MAX + 1 <= pathlen
  /\ next # "none" => path = Walk!PathOf[next]

\* What is to be visited was not, nor was anything below a file that was not.
Unvisited ==
  /\ \A f \in Files : visited[f]["F"] + visited[f]["D"] + visited[f]["NS"] \in {0, 1}
  /\ next \notin Visited
  /\ \A k \in 1 .. Len(stack) :
       /\ stack[k].dir \in Visited
       /\ \A f \in stack[k].todo : f \notin Visited /\ f # next
       /\ ~stack[k].open => Walk!Children(stack[k].dir) \cap Visited = {}
  /\ \A f \in Visited : f = Root \/ Parent[f] \in Visited

Counted == \A k \in FileKinds : count[k] = Cardinality(CountedAs(k))

\* A file that was left alone, below a directory that was left alone, will be visited.
Awaited(f) ==
  \/ f = next
  \/ \E k \in 1 .. Len(stack) : stack[k].dir = Parent[f] /\ (stack[k].open => f \in stack[k].todo)

Pending ==
  /\ Root \in Visited \/ next = Root
  /\ \A f \in Files \ changed : visited[f] = (IF f \in Visited THEN Rightly(f) ELSE NotYet)
  /\ \A f \in Files \ (changed \cup {Root}) :
       Parent[f] \in Visited \ changed /\ f \notin Visited => Awaited(f)

WalkInv == WalkTypes /\ Frames /\ Room /\ Unvisited /\ Counted /\ Pending

-----------------------------------------------------------------------------
LEMMA PathsGrow ==
  /\ Walk!PathOf[Root] = NameLen[Root]
  /\ \A d \in Files : \A f \in Walk!Children(d) :
       /\ f \in Files \ {Root} /\ Parent[f] = d /\ Kind[d] = "dir"
       /\ Walk!PathOf[f] = Walk!PathOf[d] + 1 + NameLen[f] /\ Walk!PathOf[d] < Walk!PathOf[f]
       /\ NameLen[f] <= NAME_MAX
<1> DEFINE P == Walk!PathOf
<1>1. /\ P = [f \in Files |-> IF f = Root THEN NameLen[f] ELSE P[Parent[f]] + 1 + NameLen[f]]
      /\ P \in [Files -> Nat] /\ NameLen \in [Files -> Nat \ {0}] /\ Root \in Files
      /\ \A f \in Files \ {Root} : Parent[f] \in Files /\ Kind[Parent[f]] = "dir" /\ NameLen[f] <= NAME_MAX
  BY TreeFacts
<1> HIDE DEF P
<1>2. P[Root] = NameLen[Root]
  BY <1>1
<1>3. ASSUME NEW d \in Files, NEW f \in Walk!Children(d)
      PROVE  f \in Files \ {Root} /\ Parent[f] = d
  BY DEF Walk!Children
<1>4. ASSUME NEW d \in Files, NEW f \in Walk!Children(d)
      PROVE  P[f] = P[d] + 1 + NameLen[f] /\ P[d] < P[f]
  <2>1. f \in Files \ {Root} /\ Parent[f] = d
    BY <1>3
  <2>2. P[f] = P[d] + 1 + NameLen[f] /\ P[d] \in Nat /\ NameLen[f] \in Nat
    BY <1>1, <2>1
  <2> QED  BY <2>2
<1> QED  BY <1>1, <1>2, <1>3, <1>4 DEF P

LEMMA SetTopIs ==
  ASSUME stack \in Seq(FrameSet), Len(stack) > 0, NEW fr \in FrameSet, stack' = Walk!SetTop(fr)
  PROVE  /\ stack' \in Seq(FrameSet) /\ Len(stack') = Len(stack) /\ stack'[Len(stack)] = fr
         /\ \A k \in 1 .. Len(stack) : k # Len(stack) => stack'[k] = stack[k]
BY DEF Walk!SetTop

LEMMA PopIs ==
  ASSUME stack \in Seq(FrameSet), Len(stack) > 0, stack' = Walk!Pop
  PROVE  /\ stack' \in Seq(FrameSet) /\ Len(stack') = Len(stack) - 1
         /\ \A k \in 1 .. Len(stack) - 1 : stack'[k] = stack[k]
<1>1. stack' = SubSeq(stack, 1, Len(stack) - 1) /\ Len(stack) \in Nat
  BY DEF Walk!Pop
<1>2. \A k \in 1 .. Len(stack) - 1 : stack[k] \in FrameSet
  BY <1>1
<1>3. stack' \in Seq(FrameSet) /\ Len(stack') = (IF 1 <= Len(stack) - 1 THEN (Len(stack) - 1) - 1 + 1 ELSE 0)
      /\ \A k \in 1 .. (Len(stack) - 1) - 1 + 1 : stack'[k] = stack[1 + k - 1]
  BY <1>1, <1>2, SubSeqProperties
<1>4. Len(stack') = Len(stack) - 1
  <2>1. \A a \in Nat : a > 0 => (IF 1 <= a - 1 THEN (a - 1) - 1 + 1 ELSE 0) = a - 1
    OBVIOUS
  <2> QED  BY <1>1, <1>3, <2>1
<1>5. \A k \in 1 .. Len(stack) - 1 : 1 + k - 1 = k /\ k \in 1 .. (Len(stack) - 1) - 1 + 1
  BY ONLY <1>1
<1> QED  BY <1>3, <1>4, <1>5

LEMMA PushIs ==
  ASSUME stack \in Seq(FrameSet), NEW fr \in FrameSet, stack' = Append(stack, fr)
  PROVE  /\ stack' \in Seq(FrameSet) /\ Len(stack') = Len(stack) + 1 /\ stack'[Len(stack) + 1] = fr
         /\ \A k \in 1 .. Len(stack) : stack'[k] = stack[k]
OBVIOUS

LEMMA WalkInit == Walk!Init => WalkInv
<1> SUFFICES ASSUME Walk!Init PROVE WalkInv
  OBVIOUS
<1> USE DEF Walk!Init
<1>1. Visited = {} /\ \A k \in FileKinds : CountedAs(k) = {}
  BY DEF Visited, CountedAs, Walk!FtwTypes
<1>2. Len(stack) = 0 /\ stack \in Seq(FrameSet) /\ next = Root /\ Root \in Files /\ next # "none"
  BY TreeFacts
<1>3. pathlen \in Nat /\ path \in Nat /\ path + 1 <= pathlen /\ NAME_MAX + 1 <= pathlen
  <2>1. NameLen[Root] \in Nat /\ NameLen[Root] > 0 /\ NAME_MAX \in Nat /\ pathmax \in Nat /\ pathmax > NAME_MAX
    BY TreeFacts
  <2>2. PICK size \in {pathmax, pathmax + 1} :
          pathlen = IF size <= NameLen[Root] THEN 2 * NameLen[Root] ELSE size
    BY DEF Walk!myftw, Walk!path_alloc
  <2> QED  BY <2>1, <2>2
<1>4. WalkTypes
  BY <1>2, <1>3 DEF WalkTypes, Walk!FtwTypes, FileKinds
<1>5. Frames /\ Room
  BY <1>2, <1>3, PathsGrow DEF Frames, Room
<1>6. Unvisited
  BY <1>1, <1>2 DEF Unvisited, Walk!FtwTypes
<1>7. Counted
  BY <1>1, FS_EmptySet DEF Counted, FileKinds
<1>8. Pending
  BY <1>1, <1>2 DEF Pending, NotYet
<1> QED  BY <1>4, <1>5, <1>6, <1>7, <1>8 DEF WalkInv

\* func: the one file's count of the one type.
LEMMA FuncIs ==
  ASSUME WalkTypes, NEW f \in Files, NEW t \in Walk!FtwTypes, NEW md, t = "F" => md \in FileKinds,
         Walk!myfunc(f, t, md)
  PROVE  /\ visited' \in [Files -> [Walk!FtwTypes -> Nat]] /\ count' \in [FileKinds -> Nat]
         /\ \A g \in Files : g # f => visited'[g] = visited[g]
         /\ visited'[f][t] = visited[f][t] + 1
         /\ \A x \in Walk!FtwTypes : x # t => visited'[f][x] = visited[f][x]
         /\ t = "F" => count' = [count EXCEPT ![md] = count[md] + 1]
         /\ t = "D" => count' = [count EXCEPT !["dir"] = count["dir"] + 1]
         /\ t \in {"NS", "DNR"} => count' = count
<1>1. visited' = [visited EXCEPT ![f] = [visited[f] EXCEPT ![t] = visited[f][t] + 1]]
      /\ visited \in [Files -> [Walk!FtwTypes -> Nat]] /\ count \in [FileKinds -> Nat]
  BY DEF Walk!myfunc, WalkTypes
<1>2. visited[f] \in [Walk!FtwTypes -> Nat] /\ visited'[f] = [visited[f] EXCEPT ![t] = visited[f][t] + 1]
  BY <1>1
<1>3. /\ visited'[f] \in [Walk!FtwTypes -> Nat] /\ visited'[f][t] = visited[f][t] + 1
      /\ \A x \in Walk!FtwTypes : x # t => visited'[f][x] = visited[f][x]
  BY <1>2
<1>4. visited' \in [Files -> [Walk!FtwTypes -> Nat]] /\ \A g \in Files : g # f => visited'[g] = visited[g]
  BY <1>1, <1>3
<1>5. /\ t = "F" => count' = [count EXCEPT ![md] = count[md] + 1]
      /\ t = "D" => count' = [count EXCEPT !["dir"] = count["dir"] + 1]
      /\ t \in {"NS", "DNR"} => count' = count
  BY DEF Walk!myfunc, Walk!FtwTypes
<1>6. count' \in [FileKinds -> Nat]
  BY <1>1, <1>5 DEF Walk!FtwTypes, FileKinds
<1> QED  BY <1>3, <1>4, <1>5, <1>6

LEMMA CountedFinite == \A k : IsFiniteSet(CountedAs(k))
BY TreeFacts, FS_Subset DEF CountedAs

\* The first visit of a file: what dopath does for every kind of it.
LEMMA VisitIs ==
  ASSUME WalkInv, next \in Files, NEW t \in {"F", "D", "NS"}, NEW md, Walk!myfunc(next, t, md),
         t = "F" => md = Kind[next] /\ Kind[next] # "dir", t = "D" => Kind[next] = "dir"
  PROVE  /\ visited' \in [Files -> [Walk!FtwTypes -> Nat]] /\ count' \in [FileKinds -> Nat]
         /\ \A g \in Files : g # next => visited'[g] = visited[g]
         /\ Visited' = Visited \cup {next}
         /\ \A f \in Files : visited'[f]["F"] + visited'[f]["D"] + visited'[f]["NS"] \in {0, 1}
         /\ Counted'
         /\ t # "NS" /\ next \notin changed => visited'[next] = Rightly(next)
<1> USE DEF Walk!FtwTypes
<1>0. t \in Walk!FtwTypes /\ (t = "F" => md \in FileKinds) /\ Kind[next] \in FileKinds /\ WalkTypes
  BY TreeFacts DEF FileKinds, WalkInv
<1>1. /\ visited' \in [Files -> [Walk!FtwTypes -> Nat]] /\ count' \in [FileKinds -> Nat]
      /\ \A g \in Files : g # next => visited'[g] = visited[g]
      /\ visited'[next][t] = visited[next][t] + 1
      /\ \A x \in Walk!FtwTypes : x # t => visited'[next][x] = visited[next][x]
      /\ t = "F" => count' = [count EXCEPT ![md] = count[md] + 1]
      /\ t = "D" => count' = [count EXCEPT !["dir"] = count["dir"] + 1]
      /\ t = "NS" => count' = count
  BY <1>0, FuncIs
<1>2. visited[next]["F"] = 0 /\ visited[next]["D"] = 0 /\ visited[next]["NS"] = 0 /\ next \notin Visited
  <2>1. next \notin Visited
    BY DEF WalkInv, Unvisited
  <2>2. visited[next]["F"] \in Nat /\ visited[next]["D"] \in Nat /\ visited[next]["NS"] \in Nat
    BY <1>0 DEF WalkTypes
  <2>3. visited[next]["F"] + visited[next]["D"] + visited[next]["NS"] = 0
    BY <2>1 DEF Visited
  <2> QED  BY <2>1, <2>2, <2>3
<1>3. /\ visited'[next]["F"] = (IF t = "F" THEN 1 ELSE 0) /\ visited'[next]["D"] = (IF t = "D" THEN 1 ELSE 0)
      /\ visited'[next]["NS"] = (IF t = "NS" THEN 1 ELSE 0)
  BY <1>1, <1>2
<1>4. visited'[next]["F"] + visited'[next]["D"] + visited'[next]["NS"] = 1
  BY <1>3
<1>5. Visited' = Visited \cup {next}
  BY <1>1, <1>4 DEF Visited
<1>6. \A f \in Files : visited'[f]["F"] + visited'[f]["D"] + visited'[f]["NS"] \in {0, 1}
  BY <1>1, <1>4 DEF WalkInv, Unvisited
<1>7. Counted'
  <2>1. CASE t = "NS"
    <3>1. \A k : CountedAs(k)' = CountedAs(k)
      BY <1>1, <1>2, <1>3, <2>1 DEF CountedAs
    <3> QED  BY <1>1, <2>1, <3>1 DEF WalkInv, Counted
  <2>2. CASE t # "NS"
    <3>0. PICK q \in FileKinds : q = Kind[next]
      BY <1>0
    <3>1. CountedAs(q)' = CountedAs(q) \cup {next} /\ next \notin CountedAs(q)
      BY <1>1, <1>2, <1>3, <2>2, <3>0 DEF CountedAs
    <3>2. \A k : k # q => CountedAs(k)' = CountedAs(k)
      BY <1>1, <3>0 DEF CountedAs
    <3>3. Cardinality(CountedAs(q)') = Cardinality(CountedAs(q)) + 1
      BY <3>1, CountedFinite, FS_AddElement
    <3>4. count' = [count EXCEPT ![q] = count[q] + 1] /\ count \in [FileKinds -> Nat]
      BY <1>0, <1>1, <2>2, <3>0 DEF WalkTypes
    <3>5. ASSUME NEW k \in FileKinds PROVE count'[k] = Cardinality(CountedAs(k)')
      <4>1. CASE k = q
        BY <3>3, <3>4, <4>1 DEF WalkInv, Counted
      <4>2. CASE k # q
        BY <3>2, <3>4, <4>2 DEF WalkInv, Counted
      <4> QED  BY <4>1, <4>2
    <3> QED  BY <3>5 DEF Counted
  <2> QED  BY <2>1, <2>2
<1>8. ASSUME t # "NS", next \notin changed PROVE visited'[next] = Rightly(next)
  <2>1. visited[next] = NotYet
    BY <1>2, <1>8 DEF WalkInv, Pending
  <2>2. visited'[next]["DNR"] = 0
    BY <1>1, <2>1 DEF NotYet
  <2>3. t = (IF Kind[next] = "dir" THEN "D" ELSE "F")
    BY <1>8
  <2>4. \A x \in Walk!FtwTypes : visited'[next][x] = IF x = t THEN 1 ELSE 0
    BY <1>3, <1>8, <2>2
  <2>5. visited'[next] = [x \in Walk!FtwTypes |-> visited'[next][x]]
    BY <1>1
  <2> QED  BY <2>3, <2>4, <2>5 DEF Rightly
<1> QED  BY <1>1, <1>5, <1>6, <1>7, <1>8

\* Nothing is below a file that was not visited, or is no directory.
LEMMA ChildrenLater ==
  ASSUME WalkInv, NEW f \in Files
  PROVE  /\ f \notin Visited => Walk!Children(f) \cap Visited = {}
         /\ f \notin Walk!Children(f)
         /\ Kind[f] # "dir" => Walk!Children(f) = {}
<1>1. \A g \in Walk!Children(f) : g \in Files \ {Root} /\ Parent[g] = f /\ Kind[f] = "dir"
                                    /\ Walk!PathOf[f] < Walk!PathOf[g]
  BY PathsGrow
<1>2. Walk!PathOf[f] \in Nat
  BY TreeFacts
<1>3. f \notin Walk!Children(f)
  BY <1>1, <1>2
<1> QED  BY <1>1, <1>3 DEF WalkInv, Unvisited

\* While a file is to be visited the directory it is in is the last frame's.
LEMMA NextIs ==
  ASSUME WalkInv, next \in Files
  PROVE  /\ next # "none" /\ next \notin Visited
         /\ \/ next = Root
            \/ next # Root /\ Parent[next] \in Visited
         /\ \A k \in 1 .. Len(stack) : stack[k].open /\ stack[k].n < Walk!PathOf[next] + 1
<1>1. next # "none" /\ next \notin Visited
  BY TreeFacts DEF WalkInv, Unvisited
<1>2. CASE Len(stack) = 0
  BY <1>1, <1>2 DEF WalkInv, Frames
<1>3. CASE Len(stack) # 0
  <2>0. Len(stack) \in Nat /\ Len(stack) \in 1 .. Len(stack) /\ \A k \in 1 .. Len(stack) : stack[k] \in FrameSet
    BY <1>3 DEF WalkInv, WalkTypes
  <2> DEFINE top == Len(stack)
             d == stack[top].dir
  <2>1. stack[top].open /\ next \in Walk!Children(d) /\ stack[top].n = Walk!PathOf[d] + 1 /\ d \in Visited
    BY <1>1, <1>3, <2>0 DEF WalkInv, Frames, Unvisited
  <2>2. d \in Files /\ Walk!PathOf[d] \in Nat /\ Walk!PathOf[next] \in Nat
    BY TreeFacts, <2>1 DEF Visited
  <2>3. next # Root /\ Parent[next] = d /\ Walk!PathOf[d] < Walk!PathOf[next]
    BY <2>1, <2>2, PathsGrow
  <2>4. stack[top].n < Walk!PathOf[next] + 1
    BY <2>1, <2>2, <2>3
  <2>5. ASSUME NEW k \in 1 .. top PROVE stack[k].open /\ stack[k].n < Walk!PathOf[next] + 1
    <3>1. CASE k = top
      BY <2>1, <2>4, <3>1
    <3>2. CASE k # top
      <4>1. stack[k].open /\ stack[k].n < stack[top].n /\ stack[k].n \in Nat /\ stack[top].n \in Nat
        BY <2>0, <3>2 DEF WalkInv, Frames, FrameSet
      <4> QED  BY <2>2, <2>4, <4>1
    <3> QED  BY <3>1, <3>2
  <2> QED  BY <1>1, <2>1, <2>3, <2>5
<1> QED  BY <1>2, <1>3

\* dopath for a file that it does not go into.
LEMMA LeafKeeps ==
  ASSUME WalkInv, next \in Files, NEW t \in {"F", "NS"}, NEW md, Walk!myfunc(next, t, md),
         t = "F" => md = Kind[next] /\ Kind[next] # "dir", t = "NS" => next \notin exists,
         next' = "none", UNCHANGED <<stack, path, pathlen, exists, readable, changed>>
  PROVE  WalkInv'
<1>0. /\ next # "none" /\ next \notin Visited /\ (next = Root \/ (next # Root /\ Parent[next] \in Visited))
      /\ \A k \in 1 .. Len(stack) : stack[k].open
  BY NextIs
<1>1. /\ visited' \in [Files -> [Walk!FtwTypes -> Nat]] /\ count' \in [FileKinds -> Nat]
      /\ \A g \in Files : g # next => visited'[g] = visited[g]
      /\ Visited' = Visited \cup {next}
      /\ \A f \in Files : visited'[f]["F"] + visited'[f]["D"] + visited'[f]["NS"] \in {0, 1}
      /\ Counted'
      /\ t # "NS" /\ next \notin changed => visited'[next] = Rightly(next)
  BY VisitIs
<1>2. WalkTypes'
  BY <1>1 DEF WalkInv, WalkTypes
<1>3. Frames' /\ Room'
  BY <1>0 DEF WalkInv, Frames, Room
<1>4. "none" \notin Files /\ Visited \subseteq Files /\ \A k \in 1 .. Len(stack) : stack[k] \in FrameSet
  BY TreeFacts DEF Visited, WalkInv, WalkTypes
<1>5. Unvisited'
  <2>1. \A k \in 1 .. Len(stack) : stack[k].dir \in Visited' /\ stack[k].open
                                     /\ \A f \in stack[k].todo : f \notin Visited' /\ f # "none"
    BY <1>0, <1>1, <1>4 DEF WalkInv, Unvisited, FrameSet
  <2>2. \A f \in Visited' : f = Root \/ Parent[f] \in Visited'
    BY <1>0, <1>1 DEF WalkInv, Unvisited
  <2> QED  BY <1>1, <1>4, <2>1, <2>2 DEF Unvisited
<1>6. Pending'
  <2>1. Root \in Visited'
    BY <1>1 DEF WalkInv, Pending
  <2>2. t = "NS" => next \in changed
    BY DEF WalkInv, WalkTypes
  <2>3. \A f \in Files \ changed : visited'[f] = (IF f \in Visited' THEN Rightly(f) ELSE NotYet)
    BY <1>1, <2>2 DEF WalkInv, Pending
  <2>4. ASSUME NEW f \in Files \ (changed \cup {Root}), Parent[f] \in Visited' \ changed, f \notin Visited'
        PROVE  Awaited(f)'
    <3>1. Parent[f] # next
      <4>1. Kind[Parent[f]] = "dir"
        BY TreeFacts
      <4> QED  BY <2>2, <2>4, <4>1
    <3>2. Awaited(f) /\ f # next
      BY <1>1, <2>4, <3>1 DEF WalkInv, Pending
    <3> QED  BY <3>2 DEF Awaited
  <2> QED  BY <2>1, <2>3, <2>4 DEF Pending, Rightly, NotYet
<1> QED  BY <1>1, <1>2, <1>3, <1>5, <1>6 DEF WalkInv

\* dopath for a directory: a frame for it, whose directory is to be opened.
LEMMA DirKeeps ==
  ASSUME WalkInv, next \in Files, Kind[next] = "dir", Walk!myfunc(next, "D", ""),
         pathlen' \in Nat, pathlen <= pathlen', path + 1 + NAME_MAX + 1 <= pathlen',
         path' \in Nat, path' + 1 <= pathlen', next' = "none",
         NEW fr \in FrameSet, fr.dir = next, fr.n = path + 1, fr.todo = {}, ~fr.open,
         stack' \in Seq(FrameSet), Len(stack') = Len(stack) + 1, stack'[Len(stack) + 1] = fr,
         \A k \in 1 .. Len(stack) : stack'[k] = stack[k],
         UNCHANGED <<exists, readable, changed>>
  PROVE  WalkInv'
<1>0. /\ next # "none" /\ next \notin Visited /\ (next = Root \/ (next # Root /\ Parent[next] \in Visited))
      /\ \A k \in 1 .. Len(stack) : stack[k].open /\ stack[k].n < Walk!PathOf[next] + 1
  BY NextIs
<1>1. /\ visited' \in [Files -> [Walk!FtwTypes -> Nat]] /\ count' \in [FileKinds -> Nat]
      /\ \A g \in Files : g # next => visited'[g] = visited[g]
      /\ Visited' = Visited \cup {next}
      /\ \A f \in Files : visited'[f]["F"] + visited'[f]["D"] + visited'[f]["NS"] \in {0, 1}
      /\ Counted'
      /\ next \notin changed => visited'[next] = Rightly(next)
  <2>1. "D" \in {"F", "D", "NS"} /\ "D" # "F" /\ "D" # "NS"
    OBVIOUS
  <2> QED  BY <2>1, VisitIs
<1>2. /\ path \in Nat /\ pathlen \in Nat /\ NAME_MAX \in Nat /\ path + 1 <= pathlen /\ NAME_MAX + 1 <= pathlen
      /\ path = Walk!PathOf[next] /\ stack \in Seq(FrameSet) /\ Len(stack) \in Nat
  <2>1. WalkTypes /\ Room
    BY DEF WalkInv
  <2>2. path \in Nat /\ pathlen \in Nat /\ stack \in Seq(FrameSet)
    BY ONLY <2>1 DEF WalkTypes
  <2>3. path + 1 <= pathlen /\ NAME_MAX + 1 <= pathlen /\ path = Walk!PathOf[next]
    BY ONLY <1>0, <2>1 DEF Room
  <2>4. NAME_MAX \in Nat
    BY TreeFacts
  <2> QED  BY ONLY <2>2, <2>3, <2>4
<1>4. /\ stack' \in Seq(FrameSet) /\ Len(stack') = Len(stack) + 1 /\ stack'[Len(stack) + 1] = fr
      /\ \A k \in 1 .. Len(stack) : stack'[k] = stack[k]
  OBVIOUS
<1>5. fr.dir = next /\ fr.n = Walk!PathOf[next] + 1 /\ fr.todo = {} /\ ~fr.open /\ fr.n = path + 1
  BY <1>2
<1>6. \A k \in 1 .. Len(stack') : \/ k \in 1 .. Len(stack) /\ stack'[k] = stack[k]
                                  \/ k = Len(stack) + 1 /\ stack'[k] = fr
  BY ONLY <1>2, <1>4
<1>3. pathlen \in Nat /\ NAME_MAX \in Nat /\ NAME_MAX + 1 <= pathlen /\ pathlen <= pathlen' /\ pathlen' \in Nat
  BY ONLY <1>2, pathlen' \in Nat, pathlen <= pathlen'
<1>7. pathlen' \in Nat /\ pathlen <= pathlen' /\ path + 1 + NAME_MAX + 1 <= pathlen'
      /\ path' \in Nat /\ path' + 1 <= pathlen' /\ next' = "none"
  OBVIOUS
<1>8. WalkTypes'
  BY <1>1, <1>2, <1>4, <1>7 DEF WalkInv, WalkTypes
<1>9. Frames'
  <2>1. ASSUME NEW k \in 1 .. Len(stack')
        PROVE  /\ stack'[k].n = Walk!PathOf[stack'[k].dir] + 1
               /\ stack'[k].todo \subseteq Walk!Children(stack'[k].dir)
               /\ k < Len(stack') => stack'[k].open
    <3>1. CASE k \in 1 .. Len(stack)
      <4>1. stack'[k] = stack[k] /\ stack[k].open
        BY ONLY <1>0, <1>4, <3>1
      <4> QED  BY <3>1, <4>1 DEF WalkInv, Frames
    <3>2. CASE k = Len(stack) + 1
      BY ONLY <1>2, <1>4, <1>5, <3>2
    <3> QED  BY ONLY <1>6, <2>1, <3>1, <3>2
  <2>2. ASSUME NEW j \in 1 .. Len(stack'), NEW k \in 1 .. Len(stack'), j < k PROVE stack'[j].n < stack'[k].n
    <3>1. j \in 1 .. Len(stack) /\ stack'[j] = stack[j]
      BY ONLY <1>2, <1>4, <2>2
    <3>2. CASE k \in 1 .. Len(stack)
      <4>1. stack[j].n < stack[k].n /\ stack'[k] = stack[k]
        BY <1>4, <2>2, <3>1, <3>2 DEF WalkInv, Frames
      <4> QED  BY ONLY <3>1, <4>1
    <3>3. CASE k = Len(stack) + 1
      BY ONLY <1>0, <1>4, <1>5, <3>1, <3>3
    <3> QED  BY ONLY <1>6, <2>2, <3>2, <3>3
  <2> QED  BY <2>1, <2>2 DEF Frames
<1>10. Room'
  <2>1. \A k \in 1 .. Len(stack') : stack'[k].n + NAME_MAX + 1 <= pathlen'
    <3>1. ASSUME NEW k \in 1 .. Len(stack) PROVE stack[k].n + NAME_MAX + 1 <= pathlen'
      <4>1. stack[k].n + NAME_MAX + 1 <= pathlen /\ stack[k].n \in Nat
        <5>1. stack[k] \in FrameSet
          BY ONLY <1>2, <3>1
        <5>2. Room
          BY DEF WalkInv
        <5> QED  BY ONLY <5>1, <5>2, <3>1 DEF Room, FrameSet
      <4> QED  BY ONLY <1>3, <4>1
    <3> QED  BY ONLY <1>5, <1>6, <1>7, <3>1
  <2>2. path' + 1 <= pathlen' /\ NAME_MAX + 1 <= pathlen'
    <3>1. NAME_MAX + 1 <= pathlen'
      BY ONLY <1>3
    <3> QED  BY ONLY <1>7, <3>1
  <2> QED  BY ONLY <1>7, <2>1, <2>2, TreeFacts DEF Room
<1>11. "none" \notin Files /\ Visited \subseteq Files /\ \A k \in 1 .. Len(stack) : stack[k] \in FrameSet
  <2>1. \A k \in 1 .. Len(stack) : stack[k] \in FrameSet
    BY ONLY <1>2
  <2>2. "none" \notin Files /\ Visited \subseteq Files
    BY ONLY TreeFacts DEF Visited
  <2> QED  BY ONLY <2>1, <2>2
<1>12. Unvisited'
  <2>1. Walk!Children(next) \cap Visited' = {}
    BY <1>0, <1>1, ChildrenLater
  <2>2. \A k \in 1 .. Len(stack) : stack[k].dir \in Visited' /\ stack[k].open
                                     /\ \A f \in stack[k].todo : f \notin Visited' /\ f # "none"
    <3>1. Unvisited
      BY DEF WalkInv
    <3> QED  BY ONLY <1>0, <1>1, <1>11, <3>1 DEF Unvisited, FrameSet
  <2>3. \A k \in 1 .. Len(stack') :
          /\ stack'[k].dir \in Visited'
          /\ \A f \in stack'[k].todo : f \notin Visited' /\ f # next'
          /\ ~stack'[k].open => Walk!Children(stack'[k].dir) \cap Visited' = {}
    BY ONLY <1>1, <1>5, <1>6, <1>7, <1>11, <2>1, <2>2
  <2>4. \A f \in Visited' : f = Root \/ Parent[f] \in Visited'
    BY <1>0, <1>1 DEF WalkInv, Unvisited
  <2> QED  BY <1>1, <1>11, <2>3, <2>4 DEF Unvisited
<1>13. Pending'
  <2>1. Root \in Visited'
    BY <1>1 DEF WalkInv, Pending
  <2>2. \A f \in Files \ changed : visited'[f] = (IF f \in Visited' THEN Rightly(f) ELSE NotYet)
    BY <1>1 DEF WalkInv, Pending
  <2>3. ASSUME NEW f \in Files \ (changed \cup {Root}), Parent[f] \in Visited' \ changed, f \notin Visited'
        PROVE  Awaited(f)'
    <3>1. CASE Parent[f] = next
      <4>1. Len(stack) + 1 \in 1 .. Len(stack') /\ stack'[Len(stack) + 1].dir = Parent[f]
            /\ ~stack'[Len(stack) + 1].open
        BY ONLY <1>2, <1>4, <1>5, <3>1
      <4> QED  BY ONLY <4>1 DEF Awaited
    <3>2. CASE Parent[f] # next
      <4>1. Awaited(f) /\ f # next
        BY <1>1, <2>3, <3>2 DEF WalkInv, Pending
      <4>2. PICK k \in 1 .. Len(stack) : stack[k].dir = Parent[f] /\ (stack[k].open => f \in stack[k].todo)
        BY <4>1 DEF Awaited
      <4>3. k \in 1 .. Len(stack') /\ stack'[k] = stack[k]
        BY ONLY <1>2, <1>4
      <4> QED  BY ONLY <4>2, <4>3 DEF Awaited
    <3> QED  BY <3>1, <3>2
  <2> QED  BY <2>1, <2>2, <2>3 DEF Pending, Rightly, NotYet
<1> QED  BY <1>1, <1>8, <1>9, <1>10, <1>12, <1>13 DEF WalkInv

LEMMA DopathKeeps == ASSUME WalkInv, Walk!dopath PROVE WalkInv'
<1>0. next \in Files /\ next' = "none" /\ UNCHANGED <<exists, readable, changed>>
  BY DEF Walk!dopath, Walk!None, WalkInv, WalkTypes
<1>1. CASE next \notin exists
  BY <1>0, <1>1, LeafKeeps DEF Walk!dopath
<1>2. CASE next \in exists /\ Kind[next] # "dir"
  BY <1>0, <1>2, LeafKeeps DEF Walk!dopath, Walk!Lstat
<1>3. CASE next \in exists /\ Kind[next] = "dir"
  <2>1. /\ Walk!myfunc(next, "D", "") /\ pathlen' = Walk!Expand /\ path' = path + 1
        /\ stack' = Append(stack, [dir |-> next, n |-> path + 1, todo |-> {}, open |-> FALSE])
    BY <1>0, <1>3 DEF Walk!dopath, Walk!Lstat
  <2>2. path \in Nat /\ pathlen \in Nat /\ NAME_MAX \in Nat /\ NAME_MAX + 1 <= pathlen /\ path + 1 <= pathlen
    BY TreeFacts DEF WalkInv, WalkTypes, Room
  <2>3. pathlen' \in Nat /\ pathlen <= pathlen' /\ path + NAME_MAX + 2 <= pathlen'
    <3>1. \A a, b, c \in Nat : (IF b + c + 2 > a THEN 2 * a ELSE a) \in Nat
      OBVIOUS
    <3>2. \A a, b, c \in Nat : b + 1 <= a /\ c + 1 <= a =>
            a <= (IF b + c + 2 > a THEN 2 * a ELSE a) /\ b + c + 2 <= (IF b + c + 2 > a THEN 2 * a ELSE a)
      OBVIOUS
    <3>3. pathlen' = (IF path + NAME_MAX + 2 > pathlen THEN 2 * pathlen ELSE pathlen)
      BY ONLY <2>1 DEF Walk!Expand
    <3> QED  BY ONLY <2>2, <3>1, <3>2, <3>3
  <2>4. PICK fr : fr = [dir |-> next, n |-> path + 1, todo |-> {}, open |-> FALSE]
    OBVIOUS
  <2>5. fr.dir = next /\ fr.n = path + 1 /\ fr.todo = {} /\ ~fr.open
    BY ONLY <2>4
  <2>6. fr \in FrameSet
    <3>1. path + 1 \in Nat /\ {} \in SUBSET Files
      BY <2>2
    <3> QED  BY ONLY <1>0, <2>4, <3>1 DEF FrameSet
  <2>7. stack' = Append(stack, fr)
    BY ONLY <2>1, <2>4
  <2>8. /\ stack' \in Seq(FrameSet) /\ Len(stack') = Len(stack) + 1 /\ stack'[Len(stack) + 1] = fr
        /\ \A k \in 1 .. Len(stack) : stack'[k] = stack[k]
    <3>1. stack \in Seq(FrameSet)
      BY DEF WalkInv, WalkTypes
    <3> QED  BY ONLY <2>6, <2>7, <3>1, PushIs
  <2>9. path' \in Nat /\ path' + 1 <= pathlen' /\ path + 1 + NAME_MAX + 1 <= pathlen'
    <3>1. \A a, b, c, d \in Nat : a + b + 2 <= c => a + 1 \in Nat /\ a + 1 + 1 <= c /\ a + 1 + b + 1 <= c
      OBVIOUS
    <3> QED  BY ONLY <2>1, <2>2, <2>3, <3>1
  <2> QED
    <3> HIDE DEF WalkInv
    <3> QED  BY ONLY WalkInv, <1>0, <1>3, <2>1, <2>3, <2>5, <2>6, <2>8, <2>9, DirKeeps
<1> QED  BY <1>1, <1>2, <1>3

\* The last call of dopath.
LEMMA TopIs ==
  ASSUME WalkInv, next = "none", stack # <<>>
  PROVE  /\ Len(stack) \in Nat /\ Len(stack) > 0 /\ Len(stack) \in 1 .. Len(stack)
         /\ stack \in Seq(FrameSet) /\ Walk!Top = stack[Len(stack)] /\ Walk!Top \in FrameSet
         /\ Walk!Top.dir \in Visited /\ Walk!Top.dir \in Files /\ Walk!Top.n = Walk!PathOf[Walk!Top.dir] + 1
         /\ \A k \in 1 .. Len(stack) : k # Len(stack) => stack[k].open /\ stack[k].n < Walk!Top.n
         /\ \A k \in 1 .. Len(stack) : stack[k] \in FrameSet
         /\ next \notin Files /\ next \notin Visited /\ Root \in Visited
<1>1. stack \in Seq(FrameSet)
  BY DEF WalkInv, WalkTypes
<1>2. Len(stack) \in Nat /\ Len(stack) > 0 /\ Len(stack) \in 1 .. Len(stack)
      /\ \A k \in 1 .. Len(stack) : stack[k] \in FrameSet
  BY ONLY <1>1, stack # <<>>
<1>3. Walk!Top = stack[Len(stack)] /\ Walk!Top \in FrameSet
  BY <1>2 DEF Walk!Top
<1>4. Walk!Top.dir \in Files
  BY ONLY <1>3 DEF FrameSet
<1>5. Walk!Top.dir \in Visited
  BY <1>2, <1>3 DEF WalkInv, Unvisited
<1>6. Walk!Top.n = Walk!PathOf[Walk!Top.dir] + 1
  BY <1>2, <1>3 DEF WalkInv, Frames
<1>7. ASSUME NEW k \in 1 .. Len(stack), k # Len(stack) PROVE stack[k].open /\ stack[k].n < Walk!Top.n
  <2>1. k < Len(stack)
    BY ONLY <1>2, <1>7
  <2> QED  BY <1>2, <1>3, <2>1 DEF WalkInv, Frames
<1>8. next \notin Files /\ next \notin Visited /\ Root \in Visited
  BY TreeFacts DEF Visited, WalkInv, Pending
<1> QED  BY <1>1, <1>2, <1>3, <1>4, <1>5, <1>6, <1>7, <1>8

\* dopath goes on: the directory of the last call was opened.
LEMMA OpenedKeeps ==
  ASSUME WalkInv, next = "none", stack # <<>>, ~Walk!Top.open,
         NEW fr \in FrameSet, fr.dir = Walk!Top.dir, fr.n = Walk!Top.n, fr.open,
         fr.todo = Walk!Children(Walk!Top.dir) \cap exists, stack' = Walk!SetTop(fr),
         UNCHANGED <<exists, readable, next, path, pathlen, visited, count, changed>>
  PROVE  WalkInv'
<1>1. /\ Len(stack) \in Nat /\ Len(stack) > 0 /\ Len(stack) \in 1 .. Len(stack)
      /\ stack \in Seq(FrameSet) /\ Walk!Top = stack[Len(stack)] /\ Walk!Top \in FrameSet
      /\ Walk!Top.dir \in Visited /\ Walk!Top.dir \in Files /\ Walk!Top.n = Walk!PathOf[Walk!Top.dir] + 1
      /\ \A k \in 1 .. Len(stack) : k # Len(stack) => stack[k].open /\ stack[k].n < Walk!Top.n
      /\ next \notin Files /\ next \notin Visited /\ Root \in Visited
  BY TopIs
<1>2. /\ stack' \in Seq(FrameSet) /\ Len(stack') = Len(stack) /\ stack'[Len(stack)] = fr
      /\ \A k \in 1 .. Len(stack) : k # Len(stack) => stack'[k] = stack[k]
  BY ONLY <1>1, fr \in FrameSet, stack' = Walk!SetTop(fr), SetTopIs
<1>3. /\ fr.dir = Walk!Top.dir /\ fr.n = Walk!Top.n /\ fr.open /\ fr.todo \subseteq Walk!Children(fr.dir)
      /\ stack[Len(stack)].dir = fr.dir /\ stack[Len(stack)].n = fr.n /\ ~stack[Len(stack)].open
  BY <1>1
<1>4. \A k \in 1 .. Len(stack) : stack'[k].dir = stack[k].dir /\ stack'[k].n = stack[k].n /\ stack'[k].open
  BY ONLY <1>1, <1>2, <1>3
<1>5. WalkTypes'
  BY <1>2 DEF WalkInv, WalkTypes
<1>6. Frames'
  <2>1. Frames
    BY DEF WalkInv
  <2>2. \A k \in 1 .. Len(stack) : stack'[k].todo \subseteq Walk!Children(stack'[k].dir)
    BY ONLY <1>1, <1>2, <1>3, <2>1 DEF Frames
  <2> QED  BY ONLY next' = next, next = "none", <1>1, <1>2, <1>4, <2>1, <2>2 DEF Frames
<1>7. Room'
  <2>1. Room
    BY DEF WalkInv
  <2> QED  BY ONLY <2>1, <1>1, <1>2, <1>4, next' = next, next = "none", path' = path, pathlen' = pathlen DEF Room
<1>8. Visited' = Visited /\ Counted'
  BY DEF Visited, WalkInv, Counted, CountedAs
<1>9. Unvisited'
  <2>1. Unvisited
    BY DEF WalkInv
  <2>2. Walk!Children(Walk!Top.dir) \cap Visited = {} /\ Walk!Children(Walk!Top.dir) \subseteq Files
    BY ONLY <1>1, <1>3, <2>1 DEF Unvisited, Walk!Children
  <2>3. \A k \in 1 .. Len(stack) : \A f \in stack'[k].todo : f \notin Visited /\ f # next
    BY ONLY <1>1, <1>2, <1>3, <2>1, <2>2 DEF Unvisited
  <2>4. \A k \in 1 .. Len(stack') : /\ stack'[k].dir \in Visited'
                                    /\ \A f \in stack'[k].todo : f \notin Visited' /\ f # next'
                                    /\ stack'[k].open
    BY ONLY <1>1, <1>2, <1>4, <1>8, <2>1, <2>3, next' = next DEF Unvisited
  <2> QED  BY ONLY <1>1, <1>8, <2>1, <2>4, next' = next, visited' = visited DEF Unvisited
<1>10. Pending'
  <2>1. Pending /\ WalkTypes
    BY DEF WalkInv
  <2>2. ASSUME NEW f \in Files \ (changed \cup {Root}), Parent[f] \in Visited \ changed, f \notin Visited
        PROVE  Awaited(f)'
    <3>1. Awaited(f) /\ f # next
      BY ONLY <1>1, <2>1, <2>2 DEF Pending
    <3>2. PICK k \in 1 .. Len(stack) : stack[k].dir = Parent[f] /\ (stack[k].open => f \in stack[k].todo)
      BY ONLY <3>1 DEF Awaited
    <3>3. CASE k = Len(stack)
      <4>1. f \in Walk!Children(Walk!Top.dir) /\ f \in exists
        BY ONLY <1>1, <2>1, <2>2, <3>2, <3>3 DEF Walk!Children, WalkTypes
      <4>2. f \in fr.todo
        BY <4>1
      <4> QED  BY ONLY <1>2, <1>3, <3>2, <3>3, <4>2 DEF Awaited
    <3>4. CASE k # Len(stack)
      <4>1. stack'[k] = stack[k]
        BY ONLY <1>2, <3>4
      <4> QED  BY ONLY <1>2, <3>2, <4>1 DEF Awaited
    <3> QED  BY ONLY <3>3, <3>4
  <2> QED  BY ONLY <1>8, <2>1, <2>2, next' = next, visited' = visited, changed' = changed DEF Pending, Rightly, NotYet
<1> QED  BY <1>5, <1>6, <1>7, <1>8, <1>9, <1>10 DEF WalkInv

\* dopath returns: its directory was read to the end, or could not be opened.
LEMMA ReturnedKeeps ==
  ASSUME WalkInv, next = "none", stack # <<>>, stack' = Walk!Pop, path' \in Nat, path' + 1 <= pathlen,
         Walk!Top.dir \in changed \/ (Walk!Top.open /\ Walk!Top.todo = {}),
         visited' \in [Files -> [Walk!FtwTypes -> Nat]], count' = count, Visited' = Visited, Counted',
         \A f \in Files : visited'[f]["F"] + visited'[f]["D"] + visited'[f]["NS"] \in {0, 1},
         \A f \in Files \ changed : visited'[f] = visited[f],
         UNCHANGED <<exists, readable, next, pathlen, changed>>
  PROVE  WalkInv'
<1>1. /\ Len(stack) \in Nat /\ Len(stack) > 0 /\ Len(stack) \in 1 .. Len(stack)
      /\ stack \in Seq(FrameSet) /\ Walk!Top = stack[Len(stack)] /\ Walk!Top \in FrameSet
      /\ \A k \in 1 .. Len(stack) : k # Len(stack) => stack[k].open
      /\ next \notin Files /\ next \notin Visited /\ Root \in Visited
  BY TopIs
<1>2. /\ stack' \in Seq(FrameSet) /\ Len(stack') = Len(stack) - 1
      /\ \A k \in 1 .. Len(stack) - 1 : stack'[k] = stack[k]
  BY ONLY <1>1, stack' = Walk!Pop, PopIs
<1>3. \A k \in 1 .. Len(stack') : k \in 1 .. Len(stack) /\ k # Len(stack) /\ stack'[k] = stack[k] /\ stack[k].open
  BY ONLY <1>1, <1>2
<1>4. /\ exists' = exists /\ readable' = readable /\ next' = next /\ pathlen' = pathlen /\ changed' = changed
      /\ next = "none" /\ Visited' = Visited /\ WalkTypes /\ Frames /\ Room /\ Unvisited /\ Pending
  BY DEF WalkInv
<1>5. WalkTypes'
  BY <1>2, <1>4 DEF WalkTypes
<1>6. Frames'
  BY ONLY <1>3, <1>4 DEF Frames
<1>7. Room'
  <2>1. \A k \in 1 .. Len(stack') : stack'[k].n + NAME_MAX + 1 <= pathlen'
    BY ONLY <1>3, <1>4 DEF Room
  <2>2. path' + 1 <= pathlen' /\ NAME_MAX + 1 <= pathlen'
    BY ONLY <1>4, path' + 1 <= pathlen DEF Room
  <2> QED  BY ONLY <1>4, <2>1, <2>2 DEF Room
<1>8. Unvisited'
  <2>1. \A k \in 1 .. Len(stack') : /\ stack'[k].dir \in Visited'
                                    /\ \A f \in stack'[k].todo : f \notin Visited' /\ f # next'
                                    /\ stack'[k].open
    BY ONLY <1>3, <1>4 DEF Unvisited
  <2>2. /\ \A f \in Files : visited'[f]["F"] + visited'[f]["D"] + visited'[f]["NS"] \in {0, 1}
        /\ next' \notin Visited' /\ \A f \in Visited' : f = Root \/ Parent[f] \in Visited'
    BY <1>1, <1>4 DEF Unvisited
  <2> QED  BY ONLY <2>1, <2>2 DEF Unvisited
<1>9. Pending'
  <2>1. ASSUME NEW f \in Files \ (changed \cup {Root}), Parent[f] \in Visited \ changed, f \notin Visited
        PROVE  Awaited(f)'
    <3>1. Awaited(f) /\ f # next
      BY ONLY <1>1, <1>4, <2>1 DEF Pending
    <3>2. PICK k \in 1 .. Len(stack) : stack[k].dir = Parent[f] /\ (stack[k].open => f \in stack[k].todo)
      BY ONLY <3>1 DEF Awaited
    <3>3. k # Len(stack)
      <4>1. Walk!Top.dir # Parent[f] \/ (Walk!Top.open /\ f \notin Walk!Top.todo)
        BY <2>1
      <4> QED  BY ONLY <1>1, <3>2, <4>1
    <3>4. k \in 1 .. Len(stack') /\ stack'[k] = stack[k]
      BY ONLY <1>1, <1>2, <3>3, k \in 1 .. Len(stack)
    <3> QED  BY ONLY <3>2, <3>4 DEF Awaited
  <2>2. \A f \in Files \ changed : visited'[f] = (IF f \in Visited' THEN Rightly(f) ELSE NotYet)
    BY <1>4 DEF Pending
  <2> QED  BY ONLY <1>1, <1>4, <2>1, <2>2 DEF Pending, Rightly, NotYet
<1> QED  BY <1>5, <1>6, <1>7, <1>8, <1>9 DEF WalkInv

LEMMA OpenKeeps == ASSUME WalkInv, Walk!opendir PROVE WalkInv'
<1>0. next = "none" /\ stack # <<>> /\ ~Walk!Top.open
      /\ UNCHANGED <<exists, readable, next, path, pathlen, changed>>
  BY DEF Walk!opendir, Walk!None
<1>1. /\ Walk!Top \in FrameSet /\ Walk!Top.dir \in Files /\ Walk!Top.dir \in Visited
  BY <1>0, TopIs
<1>2. CASE Walk!Top.dir \in exists \cap readable
  <2>1. /\ stack' = Walk!SetTop([Walk!Top EXCEPT !.todo = Walk!Children(Walk!Top.dir) \cap exists, !.open = TRUE])
        /\ UNCHANGED <<visited, count>>
    BY <1>2 DEF Walk!opendir
  <2>2. PICK fr : fr = [Walk!Top EXCEPT !.todo = Walk!Children(Walk!Top.dir) \cap exists, !.open = TRUE]
    OBVIOUS
  <2>3. fr \in FrameSet /\ fr.dir = Walk!Top.dir /\ fr.n = Walk!Top.n /\ fr.open
        /\ fr.todo = Walk!Children(Walk!Top.dir) \cap exists
    <3>1. Walk!Children(Walk!Top.dir) \cap exists \in SUBSET Files
      BY ONLY <1>1 DEF Walk!Children
    <3> QED  BY ONLY <1>1, <2>2, <3>1 DEF FrameSet
  <2>4. stack' = Walk!SetTop(fr)
    BY ONLY <2>1, <2>2
  <2> QED  BY ONLY WalkInv, <1>0, <2>1, <2>3, <2>4, OpenedKeeps
<1>3. CASE Walk!Top.dir \notin exists \cap readable
  <2>1. stack' = Walk!Pop /\ Walk!myfunc(Walk!Top.dir, "DNR", "")
    BY <1>3 DEF Walk!opendir
  <2>2. WalkTypes /\ Room /\ Unvisited /\ Counted /\ "DNR" \in Walk!FtwTypes /\ "DNR" # "F" /\ "DNR" # "D"
    BY DEF WalkInv, Walk!FtwTypes
  <2>3. Walk!Top.dir \in changed
    BY <1>1, <1>3, <2>2 DEF WalkTypes
  <2>4. /\ visited' \in [Files -> [Walk!FtwTypes -> Nat]] /\ count' = count
        /\ \A g \in Files : g # Walk!Top.dir => visited'[g] = visited[g]
        /\ \A t \in Walk!FtwTypes : t # "DNR" => visited'[Walk!Top.dir][t] = visited[Walk!Top.dir][t]
    BY ONLY <1>1, <2>1, <2>2, FuncIs
  <2>5. \A g \in Files : /\ visited'[g]["F"] = visited[g]["F"] /\ visited'[g]["D"] = visited[g]["D"]
                         /\ visited'[g]["NS"] = visited[g]["NS"]
    BY ONLY <2>4 DEF Walk!FtwTypes
  <2>6. Visited' = Visited /\ \A k : CountedAs(k)' = CountedAs(k)
    BY ONLY <2>5 DEF Visited, CountedAs
  <2>7. Counted'
    BY ONLY <2>2, <2>4, <2>6 DEF Counted
  <2>8. \A f \in Files : visited'[f]["F"] + visited'[f]["D"] + visited'[f]["NS"] \in {0, 1}
    BY ONLY <2>2, <2>5 DEF Unvisited
  <2>9. \A f \in Files \ changed : visited'[f] = visited[f]
    BY ONLY <2>3, <2>4
  <2>10. path' \in Nat /\ path' + 1 <= pathlen
    BY ONLY <1>0, <2>2 DEF WalkTypes, Room
  <2> QED  BY ONLY WalkInv, <1>0, <2>1, <2>3, <2>4, <2>6, <2>7, <2>8, <2>9, <2>10, ReturnedKeeps
<1> QED  BY <1>2, <1>3

LEMMA ClosedirKeeps == ASSUME WalkInv, Walk!closedir PROVE WalkInv'
<1>0. /\ next = "none" /\ stack # <<>> /\ Walk!Top.open /\ Walk!Top.todo = {}
      /\ stack' = Walk!Pop /\ path' = Walk!Top.n - 1
      /\ UNCHANGED <<exists, readable, next, pathlen, visited, count, changed>>
  BY DEF Walk!closedir, Walk!None
<1>1. /\ Len(stack) \in 1 .. Len(stack) /\ Walk!Top = stack[Len(stack)] /\ Walk!Top \in FrameSet
      /\ Walk!Top.dir \in Files /\ Walk!Top.n = Walk!PathOf[Walk!Top.dir] + 1
  BY <1>0, TopIs
<1>2. WalkTypes /\ Room /\ Unvisited /\ Counted
  BY DEF WalkInv
<1>3. path' \in Nat /\ path' + 1 <= pathlen
  <2>1. Walk!PathOf[Walk!Top.dir] \in Nat /\ NAME_MAX \in Nat
    BY ONLY <1>1, TreeFacts
  <2>2. Walk!Top.n + NAME_MAX + 1 <= pathlen /\ pathlen \in Nat
    BY ONLY <1>1, <1>2 DEF Room, WalkTypes
  <2>3. \A a, b, c \in Nat : (a + 1) + b + 1 <= c => (a + 1) - 1 \in Nat /\ ((a + 1) - 1) + 1 <= c
    OBVIOUS
  <2> QED  BY ONLY <1>0, <1>1, <2>1, <2>2, <2>3
<1>4. Visited' = Visited /\ Counted'
  BY ONLY <1>0, <1>2 DEF Visited, Counted, CountedAs
<1>5. visited' \in [Files -> [Walk!FtwTypes -> Nat]]
  BY ONLY <1>0, <1>2 DEF WalkTypes
<1>6. \A f \in Files : visited'[f]["F"] + visited'[f]["D"] + visited'[f]["NS"] \in {0, 1}
  BY ONLY <1>0, <1>2 DEF Unvisited
<1> QED  BY ONLY WalkInv, <1>0, <1>3, <1>4, <1>5, <1>6, ReturnedKeeps

LEMMA ReaddirKeeps == ASSUME WalkInv, Walk!readdir PROVE WalkInv'
<1>0. /\ next = "none" /\ stack # <<>> /\ Walk!Top.open
      /\ UNCHANGED <<exists, readable, pathlen, visited, count, changed>>
  BY DEF Walk!readdir, Walk!None
<1>a. PICK f \in Walk!Top.todo : /\ next' = f /\ path' = Walk!Top.n + NameLen[f]
                                 /\ stack' = Walk!SetTop([Walk!Top EXCEPT !.todo = Walk!Top.todo \ {f}])
  BY DEF Walk!readdir
<1>1. /\ Len(stack) \in Nat /\ Len(stack) > 0 /\ Len(stack) \in 1 .. Len(stack)
      /\ stack \in Seq(FrameSet) /\ Walk!Top = stack[Len(stack)] /\ Walk!Top \in FrameSet
      /\ Walk!Top.dir \in Files /\ Walk!Top.n = Walk!PathOf[Walk!Top.dir] + 1
      /\ \A k \in 1 .. Len(stack) : k # Len(stack) => stack[k].open /\ stack[k].n < Walk!Top.n
      /\ \A k \in 1 .. Len(stack) : stack[k] \in FrameSet
      /\ next \notin Files /\ Root \in Visited
  BY <1>0, TopIs
<1>2. WalkTypes /\ Frames /\ Room /\ Unvisited /\ Counted /\ Pending
  BY DEF WalkInv
<1>3. /\ f \in Walk!Children(Walk!Top.dir) /\ f \in Files \ {Root} /\ f \notin Visited
      /\ Parent[f] = Walk!Top.dir
      /\ Walk!PathOf[f] = Walk!PathOf[Walk!Top.dir] + 1 + NameLen[f] /\ NameLen[f] <= NAME_MAX
  <2>1. f \in Walk!Children(Walk!Top.dir) /\ f \notin Visited
    BY ONLY <1>1, <1>2, f \in Walk!Top.todo DEF Frames, Unvisited
  <2> QED  BY ONLY <1>1, <2>1, PathsGrow
<1>4. PICK fr : fr = [Walk!Top EXCEPT !.todo = Walk!Top.todo \ {f}]
  OBVIOUS
<1>5. fr \in FrameSet /\ fr.dir = Walk!Top.dir /\ fr.n = Walk!Top.n /\ fr.open /\ fr.todo = Walk!Top.todo \ {f}
  BY ONLY <1>0, <1>1, <1>4 DEF FrameSet
<1>6. stack' = Walk!SetTop(fr)
  BY ONLY <1>a, <1>4
<1>7. /\ stack' \in Seq(FrameSet) /\ Len(stack') = Len(stack) /\ stack'[Len(stack)] = fr
      /\ \A k \in 1 .. Len(stack) : k # Len(stack) => stack'[k] = stack[k]
  BY ONLY <1>1, <1>5, <1>6, SetTopIs
<1>8. \A k \in 1 .. Len(stack) : /\ stack'[k].dir = stack[k].dir /\ stack'[k].n = stack[k].n /\ stack'[k].open
                                /\ stack'[k].todo \subseteq stack[k].todo
  BY ONLY <1>0, <1>1, <1>5, <1>7
<1>9. path' = Walk!PathOf[f] /\ path' \in Nat /\ path' + 1 <= pathlen
  <2>1. Walk!PathOf[Walk!Top.dir] \in Nat /\ NAME_MAX \in Nat /\ NameLen[f] \in Nat
    BY ONLY <1>1, <1>3, TreeFacts
  <2>2. Walk!Top.n + NAME_MAX + 1 <= pathlen /\ pathlen \in Nat
    BY ONLY <1>1, <1>2 DEF Room, WalkTypes
  <2>3. \A a, b, c, d \in Nat : (a + 1) + b + 1 <= c /\ d <= b => (a + 1) + d \in Nat /\ ((a + 1) + d) + 1 <= c
    OBVIOUS
  <2>4. path' = Walk!PathOf[f]
    BY ONLY <1>a, <1>1, <1>3, <2>1
  <2> QED  BY ONLY <1>a, <1>1, <1>3, <2>1, <2>2, <2>3, <2>4
<1>10. WalkTypes'
  BY ONLY <1>0, <1>a, <1>2, <1>3, <1>7, <1>9 DEF WalkTypes
<1>11. Frames'
  <2>1. next' \in Walk!Children(stack'[Len(stack')].dir) /\ stack'[Len(stack')].open /\ Len(stack') > 0
    BY ONLY <1>a, <1>1, <1>3, <1>5, <1>7
  <2> QED  BY ONLY <1>1, <1>2, <1>7, <1>8, <2>1 DEF Frames
<1>12. Room'
  <2>1. \A k \in 1 .. Len(stack') : stack'[k].n + NAME_MAX + 1 <= pathlen'
    BY ONLY <1>0, <1>2, <1>7, <1>8 DEF Room
  <2>2. path' + 1 <= pathlen' /\ NAME_MAX + 1 <= pathlen' /\ path' = Walk!PathOf[next']
    BY ONLY <1>0, <1>a, <1>2, <1>9 DEF Room
  <2> QED  BY ONLY <2>1, <2>2 DEF Room
<1>13. Visited' = Visited /\ Counted'
  BY ONLY <1>0, <1>2 DEF Visited, Counted, CountedAs
<1>14. \A k \in 1 .. Len(stack') : f \notin stack'[k].todo
  <2>1. f \notin stack'[Len(stack)].todo
    BY ONLY <1>5, <1>7
  <2>2. ASSUME NEW k \in 1 .. Len(stack), k # Len(stack), f \in stack[k].todo PROVE FALSE
    <3>1. f \in Walk!Children(stack[k].dir) /\ stack[k].n = Walk!PathOf[stack[k].dir] + 1
      BY ONLY <1>2, <2>2 DEF Frames
    <3>2. stack[k].dir \in Files /\ Walk!PathOf[stack[k].dir] \in Nat
      BY ONLY <1>1, <2>2, TreeFacts DEF FrameSet
    <3>3. stack[k].dir = Walk!Top.dir
      BY ONLY <1>3, <3>1, <3>2, PathsGrow
    <3>4. stack[k].n < Walk!Top.n /\ stack[k].n = Walk!Top.n /\ stack[k].n \in Nat
      BY ONLY <1>1, <2>2, <3>1, <3>2, <3>3
    <3> QED  BY ONLY <3>4
  <2>3. ASSUME NEW k \in 1 .. Len(stack') PROVE f \notin stack'[k].todo
    <3>1. k \in 1 .. Len(stack)
      BY ONLY <1>7, <2>3
    <3> QED  BY ONLY <1>7, <2>1, <2>2, <3>1
  <2> QED  BY ONLY <2>3
<1>15. Unvisited'
  <2>1. \A k \in 1 .. Len(stack') : /\ stack'[k].dir \in Visited'
                                    /\ \A g \in stack'[k].todo : g \notin Visited' /\ g # next'
                                    /\ stack'[k].open
    BY ONLY <1>a, <1>2, <1>7, <1>8, <1>13, <1>14 DEF Unvisited
  <2>2. next' \notin Visited' /\ \A g \in Visited' : g = Root \/ Parent[g] \in Visited'
    BY ONLY <1>a, <1>2, <1>3, <1>13 DEF Unvisited
  <2> QED  BY ONLY <1>0, <1>2, <2>1, <2>2 DEF Unvisited
<1>16. Pending'
  <2>1. ASSUME NEW g \in Files \ (changed \cup {Root}), Parent[g] \in Visited \ changed, g \notin Visited
        PROVE  Awaited(g)'
    <3>1. Awaited(g) /\ g # next
      BY ONLY <1>1, <1>2, <2>1 DEF Pending
    <3>2. PICK k \in 1 .. Len(stack) : stack[k].dir = Parent[g] /\ (stack[k].open => g \in stack[k].todo)
      BY ONLY <3>1 DEF Awaited
    <3>3. CASE g = f
      BY ONLY <1>a, <3>3 DEF Awaited
    <3>4. CASE g # f
      <4>1. g \in stack'[k].todo /\ stack'[k].dir = Parent[g] /\ k \in 1 .. Len(stack')
        <5>1. g \in stack[k].todo
          BY ONLY <1>0, <1>1, <3>2, k \in 1 .. Len(stack)
        <5>2. k # Len(stack) => stack'[k] = stack[k]
          BY ONLY <1>7
        <5> QED  BY ONLY <1>1, <1>5, <1>7, <1>8, <3>2, <3>4, <5>1, <5>2
      <4> QED  BY ONLY <4>1 DEF Awaited
    <3> QED  BY ONLY <3>3, <3>4
  <2> QED  BY ONLY <1>0, <1>1, <1>2, <1>13, <2>1 DEF Pending, Rightly, NotYet
<1> QED  BY ONLY <1>10, <1>11, <1>12, <1>13, <1>15, <1>16 DEF WalkInv

LEMMA MeddleKeeps == ASSUME WalkInv, NEW f \in Files, Walk!Meddle(f) PROVE WalkInv'
<1>0. /\ changed' = changed \cup {f} /\ exists' \cup readable' \subseteq exists \cup readable
      /\ exists' \subseteq exists /\ readable' \subseteq readable
      /\ exists \ {f} \subseteq exists' /\ readable \ {f} \subseteq readable'
      /\ UNCHANGED <<stack, next, path, pathlen, visited, count>>
  BY DEF Walk!Meddle
<1>1. WalkTypes /\ Frames /\ Room /\ Unvisited /\ Counted /\ Pending
  BY DEF WalkInv
<1>2. WalkTypes'
  BY ONLY <1>0, <1>1, f \in Files DEF WalkTypes
<1>3. Frames' /\ Room'
  BY ONLY <1>0, <1>1 DEF Frames, Room
<1>4. Visited' = Visited /\ Counted'
  BY ONLY <1>0, <1>1 DEF Visited, Counted, CountedAs
<1>5. Unvisited'
  BY ONLY <1>0, <1>1, <1>4 DEF Unvisited
<1>6. Pending'
  <2>1. \A g : Awaited(g)' = Awaited(g)
    BY ONLY <1>0 DEF Awaited
  <2>2. Files \ (changed' \cup {Root}) \subseteq Files \ (changed \cup {Root}) /\ changed \subseteq changed'
    BY ONLY <1>0
  <2>3. \A g \in Files \ changed' : visited'[g] = (IF g \in Visited' THEN Rightly(g) ELSE NotYet)
    BY ONLY <1>0, <1>1, <1>4 DEF Pending
  <2>4. \A g \in Files \ (changed' \cup {Root}) :
          Parent[g] \in Visited' \ changed' /\ g \notin Visited' => Awaited(g)'
    BY ONLY <1>1, <1>4, <2>1, <2>2 DEF Pending
  <2> QED  BY ONLY <1>0, <1>1, <1>4, <2>3, <2>4 DEF Pending, Rightly, NotYet
<1> QED  BY ONLY <1>2, <1>3, <1>4, <1>5, <1>6 DEF WalkInv

LEMMA WalkStep == WalkInv /\ [Walk!Next]_ftwVars => WalkInv'
<1> SUFFICES ASSUME WalkInv, [Walk!Next]_ftwVars PROVE WalkInv'
  OBVIOUS
<1>1. CASE Walk!dopath
  BY ONLY WalkInv, <1>1, DopathKeeps
<1>2. CASE Walk!opendir
  BY ONLY WalkInv, <1>2, OpenKeeps
<1>3. CASE Walk!readdir
  BY ONLY WalkInv, <1>3, ReaddirKeeps
<1>4. CASE Walk!closedir
  BY ONLY WalkInv, <1>4, ClosedirKeeps
<1>5. CASE \E f \in Files : Walk!Meddle(f)
  BY ONLY WalkInv, <1>5, MeddleKeeps
<1>6. CASE UNCHANGED ftwVars
  <2>1. UNCHANGED <<exists, readable, stack, next, path, pathlen, visited, count, changed>>
    BY ONLY <1>6 DEF ftwVars
  <2> QED  BY ONLY WalkInv, <2>1 DEF WalkInv, WalkTypes, Frames, Room, Unvisited, Visited, Counted, CountedAs,
                                     Pending, Awaited, Rightly, NotYet
<1> QED  BY <1>1, <1>2, <1>3, <1>4, <1>5, <1>6 DEF Walk!Next, Walk!walk

LEMMA WalkHolds == WalkInv => Walk!PathFits /\ Walk!PathIsFiles /\ Walk!VisitedOnce
<1> SUFFICES ASSUME WalkInv PROVE Walk!PathFits /\ Walk!PathIsFiles /\ Walk!VisitedOnce
  OBVIOUS
<1>1. WalkTypes /\ Frames /\ Room /\ Unvisited /\ Counted /\ Pending
  BY DEF WalkInv
<1>2. Walk!PathFits /\ Walk!PathIsFiles
  BY ONLY <1>1 DEF Room, Walk!PathFits, Walk!PathIsFiles, Walk!None
<1>3. \A f \in Files : visited[f]["F"] + visited[f]["D"] + visited[f]["NS"] <= 1
  BY ONLY <1>1 DEF Unvisited
<1>4. ASSUME NEW k \in DOMAIN count PROVE count[k] <= Cardinality({f \in Files : Kind[f] = k})
  <2>1. count[k] = Cardinality(CountedAs(k))
    BY ONLY <1>1, <1>4 DEF Counted, WalkTypes
  <2>2. IsFiniteSet({f \in Files : Kind[f] = k})
    BY TreeFacts, FS_Subset
  <2>3. CountedAs(k) \subseteq {f \in Files : Kind[f] = k}
    BY DEF CountedAs
  <2> QED  BY ONLY <2>1, <2>2, <2>3, FS_Subset
<1>5. ASSUME Walk!Done, NEW S \in SUBSET (Files \ changed), \A f \in S : f = Root \/ Parent[f] \in S
      PROVE  S \subseteq Visited
  <2>1. next = "none" /\ Len(stack) = 0 /\ "none" \notin Files /\ Root \in Files
        /\ Walk!PathOf \in [Files -> Nat] /\ \A f \in Files \ {Root} : Parent[f] \in Files
    BY ONLY <1>5, TreeFacts DEF Walk!Done, Walk!None
  <2>2. SUFFICES ASSUME NEW b \in S \ Visited PROVE FALSE
    BY ONLY <2>2
  <2> DEFINE T == {Walk!PathOf[g] : g \in S \ Visited}
  <2>3. T \in SUBSET Nat /\ T # {}
    BY ONLY <2>1, b \in S \ Visited, S \in SUBSET (Files \ changed)
  <2>4. PICK m \in T : \A n \in T : m <= n
    <3> HIDE DEF T
    <3> QED  BY ONLY <2>3, LeastNat
  <2>5. PICK g \in S \ Visited : m = Walk!PathOf[g]
    OBVIOUS
  <2>6. Root \in Visited
    BY ONLY <1>1, <2>1 DEF Pending
  <2>7. g \in Files \ (changed \cup {Root}) /\ Parent[g] \in S /\ Parent[g] \in Files \ changed
    BY ONLY <1>5, <2>5, <2>6, S \in SUBSET (Files \ changed)
  <2>8. Walk!PathOf[Parent[g]] < Walk!PathOf[g] /\ Walk!PathOf[Parent[g]] \in Nat /\ Walk!PathOf[g] \in Nat
    <3>1. g \in Walk!Children(Parent[g])
      BY ONLY <2>7 DEF Walk!Children
    <3> QED  BY ONLY <2>1, <2>7, <3>1, PathsGrow
  <2>9. Parent[g] \in Visited
    <3>1. Parent[g] \notin Visited => Walk!PathOf[Parent[g]] \in T
      BY <2>7
    <3> QED  BY ONLY <2>4, <2>5, <2>8, <3>1
  <2>10. Awaited(g)
    BY ONLY <1>1, <2>5, <2>7, <2>9 DEF Pending
  <2> QED  BY ONLY <2>1, <2>7, <2>10 DEF Awaited
<1>6. ASSUME Walk!Done, NEW f \in Walk!Safe PROVE visited[f] = Rightly(f)
  <2>1. PICK S \in SUBSET (Files \ changed) : (\A g \in S : g = Root \/ Parent[g] \in S) /\ f \in S
    BY ONLY <1>6 DEF Walk!Safe
  <2>2. f \in Visited /\ f \in Files \ changed
    BY ONLY <1>5, <1>6, <2>1
  <2> QED  BY ONLY <1>1, <2>2 DEF Pending
<1>7. Walk!VisitedOnce
  BY ONLY <1>3, <1>4, <1>6 DEF Walk!VisitedOnce, Rightly, Walk!Cardinality, Cardinality
<1> QED  BY <1>2, <1>7

-----------------------------------------------------------------------------
(* db/db.c: the whole-file lock of db_open makes its fstat and the write of *)
(* the hash table one step, and a database that was created is usable.     *)

Creator == {"creat", "trunc"}
\* Where a process of db_open holds the lock on the whole index file,
LockedPcs == {"stat", "init", "unlock"}
\* and where a creator has yet to see to the hash table.
CreatePcs == {"opendat", "lock", "stat", "init"}
OpenPcs == CreatePcs \cup LockedPcs \cup Ends \cup {"start", "opened"}

OpenTypes ==
  /\ idx \in {Absent, Empty, Table} /\ dat \in BOOLEAN
  /\ data \subseteq Procs /\ linked \subseteq Procs
  /\ pc \in [Procs -> OpenPcs]
  /\ flags \in [Procs -> SUBSET {"creat", "trunc"}]
  /\ idxfd \in [Procs -> BOOLEAN]

\* The chains lead somewhere only from a hash table.
NoTableNoChains == idx # Table => linked = {}

\* The lock has one holder at most, and only a creator takes it.
Locking == \A p \in Procs :
  /\ pc[p] \in LockedPcs => wlock = {p}
  /\ pc[p] \in LockedPcs \cup {"lock"} => flags[p] = Creator

\* What fstat found is still so when the table is written: nobody else writes one.
StillEmpty == \A p \in Procs : pc[p] = "init" => idx # Table

\* A process that has opened the files with O_CREAT has created them.
Creating == \A p \in Procs : pc[p] # "start" /\ "creat" \in flags[p] =>
  /\ idx # Absent /\ idxfd[p] /\ pc[p] # "failed"
  /\ pc[p] # "opendat" => dat

Started == {p \in Procs : pc[p] # "start"}

\* The last creator to empty the index file is there to write its table.
TableToCome ==
  (\E p \in Started : flags[p] = Creator) /\ (\A p \in Started : flags[p] # {"trunc"})
  => idx = Table \/ \E p \in Procs : flags[p] = Creator /\ pc[p] \in CreatePcs

OpenInv ==
  /\ OpenTypes /\ NoTableNoChains /\ Locking /\ StillEmpty /\ Creating /\ TableToCome
  /\ InitKeepsRecords
\* It holds before the first db_open, whether or not the database existed.
LEMMA OpenedInit == Init => OpenInv
BY FlagsTyped DEF Init, OpenInv, OpenTypes, NoTableNoChains, Locking, StillEmpty, Creating, TableToCome,
   InitKeepsRecords, Started, OpenPcs, CreatePcs, LockedPcs, Ends, Absent, Empty, Table, Creator

\* Every step of every process keeps it: one case per action.
LEMMA OpenActions ==
  ASSUME OpenInv, NEW p \in Procs,
         \/ OpenIdx(p) \/ OpenDat(p) \/ WholeLock(p) \/ Fstat(p)
         \/ InitTable(p) \/ WholeUnlock(p) \/ Use(p)
  PROVE  OpenInv'
<1> USE DEF OpenInv, OpenTypes, NoTableNoChains, Locking, StillEmpty, Creating, TableToCome, InitKeepsRecords,
        Started, OpenPcs, CreatePcs, LockedPcs, Ends, Absent, Empty, Table, Creator, Goto
<1>1. CASE OpenIdx(p)
  <2>1. OpenTypes' /\ NoTableNoChains' /\ Locking' /\ StillEmpty' /\ Creating' /\ InitKeepsRecords'
    BY <1>1 DEF OpenIdx
  <2>2. TableToCome'
    BY <1>1 DEF OpenIdx
  <2> QED  BY <2>1, <2>2
<1>2. CASE OpenDat(p)
  <2>1. OpenTypes' /\ NoTableNoChains' /\ Locking' /\ StillEmpty' /\ Creating' /\ InitKeepsRecords'
    BY <1>2 DEF OpenDat
  <2>2. TableToCome'
    BY <1>2 DEF OpenDat
  <2> QED  BY <2>1, <2>2
<1>3. CASE WholeLock(p)
  BY <1>3 DEF WholeLock
<1>4. CASE Fstat(p)
  BY <1>4 DEF Fstat
<1>5. CASE InitTable(p)
  BY <1>5 DEF InitTable
<1>6. CASE WholeUnlock(p)
  BY <1>6 DEF WholeUnlock
<1>7. CASE Use(p)
  BY <1>7 DEF Use
<1> QED  BY <1>1, <1>2, <1>3, <1>4, <1>5, <1>6, <1>7

LEMMA OpenStep == OpenInv /\ [Next]_vars => OpenInv'
<1> SUFFICES ASSUME OpenInv, [Next]_vars PROVE OpenInv'
  OBVIOUS
<1>1. CASE UNCHANGED vars
  BY <1>1 DEF vars, OpenInv, OpenTypes, NoTableNoChains, Locking, StillEmpty, Creating, TableToCome,
     InitKeepsRecords, Started
<1> QED  BY <1>1, OpenActions DEF Next, AllDone

\* Two processes are never both between the lock and the unlock of db_open.
OneInitializer == \A p, q \in Procs : pc[p] \in LockedPcs /\ pc[q] \in LockedPcs => p = q

LEMMA OpenHolds == OpenInv => CreatedOnce /\ OneInitializer
<1> SUFFICES ASSUME OpenInv PROVE CreatedOnce /\ OneInitializer
  OBVIOUS
<1>1. CreatedOnce
  <2> SUFFICES ASSUME NEW p \in Procs, pc[p] # "start", flags[p] = {"creat", "trunc"},
                      \A q \in Procs : pc[q] \notin {"opendat", "lock", "stat", "init", "unlock"},
                      \A q \in Procs : pc[q] # "start" => flags[q] # {"trunc"}
               PROVE  idx = Table /\ dat
    BY DEF CreatedOnce, CreatedIsUsable, OpenInv
  <2>1. dat
    BY DEF OpenInv, Creating
  <2>2. idx = Table
    BY DEF OpenInv, TableToCome, Started, Creator, CreatePcs
  <2> QED  BY <2>1, <2>2
<1>2. OneInitializer
  BY DEF OpenInv, Locking, OneInitializer
<1> QED  BY <1>1, <1>2

-----------------------------------------------------------------------------
(* The programs together.                                                  *)

ProgramsInv ==
  /\ SleepInv /\ TtyInv /\ PassInv /\ AbortInv /\ SystemInv /\ TellInv /\ CoproInv /\ PtyInv
  /\ DaemonInv /\ ForkInv /\ AioInv /\ UploadInv /\ StatusInv /\ MemInv /\ WalkInv

LEMMA ProgramsInit == MCInit => ProgramsInv
<1> SUFFICES ASSUME MCInit PROVE ProgramsInv
  OBVIOUS
<1>1. /\ Slp!Init /\ Mode!Init /\ Pass!Init /\ Abt!Init /\ Sys!Init /\ Tell!Init /\ Copro!Init /\ Pty!Init
      /\ Dmn!Init /\ Fork!Init /\ Aio!Init /\ Upload!Init /\ Answer!Init /\ Walk!Init
      /\ Mem!Init \/ Unopened
  BY DEF MCInit, Unopened
<1> QED
  BY <1>1, SleepInit, TtyInit, PassInit, AbortInit, SystemInit, TellInit, CoproInit, PtyInit, DaemonInit, ForkInit,
     AioInit, UploadInit, StatusInit, StreamInit, UnopenedInit, WalkInit
     DEF ProgramsInv

LEMMA ProgramsStep == ProgramsInv /\ [MCNext]_All => ProgramsInv'
BY Steps, SleepStep, TtyStep, PassStep, AbortStep, SystemStep, TellStep, CoproStep, PtyStep, DaemonStep, ForkStep,
   AioStep, UploadStep, StatusStep, MemStep, WalkStep
   DEF ProgramsInv

\* In every behaviour of the programs each one's invariant holds.
THEOREM ProgramsInvariance == MCSpec => []ProgramsInv
BY ProgramsInit, ProgramsStep, PTL DEF MCSpec

\* What sleep(), ttymodes.c and getpass() change for a while they put back: the caller's
\* action for SIGALRM and its mask, with the caller's action run by the alarm of sleep()
\* only if something else ended the wait; the terminal, which is in the mode that ttystate
\* says, and out of one as it was unless a tcsetattr left some of what it was to put back;
\* the echo at the return of getpass() and when the interrupt or suspend key takes effect,
\* unless its last tcsetattr fails.  The quit key is not held back and is left out.
THEOREM RestoresCaller == MCSpec => []CallerRestored
<1>1. ProgramsInv => CallerRestored
  BY SleepHolds, TtyHolds, PassHolds DEF ProgramsInv, CallerRestored
<1> QED  BY <1>1, ProgramsInvariance, PTL

\* An answer belongs to what was asked: in system(), devzero.c, pipe4.c, the pty's
\* loop(), printer_status, csopen and the print command.
THEOREM AnswersAreRight == MCSpec => []AnswersRight
<1>1. ProgramsInv => AnswersRight
  BY SystemHolds, TellHolds, CoproHolds, PtyHolds, StatusHolds, ForkHolds, UploadHolds
     DEF ProgramsInv, AnswersRight
<1> QED  BY <1>1, ProgramsInvariance, PTL

\* However many copies of a daemon are started, one at most gets past already_running,
\* its pid is in the lock file, and it has no terminal and cannot get one.
THEOREM OneDaemonRuns == MCSpec => []RunsAlone
<1>1. ProgramsInv => RunsAlone
  BY DaemonHolds DEF ProgramsInv, RunsAlone
<1> QED  BY <1>1, ProgramsInvariance, PTL

\* Whatever calls are made on a memory stream, whatever tree ftw8 walks and whatever is
\* typed at getpass(): nothing is written behind the buffer.
THEOREM BuffersSuffice == MCSpec => []InBounds
<1>1. ProgramsInv => InBounds
  BY MemHolds, WalkHolds, PassHolds DEF ProgramsInv, InBounds
<1> QED  BY <1>1, ProgramsInvariance, PTL

\* A memory stream holds what a file would; ftw8 visits each file of any tree once, by
\* its own path; rot13c2 puts each block in its place; abort() ends with its streams flushed.
THEOREM ContentsAreExact == MCSpec => []ContentsExact
<1>1. ProgramsInv => ContentsExact
  BY MemHolds, WalkHolds, AioHolds, AbortHolds DEF ProgramsInv, ContentsExact
<1> QED  BY <1>1, ProgramsInvariance, PTL

\* Among the programs db_open takes the steps of its own specification.
LEMMA OpenIsOpen == MCSpec => Spec
<1>1. [MCNext]_All => [Next]_vars
  BY Steps
<1>2. MCInit => Init
  BY DEF MCInit
<1> QED  BY <1>1, <1>2, PTL DEF MCSpec, Spec

LEMMA OpenInvariance == Spec => []OpenInv
BY OpenedInit, OpenStep, PTL DEF Spec

\* However many processes call db_open at once and with whatever flags, writing
\* the hash table never wipes a record, and once the creators are done the index
\* file has a table and the data file exists.
THEOREM DatabaseCreatedOnce == Spec => []CreatedOnce
BY OpenHolds, OpenInvariance, PTL

\* Two processes are never both between the lock and the unlock of db_open: its lock on
\* the whole index file does what it is for.
THEOREM InitializersExclude == Spec => []OneInitializer
BY OpenHolds, OpenInvariance, PTL
=============================================================================
