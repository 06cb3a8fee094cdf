------------------------------- MODULE Popen -------------------------------
(***************************************************************************)
(* popen and pclose of apue.3e/lib/popen.c (and ipc1/popen.c).  A process  *)
(* opens pipes to several commands.  A command that reads ends at end of   *)
(* file, which comes when nobody has the pipe's other end: not the caller, *)
(* and no command that was started later and inherited it.                 *)
(***************************************************************************)
EXTENDS Integers, FiniteSets

CONSTANTS Fds, Pids   \* descriptors below maxfd for the caller's ends; commands

VARIABLES
  childpid,        \* childpid[fd]: the command behind fd, or 0
  fdOf,            \* the caller's open ends: fd -> the command it leads to, 0 if
                   \* not open, -1 if both ends of its pipe are the caller's
  type, cstate,    \* each command: "r" or "w"; not started, started, running, ...
  held, kept,      \* ends of other commands' pipes that p has; will have after exec
  ppc, waitFor     \* the caller's place, the command pclose waits for

vars == <<childpid, fdOf, type, cstate, held, kept, ppc, waitFor>>

Init ==
  /\ childpid = [f \in Fds |-> 0] /\ fdOf = [f \in Fds |-> 0]
  /\ type = [p \in Pids |-> "w"] /\ cstate = [p \in Pids |-> "none"]
  /\ held = [p \in Pids |-> {}] /\ kept = held
  /\ ppc = "idle" /\ waitFor = 0

(* What a command inherits, and what it does not close before exec: it goes  *)
(* through the childpid[] of the moment it was forked.                       *)
OpenEnds == {fdOf[f] : f \in Fds} \ {0, -1}
(* Mutation: the child keeps the earlier pipes. *)
AllOpen == OpenEnds
LeftOpen == OpenEnds \ {childpid[f] : f \in Fds}

(* popen: pipe, fork, fdopen; a descriptor at maxfd or above is refused.     *)
(* When fdopen fails the command runs and childpid does not know it.         *)
popen(fd, p, t) ==
  /\ ppc = "idle" /\ fdOf[fd] = 0 /\ cstate[p] = "none"
  /\ \A q \in Pids : q < p => cstate[q] # "none"
  /\ fdOf' = [fdOf EXCEPT ![fd] = p] /\ type' = [type EXCEPT ![p] = t]
  /\ cstate' = [cstate EXCEPT ![p] = "forked"]
  /\ held' = [held EXCEPT ![p] = OpenEnds] /\ kept' = [kept EXCEPT ![p] = LeftOpen]
  /\ \/ childpid' = [childpid EXCEPT ![fd] = p]
     \/ UNCHANGED childpid
  /\ UNCHANGED <<ppc, waitFor>>

(* fork fails: popen returns without closing the pipe. *)
ForkFails(fd) ==
  /\ ppc = "idle" /\ fdOf[fd] = 0 /\ fdOf' = [fdOf EXCEPT ![fd] = -1]
  /\ UNCHANGED <<childpid, type, cstate, held, kept, ppc, waitFor>>

(* The command: its own end to stdin or stdout, the others closed, exec. *)
Exec(p) ==
  /\ cstate[p] = "forked" /\ cstate' = [cstate EXCEPT ![p] = "run"]
  /\ held' = [held EXCEPT ![p] = kept[p]]
  /\ UNCHANGED <<childpid, fdOf, type, kept, ppc, waitFor>>

(* End of file for p: nobody has the other end of its pipe. *)
AtEof(p) == p \notin OpenEnds /\ \A q \in Pids : cstate[q] \in {"forked", "run"} => p \notin held[q]

(* A command that writes may end at any time. *)
ChildExit(p) ==
  /\ cstate[p] = "run" /\ (type[p] = "r" \/ AtEof(p))
  /\ cstate' = [cstate EXCEPT ![p] = "exited"]
  /\ UNCHANGED <<childpid, fdOf, type, held, kept, ppc, waitFor>>

(* pclose: forget the command, close, wait; if fclose fails there is no wait. *)
pclose(fd) ==
  /\ ppc = "idle" /\ childpid[fd] # 0
  /\ childpid' = [childpid EXCEPT ![fd] = 0] /\ fdOf' = [fdOf EXCEPT ![fd] = 0]
  /\ \/ ppc' = "wait" /\ waitFor' = childpid[fd]
     \/ UNCHANGED <<ppc, waitFor>>
  /\ UNCHANGED <<type, cstate, held, kept>>

PcloseWait ==
  /\ ppc = "wait" /\ cstate[waitFor] = "exited"
  /\ cstate' = [cstate EXCEPT ![waitFor] = "waited"]
  /\ ppc' = "idle" /\ waitFor' = 0
  /\ UNCHANGED <<childpid, fdOf, type, held, kept>>

Next ==
  \/ \E p \in Pids : Exec(p) \/ ChildExit(p) \/ \E fd \in Fds, t \in {"r", "w"} : popen(fd, p, t)
  \/ \E fd \in Fds : pclose(fd) \/ ForkFails(fd)
  \/ PcloseWait

-----------------------------------------------------------------------------
(* pclose returns, in whatever order the streams are closed: a command has   *)
(* not kept the end of another one's pipe open.                              *)
PcloseReturns == ppc = "wait" ~> ppc = "idle"
=============================================================================
