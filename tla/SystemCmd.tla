----------------------------- MODULE SystemCmd -----------------------------
(***************************************************************************)
(* system() of apue.3e/signals/system.c, called by a process that has a    *)
(* SIGCHLD handler which waits for any child, while the terminal sends     *)
(* SIGINT and SIGQUIT to caller and command alike.                         *)
(***************************************************************************)
EXTENDS Integers

Keys == {"INT", "QUIT"}

VARIABLES
  ypc, callerAct,      \* the next step of system(); the caller's action for Keys
  ignored,             \* the Keys that the caller now ignores
  chldmask, chldpend,  \* SIGCHLD: is it blocked, is it pending
  child, cignored,     \* the command's process, and the Keys it ignores
  exitst, status,      \* how the command ended; what system() returns
  dead                 \* was the caller ended by a signal, and at which step

vars == <<ypc, callerAct, ignored, chldmask, chldpend, child, cignored, exitst, status, dead>>

Init ==
  /\ ypc = "ignint" /\ callerAct \in {"dfl", "ign", "catch"} /\ ignored = {}
  /\ chldmask = FALSE /\ chldpend = FALSE
  /\ child = "none" /\ cignored = {} /\ exitst = "none" /\ status = "none" /\ dead = "no"

(* A child ends: SIGCHLD, whose handler takes its status unless blocked. *)
Ends(st) ==
  /\ exitst' = st
  /\ IF chldmask THEN child' = "zombie" /\ chldpend' = TRUE
                 ELSE child' = "gone" /\ UNCHANGED chldpend

(* A key of the terminal.  exec turns caught signals to their default. *)
Key(s) ==
  /\ dead = "no"
  /\ dead' = IF s \notin ignored /\ callerAct = "dfl" THEN ypc ELSE "no"
  /\ IF child \in {"new", "sh"} /\ s \notin cignored
        /\ (callerAct = "dfl" \/ (callerAct = "catch" /\ child = "sh"))
     THEN Ends("signal") ELSE UNCHANGED <<child, exitst, chldpend>>
  /\ UNCHANGED <<ypc, callerAct, ignored, chldmask, cignored, status>>

(* Mutation: the command keeps the keys ignored. *)
ChildExecOnly ==
  /\ child = "new" /\ child' = "sh" /\ UNCHANGED cignored
  /\ UNCHANGED <<ypc, callerAct, ignored, chldmask, chldpend, exitst, status, dead>>

(* The child: put the actions and the mask back, then exec. *)
ChildExec ==
  /\ child = "new"
  /\ IF cignored # {} THEN cignored' = (IF "INT" \in cignored THEN cignored \ {"INT"} ELSE {}) /\ UNCHANGED child
                      ELSE child' = "sh" /\ UNCHANGED cignored
  /\ UNCHANGED <<ypc, callerAct, ignored, chldmask, chldpend, exitst, status, dead>>

ChildExit ==
  /\ child = "sh" /\ Ends("exit")
  /\ UNCHANGED <<ypc, callerAct, ignored, chldmask, cignored, status, dead>>

-----------------------------------------------------------------------------
Go(from, to) == dead = "no" /\ ypc = from /\ ypc' = to

Ignore ==
  /\ \/ Go("ignint", "ignquit") /\ ignored' = {"INT"}
     \/ Go("ignquit", "block") /\ ignored' = Keys
  /\ UNCHANGED <<chldmask, chldpend, child, cignored, status>>

(* Mutation: SIGCHLD is not blocked. *)
NoBlock == Go("block", "fork") /\ UNCHANGED <<ignored, chldmask, chldpend, child, cignored, status>>
Block == Go("block", "fork") /\ chldmask' = TRUE /\ UNCHANGED <<ignored, chldpend, child, cignored, status>>

Fork ==
  /\ \/ Go("fork", "wait") /\ child' = "new" /\ cignored' = ignored /\ UNCHANGED status
     \/ Go("fork", "resint") /\ status' = "error" /\ UNCHANGED <<child, cignored>>   \* fork fails
  /\ UNCHANGED <<ignored, chldmask, chldpend>>

(* waitpid, again after EINTR; an error if the child is no longer there. *)
Wait ==
  /\ Go("wait", "resint")
  /\ \/ child = "zombie" /\ child' = "waited" /\ status' = exitst
     \/ child = "gone" /\ status' = "error" /\ UNCHANGED child
  /\ UNCHANGED <<ignored, chldmask, chldpend, cignored>>

Restore ==
  /\ \/ Go("resint", "resquit") /\ ignored' = {"QUIT"} /\ UNCHANGED <<chldmask, chldpend>>
     \/ Go("resquit", "resmask") /\ ignored' = {} /\ UNCHANGED <<chldmask, chldpend>>
     \/ Go("resmask", "done") /\ chldmask' = FALSE /\ chldpend' = FALSE /\ UNCHANGED ignored
  /\ UNCHANGED <<child, cignored, status>>

system == (Ignore \/ Block \/ Fork \/ Wait \/ Restore) /\ UNCHANGED <<callerAct, exitst, dead>>

Next == system \/ ChildExec \/ ChildExit \/ \E s \in Keys : Key(s)

-----------------------------------------------------------------------------
(* system() returns how its command ended: the caller's SIGCHLD handler      *)
(* cannot take the status first, and a key that ends the command does not    *)
(* end the caller while it waits.  A command that has started acts on the    *)
(* keys as the caller does.                                                  *)
StatusIsChilds ==
  /\ ypc = "done" /\ child # "none" => status = exitst
  /\ dead \notin {"fork", "wait"}
  /\ child = "sh" => cignored = {}
=============================================================================
