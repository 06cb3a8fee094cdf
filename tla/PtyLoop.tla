------------------------------ MODULE PtyLoop ------------------------------
(***************************************************************************)
(* The end of apue.3e/pty/main.c and the two copying processes of          *)
(* pty/loop.c: the child copies standard input to the master, the parent   *)
(* the master to standard output.  Either may see its end of file first    *)
(* and tells the other with SIGTERM.                                       *)
(***************************************************************************)
EXTENDS Integers

CONSTANTS MaxData   \* how much the program writes, and the user types

VARIABLES
  ignoreeof, tty,          \* the -i option; the user's terminal: "raw" or "orig"
  prog, made, copied,      \* the program: "run" or "end", its output, and what was copied
  typed,                   \* input that is still to come; -1: end of file
  xpc, ypc,                \* the parent's and the child's place
  handler, sigcaught       \* the parent: is sig_term in place; its flag

vars == <<ignoreeof, tty, prog, made, copied, typed, xpc, ypc, handler, sigcaught>>

(* main: tty_raw and atexit(tty_atexit) when interactive; loop forks. *)
Init ==
  /\ ignoreeof \in BOOLEAN /\ tty \in {"raw", "orig"}
  /\ prog = "run" /\ made = 0 /\ copied = 0 /\ typed = MaxData
  /\ xpc = "signal" /\ ypc = "read" /\ handler = FALSE /\ sigcaught = FALSE

parentGone == xpc \in {"exit", "killed"}
childGone == ypc \in {"exit", "killed"}

(* The program on the slave side. *)
Program ==
  /\ prog = "run"
  /\ \/ made < MaxData /\ made' = made + 1 /\ UNCHANGED prog
     \/ prog' = "end" /\ UNCHANGED made
  /\ UNCHANGED <<ignoreeof, tty, copied, typed, xpc, ypc, handler, sigcaught>>

(* exit() in either process runs tty_atexit, which the child has inherited. *)
Exit == tty' = "orig"

(* SIGTERM to the parent: by default it ends it, without atexit.  With the   *)
(* handler a read that waits is interrupted, and writen may be.              *)
TermParent ==
  IF parentGone THEN UNCHANGED <<xpc, sigcaught>>
  ELSE IF ~handler THEN xpc' = "killed" /\ UNCHANGED sigcaught
  ELSE /\ sigcaught' = TRUE
       /\ \/ UNCHANGED xpc                        \* between two calls: only the flag
          \/ xpc = "read" /\ copied = made /\ prog = "run" /\ xpc' = "stop"
          \/ xpc = "write" /\ xpc' = "error"

(* The child: copy, notify, exit. *)
child ==
  /\ \/ /\ ypc = "read"
        /\ IF typed > 0
           THEN /\ typed' = typed - 1
                /\ ypc' \in {"read", "exit"}     \* the write to the master may fail
                /\ IF ypc' = "exit" THEN Exit ELSE UNCHANGED tty
           ELSE typed' = -1 /\ ypc' = "eof" /\ UNCHANGED tty
        /\ UNCHANGED <<xpc, sigcaught>>
     \/ /\ ypc = "eof" /\ ypc' = "last"
        /\ IF ignoreeof THEN UNCHANGED <<xpc, sigcaught>> ELSE TermParent
        /\ UNCHANGED <<tty, typed>>
     \/ ypc = "last" /\ ypc' = "exit" /\ Exit /\ UNCHANGED <<typed, xpc, sigcaught>>
  /\ UNCHANGED <<ignoreeof, prog, made, copied, handler>>

SignalHandler ==
  /\ xpc = "signal" /\ xpc' = "read" /\ handler' = TRUE
  /\ UNCHANGED <<tty, copied, ypc>>

(* read: data, or end of file when the program is gone; writen. *)
Copy ==
  /\ \/ xpc = "read" /\ copied < made /\ xpc' = "write" /\ UNCHANGED copied
     \/ xpc = "read" /\ copied = made /\ prog = "end" /\ xpc' = "stop" /\ UNCHANGED copied
     \/ xpc = "write" /\ xpc' = "read" /\ copied' = copied + 1
  /\ UNCHANGED <<tty, ypc, handler>>

(* Mutation: the parent does not tell the child. *)
StopQuiet == xpc = "stop" /\ xpc' = "exit" /\ Exit /\ UNCHANGED <<copied, ypc, handler>>

(* The end of loop(): tell the child, unless it was the child that told us. *)
Stop ==
  /\ xpc = "stop" /\ xpc' = "exit" /\ Exit
  /\ ypc' = IF ~sigcaught /\ ~childGone THEN "killed" ELSE ypc
  /\ UNCHANGED <<copied, handler>>

Error == xpc = "error" /\ xpc' = "exit" /\ Exit /\ UNCHANGED <<copied, ypc, handler>>

parent == (SignalHandler \/ Copy \/ Stop \/ Error) /\ UNCHANGED <<ignoreeof, prog, made, typed, sigcaught>>

Next == Program \/ child \/ parent

-----------------------------------------------------------------------------
(* When the program ends both processes end, whichever of them learns of an  *)
(* end first and whatever SIGTERM interrupts.                                *)
BothEnd == prog = "end" ~> parentGone /\ childGone

(* Unless the child's end of input stopped it, the parent has copied all the *)
(* program wrote; and the terminal is as it was, unless SIGTERM came before  *)
(* the handler was in place.                                                 *)
OutputComplete ==
  /\ xpc = "exit" /\ ~sigcaught => copied = made
  /\ xpc = "exit" => tty = "orig"
=============================================================================
