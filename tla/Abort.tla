------------------------------- MODULE Abort -------------------------------
(***************************************************************************)
(* abort() of apue.3e/signals/abort.c, called by a process with any action *)
(* and mask for SIGABRT.  A handler may write to a stream, change both and *)
(* return, or leave by longjmp.                                            *)
(***************************************************************************)
EXTENDS Naturals

VARIABLES
  bpc, sigabrt,     \* the place in abort(); the action for SIGABRT
  blocked, unsent,  \* is SIGABRT blocked; do streams hold unwritten output
  seen              \* action.sa_handler

vars == <<bpc, sigabrt, blocked, unsent, seen>>

Init ==
  /\ bpc = "reset" /\ sigabrt \in {"dfl", "ign", "handler"} /\ blocked \in BOOLEAN
  /\ unsent \in BOOLEAN /\ seen = sigabrt

(* Not ignored, and flushed if the signal will end the process. *)
Reset ==
  /\ bpc = "reset" /\ bpc' = "unblock"
  /\ seen' = IF seen = "ign" THEN "dfl" ELSE seen
  /\ sigabrt' = seen' /\ unsent' = (unsent /\ seen' # "dfl") /\ UNCHANGED blocked

Unblock ==
  /\ bpc \in {"unblock", "unblock2"} /\ blocked' = FALSE
  /\ bpc' = IF bpc = "unblock" THEN "kill" ELSE "kill2"
  /\ UNCHANGED <<sigabrt, unsent, seen>>

(* kill: with the default action the process ends. *)
Kill ==
  /\ bpc \in {"kill", "kill2"} /\ UNCHANGED <<sigabrt, blocked, unsent, seen>>
  /\ bpc' = IF sigabrt = "dfl" /\ ~blocked THEN "dead"
            ELSE IF sigabrt = "handler" /\ ~blocked THEN "handler"
            ELSE IF bpc = "kill" THEN "again" ELSE "exit"

Handler ==
  /\ bpc = "handler" /\ bpc' \in {"again", "left"}
  /\ sigabrt' \in {"dfl", "ign", "handler"} /\ blocked' \in BOOLEAN
  /\ unsent' \in {unsent, TRUE} /\ UNCHANGED seen

(* Mutation: what the handler wrote is not flushed. *)
NoFlush == bpc = "again" /\ bpc' = "unblock2" /\ sigabrt' = "dfl" /\ UNCHANGED <<unsent, blocked, seen>>

(* The handler came back: flush, reset to the default and once more. *)
Again ==
  /\ bpc = "again" /\ bpc' = "unblock2"
  /\ unsent' = FALSE /\ sigabrt' = "dfl" /\ UNCHANGED <<blocked, seen>>

abort == Reset \/ Unblock \/ Kill \/ Again \/ Handler

Next == abort

-----------------------------------------------------------------------------
(* Unless a handler leaves by longjmp the process dies of SIGABRT, never by  *)
(* exit, and with its streams flushed, whatever the handler did.             *)
DiesFlushed == bpc # "exit" /\ (bpc = "dead" => ~unsent)
=============================================================================
