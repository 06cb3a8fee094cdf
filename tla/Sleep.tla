------------------------------- MODULE Sleep -------------------------------
(***************************************************************************)
(* sleep() of apue.3e/lib/sleep.c: SIGALRM is blocked from before alarm()  *)
(* until sigsuspend lets it in, and the caller's action and mask are put   *)
(* back at the end.  The caller may have an alarm of its own running and   *)
(* SIGALRM blocked; another signal that it catches may end the wait.       *)
(***************************************************************************)
EXTENDS Integers

CONSTANTS MaxSeconds

VARIABLES
  spc,                   \* the next step of sleep()
  seconds, timer,        \* its argument; the process's alarm clock
  action, oldmask,       \* SIGALRM: "old" or "ours"; was it blocked before
  masked, pend,          \* is it blocked, is it pending
  interrupted, oldRan    \* history: not our alarm ended the wait; our alarm ran
                         \* the caller's action

vars == <<spc, seconds, timer, action, oldmask, masked, pend, interrupted, oldRan>>

Init ==
  /\ spc = "sigaction" /\ seconds \in 0 .. MaxSeconds /\ timer \in 0 .. 1
  /\ action = "old" /\ oldmask \in BOOLEAN /\ masked = oldmask /\ pend = FALSE
  /\ interrupted = FALSE /\ oldRan = FALSE

Ours == spc \notin {"sigaction", "block", "alarm"}   \* the timer was set by sleep()

(* A second passes; an alarm that comes to its end sends SIGALRM. *)
Tick ==
  /\ timer > 0 /\ timer' = timer - 1
  /\ IF timer > 1 THEN UNCHANGED <<spc, masked, pend, oldRan>>
     ELSE IF masked THEN pend' = TRUE /\ UNCHANGED <<spc, masked, oldRan>>
     ELSE /\ oldRan' = (oldRan \/ (Ours /\ action = "old")) /\ UNCHANGED pend
          /\ IF spc = "suspended" THEN spc' = "cancel" /\ masked' = TRUE ELSE UNCHANGED <<spc, masked>>
  /\ UNCHANGED <<seconds, action, oldmask, interrupted>>

OtherSignal ==
  /\ spc = "suspended" /\ spc' = "cancel" /\ masked' = TRUE /\ interrupted' = TRUE
  /\ UNCHANGED <<seconds, timer, action, oldmask, pend, oldRan>>

Go(from, to) == spc = from /\ spc' = to

(* Mutation: the caller's action stays in place. *)
NoAction == Go("sigaction", "block") /\ UNCHANGED <<timer, action, masked, pend, oldRan>>
SetAction == Go("sigaction", "block") /\ action' = "ours" /\ UNCHANGED <<timer, masked, pend, oldRan>>

(* Mutation: SIGALRM may come before sigsuspend. *)
NoBlock == Go("block", "alarm") /\ UNCHANGED <<timer, action, masked, pend, oldRan>>
Block == Go("block", "alarm") /\ masked' = TRUE /\ UNCHANGED <<timer, action, pend, oldRan>>

(* alarm(0) sets none. *)
Alarm == Go("alarm", "sigsuspend") /\ timer' = seconds /\ UNCHANGED <<action, masked, pend, oldRan>>

(* sigsuspend unblocks SIGALRM and waits, in one step.  What is pending may   *)
(* be the caller's own alarm, then ours still runs.                          *)
Suspend ==
  /\ oldRan' = (oldRan \/ (pend /\ action = "old" /\ timer = 0))
  /\ IF pend THEN Go("sigsuspend", "cancel") /\ pend' = FALSE /\ UNCHANGED masked
             ELSE Go("sigsuspend", "suspended") /\ masked' = FALSE /\ UNCHANGED pend
  /\ UNCHANGED <<timer, action>>

Cancel == Go("cancel", "restore") /\ timer' = 0 /\ UNCHANGED <<action, masked, pend, oldRan>>
Restore == Go("restore", "unblock") /\ action' = "old" /\ UNCHANGED <<timer, masked, pend, oldRan>>

(* What is pending when the mask is put back goes to the caller's action. *)
Unblock ==
  /\ Go("unblock", "done") /\ masked' = oldmask
  /\ pend' = (pend /\ oldmask) /\ oldRan' = (oldRan \/ (pend /\ ~oldmask))
  /\ UNCHANGED <<timer, action>>

sleep ==
  /\ SetAction \/ Block \/ Alarm \/ Suspend \/ Cancel \/ Restore \/ Unblock
  /\ interrupted' = (interrupted \/ (spc = "sigsuspend" /\ pend /\ timer > 0))
  /\ UNCHANGED <<seconds, oldmask>>

Next == sleep \/ Tick \/ OtherSignal

-----------------------------------------------------------------------------
(* The alarm of sleep() never runs the caller's SIGALRM action, unless       *)
(* another signal, or an alarm that the caller had set, ended the wait: then *)
(* our alarm may come before alarm(0), and is pending when the old action is *)
(* back.                                                                     *)
ActionKept == (oldRan => interrupted) /\ (spc = "done" => action = "old" /\ masked = oldmask)

(* The alarm cannot come and go before sigsuspend waits for it.  With 0      *)
(* seconds no alarm is set, and only another signal ends the wait.           *)
Returns == seconds > 0 => <>(spc = "done")
=============================================================================
