------------------------------ MODULE QuitFlag ------------------------------
(***************************************************************************)
(* Two programs that wait for SIGQUIT: apue.3e/threadctl/suspend.c, where  *)
(* a thread takes the signals with sigwait and tells main through a        *)
(* condition variable, and apue.3e/signals/suspend2.c, where main waits in *)
(* sigsuspend for a handler to set the flag.  A signal that is pending is  *)
(* not queued a second time.                                               *)
(***************************************************************************)
EXTENDS Integers

CONSTANTS MaxSends   \* how often each signal is sent

VARIABLES
  prog,                     \* "thread" (suspend.c) or "handler" (suspend2.c)
  mpc, tpc,                 \* main's place, the thread's
  quitflag, lock,           \* the flag, and who holds its mutex
  pending, blocked, caught, \* signals: pending, in main's mask, with a handler
  sent                      \* history: how often each was sent

vars == <<prog, mpc, tpc, quitflag, lock, pending, blocked, caught, sent>>

Signals == {"INT", "QUIT"}

Init ==
  /\ prog \in {"thread", "handler"}
  /\ mpc = "start" /\ tpc = "none" /\ quitflag = 0 /\ lock = "free"
  /\ pending = {} /\ blocked = {} /\ caught = {}
  /\ sent = [s \in Signals |-> 0]

Ended == mpc \in {"exit", "killed"}

Main(from, to) == mpc = from /\ mpc' = to

(* The handler of suspend2.c. *)
sig_int(S) == quitflag' = IF "QUIT" \in S THEN 1 ELSE quitflag

(* A signal is sent.  Both programs start with the default actions. *)
Send(s) ==
  /\ ~Ended /\ sent[s] < MaxSends
  /\ sent' = [sent EXCEPT ![s] = @ + 1]
  /\ IF s \in blocked THEN pending' = pending \cup {s} /\ UNCHANGED <<mpc, quitflag, blocked>>
     ELSE IF s \notin caught THEN mpc' = "killed" /\ UNCHANGED <<pending, quitflag, blocked>>
     ELSE /\ sig_int({s})
          /\ IF mpc = "asleep" THEN mpc' = "loop" /\ blocked' = {"QUIT"}   \* sigsuspend returns
                               ELSE UNCHANGED <<mpc, blocked>>
          /\ UNCHANGED pending
  /\ UNCHANGED <<prog, tpc, lock, caught>>

-----------------------------------------------------------------------------
(* suspend.c: main blocks the signals, starts the thread, waits. *)
MainThread ==
  /\ prog = "thread"
  /\ \/ Main("start", "create") /\ blocked' = Signals /\ UNCHANGED <<tpc, quitflag, lock>>
     \/ Main("create", "lock") /\ tpc' = "sigwait" /\ UNCHANGED <<quitflag, lock, blocked>>
     \/ Main("lock", "test") /\ lock = "free" /\ lock' = "main" /\ UNCHANGED <<tpc, quitflag, blocked>>
     \/ quitflag = 0 /\ Main("test", "wait") /\ UNCHANGED <<tpc, quitflag, lock, blocked>>
     \/ Main("wait", "waiting") /\ lock' = "free" /\ UNCHANGED <<tpc, quitflag, blocked>>
     \/ quitflag # 0 /\ Main("test", "done") /\ lock' = "free" /\ UNCHANGED <<tpc, quitflag, blocked>>
     \/ Main("done", "reset") /\ quitflag' = 0 /\ UNCHANGED <<tpc, lock, blocked>>
     \/ /\ mpc = "reset" /\ mpc' = IF pending = {} THEN "exit" ELSE "killed"
        /\ blocked' = {} /\ UNCHANGED <<tpc, quitflag, lock>>
  /\ UNCHANGED <<prog, pending, caught, sent>>

(* pthread_cond_wait may also return without a signal. *)
Spurious ==
  /\ Main("waiting", "lock")
  /\ UNCHANGED <<prog, tpc, quitflag, lock, pending, blocked, caught, sent>>

(* Mutation: the thread without the mutex: the flag may change between test and wait. *)
FlagUnlocked ==
  /\ ~Ended
  /\ \/ /\ tpc = "sigwait" /\ pending # {}
        /\ \E s \in pending : pending' = pending \ {s} /\ tpc' = IF s = "QUIT" THEN "set" ELSE tpc
        /\ UNCHANGED <<mpc, quitflag, lock>>
     \/ tpc = "set" /\ tpc' = "signal" /\ quitflag' = 1 /\ UNCHANGED <<mpc, lock, pending>>
     \/ tpc = "signal" /\ tpc' = "end" /\ mpc' = (IF mpc = "waiting" THEN "lock" ELSE mpc)
        /\ UNCHANGED <<quitflag, lock, pending>>
  /\ UNCHANGED <<prog, blocked, caught, sent>>

thr_fn ==
  /\ ~Ended
  /\ \/ /\ tpc = "sigwait"
        /\ \E s \in pending : pending' = pending \ {s} /\ tpc' = IF s = "QUIT" THEN "lock" ELSE tpc
        /\ UNCHANGED <<mpc, quitflag, lock>>
     \/ tpc = "lock" /\ lock = "free" /\ tpc' = "set" /\ lock' = "thread" /\ UNCHANGED <<mpc, quitflag, pending>>
     \/ tpc = "set" /\ tpc' = "signal" /\ quitflag' = 1 /\ lock' = "free" /\ UNCHANGED <<mpc, pending>>
     \/ tpc = "signal" /\ tpc' = "end" /\ mpc' = (IF mpc = "waiting" THEN "lock" ELSE mpc)
        /\ UNCHANGED <<quitflag, lock, pending>>
  /\ UNCHANGED <<prog, blocked, caught, sent>>

-----------------------------------------------------------------------------
(* suspend2.c: the handlers, the mask, the loop around sigsuspend. *)
MainHandler ==
  /\ prog = "handler"
  /\ \/ Main("start", "second") /\ caught' = {"INT"} /\ UNCHANGED <<quitflag, pending, blocked>>
     \/ Main("second", "block") /\ caught' = Signals /\ UNCHANGED <<quitflag, pending, blocked>>
     \/ Main("block", "loop") /\ blocked' = {"QUIT"} /\ UNCHANGED <<quitflag, pending, caught>>
     \/ /\ mpc = "loop" /\ quitflag = 0       \* sigsuspend: unblock and sleep are one step
        /\ IF pending = {} THEN mpc' = "asleep" /\ blocked' = {} /\ UNCHANGED <<quitflag, pending>>
                           ELSE sig_int(pending) /\ pending' = {} /\ UNCHANGED <<mpc, blocked>>
        /\ UNCHANGED caught
     \/ Main("loop", "reset") /\ quitflag # 0 /\ quitflag' = 0 /\ UNCHANGED <<pending, blocked, caught>>
     \/ /\ Main("reset", "exit") /\ blocked' = {} /\ pending' = {} /\ sig_int(pending)
        /\ UNCHANGED caught
  /\ UNCHANGED <<prog, tpc, lock, sent>>

MainStep == MainThread \/ MainHandler
Next == MainStep \/ thr_fn \/ Spurious \/ \E s \in Signals : Send(s)

-----------------------------------------------------------------------------
(* One SIGQUIT, whenever it comes, ends the program's wait: it is neither    *)
(* lost between the test of quitflag and the wait nor forgotten while main   *)
(* is not waiting.                                                           *)
QuitEndsWait == sent["QUIT"] > 0 ~> Ended
=============================================================================
