------------------------------- MODULE Daemon -------------------------------
(***************************************************************************)
(* A daemon that runs once: daemonize (apue.3e/lib/daemonize.c, daemons/   *)
(* init.c), already_running (daemons/single.c) with lockfile (advio/       *)
(* lockfile.c), and the two ways to re-read the configuration on SIGHUP,   *)
(* with a thread (daemons/reread.c) or with handlers (daemons/reread2.c).  *)
(* Several copies are started; each changes its process with every fork.   *)
(***************************************************************************)
EXTENDS Integers, FiniteSets

CONSTANTS
  Copies,      \* the times the daemon is started
  OpenFds,     \* the descriptors it inherits
  MaxFd,       \* rlim_max: descriptors from here on are not closed
  Nobody

VARIABLES
  form,                \* "thread" or "handler"
  dpc, gen,            \* each copy's next step; how often it has forked
  leader, ctty,        \* is it a session leader, has it a controlling terminal
  fds,                 \* its open descriptors, and what they lead to
  flock, pidfile,      \* who holds the lock on LOCKFILE; who is written there
  hup, mask,           \* SIGHUP: "dfl", "ign" or "catch"; are all signals blocked
  dpend, rereads       \* pending signals; history: how often it re-read

vars == <<form, dpc, gen, leader, ctty, fds, flock, pidfile, hup, mask, dpend, rereads>>

Pid(d) == <<d, gen[d]>>

Init ==
  /\ form \in {"thread", "handler"}
  /\ dpc = [d \in Copies |-> "fork1"] /\ gen = [d \in Copies |-> 0]
  /\ leader = [d \in Copies |-> FALSE] /\ ctty = [d \in Copies |-> TRUE]
  /\ fds = [d \in Copies |-> [f \in OpenFds |-> "inherited"]]
  /\ flock = Nobody /\ pidfile = Nobody
  /\ hup = [d \in Copies |-> "dfl"] /\ mask = [d \in Copies |-> FALSE]
  /\ dpend = [d \in Copies |-> {}] /\ rereads = [d \in Copies |-> 0]

Go(d, from, to) == dpc[d] = from /\ dpc' = [dpc EXCEPT ![d] = to]

(* A process ends: its record lock goes with it. *)
Dies(d) ==
  /\ dpc' = [dpc EXCEPT ![d] = "dead"]
  /\ flock' = IF flock = Pid(d) THEN Nobody ELSE flock

(* fork, and the parent exits: the child has another pid and no locks. *)
Fork(d) ==
  /\ \/ Go(d, "fork1", "setsid")
     \/ Go(d, "fork2", "close")
  /\ gen' = [gen EXCEPT ![d] = @ + 1]
  /\ leader' = [leader EXCEPT ![d] = FALSE]
  /\ UNCHANGED <<ctty, fds, flock, pidfile, hup, mask, rereads>>

Setsid(d) ==
  /\ Go(d, "setsid", "ignore")
  /\ leader' = [leader EXCEPT ![d] = TRUE] /\ ctty' = [ctty EXCEPT ![d] = FALSE]
  /\ UNCHANGED <<gen, fds, flock, pidfile, hup, mask, rereads>>

(* Mutation: no second fork. *)
OneFork(d) ==
  /\ Go(d, "ignore", "close") /\ hup' = [hup EXCEPT ![d] = "ign"]
  /\ UNCHANGED <<gen, leader, ctty, fds, flock, pidfile, mask, rereads>>
IgnoreHup(d) ==
  /\ Go(d, "ignore", "fork2") /\ hup' = [hup EXCEPT ![d] = "ign"]
  /\ UNCHANGED <<gen, leader, ctty, fds, flock, pidfile, mask, rereads>>

(* Close all; then open("/dev/null") and two dups must give 0, 1 and 2. *)
CloseAll(d) ==
  /\ Go(d, "close", "lock")
  /\ fds' = [fds EXCEPT ![d] = [f \in (0 .. 2) \cup {g \in DOMAIN @ : g >= MaxFd} |->
                                  IF f <= 2 THEN "null" ELSE @[f]]]
  /\ UNCHANGED <<gen, leader, ctty, flock, pidfile, hup, mask, rereads>>

daemonize(d) == Fork(d) \/ Setsid(d) \/ IgnoreHup(d) \/ CloseAll(d)

(* Whoever opens a terminal as a session leader gets it to control him. *)
OpenTty(d) ==
  /\ dpc[d] = "run" /\ ctty' = [ctty EXCEPT ![d] = @ \/ leader[d]]
  /\ UNCHANGED <<form, dpc, gen, leader, fds, flock, pidfile, hup, mask, dpend, rereads>>

(* Mutation: the lock is always granted. *)
AnyLock(d) == flock' = Pid(d)
lockfile(d) == flock = Nobody /\ flock' = Pid(d)

already_running(d) ==
  /\ \/ Go(d, "lock", "trunc") /\ lockfile(d) /\ UNCHANGED pidfile
     \/ Go(d, "lock", "dead") /\ flock # Nobody /\ UNCHANGED <<flock, pidfile>>
     \/ Go(d, "trunc", "write") /\ pidfile' = Nobody /\ UNCHANGED flock
     \/ Go(d, "write", "sigs") /\ pidfile' = Pid(d) /\ UNCHANGED flock
  /\ UNCHANGED <<gen, leader, ctty, fds, hup, mask, rereads>>

(* main, once it is the only one: SIGHUP is no longer ignored.  reread.c     *)
(* has it at its default until the mask is set; reread2.c sets the handlers. *)
Signals(d) ==
  /\ \/ form = "thread" /\ Go(d, "sigs", "block") /\ hup' = [hup EXCEPT ![d] = "dfl"] /\ UNCHANGED mask
     \/ Go(d, "block", "run") /\ mask' = [mask EXCEPT ![d] = TRUE] /\ UNCHANGED hup
     \/ form = "handler" /\ Go(d, "sigs", "run") /\ hup' = [hup EXCEPT ![d] = "catch"] /\ UNCHANGED mask
  /\ UNCHANGED <<gen, leader, ctty, fds, flock, pidfile, rereads>>

main(d) ==
  /\ daemonize(d) \/ already_running(d) \/ Signals(d)
  /\ UNCHANGED <<form, dpend>>

(* The thread of reread.c takes one pending signal; SIGTERM ends the daemon. *)
thr_fn(d) ==
  /\ form = "thread" /\ dpc[d] = "run"
  /\ \/ "HUP" \in dpend[d] /\ dpend' = [dpend EXCEPT ![d] = @ \ {"HUP"}]
        /\ rereads' = [rereads EXCEPT ![d] = 1] /\ UNCHANGED <<dpc, flock>>
     \/ "TERM" \in dpend[d] /\ Dies(d) /\ UNCHANGED <<dpend, rereads>>
  /\ UNCHANGED <<form, gen, leader, ctty, fds, pidfile, hup, mask>>

(* A signal to the daemon; the handlers of reread2.c run at once. *)
Kill(d, s) ==
  /\ dpc[d] # "dead"
  /\ IF mask[d] THEN dpend' = [dpend EXCEPT ![d] = @ \cup {s}] /\ UNCHANGED <<dpc, flock, rereads>>
     ELSE IF s = "HUP" /\ hup[d] = "ign" THEN UNCHANGED <<dpc, flock, dpend, rereads>>
     ELSE IF s = "HUP" /\ hup[d] = "catch"
          THEN rereads' = [rereads EXCEPT ![d] = 1] /\ UNCHANGED <<dpc, flock, dpend>>
     ELSE Dies(d) /\ UNCHANGED <<dpend, rereads>>
  /\ UNCHANGED <<form, gen, leader, ctty, fds, pidfile, hup, mask>>

Next ==
  \E d \in Copies :
    \/ main(d) \/ thr_fn(d) \/ OpenTty(d)
    \/ \E s \in {"HUP", "TERM"} : Kill(d, s)

-----------------------------------------------------------------------------
(* At most one copy gets past already_running, and the pid in the lock file  *)
(* is its own: the lock is taken by the process that stays, after the last   *)
(* fork, and is gone with it.                                                *)
OneDaemon ==
  /\ Cardinality({d \in Copies : dpc[d] \in {"trunc", "write", "sigs", "block", "run"}}) <= 1
  /\ \A d \in Copies : dpc[d] \in {"sigs", "block", "run"} => pidfile = Pid(d)

(* A daemon never comes to have a controlling terminal, and has none of the  *)
(* descriptors it was started with, except those from rlim_max on.           *)
Detached ==
  \A d \in Copies : dpc[d] = "run" =>
    /\ ~ctty[d]
    /\ \A f \in DOMAIN fds[d] : f < MaxFd => fds[d][f] = "null"

(* A SIGHUP that the running daemon has not ignored is acted upon.           *)
HupIsHeard == \A d \in Copies : "HUP" \in dpend[d] ~> rereads[d] = 1 \/ dpc[d] = "dead"
=============================================================================
