------------------------------ MODULE Timeout ------------------------------
(***************************************************************************)
(* apue.3e/threadctl/timeout.c with makethread of detach.c: under a        *)
(* recursive mutex main asks for retry to be called at a given time.       *)
(* timeout() turns the time into a relative wait for a detached thread, or *)
(* calls the function at once when the time has come, or when there is no  *)
(* memory or no thread.  Time is counted in nanoseconds; a second has      *)
(* SECTONSEC of them.                                                      *)
(***************************************************************************)
EXTENDS Integers

CONSTANTS SECTONSEC, Delay, MaxTime   \* Delay: seconds until the retry

VARIABLES
  clock,                    \* CLOCK_REALTIME
  pc, owner, depth,         \* main's place; the recursive mutex
  when, to_wait,            \* the time asked for; the wait (seconds, nanoseconds)
  helper, wakeup,           \* the thread's place, and when its sleep ends
  calls,                    \* history: calls of retry, and when they began
  failed                    \* history: there was no memory, or no thread

vars == <<clock, pc, owner, depth, when, to_wait, helper, wakeup, calls, failed>>

tv_sec(t) == t \div SECTONSEC
tv_nsec(t) == t % SECTONSEC

Init ==
  /\ clock \in 0 .. SECTONSEC - 1
  /\ pc = "lock" /\ owner = "none" /\ depth = 0
  /\ when = 0 /\ to_wait = [sec |-> 0, nsec |-> 0]
  /\ helper = "none" /\ wakeup = 0 /\ calls = {} /\ failed = FALSE

Tick == clock < MaxTime /\ clock' = clock + 1
        /\ UNCHANGED <<pc, owner, depth, when, to_wait, helper, wakeup, calls, failed>>

(* Mutation: the mutex is not recursive. *)
PlainLock(who) == owner = "none" /\ owner' = who /\ depth' = 1
Lock(who) == owner \in {"none", who} /\ owner' = who /\ depth' = depth + 1
Unlock == depth' = depth - 1 /\ owner' = IF depth = 1 THEN "none" ELSE owner

(* retry, called by who: the steps between lock and unlock are left out. *)
retry(who, from, to, place, place2) ==
  \/ place = from /\ place2 = "retry" /\ Lock(who) /\ calls' = calls \cup {<<who, clock>>}
  \/ place = "retry" /\ place2 = to /\ Unlock /\ UNCHANGED calls

(* Mutation: no second is borrowed. *)
NoBorrow(now) == [sec |-> tv_sec(when) - tv_sec(now), nsec |-> SECTONSEC - tv_nsec(now) + tv_nsec(when)]

(* The time left, as a struct timespec. *)
Wait(now) ==
  LET sec == tv_sec(when) - tv_sec(now) IN
  IF tv_nsec(when) >= tv_nsec(now)
  THEN [sec |-> sec, nsec |-> tv_nsec(when) - tv_nsec(now)]
  ELSE [sec |-> sec - 1, nsec |-> SECTONSEC - tv_nsec(now) + tv_nsec(when)]

Later(now) == \/ tv_sec(when) > tv_sec(now)
              \/ tv_sec(when) = tv_sec(now) /\ tv_nsec(when) > tv_nsec(now)

(* Does makethread succeed?  Its attribute, detach state and thread may not. *)
makethread(err) == helper' = IF err THEN helper ELSE "start"

(* timeout: "call" stands for its last line, reached also when malloc or     *)
(* makethread fails.                                                         *)
timeout ==
  /\ pc = "timeout"
  /\ IF Later(clock)
     THEN \/ /\ to_wait' = Wait(clock)
             /\ \E err \in BOOLEAN :
                  makethread(err) /\ failed' = err /\ pc' = IF err THEN "call" ELSE "unlock"
          \/ failed' = TRUE /\ pc' = "call" /\ UNCHANGED <<to_wait, helper>>   \* malloc fails
     ELSE pc' = "call" /\ UNCHANGED <<to_wait, helper, failed>>
  /\ UNCHANGED <<clock, owner, depth, when, wakeup, calls>>

main ==
  \/ /\ \/ pc = "lock" /\ Lock("main") /\ pc' = "when" /\ UNCHANGED <<when, calls>>
        \/ pc = "when" /\ when' = clock + Delay * SECTONSEC /\ pc' = "timeout"
           /\ UNCHANGED <<owner, depth, calls>>
        \/ retry("main", "call", "unlock", pc, pc') /\ UNCHANGED when
        \/ pc = "unlock" /\ Unlock /\ pc' = "done" /\ UNCHANGED <<when, calls>>
     /\ UNCHANGED <<clock, to_wait, helper, wakeup, failed>>
  \/ timeout

(* The thread: it sleeps for to_wait from when it gets to run. *)
timeout_helper ==
  /\ \/ /\ helper = "start" /\ helper' = "asleep"
        /\ wakeup' = clock + to_wait.sec * SECTONSEC + to_wait.nsec
        /\ UNCHANGED <<owner, depth, calls>>
     \/ helper = "asleep" /\ clock >= wakeup /\ helper' = "call" /\ UNCHANGED <<owner, depth, calls, wakeup>>
     \/ retry("helper", "call", "end", helper, helper') /\ UNCHANGED wakeup
  /\ UNCHANGED <<clock, pc, when, to_wait, failed>>

Next == Tick \/ main \/ timeout_helper

-----------------------------------------------------------------------------
(* retry is called once at most, by main or by the thread, and not before    *)
(* the time asked for, although the wait is computed from a later reading of *)
(* the clock and with a borrow, and slept from a still later one.  The one   *)
(* early call is main's own, after malloc or makethread has failed: "so we   *)
(* just call the function now".  What the thread passes to clock_nanosleep   *)
(* is a valid timespec.                                                      *)
NotEarly ==
  /\ \A c \in calls : c[2] >= when \/ (c[1] = "main" /\ failed)
  /\ \A c, d \in calls : c = d
  /\ to_wait.sec >= 0 /\ to_wait.nsec \in 0 .. SECTONSEC - 1

(* However timeout() goes, main does not wait for itself: when the function  *)
(* is called at once, with the mutex held, main still comes to an end.       *)
MainEnds == <>(pc = "done")
=============================================================================
