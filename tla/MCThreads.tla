----------------------------- MODULE MCThreads -----------------------------
(***************************************************************************)
(* The programs on threads, side by side: a behaviour is one of the        *)
(* program named by which, the others rest in their initial states.        *)
(***************************************************************************)
EXTENDS FooHash, Sequences

CONSTANTS
  Null,                                       \* no job, message, buffer or holder
  JobWorkers, QueuedJobs, JobId,              \* JobQueue
  Producers, Consumers, Msgs,                 \* WorkQueue
  MaxSends,                                   \* QuitFlag
  NTHR, TNUM, Values, LONG_MAX,               \* BarrierSort
  SECTONSEC, Delay, MaxTime,                  \* Timeout
  EnvThreads, Names, ValueLen, Buflen, MAXSTRINGSZ,   \* GetenvKey
  MaxMsgs                                     \* PollMsg

ASSUME JobsAssumption == Null \notin QueuedJobs
ASSUME MsgsAssumption == Null \notin Msgs
ASSUME SortAssumption ==
  /\ NTHR \in Nat /\ TNUM \in Nat \ {0}
  /\ Values \subseteq Int /\ LONG_MAX \in Int /\ \A v \in Values : v < LONG_MAX
ASSUME TimeAssumption == SECTONSEC \in Nat \ {0} /\ Delay \in Nat /\ MaxTime \in Nat
ASSUME EnvAssumption ==
  /\ {Null, "no", "done"} \cap EnvThreads = {} /\ ValueLen \in [Names -> Int]
  /\ Buflen \in Nat /\ MAXSTRINGSZ \in Nat

VARIABLES
  which,
  alive3, table3, f_count3, refs3, f_lock3, pc3, fp3,
  q_head, q_tail, j_next, j_prev, readers, found, jp, queue,
  workq, m_next, qlock, waiting, cpc, mp, owing, unsent, taken,
  qprog, mpc, tpc, quitflag, lock, pending, blocked, caught, qsent,
  nums, snums, arrived, tstate, bpc, idx, given,
  clock, topc, owner, depth, when, to_wait, helper, wakeup, calls, failed,
  once, keyed, env_mutex, gpc, call, name, ptr, buf, own,
  mprog, sent, mq, hpc, m, sock, npc, mutex, printed, spurious

countVars == <<alive3, table3, f_count3, refs3, f_lock3, pc3, fp3>>
jobsVars == <<q_head, q_tail, j_next, j_prev, readers, found, jp, queue>>
workVars == <<workq, m_next, qlock, waiting, cpc, mp, owing, unsent, taken>>
quitVars == <<qprog, mpc, tpc, quitflag, lock, pending, blocked, caught, qsent>>
sortVars == <<nums, snums, arrived, tstate, bpc, idx, given>>
retryVars == <<clock, topc, owner, depth, when, to_wait, helper, wakeup, calls, failed>>
envVars == <<once, keyed, env_mutex, gpc, call, name, ptr, buf, own>>
pollVars == <<mprog, sent, mq, hpc, m, sock, npc, mutex, printed, spurious>>

(* The same threads and objects, counting under hashlock. *)
Count == INSTANCE FooCount WITH
  alive <- alive3, table <- table3,
  f_count <- f_count3, refs <- refs3, f_lock <- f_lock3, pc <- pc3, fp <- fp3

Jobs == INSTANCE JobQueue WITH Workers <- JobWorkers, Jobs <- QueuedJobs
Work == INSTANCE WorkQueue WITH NoMsg <- Null
Quit == INSTANCE QuitFlag WITH prog <- qprog, sent <- qsent
Sort == INSTANCE BarrierSort
Retry == INSTANCE Timeout WITH pc <- topc
Env == INSTANCE GetenvKey WITH Threads <- EnvThreads, NoBuf <- Null
Poll == INSTANCE PollMsg WITH prog <- mprog

All == <<which, vars, countVars, jobsVars, workVars, quitVars, sortVars, retryVars,
         envVars, pollVars>>

MCInit ==
  /\ which \in {"hash", "count", "jobs", "work", "quit", "sort", "retry", "env", "poll"}
  /\ Init /\ Count!Init /\ Jobs!queue_init /\ Work!Init
  /\ Quit!Init /\ (which = "quit" \/ qprog = "thread")
  /\ Sort!Init /\ (which = "sort" \/ nums = [i \in DOMAIN nums |-> CHOOSE v \in Values : TRUE])
  /\ Retry!Init /\ (which = "retry" \/ clock = 0)
  /\ Env!Init /\ name = [t \in EnvThreads |-> CHOOSE n \in Names : TRUE]
  /\ Poll!Init /\ (which = "poll" \/ mprog = "copy")

Rest(p) ==
  /\ which = p /\ UNCHANGED which
  /\ IF p = "hash" THEN TRUE ELSE UNCHANGED vars
  /\ IF p = "count" THEN TRUE ELSE UNCHANGED countVars
  /\ IF p = "jobs" THEN TRUE ELSE UNCHANGED jobsVars
  /\ IF p = "work" THEN TRUE ELSE UNCHANGED workVars
  /\ IF p = "quit" THEN TRUE ELSE UNCHANGED quitVars
  /\ IF p = "sort" THEN TRUE ELSE UNCHANGED sortVars
  /\ IF p = "retry" THEN TRUE ELSE UNCHANGED retryVars
  /\ IF p = "env" THEN TRUE ELSE UNCHANGED envVars
  /\ IF p = "poll" THEN TRUE ELSE UNCHANGED pollVars

(* The programs that come to an end. *)
Finished ==
  /\ \/ which = "quit" /\ Quit!Ended
     \/ which = "sort" /\ bpc = "merge" /\ Len(snums) = NTHR * TNUM
     \/ which = "retry" /\ topc = "done" /\ helper \in {"none", "end", "asleep"} /\ clock = MaxTime
     \/ which = "poll" /\ sent = MaxMsgs /\ mq = <<>> /\ sock = <<>>
  /\ UNCHANGED All

MCNext ==
  \/ Next /\ Rest("hash")
  \/ Count!Next /\ Rest("count")
  \/ Jobs!Next /\ Rest("jobs")
  \/ Work!Next /\ Rest("work")
  \/ Quit!Next /\ Rest("quit")
  \/ Sort!Next /\ Rest("sort")
  \/ Retry!Next /\ Rest("retry")
  \/ Env!Next /\ Rest("env")
  \/ Poll!Next /\ Rest("poll")
  \/ Finished

(* Threads that can run do run: the fairness of a preemptive scheduler.  New *)
(* messages, signals and spurious wakeups are never owed.                    *)
MCSpec ==
  /\ MCInit /\ [][MCNext]_All
  /\ \A c \in Consumers : WF_All(Rest("work") /\ Work!process_msg(c))
  /\ WF_All(Rest("work") /\ \E p \in Producers : Work!Signal(p))
  /\ WF_All(Rest("quit") /\ Quit!MainStep) /\ SF_All(Rest("quit") /\ Quit!thr_fn)
  /\ WF_All(Rest("retry") /\ Retry!main)
  /\ WF_All(Rest("poll") /\ Poll!helper) /\ WF_All(Rest("poll") /\ Poll!main)

-----------------------------------------------------------------------------
(* The instance that is checked.  Three threads count references to two      *)
(* addresses with the same id, and there is an id that nobody has.  Of three *)
(* jobs two are for one worker, so a job may have neighbours.  Values of the *)
(* environment have room for the terminator, have none, or are not set.      *)
CONSTANTS t1, t2, t3, o1, o2, i1, i2

MCIdOf == [o \in Objs |-> i1]
MCJobId == <<"w1", "w2", "w1">>
MCValueLen == [full |-> 3, long |-> 4, unset |-> -1]

-----------------------------------------------------------------------------
(* mutex3.c, which counts under hashlock, implements the table of references *)
(* that mutex2.c implements (RefTable).                                      *)
CountImplements == Count!Implements

(* Jobs and messages are handed over intact: the list of job_insert,         *)
(* job_append and job_remove is the queue, both ways, and job_find misses    *)
(* none of a worker's own jobs (rwlock.c); no message is taken twice, though *)
(* the signal comes after the unlock (condvar.c); pollmsg.c and pollmsg2.c   *)
(* print each message once, as it was sent.                                  *)
QueuesIntact ==
  Jobs!ListIsQueue /\ Jobs!FindIsExact /\ Work!TakenOnce /\ Poll!PrintsMessages

(* What a thread relies on is not changed under it: getenv and getenv_r give *)
(* each thread its own value, with a key that pthread_once has made;         *)
(* foo_alloc's mutex is not destroyed while it is held (mutex3.c).           *)
HeldIsOwn == Env!OwnValue /\ Env!KeyIsMade /\ Count!LockedIsAlive

(* Nothing is done too early: the merge of barrier.c sees sorted parts and   *)
(* gives the numbers in order; timeout() runs its function once, before the  *)
(* time only when it could get no memory or no thread, and its timespec is   *)
(* valid after the borrow.                                                   *)
NotTooEarly == Sort!Sorted /\ Retry!NotEarly

(* Every wait ends: each message is taken, whenever the signal comes         *)
(* (condvar.c), and printed (pollmsg2.c); SIGQUIT ends the wait of suspend.c *)
(* and suspend2.c; and main does not wait for itself when timeout() runs the *)
(* function in the thread that holds the mutex.                              *)
WaitsEnd ==
  /\ Work!AllTaken /\ Poll!AllPrinted
  /\ which = "quit" => Quit!QuitEndsWait
  /\ which = "retry" => Retry!MainEnds
=============================================================================
