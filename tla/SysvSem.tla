------------------------------ MODULE SysvSem ------------------------------
(***************************************************************************)
(* The semaphore library apue.3e/lib/semaph.c: a counting semaphore with a *)
(* reference count and a lock, kept in a System V set of three members.    *)
(* A step is one system call (semget, semop, semctl); a semop is atomic    *)
(* and SEM_UNDO is kept per process and applied when the process exits.    *)
(***************************************************************************)
EXTENDS Integers, FiniteSets

CONSTANTS
  Procs,
  Openers,    \* processes that use sem_open; the others use sem_create
  InitVal,    \* the initial value given to sem_create
  BIGCOUNT,   \* initial value of the process counter
  MaxSets,    \* bound: sets created over time for the key
  MaxExits,   \* bound: processes that exit without sem_close
  Rounds      \* bound: how often a process opens the semaphore

ASSUME ConstantsTyped ==
  /\ Openers \subseteq Procs /\ IsFiniteSet(Procs)
  /\ InitVal \in Nat /\ MaxSets \in Nat /\ MaxExits \in Nat /\ Rounds \in Nat
  /\ BIGCOUNT \in Nat /\ BIGCOUNT > Cardinality(Procs)

VARIABLES
  made,    \* sets created so far; set n is the n-th
  set,     \* the set the key leads to, 0 if there is none
  val,     \* val[n]: the three members of set n
  id,      \* the set each process has the identifier of
  adj,     \* the SEM_UNDO adjustments of each process, for the set id[p]
  pc, rounds, exits

vars == <<made, set, val, id, adj, pc, rounds, exits>>

Zero == [m \in 0 .. 2 |-> 0]
Sets == 1 .. MaxSets

Init ==
  /\ made = 0 /\ set = 0
  /\ val = [n \in Sets |-> Zero]
  /\ id = [p \in Procs |-> 0]
  /\ adj = [p \in Procs |-> Zero]
  /\ pc = [p \in Procs |-> "idle"]
  /\ rounds = [p \in Procs |-> 0]
  /\ exits = 0

Goto(p, from, to) == pc[p] = from /\ pc' = [pc EXCEPT ![p] = to]
Valid(p) == id[p] = set /\ set # 0
V(p, m) == val[id[p]][m]

\* semop with SEM_UNDO: add d[m] to every member m, remember the inverse.
SemOp(p, d) ==
  /\ val' = [val EXCEPT ![id[p]] = [m \in 0 .. 2 |-> @[m] + d[m]]]
  /\ adj' = [adj EXCEPT ![p] = [m \in 0 .. 2 |-> @[m] - d[m]]]

\* op_lock, op_endcreate, op_open, op_close, op_unlock and op_op.
Ops(a, b, c) == [m \in 0 .. 2 |-> CASE m = 0 -> a [] m = 1 -> b [] OTHER -> c]
op_lock == Ops(0, 0, 1)
op_endcreate == Ops(0, -1, -1)
op_open == Ops(0, -1, 0)
op_close == Ops(0, 1, 1)
op_unlock == Ops(0, 0, -1)

-----------------------------------------------------------------------------
(* sem_create.                                                              *)

\* semget(IPC_CREAT): find the set of the key or make one, all members 0.
CreateGet(p) ==
  /\ p \notin Openers
  /\ rounds[p] < Rounds \/ pc[p] = "again"
  /\ pc[p] \in {"idle", "again"}
  /\ set = 0 => made < MaxSets
  /\ pc' = [pc EXCEPT ![p] = "lock"]
  /\ rounds' = [rounds EXCEPT ![p] = IF pc[p] = "idle" THEN @ + 1 ELSE @]
  /\ set' = IF set = 0 THEN made + 1 ELSE set
  /\ made' = IF set = 0 THEN made + 1 ELSE made
  /\ id' = [id EXCEPT ![p] = set']
  /\ adj' = [adj EXCEPT ![p] = Zero]
  /\ UNCHANGED <<val, exits>>

\* semop(op_lock): a process that finds the lock taken sleeps in the kernel.
CreateLock(p) ==
  /\ Valid(p)
  /\ \/ /\ V(p, 2) = 0
        /\ pc[p] \in {"lock", "asleep"}
        /\ pc' = [pc EXCEPT ![p] = "getval"]
        /\ SemOp(p, op_lock)
     \/ /\ V(p, 2) # 0
        /\ Goto(p, "lock", "asleep")
        /\ UNCHANGED <<val, adj>>
  /\ UNCHANGED <<made, set, id, rounds, exits>>

\* Mutation: the label `again' is behind the semget.
CreateRetries(p) ==
  /\ ~Valid(p)
  /\ \/ Goto(p, "lock", "lock")
     \/ Goto(p, "asleep", "failed")
  /\ UNCHANGED <<made, set, val, id, adj, rounds, exits>>

\* The set was removed before the semop: EINVAL, the code tries again.  It was
\* removed while the process slept in the semop: EIDRM, err_sys.
CreateGone(p) ==
  /\ ~Valid(p)
  /\ \/ Goto(p, "lock", "again")
     \/ Goto(p, "asleep", "failed")
  /\ UNCHANGED <<made, set, val, id, adj, rounds, exits>>

\* Mutation: every sem_create initializes the set.
CreateInits(p) ==
  /\ Goto(p, "getval", "set0")
  /\ UNCHANGED <<made, set, val, id, adj, rounds, exits>>

CreateGetval(p) ==
  /\ Goto(p, "getval", IF V(p, 1) = 0 THEN "set0" ELSE "endcreate")
  /\ UNCHANGED <<made, set, val, id, adj, rounds, exits>>

\* semctl(SETVAL) clears the adjustments every process has for that member.
SetVal(p, m, v) ==
  /\ val' = [val EXCEPT ![id[p]][m] = v]
  /\ adj' = [q \in Procs |-> IF id[q] = id[p] THEN [adj[q] EXCEPT ![m] = 0] ELSE adj[q]]

CreateSet0(p) ==
  /\ Goto(p, "set0", "set1")
  /\ SetVal(p, 0, InitVal)
  /\ UNCHANGED <<made, set, id, rounds, exits>>

CreateSet1(p) ==
  /\ Goto(p, "set1", "endcreate")
  /\ SetVal(p, 1, BIGCOUNT)
  /\ UNCHANGED <<made, set, id, rounds, exits>>

\* Mutation: the lock is released but the process is not counted.
EndCreateUncounted(p) ==
  /\ Goto(p, "endcreate", "using")
  /\ SemOp(p, op_unlock)
  /\ UNCHANGED <<made, set, id, rounds, exits>>

\* Mutation: the lock is released twice.
EndCreateTwice(p) ==
  /\ Goto(p, "endcreate", "using")
  /\ SemOp(p, Ops(0, -1, -2))
  /\ UNCHANGED <<made, set, id, rounds, exits>>

CreateEnd(p) ==
  /\ Goto(p, "endcreate", "using")
  /\ V(p, 1) >= 1
  /\ SemOp(p, op_endcreate)
  /\ UNCHANGED <<made, set, id, rounds, exits>>

-----------------------------------------------------------------------------
(* sem_open: semget, then op_open without the lock.                         *)

OpenGet(p) ==
  /\ p \in Openers
  /\ rounds[p] < Rounds
  /\ set # 0
  /\ Goto(p, "idle", "open")
  /\ rounds' = [rounds EXCEPT ![p] = @ + 1]
  /\ id' = [id EXCEPT ![p] = set]
  /\ adj' = [adj EXCEPT ![p] = Zero]
  /\ UNCHANGED <<made, set, val, exits>>

OpenOp(p) ==
  /\ IF Valid(p)
     THEN V(p, 1) >= 1 /\ Goto(p, "open", "using") /\ SemOp(p, op_open)
     ELSE Goto(p, "open", "failed") /\ UNCHANGED <<val, adj>>
  /\ UNCHANGED <<made, set, id, rounds, exits>>

-----------------------------------------------------------------------------
(* sem_wait and sem_signal.                                                 *)

sem_wait(p) ==
  /\ IF Valid(p)
     THEN V(p, 0) >= 1 /\ Goto(p, "using", "inside") /\ SemOp(p, Ops(-1, 0, 0))
     ELSE Goto(p, "using", "failed") /\ UNCHANGED <<val, adj>>
  /\ UNCHANGED <<made, set, id, rounds, exits>>

sem_signal(p) ==
  /\ IF Valid(p)
     THEN Goto(p, "inside", "used") /\ SemOp(p, Ops(1, 0, 0))
     ELSE Goto(p, "inside", "failed") /\ UNCHANGED <<val, adj>>
  /\ UNCHANGED <<made, set, id, rounds, exits>>

-----------------------------------------------------------------------------
(* sem_close.                                                               *)

CloseLock(p) ==
  /\ pc[p] \in {"using", "used"}
  /\ IF Valid(p)
     THEN V(p, 2) = 0 /\ Goto(p, pc[p], "closeget") /\ SemOp(p, op_close)
     ELSE Goto(p, pc[p], "failed") /\ UNCHANGED <<val, adj>>
  /\ UNCHANGED <<made, set, id, rounds, exits>>

\* Mutation: whoever closes removes the set.
CloseRemoves(p) ==
  /\ Goto(p, "closeget", "rm")
  /\ UNCHANGED <<made, set, val, id, adj, rounds, exits>>

CloseGetval(p) ==
  /\ Goto(p, "closeget", CASE V(p, 1) > BIGCOUNT -> "failed"
                           [] V(p, 1) = BIGCOUNT -> "rm"
                           [] OTHER -> "closeunlock")
  /\ UNCHANGED <<made, set, val, id, adj, rounds, exits>>

\* sem_rm: the set and every process's adjustments for it are gone.
sem_rm(p) ==
  /\ Goto(p, "rm", "idle")
  /\ set' = 0
  /\ val' = [val EXCEPT ![id[p]] = Zero]
  /\ adj' = [q \in Procs |-> IF id[q] = id[p] THEN Zero ELSE adj[q]]
  /\ id' = [id EXCEPT ![p] = 0]
  /\ UNCHANGED <<made, rounds, exits>>

CloseUnlock(p) ==
  /\ Goto(p, "closeunlock", "idle")
  /\ SemOp(p, op_unlock)
  /\ id' = [id EXCEPT ![p] = 0]
  /\ UNCHANGED <<made, set, rounds, exits>>

-----------------------------------------------------------------------------

Gone == {"failed", "exited"}

\* The process exits or is killed: the kernel applies its adjustments.
Exit(p) ==
  /\ pc[p] \notin Gone \cup {"idle"}
  /\ exits < MaxExits
  /\ exits' = exits + 1
  /\ pc' = [pc EXCEPT ![p] = "exited"]
  /\ val' = IF Valid(p) THEN [val EXCEPT ![id[p]] = [m \in 0 .. 2 |-> @[m] + adj[p][m]]] ELSE val
  /\ adj' = [adj EXCEPT ![p] = Zero]
  /\ id' = [id EXCEPT ![p] = 0]
  /\ UNCHANGED <<made, set, rounds>>

Create(p) ==
  \/ CreateLock(p) \/ CreateGone(p) \/ CreateGetval(p) \/ CreateSet0(p)
  \/ CreateSet1(p) \/ CreateEnd(p) \/ (pc[p] = "again" /\ CreateGet(p))
Close(p) == CloseLock(p) \/ CloseGetval(p) \/ sem_rm(p) \/ CloseUnlock(p)
Step(p) == Create(p) \/ OpenOp(p) \/ sem_signal(p) \/ Close(p)

\* Nobody has anything left to do.  A sem_open waits for ever if the processes
\* that were to initialize the set are gone.
Finished ==
  /\ \A p \in Procs :
       \/ pc[p] \in Gone \cup {"idle"}
       \/ pc[p] = "open" /\ Valid(p) /\ V(p, 1) = 0
  /\ UNCHANGED vars

Next ==
  \/ \E p \in Procs :
       \/ pc[p] = "idle" /\ CreateGet(p)
       \/ OpenGet(p) \/ Step(p) \/ sem_wait(p) \/ Exit(p)
  \/ Finished

Spec == Init /\ [][Next]_vars

\* A process that has begun to open or close the semaphore keeps running.
FairSpec == Spec /\ \A p \in Procs : WF_vars(Step(p))

-----------------------------------------------------------------------------

Users == {p \in Procs : pc[p] \in {"using", "inside", "used"}}

TypeOK ==
  /\ made \in 0 .. MaxSets /\ set \in 0 .. MaxSets
  /\ val \in [Sets -> [0 .. 2 -> Nat]]
  /\ id \in [Procs -> 0 .. MaxSets]
  /\ adj \in [Procs -> [0 .. 2 -> Int]]
  /\ pc \in [Procs -> {"idle", "again", "lock", "asleep", "getval", "set0", "set1",
                       "endcreate", "open", "using", "inside", "used", "closeget",
                       "rm", "closeunlock"} \cup Gone]
  /\ rounds \in [Procs -> 0 .. Rounds] /\ exits \in 0 .. MaxExits

\* The semaphore is not removed under a process that got it from sem_create and
\* has not closed it: sem_close removes the set for the last user only, whatever
\* processes with sem_open do meanwhile.
NotRemovedWhileUsed == \A p \in Users \ Openers : Valid(p)

\* At most InitVal processes are between sem_wait and sem_signal of a set, and no
\* others that sem_create let in, also across creation by several processes at
\* once, exits, and the removal of the set and its creation anew.
MutualExclusion ==
  Cardinality({p \in Procs : pc[p] = "inside" /\ (p \in Openers => Valid(p))}) <= InitVal

\* A user finds the set initialized, and whenever the lock is free the counter
\* is BIGCOUNT less the number of its users: the adjustments of processes that
\* exited, in whatever step, are accounted for.  No value is ever negative.
CounterIsExact ==
  LET now == {p \in Users : Valid(p)} IN
  /\ TypeOK
  /\ now # {} /\ val[set][2] = 0 => val[set][1] = BIGCOUNT - Cardinality(now)

\* "We don't need a lock to do this": a sem_open that returned gave its caller a
\* semaphore that stays until the caller closes it.
OpenNeedsNoLock == \A p \in Users \cap Openers : Valid(p)

\* Every sem_create returns or fails: the lock is never left behind.
CreateReturns ==
  \A p \in Procs : pc[p] = "lock" ~> pc[p] \in {"using", "idle"} \cup Gone
=============================================================================
