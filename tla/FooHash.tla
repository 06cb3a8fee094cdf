------------------------------ MODULE FooHash ------------------------------
(***************************************************************************)
(* The reference-counted objects of apue.3e/threads/mutex2.c: the count is *)
(* protected by the object's own mutex, the hash table by hashlock, and a  *)
(* thread that finds it holds the last reference has to give up the first  *)
(* to get both in the right order, and look again.                         *)
(*                                                                         *)
(* A step is one lock operation with the accesses up to the next one.  The *)
(* lists behind fh[] are a set here: they are read and written only under  *)
(* hashlock.  A reference is named by the thread it is for, one per object *)
(* (a thread that needs two counts as two).                                *)
(***************************************************************************)
EXTENDS Integers, FiniteSets

CONSTANTS
  Threads, Objs,   \* threads, and the addresses malloc can return
  Ids, IdOf,       \* the id of the object at each address
  NoThread, NoObj

ASSUME ThreadsFinite == IsFiniteSet(Threads)
ASSUME NobodyElse == NoThread \notin Threads /\ NoObj \notin Objs
ASSUME IdsTyped == IdOf \in [Objs -> Ids]

VARIABLES
  alive,      \* addresses in use
  table,      \* objects on the lists of fh[]
  f_count,    \* the reference counts
  refs,       \* history: the references handed out
  hashlock,   \* the holder of hashlock
  f_lock,     \* the holder of each object's mutex
  pc,         \* the next step of each thread
  fp,         \* the object a call is about
  to          \* foo_hold: who the new reference is for

vars == <<alive, table, f_count, refs, hashlock, f_lock, pc, fp, to>>

Init ==
  /\ alive = {} /\ table = {}
  /\ f_count = [o \in Objs |-> 0]
  /\ refs = [o \in Objs |-> {}]
  /\ hashlock = NoThread
  /\ f_lock = [o \in Objs |-> NoThread]
  /\ pc = [t \in Threads |-> "idle"]
  /\ fp = [t \in Threads |-> NoObj]
  /\ to = [t \in Threads |-> NoThread]

At(t, label) == pc[t] = label
Goto(t, from, label) == At(t, from) /\ pc' = [pc EXCEPT ![t] = label]

LockHash(t) == hashlock = NoThread /\ hashlock' = t
UnlockHash == hashlock' = NoThread
Lock(t) == f_lock[fp[t]] = NoThread /\ f_lock' = [f_lock EXCEPT ![fp[t]] = t]
Unlock(t) == f_lock' = [f_lock EXCEPT ![fp[t]] = NoThread]

AddCount(o, t) ==
  /\ f_count' = [f_count EXCEPT ![o] = @ + 1]
  /\ refs' = [refs EXCEPT ![o] = @ \cup {t}]
SubCount(o, t) ==
  /\ f_count' = [f_count EXCEPT ![o] = @ - 1]
  /\ refs' = [refs EXCEPT ![o] = @ \ {t}]

Return(t) == fp' = [fp EXCEPT ![t] = NoObj] /\ to' = [to EXCEPT ![t] = NoThread]

-----------------------------------------------------------------------------
(* foo_alloc.  malloc or pthread_mutex_init may fail: then nothing changes. *)

Malloc(t) ==
  /\ Goto(t, "idle", "a_hash")
  /\ \E o \in Objs \ alive :
       /\ alive' = alive \cup {o}
       /\ f_count' = [f_count EXCEPT ![o] = 1]
       /\ refs' = [refs EXCEPT ![o] = {t}]
       /\ fp' = [fp EXCEPT ![t] = o]
  /\ UNCHANGED <<table, hashlock, f_lock, to>>

AllocInsert(t) ==
  /\ Goto(t, "a_hash", "a_lock")
  /\ LockHash(t)
  /\ table' = table \cup {fp[t]}
  /\ UNCHANGED <<alive, f_count, refs, f_lock, fp, to>>

AllocLock(t) ==
  /\ Goto(t, "a_lock", "a_unhash")
  /\ Lock(t)
  /\ UNCHANGED <<alive, table, f_count, refs, hashlock, fp, to>>

AllocUnhash(t) ==
  /\ Goto(t, "a_unhash", "unlock")
  /\ UnlockHash
  /\ UNCHANGED <<alive, table, f_count, refs, f_lock, fp, to>>

-----------------------------------------------------------------------------
(* foo_hold, and foo_find around it.                                        *)

\* Thread t neither has a reference to o nor is being given one.
Free(t, o) == t \notin refs[o] /\ \A s \in Threads : fp[s] = o => to[s] # t

\* A thread that has a reference makes one for another thread.
HoldCall(t) ==
  /\ Goto(t, "idle", "h_lock")
  /\ \E o \in Objs, u \in Threads :
       /\ t \in refs[o] /\ Free(u, o)
       /\ fp' = [fp EXCEPT ![t] = o]
       /\ to' = [to EXCEPT ![t] = u]
  /\ UNCHANGED <<alive, table, f_count, refs, hashlock, f_lock>>

FindCall(t) ==
  /\ Goto(t, "idle", "f_hash")
  /\ UNCHANGED <<alive, table, f_count, refs, hashlock, f_lock, fp, to>>

\* Search the list of the id under hashlock.  (A thread that already has a
\* reference does not look for another: references are named by threads.)
Named(i) == {o \in table : IdOf[o] = i}

\* Mutation: the list is searched and the object held without hashlock.
FindUnlocked(t) ==
  /\ \/ Goto(t, "f_hash", "idle") /\ UNCHANGED <<fp, to>>
     \/ /\ Goto(t, "f_hash", "h_lock")
        /\ \E o \in table : Free(t, o) /\ fp' = [fp EXCEPT ![t] = o]
        /\ to' = [to EXCEPT ![t] = t]
  /\ UNCHANGED <<alive, table, f_count, refs, hashlock, f_lock>>

FindHash(t) ==
  /\ At(t, "f_hash") /\ LockHash(t)
  /\ \E i \in Ids :
       \/ /\ Named(i) = {}
          /\ Goto(t, "f_hash", "f_unhash")
          /\ UNCHANGED <<fp, to>>
       \/ /\ Goto(t, "f_hash", "h_lock")
          /\ \E o \in Named(i) : Free(t, o) /\ fp' = [fp EXCEPT ![t] = o]
          /\ to' = [to EXCEPT ![t] = t]
  /\ UNCHANGED <<alive, table, f_count, refs, f_lock>>

HoldLock(t) ==
  /\ Goto(t, "h_lock", IF hashlock = t THEN "f_unlock" ELSE "unlock")
  /\ Lock(t)
  /\ AddCount(fp[t], to[t])
  /\ UNCHANGED <<alive, table, hashlock, fp, to>>

FindUnlock(t) ==
  /\ Goto(t, "f_unlock", "f_unhash")
  /\ Unlock(t)
  /\ Return(t)
  /\ UNCHANGED <<alive, table, f_count, refs, hashlock>>

FindUnhash(t) ==
  /\ Goto(t, "f_unhash", "idle")
  /\ UnlockHash
  /\ UNCHANGED <<alive, table, f_count, refs, f_lock, fp, to>>

-----------------------------------------------------------------------------
(* foo_rele.                                                                *)

ReleCall(t) ==
  /\ Goto(t, "idle", "r_lock")
  /\ \E o \in Objs : t \in refs[o] /\ fp' = [fp EXCEPT ![t] = o]
  /\ UNCHANGED <<alive, table, f_count, refs, hashlock, f_lock, to>>

\* Not the last reference: drop it.  The last: start over, hashlock first.
ReleLock(t) ==
  /\ At(t, "r_lock") /\ Lock(t)
  /\ IF f_count[fp[t]] = 1
     THEN Goto(t, "r_lock", "r_unlock") /\ UNCHANGED <<f_count, refs>>
     ELSE Goto(t, "r_lock", "unlock") /\ SubCount(fp[t], t)
  /\ UNCHANGED <<alive, table, hashlock, fp, to>>

ReleUnlock(t) ==
  /\ Goto(t, "r_unlock", "r_hash")
  /\ Unlock(t)
  /\ UNCHANGED <<alive, table, f_count, refs, hashlock, fp, to>>

ReleHash(t) ==
  /\ Goto(t, "r_hash", "r_relock")
  /\ LockHash(t)
  /\ UNCHANGED <<alive, table, f_count, refs, f_lock, fp, to>>

\* Mutation: the condition is not checked again.
ReleNoRecheck(t) ==
  /\ Goto(t, "r_relock", "r_unhash")
  /\ Lock(t)
  /\ table' = table \ {fp[t]}
  /\ UNCHANGED <<alive, f_count, refs, hashlock, fp, to>>

\* Mutation: after the second look the count is not decremented.
ReleUncounted(t) ==
  /\ At(t, "r_relock") /\ Lock(t)
  /\ IF f_count[fp[t]] # 1
     THEN Goto(t, "r_relock", "r_unlock2") /\ refs' = [refs EXCEPT ![fp[t]] = @ \ {t}] /\ UNCHANGED table
     ELSE Goto(t, "r_relock", "r_unhash") /\ table' = table \ {fp[t]} /\ UNCHANGED refs
  /\ UNCHANGED <<alive, f_count, hashlock, fp, to>>

\* "need to recheck the condition"
ReleRelock(t) ==
  /\ At(t, "r_relock") /\ Lock(t)
  /\ IF f_count[fp[t]] # 1
     THEN Goto(t, "r_relock", "r_unlock2") /\ SubCount(fp[t], t) /\ UNCHANGED table
     ELSE /\ Goto(t, "r_relock", "r_unhash")
          /\ table' = table \ {fp[t]}
          /\ UNCHANGED <<f_count, refs>>
  /\ UNCHANGED <<alive, hashlock, fp, to>>

ReleUnlock2(t) ==
  /\ Goto(t, "r_unlock2", "f_unhash")
  /\ Unlock(t)
  /\ Return(t)
  /\ UNCHANGED <<alive, table, f_count, refs, hashlock>>

ReleUnhash(t) ==
  /\ Goto(t, "r_unhash", "r_last")
  /\ UnlockHash
  /\ UNCHANGED <<alive, table, f_count, refs, f_lock, fp, to>>

ReleLast(t) ==
  /\ Goto(t, "r_last", "r_free")
  /\ Unlock(t)
  /\ UNCHANGED <<alive, table, f_count, refs, hashlock, fp, to>>

\* pthread_mutex_destroy and free.
ReleFree(t) ==
  /\ Goto(t, "r_free", "idle")
  /\ alive' = alive \ {fp[t]}
  /\ SubCount(fp[t], t)
  /\ Return(t)
  /\ UNCHANGED <<table, hashlock, f_lock>>

\* The last unlock of foo_alloc, foo_hold and foo_rele.
UnlockReturn(t) ==
  /\ Goto(t, "unlock", "idle")
  /\ Unlock(t)
  /\ Return(t)
  /\ UNCHANGED <<alive, table, f_count, refs, hashlock>>

Alloc(t) == AllocInsert(t) \/ AllocLock(t) \/ AllocUnhash(t)
Find(t) == FindHash(t) \/ HoldLock(t) \/ FindUnlock(t) \/ FindUnhash(t)
Rele(t) ==
  \/ ReleLock(t) \/ ReleUnlock(t) \/ ReleHash(t) \/ ReleRelock(t) \/ ReleUnlock2(t)
  \/ ReleUnhash(t) \/ ReleLast(t) \/ ReleFree(t)

Step(t) == Alloc(t) \/ Find(t) \/ Rele(t) \/ UnlockReturn(t)
Call(t) == Malloc(t) \/ HoldCall(t) \/ FindCall(t) \/ ReleCall(t)

Next == \E t \in Threads : Call(t) \/ Step(t)

Spec == Init /\ [][Next]_vars

-----------------------------------------------------------------------------
(* Properties.                                                              *)

\* No thread touches an object, its count or its mutex after it was freed: from
\* the call to the return, the object the call is about is allocated.
NoUseAfterFree == \A t \in Threads : fp[t] # NoObj => fp[t] \in alive

\* The count of an object is the number of references handed out and not yet
\* released, in every state, also while the last reference is being released.
CountIsRefs == \A o \in alive : f_count[o] = Cardinality(refs[o])

\* An object somebody has a reference to can be found, unless its only
\* reference is the one that is allocating or freeing it.
ReferencedIsListed ==
  \A o \in Objs : \A t \in refs[o] :
    o \in table \/ (fp[t] = o /\ pc[t] \in {"a_hash", "r_unhash", "r_last", "r_free"})

\* The calls implement the table of RefTable.
Abstract == INSTANCE RefTable
Implements == Abstract!Spec
=============================================================================
