--------------------------- MODULE FooHashProofs ---------------------------
(***************************************************************************)
(* For any number of threads and addresses: the inductive invariant of the *)
(* reference-counted table of FooHash, what follows from it, and that the  *)
(* calls implement RefTable.                                               *)
(***************************************************************************)
EXTENDS FooHash, FiniteSetTheorems, TLAPS

\* Where a thread is between calls, or in one with no object in hand.
IdlePcs == {"idle", "f_hash", "f_unhash"}
\* Where it holds hashlock whatever the call (at h_lock it depends on the call),
HashPcs == {"a_lock", "a_unhash", "f_unlock", "f_unhash", "r_relock", "r_unlock2", "r_unhash"}
\* where it holds the mutex of its object,
LockPcs == {"a_unhash", "unlock", "f_unlock", "r_unlock", "r_unlock2", "r_unhash", "r_last"}
\* where it frees an object nobody else can reach,
LastPcs == {"r_unhash", "r_last", "r_free"}
\* and where the object in hand is kept alive by a reference of its own.
OwnPcs == {"a_hash", "a_lock", "a_unhash", "r_lock", "r_unlock", "r_hash", "r_relock"} \cup LastPcs

Pcs == IdlePcs \cup HashPcs \cup LockPcs \cup OwnPcs \cup {"h_lock"}

Types ==
  /\ alive \subseteq Objs /\ table \subseteq alive
  /\ f_count \in [Objs -> Int]
  /\ refs \in [Objs -> SUBSET Threads]
  /\ hashlock \in Threads \cup {NoThread}
  /\ f_lock \in [Objs -> Threads \cup {NoThread}]
  /\ pc \in [Threads -> Pcs]
  /\ fp \in [Threads -> Objs \cup {NoObj}]
  /\ to \in [Threads -> Threads \cup {NoThread}]

InHand == \A t \in Threads :
  IF pc[t] \in IdlePcs THEN fp[t] = NoObj ELSE fp[t] \in alive

LocksHeld == \A t \in Threads :
  /\ pc[t] \in HashPcs => hashlock = t
  /\ pc[t] \in LockPcs => f_lock[fp[t]] = t

Owns == \A t \in Threads : pc[t] \in OwnPcs => t \in refs[fp[t]]

\* A reference about to be handed out: the object stays in the table, because the
\* giver has a reference or hashlock, and nobody else hands out the same one.
Pending == \A t \in Threads : pc[t] = "h_lock" =>
  /\ fp[t] \in table /\ to[t] \in Threads \ refs[fp[t]]
  /\ t \in refs[fp[t]] \/ hashlock = t
  /\ \A s \in Threads \ {t} : pc[s] = "h_lock" /\ fp[s] = fp[t] => to[s] # to[t]

Last == \A t \in Threads : pc[t] \in LastPcs =>
  /\ refs[fp[t]] = {t} /\ fp[t] \notin table
  /\ pc[t] = "r_free" => f_lock[fp[t]] = NoThread

Referenced ==
  /\ \A o \in Objs : refs[o] # {} => o \in alive
  /\ \A o \in table : refs[o] # {}

IInv ==
  /\ Types /\ InHand /\ LocksHeld /\ Owns /\ Pending /\ Last /\ Referenced
  /\ CountIsRefs /\ ReferencedIsListed

-----------------------------------------------------------------------------
\* What the count says about a set of references: the arithmetic of foo_hold's
\* increment and of foo_rele's tests and decrements.
LEMMA Counting ==
  ASSUME NEW S \in SUBSET Threads, NEW t
  PROVE  /\ Cardinality(S) \in Nat
         /\ Cardinality({t}) = 1
         /\ t \notin S => Cardinality(S \cup {t}) = Cardinality(S) + 1
         /\ t \in S => /\ Cardinality(S \ {t}) = Cardinality(S) - 1
                       /\ Cardinality(S) = 1 => S = {t}
                       /\ Cardinality(S) # 1 => S \ {t} # {}
<1>1. IsFiniteSet(S) /\ Cardinality(S) \in Nat
  BY ThreadsFinite, FS_Subset, FS_CardinalityType
<1>2. Cardinality({t}) = 1 /\ (Cardinality(S) = 1 => \E x : S = {x})
  BY <1>1, FS_Singleton
<1>3. t \notin S => Cardinality(S \cup {t}) = Cardinality(S) + 1
  BY <1>1, FS_AddElement
<1>4. t \in S => Cardinality(S \ {t}) = Cardinality(S) - 1
  BY <1>1, FS_RemoveElement
<1>5. t \in S /\ S \ {t} = {} => S = {t}
  OBVIOUS
<1> QED  BY <1>1, <1>2, <1>3, <1>4, <1>5

\* The same of the count of an object.
LEMMA RefCount ==
  ASSUME Types, CountIsRefs, NEW o \in alive, NEW u
  PROVE  /\ u \notin refs[o] => Cardinality(refs[o] \cup {u}) = f_count[o] + 1
         /\ u \in refs[o] /\ f_count[o] = 1 => refs[o] = {u}
         /\ u \in refs[o] /\ f_count[o] # 1 => refs[o] \ {u} # {}
         /\ u \in refs[o] => Cardinality(refs[o] \ {u}) = f_count[o] - 1
<1>1. refs[o] \in SUBSET Threads
  BY DEF Types
<1>2. f_count[o] = Cardinality(refs[o])
  BY DEF CountIsRefs
<1> HIDE DEF Types, CountIsRefs
<1> QED  BY <1>1, <1>2, Counting

\* It holds before the first call: no object, no reference, every thread idle.
LEMMA InitIInv == Init => IInv
BY NobodyElse DEF Init, IInv, Types, InHand, LocksHeld, Owns, Pending, Last, Referenced, CountIsRefs,
   ReferencedIsListed, Pcs, IdlePcs, HashPcs, LockPcs, OwnPcs, LastPcs

\* Every step of every thread keeps it: one case per action.
LEMMA StepIInv ==
  ASSUME IInv, NEW t \in Threads, Call(t) \/ Step(t)
  PROVE  IInv'
<1> USE NobodyElse DEF IInv, Types, InHand, LocksHeld, Owns, Pending, Last, Referenced, CountIsRefs,
        ReferencedIsListed, Pcs, IdlePcs, HashPcs, LockPcs, OwnPcs, LastPcs,
        At, Goto, LockHash, UnlockHash, Lock, Unlock, AddCount, SubCount, Return
<1>1. CASE FindCall(t)
  BY <1>1 DEF FindCall
<1>2. CASE ReleCall(t)
  BY <1>2 DEF ReleCall
<1>3. CASE AllocInsert(t)
  BY <1>3 DEF AllocInsert
<1>4. CASE AllocLock(t)
  BY <1>4 DEF AllocLock
<1>5. CASE AllocUnhash(t)
  BY <1>5 DEF AllocUnhash
<1>6. CASE FindUnlock(t)
  BY <1>6 DEF FindUnlock
<1>7. CASE FindUnhash(t)
  BY <1>7 DEF FindUnhash
<1>8. CASE ReleUnlock(t)
  BY <1>8 DEF ReleUnlock
<1>9. CASE ReleHash(t)
  BY <1>9 DEF ReleHash
<1>10. CASE ReleUnlock2(t)
  BY <1>10 DEF ReleUnlock2
<1>11. CASE ReleUnhash(t)
  BY <1>11 DEF ReleUnhash
<1>12. CASE ReleLast(t)
  BY <1>12 DEF ReleLast
<1>13. CASE ReleFree(t)
  BY <1>13 DEF ReleFree
<1>14. CASE UnlockReturn(t)
  BY <1>14 DEF UnlockReturn
<1>15. CASE Malloc(t)
  <2>1. PICK o \in Objs \ alive :
          /\ alive' = alive \cup {o}
          /\ f_count' = [f_count EXCEPT ![o] = 1]
          /\ refs' = [refs EXCEPT ![o] = {t}]
          /\ fp' = [fp EXCEPT ![t] = o]
    BY <1>15 DEF Malloc
  <2>2. Types' /\ InHand' /\ LocksHeld' /\ Owns' /\ Pending' /\ Last' /\ Referenced' /\ ReferencedIsListed'
    BY <1>15, <2>1 DEF Malloc
  <2>3. Cardinality({t}) = 1
    BY Counting
  <2>4. CountIsRefs'
    <3> SUFFICES ASSUME NEW x \in alive'
                 PROVE  f_count'[x] = Cardinality(refs'[x])
      BY DEF CountIsRefs
    <3> QED  BY <2>1, <2>3
  <2> QED  BY <2>2, <2>4
<1>16. CASE HoldCall(t)
  <2>1. PICK o \in Objs, u \in Threads :
          /\ t \in refs[o] /\ Free(u, o)
          /\ fp' = [fp EXCEPT ![t] = o]
          /\ to' = [to EXCEPT ![t] = u]
    BY <1>16 DEF HoldCall
  <2>2. o \in table
    BY <1>16, <2>1 DEF HoldCall
  <2>3. Pending'
    BY <1>16, <2>1, <2>2 DEF HoldCall, Free
  <2>4. Types' /\ InHand' /\ LocksHeld' /\ Owns' /\ Last' /\ Referenced' /\ CountIsRefs' /\ ReferencedIsListed'
    BY <1>16, <2>1 DEF HoldCall
  <2> QED  BY <2>3, <2>4
<1>17. CASE FindHash(t)
  <2>1. CASE Goto(t, "f_hash", "f_unhash") /\ UNCHANGED <<fp, to>>
    BY <1>17, <2>1 DEF FindHash
  <2>2. ASSUME NEW o \in table, Goto(t, "f_hash", "h_lock"), Free(t, o),
               fp' = [fp EXCEPT ![t] = o], to' = [to EXCEPT ![t] = t]
        PROVE  IInv'
    <3>1. Pending'
      BY <1>17, <2>2 DEF FindHash, Free
    <3>2. Types' /\ InHand' /\ LocksHeld' /\ Owns' /\ Last' /\ Referenced' /\ CountIsRefs' /\ ReferencedIsListed'
      BY <1>17, <2>2 DEF FindHash
    <3> QED  BY <3>1, <3>2
  <2> QED  BY <1>17, <2>1, <2>2 DEF FindHash, Named
<1>18. CASE HoldLock(t)
  <2>1. Types' /\ InHand' /\ LocksHeld' /\ Owns' /\ Pending' /\ Last' /\ Referenced' /\ ReferencedIsListed'
    BY <1>18 DEF HoldLock
  <2>2. Cardinality(refs[fp[t]] \cup {to[t]}) = f_count[fp[t]] + 1
    <3>1. fp[t] \in alive /\ to[t] \notin refs[fp[t]]
      BY <1>18 DEF HoldLock
    <3> QED  BY <3>1, RefCount
  <2>3. CountIsRefs'
    <3> SUFFICES ASSUME NEW x \in alive'
                 PROVE  f_count'[x] = Cardinality(refs'[x])
      BY DEF CountIsRefs
    <3> QED  BY <1>18, <2>2 DEF HoldLock
  <2> QED  BY <2>1, <2>3
<1>19. CASE ReleLock(t)
  <2>1. fp[t] \in alive /\ t \in refs[fp[t]]
    BY <1>19 DEF ReleLock
  <2>2. f_count[fp[t]] # 1 =>
          refs[fp[t]] \ {t} # {} /\ Cardinality(refs[fp[t]] \ {t}) = f_count[fp[t]] - 1
    BY <2>1, RefCount
  <2>3. Types' /\ InHand' /\ LocksHeld' /\ Owns' /\ Pending' /\ Last' /\ ReferencedIsListed'
    BY <1>19 DEF ReleLock
  <2>4. Referenced'
    BY <1>19, <2>2 DEF ReleLock
  <2>5. CountIsRefs'
    <3> SUFFICES ASSUME NEW x \in alive'
                 PROVE  f_count'[x] = Cardinality(refs'[x])
      BY DEF CountIsRefs
    <3>1. CASE f_count[fp[t]] = 1
      BY <1>19, <3>1 DEF ReleLock
    <3>2. CASE f_count[fp[t]] # 1
      <4>1. /\ f_count' = [f_count EXCEPT ![fp[t]] = @ - 1]
            /\ refs' = [refs EXCEPT ![fp[t]] = @ \ {t}]
            /\ x \in alive
        BY <1>19, <3>2 DEF ReleLock
      <4> QED  BY <2>1, <2>2, <3>2, <4>1
    <3> QED  BY <3>1, <3>2
  <2> QED  BY <2>3, <2>4, <2>5
<1>20. CASE ReleRelock(t)
  <2>1. fp[t] \in alive /\ t \in refs[fp[t]]
    BY <1>20 DEF ReleRelock
  <2>2. IF f_count[fp[t]] = 1
        THEN refs[fp[t]] = {t}
        ELSE refs[fp[t]] \ {t} # {} /\ Cardinality(refs[fp[t]] \ {t}) = f_count[fp[t]] - 1
    BY <2>1, RefCount
  <2>3. Types' /\ InHand' /\ LocksHeld' /\ Owns'
    BY <1>20 DEF ReleRelock
  <2>4. Pending'
    BY <1>20, <2>2 DEF ReleRelock
  <2>5. Last'
    BY <1>20, <2>2 DEF ReleRelock
  <2>6. Referenced' /\ ReferencedIsListed'
    BY <1>20, <2>2 DEF ReleRelock
  <2>7. CountIsRefs'
    <3> SUFFICES ASSUME NEW x \in alive'
                 PROVE  f_count'[x] = Cardinality(refs'[x])
      BY DEF CountIsRefs
    <3>1. CASE f_count[fp[t]] = 1
      BY <1>20, <3>1 DEF ReleRelock
    <3>2. CASE f_count[fp[t]] # 1
      <4>1. /\ f_count' = [f_count EXCEPT ![fp[t]] = @ - 1]
            /\ refs' = [refs EXCEPT ![fp[t]] = @ \ {t}]
            /\ x \in alive
        BY <1>20, <3>2 DEF ReleRelock
      <4> QED  BY <2>1, <2>2, <3>2, <4>1
    <3> QED  BY <3>1, <3>2
  <2> QED  BY <2>3, <2>4, <2>5, <2>6, <2>7
<1> QED
  BY <1>1, <1>2, <1>3, <1>4, <1>5, <1>6, <1>7, <1>8, <1>9, <1>10, <1>11, <1>12, <1>13, <1>14,
     <1>15, <1>16, <1>17, <1>18, <1>19, <1>20 DEF Call, Step, Alloc, Find, Rele

\* Every reachable state of the calls on the table satisfies the inductive invariant.
THEOREM Invariance == Spec => []IInv
<1>1. IInv /\ [Next]_vars => IInv'
  <2> SUFFICES ASSUME IInv, [Next]_vars PROVE IInv'
    OBVIOUS
  <2>1. CASE Next
    BY <2>1, StepIInv DEF Next
  <2>2. CASE UNCHANGED vars
    BY <2>2 DEF vars, IInv, Types, InHand, LocksHeld, Owns, Pending, Last, Referenced,
       CountIsRefs, ReferencedIsListed
  <2> QED  BY <2>1, <2>2
<1> QED  BY <1>1, InitIInv, PTL DEF Spec

\* However many threads call foo_find, foo_hold and foo_rele at once, none of them
\* touches an object that foo_rele has freed.
THEOREM NeverUsesFreed == Spec => []NoUseAfterFree
<1>1. IInv => NoUseAfterFree
  BY DEF IInv, InHand, NoUseAfterFree
<1> QED  BY <1>1, Invariance, PTL

\* f_count always is the number of references: no increment or decrement is lost,
\* and the count can be trusted when it is read the second time.
THEOREM CountsReferences == Spec => []CountIsRefs
<1>1. IInv => CountIsRefs
  BY DEF IInv
<1> QED  BY <1>1, Invariance, PTL

\* An object with references can be found by foo_find, except by the thread that is
\* still allocating it or already freeing it.
THEOREM ReferencedCanBeFound == Spec => []ReferencedIsListed
<1>1. IInv => ReferencedIsListed
  BY DEF IInv
<1> QED  BY <1>1, Invariance, PTL

-----------------------------------------------------------------------------
(* The refinement.                                                          *)

\* One step of a thread is one step of the table or none.
LEMMA StepRefines ==
  ASSUME IInv, NEW t \in Threads, Call(t) \/ Step(t)
  PROVE  [Abstract!Next]_(Abstract!vars)
<1> USE NobodyElse DEF Goto, At, Abstract!vars
<1>1. CASE Malloc(t)
  <2>1. PICK o \in Objs \ alive :
          alive' = alive \cup {o} /\ refs' = [refs EXCEPT ![o] = {t}] /\ table' = table
    BY <1>1 DEF Malloc
  <2>2. Abstract!Allocate(t, o)
    BY <2>1 DEF Abstract!Allocate
  <2> QED  BY <2>2 DEF Abstract!Next
<1>2. CASE AllocInsert(t)
  <2>1. fp[t] \in Objs /\ fp[t] \in alive /\ refs[fp[t]] # {}
    BY <1>2 DEF AllocInsert, IInv, Types, InHand, Owns, IdlePcs, OwnPcs
  <2>2. fp[t] \notin table => Abstract!Publish(fp[t])
    BY <1>2, <2>1 DEF AllocInsert, Abstract!Publish
  <2>3. fp[t] \in table => UNCHANGED Abstract!vars
    BY <1>2 DEF AllocInsert
  <2> QED  BY <2>1, <2>2, <2>3 DEF Abstract!Next
<1>3. CASE HoldLock(t)
  <2>1. fp[t] \in Objs /\ to[t] \in Threads /\ fp[t] \in table
        /\ to[t] \notin refs[fp[t]] /\ refs[fp[t]] # {}
    BY <1>3 DEF HoldLock, IInv, Types, Pending, Referenced
  <2>2. Abstract!AddRef(to[t], fp[t])
    BY <1>3, <2>1 DEF HoldLock, AddCount, Abstract!AddRef
  <2> QED  BY <2>1, <2>2 DEF Abstract!Next
<1>4. CASE ReleLock(t)
  <2>1. fp[t] \in alive /\ fp[t] \in Objs /\ fp[t] \in table /\ t \in refs[fp[t]]
    BY <1>4 DEF ReleLock, IInv, Types, InHand, Owns, ReferencedIsListed, IdlePcs, OwnPcs
  <2>2. f_count[fp[t]] # 1 => refs[fp[t]] # {t}
    <3>1. f_count[fp[t]] # 1 => refs[fp[t]] \ {t} # {}
      BY <2>1, RefCount DEF IInv
    <3> QED  BY <3>1
  <2>3. f_count[fp[t]] # 1 => Abstract!DropRef(t, fp[t])
    BY <1>4, <2>1, <2>2 DEF ReleLock, SubCount, Abstract!DropRef
  <2>4. f_count[fp[t]] = 1 => UNCHANGED Abstract!vars
    BY <1>4 DEF ReleLock
  <2> QED  BY <2>1, <2>3, <2>4 DEF Abstract!Next
<1>5. CASE ReleRelock(t)
  <2>1. fp[t] \in alive /\ fp[t] \in Objs /\ fp[t] \in table /\ t \in refs[fp[t]]
    BY <1>5 DEF ReleRelock, IInv, Types, InHand, Owns, ReferencedIsListed, IdlePcs, OwnPcs
  <2>2. f_count[fp[t]] = 1 <=> refs[fp[t]] = {t}
    <3>1. f_count[fp[t]] # 1 => refs[fp[t]] \ {t} # {}
      BY <2>1, RefCount DEF IInv
    <3>2. f_count[fp[t]] = 1 => refs[fp[t]] = {t}
      BY <2>1, RefCount DEF IInv
    <3> QED  BY <3>1, <3>2
  <2>3. Abstract!DropRef(t, fp[t])
    BY <1>5, <2>1, <2>2 DEF ReleRelock, SubCount, Abstract!DropRef
  <2> QED  BY <2>1, <2>3 DEF Abstract!Next
<1>6. CASE ReleFree(t)
  <2>1. fp[t] \in alive /\ fp[t] \in Objs /\ fp[t] \notin table /\ refs[fp[t]] = {t}
    BY <1>6 DEF ReleFree, IInv, Types, InHand, Last, IdlePcs, LastPcs
  <2>2. Abstract!Free(t, fp[t])
    BY <1>6, <2>1 DEF ReleFree, SubCount, Abstract!Free
  <2> QED  BY <2>1, <2>2 DEF Abstract!Next
<1>7. CASE \/ HoldCall(t) \/ FindCall(t) \/ ReleCall(t) \/ AllocLock(t) \/ AllocUnhash(t)
           \/ FindHash(t) \/ FindUnlock(t) \/ FindUnhash(t) \/ ReleUnlock(t) \/ ReleHash(t)
           \/ ReleUnlock2(t) \/ ReleUnhash(t) \/ ReleLast(t) \/ UnlockReturn(t)
  BY <1>7 DEF HoldCall, FindCall, ReleCall, AllocLock, AllocUnhash, FindHash, FindUnlock,
     FindUnhash, ReleUnlock, ReleHash, ReleUnlock2, ReleUnhash, ReleLast, UnlockReturn
<1> QED  BY <1>1, <1>2, <1>3, <1>4, <1>5, <1>6, <1>7 DEF Call, Step, Alloc, Find, Rele

\* The calls of mutex2.c, with their two locks and the second look at the count,
\* implement a table on which each of them acts at one instant.
THEOREM Refines == Spec => Implements
<1>1. Init => Abstract!Init
  BY DEF Init, Abstract!Init
<1>2. IInv /\ [Next]_vars => [Abstract!Next]_(Abstract!vars)
  <2> SUFFICES ASSUME IInv, [Next]_vars PROVE [Abstract!Next]_(Abstract!vars)
    OBVIOUS
  <2>1. CASE Next
    BY <2>1, StepRefines DEF Next
  <2>2. CASE UNCHANGED vars
    BY <2>2 DEF vars, Abstract!vars
  <2> QED  BY <2>1, <2>2
<1> QED  BY <1>1, <1>2, Invariance, PTL DEF Spec, Implements, Abstract!Spec
=============================================================================
