------------------------------ MODULE FooCount ------------------------------
(***************************************************************************)
(* The reference-counted objects of apue.3e/threads/mutex3.c, the simpler  *)
(* form of mutex2.c (FooHash): the count is protected by hashlock, like    *)
(* the lists.  A step is one stretch under hashlock; foo_alloc also holds  *)
(* the object's own mutex until it has initialized the rest, and foo_rele  *)
(* destroys and frees the object after it has unlocked.                    *)
(***************************************************************************)
EXTENDS Integers, FiniteSets

CONSTANTS Threads, Objs, Ids, IdOf, NoObj

VARIABLES
  alive,        \* addresses in use
  table,        \* objects on the lists of fh[]
  f_count,      \* the reference counts
  refs,         \* history: the references handed out
  f_lock,       \* objects whose mutex foo_alloc holds
  pc, fp        \* each thread's place, and its object

vars == <<alive, table, f_count, refs, f_lock, pc, fp>>

Init ==
  /\ alive = {} /\ table = {} /\ f_lock = {}
  /\ f_count = [o \in Objs |-> 0] /\ refs = [o \in Objs |-> {}]
  /\ pc = [t \in Threads |-> "idle"] /\ fp = [t \in Threads |-> NoObj]

(* Mutation: a reference that is not counted. *)
Uncounted(o, t) == refs' = [refs EXCEPT ![o] = @ \cup {t}] /\ UNCHANGED f_count
AddRef(o, t) ==
  /\ f_count' = [f_count EXCEPT ![o] = @ + 1]
  /\ refs' = [refs EXCEPT ![o] = @ \cup {t}]

(* foo_alloc: a new object, not yet known to anyone else; then it enters its *)
(* list, its mutex held; then the mutex is released.                         *)
foo_alloc(t) ==
  \/ \E o \in Objs \ alive :
       /\ pc[t] = "idle" /\ pc' = [pc EXCEPT ![t] = "new"] /\ fp' = [fp EXCEPT ![t] = o]
       /\ alive' = alive \cup {o}
       /\ f_count' = [f_count EXCEPT ![o] = 1] /\ refs' = [refs EXCEPT ![o] = {t}]
       /\ UNCHANGED <<table, f_lock>>
  \/ /\ pc[t] = "new" /\ pc' = [pc EXCEPT ![t] = "init"]
     /\ table' = table \cup {fp[t]} /\ f_lock' = f_lock \cup {fp[t]}
     /\ UNCHANGED <<alive, f_count, refs, fp>>
  \/ /\ pc[t] = "init" /\ pc' = [pc EXCEPT ![t] = "idle"] /\ fp' = [fp EXCEPT ![t] = NoObj]
     /\ f_lock' = f_lock \ {fp[t]}
     /\ UNCHANGED <<alive, table, f_count, refs>>

(* A thread with a reference adds one for another thread. *)
foo_hold(t, o, u) ==
  /\ pc[t] = "idle" /\ o \in table /\ t \in refs[o] /\ u \notin refs[o]
  /\ AddRef(o, u)
  /\ UNCHANGED <<alive, table, f_lock, pc, fp>>

(* The first object with the id, or NULL: nothing changes. *)
foo_find(t, id) ==
  /\ pc[t] = "idle"
  /\ \E o \in table : IdOf[o] = id /\ t \notin refs[o] /\ AddRef(o, t)
  /\ UNCHANGED <<alive, table, f_lock, pc, fp>>

(* Mutation: the list left for after the unlock: what mutex2.c has to guard against. *)
UnlinkLate(t, o) ==
  /\ pc[t] = "idle" /\ t \in refs[o]
  /\ f_count' = [f_count EXCEPT ![o] = @ - 1] /\ refs' = [refs EXCEPT ![o] = @ \ {t}]
  /\ IF f_count[o] = 1 THEN pc' = [pc EXCEPT ![t] = "free"] /\ fp' = [fp EXCEPT ![t] = o]
                       ELSE UNCHANGED <<pc, fp>>
  /\ UNCHANGED <<alive, table, f_lock>>

foo_rele(t, o) ==
  /\ pc[t] = "idle" /\ t \in refs[o]
  /\ f_count' = [f_count EXCEPT ![o] = @ - 1] /\ refs' = [refs EXCEPT ![o] = @ \ {t}]
  /\ IF f_count[o] = 1
     THEN /\ table' = table \ {o}
          /\ pc' = [pc EXCEPT ![t] = "free"] /\ fp' = [fp EXCEPT ![t] = o]
     ELSE UNCHANGED <<table, pc, fp>>
  /\ UNCHANGED <<alive, f_lock>>

(* The end of foo_rele, after the unlock: destroy the mutex, free. *)
Free(t) ==
  /\ pc[t] = "free"
  /\ alive' = alive \ {fp[t]}
  /\ pc' = [pc EXCEPT ![t] = "idle"] /\ fp' = [fp EXCEPT ![t] = NoObj]
  /\ UNCHANGED <<table, f_count, refs, f_lock>>

Next ==
  \E t \in Threads :
    \/ foo_alloc(t) \/ Free(t)
    \/ \E o \in Objs : foo_rele(t, o) \/ \E u \in Threads : foo_hold(t, o, u)
    \/ \E id \in Ids : foo_find(t, id)

Spec == Init /\ [][Next]_vars

-----------------------------------------------------------------------------
(* The table of references that the four calls promise; foo_rele has the     *)
(* last one until it has freed the object.                                   *)
LastRef(o) == {t \in Threads : pc[t] = "free" /\ fp[t] = o}
Refs == INSTANCE RefTable WITH refs <- [o \in Objs |-> refs[o] \cup LastRef(o)]

(* With one count under hashlock, unlocking before free is safe: found is    *)
(* only what has a reference, and freed only what nobody can find.           *)
Implements == Refs!Spec

(* An object's mutex is not destroyed while foo_alloc still holds it.        *)
LockedIsAlive == f_lock \subseteq {o \in alive : LastRef(o) = {}}
=============================================================================
