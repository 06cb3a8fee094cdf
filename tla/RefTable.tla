------------------------------ MODULE RefTable ------------------------------
(***************************************************************************)
(* What foo_alloc, foo_find, foo_hold and foo_rele of apue.3e/threads      *)
(* promise together: a table of reference-counted objects on which each    *)
(* call acts at one instant.  An object is in the table, and may be found, *)
(* from its allocation until its last reference is released, and its       *)
(* memory is given back only after that.                                   *)
(***************************************************************************)
CONSTANTS Threads, Objs

VARIABLES
  alive,   \* objects whose memory is allocated
  table,   \* objects that can be found
  refs     \* refs[o]: the references to o, named by the threads they are for

vars == <<alive, table, refs>>

Init == alive = {} /\ table = {} /\ refs = [o \in Objs |-> {}]

\* malloc, and the first reference.
Allocate(t, o) ==
  /\ o \notin alive
  /\ alive' = alive \cup {o}
  /\ refs' = [refs EXCEPT ![o] = {t}]
  /\ UNCHANGED table

Publish(o) ==
  /\ o \in alive \ table /\ refs[o] # {}
  /\ table' = table \cup {o}
  /\ UNCHANGED <<alive, refs>>

\* foo_find and foo_hold: one more reference to an object that has one.
AddRef(t, o) ==
  /\ o \in table /\ refs[o] # {} /\ t \notin refs[o]
  /\ refs' = [refs EXCEPT ![o] = @ \cup {t}]
  /\ UNCHANGED <<alive, table>>

\* foo_rele: the last reference takes the object out of the table.
DropRef(t, o) ==
  /\ t \in refs[o] /\ o \in table
  /\ IF refs[o] = {t}
     THEN table' = table \ {o} /\ UNCHANGED refs
     ELSE refs' = [refs EXCEPT ![o] = @ \ {t}] /\ UNCHANGED table
  /\ UNCHANGED alive

Free(t, o) ==
  /\ o \in alive \ table /\ refs[o] = {t}
  /\ alive' = alive \ {o}
  /\ refs' = [refs EXCEPT ![o] = {}]
  /\ UNCHANGED table

Next ==
  \E o \in Objs :
    \/ Publish(o)
    \/ \E t \in Threads : Allocate(t, o) \/ AddRef(t, o) \/ DropRef(t, o) \/ Free(t, o)

Spec == Init /\ [][Next]_vars
=============================================================================
