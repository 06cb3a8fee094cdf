------------------------------ MODULE JobQueue ------------------------------
(***************************************************************************)
(* The job queue of apue.3e/threads/rwlock.c: a doubly linked list under a *)
(* reader-writer lock.  A master inserts and appends jobs; a worker looks  *)
(* for a job with its own id and removes it.  What is done under the write *)
(* lock is one step, since nobody else touches the queue meanwhile; the    *)
(* walk of job_find, which shares the lock with other readers, is not.     *)
(***************************************************************************)
EXTENDS Sequences, SequencesExt

CONSTANTS Workers, Jobs, JobId, Null   \* JobId[j]: the worker j is for

VARIABLES
  q_head, q_tail, j_next, j_prev,   \* the list
  readers,                          \* the workers that hold the read lock
  found, jp,                        \* each worker's state, and its job
  queue                             \* history: what the list stands for

vars == <<q_head, q_tail, j_next, j_prev, readers, found, jp, queue>>

queue_init ==
  /\ q_head = Null /\ q_tail = Null
  /\ j_next = [j \in Jobs |-> Null] /\ j_prev = [j \in Jobs |-> Null]
  /\ readers = {}
  /\ found = [w \in Workers |-> "idle"] /\ jp = [w \in Workers |-> Null]
  /\ queue = <<>>

WriteLocked == readers = {} /\ UNCHANGED readers

(* A job is its creator's until it is queued, and its worker's once removed. *)
Unqueued(j) == ~Contains(queue, j) /\ \A w \in Workers : jp[w] # j

job_insert(j) ==
  /\ WriteLocked /\ Unqueued(j)
  /\ j_next' = [j_next EXCEPT ![j] = q_head]
  /\ j_prev' = [x \in Jobs |-> CASE x = q_head -> j [] x = j -> Null [] OTHER -> j_prev[x]]
  /\ q_tail' = IF q_head = Null THEN j ELSE q_tail
  /\ q_head' = j
  /\ queue' = <<j>> \o queue
  /\ UNCHANGED <<found, jp>>

job_append(j) ==
  /\ WriteLocked /\ Unqueued(j)
  /\ j_prev' = [j_prev EXCEPT ![j] = q_tail]
  /\ j_next' = [x \in Jobs |-> CASE x = q_tail -> j [] x = j -> Null [] OTHER -> j_next[x]]
  /\ q_head' = IF q_tail = Null THEN j ELSE q_head
  /\ q_tail' = j
  /\ queue' = Append(queue, j)
  /\ UNCHANGED <<found, jp>>

(* Mutation: the tail is not moved back. *)
TailForgotten(j) ==
  /\ q_head' = IF j = q_head THEN j_next[j] ELSE q_head
  /\ j_next' = [x \in Jobs |-> IF x = j_prev[j] THEN j_next[j] ELSE j_next[x]]
  /\ j_prev' = [x \in Jobs |-> IF x = j_next[j] THEN j_prev[j] ELSE j_prev[x]]
  /\ UNCHANGED q_tail

(* The three cases of job_remove.  What the job itself points to stays. *)
Unlink(j) ==
  LET next == j_next[j]  prev == j_prev[j] IN
  \/ /\ j = q_head
     /\ q_head' = next
     /\ IF q_tail = j THEN q_tail' = Null /\ UNCHANGED j_prev
                      ELSE j_prev' = [j_prev EXCEPT ![next] = prev] /\ UNCHANGED q_tail
     /\ UNCHANGED j_next
  \/ /\ j # q_head /\ j = q_tail
     /\ q_tail' = prev /\ j_next' = [j_next EXCEPT ![prev] = next]
     /\ UNCHANGED <<q_head, j_prev>>
  \/ /\ j # q_head /\ j # q_tail
     /\ j_next' = [j_next EXCEPT ![prev] = next]
     /\ j_prev' = [j_prev EXCEPT ![next] = prev]
     /\ UNCHANGED <<q_head, q_tail>>

RemoveFound(w) ==
  /\ found[w] = "yes"
  /\ Unlink(jp[w])
  /\ queue' = RemoveFirst(queue, jp[w])
  /\ found' = [found EXCEPT ![w] = "idle"] /\ jp' = [jp EXCEPT ![w] = Null]

(* Mutation: a job is removed without the write lock. *)
Unguarded(w) == RemoveFound(w) /\ UNCHANGED readers
job_remove(w) == RemoveFound(w) /\ WriteLocked

(* job_find: the read lock, the head; then one job at a time; then unlock.   *)
(* Without the lock it gives up, with NULL.                                  *)
FindStart(w) ==
  /\ found[w] = "idle"
  /\ \/ /\ readers' = readers \cup {w}
        /\ found' = [found EXCEPT ![w] = "walking"] /\ jp' = [jp EXCEPT ![w] = q_head]
     \/ UNCHANGED <<readers, found, jp>>                    \* pthread_rwlock_rdlock fails
  /\ UNCHANGED <<q_head, q_tail, j_next, j_prev, queue>>

FindStep(w) ==
  /\ found[w] = "walking" /\ jp[w] # Null /\ JobId[jp[w]] # w
  /\ jp' = [jp EXCEPT ![w] = j_next[@]]
  /\ UNCHANGED <<q_head, q_tail, j_next, j_prev, readers, found, queue>>

FindEnd(w) ==
  /\ found[w] = "walking" /\ jp[w] \in {Null} \cup {j \in Jobs : JobId[j] = w}
  /\ readers' = readers \ {w}
  /\ found' = [found EXCEPT ![w] = IF jp[w] = Null THEN "idle" ELSE "yes"]
  /\ UNCHANGED <<q_head, q_tail, j_next, j_prev, jp, queue>>

Next ==
  \/ \E j \in Jobs : job_insert(j) \/ job_append(j)
  \/ \E w \in Workers : job_remove(w) \/ FindStart(w) \/ FindStep(w) \/ FindEnd(w)

-----------------------------------------------------------------------------
(* Read in either direction, the list is the queue that the insertions,      *)
(* appends and removals so far have made, wherever the job removed stood.    *)
ListIsQueue ==
  /\ q_head = (IF queue = <<>> THEN Null ELSE Head(queue))
  /\ q_tail = (IF queue = <<>> THEN Null ELSE Last(queue))
  /\ \A i \in DOMAIN queue :
       /\ j_next[queue[i]] = (IF i = Len(queue) THEN Null ELSE queue[i + 1])
       /\ j_prev[queue[i]] = (IF i = 1 THEN Null ELSE queue[i - 1])

(* A worker that walks the list in job_find is always at a job that is still *)
(* queued and has passed none of its own, so after a walk NULL means that it *)
(* has none (NULL without a walk: the read lock could not be had); what it   *)
(* found is still queued when it comes to remove it, although it no longer   *)
(* has the lock.                                                             *)
FindIsExact ==
  \A w \in Workers :
    LET own == {i \in DOMAIN queue : JobId[queue[i]] = w} IN
    /\ found[w] = "walking" =>
         \/ jp[w] = Null /\ own = {}
         \/ \E i \in DOMAIN queue : queue[i] = jp[w] /\ \A k \in own : k >= i
    /\ found[w] = "yes" => \E i \in own : queue[i] = jp[w]
=============================================================================
