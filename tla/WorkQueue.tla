----------------------------- MODULE WorkQueue -----------------------------
(***************************************************************************)
(* The message queue of apue.3e/threads/condvar.c: producers push on the   *)
(* list workq, consumers pop, and a consumer that finds it empty waits on  *)
(* qready.  The signal is sent after qlock is released, and                *)
(* pthread_cond_wait may return without one.                               *)
(***************************************************************************)
EXTENDS Integers

CONSTANTS Producers, Consumers, Msgs, NoMsg

VARIABLES
  workq, m_next,   \* the head of the list, and its links
  qlock,           \* is a consumer in its critical section
  waiting,         \* consumers inside pthread_cond_wait
  cpc, mp,         \* each consumer's place, and its message
  owing,           \* producers that have unlocked and not signalled yet
  unsent,          \* messages nobody has enqueued yet
  taken            \* history: how often each message was taken

vars == <<workq, m_next, qlock, waiting, cpc, mp, owing, unsent, taken>>

Init ==
  /\ workq = NoMsg /\ m_next = [m \in Msgs |-> NoMsg]
  /\ qlock = FALSE /\ waiting = {}
  /\ cpc = [c \in Consumers |-> "lock"] /\ mp = [c \in Consumers |-> NoMsg]
  /\ owing = {} /\ unsent = Msgs
  /\ taken = [m \in Msgs |-> 0]

(* enqueue_msg: push under the lock; then, unlocked, wake one waiter if any. *)
enqueue_msg(p, m) ==
  /\ p \notin owing /\ m \in unsent /\ ~qlock
  /\ m_next' = [m_next EXCEPT ![m] = workq] /\ workq' = m
  /\ unsent' = unsent \ {m} /\ owing' = owing \cup {p}
  /\ UNCHANGED <<qlock, waiting, cpc, mp, taken>>

Wake(c) == waiting' = waiting \ {c} /\ cpc' = [cpc EXCEPT ![c] = "lock"]

Signal(p) ==
  /\ p \in owing /\ owing' = owing \ {p}
  /\ IF waiting # {} THEN \E c \in waiting : Wake(c) ELSE UNCHANGED <<waiting, cpc>>
  /\ UNCHANGED <<workq, m_next, qlock, mp, unsent, taken>>

Spurious(c) ==
  /\ c \in waiting /\ Wake(c)
  /\ UNCHANGED <<workq, m_next, qlock, mp, owing, unsent, taken>>

(* Mutation: the queue is read without qlock. *)
AcquireUnlocked(c) ==
  /\ cpc[c] = "lock" /\ cpc' = [cpc EXCEPT ![c] = "test"] /\ qlock' = TRUE
  /\ UNCHANGED <<workq, m_next, waiting, mp, owing, unsent, taken>>

(* process_msg: take the lock, for the first time or to return from a wait. *)
Acquire(c) == ~qlock /\ AcquireUnlocked(c)

(* Mutation: unlocked first, asleep later: a signal in between wakes nobody. *)
WaitInTwo(c) ==
  /\ \/ cpc[c] = "test" /\ workq = NoMsg /\ qlock' = FALSE
        /\ cpc' = [cpc EXCEPT ![c] = "gap"] /\ UNCHANGED waiting
     \/ cpc[c] = "gap" /\ cpc' = [cpc EXCEPT ![c] = "wait"]
        /\ waiting' = waiting \cup {c} /\ UNCHANGED qlock
  /\ UNCHANGED <<workq, m_next, mp, owing, unsent, taken>>

(* The wait releases the lock and joins the waiters in one step. *)
Wait(c) ==
  /\ cpc[c] = "test" /\ workq = NoMsg
  /\ qlock' = FALSE /\ waiting' = waiting \cup {c}
  /\ cpc' = [cpc EXCEPT ![c] = "wait"]
  /\ UNCHANGED <<workq, m_next, mp, owing, unsent, taken>>

Look(c) ==
  /\ cpc[c] = "test" /\ workq # NoMsg
  /\ mp' = [mp EXCEPT ![c] = workq] /\ cpc' = [cpc EXCEPT ![c] = "pop"]
  /\ UNCHANGED <<workq, m_next, qlock, waiting, owing, unsent, taken>>

Pop(c) ==
  /\ cpc[c] = "pop"
  /\ workq' = m_next[mp[c]] /\ taken' = [taken EXCEPT ![mp[c]] = @ + 1]
  /\ qlock' = FALSE /\ cpc' = [cpc EXCEPT ![c] = "lock"]
  /\ mp' = [mp EXCEPT ![c] = NoMsg]   \* processed
  /\ UNCHANGED <<m_next, waiting, owing, unsent>>

process_msg(c) == Acquire(c) \/ Wait(c) \/ Look(c) \/ Pop(c)

Next ==
  \/ \E p \in Producers : Signal(p) \/ \E m \in Msgs : enqueue_msg(p, m)
  \/ \E c \in Consumers : process_msg(c) \/ Spurious(c)

-----------------------------------------------------------------------------
(* No message is taken by two consumers, however the waits are woken.        *)
TakenOnce == \A m \in Msgs : taken[m] <= 1

(* Although enqueue_msg signals after the unlock, and only one waiter, no    *)
(* message is left on the list with every consumer asleep.                   *)
AllTaken == \A m \in Msgs : m \notin unsent ~> taken[m] > 0
=============================================================================
