---------------------------- MODULE PrintWorkers ----------------------------
(***************************************************************************)
(* The list of client threads of apue.3e/printer/printd.c: add_worker,     *)
(* client_cleanup and kill_workers, each one critical section of           *)
(* workerlock.  The list is modelled as it is in memory, a head pointer    *)
(* and two links per structure, because its shape is what matters.         *)
(***************************************************************************)
EXTENDS Naturals, FiniteSets

CONSTANTS
  Threads,   \* client threads; a thread names its worker_thread structure too
  Null       \* the null pointer

VARIABLES
  workers,    \* head of the list
  next, prev, \* the links of each structure
  alloc,      \* structures that are allocated
  sock,       \* threads whose socket is open
  pc,         \* "new", "running", "exiting" (its cleanup handler is due), "gone"
  cancelled,  \* threads pthread_cancel was called for
  signal      \* has the signal thread seen SIGTERM?

vars == <<workers, next, prev, alloc, sock, pc, cancelled, signal>>

Init ==
  /\ workers = Null
  /\ next = [t \in Threads |-> Null] /\ prev = [t \in Threads |-> Null]
  /\ alloc = {} /\ sock = {}
  /\ pc = [t \in Threads |-> "new"]
  /\ cancelled = {} /\ signal = FALSE

\* The structures a walk from the head meets.
Listed == LET reach[n \in 0 .. Cardinality(Threads)] ==
                IF n = 0 THEN {workers} \ {Null}
                ELSE reach[n - 1] \cup ({next[t] : t \in reach[n - 1]} \ {Null})
          IN reach[Cardinality(Threads)]

\* The head points to memory that is in use.  Every function starts from the
\* head: what they do once it dangles is undefined, and not explored further.
HeadInUse == workers \in alloc \cup {Null}

\* The head is only set when the list was empty: a later structure points to the
\* old head, and nothing points to it from there.
add_worker(t) ==
  /\ pc[t] = "new" /\ ~signal /\ HeadInUse
  /\ pc' = [pc EXCEPT ![t] = "running"]
  /\ alloc' = alloc \cup {t} /\ sock' = sock \cup {t}
  /\ next' = [next EXCEPT ![t] = workers]
  /\ workers' = IF workers = Null THEN t ELSE workers
  /\ prev' = [u \in Threads |-> IF u = t THEN Null
                                ELSE IF u = workers THEN t ELSE prev[u]]
  /\ UNCHANGED <<cancelled, signal>>

\* The thread ends, or acts on its cancellation.
Leave(t) ==
  /\ pc[t] = "running" /\ ~signal
  /\ pc' = [pc EXCEPT ![t] = "exiting"]
  /\ UNCHANGED <<workers, next, prev, alloc, sock, cancelled, signal>>

client_cleanup(t) ==
  /\ pc[t] = "exiting" /\ ~signal /\ HeadInUse
  /\ pc' = [pc EXCEPT ![t] = "gone"]
  /\ IF t \in Listed
     THEN /\ prev' = [u \in Threads |-> IF u = next[t] THEN prev[t] ELSE prev[u]]
          /\ next' = [u \in Threads |-> IF u = prev[t] THEN next[t] ELSE next[u]]
          /\ workers' = IF prev[t] = Null THEN next[t] ELSE workers
          /\ alloc' = alloc \ {t} /\ sock' = sock \ {t}
     ELSE UNCHANGED <<workers, next, prev, alloc, sock>>
  /\ UNCHANGED <<cancelled, signal>>

\* SIGTERM: the signal thread cancels the threads on the list, then ends the
\* process.
kill_workers ==
  /\ ~signal /\ HeadInUse
  /\ signal' = TRUE
  /\ cancelled' = Listed
  /\ UNCHANGED <<workers, next, prev, alloc, sock, pc>>

Next ==
  \/ \E t \in Threads : add_worker(t) \/ Leave(t) \/ client_cleanup(t)
  \/ kill_workers
  \/ (signal \/ ~HeadInUse) /\ UNCHANGED vars   \* the process has exited, or is lost

Spec == Init /\ [][Next]_vars

\* "Cancel (kill) all outstanding workers": on SIGTERM every thread that has
\* entered itself and not cleaned up yet is cancelled.
KillsEveryWorker ==
  signal => \A t \in Threads : pc[t] \in {"running", "exiting"} => t \in cancelled
=============================================================================
