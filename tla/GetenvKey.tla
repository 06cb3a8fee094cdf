----------------------------- MODULE GetenvKey -----------------------------
(***************************************************************************)
(* Two getenv functions for threads: getenv_r of apue.3e/threadctl/        *)
(* getenv2.c copies the value to the caller's buffer, getenv of getenv3.c  *)
(* to one it keeps for the thread.  A value is known by its length; a      *)
(* buffer holds the name it was filled for and how many bytes were         *)
(* written, the terminator included if there is one.                       *)
(***************************************************************************)
EXTENDS Integers, FiniteSetsExt

CONSTANTS
  Threads, Names, ValueLen,   \* ValueLen[n]: strlen of n's value, -1: not set
  Buflen, MAXSTRINGSZ, NoBuf

VARIABLES
  once, keyed,      \* pthread_once: "no", the thread in thread_init, "done"; the key
  env_mutex,        \* its holder
  gpc, call, name,  \* each thread's place, the function and the name it wants
  ptr, buf,         \* the buffer it was returned or gave; the buffers' contents
  own               \* the buffer pthread_getspecific gives each thread

vars == <<once, keyed, env_mutex, gpc, call, name, ptr, buf, own>>

Bufs == Threads \cup {"static"}
Empty == [name |-> NoBuf, bytes |-> 0, ended |-> FALSE]

Init ==
  /\ once = "no" /\ keyed = FALSE /\ env_mutex = NoBuf
  /\ gpc = [t \in Threads |-> "idle"] /\ call = [t \in Threads |-> "getenv"]
  /\ name \in [Threads -> Names]
  /\ ptr = [t \in Threads |-> NoBuf] /\ own = [t \in Threads |-> NoBuf]
  /\ buf = [b \in Bufs |-> Empty]

Goto(t, from, to) == gpc[t] = from /\ gpc' = [gpc EXCEPT ![t] = to]

Call(t, f, n) ==
  /\ Goto(t, "idle", "once")
  /\ call' = [call EXCEPT ![t] = f] /\ name' = [name EXCEPT ![t] = n]
  /\ ptr' = [ptr EXCEPT ![t] = NoBuf]
  /\ UNCHANGED <<once, keyed, env_mutex, buf, own>>

(* Mutation: a flag in place of pthread_once: nobody waits for thread_init to return. *)
Flagged(t) ==
  /\ \/ once = "no" /\ gpc[t] = "once" /\ once' = t /\ UNCHANGED <<keyed, gpc>>
     \/ once = t /\ once' = "done" /\ keyed' = TRUE /\ UNCHANGED gpc
     \/ once \notin {"no", t} /\ Goto(t, "once", "lock") /\ UNCHANGED <<once, keyed>>
  /\ UNCHANGED <<env_mutex, call, name, ptr, buf, own>>

(* pthread_once: one thread runs thread_init, the others wait for its end. *)
thread_init(t) ==
  /\ \/ once = "no" /\ gpc[t] = "once" /\ once' = t /\ UNCHANGED <<keyed, gpc>>
     \/ once = t /\ once' = "done" /\ keyed' = TRUE /\ UNCHANGED gpc
     \/ once = "done" /\ Goto(t, "once", "lock") /\ UNCHANGED <<once, keyed>>
  /\ UNCHANGED <<env_mutex, call, name, ptr, buf, own>>

Lock(t) ==
  /\ env_mutex = NoBuf /\ Goto(t, "lock", "copy") /\ env_mutex' = t
  /\ UNCHANGED <<once, keyed, call, name, ptr, buf, own>>

(* Mutation: one buffer for all, as in getenv1.c. *)
StaticBuffer(t) == "static"
KeptBuffer(t) == t

(* getenv_r: ENOSPC when the value and its end do not fit, ENOENT. *)
getenv_r(t) ==
  LET len == ValueLen[name[t]] IN
  /\ call[t] = "getenv_r" /\ env_mutex = t
  /\ IF len >= 0 /\ len < Buflen
     THEN /\ ptr' = [ptr EXCEPT ![t] = t]
          /\ buf' = [buf EXCEPT ![t] = [name |-> name[t], bytes |-> len + 1, ended |-> TRUE]]
     ELSE UNCHANGED <<ptr, buf>>
  /\ UNCHANGED own

(* getenv: at most MAXSTRINGSZ-1 bytes are copied, with the terminator only  *)
(* if it is among them; malloc does not clear what lies behind.              *)
getenv(t) ==
  LET len == ValueLen[name[t]]  b == KeptBuffer(t) IN
  /\ call[t] = "getenv" /\ env_mutex = t
  /\ \/ own[t] = NoBuf /\ UNCHANGED <<ptr, buf, own>>        \* malloc fails
     \/ /\ own' = [own EXCEPT ![t] = b]
        /\ IF len >= 0
           THEN /\ ptr' = [ptr EXCEPT ![t] = b]
                /\ buf' = [buf EXCEPT ![b] = [name |-> name[t], bytes |-> Min({len + 1, MAXSTRINGSZ - 1}),
                                              ended |-> len + 1 <= MAXSTRINGSZ - 1]]
           ELSE UNCHANGED <<ptr, buf>>

Copy(t) ==
  /\ Goto(t, "copy", "use") /\ (getenv_r(t) \/ getenv(t))
  /\ env_mutex' = NoBuf
  /\ UNCHANGED <<once, keyed, call, name>>

(* The caller has done with the value. *)
Done(t) == Goto(t, "use", "idle") /\ UNCHANGED <<once, keyed, env_mutex, call, name, ptr, buf, own>>

Next ==
  \E t \in Threads :
    \/ thread_init(t) \/ Lock(t) \/ Copy(t) \/ Done(t)
    \/ \E n \in Names, f \in {"getenv", "getenv_r"} : Call(t, f, n)

-----------------------------------------------------------------------------
(* While a thread uses the value it was returned, the buffer holds the value *)
(* of the name it asked for, whoever else calls the functions meanwhile; no  *)
(* buffer was written beyond its end.                                        *)
OwnValue ==
  \A t \in Threads :
    /\ gpc[t] = "use" /\ ptr[t] # NoBuf => buf[ptr[t]].name = name[t]
    /\ gpc[t] = "use" /\ ptr[t] # NoBuf =>
         buf[ptr[t]].bytes <= (IF call[t] = "getenv" THEN MAXSTRINGSZ ELSE Buflen)

(* No thread uses the key before thread_init has created it.                 *)
KeyIsMade == \A t \in Threads : gpc[t] \in {"copy", "use"} => keyed
=============================================================================
