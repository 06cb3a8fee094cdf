------------------------------ MODULE PollMsg ------------------------------
(***************************************************************************)
(* A helper thread receives from a message queue and main polls a socket:  *)
(* apue.3e/ipc2/pollmsg.c sends the message over the socket ("copy"),      *)
(* exercises/pollmsg2.c leaves it in a buffer they share, sends a byte,    *)
(* and waits until main says it has printed it ("share").  One queue: the  *)
(* others have a thread, a socket and a buffer of their own.               *)
(***************************************************************************)
EXTENDS Integers, Sequences, SequencesExt

CONSTANTS MaxMsgs   \* messages 1, 2, .. are sent

VARIABLES
  prog,               \* "copy" or "share"
  sent, mq,           \* history: messages sent; the queue
  hpc, m,             \* the helper's place, and its buffer
  sock,               \* datagrams on their way to main
  npc, mutex,         \* main's place; who holds the mutex
  printed,            \* history: what main printed
  spurious            \* history: has pthread_cond_wait returned unasked

vars == <<prog, sent, mq, hpc, m, sock, npc, mutex, printed, spurious>>

Init ==
  /\ prog \in {"copy", "share"}
  /\ sent = 0 /\ mq = <<>> /\ hpc = "rcv" /\ m = 0 /\ sock = <<>>
  /\ npc = "poll" /\ mutex = "free" /\ printed = <<>> /\ spurious = FALSE

Send ==
  /\ sent < MaxMsgs /\ sent' = sent + 1 /\ mq' = Append(mq, sent + 1)
  /\ UNCHANGED <<prog, hpc, m, sock, npc, mutex, printed, spurious>>

(* pollmsg.c: what was received goes to the socket; main prints what it reads. *)
CopyHelper ==
  /\ prog = "copy"
  /\ \/ hpc = "rcv" /\ mq # <<>> /\ m' = Head(mq) /\ mq' = Tail(mq) /\ hpc' = "write" /\ UNCHANGED sock
     \/ hpc = "write" /\ sock' = Append(sock, m) /\ hpc' = "rcv" /\ UNCHANGED <<mq, m>>
  /\ UNCHANGED <<prog, sent, npc, mutex, printed, spurious>>

CopyMain ==
  /\ prog = "copy"
  /\ sock # <<>> /\ sock' = Tail(sock) /\ printed' = Append(printed, Head(sock))
  /\ UNCHANGED <<prog, sent, mq, hpc, m, npc, mutex, spurious>>

-----------------------------------------------------------------------------
(* pollmsg2.c.  The rounds of the helper and of main as tables of steps. *)
Receive(next) ==
  hpc = "rcv" /\ mq # <<>> /\ m' = Head(mq) /\ mq' = Tail(mq) /\ hpc' = next /\ UNCHANGED <<sock, mutex>>
LockStep(next) ==
  hpc = "lock" /\ mutex = "free" /\ mutex' = "helper" /\ hpc' = next /\ UNCHANGED <<mq, m, sock>>
WriteStep(next, holder) ==
  hpc = "write" /\ sock' = Append(sock, m) /\ hpc' = next /\ mutex' = holder /\ UNCHANGED <<mq, m>>
UnlockStep ==
  hpc = "woken" /\ mutex = "free" /\ hpc' = "rcv" /\ UNCHANGED <<mq, m, sock, mutex>>
WaitStep ==
  hpc = "sleep" /\ mutex' = "free" /\ hpc' = "wait" /\ UNCHANGED <<mq, m, sock>>
HelperOnly == prog = "share" /\ UNCHANGED <<prog, sent, npc, printed, spurious>>

(* Mutation: the helper does not wait for main to have printed. *)
NoHandshake == HelperOnly /\ (Receive("write") \/ WriteStep("rcv", mutex))

(* Mutation: the helper writes before it has the mutex: main may signal too early. *)
WriteFirst ==
  HelperOnly /\ (Receive("write") \/ WriteStep("lock", mutex) \/ LockStep("sleep") \/ WaitStep \/ UnlockStep)

(* Receive, lock, write, wait (which releases the mutex), unlock. *)
ShareHelper ==
  HelperOnly /\ (Receive("lock") \/ LockStep("write") \/ WriteStep("sleep", mutex) \/ WaitStep \/ UnlockStep)

(* Read the byte, print what is in the buffer, signal under the mutex. *)
ShareMain ==
  /\ prog = "share"
  /\ \/ npc = "poll" /\ sock # <<>> /\ sock' = Tail(sock) /\ npc' = "print" /\ UNCHANGED <<hpc, mutex, printed>>
     \/ npc = "print" /\ printed' = Append(printed, m) /\ npc' = "lock" /\ UNCHANGED <<hpc, sock, mutex>>
     \/ npc = "lock" /\ mutex = "free" /\ mutex' = "main" /\ npc' = "signal" /\ UNCHANGED <<hpc, sock, printed>>
     \/ npc = "signal" /\ hpc' = (IF hpc = "wait" THEN "woken" ELSE hpc) /\ mutex' = "free"
        /\ npc' = "poll" /\ UNCHANGED <<sock, printed>>
  /\ UNCHANGED <<prog, sent, mq, m, spurious>>

Spurious ==
  /\ hpc = "wait" /\ hpc' = "woken" /\ spurious' = TRUE
  /\ UNCHANGED <<prog, sent, mq, m, sock, npc, mutex, printed>>

helper == CopyHelper \/ ShareHelper
main == CopyMain \/ ShareMain
Next == Send \/ helper \/ Spurious \/ main

-----------------------------------------------------------------------------
(* Main prints the messages as they were sent, each once; with the shared    *)
(* buffer of pollmsg2.c, as long as no wait has returned unasked: the helper *)
(* has no condition to test again.                                           *)
PrintsMessages == ~spurious => printed = [i \in 1 .. Len(printed) |-> i]

(* main's signal never comes before the helper waits for it: whatever is     *)
(* sent is printed in the end.                                               *)
AllPrinted == \A n \in 1 .. MaxMsgs : sent >= n ~> Len(printed) >= n
=============================================================================
