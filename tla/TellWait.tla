------------------------------ MODULE TellWait ------------------------------
(***************************************************************************)
(* TELL and WAIT between parent and child, with pipes (apue.3e/ipc1/       *)
(* tellwait.c) or with signals (lib/tellwait.c), as ipc1/devzero.c uses    *)
(* them: the two count in turns in shared memory.  proc/tellwait2.c is its *)
(* first half round.  WAIT with signals puts the old mask back at its end, *)
(* so only a process's first wait has the signals blocked before it.       *)
(***************************************************************************)
EXTENDS Integers

CONSTANTS NLOOPS

Sides == {"parent", "child"}
Other(s) == IF s = "parent" THEN "child" ELSE "parent"

VARIABLES
  by,               \* "pipe" or "signal"
  area,             \* the shared counter
  wpc, i,           \* each side's place, and its loop index
  bytes,            \* bytes in the pipe each side reads
  sigflag,          \* set by each side's handler
  block, spend,     \* is the signal blocked, is it pending
  waits             \* history: how many waits each side has finished

vars == <<by, area, wpc, i, bytes, sigflag, block, spend, waits>>

(* TELL_WAIT comes before the fork: both sides have what it set up. *)
Init ==
  /\ by \in {"pipe", "signal"} /\ area = 0
  /\ wpc = [parent |-> "update", child |-> "wait"] /\ i = [parent |-> 0, child |-> 1]
  /\ bytes = [s \in Sides |-> 0] /\ sigflag = [s \in Sides |-> FALSE]
  /\ block = [s \in Sides |-> TRUE] /\ spend = [s \in Sides |-> FALSE]
  /\ waits = [s \in Sides |-> 0]

Go(s, from, to) == wpc[s] = from /\ wpc' = [wpc EXCEPT ![s] = to]

(* update() and the check of its result; "error" is err_quit. *)
update(s) ==
  /\ wpc[s] = "update" /\ area' = area + 1
  /\ wpc' = [wpc EXCEPT ![s] = IF area = i[s] THEN "tell" ELSE "error"]
  /\ UNCHANGED <<by, i, bytes, sigflag, block, spend, waits>>

(* The next round of the loop of main. *)
Looped(s) == IF i[s] + 2 < NLOOPS + (IF s = "child" THEN 1 ELSE 0)
             THEN (IF s = "child" THEN "wait" ELSE "update") ELSE "exit"

(* A signal that is not blocked runs sig_usr and ends a sigsuspend. *)
Deliver(s) ==
  IF block[s] /\ wpc[s] # "suspended"
  THEN spend' = [spend EXCEPT ![s] = TRUE] /\ UNCHANGED <<sigflag, block>>
  ELSE /\ sigflag' = [sigflag EXCEPT ![s] = TRUE] /\ UNCHANGED <<spend, block>>

TELL(s) ==
  LET o == Other(s)  next == IF s = "parent" THEN "wait" ELSE Looped(s) IN
  /\ wpc[s] = "tell"
  /\ IF by = "pipe" THEN bytes' = [bytes EXCEPT ![o] = @ + 1] /\ UNCHANGED <<sigflag, block, spend>>
                    ELSE Deliver(o) /\ UNCHANGED bytes
  /\ wpc' = [wpc EXCEPT ![s] = next, ![o] = IF by = "signal" /\ @ = "suspended" THEN "wait" ELSE @]
  /\ i' = [i EXCEPT ![s] = IF s = "child" THEN @ + 2 ELSE @]
  /\ UNCHANGED <<by, area, waits>>

Waited(s) ==
  /\ wpc' = [wpc EXCEPT ![s] = IF s = "parent" THEN Looped(s) ELSE "update"]
  /\ i' = [i EXCEPT ![s] = IF s = "parent" THEN @ + 2 ELSE @]
  /\ waits' = [waits EXCEPT ![s] = @ + 1]

(* Mutation: the wait does not wait. *)
NoRead(s) ==
  /\ by = "pipe" /\ wpc[s] = "wait" /\ Waited(s)
  /\ UNCHANGED <<by, area, bytes, sigflag, block, spend>>

(* The pipes: a byte is taken, or waited for. *)
WaitPipe(s) ==
  /\ by = "pipe" /\ wpc[s] = "wait" /\ bytes[s] > 0
  /\ bytes' = [bytes EXCEPT ![s] = @ - 1] /\ Waited(s)
  /\ UNCHANGED <<by, area, sigflag, block, spend>>

(* The signals: test sigflag; sigsuspend with nothing blocked, which a       *)
(* pending signal ends at once; clear the flag and put the mask back.        *)
WaitSignal(s) ==
  /\ by = "signal"
  /\ \/ ~sigflag[s] /\ Go(s, "wait", "sigsuspend") /\ UNCHANGED <<i, sigflag, block, spend, waits>>
     \/ IF spend[s]
        THEN /\ Go(s, "sigsuspend", "wait") /\ spend' = [spend EXCEPT ![s] = FALSE]
             /\ sigflag' = [sigflag EXCEPT ![s] = TRUE] /\ UNCHANGED <<i, block, waits>>
        ELSE Go(s, "sigsuspend", "suspended") /\ UNCHANGED <<i, sigflag, block, spend, waits>>
     \/ /\ wpc[s] = "wait" /\ sigflag[s] /\ Waited(s)
        /\ sigflag' = [sigflag EXCEPT ![s] = FALSE] /\ block' = [block EXCEPT ![s] = FALSE]
        /\ UNCHANGED spend
  /\ UNCHANGED <<by, area, bytes>>

Step(s) == update(s) \/ TELL(s) \/ WaitPipe(s) \/ WaitSignal(s)
Next == \E s \in Sides : Step(s)

-----------------------------------------------------------------------------
(* Parent and child really take turns: neither ever finds a count that it    *)
(* did not expect, by pipe or by signal.                                     *)
TakeTurns == \A s \in Sides : wpc[s] # "error"

(* With pipes the two come to the end of the loop.  With signals each        *)
(* process's first wait ends; a later one can miss its signal between the    *)
(* test of sigflag and sigsuspend.                                           *)
TurnsGoOn ==
  /\ by = "pipe" => <>(\A s \in Sides : wpc[s] = "exit")
  /\ \A s \in Sides : <>(waits[s] > 0)
=============================================================================
