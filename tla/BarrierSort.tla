---------------------------- MODULE BarrierSort ----------------------------
(***************************************************************************)
(* apue.3e/threads/barrier.c: each thread sorts its part of nums and waits *)
(* at the barrier; main waits there too and then merges the parts.  Where  *)
(* the code never sets minidx, any value could be in it.                   *)
(***************************************************************************)
EXTENDS Integers, Sequences, FiniteSets, Functions

CONSTANTS NTHR, TNUM, Values, LONG_MAX

NUMNUM == NTHR * TNUM
Thr == 0 .. NTHR - 1

VARIABLES
  nums, snums,       \* the numbers, and the result
  arrived, tstate,   \* how many wait at the barrier; each thread's place
  bpc, idx,          \* main's place, and the merge's position in each part
  given              \* history: the numbers before the sort

vars == <<nums, snums, arrived, tstate, bpc, idx, given>>

Init ==
  /\ nums \in [0 .. NUMNUM - 1 -> Values] /\ given = nums /\ snums = <<>>
  /\ arrived = 0 /\ tstate = [t \in Thr |-> "none"]
  /\ bpc = "create" /\ idx = [t \in Thr |-> t * TNUM]

complong(l1, l2) == l1 < l2

(* Thread t's numbers. *)
Part(t) == t * TNUM .. (t + 1) * TNUM - 1

(* pthread_create, in order; then main waits too. *)
Create ==
  /\ bpc = "create"
  /\ \/ \E t \in Thr :
          /\ tstate[t] = "none" /\ \A u \in 0 .. t - 1 : tstate[u] # "none"
          /\ tstate' = [tstate EXCEPT ![t] = "sort"] /\ UNCHANGED <<arrived, bpc>>
     \/ /\ \A t \in Thr : tstate[t] # "none"
        /\ arrived' = arrived + 1 /\ bpc' = "barrier" /\ UNCHANGED tstate
  /\ UNCHANGED <<nums, snums, idx, given>>

thr_fn(t) ==
  /\ tstate[t] = "sort"
  /\ \E p \in Bijection(Part(t), Part(t)) :   \* heapsort
       /\ nums' = [i \in DOMAIN nums |-> IF i \in Part(t) THEN nums[p[i]] ELSE nums[i]]
       /\ \A i, j \in Part(t) : i < j => ~complong(nums'[j], nums'[i])
  /\ arrived' = arrived + 1 /\ tstate' = [tstate EXCEPT ![t] = "barrier"]
  /\ UNCHANGED <<snums, bpc, idx, given>>

(* Mutation: the barrier does not count main. *)
OneShort == NTHR

(* The barrier opens when all have come. *)
Waiters == NTHR + 1
Open ==
  /\ bpc = "barrier" /\ arrived >= Waiters /\ bpc' = "merge"
  /\ UNCHANGED <<nums, snums, arrived, tstate, idx, given>>

(* One round of the merge: the least of the parts' first numbers. *)
Heads == {t \in Thr : idx[t] < (t + 1) * TNUM /\ nums[idx[t]] < LONG_MAX}
Least(t) == \A u \in Heads : nums[idx[t]] < nums[idx[u]] \/ (nums[idx[t]] = nums[idx[u]] /\ t <= u)
minidx == IF Heads = {} THEN Thr ELSE {t \in Heads : Least(t)}

merge ==
  /\ bpc = "merge" /\ Len(snums) < NUMNUM
  /\ \E t \in minidx : snums' = Append(snums, nums[idx[t]]) /\ idx' = [idx EXCEPT ![t] = @ + 1]
  /\ UNCHANGED <<nums, arrived, tstate, bpc, given>>

Next == Create \/ Open \/ merge \/ \E t \in Thr : thr_fn(t)

-----------------------------------------------------------------------------
(* What main prints is the numbers in order: the merge works on parts that   *)
(* are all sorted, and takes each number once.  (Every number is below       *)
(* LONG_MAX, as random() gives them where long has 64 bits.)                 *)
Sorted ==
  bpc = "merge" =>
    /\ \A i \in 1 .. Len(snums) - 1 : snums[i] <= snums[i + 1]
    /\ \A v \in Values :
         Cardinality({i \in DOMAIN snums : snums[i] = v}) <= Cardinality({i \in DOMAIN given : given[i] = v})
=============================================================================
