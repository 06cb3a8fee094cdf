--------------------------- MODULE DbChainsProofs ---------------------------
(***************************************************************************)
(* For any number of processes, keys and chains: the hash chains of Db     *)
(* hold exactly the map, the free list exactly the free records, no record *)
(* is lost, and the library implements the map of DbMap.                   *)
(*                                                                         *)
(* What follows from a chain pointer is described without following        *)
(* pointers, by two functions that no variable holds: on[b] is the set of  *)
(* records on the list that starts at chain pointer b, and rk[b] gives     *)
(* each a rank that falls along the list.                                  *)
(***************************************************************************)
EXTENDS DbProofs, FiniteSetTheorems

\* A process was killed in a call that may delete a record.
Deletes == {"delete", "replace", "store"}
HalfDeleted == \E p \in Procs : pc[p] = "killed" /\ h[p].req.op \in Deletes

\* No process is killed in such a call: there, HalfDeleted is never true.
NoHalfDelete == CrashOps \cap Deletes = {}

-----------------------------------------------------------------------------
(* Lists.                                                                   *)

\* The set S in the order of falling rank R: a is its first element, and x is the
\* one after m; 0 if there is none.
Ranked(S, R) == \A m, n \in S : R[m] = R[n] => m = n
First(S, R, a) == IF a = 0 THEN S = {} ELSE a \in S /\ \A n \in S : R[n] <= R[a]
After(S, R, m, x) ==
  IF x = 0 THEN \A n \in S : R[n] >= R[m]
  ELSE x \in S /\ R[x] < R[m] /\ \A n \in S : R[n] < R[m] => R[n] <= R[x]

\* The list gets n as its new first element.
Pushed(R, a, n) == [R EXCEPT ![n] = IF a = 0 THEN 0 ELSE R[a] + 1]

-----------------------------------------------------------------------------
(* What a process is at, and the locks it holds.                            *)

DeletePcs == {"dlock", "ddat", "dfree", "didx", "dhead", "dprev"}
FreePcs == {"flock", "fptr", "funlink", "funlock", "rdat", "ridx"}
LatePcs == {"chead", "adlock", "adseek", "adwrite", "adunlock", "ailock", "aiseek", "aiwrite",
            "aiunlock", "link"} \cup FreePcs
Replaces == {"replace", "store"}

Answered(p) == pc[p] \in {"unlock", "nunlock"} \/ (pc[p] = "dunlock" /\ h[p].req.op = "delete")
HasChain(p) == pc[p] \notin {"idle", "lockchain"} \cup Stopped /\ h[p].phase # "scan"
HasFree(p) ==
  \/ pc[p] \in {"ddat", "dfree", "didx", "dhead", "dprev", "dunlock", "fptr", "funlink", "funlock"}
  \/ pc[p] \in {"hdr", "rec"} /\ h[p].phase = "free"
Scans(p) == pc[p] \in {"hdr", "rec", "readdat", "nunlock"} /\ h[p].phase = "scan"

OpAt(p) ==
  /\ pc[p] \in {"lockchain", "findptr"} => h[p].phase = "find"
  /\ pc[p] = "findptr" => h[p].ptroff = ChainOf(p)
  /\ pc[p] = "readdat" => IF h[p].phase = "scan" THEN TRUE ELSE h[p].phase = "find" /\ h[p].req.op = "fetch"
  /\ pc[p] = "odat" => h[p].phase = "find" /\ h[p].req.op \in Replaces
  /\ pc[p] \in DeletePcs \cup {"dunlock"} => h[p].phase = "find" /\ h[p].req.op \in Replaces \cup {"delete"}
  /\ pc[p] \in FreePcs => h[p].phase = "free"
  /\ pc[p] \in LatePcs => h[p].phase = "free" \/ h[p].req.op \in Replaces
  /\ h[p].phase = "free" => h[p].req.op \in {"insert", "store"} /\ pc[p] \in {"hdr", "rec", "unlock"} \cup LatePcs

LocksAt(p) ==
  /\ HasChain(p) => p \in (IF h[p].req.op = "fetch" THEN rd[ChainOf(p)] ELSE wr[ChainOf(p)])
  /\ HasFree(p) => p \in wr[FREE]
  /\ Scans(p) => p \in rd[FREE]

Turn(p) ==
  /\ pc[p] = "idle" => h[p].req = NoReq /\ h[p].rc.st = "pending"
  /\ pc[p] \notin {"idle"} \cup Stopped => OpAt(p) /\ (h[p].rc.st = "pending" <=> ~Answered(p))
  /\ LocksAt(p)
TurnInv == IInv /\ \A p \in Procs : Turn(p)

-----------------------------------------------------------------------------
(* The lists.                                                               *)

\* Process p has led the pointer of record n into the free list and has still to take
\* n off its chain b.
Cuts(p, b, n) == pc[p] \in {"dhead", "dprev"} /\ h[p].idxoff = n /\ ChainOf(p) = b

Linked(on, rk) ==
  \A b \in ChainPtrs :
    /\ on[b] \subseteq DOMAIN idx /\ Ranked(on[b], rk[b]) /\ First(on[b], rk[b], head[b])
    /\ \A n \in on[b] : After(on[b], rk[b], n, idx[n].ptr) \/ \E p \in Procs : Cuts(p, b, n)

\* Record n is in place on chain c; its data is that of the map unless a process is
\* between overwriting it with spaces and making the record blank.
Wipes(p, c, n) == pc[p] \in {"dfree", "didx"} /\ h[p].idxoff = n /\ ChainOf(p) = c
Current(c, n) ==
  /\ idx[n].key \in Keys /\ Hash[idx[n].key] = c /\ map[idx[n].key] # Blank
  /\ dat[idx[n].datoff].val = map[idx[n].key] \/ \E p \in Procs : Wipes(p, c, n)

\* Process p has the only record of its key off its chain, and has still to delete the
\* key or to link its new record.
Away(p) ==
  \/ pc[p] \in {"dhead", "dprev"}
  \/ pc[p] \in LatePcs \cup {"dunlock"} /\ h[p].phase = "find" /\ h[p].req.op \in Replaces

\* Process p has written record n and has not linked it, or has ended before it did.
Leaves(p, n) ==
  /\ pc[p] \in {"aiunlock", "link", "killed", "quit"} /\ h[p].idxoff = n /\ h[p].rc.st = "pending"
  /\ h[p].req.op \in StoreOps /\ h[p].req.key = idx[n].key /\ h[p].req.val = dat[idx[n].datoff].val

\* Process p has a record that is on no list.
Takes(p) == pc[p] \in {"rdat", "ridx", "aiunlock", "link"} \/ (pc[p] = "funlock" /\ h[p].idxoff # 0)

OnChains(on) == \A c \in Chains :
  /\ \A n \in on[c] : Current(c, n) \/ \E p \in Procs : Cuts(p, c, n)
  /\ \A m, n \in on[c] : idx[m].key = idx[n].key => m = n
InMap(on) == \A k \in Keys : map[k] # Blank =>
  (\E n \in on[Hash[k]] : idx[n].key = k) \/ \E p \in Procs : Away(p) /\ h[p].req.key = k
OnFree(on) == \A n \in on[FREE] : idx[n].key = Blank /\ dat[idx[n].datoff].val = Blank
Written(on) == \A n \in DOMAIN idx : idx[n].key # Blank =>
  n \in on[Hash[idx[n].key]] \/ \E p \in Procs : Leaves(p, n)
Kept(on) == (\A p \in Procs : pc[p] \notin {"killed", "quit", "dumped"}) =>
  \A n \in DOMAIN idx :
    (\E b \in ChainPtrs : n \in on[b]) \/ \E p \in Procs : Takes(p) /\ h[p].idxoff = n

-----------------------------------------------------------------------------
(* What a process knows about the lists it has locked.                      *)

\* The list that the walk of p is on, and that ptroff is where the pointer to n is.
Base(p) == IF h[p].phase = "free" THEN FREE ELSE ChainOf(p)
Comes(on, rk, b, o, n) ==
  \/ o = b /\ First(on[b], rk[b], n)
  \/ o \in on[b] /\ After(on[b], rk[b], o, n)

\* A walk is at a record of its list, and has passed no record with the key.
Walks(p, on, rk) == pc[p] \in {"hdr", "rec"} /\ h[p].phase # "scan" =>
  LET b == Base(p) n == h[p].idxoff IN
  /\ n \in on[b] /\ Comes(on, rk, b, h[p].ptroff, n)
  /\ pc[p] = "rec" => After(on[b], rk[b], n, h[p].ptrval)
  /\ h[p].phase = "find" => \A m \in on[b] : idx[m].key = h[p].req.key => rk[b][m] <= rk[b][n]

\* The record of the key was found on the chain, and is being read, overwritten or
\* deleted.
Found(p, on, rk) == pc[p] \in {"readdat", "odat"} \cup DeletePcs /\ h[p].phase # "scan" =>
  LET c == ChainOf(p) n == h[p].idxoff IN
  /\ n \in on[c] /\ map[h[p].req.key] # Blank
  /\ pc[p] \in DeletePcs => Comes(on, rk, c, h[p].ptroff, n)
  /\ pc[p] \in {"dlock", "ddat", "dfree"} => After(on[c], rk[c], n, h[p].ptrval)
  /\ pc[p] \in {"didx", "dhead", "dprev"} => After(on[c], rk[c], n, h[p].saveptr)
  /\ idx[n].key = IF pc[p] \in {"dhead", "dprev"} THEN Blank ELSE h[p].req.key
  /\ pc[p] \in {"dfree", "didx", "dhead", "dprev"} => dat[idx[n].datoff].val = Blank
  /\ pc[p] = "didx" => h[p].freeptr = head[FREE]
  /\ pc[p] = "dhead" => n \notin on[FREE] /\ idx[n].ptr = head[FREE]
  /\ pc[p] = "dprev" => n \in on[FREE]
  /\ pc[p] \in {"dhead", "dprev"} => \A m \in on[c] : idx[m].key # h[p].req.key
  /\ pc[p] = "readdat" => h[p].idxkey = h[p].req.key

\* The key is on no record of the chain, and a record linked in front will lead to
\* what is now the first.
Absent(p, on) == pc[p] \in LatePcs \cup {"dunlock"} \/ (pc[p] \in {"hdr", "rec"} /\ h[p].phase = "free") =>
  /\ \A n \in on[ChainOf(p)] : idx[n].key # h[p].req.key
  /\ pc[p] \notin {"chead", "dunlock"} => h[p].front = head[ChainOf(p)]
  /\ map[h[p].req.key] = Blank <=> ~Away(p)

\* The free record, or the new one, that p has.
Owns(p, on, rk) ==
  /\ pc[p] = "funlink" =>
       /\ h[p].idxoff \in on[FREE] /\ Comes(on, rk, FREE, h[p].ptroff, h[p].idxoff)
       /\ After(on[FREE], rk[FREE], h[p].idxoff, h[p].ptrval)
  /\ Takes(p) => \A b \in ChainPtrs : h[p].idxoff \notin on[b]
  /\ pc[p] \in {"funlock", "rdat", "ridx"} /\ h[p].idxoff # 0 => idx[h[p].idxoff].key = Blank
  /\ pc[p] \in {"ridx", "adunlock", "ailock", "aiseek", "aiwrite"} => dat[h[p].datoff].val = h[p].req.val
  /\ pc[p] = "aiwrite" => h[p].ptrval = h[p].front
  /\ pc[p] \in {"aiunlock", "link"} => Leaves(p, h[p].idxoff) /\ idx[h[p].idxoff].ptr = h[p].front

\* A scan that is between the two reads of a record has a record that stays.
Sees(p) == pc[p] = "readdat" /\ h[p].phase = "scan" =>
  h[p].idxkey # Blank /\ idx[h[p].idxoff].key = h[p].idxkey

Knows(p, on, rk) ==
  Walks(p, on, rk) /\ Found(p, on, rk) /\ Absent(p, on) /\ Owns(p, on, rk) /\ Sees(p)

Chained(on, rk) ==
  /\ Linked(on, rk) /\ OnChains(on) /\ InMap(on) /\ OnFree(on) /\ Written(on) /\ Kept(on)
  /\ \A p \in Procs : Knows(p, on, rk)
  /\ \A p, q \in Procs : Takes(p) /\ Takes(q) /\ h[p].idxoff = h[q].idxoff => p = q
Ghosts(on, rk) == on \in [ChainPtrs -> SUBSET Nat] /\ rk \in [ChainPtrs -> [Nat -> Nat]]
ChainsInv == \E on, rk : Ghosts(on, rk) /\ Chained(on, rk)
-----------------------------------------------------------------------------
(* Lists as such.                                                           *)

\* _db_writeptr puts a record in front of a list.
LEMMA PushKeeps ==
  ASSUME NEW S \in SUBSET Nat, NEW R \in [Nat -> Nat], Ranked(S, R),
         NEW a \in Nat, First(S, R, a), NEW n \in Nat \ {0}, n \notin S
  PROVE  LET T == S \cup {n} Q == Pushed(R, a, n) IN
         /\ Q \in [Nat -> Nat] /\ Ranked(T, Q) /\ First(T, Q, n) /\ After(T, Q, n, a)
         /\ \A m \in S, x \in Nat : After(S, R, m, x) => After(T, Q, m, x)
<1> DEFINE T == S \cup {n}
           Q == Pushed(R, a, n)
<1>1. Q \in [Nat -> Nat] /\ \A m \in S : Q[m] = R[m] /\ R[m] \in Nat
  BY DEF First, Pushed
<1>2. Q[n] \in Nat /\ \A m \in S : Q[m] < Q[n]
  BY <1>1 DEF First, Pushed
<1> HIDE DEF Q
<1>3. Ranked(T, Q) /\ First(T, Q, n)
  BY <1>1, <1>2 DEF Ranked, First
<1>4. After(T, Q, n, a)
  BY <1>1, <1>2 DEF First, After
<1>5. ASSUME NEW m \in S, NEW x \in Nat, After(S, R, m, x) PROVE After(T, Q, m, x)
  <2>1. CASE x = 0
    BY <1>1, <1>2, <1>5, <2>1 DEF After
  <2>2. CASE x # 0
    <3>1. x \in S /\ R[x] < R[m] /\ \A k \in S : R[k] < R[m] => R[k] <= R[x]
      BY <1>5, <2>2 DEF After
    <3>2. Q[x] < Q[m] /\ \A k \in T : Q[k] < Q[m] => Q[k] <= Q[x]
      BY <1>1, <1>2, <3>1
    <3> QED  BY <2>2, <3>1, <3>2 DEF After
  <2> QED  BY <2>1, <2>2
<1> HIDE DEF T
<1>6. \A m \in S, x \in Nat : After(S, R, m, x) => After(T, Q, m, x)
  BY <1>5
<1> QED  BY <1>1, <1>3, <1>4, <1>6 DEF T, Q

\* _db_writeptr takes record n off a list: what led to it leads to the one after it.
LEMMA RemoveKeeps ==
  ASSUME NEW S \in SUBSET Nat, NEW R \in [Nat -> Nat], Ranked(S, R), 0 \notin S,
         NEW n \in S, NEW x \in Nat, After(S, R, n, x)
  PROVE  LET T == S \ {n} IN
         /\ Ranked(T, R)
         /\ First(S, R, n) => First(T, R, x) /\ \A m \in T : \A y : After(S, R, m, y) => y # n
         /\ \A o \in S : After(S, R, o, n) =>
              /\ o \in T /\ After(T, R, o, x) /\ \A a : First(S, R, a) => First(T, R, a)
              /\ \A m \in T : After(S, R, m, n) => m = o
         /\ \A m \in T : \A y : y # n /\ After(S, R, m, y) => After(T, R, m, y)
<1> DEFINE T == S \ {n}
<1>1. \A m \in S : R[m] \in Nat /\ m # 0
  OBVIOUS
<1>2. Ranked(T, R)
  BY DEF Ranked
<1>3. First(S, R, n) => First(T, R, x) /\ \A m \in T : \A y : After(S, R, m, y) => y # n
  BY <1>1 DEF First, After, Ranked
<1>4. ASSUME NEW o \in S, After(S, R, o, n)
      PROVE  /\ o \in T /\ After(T, R, o, x) /\ \A a : First(S, R, a) => First(T, R, a)
             /\ \A m \in T : After(S, R, m, n) => m = o
  <2>1. o \in T /\ R[n] < R[o]
    BY <1>1, <1>4 DEF After
  <2>2. After(T, R, o, x)
    <3>1. CASE x = 0
      BY <1>1, <1>4, <2>1, <3>1 DEF After, Ranked
    <3>2. CASE x # 0
      <4>1. x \in S /\ R[x] < R[n] /\ \A k \in S : R[k] < R[n] => R[k] <= R[x]
        BY <3>2 DEF After
      <4>2. \A k \in S : R[k] < R[o] => R[k] <= R[n]
        BY <1>1, <1>4 DEF After
      <4>3. \A k \in T : R[k] < R[o] => R[k] < R[n]
        BY <1>1, <4>2 DEF Ranked
      <4>4. x \in T /\ R[x] < R[o] /\ \A k \in T : R[k] < R[o] => R[k] <= R[x]
        BY <1>1, <2>1, <4>1, <4>3
      <4> QED  BY <3>2, <4>4 DEF After
    <3> QED  BY <3>1, <3>2
  <2>3. ASSUME NEW a, First(S, R, a) PROVE First(T, R, a)
    BY <1>1, <2>1, <2>3 DEF First
  <2>4. ASSUME NEW m \in T, After(S, R, m, n) PROVE m = o
    BY <1>1, <1>4, <2>1, <2>4 DEF After, Ranked
  <2> QED  BY <2>1, <2>2, <2>3, <2>4
<1>5. ASSUME NEW m \in T, NEW y, y # n, After(S, R, m, y) PROVE After(T, R, m, y)
  BY <1>1, <1>5 DEF After
<1> QED  BY <1>2, <1>3, <1>4, <1>5

\* There is only one after a record, and only one first.
LEMMA OneAfter ==
  ASSUME NEW S \in SUBSET Nat, NEW R \in [Nat -> Nat], Ranked(S, R), 0 \notin S, NEW m \in S,
         NEW x \in Nat, NEW y \in Nat, After(S, R, m, x), After(S, R, m, y)
  PROVE  x = y
<1>1. \A n \in S : R[n] \in Nat /\ n # 0
  OBVIOUS
<1>2. CASE x # 0 /\ y # 0
  BY <1>1, <1>2 DEF After, Ranked
<1>3. CASE x = 0 \/ y = 0
  BY <1>1, <1>3 DEF After
<1> QED  BY <1>2, <1>3

\* Numbers have a least one.
LEMMA LeastNat ==
  ASSUME NEW T \in SUBSET Nat, T # {}
  PROVE  \E x \in T : \A y \in T : x <= y
<1>1. PICK x \in T : \A y \in T : ~(<<y, x>> \in OpToRel(<, Nat))
  BY NatLessThanWellFounded, WFMin, Zenon
<1>2. \A y \in T : ~(y < x)
  BY <1>1 DEF OpToRel
<1> QED  BY <1>2

\* The slots of the index file.
LEMMA SlotsAre ==
  ASSUME FilesOK
  PROVE  Len(idx) \in Nat /\ DOMAIN idx = 1 .. Len(idx)
         /\ \A n \in DOMAIN idx : n \in Nat \ {0} /\ idx[n].ptr \in Nat
<1>1. Len(idx) \in Nat /\ DOMAIN idx = 1 .. Len(idx)
  BY DEF FilesOK
<1>2. \A n \in DOMAIN idx : idx[n].ptr \in 0 .. Len(idx)
  BY DEF FilesOK
<1> QED  BY <1>1, <1>2

\* There is one slot more to follow than there are records.
LEMMA OneMore == ASSUME NEW n \in Nat PROVE n + 1 \in Nat \ {0} /\ (n + 1) - 1 = n
OBVIOUS

\* Following the pointers from record n, step by step.
TrailFrom(t, n) ==
  /\ t \in [1 .. Len(idx) + 1 -> Nat] /\ t[1] = n
  /\ \A i \in 2 .. Len(idx) + 1 : t[i] = IF t[i - 1] \in DOMAIN idx THEN idx[t[i - 1]].ptr ELSE 0

\* Trail is the function that its definition describes.
LEMMA TrailIs ==
  ASSUME FilesOK, NEW n \in Nat
  PROVE  TrailFrom(Trail(n), n)
<1> DEFINE N == Len(idx) + 1
           next(x) == IF x \in DOMAIN idx THEN idx[x].ptr ELSE 0
           part(f, k) == \A i \in 1 .. k : f[i] = IF i = 1 THEN n ELSE next(f[i - 1])
           Good == {k \in 1 .. N : \E f \in [1 .. N -> Nat] : part(f, k)}
<1>1. N \in Nat /\ 1 \in 1 .. N /\ \A x : next(x) \in Nat
  <2>1. Len(idx) \in Nat /\ \A x \in DOMAIN idx : idx[x].ptr \in Nat
    BY DEF FilesOK
  <2> QED  BY <2>1
<1> HIDE DEF next
<1>2. Good = 1 .. N
  <2> SUFFICES ASSUME (1 .. N) \ Good # {} PROVE FALSE
    OBVIOUS
  <2>1. PICK k \in (1 .. N) \ Good : \A j \in (1 .. N) \ Good : k <= j
    <3>1. (1 .. N) \ Good \in SUBSET Nat
      BY <1>1
    <3> QED  BY <3>1, LeastNat
  <2>2. k \in 1 .. N /\ k \in Nat /\ k \notin Good
    BY <1>1, <2>1
  <2>3. PICK f \in [1 .. N -> Nat] : part(f, k - 1)
    <3>1. CASE k = 1
      <4>1. [i \in 1 .. N |-> 0] \in [1 .. N -> Nat] /\ part([i \in 1 .. N |-> 0], 0)
        OBVIOUS
      <4>2. k - 1 = 0
        BY <3>1
      <4> HIDE DEF part
      <4> QED  BY <4>1, <4>2
    <3>2. CASE k # 1
      <4>1. k - 1 \in 1 .. N /\ ~(k <= k - 1)
        BY <1>1, <2>2, <3>2
      <4>2. k - 1 \in Good
        BY <2>1, <4>1
      <4> QED  BY <4>2
    <3> QED  BY <3>1, <3>2
  <2> DEFINE v == IF k = 1 THEN n ELSE next(f[k - 1])
             g == [f EXCEPT ![k] = v]
  <2>4. v \in Nat
    BY <1>1
  <2>5. g \in [1 .. N -> Nat] /\ g[k] = v /\ \A i \in 1 .. k - 1 : g[i] = f[i]
    BY <1>1, <2>2, <2>4
  <2> HIDE DEF g
  <2>6. part(g, k)
    <3> SUFFICES ASSUME NEW i \in 1 .. k PROVE g[i] = IF i = 1 THEN n ELSE next(g[i - 1])
      OBVIOUS
    <3>1. CASE i = k
      <4>1. k # 1 => k - 1 \in 1 .. k - 1
        BY <2>2
      <4> QED  BY <2>5, <3>1, <4>1
    <3>2. CASE i # k
      <4>1. i \in 1 .. k - 1 /\ (i # 1 => i - 1 \in 1 .. k - 1)
        BY <2>2, <3>2
      <4> QED  BY <2>3, <2>5, <4>1
    <3> QED  BY <3>1, <3>2
  <2> QED  BY <2>2, <2>5, <2>6
<1>3. PICK f \in [1 .. N -> Nat] : part(f, N)
  <2>1. N \in 1 .. N
    BY <1>1
  <2> HIDE DEF Good
  <2>2. N \in Good
    BY <1>2, <2>1
  <2> QED  BY <2>2 DEF Good
<1>4. f = [i \in 1 .. N |-> IF i = 1 THEN n ELSE next(f[i - 1])]
  BY <1>3
<1>5. Trail(n) = [i \in 1 .. N |-> IF i = 1 THEN n ELSE next(Trail(n)[i - 1])]
  <2> DEFINE eqn(t) == t = [i \in 1 .. N |-> IF i = 1 THEN n ELSE next(t[i - 1])]
  <2>1. Trail(n) = CHOOSE t : eqn(t)
    BY DEF Trail, next
  <2>2. eqn(f)
    BY <1>4
  <2> HIDE DEF eqn
  <2>3. eqn(Trail(n))
    BY <2>1, <2>2, Zenon
  <2> QED  BY <2>3 DEF eqn
<1> DEFINE t == Trail(n)
<1>6. DOMAIN t = 1 .. N /\ t[1] = n /\ \A i \in 2 .. N : t[i] = next(t[i - 1])
  <2> HIDE DEF t
  <2>1. t = [i \in 1 .. N |-> IF i = 1 THEN n ELSE next(t[i - 1])]
    BY <1>5 DEF t
  <2>2. \A i \in 2 .. N : i \in 1 .. N /\ i # 1
    BY <1>1
  <2> QED  BY <1>1, <2>1, <2>2
<1>7. t \in [1 .. N -> Nat]
  <2>1. t = [i \in 1 .. N |-> t[i]]
    BY <1>5
  <2>2. \A i \in 1 .. N : t[i] \in Nat
    <3> HIDE DEF t
    <3> QED  BY <1>1, <1>6
  <2> HIDE DEF t
  <2> QED  BY <2>1, <2>2
<1> QED  BY <1>6, <1>7 DEF TrailFrom, next

\* Following the pointers from the first element of a list meets just its elements.
LEMMA ListIsTrail ==
  ASSUME FilesOK, NEW S \in SUBSET DOMAIN idx, NEW R \in [Nat -> Nat], Ranked(S, R),
         NEW a \in Nat, First(S, R, a), \A n \in S : After(S, R, n, idx[n].ptr)
  PROVE  OnTrail(a) = S /\ Ends(a)
<1> DEFINE N == Len(idx) + 1
           t == Trail(a)
<1>1. N \in Nat \ {0} /\ DOMAIN idx = 1 .. N - 1 /\ \A n \in DOMAIN idx : n \in Nat \ {0} /\ idx[n].ptr \in Nat
  <2>1. N \in Nat \ {0} /\ N - 1 = Len(idx)
    <3>1. Len(idx) \in Nat
      BY SlotsAre
    <3>2. Len(idx) + 1 \in Nat \ {0} /\ (Len(idx) + 1) - 1 = Len(idx)
      BY ONLY <3>1, OneMore
    <3> QED  BY <3>2
  <2> HIDE DEF N
  <2> QED  BY <2>1, SlotsAre
<1>2. t \in [1 .. N -> Nat] /\ t[1] = a
  BY TrailIs DEF TrailFrom
<1>3. /\ \A i \in 2 .. N : t[i] = IF t[i - 1] \in DOMAIN idx THEN idx[t[i - 1]].ptr ELSE 0
      /\ \A n \in S : n \in Nat \ {0} /\ R[n] \in Nat
  <2>1. \A n \in S : n \in Nat \ {0} /\ R[n] \in Nat
    BY <1>1
  <2> QED  BY <2>1, TrailIs DEF TrailFrom
<1> HIDE DEF t, N
<1>4. \A i \in 1 .. N : t[i] \in S \cup {0}
  <2> DEFINE Bad == {i \in 1 .. N : t[i] \notin S \cup {0}}
  <2> SUFFICES ASSUME Bad # {} PROVE FALSE
    OBVIOUS
  <2>1. PICK i \in Bad : \A j \in Bad : i <= j
    <3>1. Bad \in SUBSET Nat
      BY <1>1
    <3> HIDE DEF Bad
    <3> QED  BY <3>1, LeastNat
  <2>2. i \in 1 .. N /\ t[i] \notin S \cup {0}
    BY <2>1
  <2>3. i # 1
    BY <1>2, <2>2 DEF First
  <2>4. i - 1 \in 1 .. N /\ i \in 2 .. N
    BY <1>1, <2>2, <2>3
  <2>5. t[i - 1] \in S \cup {0}
    <3>1. ~(i <= i - 1)
      BY <1>1, <2>2
    <3>2. i - 1 \notin Bad
      BY <2>1, <3>1
    <3> QED  BY <2>4, <3>2
  <2>6. 0 \notin DOMAIN idx
    BY <1>1
  <2> QED  BY <1>3, <2>2, <2>4, <2>5, <2>6 DEF After
<1>5. ASSUME NEW i \in 1 .. N, NEW j \in 1 .. N, i < j, t[j] # 0
      PROVE  t[i] # 0 /\ R[t[j]] < R[t[i]]
  <2> DEFINE Bad == {k \in 1 .. N : i < k /\ t[k] # 0 /\ ~(t[i] # 0 /\ R[t[k]] < R[t[i]])}
  <2> SUFFICES ASSUME Bad # {} PROVE FALSE
    BY <1>5
  <2>1. PICK k \in Bad : \A m \in Bad : k <= m
    <3>1. Bad \in SUBSET Nat
      BY <1>1
    <3> HIDE DEF Bad
    <3> QED  BY <3>1, LeastNat
  <2>2. k \in 1 .. N /\ i < k /\ t[k] # 0 /\ ~(t[i] # 0 /\ R[t[k]] < R[t[i]])
    BY <2>1
  <2>3. k \in 2 .. N /\ k - 1 \in 1 .. N /\ i <= k - 1
    BY <1>1, <2>2
  <2>4. t[k - 1] \in S /\ t[k] = idx[t[k - 1]].ptr
    <3>1. 0 \notin DOMAIN idx
      BY <1>1
    <3> QED  BY <1>3, <1>4, <2>2, <2>3, <3>1
  <2>5. t[k] \in S /\ R[t[k]] < R[t[k - 1]]
    BY <2>2, <2>4 DEF After
  <2>6. CASE k - 1 = i
    BY <1>3, <2>2, <2>4, <2>5, <2>6
  <2>7. CASE k - 1 # i
    <3>1. k - 1 \notin Bad
      <4>1. ~(k <= k - 1)
        BY <1>1, <2>2
      <4> HIDE DEF Bad
      <4> QED  BY <2>1, <4>1
    <3>2. i < k - 1 /\ t[k - 1] # 0
      BY <1>3, <2>3, <2>4, <2>7
    <3>3. t[i] # 0 /\ R[t[k - 1]] < R[t[i]]
      BY <2>3, <3>1, <3>2
    <3>4. t[i] \in S
      BY <1>4, <3>3
    <3> QED  BY <1>3, <2>2, <2>4, <2>5, <3>3, <3>4
  <2> QED  BY <2>6, <2>7
<1>6. t[N] = 0
  <2> SUFFICES ASSUME t[N] # 0 PROVE FALSE
    OBVIOUS
  <2>1. \A i \in 1 .. N : t[i] \in S
    <3> TAKE i \in 1 .. N
    <3>1. N \in 1 .. N /\ (i = N \/ i < N)
      BY <1>1
    <3> QED  BY <1>4, <1>5, <3>1
  <2>2. t \in [1 .. N -> 1 .. N - 1]
    BY <1>1, <1>2, <2>1
  <2>3. /\ IsFiniteSet(1 .. N) /\ IsFiniteSet(1 .. N - 1)
        /\ Cardinality(1 .. N) = N /\ Cardinality(1 .. N - 1) = N - 1
    <3>1. N \in Int /\ N - 1 \in Int /\ 1 \in Int /\ ~(1 > N) /\ N - 1 + 1 = N
      BY <1>1
    <3>2. IsFiniteSet(1 .. N) /\ Cardinality(1 .. N) = N
      BY <3>1, FS_Interval
    <3>3. IsFiniteSet(1 .. N - 1) /\ Cardinality(1 .. N - 1) = IF 1 > N - 1 THEN 0 ELSE N - 1 - 1 + 1
      BY <3>1, FS_Interval
    <3> QED  BY <1>1, <3>2, <3>3
  <2>4. PICK i \in 1 .. N, j \in 1 .. N : i # j /\ t[i] = t[j]
    <3>1. Cardinality(1 .. N - 1) < Cardinality(1 .. N)
      BY <1>1, <2>3
    <3> QED  BY <2>2, <2>3, <3>1, FS_PigeonHole
  <2>5. ASSUME NEW k \in 1 .. N, NEW m \in 1 .. N, k < m PROVE R[t[m]] < R[t[k]]
    BY <1>3, <1>5, <2>1, <2>5
  <2>6. i < j \/ j < i
    BY <1>1, <2>4
  <2>7. R[t[i]] \in Nat
    BY <1>3, <2>1
  <2> QED  BY <2>4, <2>5, <2>6, <2>7
<1>7. ASSUME NEW n \in S PROVE \E i \in 1 .. N : t[i] = n
  <2> DEFINE Above == {k \in Nat : R[n] <= k /\ \E i \in 1 .. N : t[i] # 0 /\ R[t[i]] = k}
  <2>1. R[a] \in Above
    <3>1. a \in S /\ R[n] <= R[a] /\ 1 \in 1 .. N
      <4>1. a \in S /\ R[n] <= R[a]
        BY <1>7 DEF First
      <4> QED  BY <1>1, <4>1
    <3> QED  BY <1>2, <1>3, <3>1
  <2>2. PICK k \in Above : \A m \in Above : k <= m
    <3>1. Above \in SUBSET Nat
      OBVIOUS
    <3> HIDE DEF Above
    <3> QED  BY <2>1, <3>1, LeastNat
  <2>3. PICK i \in 1 .. N : t[i] # 0 /\ R[t[i]] = k
    BY <2>2
  <2>4. t[i] \in S /\ R[n] <= R[t[i]]
    BY <1>4, <2>2, <2>3
  <2>5. CASE R[n] = R[t[i]]
    BY <1>7, <2>4, <2>5 DEF Ranked
  <2>6. CASE R[n] # R[t[i]]
    <3>1. R[n] < R[t[i]]
      BY <1>3, <1>7, <2>4, <2>6
    <3> DEFINE x == idx[t[i]].ptr
    <3>2. After(S, R, t[i], x)
      BY <2>4
    <3> HIDE DEF x
    <3>3. x # 0 /\ x \in S /\ R[x] < R[t[i]] /\ R[n] <= R[x]
      BY <1>3, <1>7, <2>4, <3>1, <3>2 DEF After
    <3>4. i + 1 \in 2 .. N /\ i + 1 \in 1 .. N /\ i + 1 - 1 = i
      <4>1. i # N /\ i \in 1 .. N /\ N \in Nat
        BY <1>1, <1>6, <2>3
      <4>2. i \in Nat /\ 1 <= i /\ i < N
        BY ONLY <4>1
      <4> QED  BY ONLY <4>1, <4>2
    <3>5. t[i + 1] = x
      BY <1>3, <2>4, <3>4 DEF x
    <3>6. R[x] \in Above
      BY <1>3, <3>3, <3>4, <3>5
    <3> QED  BY <1>3, <2>2, <2>3, <3>3, <3>6
  <2> QED  BY <2>5, <2>6
<1>8. OnTrail(a) = S
  <2>1. OnTrail(a) = {t[i] : i \in 1 .. N} \ {0}
    BY DEF OnTrail, t, N
  <2>2. 0 \notin S
    BY <1>3
  <2> QED  BY <1>4, <1>7, <2>1, <2>2
<1> QED  BY <1>6, <1>8 DEF Ends, t, N

-----------------------------------------------------------------------------
(* The outcomes of the second read of _db_readidx.                          *)

\* The caller's loop found the key, goes on to the next record, or is at the end; or
\* a free record of the right sizes was found, or none; or it is a scan.
RecRead(p) == idx[h[p].idxoff]
Stays(p) == h'[p].req = h[p].req /\ h'[p].front = h[p].front
RecHit(p) ==
  /\ h[p].phase = "find" /\ RecRead(p).key = h[p].req.key
  /\ pc'[p] = Hit(p, RecRead(p).datlen).to /\ h'[p].rc = Hit(p, RecRead(p).datlen).rc
  /\ h'[p].phase = "find" /\ h'[p].idxoff = h[p].idxoff /\ h'[p].ptroff = h[p].ptroff
  /\ h'[p].ptrval = h[p].ptrval /\ h'[p].idxkey = RecRead(p).key
RecNext(p) ==
  /\ h[p].phase = "find" => RecRead(p).key # h[p].req.key
  /\ h[p].phase # "scan" /\ h[p].ptrval # 0 /\ pc'[p] = "hdr" /\ h'[p].rc = h[p].rc
  /\ h'[p].phase = h[p].phase /\ h'[p].ptroff = h[p].idxoff /\ h'[p].idxoff = h[p].ptrval
RecMiss(p) ==
  /\ h[p].phase = "find" /\ RecRead(p).key # h[p].req.key /\ h[p].ptrval = 0
  /\ pc'[p] = Miss(p).to /\ h'[p].rc = Miss(p).rc /\ h'[p].phase = Miss(p).phase
RecFits(p) ==
  /\ h[p].phase = "free" /\ pc'[p] = "funlink" /\ h'[p].rc = h[p].rc /\ h'[p].phase = "free"
  /\ h'[p].idxoff = h[p].idxoff /\ h'[p].ptroff = h[p].ptroff /\ h'[p].ptrval = h[p].ptrval
RecNone(p) ==
  /\ h[p].phase = "free" /\ pc'[p] = "funlock" /\ h'[p].rc = h[p].rc /\ h'[p].phase = "free"
  /\ h'[p].idxoff = 0
RecScan(p) ==
  /\ h[p].phase = "scan" /\ h'[p].rc = h[p].rc /\ h'[p].phase = "scan"
  /\ pc'[p] = IF RecRead(p).key = Blank THEN "hdr" ELSE "readdat"
  /\ h'[p].idxoff = h[p].idxoff /\ h'[p].idxkey = RecRead(p).key

\* These are all the outcomes there are.
LEMMA RecOutcomes ==
  ASSUME IInv, NEW p \in Procs, ReadRec(p)
  PROVE  /\ pc[p] = "rec" /\ Stays(p) /\ UNCHANGED <<files, locks, map>>
         /\ RecHit(p) \/ RecNext(p) \/ RecMiss(p) \/ RecFits(p) \/ RecNone(p) \/ RecScan(p)
<1>1. /\ h[p] \in Handles /\ h \in [Procs -> Handles] /\ pc \in [Procs -> Labels]
      /\ h[p].phase \in {"find", "free", "scan"}
  BY Known DEF Handles
<1> DEFINE r == RecRead(p)
           got == [h[p] EXCEPT !.pos = h[p].idxoff + 1, !.idxkey = r.key, !.idxklen = r.klen,
                               !.datoff = r.datoff, !.datlen = r.datlen]
           hit == [got EXCEPT !.rc = Hit(p, r.datlen).rc]
           advanced == [got EXCEPT !.ptroff = h[p].idxoff, !.idxoff = h[p].ptrval]
           miss == [advanced EXCEPT !.rc = Miss(p).rc, !.phase = Miss(p).phase]
<1>2. /\ got.idxoff = h[p].idxoff /\ got.ptroff = h[p].ptroff /\ got.ptrval = h[p].ptrval
      /\ got.req = h[p].req /\ got.phase = h[p].phase /\ got.front = h[p].front /\ got.rc = h[p].rc
      /\ got.idxkey = r.key
  BY <1>1 DEF Handles
<1>3. /\ hit.idxoff = h[p].idxoff /\ hit.ptroff = h[p].ptroff /\ hit.ptrval = h[p].ptrval
      /\ hit.req = h[p].req /\ hit.phase = h[p].phase /\ hit.front = h[p].front
      /\ hit.idxkey = r.key /\ hit.rc = Hit(p, r.datlen).rc
  BY <1>1 DEF Handles
<1>4. /\ advanced.idxoff = h[p].ptrval /\ advanced.ptroff = h[p].idxoff
      /\ advanced.req = h[p].req /\ advanced.phase = h[p].phase /\ advanced.front = h[p].front
      /\ advanced.rc = h[p].rc
  BY <1>1 DEF Handles
<1>5. /\ miss.req = h[p].req /\ miss.phase = Miss(p).phase /\ miss.front = h[p].front
      /\ miss.rc = Miss(p).rc
  BY <1>1 DEF Handles
<1>6. pc[p] = "rec" /\ UNCHANGED <<files, locks, map>>
  BY <1>1 DEF ReadRec
<1> HIDE DEF got, hit, advanced, miss, r
<1>7. \/ h[p].phase = "find" /\ r.key = h[p].req.key /\ h'[p] = hit /\ pc'[p] = Hit(p, r.datlen).to
      \/ /\ h[p].phase = "find" /\ r.key # h[p].req.key /\ h[p].ptrval # 0
         /\ h'[p] = advanced /\ pc'[p] = "hdr"
      \/ /\ h[p].phase = "find" /\ r.key # h[p].req.key /\ h[p].ptrval = 0
         /\ h'[p] = miss /\ pc'[p] = Miss(p).to
      \/ h[p].phase = "free" /\ h'[p] = got /\ pc'[p] = "funlink"
      \/ h[p].phase = "free" /\ h[p].ptrval # 0 /\ h'[p] = advanced /\ pc'[p] = "hdr"
      \/ h[p].phase = "free" /\ h[p].ptrval = 0 /\ h'[p] = advanced /\ pc'[p] = "funlock"
      \/ /\ h[p].phase = "scan" /\ h'[p] = got
         /\ pc'[p] = IF r.key = Blank THEN "hdr" ELSE "readdat"
  BY <1>1 DEF ReadRec, Goto, RecRead, r, got, hit, advanced, miss
<1> USE DEF Stays
<1>8. CASE h[p].phase = "find" /\ r.key = h[p].req.key /\ h'[p] = hit /\ pc'[p] = Hit(p, r.datlen).to
  BY <1>3, <1>6, <1>8 DEF RecHit, r
<1>9. CASE h[p].phase # "scan" /\ h[p].ptrval # 0 /\ h'[p] = advanced /\ pc'[p] = "hdr"
           /\ (h[p].phase = "find" => r.key # h[p].req.key)
  BY <1>4, <1>6, <1>9 DEF RecNext, r
<1>10. CASE h[p].phase = "find" /\ r.key # h[p].req.key /\ h[p].ptrval = 0
            /\ h'[p] = miss /\ pc'[p] = Miss(p).to
  BY <1>5, <1>6, <1>10 DEF RecMiss, r
<1>11. CASE h[p].phase = "free" /\ h'[p] = got /\ pc'[p] = "funlink"
  BY <1>2, <1>6, <1>11 DEF RecFits
<1>12. CASE h[p].phase = "free" /\ h[p].ptrval = 0 /\ h'[p] = advanced /\ pc'[p] = "funlock"
  BY <1>4, <1>6, <1>12 DEF RecNone
<1>13. CASE h[p].phase = "scan" /\ h'[p] = got /\ pc'[p] = IF r.key = Blank THEN "hdr" ELSE "readdat"
  BY <1>2, <1>6, <1>13 DEF RecScan, r
<1> QED  BY <1>7, <1>8, <1>9, <1>10, <1>11, <1>12, <1>13
-----------------------------------------------------------------------------
(* What a process is at, step by step.                                      *)

\* A step changes no lock of another process.
LEMMA LocksOfOthers ==
  ASSUME IInv, NEW p \in Procs, Steps(p)
  PROVE  \A q \in Procs \ {p}, l \in Locks :
           (q \in wr[l] => q \in wr'[l]) /\ (q \in rd[l] => q \in rd'[l])
<1>1. /\ rd \in [Locks -> SUBSET Procs] /\ wr \in [Locks -> SUBSET Procs]
      /\ FREE \in Locks /\ DAT \in Locks /\ TAIL \in Locks
  BY KnownLocks DEF LocksOK
<1>2. UNCHANGED locks \/ UnlockAll(p)
      \/ \E l : WriteLock(p, l) \/ ReadLock(p, l) \/ Unlock(p, l)
  <2>1. CASE Call(p) \/ db_rewind(p) \/ db_close(p) \/ Crash(p) \/ Return(p) \/ NextLock(p) \/ NextUnlock(p)
    BY <2>1 DEF Call, db_rewind, db_close, Crash, Return, NextLock, NextUnlock
  <2>2. CASE Find(p)
    BY <2>2 DEF Find, LockChain, FindPtr, ReadHdr, ReadRec, ReadDat, ErrDump
  <2>3. CASE DoDelete(p) \/ FindFree(p)
    BY <2>3 DEF DoDelete, DeleteLock, DeleteDat, DeleteFree, DeleteIdx, DeleteHead, DeletePrev,
       DeleteUnlock, FindFree, FreeLock, FreePtr, FreeUnlink, FreeUnlock
  <2>4. CASE AppendRec(p) \/ Store(p)
    BY <2>4 DEF AppendRec, AppendDatLock, AppendDatSeek, AppendDat, AppendDatUnlock, AppendIdxLock,
       AppendIdxSeek, AppendIdx, AppendIdxUnlock, Store, ChainHead, ReuseDat, ReuseIdx, Link,
       LinkTooFar, OverwriteDat
  <2> QED  BY <2>1, <2>2, <2>3, <2>4 DEF Steps, Step
<1>3. CASE UNCHANGED locks
  BY <1>3 DEF locks
<1>4. CASE UnlockAll(p)
  BY <1>1, <1>4 DEF UnlockAll
<1>5. ASSUME NEW k, WriteLock(p, k) \/ ReadLock(p, k) \/ Unlock(p, k)
      PROVE  \A q \in Procs \ {p}, l \in Locks :
               (q \in wr[l] => q \in wr'[l]) /\ (q \in rd[l] => q \in rd'[l])
  BY <1>1, <1>5 DEF WriteLock, ReadLock, Unlock
<1> QED  BY <1>2, <1>3, <1>4, <1>5

\* What the others are at stays as it is.
LEMMA TurnStays ==
  ASSUME IInv, NEW p \in Procs, Steps(p), NEW q \in Procs \ {p}, Turn(q)
  PROVE  Turn(q)'
<1>1. h'[q] = h[q] /\ pc'[q] = pc[q]
  BY Others
<1>2. HasChain(q) => ChainOf(q) \in Locks
  BY KnownChain DEF HasChain
<1>3. FREE \in Locks
  BY KnownLocks
<1>4. LocksAt(q)'
  BY <1>1, <1>2, <1>3, LocksOfOthers DEF Turn, LocksAt, HasChain, HasFree, Scans, ChainOf
<1>5. OpAt(q)' = OpAt(q) /\ Answered(q)' = Answered(q)
  BY <1>1 DEF OpAt, Answered, ChainOf
<1> QED  BY <1>1, <1>4, <1>5 DEF Turn

\* A step that changes no lock.
LEMMA LocksStay ==
  ASSUME NEW p \in Procs, LocksAt(p), UNCHANGED locks, h'[p].req = h[p].req,
         HasChain(p)' => HasChain(p), HasFree(p)' => HasFree(p), Scans(p)' => Scans(p)
  PROVE  LocksAt(p)'
<1>1. rd' = rd /\ wr' = wr /\ ChainOf(p)' = ChainOf(p)
  BY DEF locks, ChainOf
<1> QED  BY <1>1 DEF LocksAt

\* Calls, returns and the end of a process.
LEMMA TurnCalls ==
  ASSUME IInv, NEW p \in Procs, Turn(p),
         \/ Call(p) \/ db_rewind(p) \/ db_close(p) \/ Crash(p) \/ Return(p) \/ LinkTooFar(p)
         \/ NextUnlock(p)
  PROVE  Turn(p)'
<1>1. h[p] \in Handles /\ h \in [Procs -> Handles] /\ pc \in [Procs -> Labels]
  BY Known
<1>2. CASE Call(p)
  <2>1. PICK r \in Menu[p][ops[p] + 1] :
          /\ pc[p] = "idle" /\ pc'[p] = FirstCall(r.op)
          /\ h'[p] = [h[p] EXCEPT !.req = r, !.phase = IF r.op = "nextrec" THEN "scan" ELSE "find"]
    BY <1>1, <1>2 DEF Call, Goto
  <2>2. h'[p].req = r /\ h'[p].phase = (IF r.op = "nextrec" THEN "scan" ELSE "find") /\ h'[p].rc = h[p].rc
    BY <1>1, <2>1 DEF Handles
  <2>3. pc'[p] \in {"nlock", "lockchain"} /\ (pc'[p] = "nlock" <=> h'[p].phase = "scan")
    BY <2>1, <2>2 DEF FirstCall
  <2>4. h'[p].rc.st = "pending" /\ h'[p].phase \in {"scan", "find"}
    BY <2>1, <2>2 DEF Turn
  <2> QED  BY <2>3, <2>4 DEF Turn, OpAt, LocksAt, Answered, HasChain, HasFree, Scans, Stopped, DeletePcs,
              FreePcs, LatePcs
<1>3. CASE db_rewind(p)
  <2>1. pc[p] = "idle" /\ pc'[p] = "idle" /\ h'[p].req = h[p].req /\ h'[p].rc = h[p].rc
    BY <1>1, <1>3 DEF db_rewind, Handles
  <2> QED  BY <2>1 DEF Turn, LocksAt, HasChain, HasFree, Scans, Stopped
<1>4. CASE Return(p) \/ NextUnlock(p)
  <2>1. pc'[p] = "idle" /\ \E x : h'[p] = Handle(x)
    BY <1>1, <1>4 DEF Return, NextUnlock, Goto
  <2> QED  BY <2>1 DEF Turn, LocksAt, HasChain, HasFree, Scans, Stopped, Handle, Pending, Rc
<1>5. CASE db_close(p) \/ Crash(p) \/ LinkTooFar(p)
  <2>1. pc'[p] \in Stopped
    BY <1>1, <1>5 DEF db_close, Crash, LinkTooFar, Goto, Stop, Stopped
  <2> QED  BY <2>1 DEF Turn, LocksAt, HasChain, HasFree, Scans, Stopped
<1> QED  BY <1>2, <1>3, <1>4, <1>5

\* Locks taken and released inside a call.
LEMMA TurnLocks ==
  ASSUME IInv, NEW p \in Procs, Turn(p),
         \/ LockChain(p) \/ NextLock(p) \/ DeleteLock(p) \/ FreeLock(p) \/ AppendDatLock(p)
         \/ AppendIdxLock(p) \/ DeleteUnlock(p) \/ FreeUnlock(p) \/ AppendDatUnlock(p)
         \/ AppendIdxUnlock(p)
  PROVE  Turn(p)'
<1>1. /\ h[p] \in Handles /\ h \in [Procs -> Handles] /\ pc \in [Procs -> Labels]
      /\ rd \in [Locks -> SUBSET Procs] /\ wr \in [Locks -> SUBSET Procs]
      /\ FREE \in Locks /\ DAT \in Locks /\ TAIL \in Locks /\ FREE # TAIL /\ FREE # DAT
  BY Known, KnownLocks DEF LocksOK
<1>2. Control(h[p], pc[p])
  BY Known DEF HandleOK
<1>3. pc[p] \notin {"idle"} \cup Stopped /\ h[p].phase # "scan" =>
        ChainOf(p) \in Locks /\ ChainOf(p) \notin {FREE, DAT, TAIL}
  BY KnownChain
<1> USE DEF Goto
<1>4. CASE LockChain(p)
  <2>1. /\ pc[p] = "lockchain" /\ pc'[p] = "findptr"
        /\ h'[p].req = h[p].req /\ h'[p].rc = h[p].rc /\ h'[p].phase = h[p].phase
    BY <1>1, <1>4 DEF LockChain, Handles
  <2>7. h'[p].ptroff = ChainOf(p)
    BY <1>1, <1>4 DEF LockChain, Handles
  <2>2. h[p].phase = "find" /\ h[p].rc.st = "pending"
    BY <2>1 DEF Turn, OpAt, Answered, Stopped
  <2>3. ChainOf(p)' = ChainOf(p) /\ ChainOf(p) \in Locks
    BY <1>3, <2>1, <2>2 DEF ChainOf, Stopped
  <2>4. p \in (IF h[p].req.op = "fetch" THEN rd'[ChainOf(p)] ELSE wr'[ChainOf(p)])
    BY <1>1, <1>4, <2>3 DEF LockChain, ReadLock, WriteLock
  <2>5. LocksAt(p)'
    BY <2>1, <2>2, <2>3, <2>4 DEF LocksAt, HasFree, Scans
  <2>6. OpAt(p)' /\ ~Answered(p)'
    BY <2>1, <2>2, <2>3, <2>7 DEF OpAt, Answered, DeletePcs, FreePcs, LatePcs
  <2> QED  BY <2>1, <2>2, <2>5, <2>6 DEF Turn
<1>5. CASE ~LockChain(p)
  <2>1. h' = h
    BY <1>5 DEF NextLock, DeleteLock, FreeLock, AppendDatLock, AppendIdxLock, DeleteUnlock, FreeUnlock,
       AppendDatUnlock, AppendIdxUnlock
  <2>2. OpAt(p) /\ (h[p].rc.st = "pending" <=> ~Answered(p))
    BY <1>5 DEF Turn, Stopped, NextLock, DeleteLock, FreeLock, AppendDatLock, AppendIdxLock,
       DeleteUnlock, FreeUnlock, AppendDatUnlock, AppendIdxUnlock
  <2>3. CASE NextLock(p)
    <3>1. pc[p] = "nlock" /\ pc'[p] = "hdr" /\ p \in rd'[FREE]
      BY <1>1, <2>3 DEF NextLock, ReadLock
    <3>2. h[p].phase = "scan"
      BY <1>2, <3>1 DEF Control, Stopped
    <3> QED  BY <2>1, <2>2, <3>1, <3>2 DEF Turn, OpAt, LocksAt, Answered, HasChain, HasFree, Scans,
                Stopped, DeletePcs, FreePcs, LatePcs
  <2> DEFINE Own == LocksAt(p)' /\ OpAt(p)' /\ (h[p].rc.st = "pending" <=> ~Answered(p)')
                    /\ pc'[p] \notin {"idle"} \cup Stopped
  <2>4. CASE DeleteLock(p) \/ FreeLock(p)
    <3>1. /\ pc[p] \in {"dlock", "flock"} /\ pc'[p] = IF pc[p] = "dlock" THEN "ddat" ELSE "fptr"
          /\ p \in wr'[FREE] /\ \A l \in Locks \ {FREE} : wr'[l] = wr[l] /\ rd'[l] = rd[l]
      BY <1>1, <2>4 DEF DeleteLock, FreeLock, WriteLock
    <3>2. h[p].phase \in {"find", "free"}
      BY <2>2, <3>1 DEF OpAt, DeletePcs, FreePcs
    <3>3. LocksAt(p)'
      BY <1>3, <2>1, <3>1, <3>2 DEF Turn, LocksAt, HasChain, HasFree, Scans, Stopped, ChainOf
    <3>4. OpAt(p)' /\ ~Answered(p)' /\ h[p].rc.st = "pending" /\ pc'[p] \notin {"idle"} \cup Stopped
      BY <2>1, <2>2, <3>1 DEF OpAt, Answered, Stopped, DeletePcs, FreePcs, LatePcs
    <3> QED  BY <2>1, <3>3, <3>4 DEF Turn
  <2>5. CASE AppendDatLock(p) \/ AppendIdxLock(p) \/ AppendDatUnlock(p) \/ AppendIdxUnlock(p)
    <3>1. \/ pc[p] = "adlock" /\ pc'[p] = "adseek"
          \/ pc[p] = "adunlock" /\ pc'[p] = "ailock"
          \/ pc[p] = "ailock" /\ pc'[p] = "aiseek"
          \/ pc[p] = "aiunlock" /\ pc'[p] = "link"
      BY <1>1, <2>5 DEF AppendDatLock, AppendIdxLock, AppendDatUnlock, AppendIdxUnlock
    <3>5. \A l \in Locks \ {DAT, TAIL} : wr'[l] = wr[l] /\ rd'[l] = rd[l]
      BY <1>1, <2>5 DEF AppendDatLock, AppendIdxLock, AppendDatUnlock, AppendIdxUnlock, WriteLock, Unlock
    <3>2. h[p].phase # "scan"
      BY <1>2, <3>1 DEF Control, ScanLabels, Stopped
    <3>3. LocksAt(p)'
      BY <1>3, <2>1, <3>1, <3>2, <3>5 DEF Turn, LocksAt, HasChain, HasFree, Scans, Stopped, ChainOf
    <3>4. OpAt(p)' /\ ~Answered(p)' /\ h[p].rc.st = "pending" /\ pc'[p] \notin {"idle"} \cup Stopped
      BY <2>1, <2>2, <3>1 DEF OpAt, Answered, Stopped, DeletePcs, FreePcs, LatePcs
    <3> QED  BY <2>1, <3>3, <3>4 DEF Turn
  <2>6. CASE DeleteUnlock(p) \/ FreeUnlock(p)
    <3>1. /\ \/ pc[p] = "dunlock" /\ pc'[p] = IF h[p].req.op = "delete" THEN "unlock" ELSE "chead"
             \/ pc[p] = "funlock" /\ pc'[p] \in {"adlock", "rdat"}
          /\ \A l \in Locks \ {FREE} : wr'[l] = wr[l] /\ rd'[l] = rd[l]
      BY <1>1, <2>6 DEF DeleteUnlock, FreeUnlock, Unlock
    <3>2. h[p].phase \in {"find", "free"}
      BY <2>2, <3>1 DEF OpAt, DeletePcs, FreePcs
    <3>3. LocksAt(p)'
      BY <1>3, <2>1, <3>1, <3>2 DEF Turn, LocksAt, HasChain, HasFree, Scans, Stopped, ChainOf
    <3>4. OpAt(p)' /\ (h[p].rc.st = "pending" <=> ~Answered(p)') /\ pc'[p] \notin {"idle"} \cup Stopped
      BY <2>1, <2>2, <3>1 DEF OpAt, Answered, Stopped, DeletePcs, FreePcs, LatePcs, Replaces
    <3> QED  BY <2>1, <3>3, <3>4 DEF Turn
  <2> QED  BY <1>5, <2>3, <2>4, <2>5, <2>6
<1> QED  BY <1>4, <1>5

\* A step inside a call that touches no lock and goes no further than the locks allow.
LEMMA TurnMoves ==
  ASSUME NEW p \in Procs, Turn(p), UNCHANGED locks, h'[p].req = h[p].req,
         pc[p] \notin {"idle", "lockchain"} \cup Stopped, pc'[p] \notin {"idle"} \cup Stopped,
         h[p].phase = "scan" <=> h'[p].phase = "scan",
         HasFree(p)' => HasFree(p), Scans(p)' => Scans(p),
         OpAt(p)', h'[p].rc.st = "pending" <=> ~Answered(p)'
  PROVE  Turn(p)'
<1>1. LocksAt(p)'
  BY LocksStay DEF Turn, HasChain
<1> QED  BY <1>1 DEF Turn

\* Walking a chain, the free list or the file.
LEMMA TurnReads ==
  ASSUME IInv, NEW p \in Procs, Turn(p), FindPtr(p) \/ ReadHdr(p) \/ ReadRec(p) \/ ReadDat(p)
  PROVE  Turn(p)'
<1>1. h[p] \in Handles /\ h \in [Procs -> Handles] /\ pc \in [Procs -> Labels]
  BY Known
<1>2. Control(h[p], pc[p])
  BY Known DEF HandleOK
<1>3. h[p].phase \in {"find", "free", "scan"}
  BY <1>1 DEF Handles
<1>4. /\ pc[p] \in {"findptr", "hdr", "rec", "readdat"} /\ OpAt(p) /\ h[p].rc.st = "pending"
      /\ pc[p] = "findptr" => h[p].phase = "find"
      /\ h[p].phase = "free" => h[p].req.op \in {"insert", "store"} /\ pc[p] \in {"hdr", "rec"}
  <2>1. pc[p] \in {"findptr", "hdr", "rec", "readdat"}
    BY DEF FindPtr, ReadHdr, ReadRec, ReadDat
  <2>2. OpAt(p) /\ h[p].rc.st = "pending"
    BY <2>1 DEF Turn, Answered, Stopped
  <2> QED  BY <2>1, <2>2 DEF OpAt, LatePcs, FreePcs
<1>5. h[p].phase = "find" => h[p].req.op \in {"insert", "store", "replace", "fetch", "delete"}
  BY <1>2, <1>4 DEF Control, Stopped, Requests, StoreOps
<1>6. CASE pc'[p] = "dumped"
  BY <1>6 DEF Turn, LocksAt, HasChain, HasFree, Scans, Stopped
<1> USE DEF OpAt, Answered, HasFree, Scans, Stopped, DeletePcs, FreePcs, LatePcs, Replaces
<1>7. Miss(p).to = (IF h[p].req.op \in {"insert", "store"} THEN "chead" ELSE "unlock")
      /\ Miss(p).phase = (IF h[p].req.op \in {"insert", "store"} THEN "free" ELSE "find")
      /\ (Miss(p).rc.st = "pending" <=> h[p].req.op \in {"insert", "store"})
  BY DEF Miss, Rc, Pending
<1>8. CASE FindPtr(p)
  <2>1. pc[p] = "findptr" /\ UNCHANGED locks /\ h'[p].req = h[p].req
        /\ \/ pc'[p] = Miss(p).to /\ h'[p].rc = Miss(p).rc /\ h'[p].phase = Miss(p).phase
           \/ pc'[p] = "hdr" /\ h'[p].rc = h[p].rc /\ h'[p].phase = h[p].phase
    BY <1>1, <1>8 DEF FindPtr, Goto, Handles
  <2>2. CASE pc'[p] = Miss(p).to /\ h'[p].rc = Miss(p).rc /\ h'[p].phase = Miss(p).phase
    BY <1>4, <1>7, <2>1, <2>2, TurnMoves
  <2>3. CASE pc'[p] = "hdr" /\ h'[p].rc = h[p].rc /\ h'[p].phase = h[p].phase
    BY <1>4, <2>1, <2>3, TurnMoves
  <2> QED  BY <2>1, <2>2, <2>3
<1>9. CASE ReadHdr(p) /\ pc'[p] # "dumped"
  <2>1. /\ pc[p] = "hdr" /\ UNCHANGED locks /\ h'[p].req = h[p].req /\ h'[p].phase = h[p].phase
        /\ \/ pc'[p] = "nunlock" /\ h[p].phase = "scan" /\ h'[p].rc.st = "none"
           \/ pc'[p] = "rec" /\ h'[p].rc = h[p].rc
    BY <1>1, <1>9 DEF ReadHdr, ErrDump, Stop, Goto, Handles, Rc
  <2> QED  BY <1>3, <1>4, <2>1, TurnMoves
<1>10. CASE ReadDat(p) /\ pc'[p] # "dumped"
  <2>1. /\ pc[p] = "readdat" /\ UNCHANGED locks /\ h'[p].req = h[p].req /\ h'[p].phase = h[p].phase
        /\ pc'[p] = (IF h[p].phase = "scan" THEN "nunlock" ELSE "unlock") /\ h'[p].rc.st = "ok"
    BY <1>1, <1>10 DEF ReadDat, ErrDump, Stop, Goto, Handles, Rc
  <2> QED  BY <1>3, <1>4, <2>1, TurnMoves
<1>11. CASE ReadRec(p)
  <2>1. /\ pc[p] = "rec" /\ UNCHANGED locks /\ h'[p].req = h[p].req
        /\ RecHit(p) \/ RecNext(p) \/ RecMiss(p) \/ RecFits(p) \/ RecNone(p) \/ RecScan(p)
    BY <1>11, RecOutcomes DEF Stays
  <2>2. CASE RecHit(p)
    <3>1. /\ pc'[p] = Hit(p, RecRead(p).datlen).to /\ h'[p].rc = Hit(p, RecRead(p).datlen).rc
          /\ h'[p].phase = "find" /\ h[p].phase = "find"
      BY <2>2 DEF RecHit
    <3>2. \/ h[p].req.op = "fetch" /\ pc'[p] = "readdat" /\ h'[p].rc.st = "pending"
          \/ h[p].req.op = "delete" /\ pc'[p] = "dlock" /\ h'[p].rc.st = "pending"
          \/ h[p].req.op = "insert" /\ pc'[p] = "unlock" /\ h'[p].rc.st = "exists"
          \/ h[p].req.op \in {"store", "replace"} /\ pc'[p] \in {"odat", "dlock"} /\ h'[p].rc.st = "pending"
      BY <1>5, <3>1 DEF Hit, Rc, Pending
    <3> QED  BY <1>4, <2>1, <3>1, <3>2, TurnMoves
  <2>3. CASE RecNext(p)
    BY <1>3, <1>4, <2>1, <2>3, TurnMoves DEF RecNext
  <2>4. CASE RecMiss(p)
    BY <1>3, <1>4, <1>7, <2>1, <2>4, TurnMoves DEF RecMiss
  <2>5. CASE RecFits(p) \/ RecNone(p)
    BY <1>3, <1>4, <2>1, <2>5, TurnMoves DEF RecFits, RecNone
  <2>6. CASE RecScan(p)
    BY <1>3, <1>4, <2>1, <2>6, TurnMoves DEF RecScan
  <2> QED  BY <2>1, <2>2, <2>3, <2>4, <2>5, <2>6
<1> QED  BY <1>6, <1>8, <1>9, <1>10, <1>11

\* The reads and writes of _db_dodelete, _db_findfree and db_store.
LEMMA TurnWrites ==
  ASSUME IInv, NEW p \in Procs, Turn(p),
         \/ DeleteDat(p) \/ DeleteFree(p) \/ DeleteIdx(p) \/ DeleteHead(p) \/ DeletePrev(p)
         \/ FreePtr(p) \/ FreeUnlink(p) \/ ChainHead(p) \/ ReuseDat(p) \/ ReuseIdx(p)
         \/ AppendDatSeek(p) \/ AppendDat(p) \/ AppendIdxSeek(p) \/ AppendIdx(p)
         \/ Link(p) \/ OverwriteDat(p)
  PROVE  Turn(p)'
<1>1. h[p] \in Handles /\ h \in [Procs -> Handles] /\ pc \in [Procs -> Labels]
  BY Known
<1>2. UNCHANGED locks
  BY DEF DeleteDat, DeleteFree, DeleteIdx, DeleteHead, DeletePrev, FreePtr, FreeUnlink, ChainHead,
     ReuseDat, ReuseIdx, AppendDatSeek, AppendDat, AppendIdxSeek, AppendIdx, Link, OverwriteDat
<1>3. pc[p] \in DeletePcs \cup LatePcs \cup {"odat"} /\ OpAt(p) /\ h[p].rc.st = "pending"
  <2>1. pc[p] \in DeletePcs \cup LatePcs \cup {"odat"}
    BY DEF DeletePcs, FreePcs, LatePcs, Goto, DeleteDat, DeleteFree, DeleteIdx, DeleteHead, DeletePrev,
       FreePtr, FreeUnlink, ChainHead, ReuseDat, ReuseIdx, AppendDatSeek, AppendDat, AppendIdxSeek,
       AppendIdx, Link, OverwriteDat
  <2> QED  BY <2>1 DEF Turn, Answered, Stopped, DeletePcs, FreePcs, LatePcs
<1>4. h[p].phase # "scan"
  BY <1>3, Known DEF HandleOK, Control, ScanLabels, DeletePcs, LatePcs, FreePcs, Stopped
<1> DEFINE Fine == /\ h'[p].req = h[p].req /\ pc[p] \notin {"idle", "lockchain"} \cup Stopped
                   /\ pc'[p] \notin {"idle"} \cup Stopped /\ h'[p].phase = h[p].phase
                   /\ (HasFree(p)' => HasFree(p)) /\ (Scans(p)' => Scans(p))
                   /\ OpAt(p)' /\ (h'[p].rc.st = "pending" <=> ~Answered(p)')
<1>5. Fine => Turn(p)'
  BY <1>2, TurnMoves
<1> USE DEF OpAt, Answered, HasFree, Scans, Stopped, DeletePcs, FreePcs, LatePcs, Replaces
<1>6. CASE DeleteDat(p) \/ DeleteFree(p) \/ DeleteIdx(p) \/ DeleteHead(p)
  <2>1. /\ h'[p].req = h[p].req /\ h'[p].phase = h[p].phase /\ h'[p].rc = h[p].rc
        /\ pc[p] \in {"ddat", "dfree", "didx", "dhead"} /\ pc'[p] \in {"dfree", "didx", "dhead", "dprev"}
    BY <1>1, <1>6 DEF DeleteDat, DeleteFree, DeleteIdx, DeleteHead, Goto, Handles
  <2>2. Fine
    BY <1>3, <1>4, <2>1
  <2> QED  BY <1>5, <2>2
<1>7. CASE DeletePrev(p)
  <2>1. /\ h'[p].req = h[p].req /\ h'[p].phase = h[p].phase
        /\ h'[p].rc = (IF h[p].req.op = "delete" THEN Rc("ok", Blank, Blank) ELSE h[p].rc)
        /\ pc[p] = "dprev" /\ pc'[p] = "dunlock"
    BY <1>1, <1>7 DEF DeletePrev, Goto, Handles
  <2>2. Fine
    BY <1>3, <1>4, <2>1 DEF Rc
  <2> QED  BY <1>5, <2>2
<1>8. CASE FreePtr(p) \/ FreeUnlink(p)
  <2>1. /\ h'[p].req = h[p].req /\ h'[p].phase = h[p].phase /\ h'[p].rc = h[p].rc
        /\ pc[p] \in {"fptr", "funlink"} /\ pc'[p] \in {"hdr", "funlock"}
    BY <1>1, <1>8 DEF FreePtr, FreeUnlink, Goto, Handles
  <2>2. Fine
    BY <1>3, <1>4, <2>1
  <2> QED  BY <1>5, <2>2
<1>9. CASE ChainHead(p)
  <2>1. /\ h'[p].req = h[p].req /\ h'[p].phase = h[p].phase /\ h'[p].rc = h[p].rc
        /\ pc[p] = "chead" /\ pc'[p] = IF h[p].phase = "free" THEN "flock" ELSE "adlock"
    BY <1>1, <1>9 DEF ChainHead, Goto, Handles
  <2>2. Fine
    BY <1>3, <1>4, <2>1
  <2> QED  BY <1>5, <2>2
<1>10. CASE ReuseDat(p) \/ ReuseIdx(p)
  <2>1. /\ h'[p].req = h[p].req /\ h'[p].phase = h[p].phase /\ h'[p].rc = h[p].rc
        /\ pc[p] \in {"rdat", "ridx"} /\ pc'[p] \in {"ridx", "link"}
    BY <1>1, <1>10 DEF ReuseDat, ReuseIdx, Goto, Handles
  <2>2. Fine
    BY <1>3, <1>4, <2>1
  <2> QED  BY <1>5, <2>2
<1>11. CASE AppendDatSeek(p) \/ AppendDat(p) \/ AppendIdxSeek(p) \/ AppendIdx(p)
  <2>1. /\ h'[p].req = h[p].req /\ h'[p].phase = h[p].phase /\ h'[p].rc = h[p].rc
        /\ pc[p] \in {"adseek", "adwrite", "aiseek", "aiwrite"}
        /\ pc'[p] \in {"adwrite", "adunlock", "aiwrite", "aiunlock"}
    BY <1>1, <1>11 DEF AppendDatSeek, AppendDat, AppendIdxSeek, AppendIdx, Goto, Handles
  <2>2. Fine
    BY <1>3, <1>4, <2>1
  <2> QED  BY <1>5, <2>2
<1>12. CASE Link(p) \/ OverwriteDat(p)
  <2>1. /\ h'[p].req = h[p].req /\ h'[p].phase = h[p].phase /\ h'[p].rc = Rc("ok", Blank, Blank)
        /\ pc[p] \in {"link", "odat"} /\ pc'[p] = "unlock"
    BY <1>1, <1>12 DEF Link, OverwriteDat, Goto, Handles
  <2>2. Fine
    BY <1>3, <1>4, <2>1 DEF Rc
  <2> QED  BY <1>5, <2>2
<1> QED  BY <1>6, <1>7, <1>8, <1>9, <1>10, <1>11, <1>12

\* Whatever the others do, a process is where its call has brought it, and holds the
\* locks that its call has taken.
THEOREM TurnInvariance == Spec => []TurnInv
<1>1. Init => TurnInv
  <2> SUFFICES ASSUME Init PROVE TurnInv
    OBVIOUS
  <2>1. ASSUME NEW p \in Procs PROVE Turn(p)
    BY DEF Init, Turn, LocksAt, HasChain, HasFree, Scans, Handle, Pending, Rc
  <2> QED  BY <2>1, InitIInv DEF TurnInv
<1>2. TurnInv /\ IInv' /\ [Next]_vars => TurnInv'
  <2> SUFFICES ASSUME TurnInv, IInv', [Next]_vars PROVE TurnInv'
    OBVIOUS
  <2>1. IInv /\ \A p \in Procs : Turn(p)
    BY DEF TurnInv
  <2>2. ASSUME NEW p \in Procs, Steps(p) PROVE \A q \in Procs : Turn(q)'
    <3>1. Turn(p)'
      BY <2>1, <2>2, TurnCalls, TurnLocks, TurnReads, TurnWrites
         DEF Steps, Step, Find, DoDelete, FindFree, AppendRec, Store
    <3>2. \A q \in Procs \ {p} : Turn(q)'
      BY <2>1, <2>2, TurnStays
    <3> QED  BY <3>1, <3>2
  <2>3. CASE UNCHANGED vars
    <3>1. UNCHANGED pc /\ UNCHANGED h /\ UNCHANGED rd /\ UNCHANGED wr
      BY <2>3 DEF vars, locks
    <3>2. ASSUME NEW p \in Procs PROVE Turn(p)'
      <4>1. OpAt(p)' = OpAt(p) /\ Answered(p)' = Answered(p)
        BY <3>1 DEF OpAt, Answered, ChainOf
      <4>2. LocksAt(p)' = LocksAt(p)
        BY <3>1 DEF LocksAt, HasChain, HasFree, Scans, ChainOf
      <4> QED  BY <2>1, <3>1, <4>1, <4>2 DEF Turn
    <3> QED  BY <3>2 DEF TurnInv
  <2> QED  BY <2>2, <2>3 DEF TurnInv, Next, AllStopped, Steps
<1> QED  BY <1>1, <1>2, Invariance, PTL DEF Spec
-----------------------------------------------------------------------------
(* What a step of process p changes: of the records only those of X, and of *)
(* the map only key k; on and on2 are the lists before and after.           *)

Changes(p, X, k) ==
  /\ \A q \in Procs \ {p} : h'[q] = h[q] /\ pc'[q] = pc[q]
  /\ \A m \in DOMAIN idx \ X :
       /\ m \in DOMAIN idx' /\ idx'[m].key = idx[m].key /\ idx'[m].datoff = idx[m].datoff
       /\ dat'[idx[m].datoff].val = dat[idx[m].datoff].val
  /\ \A m \in DOMAIN idx' \ X : m \in DOMAIN idx
  /\ \A j \in Keys \ {k} : map'[j] = map[j]
Moved(X, on, on2) == \A b \in ChainPtrs : on2[b] \ X = on[b] \ X

\* What p says of the other records it goes on saying.
Says(p, X) == \A m \in DOMAIN idx \ X :
  /\ \A c \in ChainPtrs : (Cuts(p, c, m) => Cuts(p, c, m)') /\ (Wipes(p, c, m) => Wipes(p, c, m)')
  /\ Leaves(p, m) => Leaves(p, m)'
  /\ Takes(p) /\ h[p].idxoff = m =>
       (Takes(p)' /\ h'[p].idxoff = m) \/ pc'[p] \in {"killed", "quit", "dumped"}

\* The hash chains hold current records, ...
LEMMA ChainsKeep ==
  ASSUME NEW p \in Procs, NEW X, NEW k, NEW on, NEW on2,
         OnChains(on), Changes(p, X, k), Moved(X, on, on2), Says(p, X),
         \A b \in ChainPtrs : on[b] \subseteq DOMAIN idx,
         \/ map'[k] = map[k]
         \/ \A c \in Chains : \A m \in on[c] \ X : idx[m].key # k,
         \A c \in Chains : \A n \in on2[c] \cap X :
           /\ (Current(c, n) \/ \E q \in Procs : Cuts(q, c, n))'
           /\ \A m \in on2[c] \ {n} : idx'[m].key # idx'[n].key
  PROVE  OnChains(on2)'
<1> SUFFICES ASSUME NEW c \in Chains
             PROVE  /\ \A n \in on2[c] : (Current(c, n) \/ \E q \in Procs : Cuts(q, c, n))'
                    /\ \A m, n \in on2[c] : idx'[m].key = idx'[n].key => m = n
  BY DEF OnChains
<1>1. c \in ChainPtrs
  BY DEF ChainPtrs
<1>2. \A m \in on2[c] \ X : m \in on[c] /\ m \in DOMAIN idx \ X
  BY <1>1 DEF Moved
<1>3. ASSUME NEW n \in on2[c] PROVE (Current(c, n) \/ \E q \in Procs : Cuts(q, c, n))'
  <2>1. CASE n \in X
    BY <2>1
  <2>2. CASE n \notin X
    <3>1. n \in on[c] /\ n \in DOMAIN idx \ X
      BY <1>2, <2>2
    <3>2. ASSUME NEW q \in Procs, Cuts(q, c, n) PROVE Cuts(q, c, n)'
      <4>1. CASE q = p
        BY <1>1, <3>1, <3>2, <4>1 DEF Says
      <4>2. CASE q # p
        BY <3>2, <4>2 DEF Changes, Cuts, ChainOf
      <4> QED  BY <4>1, <4>2
    <3>3. ASSUME NEW q \in Procs, Wipes(q, c, n) PROVE Wipes(q, c, n)'
      <4>1. CASE q = p
        BY <1>1, <3>1, <3>3, <4>1 DEF Says
      <4>2. CASE q # p
        BY <3>3, <4>2 DEF Changes, Wipes, ChainOf
      <4> QED  BY <4>1, <4>2
    <3>4. Current(c, n) => Current(c, n)'
      <4>1. /\ idx'[n].key = idx[n].key /\ idx'[n].datoff = idx[n].datoff
            /\ dat'[idx[n].datoff].val = dat[idx[n].datoff].val
        BY <3>1 DEF Changes
      <4>2. idx[n].key \in Keys => map'[idx[n].key] = map[idx[n].key]
        BY <3>1, <2>2 DEF Changes
      <4> QED  BY <3>3, <4>1, <4>2 DEF Current
    <3> QED  BY <3>1, <3>2, <3>4 DEF OnChains
  <2> QED  BY <2>1, <2>2
<1>4. ASSUME NEW m \in on2[c], NEW n \in on2[c], idx'[m].key = idx'[n].key PROVE m = n
  <2>1. CASE m \in X \/ n \in X
    BY <1>4, <2>1
  <2>2. CASE m \notin X /\ n \notin X
    <3>1. m \in on[c] /\ n \in on[c] /\ m \in DOMAIN idx \ X /\ n \in DOMAIN idx \ X
      BY <1>2, <2>2
    <3>2. idx[m].key = idx[n].key
      BY <1>4, <3>1 DEF Changes
    <3> QED  BY <3>1, <3>2 DEF OnChains
  <2> QED  BY <2>1, <2>2
<1> QED  BY <1>3, <1>4

\* ... and all of them, ...
LEMMA MapKeeps ==
  ASSUME NEW p \in Procs, NEW X, NEW k, NEW on, NEW on2,
         InMap(on), Changes(p, X, k), Moved(X, on, on2),
         \A b \in ChainPtrs : on[b] \subseteq DOMAIN idx,
         \A n \in X : n \in DOMAIN idx => idx[n].key \in {k, Blank},
         Away(p) => h[p].req.key = k,
         k \in Keys /\ map'[k] # Blank =>
           \/ \E n \in on2[Hash[k]] : idx'[n].key = k
           \/ \E q \in Procs : (Away(q) /\ h[q].req.key = k)'
  PROVE  InMap(on2)'
<1> SUFFICES ASSUME NEW j \in Keys, map'[j] # Blank
             PROVE  \/ \E n \in on2[Hash[j]] : idx'[n].key = j
                    \/ \E q \in Procs : (Away(q) /\ h[q].req.key = j)'
  BY DEF InMap
<1>1. CASE j = k
  BY <1>1
<1>2. CASE j # k
  <2>1. map[j] # Blank /\ Hash[j] \in ChainPtrs /\ j # Blank
    BY <1>2, TablesTyped, BlankIsNoKey DEF Changes, ChainPtrs
  <2>2. ASSUME NEW n \in on[Hash[j]], idx[n].key = j
        PROVE  \E m \in on2[Hash[j]] : idx'[m].key = j
    <3>1. n \in DOMAIN idx \ X
      BY <1>2, <2>1, <2>2
    <3>2. n \in on2[Hash[j]]
      BY <2>1, <2>2, <3>1 DEF Moved
    <3> QED  BY <2>2, <3>1, <3>2 DEF Changes
  <2>3. ASSUME NEW q \in Procs, Away(q), h[q].req.key = j
        PROVE  (Away(q) /\ h[q].req.key = j)'
    <3>1. q # p
      BY <1>2, <2>3
    <3> QED  BY <2>3, <3>1 DEF Changes, Away
  <2> QED  BY <2>1, <2>2, <2>3 DEF InMap
<1> QED  BY <1>1, <1>2

\* ... the free list blank ones, ...
LEMMA FreeKeeps ==
  ASSUME NEW p \in Procs, NEW X, NEW k, NEW on, NEW on2,
         OnFree(on), Changes(p, X, k), Moved(X, on, on2),
         \A b \in ChainPtrs : on[b] \subseteq DOMAIN idx,
         \A n \in on2[FREE] \cap X : idx'[n].key = Blank /\ dat'[idx'[n].datoff].val = Blank
  PROVE  OnFree(on2)'
<1> SUFFICES ASSUME NEW n \in on2[FREE] PROVE idx'[n].key = Blank /\ dat'[idx'[n].datoff].val = Blank
  BY DEF OnFree
<1>1. CASE n \in X
  BY <1>1
<1>2. CASE n \notin X
  <2>1. n \in on[FREE] /\ n \in DOMAIN idx \ X
    BY <1>2 DEF Moved, ChainPtrs
  <2> QED  BY <2>1 DEF OnFree, Changes
<1> QED  BY <1>1, <1>2

\* ... every record that is not blank is on its chain or somebody's, ...
LEMMA WrittenKeeps ==
  ASSUME NEW p \in Procs, NEW X, NEW k, NEW on, NEW on2,
         Written(on), Changes(p, X, k), Moved(X, on, on2), Says(p, X),
         \A n \in DOMAIN idx : idx[n].key \in Keys \cup {Blank},
         \A n \in DOMAIN idx' \cap X : idx'[n].key # Blank =>
           n \in on2[Hash[idx'[n].key]] \/ \E q \in Procs : Leaves(q, n)'
  PROVE  Written(on2)'
<1> SUFFICES ASSUME NEW n \in DOMAIN idx', idx'[n].key # Blank
             PROVE  n \in on2[Hash[idx'[n].key]] \/ \E q \in Procs : Leaves(q, n)'
  BY DEF Written
<1>1. CASE n \in X
  BY <1>1
<1>2. CASE n \notin X
  <2>1. /\ n \in DOMAIN idx \ X /\ idx'[n].key = idx[n].key /\ idx'[n].datoff = idx[n].datoff
        /\ dat'[idx[n].datoff].val = dat[idx[n].datoff].val
    BY <1>2 DEF Changes
  <2>2. Hash[idx[n].key] \in ChainPtrs
    BY <2>1, TablesTyped DEF ChainPtrs
  <2>3. ASSUME NEW q \in Procs, Leaves(q, n) PROVE Leaves(q, n)'
    <3>1. CASE q = p
      BY <2>1, <2>3, <3>1 DEF Says
    <3>2. CASE q # p
      BY <2>1, <2>3, <3>2 DEF Changes, Leaves
    <3> QED  BY <3>1, <3>2
  <2> QED  BY <1>2, <2>1, <2>2, <2>3 DEF Written, Moved
<1> QED  BY <1>1, <1>2

\* ... and no record is lost.
LEMMA KeptKeeps ==
  ASSUME NEW p \in Procs, NEW X, NEW k, NEW on, NEW on2,
         Kept(on), Changes(p, X, k), Moved(X, on, on2), Says(p, X), pc[p] \notin Stopped,
         pc'[p] \notin {"killed", "quit", "dumped"} => \A n \in DOMAIN idx' \cap X :
           (\E b \in ChainPtrs : n \in on2[b]) \/ \E q \in Procs : (Takes(q) /\ h[q].idxoff = n)'
  PROVE  Kept(on2)'
<1> SUFFICES ASSUME \A q \in Procs : pc'[q] \notin {"killed", "quit", "dumped"}, NEW n \in DOMAIN idx'
             PROVE  (\E b \in ChainPtrs : n \in on2[b]) \/ \E q \in Procs : (Takes(q) /\ h[q].idxoff = n)'
  BY DEF Kept
<1>1. CASE n \in X
  BY <1>1
<1>2. CASE n \notin X
  <2>1. n \in DOMAIN idx \ X
    BY <1>2 DEF Changes
  <2>2. \A q \in Procs : pc[q] \notin {"killed", "quit", "dumped"}
    BY DEF Changes, Stopped
  <2>3. ASSUME NEW b \in ChainPtrs, n \in on[b] PROVE n \in on2[b]
    BY <1>2, <2>3 DEF Moved
  <2>4. ASSUME NEW q \in Procs, Takes(q), h[q].idxoff = n PROVE (Takes(q) /\ h[q].idxoff = n)'
    <3>1. CASE q = p
      BY <2>1, <2>4, <3>1 DEF Says
    <3>2. CASE q # p
      BY <2>4, <3>2 DEF Changes, Takes
    <3> QED  BY <3>1, <3>2
  <2> QED  BY <2>1, <2>2, <2>3, <2>4 DEF Kept
<1> QED  BY <1>1, <1>2

\* One list, if nothing of it changes.
ListKept(p, b, on, rk) ==
  /\ on[b] \subseteq DOMAIN idx' /\ Ranked(on[b], rk[b]) /\ First(on[b], rk[b], head'[b])
  /\ \A n \in on[b] : After(on[b], rk[b], n, idx'[n].ptr) \/ \E q \in Procs : Cuts(q, b, n)'

\* So a list goes on as it was, ...
LEMMA ListKeeps ==
  ASSUME NEW p \in Procs, NEW on, NEW rk, NEW on2, NEW rk2, Linked(on, rk), NEW b \in ChainPtrs,
         \A q \in Procs \ {p} : h'[q] = h[q] /\ pc'[q] = pc[q],
         on2[b] = on[b], rk2[b] = rk[b], head'[b] = head[b], DOMAIN idx \subseteq DOMAIN idx',
         \A m \in on[b] : /\ idx'[m].ptr = idx[m].ptr \/ Cuts(p, b, m)'
                          /\ Cuts(p, b, m) => Cuts(p, b, m)'
  PROVE  ListKept(p, b, on2, rk2)
<1>1. on[b] \subseteq DOMAIN idx /\ Ranked(on[b], rk[b]) /\ First(on[b], rk[b], head[b])
  BY DEF Linked
<1>2. ASSUME NEW n \in on[b]
      PROVE  After(on[b], rk[b], n, idx'[n].ptr) \/ \E q \in Procs : Cuts(q, b, n)'
  <2>1. After(on[b], rk[b], n, idx[n].ptr) \/ \E q \in Procs : Cuts(q, b, n)
    BY DEF Linked
  <2>2. ASSUME NEW q \in Procs, Cuts(q, b, n) PROVE Cuts(q, b, n)'
    <3>1. CASE q = p
      BY <2>2, <3>1
    <3>2. CASE q # p
      BY <2>2, <3>2 DEF Cuts, ChainOf
    <3> QED  BY <3>1, <3>2
  <2>3. CASE idx'[n].ptr = idx[n].ptr
    BY <2>1, <2>2, <2>3
  <2>4. CASE Cuts(p, b, n)'
    BY <2>4
  <2> QED  BY <2>3, <2>4
<1> QED  BY <1>1, <1>2 DEF ListKept

\* ... and so do all, if every one of them does.
LEMMA ListsKeep ==
  ASSUME NEW p \in Procs, NEW on, NEW rk, \A b \in ChainPtrs : ListKept(p, b, on, rk)
  PROVE  Linked(on, rk)'
BY DEF Linked, ListKept
-----------------------------------------------------------------------------
(* Who has which list.                                                      *)

Lists(on, rk) == ApartInv /\ TurnInv /\ Ghosts(on, rk) /\ Chained(on, rk)

\* A process that has locked the free list to change it has it alone, ...
LEMMA FreeAlone ==
  ASSUME TurnInv, NEW p \in Procs, NEW q \in Procs, HasFree(p)
  PROVE  (HasFree(q) => p = q) /\ ~Scans(q)
<1>1. FREE \in Locks /\ LocksExclude
  BY KnownLocks DEF TurnInv
<1>2. p \in wr[FREE] /\ (HasFree(q) => q \in wr[FREE]) /\ (Scans(q) => q \in rd[FREE])
  BY DEF TurnInv, Turn, LocksAt
<1>3. ~(HasFree(p) /\ Scans(p))
  BY DEF HasFree, Scans
<1> QED  BY <1>1, <1>2, <1>3 DEF LocksExclude

\* ... and so has a process its chain that is not only to read it.
LEMMA ChainAlone ==
  ASSUME TurnInv, NEW p \in Procs, NEW q \in Procs, HasChain(p), HasChain(q),
         h[p].req.op # "fetch", ChainOf(p) = ChainOf(q)
  PROVE  p = q
<1>1. ChainOf(p) \in Locks /\ LocksExclude
  BY KnownChain, KnownLocks DEF TurnInv, HasChain
<1>2. p \in wr[ChainOf(p)] /\ q \in wr[ChainOf(p)] \cup rd[ChainOf(p)]
  BY DEF TurnInv, Turn, LocksAt
<1> QED  BY <1>1, <1>2 DEF LocksExclude

\* The records on the lists.
LEMMA OnList ==
  ASSUME NEW on, NEW rk, Lists(on, rk), NEW b \in ChainPtrs, NEW m \in on[b]
  PROVE  /\ m \in DOMAIN idx /\ m \in Nat \ {0} /\ idx[m].ptr \in Nat
         /\ idx[m].datoff \in DOMAIN dat /\ idx[m].key \in Keys \cup {Blank}
<1>1. FilesOK /\ DataInFile /\ on[b] \subseteq DOMAIN idx
  BY DEF Lists, TurnInv, IInv, TypeOK, Chained, Linked
<1>2. DOMAIN dat = 1 .. Len(dat) /\ idx[m] \in IdxRecords
  BY <1>1 DEF FilesOK
<1> QED  BY <1>1, <1>2, SlotsAre DEF DataInFile, IdxRecords

\* A process that takes a record off its chain.
LEMMA CutsKnown ==
  ASSUME NEW on, NEW rk, Lists(on, rk), NEW p \in Procs, NEW b \in ChainPtrs, NEW n, Cuts(p, b, n)
  PROVE  /\ HasFree(p) /\ HasChain(p) /\ b \in Chains /\ n \in on[b] /\ idx[n].key = Blank
         /\ n = h[p].idxoff /\ b = ChainOf(p) /\ h[p].req.op # "fetch"
<1>1. pc[p] \in {"dhead", "dprev"} /\ h[p].idxoff = n /\ b = ChainOf(p)
  BY DEF Cuts
<1>2. h[p].phase = "find" /\ h[p].req.op \in Replaces \cup {"delete"}
  BY <1>1 DEF Lists, TurnInv, Turn, OpAt, DeletePcs, Stopped
<1>3. b \in Chains
  BY <1>1, <1>2, KnownChain DEF Lists, TurnInv, Stopped
<1>4. n \in on[b] /\ idx[n].key = Blank
  BY <1>1, <1>2 DEF Lists, Chained, Knows, Found, DeletePcs
<1> QED  BY <1>1, <1>2, <1>3, <1>4 DEF HasFree, HasChain, Stopped, Replaces

\* A record on a chain has a key of that chain, or is just taken off it.
LEMMA OnChain ==
  ASSUME NEW on, NEW rk, Lists(on, rk), NEW c \in Chains, NEW m \in on[c]
  PROVE  \/ idx[m].key \in Keys /\ Hash[idx[m].key] = c /\ map[idx[m].key] # Blank
         \/ idx[m].key = Blank /\ \E p \in Procs : Cuts(p, c, m)
<1>1. c \in ChainPtrs
  BY DEF ChainPtrs
<1>2. Current(c, m) \/ \E p \in Procs : Cuts(p, c, m)
  BY DEF Lists, Chained, OnChains
<1> QED  BY <1>1, <1>2, CutsKnown DEF Current

\* No record is on two lists, but one that is just taken off its chain.
LEMMA OnOneList ==
  ASSUME NEW on, NEW rk, Lists(on, rk), NEW c \in Chains, NEW b \in ChainPtrs \ {c},
         NEW m \in on[c], m \in on[b]
  PROVE  b = FREE /\ \E p \in Procs : Cuts(p, c, m)
<1>1. c \in ChainPtrs /\ TurnInv
  BY DEF ChainPtrs, Lists
<1>2. CASE b = FREE
  <2>1. idx[m].key = Blank
    BY <1>2 DEF Lists, Chained, OnFree
  <2> QED  BY <1>2, <2>1, OnChain, BlankIsNoKey
<1>3. CASE b # FREE
  <2>1. b \in Chains
    BY <1>3 DEF ChainPtrs
  <2>2. idx[m].key = Blank
    BY <2>1, OnChain, BlankIsNoKey
  <2>3. PICK p \in Procs, q \in Procs : Cuts(p, c, m) /\ Cuts(q, b, m)
    BY <2>1, <2>2, OnChain, BlankIsNoKey
  <2>4. HasFree(p) /\ HasFree(q)
    BY <1>1, <2>3, CutsKnown
  <2>5. p = q
    BY <1>1, <2>4, FreeAlone
  <2> QED  BY <2>3, <2>5 DEF Cuts
<1> QED  BY <1>2, <1>3

\* A process that holds a chain against all others goes on knowing what it knows, if
\* the lists it has and the record it holds stay as they are.
LEMMA KnowsKeeps ==
  ASSUME NEW on, NEW rk, NEW on2, NEW rk2, NEW q \in Procs, Knows(q, on, rk),
         h'[q] = h[q], pc'[q] = pc[q],
         Turn(q), Control(h[q], pc[q]),
         HasChain(q) =>
           /\ on2[ChainOf(q)] = on[ChainOf(q)] /\ rk2[ChainOf(q)] = rk[ChainOf(q)]
           /\ head'[ChainOf(q)] = head[ChainOf(q)]
           /\ \A m \in on[ChainOf(q)] : idx'[m].key = idx[m].key
           /\ map'[h[q].req.key] = map[h[q].req.key],
         HasFree(q) => on2[FREE] = on[FREE] /\ rk2[FREE] = rk[FREE] /\ head'[FREE] = head[FREE],
         pc[q] \in DeletePcs \/ Takes(q) =>
           /\ idx'[h[q].idxoff].key = idx[h[q].idxoff].key
           /\ idx'[h[q].idxoff].ptr = idx[h[q].idxoff].ptr
           /\ idx'[h[q].idxoff].datoff = idx[h[q].idxoff].datoff
           /\ dat'[idx[h[q].idxoff].datoff].val = dat[idx[h[q].idxoff].datoff].val,
         Scans(q) /\ pc[q] = "readdat" /\ idx[h[q].idxoff].key # Blank =>
           idx'[h[q].idxoff].key = idx[h[q].idxoff].key,
         pc[q] \in {"ridx", "adunlock", "ailock", "aiseek", "aiwrite"} =>
           dat'[h[q].datoff].val = dat[h[q].datoff].val,
         Takes(q) => \A b \in ChainPtrs : h[q].idxoff \notin on2[b]
  PROVE  Knows(q, on2, rk2)'
<1>1. pc[q] \notin {"idle"} \cup Stopped => OpAt(q)
  BY DEF Turn
<1>2. ChainOf(q)' = ChainOf(q) /\ Base(q)' = Base(q)
  BY DEF ChainOf, Base
<1>3. Walks(q, on2, rk2)'
  <2> SUFFICES ASSUME pc[q] \in {"hdr", "rec"}, h[q].phase # "scan" PROVE Walks(q, on2, rk2)'
    BY DEF Walks
  <2>1. HasChain(q) /\ (h[q].phase = "free" => HasFree(q))
    BY DEF HasChain, HasFree, Stopped
  <2>2. on2[Base(q)] = on[Base(q)] /\ rk2[Base(q)] = rk[Base(q)]
    BY <2>1 DEF Base
  <2>3. h[q].phase = "find" => \A m \in on[Base(q)] : idx'[m].key = idx[m].key
    BY <2>1 DEF Base
  <2>4. Walks(q, on, rk)
    BY DEF Knows
  <2> QED  BY <1>2, <2>2, <2>3, <2>4 DEF Walks, Comes
<1>4. Found(q, on2, rk2)'
  <2> SUFFICES ASSUME pc[q] \in {"readdat", "odat"} \cup DeletePcs, h[q].phase # "scan"
               PROVE  Found(q, on2, rk2)'
    BY DEF Found
  <2>1. HasChain(q) /\ (pc[q] \in {"ddat", "dfree", "didx", "dhead", "dprev"} => HasFree(q))
    BY DEF HasChain, HasFree, Stopped, DeletePcs
  <2>2. Found(q, on, rk)
    BY DEF Knows
  <2>3. /\ h[q].idxoff \in on2[ChainOf(q)] /\ map'[h[q].req.key] # Blank
        /\ idx'[h[q].idxoff].key = idx[h[q].idxoff].key
    BY <2>1, <2>2 DEF Found
  <2>4. on2[ChainOf(q)] = on[ChainOf(q)] /\ rk2[ChainOf(q)] = rk[ChainOf(q)]
    BY <2>1
  <2>5. pc[q] \in {"ddat", "dfree", "didx", "dhead", "dprev"} =>
          on2[FREE] = on[FREE] /\ head'[FREE] = head[FREE]
    BY <2>1
  <2>6. pc[q] \in DeletePcs => /\ idx'[h[q].idxoff].ptr = idx[h[q].idxoff].ptr
          /\ idx'[h[q].idxoff].datoff = idx[h[q].idxoff].datoff
          /\ dat'[idx[h[q].idxoff].datoff].val = dat[idx[h[q].idxoff].datoff].val
    OBVIOUS
  <2>7. ChainOf(q)' = ChainOf(q)
    BY <1>2
  <2>8. /\ pc[q] \in {"dhead", "dprev"} => \A m \in on2[ChainOf(q)] : idx'[m].key # h[q].req.key
        /\ pc[q] \in DeletePcs => Comes(on2, rk2, ChainOf(q), h[q].ptroff, h[q].idxoff)
    BY <2>1, <2>2, <2>4 DEF Found, Comes
  <2> QED  BY <2>2, <2>3, <2>4, <2>5, <2>6, <2>7, <2>8 DEF Found, DeletePcs
<1>5. Absent(q, on2)'
  <2> SUFFICES ASSUME pc[q] \in LatePcs \cup {"dunlock"} \/ (pc[q] \in {"hdr", "rec"} /\ h[q].phase = "free")
               PROVE  Absent(q, on2)'
    BY DEF Absent
  <2>1. HasChain(q)
    BY <1>1 DEF HasChain, Stopped, LatePcs, FreePcs, OpAt, Replaces, Control
  <2>2. Away(q)' = Away(q)
    BY DEF Away
  <2>3. Absent(q, on)
    BY DEF Knows
  <2> QED  BY <1>2, <2>1, <2>2, <2>3 DEF Absent
<1>6. Owns(q, on2, rk2)'
  <2>1. Owns(q, on, rk)
    BY DEF Knows
  <2>2. pc[q] = "funlink" => HasFree(q)
    BY DEF HasFree
  <2>3. pc[q] \in {"funlock", "rdat", "ridx"} /\ h[q].idxoff # 0 => Takes(q)
    BY DEF Takes
  <2>4. pc[q] \in {"aiunlock", "link"} => Takes(q)
    BY DEF Takes
  <2>5. pc[q] \in {"aiunlock", "link"} => Leaves(q, h[q].idxoff)'
    BY <2>1, <2>4 DEF Owns, Leaves
  <2>6. Takes(q)' = Takes(q)
    BY DEF Takes
  <2> QED  BY <2>1, <2>2, <2>3, <2>4, <2>5, <2>6 DEF Owns, Comes
<1>7. Sees(q)'
  BY DEF Knows, Sees, Scans
<1> QED  BY <1>3, <1>4, <1>5, <1>6, <1>7 DEF Knows
-----------------------------------------------------------------------------
(* The steps that write nothing.                                            *)

\* What is in the index file.
LEMMA KeysAre ==
  ASSUME IInv
  PROVE  \A n \in DOMAIN idx : idx[n] \in IdxRecords /\ idx[n].key \in Keys \cup {Blank}
<1>1. idx \in Seq(IdxRecords)
  BY DEF IInv, TypeOK, FilesOK
<1>2. \A n \in DOMAIN idx : idx[n] \in IdxRecords
  BY <1>1
<1>3. \A r \in IdxRecords : r.key \in Keys \cup {Blank}
  BY DEF IdxRecords
<1> QED  BY <1>2, <1>3

\* A process that has ended takes no step.
LEMMA Running ==
  ASSUME NEW p \in Procs, Steps(p)
  PROVE  pc[p] \notin Stopped
<1> USE DEF Stopped, Goto
<1>1. CASE Call(p) \/ db_rewind(p) \/ db_close(p) \/ Crash(p) \/ Return(p) \/ NextLock(p) \/ NextUnlock(p)
  BY <1>1 DEF Call, db_rewind, db_close, Crash, Return, NextLock, NextUnlock
<1>2. CASE Find(p)
  BY <1>2 DEF Find, LockChain, FindPtr, ReadHdr, ReadRec, ReadDat
<1>3. CASE DoDelete(p) \/ FindFree(p)
  BY <1>3 DEF DoDelete, DeleteLock, DeleteDat, DeleteFree, DeleteIdx, DeleteHead, DeletePrev,
     DeleteUnlock, FindFree, FreeLock, FreePtr, FreeUnlink, FreeUnlock
<1>4. CASE AppendRec(p) \/ Store(p)
  BY <1>4 DEF AppendRec, AppendDatLock, AppendDatSeek, AppendDat, AppendDatUnlock, AppendIdxLock,
     AppendIdxSeek, AppendIdx, AppendIdxUnlock, Store, ChainHead, ReuseDat, ReuseIdx, Link,
     LinkTooFar, OverwriteDat
<1> QED  BY <1>1, <1>2, <1>3, <1>4 DEF Steps, Step

\* What p says of records, and that it has the only record of its key.
Stands(p) ==
  /\ Says(p, {})
  /\ Away(p) => Away(p)' /\ h'[p].req.key = h[p].req.key
  /\ Takes(p)' => Takes(p) /\ h'[p].idxoff = h[p].idxoff

\* A step that writes nothing keeps the lists, if p knows what it needs where it gets to.
LEMMA Quiet ==
  ASSUME NEW on, NEW rk, Lists(on, rk), NEW p \in Procs, Steps(p), UNCHANGED <<files, map>>,
         Stands(p), Knows(p, on, rk)'
  PROVE  Chained(on, rk)'
<1>1. IInv /\ TurnInv /\ Chained(on, rk) /\ pc[p] \notin Stopped
  BY Running DEF Lists, TurnInv
<1>2. idx' = idx /\ dat' = dat /\ head' = head /\ map' = map
  BY DEF files
<1>3. \A q \in Procs \ {p} : h'[q] = h[q] /\ pc'[q] = pc[q]
  BY <1>1, Others
<1>4. PICK k : k = h[p].req.key
  OBVIOUS
<1>5. Changes(p, {}, k) /\ Moved({}, on, on) /\ Says(p, {})
  BY <1>2, <1>3 DEF Changes, Moved, Stands
<1>6. \A b \in ChainPtrs : on[b] \subseteq DOMAIN idx
  BY <1>1 DEF Chained, Linked
<1>7. OnChains(on)'
  BY <1>1, <1>2, <1>5, <1>6, ChainsKeep DEF Chained
<1>8. InMap(on)'
  <2>1. k \in Keys /\ map'[k] # Blank =>
           \/ \E n \in on[Hash[k]] : idx'[n].key = k
           \/ \E q \in Procs : (Away(q) /\ h[q].req.key = k)'
    <3> SUFFICES ASSUME k \in Keys, map[k] # Blank, NEW q \in Procs, Away(q), h[q].req.key = k
                 PROVE  (Away(q) /\ h[q].req.key = k)'
      BY <1>1, <1>2 DEF Chained, InMap
    <3>1. CASE q = p
      BY <3>1 DEF Stands
    <3>2. CASE q # p
      BY <1>3, <3>2 DEF Away
    <3> QED  BY <3>1, <3>2
  <2> QED  BY <1>1, <1>4, <1>5, <1>6, <2>1, MapKeeps DEF Chained
<1>9. OnFree(on)'
  BY <1>1, <1>5, <1>6, FreeKeeps DEF Chained
<1>10. Written(on)'
  <2>1. \A n \in DOMAIN idx : idx[n].key \in Keys \cup {Blank}
    BY <1>1, KeysAre
  <2> QED  BY <1>1, <1>5, <2>1, WrittenKeeps DEF Chained
<1>11. Kept(on)'
  BY <1>1, <1>5, KeptKeeps DEF Chained
<1>12. Linked(on, rk)'
  <2>1. ASSUME NEW b \in ChainPtrs PROVE ListKept(p, b, on, rk)
    <3>1. \A m \in on[b] : idx'[m].ptr = idx[m].ptr /\ (Cuts(p, b, m) => Cuts(p, b, m)')
      BY <1>2, <1>6 DEF Stands, Says
    <3>2. Linked(on, rk) /\ head'[b] = head[b] /\ DOMAIN idx \subseteq DOMAIN idx'
      BY <1>1, <1>2 DEF Chained
    <3> QED  BY <1>3, <3>1, <3>2, ListKeeps
  <2> QED  BY <2>1, ListsKeep
<1>13. ASSUME NEW q \in Procs PROVE Knows(q, on, rk)'
  <2>1. CASE q = p
    BY <2>1
  <2>2. CASE q # p
    <3>1. Knows(q, on, rk) /\ Turn(q) /\ h'[q] = h[q] /\ pc'[q] = pc[q] /\ Control(h[q], pc[q])
      BY <1>1, <1>3, <2>2, Known DEF Chained, TurnInv, HandleOK
    <3>2. Takes(q) => \A b \in ChainPtrs : h[q].idxoff \notin on[b]
      BY <3>1 DEF Knows, Owns
    <3> QED  BY <1>2, <3>1, <3>2, KnowsKeeps
  <2> QED  BY <2>1, <2>2
<1>14. ASSUME NEW q \in Procs, NEW r \in Procs, Takes(q)', Takes(r)', h'[q].idxoff = h'[r].idxoff
       PROVE  q = r
  <2>1. ASSUME NEW s \in Procs, Takes(s)' PROVE Takes(s) /\ h'[s].idxoff = h[s].idxoff
    <3>1. CASE s = p
      BY <2>1, <3>1 DEF Stands
    <3>2. CASE s # p
      BY <1>3, <2>1, <3>2 DEF Takes
    <3> QED  BY <3>1, <3>2
  <2> QED  BY <1>1, <1>14, <2>1 DEF Chained
<1> QED  BY <1>7, <1>8, <1>9, <1>10, <1>11, <1>12, <1>13, <1>14 DEF Chained

\* A process that says nothing of any record.
LEMMA NothingSaid ==
  ASSUME NEW p \in Procs,
         pc[p] \notin LatePcs \cup {"dunlock", "dfree", "didx", "dhead", "dprev", "killed", "quit"},
         ~Takes(p)'
  PROVE  Stands(p)
<1>1. ~Away(p) /\ ~Takes(p) /\ \A b, n : ~Cuts(p, b, n) /\ ~Wipes(p, b, n) /\ ~Leaves(p, n)
  BY DEF Away, Takes, Cuts, Wipes, Leaves, LatePcs, FreePcs
<1> QED  BY <1>1 DEF Stands, Says

\* Nothing is known where nothing is needed.
LEMMA NothingKnown ==
  ASSUME NEW on, NEW rk, NEW p \in Procs,
         \/ pc'[p] \in {"idle", "lockchain", "findptr", "unlock", "nlock", "nunlock"} \cup Stopped
         \/ pc'[p] \in {"hdr", "rec"} /\ h'[p].phase = "scan"
  PROVE  Knows(p, on, rk)' /\ ~Takes(p)'
BY DEF Knows, Walks, Found, Absent, Owns, Sees, Takes, Stopped, DeletePcs, LatePcs, FreePcs

\* Calls, returns and the ends of processes.
LEMMA ChainsCalls ==
  ASSUME ~HalfDeleted', NEW on, NEW rk, Lists(on, rk), NEW p \in Procs,
         \/ Call(p) \/ db_rewind(p) \/ db_close(p) \/ Crash(p) \/ Return(p) \/ NextUnlock(p)
         \/ LockChain(p) \/ NextLock(p) \/ ReadDat(p) \/ (ReadHdr(p) /\ pc'[p] = "dumped")
  PROVE  Chained(on, rk)'
<1>1. /\ IInv /\ h[p] \in Handles /\ h \in [Procs -> Handles] /\ pc \in [Procs -> Labels]
      /\ Control(h[p], pc[p])
  BY Known DEF Lists, TurnInv, HandleOK
<1>2. Steps(p) /\ UNCHANGED <<files, map>>
  BY DEF Steps, Step, Find, Call, db_rewind, db_close, Crash, Return, NextUnlock, LockChain, NextLock,
     ReadDat, ReadHdr, ErrDump, Stop, Goto
<1>3. Knows(p, on, rk)' /\ ~Takes(p)'
  <2>1. CASE ~NextLock(p)
    <3>1. pc'[p] \in {"idle", "lockchain", "findptr", "unlock", "nlock", "nunlock"} \cup Stopped
      BY <1>1, <2>1 DEF Call, FirstCall, db_rewind, db_close, Crash, Return, NextUnlock, LockChain,
         ReadDat, ReadHdr, ErrDump, Stop, Goto, Stopped
    <3> QED  BY <3>1, NothingKnown
  <2>2. CASE NextLock(p)
    <3>1. pc[p] = "nlock" /\ pc'[p] = "hdr" /\ h' = h
      BY <1>1, <2>2 DEF NextLock, Goto
    <3>2. h[p].phase = "scan"
      BY <1>1, <3>1 DEF Control, Stopped
    <3> QED  BY <3>1, <3>2, NothingKnown
  <2> QED  BY <2>1, <2>2
<1>4. Stands(p)
  <2>1. CASE Crash(p)
    <3>1. /\ pc[p] \notin Stopped \cup {"idle"} /\ h[p].req.op \in CrashOps /\ pc'[p] = "killed"
          /\ UNCHANGED <<files, h>>
      BY <1>1, <2>1 DEF Crash, Stop
    <3>2. h[p].req.op \notin {"delete", "replace", "store"}
      BY <3>1 DEF HalfDeleted, Deletes, files
    <3>3. OpAt(p)
      BY <3>1 DEF Lists, TurnInv, Turn
    <3>4. ~Away(p) /\ \A b, n : ~Cuts(p, b, n) /\ ~Wipes(p, b, n)
      BY <3>2, <3>3 DEF Away, Cuts, Wipes, OpAt, DeletePcs, LatePcs, FreePcs, Replaces
    <3>5. \A n : Leaves(p, n) => Leaves(p, n)'
      BY <3>1 DEF Leaves, files
    <3> QED  BY <1>3, <3>1, <3>4, <3>5 DEF Stands, Says
  <2>2. CASE ~Crash(p)
    <3>1. pc[p] \notin LatePcs \cup {"dunlock", "dfree", "didx", "dhead", "dprev", "killed", "quit"}
      BY <2>2 DEF Call, db_rewind, db_close, Return, NextUnlock, LockChain, NextLock, ReadDat, ReadHdr,
         Goto, LatePcs, FreePcs
    <3> QED  BY <1>3, <3>1, NothingSaid
  <2> QED  BY <2>1, <2>2
<1> QED  BY <1>2, <1>3, <1>4, Quiet

\* If no record of the chain has the key, the map has no value for it.
LEMMA NotInMap ==
  ASSUME NEW on, NEW rk, Lists(on, rk), NEW p \in Procs, HasChain(p), ~Away(p),
         \A n \in on[ChainOf(p)] : idx[n].key # h[p].req.key
  PROVE  map[h[p].req.key] = Blank
<1>1. TurnInv /\ InMap(on) /\ h[p].req.key \in Keys
  BY KnownChain DEF Lists, Chained, TurnInv, HasChain
<1>2. ASSUME NEW q \in Procs, Away(q), h[q].req.key = h[p].req.key PROVE FALSE
  <2>1. OpAt(q) /\ Control(h[q], pc[q])
    BY <1>1, <1>2, Known DEF TurnInv, Turn, Away, Stopped, LatePcs, FreePcs, HandleOK
  <2>2. HasChain(q) /\ h[q].req.op # "fetch"
    BY <1>2, <2>1 DEF Away, HasChain, OpAt, Stopped, DeletePcs, LatePcs, FreePcs, Replaces, Control
  <2>3. ChainOf(q) = ChainOf(p)
    BY <1>2 DEF ChainOf
  <2> QED  BY <1>1, <1>2, <2>2, <2>3, ChainAlone
<1> QED  BY <1>1, <1>2 DEF InMap, ChainOf

\* A record of a list that process p walks leads to the next of the list.
LEMMA WalkGoesOn ==
  ASSUME NEW on, NEW rk, Lists(on, rk), NEW p \in Procs, HasChain(p), h[p].phase = "free" => HasFree(p),
         NEW n \in on[Base(p)], pc[p] \notin {"dhead", "dprev"}
  PROVE  After(on[Base(p)], rk[Base(p)], n, idx[n].ptr)
<1>1. TurnInv /\ Linked(on, rk) /\ Base(p) \in ChainPtrs
  BY KnownChain DEF Lists, Chained, TurnInv, HasChain, Base, ChainPtrs
<1>2. ASSUME NEW q \in Procs, Cuts(q, Base(p), n) PROVE FALSE
  <2>1. Base(p) \in Chains /\ Base(p) = ChainOf(q) /\ HasChain(q) /\ h[q].req.op # "fetch"
    BY <1>1, <1>2, CutsKnown
  <2>2. ChainOf(p) = ChainOf(q)
    BY <2>1, LocksDistinct DEF Base
  <2>3. p = q
    BY <1>1, <2>1, <2>2, ChainAlone
  <2> QED  BY <1>2, <2>3 DEF Cuts
<1> QED  BY <1>1, <1>2 DEF Linked

\* Process p starts to walk a list, or is at its first record.
LEMMA ChainsFind ==
  ASSUME NEW on, NEW rk, Lists(on, rk), NEW p \in Procs, FindPtr(p)
  PROVE  Chained(on, rk)'
<1>1. /\ IInv /\ h[p] \in Handles /\ h \in [Procs -> Handles] /\ pc \in [Procs -> Labels]
      /\ Control(h[p], pc[p]) /\ pc[p] = "findptr"
  BY Known DEF Lists, TurnInv, HandleOK, FindPtr
<1>2. /\ Steps(p) /\ UNCHANGED <<files, map>> /\ h[p].phase = "find" /\ HasChain(p) /\ ~Away(p)
      /\ pc[p] \notin LatePcs \cup {"dunlock", "dfree", "didx", "dhead", "dprev", "killed", "quit"}
      /\ idx' = idx /\ map' = map /\ head' = head
  <2>1. OpAt(p)
    BY <1>1 DEF Lists, TurnInv, Turn, Stopped
  <2> QED  BY <1>1, <2>1 DEF Steps, Step, Find, FindPtr, OpAt, HasChain, Away, Stopped, LatePcs, FreePcs,
              files
<1>3. ChainOf(p) \in Chains /\ ChainOf(p) \in ChainPtrs
  BY <1>1, <1>2, KnownChain DEF Stopped
<1>4. PICK c : c = ChainOf(p)
  OBVIOUS
<1>5. First(on[c], rk[c], head[c]) /\ on[c] \subseteq DOMAIN idx
  BY <1>3, <1>4 DEF Lists, Chained, Linked
<1>6. CASE head[c] = 0
  <2>1. h'[p].req = h[p].req /\ h'[p].phase = Miss(p).phase /\ pc'[p] = Miss(p).to
    BY <1>1, <1>4, <1>6 DEF FindPtr, Goto, Handles
  <2>2. /\ pc'[p] \in {"unlock", "chead"} /\ (pc'[p] = "chead" => h'[p].phase = "free")
    BY <2>1 DEF Miss
  <2>3. on[c] = {}
    BY <1>5, <1>6 DEF First
  <2>4. map[h[p].req.key] = Blank
    BY <1>2, <1>4, <2>3, NotInMap
  <2>5. ~Takes(p)' /\ ~Away(p)' /\ ChainOf(p)' = c
    BY <1>4, <2>1, <2>2 DEF Takes, Away, ChainOf, LatePcs, FreePcs
  <2>6. Absent(p, on)'
    BY <1>2, <2>1, <2>2, <2>3, <2>4, <2>5 DEF Absent, LatePcs, FreePcs
  <2>7. Walks(p, on, rk)' /\ Found(p, on, rk)' /\ Owns(p, on, rk)' /\ Sees(p)'
    BY <2>2, <2>5 DEF Walks, Found, Owns, Sees, DeletePcs
  <2> QED  BY <1>2, <2>5, <2>6, <2>7, Quiet, NothingSaid DEF Knows
<1>7. CASE head[c] # 0
  <2>1. /\ h'[p].req = h[p].req /\ h'[p].phase = "find" /\ pc'[p] = "hdr"
        /\ h'[p].idxoff = head[c] /\ h'[p].ptroff = h[p].ptroff
    BY <1>1, <1>2, <1>4, <1>7 DEF FindPtr, Goto, Handles
  <2>2. h[p].ptroff = c
    BY <1>1, <1>4 DEF Lists, TurnInv, Turn, OpAt, Stopped
  <2>3. ~Takes(p)' /\ ChainOf(p)' = c /\ Base(p)' = c
    BY <1>4, <2>1 DEF Takes, ChainOf, Base
  <2>4. head[c] \in on[c] /\ \A n \in on[c] : rk[c][n] <= rk[c][head[c]]
    BY <1>5, <1>7 DEF First
  <2>5. Walks(p, on, rk)'
    BY <1>2, <1>5, <2>1, <2>2, <2>3, <2>4 DEF Walks, Comes
  <2>6. Found(p, on, rk)' /\ Absent(p, on)' /\ Owns(p, on, rk)' /\ Sees(p)'
    BY <2>1, <2>3 DEF Found, Absent, Owns, Sees, DeletePcs, LatePcs, FreePcs
  <2> QED  BY <1>2, <2>3, <2>5, <2>6, Quiet, NothingSaid DEF Knows
<1> QED  BY <1>6, <1>7

\* It has read where the next record is.
LEMMA ChainsHdr ==
  ASSUME NEW on, NEW rk, Lists(on, rk), NEW p \in Procs, ReadHdr(p), pc'[p] # "dumped"
  PROVE  Chained(on, rk)'
<1>1. /\ IInv /\ h[p] \in Handles /\ h \in [Procs -> Handles] /\ pc \in [Procs -> Labels]
      /\ pc[p] = "hdr" /\ Knows(p, on, rk)
  BY Known DEF Lists, TurnInv, ReadHdr, Chained
<1>2. /\ Steps(p) /\ UNCHANGED <<files, map>> /\ idx' = idx /\ map' = map /\ head' = head
      /\ pc[p] \notin LatePcs \cup {"dunlock", "dfree", "didx", "dhead", "dprev", "killed", "quit"}
  BY <1>1 DEF Steps, Step, Find, ReadHdr, ErrDump, LatePcs, FreePcs, files
<1>3. CASE h[p].phase = "scan"
  <2>1. pc'[p] \in {"rec", "nunlock"} /\ h'[p].phase = "scan"
    BY <1>1, <1>2, <1>3 DEF ReadHdr, ErrDump, Stop, Goto, Handles
  <2>2. Knows(p, on, rk)' /\ ~Takes(p)'
    BY <2>1, NothingKnown
  <2> QED  BY <1>2, <2>2, NothingSaid, Quiet
<1>4. CASE h[p].phase # "scan"
  <2>1. PICK n : n = h[p].idxoff
    OBVIOUS
  <2>2. /\ h'[p].req = h[p].req /\ h'[p].phase = h[p].phase /\ pc'[p] = "rec" /\ h'[p].ptroff = h[p].ptroff
        /\ h'[p].idxoff = n /\ h'[p].ptrval = idx[n].ptr /\ h'[p].front = h[p].front
    BY <1>1, <1>2, <1>4, <2>1 DEF ReadHdr, ErrDump, Stop, Goto, Handles
  <2>3. PICK b : b = Base(p)
    OBVIOUS
  <2>4. n \in on[b] /\ Comes(on, rk, b, h[p].ptroff, n) /\ Walks(p, on, rk) /\ Absent(p, on)
    BY <1>1, <1>4, <2>1, <2>3 DEF Knows, Walks
  <2>5. HasChain(p) /\ (h[p].phase = "free" => HasFree(p))
    BY <1>1, <1>4 DEF HasChain, HasFree, Stopped
  <2>6. After(on[b], rk[b], n, idx[n].ptr)
    BY <1>1, <2>3, <2>4, <2>5, WalkGoesOn
  <2>7. ~Takes(p)' /\ Base(p)' = b /\ ChainOf(p)' = ChainOf(p) /\ ~Away(p) /\ ~Away(p)'
    BY <1>1, <2>2, <2>3 DEF Takes, ChainOf, Base, Away, LatePcs, FreePcs
  <2>8. Walks(p, on, rk)'
    BY <1>1, <1>2, <1>4, <2>1, <2>2, <2>3, <2>4, <2>6, <2>7 DEF Walks, Comes
  <2>9. Absent(p, on)'
    BY <1>1, <1>2, <2>2, <2>4, <2>7 DEF Absent, LatePcs, FreePcs
  <2>10. Found(p, on, rk)' /\ Owns(p, on, rk)' /\ Sees(p)'
    BY <2>2, <2>7 DEF Found, Owns, Sees, DeletePcs
  <2> QED  BY <1>2, <2>7, <2>8, <2>9, <2>10, Quiet, NothingSaid DEF Knows
<1> QED  BY <1>3, <1>4

\* The walk has come to the end of its chain.
LEMMA EndOfChain ==
  ASSUME NEW on, NEW rk, Lists(on, rk), NEW p \in Procs, pc[p] = "rec", RecMiss(p)
  PROVE  /\ \A m \in on[ChainOf(p)] : idx[m].key # h[p].req.key
         /\ map[h[p].req.key] = Blank
<1>1. PICK n, c : n = h[p].idxoff /\ c = ChainOf(p)
  OBVIOUS
<1>2. h[p].phase = "find" /\ idx[n].key # h[p].req.key /\ h[p].ptrval = 0 /\ Base(p) = c
  BY <1>1 DEF RecMiss, RecRead, Base
<1>3. HasChain(p) /\ c \in ChainPtrs /\ Ghosts(on, rk) /\ Linked(on, rk) /\ ~Away(p)
  BY <1>1, <1>2, KnownChain DEF HasChain, ChainPtrs, Stopped, Lists, TurnInv, Chained, Away, LatePcs, FreePcs
<1>4. /\ n \in on[c] /\ After(on[c], rk[c], n, 0)
      /\ \A m \in on[c] : idx[m].key = h[p].req.key => rk[c][m] <= rk[c][n]
  BY <1>1, <1>2 DEF Lists, Chained, Knows, Walks
<1>5. on[c] \subseteq Nat /\ rk[c] \in [Nat -> Nat] /\ Ranked(on[c], rk[c])
  BY <1>3 DEF Ghosts, Linked
<1>6. ASSUME NEW m \in on[c], idx[m].key = h[p].req.key PROVE FALSE
  <2>1. rk[c][m] <= rk[c][n] /\ m # n /\ rk[c][m] >= rk[c][n]
    BY <1>2, <1>4, <1>6 DEF After
  <2>2. rk[c][m] # rk[c][n]
    BY <1>4, <1>5, <2>1 DEF Ranked
  <2>3. rk[c][m] \in Nat /\ rk[c][n] \in Nat
    BY <1>4, <1>5
  <2> QED  BY <2>1, <2>2, <2>3
<1> QED  BY <1>1, <1>3, <1>6, NotInMap

\* It has read the record and goes on, finds the key or a free record, or does not.
LEMMA ChainsRec ==
  ASSUME NEW on, NEW rk, Lists(on, rk), NEW p \in Procs, ReadRec(p)
  PROVE  Chained(on, rk)'
<1>1. IInv /\ h[p] \in Handles /\ Knows(p, on, rk) /\ Ghosts(on, rk) /\ Control(h[p], pc[p])
  BY Known DEF Lists, TurnInv, Chained, HandleOK
<1>2. /\ pc[p] = "rec" /\ Steps(p) /\ UNCHANGED <<files, map>> /\ idx' = idx /\ map' = map /\ head' = head
      /\ Stays(p)
      /\ pc[p] \notin LatePcs \cup {"dunlock", "dfree", "didx", "dhead", "dprev", "killed", "quit"}
      /\ RecHit(p) \/ RecNext(p) \/ RecMiss(p) \/ RecFits(p) \/ RecNone(p) \/ RecScan(p)
  <2>1. pc[p] = "rec"
    BY DEF ReadRec
  <2> QED  BY <1>1, <2>1, RecOutcomes DEF Steps, Step, Find, LatePcs, FreePcs, files
<1>3. CASE RecScan(p)
  <2>1. h'[p].phase = "scan" /\ pc'[p] = "hdr" => Knows(p, on, rk)' /\ ~Takes(p)'
    BY NothingKnown
  <2>2. pc'[p] = "readdat" => Knows(p, on, rk)' /\ ~Takes(p)'
    BY <1>2, <1>3 DEF RecScan, RecRead, Knows, Walks, Found, Absent, Owns, Sees, Takes, DeletePcs, LatePcs,
       FreePcs
  <2>3. Knows(p, on, rk)' /\ ~Takes(p)'
    BY <1>3, <2>1, <2>2 DEF RecScan
  <2> QED  BY <1>2, <2>3, NothingSaid, Quiet
<1>4. CASE ~RecScan(p)
  <2>1. h[p].phase # "scan" /\ h[p].phase \in {"find", "free"}
    BY <1>1, <1>2, <1>4 DEF RecHit, RecNext, RecMiss, RecFits, RecNone, Handles
  <2>2. PICK b, n, c : b = Base(p) /\ n = h[p].idxoff /\ c = ChainOf(p)
    OBVIOUS
  <2>3. HasChain(p) /\ c \in Chains /\ c \in ChainPtrs /\ b \in ChainPtrs /\ h[p].req.key \in Keys
    BY <1>1, <1>2, <2>1, <2>2, KnownChain DEF HasChain, Base, ChainPtrs, Stopped
  <2>4. /\ n \in on[b] /\ Comes(on, rk, b, h[p].ptroff, n) /\ After(on[b], rk[b], n, h[p].ptrval)
        /\ h[p].phase = "find" => \A m \in on[b] : idx[m].key = h[p].req.key => rk[b][m] <= rk[b][n]
    BY <1>1, <1>2, <2>1, <2>2 DEF Knows, Walks
  <2>5. /\ on[b] \subseteq Nat /\ rk[b] \in [Nat -> Nat] /\ Ranked(on[b], rk[b])
        /\ h'[p].req = h[p].req /\ h'[p].front = h[p].front /\ ChainOf(p)' = c
    BY <1>1, <1>2, <2>2, <2>3 DEF Ghosts, Stays, ChainOf, Lists, Chained, Linked
  <2>6. Absent(p, on) /\ ~Away(p)
    BY <1>1, <1>2 DEF Knows, Away, LatePcs, FreePcs
  <2>7. Knows(p, on, rk)' /\ ~Takes(p)' => Chained(on, rk)'
    BY <1>2, NothingSaid, Quiet
  <2>8. CASE RecHit(p)
    <3>1. /\ h[p].phase = "find" /\ idx[n].key = h[p].req.key /\ h'[p].phase = "find" /\ h'[p].idxoff = n
          /\ h'[p].ptroff = h[p].ptroff /\ h'[p].ptrval = h[p].ptrval /\ h'[p].idxkey = h[p].req.key
          /\ pc'[p] \in {"readdat", "dlock", "unlock", "odat"} /\ b = c
      BY <2>2, <2>8 DEF RecHit, RecRead, Hit, Base
    <3>2. map[h[p].req.key] # Blank
      BY <2>3, <2>4, <3>1, OnChain, BlankIsNoKey
    <3>3. Found(p, on, rk)'
      BY <1>2, <2>4, <2>5, <3>1, <3>2 DEF Found, Comes, DeletePcs
    <3>4. Walks(p, on, rk)' /\ Absent(p, on)' /\ Owns(p, on, rk)' /\ Sees(p)' /\ ~Takes(p)'
      BY <3>1 DEF Walks, Absent, Owns, Sees, Takes, LatePcs, FreePcs
    <3> QED  BY <2>7, <3>3, <3>4 DEF Knows
  <2>9. CASE RecNext(p)
    <3>1. PICK x : x = h[p].ptrval
      OBVIOUS
    <3>2. /\ h[p].phase = "find" => idx[n].key # h[p].req.key
          /\ x # 0 /\ pc'[p] = "hdr" /\ h'[p].phase = h[p].phase /\ h'[p].ptroff = n /\ h'[p].idxoff = x
      BY <2>2, <2>9, <3>1 DEF RecNext, RecRead
    <3>3. Base(p)' = b
      BY <2>2, <2>5, <3>2 DEF Base
    <3>4. x \in on[b] /\ rk[b][x] < rk[b][n] /\ \A m \in on[b] : rk[b][m] < rk[b][n] => rk[b][m] <= rk[b][x]
      BY <2>4, <3>1, <3>2 DEF After
    <3>5. ASSUME h[p].phase = "find", NEW m \in on[b], idx[m].key = h[p].req.key
          PROVE  rk[b][m] <= rk[b][x]
      <4>1. rk[b][m] <= rk[b][n] /\ m # n
        BY <2>4, <3>2, <3>5
      <4>2. rk[b][m] # rk[b][n]
        BY <2>4, <2>5, <4>1 DEF Ranked
      <4>3. rk[b][m] \in Nat /\ rk[b][n] \in Nat
        BY <2>4, <2>5
      <4> QED  BY <3>4, <4>1, <4>2, <4>3
    <3>6. Walks(p, on, rk)'
      <4>1. After(on[b], rk[b], n, x)
        BY <2>4, <3>1
      <4> QED  BY <1>2, <2>1, <2>4, <2>5, <3>2, <3>3, <3>4, <3>5, <4>1 DEF Walks, Comes
    <3>7. ~Takes(p)' /\ ~Away(p)'
      BY <3>2 DEF Takes, Away, LatePcs, FreePcs
    <3>8. Absent(p, on)'
      BY <1>2, <2>2, <2>5, <2>6, <3>2, <3>7 DEF Absent, LatePcs, FreePcs
    <3>9. Found(p, on, rk)' /\ Owns(p, on, rk)' /\ Sees(p)'
      BY <3>2, <3>7 DEF Found, Owns, Sees, DeletePcs
    <3> QED  BY <2>7, <3>6, <3>7, <3>8, <3>9 DEF Knows
  <2>10. CASE RecMiss(p)
    <3>1. /\ h[p].phase = "find" /\ idx[n].key # h[p].req.key /\ h[p].ptrval = 0 /\ b = c
          /\ pc'[p] \in {"chead", "unlock"} /\ (pc'[p] = "chead" => h'[p].phase = "free")
      BY <2>2, <2>10 DEF RecMiss, RecRead, Miss, Base
    <3>2. (\A m \in on[c] : idx[m].key # h[p].req.key) /\ map[h[p].req.key] = Blank
      BY <1>2, <2>2, <2>10, EndOfChain
    <3>3. ~Takes(p)' /\ ~Away(p)'
      BY <3>1 DEF Takes, Away, LatePcs, FreePcs
    <3>4. Absent(p, on)'
      BY <1>2, <2>5, <3>1, <3>2, <3>3 DEF Absent, LatePcs, FreePcs
    <3>5. Walks(p, on, rk)' /\ Found(p, on, rk)' /\ Owns(p, on, rk)' /\ Sees(p)'
      BY <3>1, <3>3 DEF Walks, Found, Owns, Sees, DeletePcs
    <3> QED  BY <2>7, <3>3, <3>4, <3>5 DEF Knows
  <2>11. CASE RecFits(p)
    <3>1. /\ h[p].phase = "free" /\ pc'[p] = "funlink" /\ h'[p].phase = "free" /\ b = FREE
          /\ h'[p].idxoff = n /\ h'[p].ptroff = h[p].ptroff /\ h'[p].ptrval = h[p].ptrval
      BY <2>2, <2>11 DEF RecFits, Base
    <3>2. ~Takes(p)' /\ ~Away(p)'
      BY <3>1 DEF Takes, Away, LatePcs, FreePcs
    <3>3. Absent(p, on)'
      BY <1>2, <2>2, <2>5, <2>6, <3>1, <3>2 DEF Absent, LatePcs, FreePcs
    <3>4. Owns(p, on, rk)'
      BY <2>4, <3>1, <3>2 DEF Owns, Comes
    <3>5. Walks(p, on, rk)' /\ Found(p, on, rk)' /\ Sees(p)'
      BY <3>1 DEF Walks, Found, Sees, DeletePcs
    <3> QED  BY <2>7, <3>2, <3>3, <3>4, <3>5 DEF Knows
  <2>12. CASE RecNone(p)
    <3>1. h[p].phase = "free" /\ pc'[p] = "funlock" /\ h'[p].phase = "free" /\ h'[p].idxoff = 0
      BY <2>12 DEF RecNone
    <3>2. ~Takes(p)' /\ ~Away(p)'
      BY <3>1 DEF Takes, Away, LatePcs, FreePcs
    <3>3. Absent(p, on)'
      BY <1>2, <2>2, <2>5, <2>6, <3>1, <3>2 DEF Absent, LatePcs, FreePcs
    <3>4. Walks(p, on, rk)' /\ Found(p, on, rk)' /\ Owns(p, on, rk)' /\ Sees(p)'
      BY <3>1, <3>2 DEF Walks, Found, Owns, Sees, DeletePcs
    <3> QED  BY <2>7, <3>2, <3>3, <3>4 DEF Knows
  <2> QED  BY <1>2, <1>4, <2>8, <2>9, <2>10, <2>11, <2>12
<1> QED  BY <1>3, <1>4

\* _db_dodelete locks the free list, reads where it starts, and is done.
LEMMA ChainsDelete ==
  ASSUME NEW on, NEW rk, Lists(on, rk), NEW p \in Procs, DeleteLock(p) \/ DeleteFree(p) \/ DeleteUnlock(p)
  PROVE  Chained(on, rk)'
<1>1. /\ IInv /\ h[p] \in Handles /\ h \in [Procs -> Handles] /\ pc \in [Procs -> Labels]
      /\ Knows(p, on, rk) /\ pc[p] \in {"dlock", "dfree", "dunlock"} /\ Turn(p)
  BY Known DEF Lists, TurnInv, Chained, DeleteLock, DeleteFree, DeleteUnlock, Goto
<1>2. /\ Steps(p) /\ UNCHANGED <<files, map>> /\ idx' = idx /\ map' = map /\ head' = head /\ dat' = dat
      /\ h[p].phase = "find" /\ h[p].req.op \in Replaces \cup {"delete"}
  BY <1>1 DEF Turn, OpAt, DeletePcs, Stopped, Steps, Step, DoDelete, DeleteLock, DeleteFree, DeleteUnlock, files
<1>3. CASE DeleteLock(p)
  <2>1. pc[p] = "dlock" /\ pc'[p] = "ddat" /\ h' = h
    BY <1>1, <1>3 DEF DeleteLock, Goto
  <2>2. Found(p, on, rk)'
    BY <1>1, <1>2, <2>1 DEF Knows, Found, Comes, ChainOf, DeletePcs
  <2>3. Walks(p, on, rk)' /\ Absent(p, on)' /\ Owns(p, on, rk)' /\ Sees(p)' /\ ~Takes(p)'
    BY <2>1 DEF Walks, Absent, Owns, Sees, Takes, LatePcs, FreePcs
  <2>4. Stands(p)
    BY <2>1, <2>3, NothingSaid DEF LatePcs, FreePcs
  <2> QED  BY <1>2, <2>2, <2>3, <2>4, Quiet DEF Knows
<1>4. CASE DeleteFree(p)
  <2>1. /\ pc[p] = "dfree" /\ pc'[p] = "didx" /\ h'[p].req = h[p].req /\ h'[p].phase = h[p].phase
        /\ h'[p].idxoff = h[p].idxoff /\ h'[p].ptroff = h[p].ptroff /\ h'[p].saveptr = h[p].ptrval
        /\ h'[p].freeptr = head[FREE]
    BY <1>1, <1>4 DEF DeleteFree, Goto, Handles
  <2>2. ChainOf(p)' = ChainOf(p)
    BY <2>1 DEF ChainOf
  <2>3. Found(p, on, rk)'
    BY <1>1, <1>2, <2>1, <2>2 DEF Knows, Found, Comes, DeletePcs
  <2>4. Walks(p, on, rk)' /\ Absent(p, on)' /\ Owns(p, on, rk)' /\ Sees(p)' /\ ~Takes(p)'
    BY <2>1 DEF Walks, Absent, Owns, Sees, Takes, LatePcs, FreePcs
  <2>5. Stands(p)
    <3>1. ~Away(p) /\ ~Takes(p) /\ \A b, n : ~Cuts(p, b, n) /\ ~Leaves(p, n)
      BY <2>1 DEF Away, Takes, Cuts, Leaves, LatePcs, FreePcs
    <3>2. \A b, n : Wipes(p, b, n) => Wipes(p, b, n)'
      BY <2>1, <2>2 DEF Wipes
    <3> QED  BY <2>4, <3>1, <3>2 DEF Stands, Says
  <2> QED  BY <1>2, <2>3, <2>4, <2>5, Quiet DEF Knows
<1>5. CASE DeleteUnlock(p)
  <2>1. /\ pc[p] = "dunlock" /\ pc'[p] = (IF h[p].req.op = "delete" THEN "unlock" ELSE "chead") /\ h' = h
    BY <1>1, <1>5 DEF DeleteUnlock, Goto
  <2>2. Absent(p, on)'
    BY <1>1, <1>2, <2>1 DEF Knows, Absent, ChainOf, Away, LatePcs, FreePcs
  <2>3. Walks(p, on, rk)' /\ Found(p, on, rk)' /\ Owns(p, on, rk)' /\ Sees(p)' /\ ~Takes(p)'
    BY <2>1 DEF Walks, Found, Owns, Sees, Takes, DeletePcs
  <2>4. Stands(p)
    <3>1. ~Takes(p) /\ \A b, n : ~Cuts(p, b, n) /\ ~Leaves(p, n) /\ ~Wipes(p, b, n)
      BY <2>1 DEF Takes, Cuts, Leaves, Wipes
    <3>2. Away(p) => Away(p)'
      BY <1>2, <2>1 DEF Away, LatePcs, FreePcs, Replaces
    <3> QED  BY <2>1, <2>3, <3>1, <3>2 DEF Stands, Says
  <2> QED  BY <1>2, <2>2, <2>3, <2>4, Quiet DEF Knows
<1> QED  BY <1>3, <1>4, <1>5

\* A store on its way to where its record will be.
LEMMA ChainsOnWay ==
  ASSUME NEW on, NEW rk, Lists(on, rk), NEW p \in Procs,
         \/ FreeLock(p) \/ FreePtr(p) \/ FreeUnlock(p) \/ ChainHead(p)
         \/ AppendDatLock(p) \/ AppendDatSeek(p) \/ AppendDatUnlock(p)
         \/ AppendIdxLock(p) \/ AppendIdxSeek(p) \/ AppendIdxUnlock(p)
  PROVE  Chained(on, rk)'
<1>1. /\ IInv /\ h[p] \in Handles /\ h \in [Procs -> Handles] /\ pc \in [Procs -> Labels]
      /\ Knows(p, on, rk) /\ Turn(p) /\ pc[p] \in LatePcs
  BY Known DEF Lists, TurnInv, Chained, FreeLock, FreePtr, FreeUnlock, ChainHead, AppendDatLock, AppendDatSeek,
     AppendDatUnlock, AppendIdxLock, AppendIdxSeek, AppendIdxUnlock, Goto, LatePcs, FreePcs
<1>2. /\ Steps(p) /\ UNCHANGED <<files, map>> /\ idx' = idx /\ map' = map /\ head' = head /\ dat' = dat
  BY <1>1 DEF Steps, Step, FindFree, Store, AppendRec, FreeLock, FreePtr, FreeUnlock, ChainHead, AppendDatLock,
     AppendDatSeek, AppendDatUnlock, AppendIdxLock, AppendIdxSeek, AppendIdxUnlock, files
<1>3. /\ h[p].phase = "free" \/ h[p].req.op \in Replaces
      /\ pc[p] \in FreePcs => h[p].phase = "free"
      /\ Absent(p, on) /\ Owns(p, on, rk)
  BY <1>1 DEF Turn, OpAt, Stopped, LatePcs, FreePcs, Knows
<1> DEFINE Same == /\ h'[p].req = h[p].req /\ h'[p].phase = h[p].phase
                   /\ pc'[p] \in LatePcs \/ (pc'[p] = "hdr" /\ h[p].phase = "free")
\* What all of these have in common.
<1>4. ASSUME Same, h'[p].front = h[p].front \/ pc[p] = "chead",
             pc[p] = "chead" => h'[p].front = head[ChainOf(p)]
      PROVE  Absent(p, on)' /\ (Away(p) => Away(p)') /\ (Away(p)' => Away(p))
  <2>1. ChainOf(p)' = ChainOf(p)
    BY <1>4 DEF ChainOf
  <2>2. Away(p)' = Away(p)
    BY <1>1, <1>4 DEF Away, LatePcs, FreePcs
  <2>3. h'[p].front = head[ChainOf(p)] \/ pc[p] = "dunlock"
    BY <1>1, <1>3, <1>4 DEF Absent, LatePcs, FreePcs
  <2>4. Absent(p, on)'
    BY <1>1, <1>2, <1>3, <1>4, <2>1, <2>2, <2>3 DEF Absent, LatePcs, FreePcs
  <2> QED  BY <2>2, <2>4
<1>5. ASSUME Same, ~Takes(p), ~Takes(p)', Away(p) => Away(p)' PROVE Stands(p)
  <2>1. \A b, n : ~Cuts(p, b, n) /\ ~Leaves(p, n) /\ ~Wipes(p, b, n)
    BY <1>1, <1>5 DEF Cuts, Leaves, Wipes, Takes, LatePcs, FreePcs
  <2> QED  BY <1>5, <2>1 DEF Stands, Says
<1>6. CASE FreeLock(p) \/ AppendDatLock(p) \/ AppendIdxLock(p) \/ AppendDatUnlock(p) \/ AppendDatSeek(p)
  <2>1. /\ Same /\ h'[p].front = h[p].front
        /\ pc[p] \in {"flock", "adlock", "ailock", "adunlock", "adseek"}
        /\ pc'[p] \in {"fptr", "adseek", "aiseek", "ailock", "adwrite"}
        /\ pc[p] \in {"adlock", "adseek"} => pc'[p] \in {"adseek", "adwrite"}
        /\ pc[p] = "flock" => pc'[p] = "fptr"
        /\ pc[p] # "adseek" => h'[p].datoff = h[p].datoff
    BY <1>1, <1>6 DEF FreeLock, AppendDatLock, AppendIdxLock, AppendDatUnlock, AppendDatSeek, Goto, Handles,
       LatePcs, FreePcs
  <2>2. ~Takes(p) /\ ~Takes(p)'
    BY <2>1 DEF Takes
  <2>3. Owns(p, on, rk)'
    BY <1>2, <1>3, <2>1, <2>2 DEF Owns
  <2>4. Walks(p, on, rk)' /\ Found(p, on, rk)' /\ Sees(p)'
    BY <2>1 DEF Walks, Found, Sees, DeletePcs
  <2> QED  BY <1>2, <1>4, <1>5, <2>1, <2>2, <2>3, <2>4, Quiet DEF Knows
<1>7. CASE ChainHead(p)
  <2>1. /\ Same /\ h'[p].front = head[ChainOf(p)] /\ pc[p] = "chead" /\ pc'[p] \in {"flock", "adlock"}
    BY <1>1, <1>7 DEF ChainHead, Goto, Handles, LatePcs, FreePcs
  <2>2. ~Takes(p) /\ ~Takes(p)'
    BY <2>1 DEF Takes
  <2>3. Owns(p, on, rk)'
    BY <2>1, <2>2 DEF Owns
  <2>4. Walks(p, on, rk)' /\ Found(p, on, rk)' /\ Sees(p)'
    BY <2>1 DEF Walks, Found, Sees, DeletePcs
  <2> QED  BY <1>2, <1>4, <1>5, <2>1, <2>2, <2>3, <2>4, Quiet DEF Knows
<1>8. CASE AppendIdxSeek(p)
  <2>1. /\ Same /\ h'[p].front = h[p].front /\ pc[p] = "aiseek" /\ pc'[p] = "aiwrite"
        /\ h'[p].ptrval = h[p].front /\ h'[p].datoff = h[p].datoff
    BY <1>1, <1>8 DEF AppendIdxSeek, Goto, Handles, LatePcs, FreePcs
  <2>2. ~Takes(p) /\ ~Takes(p)'
    BY <2>1 DEF Takes
  <2>3. Owns(p, on, rk)'
    BY <1>2, <1>3, <2>1, <2>2 DEF Owns
  <2>4. Walks(p, on, rk)' /\ Found(p, on, rk)' /\ Sees(p)'
    BY <2>1 DEF Walks, Found, Sees, DeletePcs
  <2> QED  BY <1>2, <1>4, <1>5, <2>1, <2>2, <2>3, <2>4, Quiet DEF Knows
<1>9. CASE FreePtr(p)
  <2>1. /\ Same /\ h'[p].front = h[p].front /\ pc[p] = "fptr" /\ h'[p].ptroff = FREE
        /\ h'[p].idxoff = head[FREE] /\ h[p].phase = "free"
        /\ pc'[p] = IF head[FREE] = 0 THEN "funlock" ELSE "hdr"
    BY <1>1, <1>3, <1>9 DEF FreePtr, Goto, Handles, LatePcs, FreePcs
  <2>2. ~Takes(p) /\ ~Takes(p)'
    BY <2>1 DEF Takes
  <2>3. Owns(p, on, rk)' /\ Found(p, on, rk)' /\ Sees(p)'
    BY <2>1, <2>2 DEF Owns, Found, Sees, DeletePcs
  <2>4. First(on[FREE], rk[FREE], head[FREE])
    BY DEF Lists, Chained, Linked, ChainPtrs
  <2>5. Base(p)' = FREE
    BY <2>1 DEF Base
  <2>6. Walks(p, on, rk)'
    BY <2>1, <2>4, <2>5 DEF Walks, Comes, First
  <2> QED  BY <1>2, <1>4, <1>5, <2>1, <2>2, <2>3, <2>6, Quiet DEF Knows
<1>10. CASE FreeUnlock(p) \/ AppendIdxUnlock(p)
  <2>1. /\ Same /\ h' = h
        /\ \/ pc[p] = "funlock" /\ pc'[p] = IF h[p].idxoff = 0 THEN "adlock" ELSE "rdat"
           \/ pc[p] = "aiunlock" /\ pc'[p] = "link"
    BY <1>1, <1>10 DEF FreeUnlock, AppendIdxUnlock, Goto, Handles, LatePcs, FreePcs
  <2>2. Takes(p)' = Takes(p)
    BY <2>1 DEF Takes
  <2>3. \A b, n : ~Cuts(p, b, n) /\ ~Wipes(p, b, n)
    BY <2>1 DEF Cuts, Wipes
  <2>4. \A n : Leaves(p, n) => Leaves(p, n)'
    BY <1>2, <2>1 DEF Leaves
  <2>5. Stands(p)
    BY <1>4, <2>1, <2>2, <2>3, <2>4 DEF Stands, Says
  <2>6. Owns(p, on, rk)'
    BY <1>2, <1>3, <2>1, <2>2, <2>4 DEF Owns
  <2>7. Walks(p, on, rk)' /\ Found(p, on, rk)' /\ Sees(p)'
    BY <2>1 DEF Walks, Found, Sees, DeletePcs
  <2> QED  BY <1>2, <1>4, <2>1, <2>5, <2>6, <2>7, Quiet DEF Knows
<1> QED  BY <1>6, <1>7, <1>8, <1>9, <1>10
-----------------------------------------------------------------------------
(* The steps that write.                                                    *)

\* What a write changes: one data record, ...
LEMMA DatAt ==
  ASSUME FilesOK, NEW d \in 1 .. Len(dat) + 1, NEW v, NEW len, dat' = WriteAt(dat, d, DatRec(v, len))
  PROVE  dat'[d].val = v /\ \A e \in DOMAIN dat \ {d} : dat'[e] = dat[e]
<1>1. dat \in Seq(DatRecords) /\ Len(dat) \in Nat /\ DOMAIN dat = 1 .. Len(dat)
  BY DEF FilesOK
<1>2. CASE d \in DOMAIN dat
  <2>1. dat' = [dat EXCEPT ![d] = [DatRec(v, len) EXCEPT !.room = dat[d].room]]
    BY <1>2 DEF WriteAt
  <2> QED  BY <1>2, <2>1 DEF DatRec
<1>3. CASE d \notin DOMAIN dat
  <2>3. d = Len(dat) + 1
    BY <1>1, <1>3
  <2>1. dat' = Append(dat, DatRec(v, len))
    BY <1>3 DEF WriteAt
  <2>2. dat'[d] = DatRec(v, len) /\ \A e \in DOMAIN dat : dat'[e] = dat[e]
    BY <1>1, <2>1, <2>3
  <2> QED  BY <2>2 DEF DatRec
<1> QED  BY <1>2, <1>3

OnlyIdx(n) == DOMAIN idx' = DOMAIN idx \cup {n} /\ (\A m \in DOMAIN idx \ {n} : idx'[m] = idx[m])

\* ... one index record, ...
LEMMA IdxAt ==
  ASSUME FilesOK, NEW n \in 1 .. Len(idx) + 1, NEW p, NEW key, NEW klen, NEW ptr,
         idx' = WriteAt(idx, n, IdxRec(p, key, klen, ptr))
  PROVE  /\ OnlyIdx(n)
         /\ idx'[n].key = key /\ idx'[n].ptr = ptr /\ idx'[n].datoff = h[p].datoff
<1>1. idx \in Seq(IdxRecords) /\ Len(idx) \in Nat /\ DOMAIN idx = 1 .. Len(idx)
  BY DEF FilesOK
<1> DEFINE r == IdxRec(p, key, klen, ptr)
<1>2. CASE n \in DOMAIN idx
  <2> DEFINE w == [r EXCEPT !.room = idx[n].room]
  <2>1. w.key = key /\ w.ptr = ptr /\ w.datoff = h[p].datoff
    BY DEF IdxRec
  <2>2. idx' = [idx EXCEPT ![n] = w]
    BY <1>2 DEF WriteAt
  <2> HIDE DEF w
  <2> QED  BY <1>2, <2>1, <2>2 DEF OnlyIdx
<1>3. CASE n \notin DOMAIN idx
  <2>1. r.key = key /\ r.ptr = ptr /\ r.datoff = h[p].datoff
    BY DEF IdxRec
  <2>2. idx' = Append(idx, r)
    BY <1>3 DEF WriteAt
  <2>4. n = Len(idx) + 1
    BY <1>1, <1>3
  <2> HIDE DEF r
  <2>3. DOMAIN idx' = DOMAIN idx \cup {n} /\ idx'[n] = r /\ \A m \in DOMAIN idx : idx'[m] = idx[m]
    BY <1>1, <2>2, <2>4
  <2> QED  BY <2>1, <2>3 DEF OnlyIdx
<1> QED  BY <1>2, <1>3

\* ... or one pointer.
LEMMA PtrAt ==
  ASSUME FilesOK, NEW loc \in ChainPtrs \cup DOMAIN idx, NEW x, WritePtr(loc, x)
  PROVE  /\ dat' = dat /\ DOMAIN idx' = DOMAIN idx
         /\ \A m \in DOMAIN idx : /\ idx'[m].key = idx[m].key /\ idx'[m].datoff = idx[m].datoff
                                  /\ idx'[m].ptr = IF m = loc THEN x ELSE idx[m].ptr
         /\ \A b \in ChainPtrs : head'[b] = IF b = loc THEN x ELSE head[b]
<1>1. /\ \A n \in DOMAIN idx : n \in Nat /\ idx[n] \in IdxRecords
      /\ head \in [ChainPtrs -> 0 .. Len(idx)]
  BY DEF FilesOK
<1>2. \A b \in ChainPtrs : b \notin Nat
  BY LocksDistinct DEF Locks
<1>3. CASE loc \in ChainPtrs
  <2>1. head' = [head EXCEPT ![loc] = x] /\ idx' = idx /\ dat' = dat
    BY <1>3 DEF WritePtr
  <2> QED  BY <1>1, <1>2, <1>3, <2>1
<1>4. CASE loc \notin ChainPtrs
  <2> DEFINE w == [idx[loc] EXCEPT !.ptr = x]
  <2>1. idx' = [idx EXCEPT ![loc] = w] /\ head' = head /\ dat' = dat /\ loc \in DOMAIN idx
    BY <1>4 DEF WritePtr
  <2>2. w.key = idx[loc].key /\ w.datoff = idx[loc].datoff /\ w.ptr = x
    BY <1>1, <2>1 DEF IdxRecords
  <2> HIDE DEF w
  <2>3. \A m \in DOMAIN idx : idx'[m] = IF m = loc THEN w ELSE idx[m]
    BY <2>1
  <2> QED  BY <1>4, <2>1, <2>2, <2>3
<1> QED  BY <1>3, <1>4

\* The record that p works on.
Grips(p, n, on) ==
  \/ n \in on[ChainOf(p)] \/ Takes(p) \/ n \notin DOMAIN idx
  \/ n \in on[FREE] /\ HasFree(p)

\* The chains of the others have none of the records that p works on.
LEMMA OffChain ==
  ASSUME NEW on, NEW rk, Lists(on, rk), NEW p \in Procs, HasChain(p),
         NEW b \in Chains \ {ChainOf(p)}, NEW m \in on[b]
  PROVE  m \notin on[ChainOf(p)] /\ ~(HasFree(p) /\ m \in on[FREE])
<1>1. TurnInv /\ IInv /\ ChainOf(p) \in Chains \ {b} /\ ChainOf(p) \in ChainPtrs \ {b} /\ b \in ChainPtrs
      /\ FREE \in ChainPtrs \ {b} /\ ChainOf(p) # FREE
  BY KnownChain, LocksDistinct DEF Lists, TurnInv, HasChain, ChainPtrs
<1>2. m \notin on[ChainOf(p)]
  BY <1>1, OnOneList
<1>3. ASSUME HasFree(p), m \in on[FREE] PROVE FALSE
  <2>1. PICK r \in Procs : Cuts(r, b, m)
    BY <1>1, <1>3, OnOneList
  <2>2. r = p
    BY <1>1, <1>3, <2>1, CutsKnown, FreeAlone
  <2> QED  BY <2>1, <2>2 DEF Cuts
<1> QED  BY <1>2, <1>3

\* No two processes that write have hold of the same record, ...
LEMMA GripsApart ==
  ASSUME NEW on, NEW rk, Lists(on, rk), NEW p \in Procs, HasChain(p),
         NEW n, n = h[p].idxoff, Grips(p, n, on), NEW b \in Chains \ {ChainOf(p)}
  PROVE  n \notin on[b]
<1> SUFFICES ASSUME n \in on[b] PROVE FALSE
  OBVIOUS
<1>1. n \notin on[ChainOf(p)] /\ ~(HasFree(p) /\ n \in on[FREE]) /\ b \in ChainPtrs
  BY OffChain DEF ChainPtrs
<1>2. n \in DOMAIN idx
  BY <1>1, OnList
<1>3. Takes(p) => n \notin on[b]
  BY <1>1 DEF Lists, Chained, Knows, Owns
<1> QED  BY <1>1, <1>2, <1>3 DEF Grips

\* ... and it is nobody else's.
LEMMA GripsAlone ==
  ASSUME NEW on, NEW rk, Lists(on, rk), NEW p \in Procs, HasChain(p), h[p].req.op # "fetch",
         NEW n, n = h[p].idxoff, Grips(p, n, on), NEW q \in Procs \ {p}
  PROVE  /\ HasChain(q) => ChainOf(q) \in Chains \ {ChainOf(p)} /\ n \notin on[ChainOf(q)]
         /\ Takes(q) => h[q].idxoff # n
<1>1. TurnInv /\ IInv /\ ChainOf(p) \in Chains /\ ChainOf(p) \in ChainPtrs
  BY KnownChain DEF Lists, TurnInv, HasChain
<1>2. ASSUME HasChain(q) PROVE ChainOf(q) \in Chains \ {ChainOf(p)} /\ n \notin on[ChainOf(q)]
  <2>1. ChainOf(q) \in Chains /\ ChainOf(q) \in ChainPtrs
    BY <1>1, <1>2, KnownChain DEF HasChain
  <2>2. ChainOf(q) # ChainOf(p)
    BY <1>1, <1>2, ChainAlone
  <2> QED  BY <2>1, <2>2, GripsApart
<1>3. ASSUME Takes(q), h[q].idxoff = n PROVE FALSE
  <2>1. \A b \in ChainPtrs : n \notin on[b]
    BY <1>3 DEF Lists, Chained, Knows, Owns
  <2>2. ~Takes(p)
    BY <1>3 DEF Lists, Chained
  <2>3. n \in DOMAIN idx
    <3>1. HandleOK(h[q], pc[q], Len(idx), Len(dat)) /\ Len(idx) \in Nat /\ DOMAIN idx = 1 .. Len(idx)
      BY <1>1, Known DEF IInv, TypeOK, FilesOK
    <3> QED  BY <1>3, <3>1 DEF HandleOK, Offsets, Takes, AtIdx, Stopped
  <2>4. FREE \in ChainPtrs
    BY DEF ChainPtrs
  <2> QED  BY <1>1, <2>1, <2>2, <2>3, <2>4 DEF Grips
<1> QED  BY <1>2, <1>3

\* What p changes beside the records of X: pointers of its own chain, and of the free list
\* if it has that.
Reaches(p, X, on, on2, rk, rk2) ==
  /\ \A b \in ChainPtrs \ {ChainOf(p)} :
       (HasFree(p) /\ b = FREE) \/ (on2[b] = on[b] /\ rk2[b] = rk[b] /\ head'[b] = head[b])
  /\ \A m \in DOMAIN idx \ X :
       idx'[m].ptr = idx[m].ptr \/ m \in on[ChainOf(p)] \/ (HasFree(p) /\ m \in on[FREE])
  /\ HasFree(p) \/ \A m \in DOMAIN idx : idx[m].key # Blank => idx'[m].key = idx[m].key

\* The others go on knowing what they know.
LEMMA OthersKnow ==
  ASSUME NEW on, NEW rk, Lists(on, rk), NEW p \in Procs, HasChain(p), h[p].req.op # "fetch",
         NEW n, n = h[p].idxoff, NEW k, k = h[p].req.key, NEW X, X \subseteq {n}, X = {} \/ Grips(p, n, on),
         NEW on2, NEW rk2, Changes(p, X, k), Moved(X, on, on2), Reaches(p, X, on, on2, rk, rk2),
         NEW q \in Procs \ {p},
         pc[q] \in {"ridx", "adunlock", "ailock", "aiseek", "aiwrite"} =>
           dat'[h[q].datoff].val = dat[h[q].datoff].val
  PROVE  Knows(q, on2, rk2)'
<1>1. /\ TurnInv /\ IInv /\ ChainOf(p) \in Chains /\ Knows(q, on, rk) /\ Turn(q)
      /\ h'[q] = h[q] /\ pc'[q] = pc[q] /\ HandleOK(h[q], pc[q], Len(idx), Len(dat))
  BY KnownChain, Known DEF Lists, TurnInv, HasChain, Chained, Changes
<1>2. Control(h[q], pc[q])
  BY <1>1 DEF HandleOK
<1>3. /\ HasChain(q) => ChainOf(q) \in Chains \ {ChainOf(p)} /\ ChainOf(q) # FREE
      /\ HasChain(q) => \A m \in on[ChainOf(q)] : m \notin X
      /\ Takes(q) => h[q].idxoff \notin X
  <2>1. CASE Grips(p, n, on)
    BY <2>1, GripsAlone, LocksDistinct
  <2>2. CASE X = {}
    <3>1. HasChain(q) => ChainOf(q) \in Chains
      BY <1>1, KnownChain DEF HasChain
    <3>2. HasChain(q) => ChainOf(q) # ChainOf(p)
      BY <1>1, ChainAlone
    <3> QED  BY <2>2, <3>1, <3>2, LocksDistinct
  <2> QED  BY <2>1, <2>2
<1>4. HasFree(q) => ~HasFree(p)
  BY <1>1, FreeAlone
<1>5. HasChain(q) =>
           /\ on2[ChainOf(q)] = on[ChainOf(q)] /\ rk2[ChainOf(q)] = rk[ChainOf(q)]
           /\ head'[ChainOf(q)] = head[ChainOf(q)]
           /\ \A m \in on[ChainOf(q)] : idx'[m].key = idx[m].key
           /\ map'[h[q].req.key] = map[h[q].req.key]
  <2> SUFFICES ASSUME HasChain(q)
               PROVE  /\ on2[ChainOf(q)] = on[ChainOf(q)] /\ rk2[ChainOf(q)] = rk[ChainOf(q)]
                      /\ head'[ChainOf(q)] = head[ChainOf(q)]
                      /\ \A m \in on[ChainOf(q)] : idx'[m].key = idx[m].key
                      /\ map'[h[q].req.key] = map[h[q].req.key]
    OBVIOUS
  <2>1. ChainOf(q) \in ChainPtrs \ {ChainOf(p)} /\ ChainOf(q) # FREE
    BY <1>3 DEF ChainPtrs
  <2>2. /\ on2[ChainOf(q)] = on[ChainOf(q)] /\ rk2[ChainOf(q)] = rk[ChainOf(q)]
        /\ head'[ChainOf(q)] = head[ChainOf(q)]
    BY <2>1 DEF Reaches
  <2>3. ASSUME NEW m \in on[ChainOf(q)] PROVE idx'[m].key = idx[m].key
    <3>1. m \in DOMAIN idx /\ m \notin X
      BY <1>3, <2>1, OnList
    <3> QED  BY <3>1 DEF Changes
  <2>4. h[q].req.key \in Keys /\ h[q].req.key # k
    BY <1>1, <2>1, KnownChain DEF HasChain, ChainOf
  <2> QED  BY <2>2, <2>3, <2>4 DEF Changes
<1>6. HasFree(q) => on2[FREE] = on[FREE] /\ rk2[FREE] = rk[FREE] /\ head'[FREE] = head[FREE]
  BY <1>1, <1>4, LocksDistinct DEF Reaches, ChainPtrs
<1>7. pc[q] \in DeletePcs \/ Takes(q) =>
           /\ idx'[h[q].idxoff].key = idx[h[q].idxoff].key
           /\ idx'[h[q].idxoff].ptr = idx[h[q].idxoff].ptr
           /\ idx'[h[q].idxoff].datoff = idx[h[q].idxoff].datoff
           /\ dat'[idx[h[q].idxoff].datoff].val = dat[idx[h[q].idxoff].datoff].val
  <2> SUFFICES ASSUME pc[q] \in DeletePcs \/ Takes(q), NEW m, m = h[q].idxoff
               PROVE  /\ idx'[m].key = idx[m].key /\ idx'[m].ptr = idx[m].ptr
                      /\ idx'[m].datoff = idx[m].datoff
                      /\ dat'[idx[m].datoff].val = dat[idx[m].datoff].val
    OBVIOUS
  <2>1. CASE Takes(q)
    <3>1. m \in DOMAIN idx
      <4>1. Len(idx) \in Nat /\ DOMAIN idx = 1 .. Len(idx)
        BY <1>1 DEF IInv, TypeOK, FilesOK
      <4> QED  BY <1>1, <2>1, <4>1 DEF HandleOK, Offsets, Takes, AtIdx, Stopped
    <3>2. m \notin X /\ \A b \in ChainPtrs : m \notin on[b]
      BY <1>1, <1>3, <2>1 DEF Knows, Owns
    <3> QED  BY <1>1, <3>1, <3>2 DEF Changes, Reaches, ChainPtrs
  <2>2. CASE pc[q] \in DeletePcs
    <3>1. HasChain(q) /\ h[q].phase # "scan"
      BY <1>1, <2>2 DEF Turn, OpAt, HasChain, DeletePcs, Stopped
    <3>2. m \in on[ChainOf(q)]
      BY <1>1, <2>2, <3>1 DEF Knows, Found
    <3>3. ChainOf(q) \in ChainPtrs /\ ChainOf(q) \in Chains /\ ChainOf(q) # ChainOf(p) /\ ChainOf(q) # FREE
      BY <1>3, <3>1 DEF ChainPtrs
    <3>4. m \in DOMAIN idx \ X
      BY <1>3, <3>1, <3>2, <3>3, OnList
    <3>5. m \notin on[ChainOf(p)] /\ ~(HasFree(p) /\ m \in on[FREE])
      BY <3>2, <3>3, OffChain
    <3> QED  BY <3>4, <3>5 DEF Changes, Reaches
  <2> QED  BY <2>1, <2>2
<1>8. Scans(q) /\ pc[q] = "readdat" /\ idx[h[q].idxoff].key # Blank =>
           idx'[h[q].idxoff].key = idx[h[q].idxoff].key
  <2> SUFFICES ASSUME Scans(q), pc[q] = "readdat", idx[h[q].idxoff].key # Blank
               PROVE  idx'[h[q].idxoff].key = idx[h[q].idxoff].key
    OBVIOUS
  <2>1. ~HasFree(p)
    BY <1>1, FreeAlone
  <2>2. h[q].idxoff \in DOMAIN idx
    <3>1. Len(idx) \in Nat /\ DOMAIN idx = 1 .. Len(idx)
      BY <1>1 DEF IInv, TypeOK, FilesOK
    <3> QED  BY <1>1, <3>1 DEF HandleOK, Offsets, AtIdx, Stopped
  <2> QED  BY <2>1, <2>2 DEF Reaches
<1>9. Takes(q) => \A b \in ChainPtrs : h[q].idxoff \notin on2[b]
  <2> SUFFICES ASSUME Takes(q), NEW b \in ChainPtrs PROVE h[q].idxoff \notin on2[b]
    OBVIOUS
  <2>1. h[q].idxoff \notin X /\ h[q].idxoff \notin on[b]
    BY <1>1, <1>3 DEF Knows, Owns
  <2> QED  BY <2>1 DEF Moved
<1> QED  BY <1>1, <1>2, <1>5, <1>6, <1>7, <1>8, <1>9, KnowsKeeps

\* A step that writes keeps the lists, if what it writes is as it should be: n is the
\* record that p works on, k the key, c the chain.
LEMMA WriterKeeps ==
  ASSUME NEW on, NEW rk, Lists(on, rk), NEW p \in Procs, Steps(p), HasChain(p), h[p].req.op # "fetch",
         NEW n, n = h[p].idxoff, NEW k, k = h[p].req.key, NEW c, c = ChainOf(p),
         NEW X, X \subseteq {n}, X = {} \/ Grips(p, n, on),
         NEW on2, NEW rk2, Changes(p, X, k), Moved(X, on, on2), Reaches(p, X, on, on2, rk, rk2), Says(p, X),
         DOMAIN idx \subseteq DOMAIN idx', n \in X \cap DOMAIN idx => idx[n].key \in {k, Blank},
         map'[k] = map[k] \/ \A m \in on[c] \ X : idx[m].key # k,
         map'[k] # Blank => (\E m \in on2[c] : idx'[m].key = k) \/ (Away(p)' /\ h'[p].req.key = k),
         n \in on2[c] \cap X => /\ Current(c, n)' \/ Cuts(p, c, n)'
                                /\ \A m \in on2[c] \ {n} : idx'[m].key # idx'[n].key,
         n \in on2[FREE] \cap X => idx'[n].key = Blank /\ dat'[idx'[n].datoff].val = Blank,
         n \in DOMAIN idx' \cap X => /\ idx'[n].key # Blank => n \in on2[Hash[idx'[n].key]] \/ Leaves(p, n)'
                                     /\ (\E b \in ChainPtrs : n \in on2[b]) \/ (Takes(p)' /\ h'[p].idxoff = n),
         ListKept(p, c, on2, rk2), HasFree(p) => ListKept(p, FREE, on2, rk2),
         \A q \in Procs \ {p} : pc[q] \in {"ridx", "adunlock", "ailock", "aiseek", "aiwrite"} =>
           dat'[h[q].datoff].val = dat[h[q].datoff].val,
         Knows(p, on2, rk2)',
         Takes(p)' => \A q \in Procs \ {p} : Takes(q) => h[q].idxoff # h'[p].idxoff
  PROVE  Chained(on2, rk2)'
<1>1. /\ IInv /\ TurnInv /\ Chained(on, rk) /\ pc[p] \notin Stopped
      /\ c \in Chains /\ c \in ChainPtrs /\ FREE \in ChainPtrs /\ FREE # c /\ k \in Keys /\ Hash[k] = c
  BY Running, KnownChain DEF Lists, TurnInv, HasChain, ChainPtrs, ChainOf
<1>2. \A q \in Procs \ {p} : h'[q] = h[q] /\ pc'[q] = pc[q]
  BY DEF Changes
<1>3. \A b \in ChainPtrs : on[b] \subseteq DOMAIN idx
  BY <1>1 DEF Chained, Linked
<1>4. ASSUME NEW b \in Chains \ {c}
      PROVE  /\ b \in ChainPtrs /\ on2[b] = on[b] /\ rk2[b] = rk[b] /\ head'[b] = head[b]
             /\ \A m \in on[b] : m \notin X /\ idx'[m].ptr = idx[m].ptr
  <2>1. b \in ChainPtrs \ {c} /\ b # FREE
    BY <1>4, LocksDistinct DEF ChainPtrs
  <2>2. on2[b] = on[b] /\ rk2[b] = rk[b] /\ head'[b] = head[b]
    BY <2>1 DEF Reaches
  <2>3. ASSUME NEW m \in on[b] PROVE m \notin X /\ idx'[m].ptr = idx[m].ptr
    <3>1. m \notin X
      BY <2>3, GripsApart
    <3>2. m \in DOMAIN idx
      BY <1>3, <2>1
    <3>3. m \notin on[ChainOf(p)] /\ ~(HasFree(p) /\ m \in on[FREE])
      BY <2>3, OffChain
    <3> QED  BY <3>1, <3>2, <3>3 DEF Reaches
  <2> QED  BY <2>1, <2>2, <2>3
<1>5. OnChains(on2)'
  <2>1. \/ map'[k] = map[k]
        \/ \A d \in Chains : \A m \in on[d] \ X : idx[m].key # k
    <3> SUFFICES ASSUME \A m \in on[c] \ X : idx[m].key # k, NEW d \in Chains, NEW m \in on[d] \ X
                 PROVE  idx[m].key # k
      OBVIOUS
    <3> QED  BY <1>1, OnChain, BlankIsNoKey
  <2>2. ASSUME NEW d \in Chains, NEW m \in on2[d] \cap X
        PROVE  /\ (Current(d, m) \/ \E q \in Procs : Cuts(q, d, m))'
               /\ \A j \in on2[d] \ {m} : idx'[j].key # idx'[m].key
    <3>1. d = c /\ m = n
      BY <1>4
    <3> QED  BY <2>2, <3>1
  <2> QED  BY <1>1, <1>3, <2>1, <2>2, ChainsKeep DEF Chained
<1>6. InMap(on2)'
  <2>1. k \in Keys /\ map'[k] # Blank =>
           \/ \E m \in on2[Hash[k]] : idx'[m].key = k
           \/ \E q \in Procs : (Away(q) /\ h[q].req.key = k)'
    BY <1>1
  <2>2. \A m \in X : m \in DOMAIN idx => idx[m].key \in {k, Blank}
    OBVIOUS
  <2> QED  BY <1>1, <1>3, <2>1, <2>2, MapKeeps DEF Chained
<1>7. OnFree(on2)'
  <2>1. \A m \in on2[FREE] \cap X : idx'[m].key = Blank /\ dat'[idx'[m].datoff].val = Blank
    OBVIOUS
  <2> QED  BY <1>1, <1>3, <2>1, FreeKeeps DEF Chained
<1>8. Written(on2)'
  <2>1. \A m \in DOMAIN idx : idx[m].key \in Keys \cup {Blank}
    BY <1>1, KeysAre
  <2>2. \A m \in DOMAIN idx' \cap X : idx'[m].key # Blank =>
           m \in on2[Hash[idx'[m].key]] \/ \E q \in Procs : Leaves(q, m)'
    OBVIOUS
  <2> QED  BY <1>1, <2>1, <2>2, WrittenKeeps DEF Chained
<1>9. Kept(on2)'
  <2>1. \A m \in DOMAIN idx' \cap X :
           (\E b \in ChainPtrs : m \in on2[b]) \/ \E q \in Procs : (Takes(q) /\ h[q].idxoff = m)'
    OBVIOUS
  <2> QED  BY <1>1, <2>1, KeptKeeps DEF Chained
<1>10. Linked(on2, rk2)'
  <2>1. Linked(on, rk)
    BY <1>1 DEF Chained
  <2>2. ASSUME NEW b \in Chains \ {c} PROVE ListKept(p, b, on2, rk2)
    <3>1. \A m \in on[b] : ~Cuts(p, b, m)
      BY <2>2 DEF Cuts
    <3> QED  BY <1>2, <1>4, <2>1, <3>1, ListKeeps
  <2>3. ASSUME ~HasFree(p) PROVE ListKept(p, FREE, on2, rk2)
    <3>1. on2[FREE] = on[FREE] /\ rk2[FREE] = rk[FREE] /\ head'[FREE] = head[FREE]
      BY <1>1, <2>3 DEF Reaches
    <3>2. ASSUME NEW m \in on[FREE] PROVE idx'[m].ptr = idx[m].ptr /\ ~Cuts(p, FREE, m)
      <4>1. m \in DOMAIN idx
        BY <1>1, <1>3
      <4>2. m \notin on[c]
        <5> SUFFICES ASSUME m \in on[c] PROVE FALSE
          OBVIOUS
        <5>1. PICK q \in Procs : Cuts(q, c, m)
          BY <1>1, <3>2, OnOneList
        <5>2. HasFree(q) /\ HasChain(q) /\ ChainOf(q) = c
          BY <1>1, <5>1, CutsKnown
        <5>3. p = q
          BY <1>1, <5>2, ChainAlone
        <5> QED  BY <2>3, <5>2, <5>3
      <4>3. m \notin X
        <5> SUFFICES ASSUME m = n, Grips(p, n, on) PROVE FALSE
          OBVIOUS
        <5>1. Takes(p)
          BY <2>3, <4>1, <4>2 DEF Grips
        <5>2. n \notin on[FREE]
          BY <1>1, <5>1 DEF Chained, Knows, Owns
        <5> QED  BY <3>2, <5>2
      <4>4. ~Cuts(p, FREE, m)
        BY <1>1 DEF Cuts
      <4> QED  BY <2>3, <4>1, <4>2, <4>3, <4>4 DEF Reaches
    <3> QED  BY <1>1, <1>2, <2>1, <3>1, <3>2, ListKeeps
  <2>4. \A b \in ChainPtrs : ListKept(p, b, on2, rk2)
    BY <2>2, <2>3 DEF ChainPtrs
  <2> QED  BY <2>4, ListsKeep
<1>11. ASSUME NEW q \in Procs PROVE Knows(q, on2, rk2)'
  <2>1. CASE q = p
    BY <2>1
  <2>2. CASE q # p
    BY <2>2, OthersKnow
  <2> QED  BY <2>1, <2>2
<1>12. ASSUME NEW q \in Procs, NEW r \in Procs, Takes(q)', Takes(r)', h'[q].idxoff = h'[r].idxoff
       PROVE  q = r
  <2>1. ASSUME NEW s \in Procs \ {p}, Takes(s)' PROVE Takes(s) /\ h'[s].idxoff = h[s].idxoff
    BY <1>2, <2>1 DEF Takes
  <2>2. CASE q # p /\ r # p
    <3>1. Takes(q) /\ Takes(r) /\ h[q].idxoff = h[r].idxoff
      BY <1>12, <2>1, <2>2
    <3> QED  BY <1>1, <3>1 DEF Chained
  <2>3. CASE q = p \/ r = p
    BY <1>12, <2>1, <2>3
  <2> QED  BY <2>2, <2>3
<1> QED  BY <1>5, <1>6, <1>7, <1>8, <1>9, <1>10, <1>11, <1>12 DEF Chained

\* A write to the data file changes the data of the record that p works on, if it has one,
\* and of no other.
LEMMA DataWritten ==
  ASSUME NEW on, NEW rk, Lists(on, rk), NEW p \in Procs, pc[p] \in {"ddat", "odat", "rdat", "adwrite"},
         NEW v, NEW len, dat' = WriteAt(dat, h[p].datoff, DatRec(v, len)), h[p].phase # "scan"
  PROVE  /\ dat'[h[p].datoff].val = v
         /\ pc[p] # "adwrite" => h[p].idxoff \in DOMAIN idx /\ idx[h[p].idxoff].datoff = h[p].datoff
         /\ \A m \in DOMAIN idx : m # h[p].idxoff \/ pc[p] = "adwrite" =>
              dat'[idx[m].datoff].val = dat[idx[m].datoff].val
         /\ \A q \in Procs \ {p} : pc[q] \in {"ridx", "adunlock", "ailock", "aiseek", "aiwrite"} =>
              dat'[h[q].datoff].val = dat[h[q].datoff].val
<1> DEFINE d == h[p].datoff
           n == h[p].idxoff
<1>1. /\ IInv /\ FilesOK /\ DataInFile /\ DataUnshared /\ Len(idx) \in Nat /\ Len(dat) \in Nat
      /\ DOMAIN idx = 1 .. Len(idx) /\ DOMAIN dat = 1 .. Len(dat)
      /\ \A q \in Procs : HandleOK(h[q], pc[q], Len(idx), Len(dat)) /\ ReadStill(q) /\ DataIsNew(q)
      /\ \A q \in Procs : Knows(q, on, rk)
  BY Known DEF Lists, ApartInv, FitInv, Fitting, Chained, TurnInv, IInv, TypeOK, FilesOK
<1>2. /\ pc[p] # "adwrite" => d \in 1 .. Len(dat) /\ n \in DOMAIN idx /\ idx[n].datoff = d
      /\ pc[p] = "adwrite" => d = Len(dat) + 1
  <2>1. HandleOK(h[p], pc[p], Len(idx), Len(dat)) /\ ReadStill(p)
    BY <1>1
  <2>2. /\ pc[p] # "adwrite" => d \in 1 .. Len(dat) /\ n \in 1 .. Len(idx)
        /\ pc[p] = "adwrite" => d = Len(dat) + 1
    BY <1>1, <2>1 DEF HandleOK, DataOffset, Offsets, AtDat, AtIdx, Stopped
  <2>3. pc[p] # "adwrite" => idx[n].datoff = d
    BY <2>1 DEF ReadStill, HasRead, ReadPcs
  <2> QED  BY <1>1, <2>2, <2>3
<1>3. d \in 1 .. Len(dat) + 1
  BY <1>1, <1>2
<1>4. dat'[d].val = v /\ \A e \in DOMAIN dat \ {d} : dat'[e] = dat[e]
  BY <1>1, <1>3, DatAt
<1>5. ASSUME NEW m \in DOMAIN idx, m # n \/ pc[p] = "adwrite"
      PROVE  dat'[idx[m].datoff].val = dat[idx[m].datoff].val
  <2>1. idx[m].datoff \in 1 .. Len(dat)
    BY <1>1 DEF DataInFile
  <2>2. idx[m].datoff # d
    <3>1. CASE pc[p] = "adwrite"
      BY <1>1, <1>2, <2>1, <3>1
    <3>2. CASE pc[p] # "adwrite"
      BY <1>1, <1>2, <1>5, <3>2 DEF DataUnshared
    <3> QED  BY <3>1, <3>2
  <2> QED  BY <1>1, <1>4, <2>1, <2>2
<1>6. ASSUME NEW q \in Procs \ {p}, pc[q] \in {"ridx", "adunlock", "ailock", "aiseek", "aiwrite"}
      PROVE  dat'[h[q].datoff].val = dat[h[q].datoff].val
  <2>1. h[q].datoff \in 1 .. Len(dat)
    BY <1>1, <1>6 DEF HandleOK, DataOffset, AtDat
  <2>2. h[q].datoff # d
    <3>1. CASE pc[p] = "adwrite"
      BY <1>1, <1>2, <2>1, <3>1
    <3>2. CASE pc[p] # "adwrite" /\ pc[q] # "ridx"
      BY <1>1, <1>2, <1>6, <3>2 DEF DataIsNew, NewDataPcs
    <3>3. CASE pc[p] # "adwrite" /\ pc[q] = "ridx"
      <4> SUFFICES ASSUME h[q].datoff = d PROVE FALSE
        OBVIOUS
      <4>1. h[q].idxoff \in DOMAIN idx /\ idx[h[q].idxoff].datoff = d
        BY <1>1, <1>6, <3>3 DEF ReadStill, HasRead, ReadPcs, HandleOK, Offsets, AtIdx, Stopped
      <4>2. h[q].idxoff = n
        BY <1>1, <1>2, <3>3, <4>1 DEF DataUnshared
      <4>3. Takes(q) /\ \A b \in ChainPtrs : n \notin on[b]
        BY <1>1, <3>3, <4>2 DEF Knows, Owns, Takes
      <4>4. ~Takes(p)
        BY <1>6, <4>2, <4>3 DEF Lists, Chained
      <4>5. ChainOf(p) \in ChainPtrs
        BY <1>1, KnownChain DEF Stopped
      <4>6. n \in on[ChainOf(p)]
        <5>1. pc[p] \in {"ddat", "odat"}
          BY <3>3, <4>4 DEF Takes
        <5> QED  BY <1>1, <5>1 DEF Knows, Found, DeletePcs
      <4> QED  BY <4>3, <4>5, <4>6
    <3> QED  BY <3>1, <3>2, <3>3
  <2> QED  BY <1>1, <1>4, <2>1, <2>2
<1> QED  BY <1>2, <1>4, <1>5, <1>6

\* A write to the data file leaves the lists as they are.
LEMMA DataKeeps ==
  ASSUME NEW on, NEW rk, Lists(on, rk), NEW p \in Procs, UNCHANGED <<idx, head>>,
         \A q \in Procs \ {p} : h'[q] = h[q] /\ pc'[q] = pc[q], pc[p] \notin {"dhead", "dprev"}
  PROVE  /\ \A X : Moved(X, on, on) /\ Reaches(p, X, on, on, rk, rk)
         /\ \A b \in ChainPtrs : ListKept(p, b, on, rk)
<1>1. \A X : Moved(X, on, on) /\ Reaches(p, X, on, on, rk, rk)
  BY DEF Moved, Reaches
<1>2. ASSUME NEW b \in ChainPtrs PROVE ListKept(p, b, on, rk)
  <2>1. Linked(on, rk) /\ \A m : ~Cuts(p, b, m)
    BY DEF Lists, Chained, Cuts
  <2> QED  BY <2>1, ListKeeps
<1> QED  BY <1>1, <1>2

\* Overwriting the data of a record that is being deleted, or replaced in place.
LEMMA ChainsOldData ==
  ASSUME NEW on, NEW rk, Lists(on, rk), NEW p \in Procs, DeleteDat(p) \/ OverwriteDat(p)
  PROVE  Chained(on, rk)'
<1>1. /\ IInv /\ h[p] \in Handles /\ h \in [Procs -> Handles] /\ pc \in [Procs -> Labels]
      /\ Knows(p, on, rk) /\ pc[p] \in {"ddat", "odat"} /\ Turn(p) /\ Control(h[p], pc[p])
      /\ map \in [Keys -> Values \cup {Blank}]
  BY Known DEF Lists, TurnInv, Chained, DeleteDat, OverwriteDat, Goto, HandleOK, IInv, TypeOK, HistoryOK
<1>2. /\ Steps(p) /\ UNCHANGED <<idx, head>> /\ idx' = idx /\ h'[p].req = h[p].req
      /\ h'[p].phase = h[p].phase /\ h'[p].idxoff = h[p].idxoff
      /\ h[p].phase = "find" /\ h[p].req.op \in Replaces \cup {"delete"}
      /\ \E v, len : dat' = WriteAt(dat, h[p].datoff, DatRec(v, len))
      /\ pc[p] = "odat" => h[p].req.op \in Replaces
  BY <1>1 DEF Turn, OpAt, DeletePcs, Stopped, Steps, Step, DoDelete, Store, DeleteDat, OverwriteDat, Handles
<1>3. \A q \in Procs \ {p} : h'[q] = h[q] /\ pc'[q] = pc[q]
  BY <1>1, <1>2, Others
<1>4. PICK n, k, c : n = h[p].idxoff /\ k = h[p].req.key /\ c = ChainOf(p)
  OBVIOUS
<1>5. /\ HasChain(p) /\ h[p].req.op # "fetch" /\ k \in Keys /\ Hash[k] = c /\ c \in Chains /\ c \in ChainPtrs
      /\ ChainOf(p)' = c
  BY <1>1, <1>2, <1>4, KnownChain DEF HasChain, Stopped, Replaces, ChainOf
<1>6. n \in on[c] /\ map[k] # Blank /\ idx[n].key = k /\ (pc[p] = "ddat" => After(on[c], rk[c], n, h[p].ptrval))
  BY <1>1, <1>2, <1>4 DEF Knows, Found, DeletePcs
<1>7. \A m \in on[c] \ {n} : idx[m].key # k
  BY <1>5, <1>6 DEF Lists, Chained, OnChains
<1>8. n \notin on[FREE] /\ n \in DOMAIN idx
  BY <1>5, <1>6, BlankIsNoKey, OnList DEF Lists, Chained, OnFree
<1>9. Grips(p, n, on)
  BY <1>4, <1>6 DEF Grips
<1>10. /\ \A j \in Keys \ {k} : map'[j] = map[j]
       /\ pc[p] = "ddat" => pc'[p] = "dfree" /\ h' = h /\ map' = map
       /\ pc[p] = "odat" => pc'[p] = "unlock" /\ map'[k] = h[p].req.val /\ map'[k] # Blank
  <2>1. pc[p] = "odat" => h[p].req.val \in Values
    BY <1>1, <1>2 DEF Control, Requests, Stopped, Replaces, StoreOps
  <2> QED  BY <1>1, <1>4, <1>5, <2>1, BlankIsNoKey DEF DeleteDat, OverwriteDat, Goto
<1>11. /\ dat'[idx[n].datoff].val = IF pc[p] = "ddat" THEN Blank ELSE h[p].req.val
       /\ \A m \in DOMAIN idx \ {n} : dat'[idx[m].datoff].val = dat[idx[m].datoff].val
       /\ \A q \in Procs \ {p} : pc[q] \in {"ridx", "adunlock", "ailock", "aiseek", "aiwrite"} =>
              dat'[h[q].datoff].val = dat[h[q].datoff].val
  <2> DEFINE v == IF pc[p] = "ddat" THEN Blank ELSE h[p].req.val
  <2>1. \E len : dat' = WriteAt(dat, h[p].datoff, DatRec(v, len))
    BY <1>1 DEF DeleteDat, OverwriteDat, Goto
  <2> HIDE DEF v
  <2>2. /\ dat'[h[p].datoff].val = v
        /\ idx[h[p].idxoff].datoff = h[p].datoff
        /\ \A m \in DOMAIN idx : m # h[p].idxoff => dat'[idx[m].datoff].val = dat[idx[m].datoff].val
        /\ \A q \in Procs \ {p} : pc[q] \in {"ridx", "adunlock", "ailock", "aiseek", "aiwrite"} =>
              dat'[h[q].datoff].val = dat[h[q].datoff].val
    BY <1>1, <1>2, <2>1, DataWritten
  <2> QED  BY <1>4, <2>2 DEF v
<1>12. Changes(p, {n}, k)
  BY <1>2, <1>3, <1>10, <1>11 DEF Changes
<1>13. Says(p, {n})
  BY <1>1, <1>4 DEF Says, Cuts, Wipes, Leaves, Takes
<1>14. Moved({n}, on, on) /\ Reaches(p, {n}, on, on, rk, rk) /\ \A b \in ChainPtrs : ListKept(p, b, on, rk)
  BY <1>1, <1>2, <1>3, DataKeeps
<1>15. Current(c, n)'
  <2>1. pc[p] = "ddat" => Wipes(p, c, n)'
    BY <1>2, <1>4, <1>5, <1>10 DEF Wipes
  <2>2. map'[k] # Blank
    BY <1>1, <1>6, <1>10
  <2>3. pc[p] = "odat" => dat'[idx[n].datoff].val = map'[k]
    BY <1>10, <1>11
  <2> QED  BY <1>1, <1>2, <1>5, <1>6, <2>1, <2>2, <2>3 DEF Current
<1>16. Knows(p, on, rk)' /\ ~Takes(p)'
  <2>1. CASE pc[p] = "odat"
    BY <1>10, <2>1, NothingKnown
  <2>2. CASE pc[p] = "ddat"
    <3>1. Found(p, on, rk)'
      <4>1. Comes(on, rk, c, h[p].ptroff, n)
        BY <1>1, <1>2, <1>4, <2>2 DEF Knows, Found, DeletePcs
      <4>2. dat'[idx[n].datoff].val = Blank
        BY <1>11, <2>2
      <4> QED  BY <1>2, <1>4, <1>5, <1>6, <1>10, <2>2, <4>1, <4>2 DEF Found, DeletePcs
    <3>2. Walks(p, on, rk)' /\ Absent(p, on)' /\ Owns(p, on, rk)' /\ Sees(p)' /\ ~Takes(p)'
      BY <1>10, <2>2 DEF Walks, Absent, Owns, Sees, Takes, LatePcs, FreePcs
    <3> QED  BY <3>1, <3>2 DEF Knows
  <2> QED  BY <1>1, <2>1, <2>2
<1>17. map'[k] = map[k] \/ \A m \in on[c] \ {n} : idx[m].key # k
  BY <1>7
<1>18. ListKept(p, c, on, rk) /\ ListKept(p, FREE, on, rk)
  BY <1>5, <1>14 DEF ChainPtrs
<1> QED
  BY <1>2, <1>4, <1>5, <1>6, <1>7, <1>8, <1>9, <1>11, <1>12, <1>13, <1>14, <1>15, <1>16, <1>17, <1>18, WriterKeeps

\* Writing the data of a record that is not linked yet.
LEMMA ChainsNewData ==
  ASSUME NEW on, NEW rk, Lists(on, rk), NEW p \in Procs, ReuseDat(p) \/ AppendDat(p)
  PROVE  Chained(on, rk)'
<1>1. /\ IInv /\ h[p] \in Handles /\ h \in [Procs -> Handles] /\ pc \in [Procs -> Labels]
      /\ Knows(p, on, rk) /\ pc[p] \in {"rdat", "adwrite"} /\ Turn(p) /\ Control(h[p], pc[p])
  BY Known DEF Lists, TurnInv, Chained, ReuseDat, AppendDat, Goto, HandleOK
<1>2. /\ Steps(p) /\ UNCHANGED <<idx, head>> /\ idx' = idx /\ head' = head /\ map' = map /\ h'[p].req = h[p].req
      /\ h'[p].phase = h[p].phase /\ h'[p].idxoff = h[p].idxoff /\ h'[p].front = h[p].front
      /\ h'[p].datoff = h[p].datoff
      /\ pc[p] = "rdat" => pc'[p] = "ridx" /\ h[p].phase = "free"
      /\ pc[p] = "adwrite" => pc'[p] = "adunlock"
      /\ h[p].phase = "free" \/ h[p].req.op \in Replaces
      /\ h[p].phase = "free" => h[p].req.op \in {"insert", "store"}
  BY <1>1 DEF Turn, OpAt, LatePcs, FreePcs, Stopped, Steps, Step, AppendRec, Store, ReuseDat, AppendDat, Handles, Goto
<1>3. \A q \in Procs \ {p} : h'[q] = h[q] /\ pc'[q] = pc[q]
  BY <1>1, <1>2, Others
<1>4. PICK n, k, c : n = h[p].idxoff /\ k = h[p].req.key /\ c = ChainOf(p)
  OBVIOUS
<1>5. h[p].phase # "scan"
  BY <1>1, <1>2 DEF Control, Stopped, Replaces
<1>6. /\ HasChain(p) /\ h[p].req.op # "fetch" /\ k \in Keys /\ Hash[k] = c /\ c \in Chains /\ c \in ChainPtrs
      /\ ChainOf(p)' = c
  BY <1>1, <1>2, <1>4, <1>5, KnownChain DEF HasChain, Stopped, Replaces, ChainOf
<1>7. PICK X : X = IF pc[p] = "rdat" THEN {n} ELSE {}
  OBVIOUS
<1>8. pc[p] = "rdat" => Takes(p) /\ Takes(p)' /\ (\A b \in ChainPtrs : n \notin on[b]) /\ idx[n].key = Blank /\ n # 0
  <2>1. pc[p] = "rdat" => n # 0
    BY <1>1, <1>4, Known DEF HandleOK, Offsets, AtIdx, Stopped
  <2> QED  BY <1>1, <1>2, <1>4, <2>1 DEF Takes, Knows, Owns
<1>9. X \subseteq {n} /\ (X = {} \/ Grips(p, n, on)) /\ \A b \in ChainPtrs : on[b] \cap X = {}
  BY <1>7, <1>8 DEF Grips
<1>10. /\ dat'[h[p].datoff].val = h[p].req.val
       /\ \A m \in DOMAIN idx \ X : dat'[idx[m].datoff].val = dat[idx[m].datoff].val
       /\ \A q \in Procs \ {p} : pc[q] \in {"ridx", "adunlock", "ailock", "aiseek", "aiwrite"} =>
              dat'[h[q].datoff].val = dat[h[q].datoff].val
  <2>1. \E len : dat' = WriteAt(dat, h[p].datoff, DatRec(h[p].req.val, len))
    BY DEF ReuseDat, AppendDat
  <2>2. /\ dat'[h[p].datoff].val = h[p].req.val
        /\ \A m \in DOMAIN idx : m # h[p].idxoff \/ pc[p] = "adwrite" =>
              dat'[idx[m].datoff].val = dat[idx[m].datoff].val
        /\ \A q \in Procs \ {p} : pc[q] \in {"ridx", "adunlock", "ailock", "aiseek", "aiwrite"} =>
              dat'[h[q].datoff].val = dat[h[q].datoff].val
    BY <1>1, <1>5, <2>1, DataWritten
  <2> QED  BY <1>1, <1>4, <1>7, <2>2
<1>11. Changes(p, X, k)
  BY <1>2, <1>3, <1>10 DEF Changes
<1>12. Says(p, X)
  BY <1>1, <1>4, <1>7 DEF Says, Cuts, Wipes, Leaves, Takes
<1>13. Moved(X, on, on) /\ Reaches(p, X, on, on, rk, rk) /\ \A b \in ChainPtrs : ListKept(p, b, on, rk)
  BY <1>1, <1>2, <1>3, DataKeeps
<1>14. Absent(p, on) /\ Owns(p, on, rk)
  BY <1>1 DEF Knows
<1>15. Away(p)' = Away(p)
  BY <1>1, <1>2 DEF Away, LatePcs, FreePcs
<1>16. Absent(p, on)'
  BY <1>1, <1>2, <1>4, <1>6, <1>14, <1>15 DEF Absent, LatePcs, FreePcs
<1>17. Owns(p, on, rk)'
  BY <1>1, <1>2, <1>4, <1>8, <1>10, <1>14 DEF Owns, Takes
<1>18. Knows(p, on, rk)'
  <2>1. Walks(p, on, rk)' /\ Found(p, on, rk)' /\ Sees(p)'
    BY <1>1, <1>2 DEF Walks, Found, Sees, DeletePcs
  <2> QED  BY <1>16, <1>17, <2>1 DEF Knows
<1>19. map'[k] # Blank => Away(p)' /\ h'[p].req.key = k
  BY <1>1, <1>2, <1>4, <1>14, <1>15 DEF Absent, LatePcs, FreePcs
<1>20. Takes(p)' => \A q \in Procs \ {p} : Takes(q) => h[q].idxoff # h'[p].idxoff
  <2>1. Takes(p)' => Takes(p)
    BY <1>1, <1>2, <1>8 DEF Takes
  <2> QED  BY <1>2, <2>1 DEF Lists, Chained
<1>21. ListKept(p, c, on, rk) /\ ListKept(p, FREE, on, rk) /\ FREE \in ChainPtrs
  BY <1>6, <1>13 DEF ChainPtrs
<1>22. n \in X => pc[p] = "rdat"
  BY <1>7
<1> QED
  BY <1>2, <1>4, <1>6, <1>8, <1>9, <1>10, <1>11, <1>12, <1>13, <1>18, <1>19, <1>20, <1>21, <1>22, WriterKeeps

\* A write to the index file changes the record that p works on and no other.
LEMMA IdxWrittenAt ==
  ASSUME IInv, NEW p \in Procs, pc[p] \in {"didx", "ridx", "aiwrite"},
         NEW n, n = h[p].idxoff, NEW r, idx' = WriteAt(idx, n, r),
         \E key, klen, ptr : r = IdxRec(p, key, klen, ptr)
  PROVE  /\ n \in DOMAIN idx <=> pc[p] # "aiwrite"
         /\ OnlyIdx(n)
         /\ idx'[n].key = r.key /\ idx'[n].ptr = r.ptr /\ idx'[n].datoff = r.datoff
<1>1. FilesOK /\ Len(idx) \in Nat /\ DOMAIN idx = 1 .. Len(idx) /\ HandleOK(h[p], pc[p], Len(idx), Len(dat))
  BY Known DEF IInv, TypeOK, FilesOK
<1>2. /\ pc[p] # "aiwrite" => n \in 1 .. Len(idx)
      /\ pc[p] = "aiwrite" => n = Len(idx) + 1
  BY <1>1 DEF HandleOK, Offsets, AtIdx, Stopped
<1>3. n \in 1 .. Len(idx) + 1 /\ (n \in DOMAIN idx <=> pc[p] # "aiwrite")
  BY <1>1, <1>2
<1>4. /\ OnlyIdx(n)
      /\ idx'[n].key = r.key /\ idx'[n].ptr = r.ptr /\ idx'[n].datoff = r.datoff
  <2>1. PICK key, klen, ptr : r = IdxRec(p, key, klen, ptr)
    OBVIOUS
  <2>2. idx' = WriteAt(idx, n, IdxRec(p, key, klen, ptr))
    BY <2>1
  <2>3. /\ OnlyIdx(n)
        /\ idx'[n].key = key /\ idx'[n].ptr = ptr /\ idx'[n].datoff = h[p].datoff
    BY <1>1, <1>3, <2>2, IdxAt
  <2>4. r.key = key /\ r.ptr = ptr /\ r.datoff = h[p].datoff
    BY <2>1 DEF IdxRec
  <2> QED  BY <2>3, <2>4
<1> QED  BY <1>3, <1>4

\* The record becomes blank, and its pointer leads into the free list.
LEMMA ChainsOldIdx ==
  ASSUME NEW on, NEW rk, Lists(on, rk), NEW p \in Procs, DeleteIdx(p)
  PROVE  Chained(on, rk)'
<1>1. /\ IInv /\ h[p] \in Handles /\ h \in [Procs -> Handles] /\ pc \in [Procs -> Labels]
      /\ Knows(p, on, rk) /\ pc[p] = "didx" /\ Turn(p) /\ ReadStill(p)
  BY Known DEF Lists, TurnInv, Chained, DeleteIdx, Goto, ApartInv, FitInv, Fitting
<1>2. /\ Steps(p) /\ dat' = dat /\ head' = head /\ map' = map /\ h'[p].req = h[p].req /\ pc'[p] = "dhead"
      /\ h'[p].phase = h[p].phase /\ h'[p].idxoff = h[p].idxoff /\ h'[p].ptroff = h[p].ptroff
      /\ h'[p].saveptr = h[p].saveptr /\ h[p].phase = "find" /\ h[p].req.op \in Replaces \cup {"delete"}
  BY <1>1 DEF Turn, OpAt, DeletePcs, Stopped, Steps, Step, DoDelete, DeleteIdx, Handles, Goto
<1>3. \A q \in Procs \ {p} : h'[q] = h[q] /\ pc'[q] = pc[q]
  BY <1>1, <1>2, Others
<1>4. PICK n, k, c : n = h[p].idxoff /\ k = h[p].req.key /\ c = ChainOf(p)
  OBVIOUS
<1>5. /\ HasChain(p) /\ HasFree(p) /\ h[p].req.op # "fetch" /\ k \in Keys /\ Hash[k] = c /\ c \in Chains
      /\ c \in ChainPtrs /\ ChainOf(p)' = c
  BY <1>1, <1>2, <1>4, KnownChain DEF HasChain, HasFree, Stopped, Replaces, ChainOf
<1>6. /\ n \in on[c] /\ map[k] # Blank /\ idx[n].key = k /\ After(on[c], rk[c], n, h[p].saveptr)
      /\ Comes(on, rk, c, h[p].ptroff, n) /\ dat[idx[n].datoff].val = Blank /\ h[p].freeptr = head[FREE]
  BY <1>1, <1>2, <1>4 DEF Knows, Found, DeletePcs
<1>7. n \notin on[FREE] /\ n \in DOMAIN idx /\ FREE \in ChainPtrs
  BY <1>5, <1>6, BlankIsNoKey, OnList DEF Lists, Chained, OnFree, ChainPtrs
<1>8. idx[n].datoff = h[p].datoff
  BY <1>1, <1>4 DEF ReadStill, HasRead, ReadPcs
<1>9. /\ DOMAIN idx' = DOMAIN idx /\ \A m \in DOMAIN idx \ {n} : idx'[m] = idx[m]
      /\ idx'[n].key = Blank /\ idx'[n].ptr = head[FREE] /\ idx'[n].datoff = idx[n].datoff
  <2>1. PICK r : r = IdxRec(p, Blank, h[p].idxklen, h[p].freeptr)
    OBVIOUS
  <2>2. r.key = Blank /\ r.ptr = h[p].freeptr /\ r.datoff = h[p].datoff
    BY <2>1 DEF IdxRec
  <2>3. idx' = WriteAt(idx, n, r) /\ \E key, klen, ptr : r = IdxRec(p, key, klen, ptr)
    BY <1>4, <2>1 DEF DeleteIdx, IdxRec
  <2>4. /\ OnlyIdx(n)
        /\ idx'[n].key = r.key /\ idx'[n].ptr = r.ptr /\ idx'[n].datoff = r.datoff
    BY <1>1, <1>4, <2>3, IdxWrittenAt
  <2> QED  BY <1>6, <1>7, <1>8, <2>2, <2>4 DEF OnlyIdx
<1>10. Changes(p, {n}, k) /\ Moved({n}, on, on) /\ Grips(p, n, on)
  BY <1>2, <1>3, <1>4, <1>6, <1>9 DEF Changes, Moved, Grips
<1>11. Reaches(p, {n}, on, on, rk, rk)
  BY <1>2, <1>5, <1>9 DEF Reaches
<1>12. Says(p, {n})
  BY <1>1, <1>4 DEF Says, Cuts, Wipes, Leaves, Takes
<1>13. Cuts(p, c, n)'
  BY <1>2, <1>4, <1>5 DEF Cuts
<1>14. \A m \in on[c] \ {n} : idx'[m].key # Blank
  <2> SUFFICES ASSUME NEW m \in on[c] \ {n}, idx[m].key = Blank PROVE FALSE
    BY <1>5, <1>9, OnList
  <2>1. PICK q \in Procs : Cuts(q, c, m)
    BY <1>5, OnChain, BlankIsNoKey
  <2>2. HasChain(q) /\ ChainOf(q) = c
    BY <1>5, <2>1, CutsKnown
  <2>3. p = q
    BY <1>4, <1>5, <2>2, ChainAlone DEF Lists
  <2> QED  BY <1>1, <2>1, <2>3 DEF Cuts
<1>15. ASSUME NEW b \in ChainPtrs PROVE ListKept(p, b, on, rk)
  <2>1. Linked(on, rk) /\ (\A m : ~Cuts(p, b, m)) /\ head'[b] = head[b]
    BY <1>1, <1>2 DEF Lists, Chained, Cuts
  <2>2. ASSUME NEW m \in on[b] PROVE idx'[m].ptr = idx[m].ptr \/ Cuts(p, b, m)'
    <3>1. CASE m # n
      <4>1. m \in DOMAIN idx
        BY OnList
      <4> QED  BY <1>9, <3>1, <4>1
    <3>2. CASE m = n /\ b = c
      BY <1>13, <3>2
    <3>3. CASE m = n /\ b # c
      BY <1>5, <1>6, <1>7, <2>2, <3>3, OnOneList
    <3> QED  BY <3>1, <3>2, <3>3
  <2> QED  BY <1>3, <1>9, <2>1, <2>2, ListKeeps
<1>16. Knows(p, on, rk)' /\ ~Takes(p)'
  <2>0. \A m \in on[c] : idx'[m].key # k
    <3> SUFFICES ASSUME NEW m \in on[c] \ {n} PROVE idx[m].key # k
      BY <1>5, <1>9, BlankIsNoKey, OnList
    <3> QED  BY <1>5, <1>6 DEF Lists, Chained, OnChains
  <2>1. Found(p, on, rk)'
    BY <1>1, <1>2, <1>4, <1>5, <1>6, <1>7, <1>9, <2>0 DEF Found, DeletePcs
  <2>2. Walks(p, on, rk)' /\ Absent(p, on)' /\ Owns(p, on, rk)' /\ Sees(p)' /\ ~Takes(p)'
    BY <1>2 DEF Walks, Absent, Owns, Sees, Takes, LatePcs, FreePcs
  <2> QED  BY <2>1, <2>2 DEF Knows
<1>17. Away(p)' /\ h'[p].req.key = k
  BY <1>2, <1>4 DEF Away
<1>18. \A q \in Procs \ {p} : pc[q] \in {"ridx", "adunlock", "ailock", "aiseek", "aiwrite"} =>
              dat'[h[q].datoff].val = dat[h[q].datoff].val
  BY <1>2
<1>19. DOMAIN idx \subseteq DOMAIN idx' /\ map'[k] = map[k]
  BY <1>2, <1>9
<1> QED
  BY <1>2, <1>4, <1>5, <1>6, <1>7, <1>9, <1>10, <1>11, <1>12, <1>13, <1>14, <1>15, <1>16, <1>17, <1>18, <1>19,
     WriterKeeps

\* The new record is written, reused or appended; it is not linked yet.
LEMMA ChainsNewIdx ==
  ASSUME NEW on, NEW rk, Lists(on, rk), NEW p \in Procs, ReuseIdx(p) \/ AppendIdx(p)
  PROVE  Chained(on, rk)'
<1>1. /\ IInv /\ h[p] \in Handles /\ h \in [Procs -> Handles] /\ pc \in [Procs -> Labels]
      /\ Knows(p, on, rk) /\ pc[p] \in {"ridx", "aiwrite"} /\ Turn(p) /\ Control(h[p], pc[p])
  BY Known DEF Lists, TurnInv, Chained, ReuseIdx, AppendIdx, Goto, HandleOK
<1>2. /\ Steps(p) /\ dat' = dat /\ head' = head /\ map' = map /\ h'[p].req = h[p].req
      /\ h'[p].phase = h[p].phase /\ h'[p].idxoff = h[p].idxoff /\ h'[p].front = h[p].front
      /\ h'[p].rc = h[p].rc /\ h[p].rc.st = "pending"
      /\ pc[p] = "ridx" => pc'[p] = "link"
      /\ pc[p] = "aiwrite" => pc'[p] = "aiunlock"
      /\ h[p].phase = "free" \/ h[p].req.op \in Replaces
      /\ h[p].phase = "free" => h[p].req.op \in {"insert", "store"}
  BY <1>1 DEF Turn, OpAt, Answered, LatePcs, FreePcs, Stopped, Steps, Step, AppendRec, Store, ReuseIdx, AppendIdx, Handles, Goto
<1>3. \A q \in Procs \ {p} : h'[q] = h[q] /\ pc'[q] = pc[q]
  BY <1>1, <1>2, Others
<1>4. PICK n, k, c : n = h[p].idxoff /\ k = h[p].req.key /\ c = ChainOf(p)
  OBVIOUS
<1>5. h[p].phase # "scan" /\ h[p].req.op \in StoreOps
  BY <1>1, <1>2 DEF Control, Stopped, Replaces, StoreOps
<1>6. /\ HasChain(p) /\ h[p].req.op # "fetch" /\ k \in Keys /\ Hash[k] = c /\ c \in Chains /\ c \in ChainPtrs
      /\ ChainOf(p)' = c /\ FREE \in ChainPtrs
  BY <1>1, <1>2, <1>4, <1>5, KnownChain DEF HasChain, Stopped, StoreOps, ChainOf, ChainPtrs
<1>7. Absent(p, on) /\ Owns(p, on, rk)
  BY <1>1 DEF Knows
<1>8. /\ n \in DOMAIN idx <=> pc[p] = "ridx"
      /\ DOMAIN idx' = DOMAIN idx \cup {n} /\ \A m \in DOMAIN idx \ {n} : idx'[m] = idx[m]
      /\ idx'[n].key = k /\ idx'[n].ptr = h[p].front /\ idx'[n].datoff = h[p].datoff
  <2>1. PICK r, ptr : r = IdxRec(p, h[p].req.key, KeyLen[h[p].req.key], ptr) /\ ptr = h[p].front
    OBVIOUS
  <2>2. r.key = k /\ r.ptr = h[p].front /\ r.datoff = h[p].datoff
    BY <1>4, <2>1 DEF IdxRec
  <2>3. idx' = WriteAt(idx, n, r) /\ \E key, klen, x : r = IdxRec(p, key, klen, x)
    <3>1. pc[p] = "aiwrite" => h[p].ptrval = h[p].front
      BY <1>7 DEF Owns
    <3>2. /\ pc[p] = "ridx" => idx' = WriteAt(idx, h[p].idxoff, IdxRec(p, h[p].req.key, KeyLen[h[p].req.key], h[p].front))
          /\ pc[p] = "aiwrite" => idx' = WriteAt(idx, h[p].idxoff, IdxRec(p, h[p].req.key, KeyLen[h[p].req.key], h[p].ptrval))
      BY DEF ReuseIdx, AppendIdx, Goto
    <3>3. idx' = WriteAt(idx, n, r)
      BY <1>1, <1>4, <2>1, <3>1, <3>2 DEF IdxRec
    <3> QED  BY <2>1, <3>3 DEF IdxRec
  <2>4. /\ n \in DOMAIN idx <=> pc[p] # "aiwrite"
        /\ OnlyIdx(n)
        /\ idx'[n].key = r.key /\ idx'[n].ptr = r.ptr /\ idx'[n].datoff = r.datoff
    BY <1>1, <1>4, <2>3, IdxWrittenAt
  <2> QED  BY <1>1, <2>2, <2>4 DEF OnlyIdx
<1>9. \A b \in ChainPtrs : n \notin on[b]
  <2>1. CASE pc[p] = "ridx"
    BY <1>4, <1>7, <2>1 DEF Owns, Takes
  <2>2. CASE pc[p] = "aiwrite"
    BY <1>8, <2>2, OnList
  <2> QED  BY <1>1, <2>1, <2>2
<1>10. Grips(p, n, on) /\ (n \in DOMAIN idx => idx[n].key = Blank)
  <2>1. pc[p] = "ridx" => Takes(p)
    BY DEF Takes
  <2>2. pc[p] = "ridx" => n # 0
    BY <1>1, <1>4, Known DEF HandleOK, Offsets, AtIdx, Stopped
  <2>3. n \in DOMAIN idx => idx[n].key = Blank
    BY <1>4, <1>7, <1>8, <2>2 DEF Owns
  <2> QED  BY <1>8, <2>1, <2>3 DEF Grips
<1>11. Changes(p, {n}, k) /\ Moved({n}, on, on)
  BY <1>2, <1>3, <1>8 DEF Changes, Moved
<1>12. Reaches(p, {n}, on, on, rk, rk)
  BY <1>2, <1>8, <1>10 DEF Reaches
<1>13. Says(p, {n})
  BY <1>1, <1>4 DEF Says, Cuts, Wipes, Leaves, Takes
<1>14. ASSUME NEW b \in ChainPtrs PROVE ListKept(p, b, on, rk)
  <2>1. Linked(on, rk) /\ (\A m : ~Cuts(p, b, m)) /\ head'[b] = head[b]
    BY <1>1, <1>2 DEF Lists, Chained, Cuts
  <2>2. \A m \in on[b] : idx'[m].ptr = idx[m].ptr
    BY <1>8, <1>9, OnList
  <2> QED  BY <1>3, <1>8, <2>1, <2>2, ListKeeps
<1>15. Leaves(p, n)' /\ Takes(p)'
  <2>1. dat[h[p].datoff].val = h[p].req.val
    BY <1>1, <1>7 DEF Owns
  <2> QED  BY <1>1, <1>2, <1>4, <1>5, <1>8, <2>1 DEF Leaves, Takes
<1>16. Away(p)' = Away(p)
  BY <1>1, <1>2 DEF Away, LatePcs, FreePcs
<1>17. Knows(p, on, rk)'
  <2>1. Absent(p, on)'
    <3>1. \A m \in on[c] : idx'[m].key = idx[m].key
      BY <1>6, <1>8, <1>9, OnList
    <3> QED  BY <1>1, <1>2, <1>4, <1>6, <1>7, <1>16, <3>1 DEF Absent, LatePcs, FreePcs
  <2>2. Owns(p, on, rk)'
    BY <1>1, <1>2, <1>4, <1>8, <1>9, <1>15 DEF Owns
  <2>3. Walks(p, on, rk)' /\ Found(p, on, rk)' /\ Sees(p)'
    BY <1>1, <1>2 DEF Walks, Found, Sees, DeletePcs
  <2> QED  BY <2>1, <2>2, <2>3 DEF Knows
<1>18. map'[k] # Blank => Away(p)' /\ h'[p].req.key = k
  BY <1>1, <1>2, <1>4, <1>7, <1>16 DEF Absent, LatePcs, FreePcs
<1>19. \A q \in Procs \ {p} : Takes(q) => h[q].idxoff # h'[p].idxoff
  BY <1>2, <1>4, <1>6, <1>10, GripsAlone
<1>20. \A q \in Procs \ {p} : pc[q] \in {"ridx", "adunlock", "ailock", "aiseek", "aiwrite"} =>
              dat'[h[q].datoff].val = dat[h[q].datoff].val
  BY <1>2
<1>21. /\ n \notin on[c] /\ n \notin on[FREE] /\ ListKept(p, c, on, rk) /\ ListKept(p, FREE, on, rk)
       /\ Takes(p)' /\ h'[p].idxoff = n /\ Leaves(p, n)' /\ DOMAIN idx \subseteq DOMAIN idx' /\ map'[k] = map[k]
  BY <1>2, <1>4, <1>6, <1>8, <1>9, <1>14, <1>15
<1> QED
  BY <1>2, <1>4, <1>6, <1>10, <1>11, <1>12, <1>13, <1>17, <1>18, <1>19, <1>20, <1>21, WriterKeeps

\* _db_writeptr takes record n off list b, ...
LEMMA ListShrinks ==
  ASSUME NEW on, NEW rk, Lists(on, rk), NEW p \in Procs, NEW b \in ChainPtrs, NEW n \in on[b],
         NEW loc, Comes(on, rk, b, loc, n), NEW x \in Nat, After(on[b], rk[b], n, x), WritePtr(loc, x),
         \A m \in on[b] \ {n} : \A q \in Procs : ~Cuts(q, b, m),
         NEW on2, NEW rk2, on2[b] = on[b] \ {n}, rk2[b] = rk[b]
  PROVE  /\ ListKept(p, b, on2, rk2) /\ (loc = b \/ loc \in on[b] \ {n})
         /\ loc \in ChainPtrs \cup DOMAIN idx
<1>1. /\ IInv /\ FilesOK /\ Ghosts(on, rk) /\ Linked(on, rk) /\ head[b] \in Nat
  BY Known DEF Lists, Chained, TurnInv, IInv, TypeOK, FilesOK
<1>2. PICK S, R : S = on[b] /\ R = rk[b]
  OBVIOUS
<1>3. /\ S \in SUBSET Nat /\ R \in [Nat -> Nat] /\ Ranked(S, R) /\ First(S, R, head[b]) /\ n \in S
      /\ S \subseteq DOMAIN idx /\ 0 \notin S /\ After(S, R, n, x)
      /\ \A m \in S \ {n} : After(S, R, m, idx[m].ptr)
  <2>1. 0 \notin S
    BY <1>2, OnList
  <2> QED  BY <1>1, <1>2, <2>1 DEF Ghosts, Linked
<1>4. PICK T : T = S \ {n}
  OBVIOUS
<1>5. /\ Ranked(T, R)
      /\ First(S, R, n) => First(T, R, x) /\ \A m \in T : \A y : After(S, R, m, y) => y # n
      /\ \A o \in S : After(S, R, o, n) =>
           /\ o \in T /\ After(T, R, o, x) /\ \A a : First(S, R, a) => First(T, R, a)
           /\ \A m \in T : After(S, R, m, n) => m = o
      /\ \A m \in T : \A y : y # n /\ After(S, R, m, y) => After(T, R, m, y)
  BY <1>3, <1>4, RemoveKeeps
<1>6. (loc = b /\ First(S, R, n)) \/ (loc \in S /\ After(S, R, loc, n))
  BY <1>2 DEF Comes
<1>7. loc = b \/ loc \in T
  BY <1>5, <1>6
<1>8. loc \in ChainPtrs \cup DOMAIN idx
  BY <1>3, <1>4, <1>7
<1>9. /\ DOMAIN idx' = DOMAIN idx
      /\ \A m \in DOMAIN idx : idx'[m].ptr = IF m = loc THEN x ELSE idx[m].ptr
      /\ \A a \in ChainPtrs : head'[a] = IF a = loc THEN x ELSE head[a]
  BY <1>1, <1>8, PtrAt
<1>10. b \notin Nat /\ b \notin DOMAIN idx /\ \A m \in DOMAIN idx : m \in Nat
  BY <1>1, LocksDistinct, SlotsAre DEF Locks
<1>11. First(T, R, head'[b])
  <2>1. CASE loc = b
    <3>1. First(S, R, n)
      BY <1>3, <1>6, <1>10, <2>1
    <3> QED  BY <1>5, <1>9, <2>1, <3>1
  <2>2. CASE loc # b
    <3>1. loc \in S /\ After(S, R, loc, n)
      BY <1>6, <2>2
    <3>2. head'[b] = head[b]
      BY <1>9, <2>2
    <3> QED  BY <1>3, <1>5, <3>1, <3>2
  <2> QED  BY <2>1, <2>2
<1>12. ASSUME NEW m \in T PROVE After(T, R, m, idx'[m].ptr)
  <2>1. m \in S \ {n} /\ m \in DOMAIN idx /\ m # b
    BY <1>3, <1>4, <1>10
  <2>2. PICK y : y = idx[m].ptr
    OBVIOUS
  <2>3. After(S, R, m, y)
    BY <1>3, <2>1, <2>2
  <2>4. CASE m = loc
    <3>1. After(T, R, m, x)
      BY <1>3, <1>5, <1>6, <1>10, <2>1, <2>4
    <3> QED  BY <1>9, <2>1, <2>4, <3>1
  <2>5. CASE m # loc
    <3>1. idx'[m].ptr = y
      BY <1>9, <2>1, <2>2, <2>5
    <3>2. y # n
      BY <1>5, <1>6, <2>3, <2>5
    <3>3. After(T, R, m, y)
      BY <1>5, <2>3, <3>2
    <3> QED  BY <3>1, <3>3
  <2> QED  BY <2>4, <2>5
<1>13. ListKept(p, b, on2, rk2)
  <2>1. on2[b] = T /\ rk2[b] = R
    BY <1>2, <1>4
  <2> QED  BY <1>3, <1>4, <1>5, <1>9, <1>11, <1>12, <2>1 DEF ListKept
<1> QED  BY <1>2, <1>4, <1>7, <1>8, <1>13

\* ... or puts it in front.
LEMMA ListGrows ==
  ASSUME NEW on, NEW rk, Lists(on, rk), NEW p \in Procs, NEW b \in ChainPtrs, NEW n \in DOMAIN idx,
         n \notin on[b], idx[n].ptr = head[b], WritePtr(b, n),
         \A m \in on[b] : \A q \in Procs : ~Cuts(q, b, m),
         NEW on2, NEW rk2, on2[b] = on[b] \cup {n}, rk2[b] = Pushed(rk[b], head[b], n)
  PROVE  ListKept(p, b, on2, rk2) /\ rk2[b] \in [Nat -> Nat]
<1>1. /\ IInv /\ FilesOK /\ Ghosts(on, rk) /\ Linked(on, rk) /\ head[b] \in Nat
      /\ n \in Nat \ {0} /\ \A m \in DOMAIN idx : m \in Nat /\ idx[m].ptr \in Nat
  BY Known, SlotsAre DEF Lists, Chained, TurnInv, IInv, TypeOK, FilesOK
<1>2. PICK S, R, a : S = on[b] /\ R = rk[b] /\ a = head[b]
  OBVIOUS
<1>3. /\ S \in SUBSET Nat /\ R \in [Nat -> Nat] /\ Ranked(S, R) /\ First(S, R, a) /\ n \notin S /\ a \in Nat
      /\ S \subseteq DOMAIN idx /\ \A m \in S : After(S, R, m, idx[m].ptr)
  BY <1>1, <1>2 DEF Ghosts, Linked
<1>4. PICK T, Q : T = S \cup {n} /\ Q = Pushed(R, a, n)
  OBVIOUS
<1>5. /\ Q \in [Nat -> Nat] /\ Ranked(T, Q) /\ First(T, Q, n) /\ After(T, Q, n, a)
      /\ \A m \in S, x \in Nat : After(S, R, m, x) => After(T, Q, m, x)
  BY <1>1, <1>3, <1>4, PushKeeps
<1>6. /\ DOMAIN idx' = DOMAIN idx /\ (\A m \in DOMAIN idx : idx'[m].ptr = idx[m].ptr) /\ head'[b] = n
  <2>1. idx' = idx /\ head' = [head EXCEPT ![b] = n]
    BY DEF WritePtr
  <2>2. head \in [ChainPtrs -> 0 .. Len(idx)]
    BY <1>1 DEF FilesOK
  <2> QED  BY <2>1, <2>2
<1>7. ASSUME NEW m \in T PROVE After(T, Q, m, idx'[m].ptr)
  <2>1. CASE m = n
    BY <1>2, <1>5, <1>6, <2>1
  <2>2. CASE m # n
    <3>1. m \in S /\ m \in DOMAIN idx
      BY <1>3, <1>4, <2>2
    <3>2. PICK x \in Nat : x = idx[m].ptr
      BY <1>1, <3>1
    <3>3. After(T, Q, m, x)
      BY <1>3, <1>5, <3>1, <3>2
    <3> QED  BY <1>6, <3>1, <3>2, <3>3
  <2> QED  BY <2>1, <2>2
<1>8. on2[b] = T /\ rk2[b] = Q
  BY <1>2, <1>4
<1> QED  BY <1>3, <1>4, <1>5, <1>6, <1>7, <1>8 DEF ListKept

\* The deleted record goes onto the free list.
LEMMA ChainsToFree ==
  ASSUME NEW on, NEW rk, Lists(on, rk), NEW p \in Procs, DeleteHead(p)
  PROVE  ChainsInv'
<1>1. /\ IInv /\ h[p] \in Handles /\ h \in [Procs -> Handles] /\ pc \in [Procs -> Labels]
      /\ Knows(p, on, rk) /\ pc[p] = "dhead" /\ Turn(p) /\ Ghosts(on, rk)
  BY Known DEF Lists, TurnInv, Chained, DeleteHead, Goto
<1>2. /\ Steps(p) /\ map' = map /\ h'[p].req = h[p].req /\ pc'[p] = "dprev"
      /\ h'[p].phase = h[p].phase /\ h'[p].idxoff = h[p].idxoff /\ h'[p].ptroff = h[p].ptroff
      /\ h'[p].saveptr = h[p].saveptr /\ h[p].phase = "find" /\ h[p].req.op \in Replaces \cup {"delete"}
  BY <1>1 DEF Turn, OpAt, DeletePcs, Stopped, Steps, Step, DoDelete, DeleteHead, Handles, Goto
<1>3. \A q \in Procs \ {p} : h'[q] = h[q] /\ pc'[q] = pc[q]
  BY <1>1, <1>2, Others
<1>4. PICK n, k, c : n = h[p].idxoff /\ k = h[p].req.key /\ c = ChainOf(p)
  OBVIOUS
<1>5. /\ HasChain(p) /\ HasFree(p) /\ h[p].req.op # "fetch" /\ k \in Keys /\ Hash[k] = c /\ c \in Chains
      /\ c \in ChainPtrs /\ ChainOf(p)' = c /\ FREE \in ChainPtrs /\ FREE # c /\ FREE \notin Chains
  BY <1>1, <1>2, <1>4, KnownChain, LocksDistinct DEF HasChain, HasFree, Stopped, Replaces, ChainOf, ChainPtrs
<1>6. /\ n \in on[c] /\ map[k] # Blank /\ idx[n].key = Blank /\ After(on[c], rk[c], n, h[p].saveptr)
      /\ Comes(on, rk, c, h[p].ptroff, n) /\ dat[idx[n].datoff].val = Blank
      /\ n \notin on[FREE] /\ idx[n].ptr = head[FREE] /\ \A m \in on[c] : idx[m].key # k
  BY <1>1, <1>2, <1>4 DEF Knows, Found, DeletePcs
<1>7. n \in DOMAIN idx /\ \A b \in ChainPtrs : \A m \in on[b] : m \in DOMAIN idx
  BY <1>5, <1>6, OnList
<1>8. /\ idx' = idx /\ dat' = dat /\ WritePtr(FREE, n)
      /\ \A b \in ChainPtrs \ {FREE} : head'[b] = head[b]
  <2>1. WritePtr(FREE, n)
    BY <1>4 DEF DeleteHead
  <2>2. idx' = idx /\ dat' = dat /\ head' = [head EXCEPT ![FREE] = n]
    BY <1>5, <2>1 DEF WritePtr
  <2>3. head \in [ChainPtrs -> 0 .. Len(idx)]
    BY <1>1, Known
  <2> QED  BY <2>1, <2>2, <2>3
<1>9. PICK on2, rk2 : /\ on2 = [on EXCEPT ![FREE] = @ \cup {n}]
                      /\ rk2 = [rk EXCEPT ![FREE] = Pushed(rk[FREE], head[FREE], n)]
  OBVIOUS
<1>10. /\ on2[FREE] = on[FREE] \cup {n} /\ rk2[FREE] = Pushed(rk[FREE], head[FREE], n)
       /\ \A b \in ChainPtrs \ {FREE} : on2[b] = on[b] /\ rk2[b] = rk[b]
       /\ on2[c] = on[c] /\ rk2[c] = rk[c]
  BY <1>1, <1>5, <1>9 DEF Ghosts
<1>11. ListKept(p, FREE, on2, rk2) /\ rk2[FREE] \in [Nat -> Nat]
  <2>1. \A m \in on[FREE] : \A q \in Procs : ~Cuts(q, FREE, m)
    BY <1>5, CutsKnown
  <2>2. FREE \in ChainPtrs /\ n \in DOMAIN idx /\ n \notin on[FREE] /\ idx[n].ptr = head[FREE] /\ WritePtr(FREE, n)
    BY <1>5, <1>6, <1>7, <1>8
  <2>3. on2[FREE] = on[FREE] \cup {n} /\ rk2[FREE] = Pushed(rk[FREE], head[FREE], n)
    BY <1>10
  <2> QED  BY <2>1, <2>2, <2>3, ListGrows
<1>12. Ghosts(on2, rk2)
  <2>1. n \in Nat
    BY <1>5, <1>6, OnList
  <2>2. on2[FREE] \in SUBSET Nat
    BY <1>1, <1>5, <1>10, <2>1 DEF Ghosts
  <2>3. on2 = [on EXCEPT ![FREE] = on2[FREE]] /\ rk2 = [rk EXCEPT ![FREE] = rk2[FREE]]
    BY <1>1, <1>5, <1>9 DEF Ghosts
  <2> QED  BY <1>1, <1>5, <1>11, <2>2, <2>3 DEF Ghosts
<1>13. Changes(p, {n}, k) /\ Moved({n}, on, on2) /\ Grips(p, n, on)
  <2>1. Moved({n}, on, on2)
    BY <1>10 DEF Moved
  <2> QED  BY <1>2, <1>3, <1>4, <1>6, <1>8, <2>1 DEF Changes, Grips
<1>14. Reaches(p, {n}, on, on2, rk, rk2)
  BY <1>5, <1>8, <1>10 DEF Reaches
<1>15. Says(p, {n})
  BY <1>1, <1>4 DEF Says, Cuts, Wipes, Leaves, Takes
<1>16. Cuts(p, c, n)'
  BY <1>2, <1>4, <1>5 DEF Cuts
<1>17. \A m \in on[c] \ {n} : idx[m].key # Blank
  <2> SUFFICES ASSUME NEW m \in on[c] \ {n}, idx[m].key = Blank PROVE FALSE
    OBVIOUS
  <2>1. PICK q \in Procs : Cuts(q, c, m)
    BY <1>5, OnChain, BlankIsNoKey
  <2>2. HasChain(q) /\ ChainOf(q) = c
    BY <1>5, <2>1, CutsKnown
  <2>3. p = q
    BY <1>4, <1>5, <2>2, ChainAlone DEF Lists
  <2> QED  BY <1>4, <2>1, <2>3 DEF Cuts
<1>18. ListKept(p, c, on2, rk2)
  <2>1. Linked(on, rk) /\ head'[c] = head[c] /\ DOMAIN idx \subseteq DOMAIN idx'
    BY <1>5, <1>8 DEF Lists, Chained
  <2>2. \A m \in on[c] : idx'[m].ptr = idx[m].ptr /\ (Cuts(p, c, m) => Cuts(p, c, m)')
    BY <1>4, <1>8, <1>16 DEF Cuts
  <2> QED  BY <1>3, <1>5, <1>10, <2>1, <2>2, ListKeeps
<1>19. Knows(p, on2, rk2)' /\ ~Takes(p)'
  <2>1. n \in on2[FREE]
    BY <1>10
  <2>2. Found(p, on2, rk2)'
    <3>1. Comes(on2, rk2, c, h[p].ptroff, n)
      BY <1>6, <1>10 DEF Comes
    <3> QED  BY <1>2, <1>4, <1>5, <1>6, <1>8, <1>10, <2>1, <3>1 DEF Found, DeletePcs
  <2>3. Walks(p, on2, rk2)' /\ Absent(p, on2)' /\ Owns(p, on2, rk2)' /\ Sees(p)' /\ ~Takes(p)'
    BY <1>2 DEF Walks, Absent, Owns, Sees, Takes, LatePcs, FreePcs
  <2> QED  BY <2>2, <2>3 DEF Knows
<1>20. Away(p)' /\ h'[p].req.key = k
  BY <1>2, <1>4 DEF Away
<1>21. /\ DOMAIN idx \subseteq DOMAIN idx' /\ map'[k] = map[k] /\ idx'[n].key = Blank
       /\ dat'[idx'[n].datoff].val = Blank /\ n \in on2[FREE] /\ idx[n].key \in {k, Blank}
       /\ \A m \in on2[c] \ {n} : idx'[m].key # idx'[n].key
  BY <1>2, <1>6, <1>8, <1>10, <1>17
<1>22. \A q \in Procs \ {p} : pc[q] \in {"ridx", "adunlock", "ailock", "aiseek", "aiwrite"} =>
              dat'[h[q].datoff].val = dat[h[q].datoff].val
  BY <1>8
<1>23. Chained(on2, rk2)'
  BY <1>2, <1>4, <1>5, <1>11, <1>13, <1>14, <1>15, <1>16, <1>18, <1>19, <1>20, <1>21, <1>22, WriterKeeps
<1> QED  BY <1>12, <1>23 DEF ChainsInv, Ghosts

\* The deleted record leaves its chain.
LEMMA ChainsOffChain ==
  ASSUME NEW on, NEW rk, Lists(on, rk), NEW p \in Procs, DeletePrev(p)
  PROVE  ChainsInv'
<1>1. /\ IInv /\ h[p] \in Handles /\ h \in [Procs -> Handles] /\ pc \in [Procs -> Labels]
      /\ Knows(p, on, rk) /\ pc[p] = "dprev" /\ Turn(p) /\ Ghosts(on, rk) /\ FilesOK
      /\ map \in [Keys -> Values \cup {Blank}] /\ HandleOK(h[p], pc[p], Len(idx), Len(dat)) /\ Len(idx) \in Nat
  BY Known DEF Lists, TurnInv, Chained, DeletePrev, Goto, IInv, TypeOK, HistoryOK
<1>2. /\ Steps(p) /\ h'[p].req = h[p].req /\ pc'[p] = "dunlock"
      /\ h'[p].phase = h[p].phase /\ h'[p].idxoff = h[p].idxoff /\ h'[p].ptroff = h[p].ptroff
      /\ h[p].phase = "find" /\ h[p].req.op \in Replaces \cup {"delete"}
  BY <1>1 DEF Turn, OpAt, DeletePcs, Stopped, Steps, Step, DoDelete, DeletePrev, Handles, Goto
<1>3. \A q \in Procs \ {p} : h'[q] = h[q] /\ pc'[q] = pc[q]
  BY <1>1, <1>2, Others
<1>4. PICK n, k, c, loc, x : n = h[p].idxoff /\ k = h[p].req.key /\ c = ChainOf(p) /\ loc = h[p].ptroff /\ x = h[p].saveptr
  OBVIOUS
<1>5. /\ HasChain(p) /\ HasFree(p) /\ h[p].req.op # "fetch" /\ k \in Keys /\ Hash[k] = c /\ c \in Chains
      /\ c \in ChainPtrs /\ ChainOf(p)' = c /\ FREE \in ChainPtrs /\ FREE # c /\ FREE \notin Chains /\ x \in Nat
  BY <1>1, <1>2, <1>4, KnownChain, LocksDistinct DEF HasChain, HasFree, Stopped, Replaces, ChainOf, ChainPtrs,
     HandleOK, Offsets
<1>6. /\ n \in on[c] /\ map[k] # Blank /\ idx[n].key = Blank /\ After(on[c], rk[c], n, x)
      /\ Comes(on, rk, c, loc, n) /\ dat[idx[n].datoff].val = Blank
      /\ n \in on[FREE] /\ \A m \in on[c] : idx[m].key # k
  BY <1>1, <1>2, <1>4 DEF Knows, Found, DeletePcs
<1>7. n \in DOMAIN idx /\ \A b \in ChainPtrs : \A m \in on[b] : m \in DOMAIN idx /\ m \in Nat
  BY <1>5, <1>6, OnList
<1>8. WritePtr(loc, x)
  BY <1>4 DEF DeletePrev
<1>9. PICK on2 : on2 = [on EXCEPT ![c] = @ \ {n}]
  OBVIOUS
<1>10. on2[c] = on[c] \ {n} /\ \A b \in ChainPtrs \ {c} : on2[b] = on[b]
  BY <1>1, <1>5, <1>9 DEF Ghosts
<1>11. \A m \in on[c] \ {n} : \A q \in Procs : ~Cuts(q, c, m)
  <2> SUFFICES ASSUME NEW m \in on[c] \ {n}, NEW q \in Procs, Cuts(q, c, m) PROVE FALSE
    OBVIOUS
  <2>1. HasChain(q) /\ ChainOf(q) = c
    BY <1>5, CutsKnown
  <2>2. p = q
    BY <1>4, <1>5, <2>1, ChainAlone DEF Lists
  <2> QED  BY <1>4, <2>2 DEF Cuts
<1>12. ListKept(p, c, on2, rk) /\ (loc = c \/ loc \in on[c] \ {n}) /\ loc \in ChainPtrs \cup DOMAIN idx
  <2>1. c \in ChainPtrs /\ x \in Nat /\ n \in on[c] /\ Comes(on, rk, c, loc, n) /\ After(on[c], rk[c], n, x)
    BY <1>5, <1>6
  <2>2. on2[c] = on[c] \ {n}
    BY <1>10
  <2> QED  BY <1>8, <1>11, <2>1, <2>2, ListShrinks
<1>13. /\ dat' = dat /\ DOMAIN idx' = DOMAIN idx
       /\ \A m \in DOMAIN idx : /\ idx'[m].key = idx[m].key /\ idx'[m].datoff = idx[m].datoff
                                /\ idx'[m].ptr = IF m = loc THEN x ELSE idx[m].ptr
       /\ \A b \in ChainPtrs : head'[b] = IF b = loc THEN x ELSE head[b]
  BY <1>1, <1>8, <1>12, PtrAt
<1>14. c \notin Nat /\ FREE \notin Nat /\ (\A b \in ChainPtrs : b \notin Nat) /\ \A m \in DOMAIN idx : m \in Nat
  BY <1>1, <1>5, LocksDistinct, SlotsAre DEF Locks
<1>15. ListKept(p, FREE, on2, rk)
  <2>1. loc # FREE /\ loc \notin on[FREE]
    <3>1. loc # FREE
      BY <1>5, <1>7, <1>12, <1>14
    <3>2. ASSUME loc \in on[FREE] PROVE FALSE
      <4>1. loc \in on[c] \ {n}
        BY <1>5, <1>7, <1>12, <1>14, <3>2
      <4>2. PICK q \in Procs : Cuts(q, c, loc)
        BY <1>5, <3>2, <4>1, OnOneList
      <4> QED  BY <1>11, <4>1, <4>2
    <3> QED  BY <3>1, <3>2
  <2>2. \A m \in on[FREE] : idx'[m].ptr = idx[m].ptr /\ ~Cuts(p, FREE, m)
    BY <1>4, <1>5, <1>7, <1>13, <2>1 DEF Cuts
  <2>3. Linked(on, rk) /\ head'[FREE] = head[FREE] /\ DOMAIN idx \subseteq DOMAIN idx' /\ on2[FREE] = on[FREE]
    BY <1>5, <1>10, <1>13, <2>1 DEF Lists, Chained
  <2> QED  BY <1>3, <1>5, <2>2, <2>3, ListKeeps
<1>16. Ghosts(on2, rk)
  <2>1. on[c] \ {n} \in SUBSET Nat
    BY <1>1, <1>5 DEF Ghosts
  <2> QED  BY <1>1, <1>5, <1>9, <2>1 DEF Ghosts
<1>17. /\ \A j \in Keys \ {k} : map'[j] = map[j]
       /\ h[p].req.op = "delete" => map'[k] = Blank
       /\ h[p].req.op # "delete" => map'[k] = map[k]
  BY <1>1, <1>4, <1>5 DEF DeletePrev
<1>18. Changes(p, {n}, k)
  BY <1>3, <1>13, <1>17 DEF Changes
<1>19. Moved({n}, on, on2) /\ Grips(p, n, on)
  BY <1>4, <1>6, <1>10 DEF Moved, Grips
<1>20. Reaches(p, {n}, on, on2, rk, rk)
  BY <1>4, <1>5, <1>7, <1>10, <1>12, <1>13, <1>14 DEF Reaches
<1>21. Says(p, {n})
  BY <1>1, <1>4 DEF Says, Cuts, Wipes, Leaves, Takes
<1>22. /\ h[p].req.op # "delete" => Away(p)'
       /\ h[p].req.op = "delete" => ~Away(p)'
  BY <1>2 DEF Away, Replaces
<1>23. Knows(p, on2, rk)' /\ ~Takes(p)'
  <2>1. \A m \in on2[c] : idx'[m].key # k
    BY <1>5, <1>6, <1>7, <1>10, <1>13
  <2>2. Absent(p, on2)'
    BY <1>2, <1>4, <1>5, <1>6, <1>17, <1>22, <2>1 DEF Absent, LatePcs, FreePcs
  <2>3. Walks(p, on2, rk)' /\ Found(p, on2, rk)' /\ Owns(p, on2, rk)' /\ Sees(p)' /\ ~Takes(p)'
    BY <1>2 DEF Walks, Found, Owns, Sees, Takes, DeletePcs
  <2> QED  BY <2>2, <2>3 DEF Knows
<1>24. map'[k] # Blank => Away(p)' /\ h'[p].req.key = k
  BY <1>2, <1>4, <1>17, <1>22
<1>25. /\ DOMAIN idx \subseteq DOMAIN idx' /\ idx'[n].key = Blank /\ n \notin on2[c]
       /\ dat'[idx'[n].datoff].val = Blank /\ n \in on2[FREE] /\ idx[n].key \in {k, Blank}
       /\ \A m \in on[c] \ {n} : idx[m].key # k
  BY <1>5, <1>6, <1>7, <1>10, <1>13
<1>26. \A q \in Procs \ {p} : pc[q] \in {"ridx", "adunlock", "ailock", "aiseek", "aiwrite"} =>
              dat'[h[q].datoff].val = dat[h[q].datoff].val
  BY <1>13
<1>27. Chained(on2, rk)'
  BY <1>2, <1>4, <1>5, <1>12, <1>15, <1>18, <1>19, <1>20, <1>21, <1>23, <1>24, <1>25, <1>26, WriterKeeps
<1> QED  BY <1>16, <1>27 DEF ChainsInv, Ghosts

\* A free record is taken off the free list.
LEMMA ChainsOffFree ==
  ASSUME NEW on, NEW rk, Lists(on, rk), NEW p \in Procs, FreeUnlink(p)
  PROVE  ChainsInv'
<1>1. /\ IInv /\ h[p] \in Handles /\ h \in [Procs -> Handles] /\ pc \in [Procs -> Labels]
      /\ Knows(p, on, rk) /\ pc[p] = "funlink" /\ Turn(p) /\ Ghosts(on, rk) /\ FilesOK
      /\ HandleOK(h[p], pc[p], Len(idx), Len(dat)) /\ Len(idx) \in Nat
  BY Known DEF Lists, TurnInv, Chained, FreeUnlink, Goto, IInv, TypeOK
<1>2. /\ Steps(p) /\ h'[p].req = h[p].req /\ pc'[p] = "funlock" /\ map' = map
      /\ h'[p].phase = h[p].phase /\ h'[p].idxoff = h[p].idxoff /\ h'[p].front = h[p].front
      /\ h[p].phase = "free" /\ h[p].req.op \in {"insert", "store"}
  BY <1>1 DEF Turn, OpAt, LatePcs, FreePcs, Stopped, Steps, Step, FindFree, FreeUnlink, Handles, Goto
<1>3. \A q \in Procs \ {p} : h'[q] = h[q] /\ pc'[q] = pc[q]
  BY <1>1, <1>2, Others
<1>4. PICK n, k, c, loc, x : n = h[p].idxoff /\ k = h[p].req.key /\ c = ChainOf(p) /\ loc = h[p].ptroff /\ x = h[p].ptrval
  OBVIOUS
<1>5. /\ HasChain(p) /\ HasFree(p) /\ h[p].req.op # "fetch" /\ k \in Keys /\ Hash[k] = c /\ c \in Chains
      /\ c \in ChainPtrs /\ ChainOf(p)' = c /\ FREE \in ChainPtrs /\ FREE # c /\ FREE \notin Chains /\ x \in Nat
      /\ n # 0
  BY <1>1, <1>2, <1>4, KnownChain, LocksDistinct DEF HasChain, HasFree, Stopped, ChainOf, ChainPtrs,
     HandleOK, Offsets, AtIdx
<1>6. n \in on[FREE] /\ Comes(on, rk, FREE, loc, n) /\ After(on[FREE], rk[FREE], n, x) /\ Absent(p, on)
  BY <1>1, <1>4 DEF Knows, Owns
<1>7. n \in DOMAIN idx /\ \A b \in ChainPtrs : \A m \in on[b] : m \in DOMAIN idx /\ m \in Nat
  BY <1>5, <1>6, OnList
<1>8. WritePtr(loc, x)
  BY <1>4 DEF FreeUnlink
<1>9. PICK on2 : on2 = [on EXCEPT ![FREE] = @ \ {n}]
  OBVIOUS
<1>10. on2[FREE] = on[FREE] \ {n} /\ \A b \in ChainPtrs \ {FREE} : on2[b] = on[b]
  BY <1>1, <1>5, <1>9 DEF Ghosts
<1>11. idx[n].key = Blank
  BY <1>6 DEF Lists, Chained, OnFree
<1>12. \A b \in Chains : \A m \in on[b] : m \notin on[FREE]
  <2> SUFFICES ASSUME NEW b \in Chains, NEW m \in on[b], m \in on[FREE] PROVE FALSE
    OBVIOUS
  <2>1. PICK q \in Procs : Cuts(q, b, m)
    BY <1>5, OnOneList
  <2>2. HasFree(q) /\ TurnInv
    BY <1>5, <2>1, CutsKnown DEF Lists, ChainPtrs
  <2>3. p = q
    BY <1>5, <2>2, FreeAlone
  <2> QED  BY <1>1, <2>1, <2>3 DEF Cuts
<1>13. ListKept(p, FREE, on2, rk) /\ (loc = FREE \/ loc \in on[FREE] \ {n}) /\ loc \in ChainPtrs \cup DOMAIN idx
  <2>1. \A m \in on[FREE] \ {n} : \A q \in Procs : ~Cuts(q, FREE, m)
    BY <1>5, CutsKnown
  <2> QED  BY <1>5, <1>6, <1>8, <1>10, <2>1, ListShrinks
<1>14. /\ dat' = dat /\ DOMAIN idx' = DOMAIN idx
       /\ \A m \in DOMAIN idx : /\ idx'[m].key = idx[m].key /\ idx'[m].datoff = idx[m].datoff
                                /\ idx'[m].ptr = IF m = loc THEN x ELSE idx[m].ptr
       /\ \A b \in ChainPtrs : head'[b] = IF b = loc THEN x ELSE head[b]
  BY <1>1, <1>8, <1>13, PtrAt
<1>15. c \notin Nat /\ FREE \notin Nat /\ (\A b \in ChainPtrs : b \notin Nat) /\ \A m \in DOMAIN idx : m \in Nat
  BY <1>1, <1>5, LocksDistinct, SlotsAre DEF Locks
<1>16. loc # c /\ loc \notin on[c]
  BY <1>5, <1>7, <1>12, <1>13, <1>15
<1>17. ListKept(p, c, on2, rk) /\ head'[c] = head[c] /\ on2[c] = on[c]
  <2>1. \A m \in on[c] : idx'[m].ptr = idx[m].ptr /\ ~Cuts(p, c, m)
    BY <1>1, <1>5, <1>7, <1>14, <1>16 DEF Cuts
  <2>2. Linked(on, rk) /\ head'[c] = head[c] /\ DOMAIN idx \subseteq DOMAIN idx' /\ on2[c] = on[c]
    BY <1>5, <1>10, <1>14, <1>16 DEF Lists, Chained
  <2> QED  BY <1>3, <1>5, <2>1, <2>2, ListKeeps
<1>18. Ghosts(on2, rk)
  <2>1. on[FREE] \ {n} \in SUBSET Nat
    BY <1>1, <1>5 DEF Ghosts
  <2> QED  BY <1>1, <1>5, <1>9, <2>1 DEF Ghosts
<1>19. Changes(p, {n}, k)
  BY <1>2, <1>3, <1>14 DEF Changes
<1>20. Moved({n}, on, on2) /\ Grips(p, n, on)
  BY <1>5, <1>6, <1>10 DEF Moved, Grips
<1>21. Reaches(p, {n}, on, on2, rk, rk)
  BY <1>5, <1>7, <1>10, <1>13, <1>14, <1>15 DEF Reaches
<1>22. Says(p, {n})
  BY <1>1, <1>4 DEF Says, Cuts, Wipes, Leaves, Takes
<1>23. Away(p)' = Away(p)
  BY <1>1, <1>2 DEF Away, LatePcs, FreePcs
<1>24. \A b \in ChainPtrs : n \notin on2[b]
  BY <1>6, <1>10, <1>12 DEF ChainPtrs
<1>25. Knows(p, on2, rk)' /\ Takes(p)'
  <2>1. \A m \in on2[c] : idx'[m].key = idx[m].key
    BY <1>5, <1>7, <1>14, <1>17
  <2>2. Absent(p, on2)'
    BY <1>1, <1>2, <1>4, <1>5, <1>6, <1>17, <1>23, <2>1 DEF Absent, LatePcs, FreePcs
  <2>3. Takes(p)'
    BY <1>2, <1>4, <1>5 DEF Takes
  <2>4. Owns(p, on2, rk)'
    BY <1>2, <1>4, <1>7, <1>11, <1>14, <1>24 DEF Owns
  <2>5. Walks(p, on2, rk)' /\ Found(p, on2, rk)' /\ Sees(p)'
    BY <1>2 DEF Walks, Found, Sees, DeletePcs
  <2> QED  BY <2>2, <2>3, <2>4, <2>5 DEF Knows
<1>26. map'[k] = Blank
  BY <1>1, <1>2, <1>4, <1>6 DEF Absent, Away, LatePcs, FreePcs
<1>27. /\ DOMAIN idx \subseteq DOMAIN idx' /\ idx'[n].key = Blank /\ n \notin on2[c] /\ n \notin on2[FREE]
       /\ map'[k] = map[k] /\ idx[n].key \in {k, Blank} /\ h'[p].idxoff = n
  BY <1>2, <1>4, <1>5, <1>7, <1>11, <1>14, <1>24
<1>28. \A q \in Procs \ {p} : Takes(q) => h[q].idxoff # h'[p].idxoff
  BY <1>4, <1>5, <1>20, <1>27, GripsAlone
<1>29. \A q \in Procs \ {p} : pc[q] \in {"ridx", "adunlock", "ailock", "aiseek", "aiwrite"} =>
              dat'[h[q].datoff].val = dat[h[q].datoff].val
  BY <1>14
<1>30. Chained(on2, rk)'
  BY <1>2, <1>4, <1>5, <1>13, <1>17, <1>19, <1>20, <1>21, <1>22, <1>25, <1>26, <1>27, <1>28, <1>29, WriterKeeps
<1> QED  BY <1>18, <1>30 DEF ChainsInv, Ghosts

\* The new record is linked in front of its chain.
LEMMA ChainsLink ==
  ASSUME NEW on, NEW rk, Lists(on, rk), NEW p \in Procs, Link(p)
  PROVE  ChainsInv'
<1>1. /\ IInv /\ h[p] \in Handles /\ h \in [Procs -> Handles] /\ pc \in [Procs -> Labels]
      /\ Knows(p, on, rk) /\ pc[p] = "link" /\ Turn(p) /\ Ghosts(on, rk)
      /\ map \in [Keys -> Values \cup {Blank}] /\ Control(h[p], pc[p])
  BY Known DEF Lists, TurnInv, Chained, Link, Goto, IInv, TypeOK, HistoryOK, HandleOK
<1>2. /\ Steps(p) /\ h'[p].req = h[p].req /\ pc'[p] = "unlock"
      /\ h[p].phase = "free" \/ h[p].req.op \in Replaces
      /\ h[p].phase = "free" => h[p].req.op \in {"insert", "store"}
  BY <1>1 DEF Turn, OpAt, LatePcs, FreePcs, Stopped, Steps, Step, Store, Link, Handles, Goto
<1>3. \A q \in Procs \ {p} : h'[q] = h[q] /\ pc'[q] = pc[q]
  BY <1>1, <1>2, Others
<1>4. PICK n, k, c, v : n = h[p].idxoff /\ k = h[p].req.key /\ c = ChainOf(p) /\ v = h[p].req.val
  OBVIOUS
<1>5. /\ h[p].phase # "scan" /\ h[p].req.op \in StoreOps /\ v \in Values
  BY <1>1, <1>2, <1>4 DEF Control, Stopped, Replaces, StoreOps, Requests
<1>6. /\ HasChain(p) /\ ~HasFree(p) /\ h[p].req.op # "fetch" /\ k \in Keys /\ Hash[k] = c /\ c \in Chains
      /\ c \in ChainPtrs /\ ChainOf(p)' = c /\ FREE \in ChainPtrs /\ FREE # c
  BY <1>1, <1>2, <1>4, <1>5, KnownChain, LocksDistinct DEF HasChain, HasFree, Stopped, StoreOps, ChainOf, ChainPtrs
<1>7. /\ \A m \in on[c] : idx[m].key # k
      /\ \A b \in ChainPtrs : n \notin on[b]
      /\ idx[n].key = k /\ dat[idx[n].datoff].val = v /\ idx[n].ptr = head[c] /\ Takes(p)
  BY <1>1, <1>4 DEF Knows, Absent, Owns, Takes, Leaves, LatePcs, FreePcs
<1>8. n \in DOMAIN idx /\ n \in Nat /\ \A b \in ChainPtrs : \A m \in on[b] : m \in DOMAIN idx
  <2>1. HandleOK(h[p], pc[p], Len(idx), Len(dat)) /\ Len(idx) \in Nat /\ DOMAIN idx = 1 .. Len(idx)
    BY <1>1, Known DEF IInv, TypeOK, FilesOK
  <2>2. n \in 1 .. Len(idx)
    BY <1>1, <1>4, <2>1 DEF HandleOK, Offsets, AtIdx, Stopped
  <2> QED  BY <2>1, <2>2, OnList
<1>9. /\ idx' = idx /\ dat' = dat /\ WritePtr(c, n)
      /\ \A b \in ChainPtrs \ {c} : head'[b] = head[b]
  <2>1. WritePtr(c, n)
    BY <1>4 DEF Link
  <2>2. idx' = idx /\ dat' = dat /\ head' = [head EXCEPT ![c] = n]
    BY <1>6, <2>1 DEF WritePtr
  <2>3. head \in [ChainPtrs -> 0 .. Len(idx)]
    BY <1>1, Known
  <2> QED  BY <2>1, <2>2, <2>3
<1>10. (\A j \in Keys \ {k} : map'[j] = map[j]) /\ map'[k] = v /\ v # Blank
  BY <1>1, <1>4, <1>5, <1>6, BlankIsNoKey DEF Link
<1>11. PICK on2, rk2 : /\ on2 = [on EXCEPT ![c] = @ \cup {n}]
                       /\ rk2 = [rk EXCEPT ![c] = Pushed(rk[c], head[c], n)]
  OBVIOUS
<1>12. /\ on2[c] = on[c] \cup {n} /\ rk2[c] = Pushed(rk[c], head[c], n)
       /\ \A b \in ChainPtrs \ {c} : on2[b] = on[b] /\ rk2[b] = rk[b]
  BY <1>1, <1>6, <1>11 DEF Ghosts
<1>13. ListKept(p, c, on2, rk2) /\ rk2[c] \in [Nat -> Nat]
  <2>1. \A m \in on[c] : \A q \in Procs : ~Cuts(q, c, m)
    <3> SUFFICES ASSUME NEW m \in on[c], NEW q \in Procs, Cuts(q, c, m) PROVE FALSE
      OBVIOUS
    <3>1. HasChain(q) /\ ChainOf(q) = c
      BY <1>6, CutsKnown
    <3>2. p = q
      BY <1>4, <1>6, <3>1, ChainAlone DEF Lists
    <3> QED  BY <1>1, <3>2 DEF Cuts
  <2>2. c \in ChainPtrs /\ n \in DOMAIN idx /\ n \notin on[c] /\ idx[n].ptr = head[c] /\ WritePtr(c, n)
    BY <1>6, <1>7, <1>8, <1>9
  <2>3. on2[c] = on[c] \cup {n} /\ rk2[c] = Pushed(rk[c], head[c], n)
    BY <1>12
  <2> QED  BY <2>1, <2>2, <2>3, ListGrows
<1>14. Ghosts(on2, rk2)
  <2>1. on2[c] \in SUBSET Nat
    BY <1>1, <1>6, <1>8, <1>12 DEF Ghosts
  <2>2. on2 = [on EXCEPT ![c] = on2[c]] /\ rk2 = [rk EXCEPT ![c] = rk2[c]]
    BY <1>1, <1>6, <1>11 DEF Ghosts
  <2> QED  BY <1>1, <1>6, <1>13, <2>1, <2>2 DEF Ghosts
<1>15. Changes(p, {n}, k)
  BY <1>3, <1>9, <1>10 DEF Changes
<1>16. Moved({n}, on, on2) /\ Grips(p, n, on)
  BY <1>7, <1>12 DEF Moved, Grips
<1>17. Reaches(p, {n}, on, on2, rk, rk2)
  BY <1>4, <1>9, <1>12 DEF Reaches
<1>18. Says(p, {n})
  BY <1>1, <1>4 DEF Says, Cuts, Wipes, Leaves, Takes
<1>19. Current(c, n)'
  BY <1>6, <1>7, <1>9, <1>10 DEF Current
<1>20. Knows(p, on2, rk2)' /\ ~Takes(p)'
  BY <1>2, NothingKnown
<1>21. /\ DOMAIN idx \subseteq DOMAIN idx' /\ idx'[n].key = k /\ n \in on2[c] /\ n \notin on2[FREE]
       /\ (\A m \in on2[c] \ {n} : idx'[m].key # idx'[n].key) /\ idx[n].key \in {k, Blank}
       /\ \A m \in on[c] \ {n} : idx[m].key # k
  BY <1>6, <1>7, <1>9, <1>12
<1>22. \A q \in Procs \ {p} : pc[q] \in {"ridx", "adunlock", "ailock", "aiseek", "aiwrite"} =>
              dat'[h[q].datoff].val = dat[h[q].datoff].val
  BY <1>9
<1>23. Chained(on2, rk2)'
  BY <1>2, <1>4, <1>6, <1>13, <1>15, <1>16, <1>17, <1>18, <1>19, <1>20, <1>21, <1>22, WriterKeeps
<1> QED  BY <1>14, <1>23 DEF ChainsInv, Ghosts

\* The new record is too far away to be linked.
LEMMA ChainsTooFar ==
  ASSUME NEW on, NEW rk, Lists(on, rk), NEW p \in Procs, LinkTooFar(p)
  PROVE  Chained(on, rk)'
<1>1. /\ IInv /\ h[p] \in Handles /\ h \in [Procs -> Handles] /\ pc \in [Procs -> Labels]
      /\ Knows(p, on, rk) /\ pc[p] = "link" /\ Turn(p)
      /\ map \in [Keys -> Values \cup {Blank}] /\ Control(h[p], pc[p])
  BY Known DEF Lists, TurnInv, Chained, LinkTooFar, IInv, TypeOK, HistoryOK, HandleOK
<1>2. /\ Steps(p) /\ h' = h /\ pc'[p] = "quit" /\ idx' = idx /\ head' = head /\ dat' = dat
      /\ h[p].phase = "free" \/ h[p].req.op \in Replaces
      /\ h[p].phase = "free" => h[p].req.op \in {"insert", "store"}
  BY <1>1 DEF Turn, OpAt, LatePcs, FreePcs, Stopped, Steps, Step, Store, LinkTooFar, Stop, files
<1>3. \A q \in Procs \ {p} : h'[q] = h[q] /\ pc'[q] = pc[q]
  BY <1>1, <1>2, Others
<1>4. PICK n, k, c : n = h[p].idxoff /\ k = h[p].req.key /\ c = ChainOf(p)
  OBVIOUS
<1>5. h[p].phase # "scan" /\ h[p].req.op \in StoreOps
  BY <1>1, <1>2 DEF Control, Stopped, Replaces, StoreOps
<1>6. /\ HasChain(p) /\ h[p].req.op # "fetch" /\ k \in Keys /\ Hash[k] = c /\ c \in Chains
      /\ c \in ChainPtrs /\ FREE \in ChainPtrs
  BY <1>1, <1>2, <1>4, <1>5, KnownChain DEF HasChain, Stopped, StoreOps, ChainOf, ChainPtrs
<1>7. (\A m \in on[c] : idx[m].key # k) /\ (map[k] = Blank <=> ~Away(p))
  BY <1>1, <1>4 DEF Knows, Absent, LatePcs, FreePcs
<1>8. (\A j \in Keys \ {k} : map'[j] = map[j]) /\ map'[k] = Blank
  <2>1. h[p].phase # "find" => map[k] = Blank
    BY <1>1, <1>7 DEF Away
  <2> QED  BY <1>1, <1>4, <1>6, <2>1 DEF LinkTooFar
<1>9. Changes(p, {}, k)
  BY <1>2, <1>3, <1>8 DEF Changes
<1>10. Moved({}, on, on) /\ Reaches(p, {}, on, on, rk, rk) /\ \A b \in ChainPtrs : ListKept(p, b, on, rk)
  BY <1>1, <1>2, <1>3, DataKeeps
<1>11. Says(p, {})
  BY <1>1, <1>2 DEF Says, Cuts, Wipes, Leaves
<1>12. Knows(p, on, rk)' /\ ~Takes(p)'
  BY <1>2, NothingKnown DEF Stopped
<1>13. \A q \in Procs \ {p} : pc[q] \in {"ridx", "adunlock", "ailock", "aiseek", "aiwrite"} =>
              dat'[h[q].datoff].val = dat[h[q].datoff].val
  BY <1>2
<1>14. /\ DOMAIN idx \subseteq DOMAIN idx' /\ ListKept(p, c, on, rk) /\ ListKept(p, FREE, on, rk)
       /\ \A m \in on[c] \ {} : idx[m].key # k
  BY <1>2, <1>6, <1>7, <1>10
<1>15. PICK X : X = {}
  OBVIOUS
<1> QED
  BY <1>2, <1>4, <1>6, <1>8, <1>9, <1>10, <1>11, <1>12, <1>13, <1>14, <1>15, WriterKeeps
-----------------------------------------------------------------------------
(* The initial lists, and the invariant of the lists.                       *)

\* The latest of some records is one of them, and no earlier than any other.
LEMMA LatestIs ==
  ASSUME NEW n \in Nat, NEW S \in SUBSET (1 .. n)
  PROVE  IF S = {} THEN Latest(S) = 0 ELSE Latest(S) \in S /\ \A m \in S : m <= Latest(S)
<1> DEFINE last == {k \in S : \A m \in S : m <= k}
           top == CHOOSE k \in last : TRUE
<1>1. Latest(S) = IF last = {} THEN 0 ELSE top
  BY DEF Latest
<1>2. CASE S = {}
  <2>1. last = {}
    BY <1>2
  <2>2. Latest(S) = 0
    BY <1>1, <2>1
  <2> QED  BY <1>2, <2>2
<1>3. CASE S # {}
  <2> DEFINE back == {n - k : k \in S}
  <2>1. back \in SUBSET Nat /\ back # {}
    BY <1>3
  <2>2. PICK x \in back : \A y \in back : x <= y
    BY <2>1, LeastNat
  <2>3. PICK k \in S : x = n - k
    BY <2>2
  <2>4. \A m \in S : m <= k
    BY <2>2, <2>3
  <2>5. k \in last
    BY <2>3, <2>4
  <2>6. last # {} /\ top \in last
    <3> HIDE DEF last
    <3> QED  BY <2>5
  <2>7. top \in S /\ \A m \in S : m <= top
    <3> HIDE DEF top
    <3> QED  BY <2>6
  <2>8. Latest(S) = top
    BY <1>1, <2>6
  <2> HIDE DEF last, top
  <2> QED  BY <1>3, <2>7, <2>8
<1> QED  BY <1>2, <1>3

\* The records that were inserted before are on the chains of their keys, the latest
\* one first.
LEMMA InitChainsInv == Init => ChainsInv
<1> SUFFICES ASSUME Init PROVE ChainsInv
  OBVIOUS
<1> DEFINE N == Len(Preload)
           on == [b \in ChainPtrs |-> IF b = FREE THEN {} ELSE ChainMembers(b)]
           rk == [b \in ChainPtrs |-> [n \in Nat |-> n]]
<1>1. /\ N \in Nat /\ DOMAIN Preload = 1 .. N
      /\ \A n \in 1 .. N : Preload[n].key \in Keys /\ Preload[n].val \in Values
  <2> DEFINE Recs == [key : Keys, val : Values]
  <2>1. Preload \in Seq(Recs)
    BY PreloadTyped
  <2> HIDE DEF Recs
  <2>2. N \in Nat /\ DOMAIN Preload = 1 .. N /\ \A n \in 1 .. N : Preload[n] \in Recs
    BY <2>1
  <2> QED  BY <2>2 DEF Recs
<1>2. /\ DOMAIN idx = 1 .. N
      /\ \A n \in 1 .. N :
           /\ idx[n].key = Preload[n].key /\ idx[n].datoff = n /\ dat[n].val = Preload[n].val
           /\ idx[n].ptr = Latest({m \in ChainMembers(Hash[Preload[n].key]) : m < n})
  BY <1>1 DEF Init
<1>3. \A b \in ChainPtrs : head[b] = IF b = FREE THEN 0 ELSE Latest(ChainMembers(b))
  BY DEF Init
<1>4. \A n \in 1 .. N : map[Preload[n].key] = Preload[n].val /\ Preload[n].val # Blank
  <2> SUFFICES ASSUME NEW n \in 1 .. N
               PROVE  map[Preload[n].key] = Preload[n].val /\ Preload[n].val # Blank
    OBVIOUS
  <2> DEFINE k == Preload[n].key
             m == CHOOSE m \in DOMAIN Preload : Preload[m].key = k
  <2>1. m \in DOMAIN Preload /\ Preload[m].key = k
    BY <1>1
  <2>2. m = n
    <3> HIDE DEF m
    <3> QED  BY <1>1, <2>1, PreloadTyped
  <2>3. map[k] = Preload[m].val
    BY <1>1 DEF Init
  <2> HIDE DEF m
  <2> QED  BY <1>1, <2>2, <2>3, BlankIsNoKey
<1>5. \A k \in Keys : map[k] # Blank => \E n \in 1 .. N : Preload[n].key = k
  BY <1>1 DEF Init
<1>6. \A p \in Procs : pc[p] = "idle"
  BY DEF Init
<1>7. /\ \A c \in Chains : c \in ChainPtrs /\ on[c] = {n \in 1 .. N : Hash[Preload[n].key] = c}
      /\ FREE \in ChainPtrs /\ on[FREE] = {} /\ \A b \in ChainPtrs : b = FREE \/ b \in Chains
      /\ \A b \in ChainPtrs, n \in Nat : rk[b][n] = n
  BY <1>1, LocksDistinct DEF ChainMembers, ChainPtrs
<1>8. Ghosts(on, rk)
  BY <1>1, <1>7 DEF Ghosts, ChainMembers
<1> HIDE DEF on, rk, N
<1>9. Linked(on, rk)
  <2> SUFFICES ASSUME NEW b \in ChainPtrs
               PROVE  /\ on[b] \subseteq DOMAIN idx /\ Ranked(on[b], rk[b])
                      /\ First(on[b], rk[b], head[b])
                      /\ \A n \in on[b] : After(on[b], rk[b], n, idx[n].ptr)
    BY DEF Linked
  <2>1. CASE b = FREE
    BY <1>3, <1>7, <2>1 DEF Ranked, First
  <2>2. CASE b # FREE
    <3>1. b \in Chains /\ on[b] \in SUBSET (1 .. N) /\ \A n \in on[b] : n \in Nat \ {0} /\ rk[b][n] = n
      BY <1>1, <1>7, <2>2
    <3>2. on[b] = ChainMembers(b)
      BY <2>2 DEF on
    <3>3. First(on[b], rk[b], head[b])
      <4>1. IF on[b] = {} THEN head[b] = 0 ELSE head[b] \in on[b] /\ \A m \in on[b] : m <= head[b]
        <5>1. head[b] = Latest(on[b])
          BY <1>3, <2>2, <3>2
        <5> QED  BY <1>1, <3>1, <5>1, LatestIs
      <4> QED  BY <3>1, <4>1 DEF First
    <3>4. ASSUME NEW n \in on[b] PROVE After(on[b], rk[b], n, idx[n].ptr)
      <4> DEFINE B == {m \in on[b] : m < n}
      <4>1. B \in SUBSET (1 .. N)
        BY <3>1
      <4>2. Hash[Preload[n].key] = b
        BY <1>7, <3>1
      <4>3. idx[n].ptr = Latest(B)
        BY <1>2, <3>1, <3>2, <4>2
      <4> HIDE DEF B
      <4>4. IF B = {} THEN idx[n].ptr = 0 ELSE idx[n].ptr \in B /\ \A m \in B : m <= idx[n].ptr
        BY <1>1, <4>1, <4>3, LatestIs
      <4> QED  BY <3>1, <4>4 DEF After, B
    <3> QED  BY <1>2, <3>1, <3>3, <3>4 DEF Ranked
  <2> QED  BY <2>1, <2>2
<1>10. OnChains(on)
  <2>1. ASSUME NEW c \in Chains, NEW n \in on[c] PROVE Current(c, n) /\ n \in 1 .. N
    <3>1. n \in 1 .. N /\ Hash[Preload[n].key] = c
      BY <1>7, <2>1
    <3>2. idx[n].key = Preload[n].key /\ dat[idx[n].datoff].val = Preload[n].val
      BY <1>2, <3>1
    <3> QED  BY <1>1, <1>4, <3>1, <3>2 DEF Current
  <2>2. \A m, n \in 1 .. N : idx[m].key = idx[n].key => m = n
    <3>1. \A m, n \in DOMAIN Preload : Preload[m].key = Preload[n].key => m = n
      BY PreloadTyped
    <3>2. \A n \in DOMAIN Preload : idx[n].key = Preload[n].key
      BY <1>1, <1>2
    <3> HIDE DEF N
    <3> QED  BY ONLY <1>1, <3>1, <3>2
  <2> QED  BY <2>1, <2>2 DEF OnChains
<1>11. InMap(on) /\ OnFree(on) /\ Written(on) /\ Kept(on)
  <2>1. ASSUME NEW n \in 1 .. N PROVE n \in on[Hash[idx[n].key]] /\ Hash[idx[n].key] \in ChainPtrs
    BY <1>1, <1>2, <1>7, TablesTyped
  <2>2. InMap(on)
    BY <1>2, <1>5, <2>1 DEF InMap
  <2> QED  BY <1>2, <1>7, <2>1, <2>2 DEF OnFree, Written, Kept
<1>12. \A p \in Procs : Knows(p, on, rk) /\ ~Takes(p)
  BY <1>6 DEF Knows, Walks, Found, Absent, Owns, Sees, Takes, DeletePcs, LatePcs, FreePcs
<1> QED  BY <1>8, <1>9, <1>10, <1>11, <1>12 DEF ChainsInv, Chained

\* Every step of the library keeps the lists, if it does not kill a process in the middle
\* of an operation that takes a record off its chain.
LEMMA StepChainsInv ==
  ASSUME ~HalfDeleted', ApartInv, TurnInv, ChainsInv, [Next]_vars
  PROVE  ChainsInv'
<1>1. PICK on, rk : Ghosts(on, rk) /\ Chained(on, rk)
  BY DEF ChainsInv
<1>2. Lists(on, rk)
  BY <1>1 DEF Lists
<1>3. Ghosts(on, rk)'
  BY <1>1 DEF Ghosts
<1>4. Chained(on, rk)' => ChainsInv'
  BY <1>3 DEF ChainsInv
<1>5. ASSUME NEW p \in Procs, Steps(p) PROVE ChainsInv'
  <2>1. CASE DeleteHead(p) \/ DeletePrev(p) \/ FreeUnlink(p) \/ Link(p)
    BY <1>2, <2>1, ChainsToFree, ChainsOffChain, ChainsOffFree, ChainsLink
  <2>2. CASE Call(p) \/ db_rewind(p) \/ db_close(p) \/ Crash(p) \/ Return(p) \/ NextLock(p) \/ NextUnlock(p)
    BY <1>2, <1>4, <2>2, ChainsCalls
  <2>3. CASE Find(p)
    BY <1>2, <1>4, <2>3, ChainsCalls, ChainsFind, ChainsHdr, ChainsRec DEF Find
  <2>4. CASE DeleteLock(p) \/ DeleteDat(p) \/ DeleteFree(p) \/ DeleteIdx(p) \/ DeleteUnlock(p)
    BY <1>2, <1>4, <2>4, ChainsDelete, ChainsOldData, ChainsOldIdx
  <2>5. CASE FreeLock(p) \/ FreePtr(p) \/ FreeUnlock(p) \/ ChainHead(p)
    BY <1>2, <1>4, <2>5, ChainsOnWay
  <2>6. CASE AppendRec(p)
    BY <1>2, <1>4, <2>6, ChainsOnWay, ChainsNewData, ChainsNewIdx DEF AppendRec
  <2>7. CASE ReuseDat(p) \/ ReuseIdx(p) \/ LinkTooFar(p) \/ OverwriteDat(p)
    BY <1>2, <1>4, <2>7, ChainsNewData, ChainsNewIdx, ChainsTooFar, ChainsOldData
  <2> QED  BY <1>5, <2>1, <2>2, <2>3, <2>4, <2>5, <2>6, <2>7 DEF Steps, Step, DoDelete, FindFree, Store
<1>6. CASE UNCHANGED vars
  <2>1. UNCHANGED idx /\ UNCHANGED head /\ UNCHANGED dat /\ UNCHANGED pc /\ UNCHANGED h /\ UNCHANGED map
    BY <1>6 DEF vars, files
  <2>2. /\ \A p, b, n : Cuts(p, b, n)' = Cuts(p, b, n) /\ Wipes(p, b, n)' = Wipes(p, b, n)
        /\ \A p, n : Leaves(p, n)' = Leaves(p, n)
        /\ \A p : Away(p)' = Away(p) /\ Takes(p)' = Takes(p) /\ ChainOf(p)' = ChainOf(p) /\ Base(p)' = Base(p)
    BY <2>1 DEF Cuts, Wipes, Leaves, Away, Takes, ChainOf, Base
  <2>3. Linked(on, rk)' = Linked(on, rk)
    BY <2>1, <2>2 DEF Linked
  <2>4. OnChains(on)' = OnChains(on) /\ InMap(on)' = InMap(on) /\ OnFree(on)' = OnFree(on)
    <3>1. \A c, n : Current(c, n)' = Current(c, n)
      BY <2>1, <2>2 DEF Current
    <3> QED  BY <2>1, <2>2, <3>1 DEF OnChains, InMap, OnFree
  <2>5. Written(on)' = Written(on) /\ Kept(on)' = Kept(on)
    BY <2>1, <2>2 DEF Written, Kept
  <2>6. ASSUME NEW p \in Procs PROVE Knows(p, on, rk)' = Knows(p, on, rk)
    <3>1. Walks(p, on, rk)' = Walks(p, on, rk)
      BY <2>1, <2>2 DEF Walks, Comes
    <3>2. Found(p, on, rk)' = Found(p, on, rk)
      BY <2>1, <2>2 DEF Found, Comes
    <3>3. Absent(p, on)' = Absent(p, on) /\ Sees(p)' = Sees(p)
      BY <2>1, <2>2 DEF Absent, Sees
    <3>4. Owns(p, on, rk)' = Owns(p, on, rk)
      BY <2>1, <2>2 DEF Owns, Comes
    <3> QED  BY <3>1, <3>2, <3>3, <3>4 DEF Knows
  <2> QED  BY <1>1, <1>4, <2>1, <2>2, <2>3, <2>4, <2>5, <2>6 DEF Chained
<1> QED  BY <1>5, <1>6 DEF Next, AllStopped, Steps

\* Only Crash kills, and a process that was killed does nothing any more.
LEMMA OnlyCrashKills ==
  ASSUME IInv, NEW p \in Procs, Steps(p)
  PROVE  pc[p] # "killed" /\ (pc'[p] = "killed" => Crash(p))
<1>1. pc \in [Procs -> Labels]
  BY DEF IInv, TypeOK, ProcsOK
<1>2. CASE Call(p) \/ db_rewind(p) \/ db_close(p) \/ Crash(p) \/ Return(p) \/ NextLock(p) \/ NextUnlock(p)
  BY <1>1, <1>2 DEF Call, FirstCall, db_rewind, db_close, Crash, Return, NextLock, NextUnlock, Goto, Stop,
     Stopped
<1>3. CASE Find(p)
  <2>1. Miss(p).to # "killed" /\ \A len : Hit(p, len).to # "killed"
    BY DEF Miss, Hit
  <2>2. CASE LockChain(p) \/ FindPtr(p) \/ ReadHdr(p)
    BY <1>1, <2>1, <2>2 DEF LockChain, FindPtr, ReadHdr, ErrDump, Goto, Stop
  <2>3. CASE ReadRec(p)
    <3>1. pc[p] = "rec" /\ \E to : to # "killed" /\ pc' = [pc EXCEPT ![p] = to]
      BY <2>1, <2>3 DEF ReadRec, Goto
    <3> QED  BY <1>1, <3>1
  <2>4. CASE ReadDat(p)
    BY <1>1, <2>4 DEF ReadDat, ErrDump, Goto, Stop
  <2> QED  BY <1>3, <2>2, <2>3, <2>4 DEF Find
<1>4. CASE DoDelete(p) \/ FindFree(p)
  BY <1>1, <1>4 DEF DoDelete, DeleteLock, DeleteDat, DeleteFree, DeleteIdx, DeleteHead, DeletePrev,
     DeleteUnlock, FindFree, FreeLock, FreePtr, FreeUnlink, FreeUnlock, Goto
<1>5. CASE AppendRec(p)
  BY <1>1, <1>5 DEF AppendRec, AppendDatLock, AppendDatSeek, AppendDat, AppendDatUnlock, AppendIdxLock,
     AppendIdxSeek, AppendIdx, AppendIdxUnlock, Goto
<1>6. CASE Store(p)
  BY <1>1, <1>6 DEF Store, ChainHead, ReuseDat, ReuseIdx, Link, LinkTooFar, OverwriteDat, Goto, Stop
<1> QED  BY <1>2, <1>3, <1>4, <1>5, <1>6 DEF Steps, Step

\* A process that was killed stays where it was.
LEMMA KilledStays ==
  ASSUME IInv, [Next]_vars, NEW p \in Procs, pc[p] = "killed"
  PROVE  pc'[p] = "killed" /\ h'[p] = h[p]
<1>1. CASE UNCHANGED vars
  BY <1>1 DEF vars
<1>2. ASSUME NEW q \in Procs, Steps(q) PROVE pc'[p] = "killed" /\ h'[p] = h[p]
  BY <1>2, OnlyCrashKills, Others
<1> QED  BY <1>1, <1>2 DEF Next, AllStopped, Steps

\* Together they are invariant; ApartInv and TurnInv are so whatever crashes there are,
\* ChainsInv until a process is killed that may have been deleting.
THEOREM ChainsInvariance == Spec => [](ApartInv /\ TurnInv /\ (HalfDeleted \/ ChainsInv))
<1>1. TurnInv /\ [Next]_vars /\ HalfDeleted => HalfDeleted'
  BY KilledStays DEF HalfDeleted, TurnInv
<1>2. ApartInv /\ TurnInv /\ (HalfDeleted \/ ChainsInv) /\ [Next]_vars => (HalfDeleted \/ ChainsInv)'
  BY <1>1, StepChainsInv
<1> QED  BY <1>2, InitChainsInv, ApartInvariance, TurnInvariance, PTL DEF Spec

\* Where no process is killed in a call that may delete, nothing is half deleted.
LEMMA NoneHalfDeleted == ASSUME NoHalfDelete PROVE Spec => []~HalfDeleted
<1> DEFINE K == \A p \in Procs : pc[p] = "killed" => h[p].req.op \in CrashOps
<1>1. Init => K
  BY DEF Init
<1>2. TurnInv /\ K /\ [Next]_vars => K'
  <2> SUFFICES ASSUME TurnInv, K, [Next]_vars, NEW p \in Procs, pc'[p] = "killed"
               PROVE  h'[p].req.op \in CrashOps
    OBVIOUS
  <2>1. IInv
    BY DEF TurnInv
  <2>2. CASE pc[p] = "killed"
    BY <2>1, <2>2, KilledStays
  <2>3. CASE pc[p] # "killed"
    <3>1. PICK q \in Procs : Steps(q)
      BY <2>3 DEF Next, AllStopped, Steps, vars
    <3>2. Crash(p)
      BY <2>1, <2>3, <3>1, OnlyCrashKills, Others
    <3> QED  BY <3>2 DEF Crash, files
  <2> QED  BY <2>2, <2>3
<1>3. K => ~HalfDeleted
  BY DEF NoHalfDelete, HalfDeleted
<1> QED  BY <1>1, <1>2, <1>3, TurnInvariance, PTL DEF Spec
-----------------------------------------------------------------------------
(* What a process finds that gets a list next.                              *)

\* A process that changes a chain holds the write lock on it.
LEMMA ChainWriter ==
  ASSUME NEW on, NEW rk, Lists(on, rk), NEW p \in Procs,
         Away(p) \/ pc[p] \in {"dfree", "didx", "dhead", "dprev"}
  PROVE  p \in wr[ChainOf(p)]
<1>1. OpAt(p) /\ Control(h[p], pc[p]) /\ LocksAt(p)
  BY Known DEF Lists, TurnInv, Turn, Away, Stopped, LatePcs, FreePcs, HandleOK
<1>2. HasChain(p) /\ h[p].req.op # "fetch"
  BY <1>1 DEF Away, HasChain, OpAt, Stopped, DeletePcs, LatePcs, FreePcs, Replaces
<1> QED  BY <1>1, <1>2 DEF LocksAt

\* Where no record is being taken off, following the pointers meets the list.
LEMMA ListIsOnTrail ==
  ASSUME NEW on, NEW rk, Lists(on, rk), NEW b \in ChainPtrs, \A p \in Procs : \A n : ~Cuts(p, b, n)
  PROVE  OnTrail(head[b]) = on[b] /\ Ends(head[b])
<1>1. FilesOK /\ Ghosts(on, rk) /\ Linked(on, rk)
  BY DEF Lists, TurnInv, IInv, TypeOK, Chained
<1>2. /\ on[b] \in SUBSET DOMAIN idx /\ rk[b] \in [Nat -> Nat] /\ Ranked(on[b], rk[b])
      /\ First(on[b], rk[b], head[b]) /\ \A n \in on[b] : After(on[b], rk[b], n, idx[n].ptr)
  BY <1>1 DEF Ghosts, Linked
<1>3. head[b] \in Nat
  BY <1>1, SlotsAre DEF FilesOK
<1> QED  BY <1>1, <1>2, <1>3, ListIsTrail

\* A chain that nobody has a write lock on holds the map.
LEMMA ChainIsMap ==
  ASSUME NEW on, NEW rk, Lists(on, rk), NEW c \in Chains, wr[c] = {}
  PROVE  /\ OnTrail(head[c]) = on[c] /\ Ends(head[c])
         /\ \A n \in on[c] : Current(c, n) /\ dat[idx[n].datoff].val = map[idx[n].key]
         /\ \A k \in Keys : Hash[k] = c /\ map[k] # Blank => \E n \in on[c] : idx[n].key = k
<1>1. c \in ChainPtrs /\ OnChains(on) /\ InMap(on)
  BY DEF ChainPtrs, Lists, Chained
<1>2. ASSUME NEW p \in Procs, NEW n, Cuts(p, c, n) \/ Wipes(p, c, n) PROVE FALSE
  BY <1>2, ChainWriter DEF Cuts, Wipes
<1>3. ASSUME NEW p \in Procs, Away(p), Hash[h[p].req.key] = c PROVE FALSE
  BY <1>3, ChainWriter DEF ChainOf
<1>4. OnTrail(head[c]) = on[c] /\ Ends(head[c])
  BY <1>1, <1>2, ListIsOnTrail
<1>5. ASSUME NEW n \in on[c] PROVE Current(c, n) /\ dat[idx[n].datoff].val = map[idx[n].key]
  BY <1>1, <1>2 DEF OnChains, Current
<1>6. ASSUME NEW k \in Keys, Hash[k] = c, map[k] # Blank PROVE \E n \in on[c] : idx[n].key = k
  BY <1>1, <1>3, <1>6 DEF InMap
<1> QED  BY <1>4, <1>5, <1>6

\* A reader that gets the lock of a hash chain finds a list of exactly the committed
\* records, whatever inserts, deletes, reuses and replacements by other sizes went
\* before, and whatever readers and db_store of a new key were killed in the middle,
\* unless some process was killed that may have been deleting.
THEOREM ChainsAreTheMap == Spec => [](HalfDeleted \/ ChainsHoldMap)
<1>1. ApartInv /\ TurnInv /\ ChainsInv => ChainsHoldMap
  <2> SUFFICES ASSUME ApartInv, TurnInv, ChainsInv, NEW c \in Chains, wr[c] = {}
               PROVE  LET on == OnTrail(head[c]) IN
                      /\ Ends(head[c])
                      /\ \A n \in on :
                           /\ n \in DOMAIN idx /\ idx[n].datoff \in DOMAIN dat
                           /\ idx[n].key \in Keys
                           /\ Hash[idx[n].key] = c
                           /\ map[idx[n].key] # Blank
                           /\ dat[idx[n].datoff].val = map[idx[n].key]
                           /\ dat[idx[n].datoff].len = idx[n].datlen
                           /\ \A m \in on : idx[m].key = idx[n].key => m = n
                      /\ \A k \in Keys : Hash[k] = c /\ map[k] # Blank => \E n \in on : idx[n].key = k
    BY DEF ChainsHoldMap
  <2>1. PICK on, rk : Lists(on, rk)
    BY DEF ChainsInv, Lists
  <2>2. /\ OnTrail(head[c]) = on[c] /\ Ends(head[c])
        /\ \A n \in on[c] : Current(c, n) /\ dat[idx[n].datoff].val = map[idx[n].key]
        /\ \A k \in Keys : Hash[k] = c /\ map[k] # Blank => \E n \in on[c] : idx[n].key = k
    BY <2>1, ChainIsMap
  <2>3. ASSUME NEW n \in on[c]
        PROVE  /\ n \in DOMAIN idx /\ idx[n].datoff \in DOMAIN dat
               /\ dat[idx[n].datoff].len = idx[n].datlen
    <3>1. c \in ChainPtrs
      BY DEF ChainPtrs
    <3>2. n \in DOMAIN idx /\ idx[n].datoff \in DOMAIN dat
      BY <2>1, <3>1, OnList
    <3>3. dat[idx[n].datoff].room = idx[n].datlen /\ dat[idx[n].datoff].len = dat[idx[n].datoff].room
      BY <3>2 DEF ApartInv, FitInv, DataFits, RecordsReadable, RecordsFit
    <3> QED  BY <3>2, <3>3
  <2>4. \A m, n \in on[c] : idx[m].key = idx[n].key => m = n
    BY <2>1 DEF Lists, Chained, OnChains
  <2> QED  BY <2>2, <2>3, <2>4 DEF Current
<1> QED  BY <1>1, ChainsInvariance, PTL

\* No record is in two places: the free list, when it is not locked, is a list of blank
\* records that no hash chain leads to and no db_store has taken, so _db_findfree never
\* gives a record away that is still in use; again unless a deletion was cut off.
THEOREM RecordsAreUnshared == Spec => [](HalfDeleted \/ RecordsUnshared)
<1>1. ApartInv /\ TurnInv /\ ChainsInv => FreeListHoldsFree
  <2> SUFFICES ASSUME ApartInv, TurnInv, ChainsInv, wr[FREE] = {}
               PROVE  LET free == OnTrail(head[FREE]) IN
                      /\ Ends(head[FREE])
                      /\ \A n \in free :
                           /\ idx[n].key = Blank
                           /\ dat[idx[n].datoff].val = Blank
                           /\ \A c \in Chains : wr[c] = {} => n \notin OnTrail(head[c])
                           /\ \A p \in Procs : pc[p] \in {"rdat", "ridx", "link"} => h[p].idxoff # n
    BY DEF FreeListHoldsFree
  <2>1. PICK on, rk : Lists(on, rk)
    BY DEF ChainsInv, Lists
  <2>2. FREE \in ChainPtrs /\ OnFree(on) /\ \A c \in Chains : c \in ChainPtrs /\ FREE \in ChainPtrs \ {c}
    BY <2>1, LocksDistinct DEF ChainPtrs, Lists, Chained
  <2>3. ASSUME NEW p \in Procs, NEW b \in ChainPtrs, NEW n, Cuts(p, b, n) PROVE FALSE
    <3>1. HasFree(p)
      BY <2>1, <2>3, CutsKnown
    <3> QED  BY <3>1 DEF TurnInv, Turn, LocksAt
  <2>4. OnTrail(head[FREE]) = on[FREE] /\ Ends(head[FREE])
    BY <2>1, <2>2, <2>3, ListIsOnTrail
  <2>5. ASSUME NEW n \in on[FREE], NEW c \in Chains PROVE n \notin OnTrail(head[c])
    <3>1. OnTrail(head[c]) = on[c]
      BY <2>1, <2>2, <2>3, ListIsOnTrail
    <3>2. n \in on[c] => \E p \in Procs : Cuts(p, c, n)
      BY <2>1, <2>2, OnOneList
    <3> QED  BY <2>2, <2>3, <3>1, <3>2
  <2>6. ASSUME NEW n \in on[FREE], NEW p \in Procs, pc[p] \in {"rdat", "ridx", "link"}
        PROVE  h[p].idxoff # n
    <3>1. Takes(p) /\ Owns(p, on, rk)
      BY <2>1, <2>6 DEF Takes, Lists, Chained, Knows
    <3> QED  BY <2>2, <3>1 DEF Owns
  <2> QED  BY <2>2, <2>4, <2>5, <2>6 DEF OnFree
<1>2. ApartInv /\ TurnInv /\ ChainsInv => RecordsUnshared
  BY <1>1 DEF RecordsUnshared, ApartInv
<1> QED  BY <1>2, ChainsInvariance, PTL

\* No record is lost: when nobody is inside the library and nobody ended there, every
\* record of the index file is on exactly one hash chain or on the free list.
THEOREM RecordsAreKept == Spec => []NoRecordLost
<1>1. ApartInv /\ TurnInv /\ ChainsInv => NoRecordLost
  <2> SUFFICES ASSUME ApartInv, TurnInv, ChainsInv, \A p \in Procs : pc[p] \in {"idle", "closed"},
                      NEW n \in DOMAIN idx
               PROVE  Cardinality({c \in ChainPtrs : n \in OnTrail(head[c])}) = 1
    BY DEF NoRecordLost
  <2>1. PICK on, rk : Lists(on, rk)
    BY DEF ChainsInv, Lists
  <2>2. \A p \in Procs : ~Takes(p) /\ \A b, m : ~Cuts(p, b, m)
    BY DEF Takes, Cuts
  <2>3. \A b \in ChainPtrs : OnTrail(head[b]) = on[b]
    BY <2>1, <2>2, ListIsOnTrail
  <2>4. PICK b \in ChainPtrs : n \in on[b]
    BY <2>1, <2>2 DEF Lists, Chained, Kept
  <2>5. ASSUME NEW a \in ChainPtrs, n \in on[a], a # b PROVE FALSE
    <3>1. a \in Chains \/ b \in Chains
      BY <2>5 DEF ChainPtrs
    <3> QED  BY <2>1, <2>2, <2>4, <2>5, <3>1, OnOneList
  <2>6. {c \in ChainPtrs : n \in OnTrail(head[c])} = {b}
    BY <2>3, <2>4, <2>5
  <2> QED  BY <2>6, FS_Singleton
<1>2. HalfDeleted => NoRecordLost
  BY DEF HalfDeleted, NoRecordLost
<1> QED  BY <1>1, <1>2, ChainsInvariance, PTL
-----------------------------------------------------------------------------
(* Every call is atomic: the steps of Db as steps of DbMap.                 *)

\* The call of DbMap that a process with handle q at l is in.
AbsOf(q, l) ==
  IF l = "idle" THEN [st |-> "idle"]
  ELSE IF l \in Stopped THEN [st |-> "ended", req |-> IF q.rc.st = "pending" THEN q.req ELSE NoReq]
  ELSE IF q.rc.st = "pending" THEN [st |-> "called", req |-> q.req]
  ELSE [st |-> "done", req |-> q.req, rc |-> q.rc]

\* The four kinds of call.
LEMMA AbsIs ==
  ASSUME NEW q, NEW l
  PROVE  /\ l = "idle" => AbsOf(q, l) = [st |-> "idle"]
         /\ l \in Stopped =>
              AbsOf(q, l) = [st |-> "ended", req |-> IF q.rc.st = "pending" THEN q.req ELSE NoReq]
         /\ l \notin {"idle"} \cup Stopped /\ q.rc.st = "pending" =>
              AbsOf(q, l) = [st |-> "called", req |-> q.req]
         /\ l \notin {"idle"} \cup Stopped /\ q.rc.st # "pending" =>
              AbsOf(q, l) = [st |-> "done", req |-> q.req, rc |-> q.rc]
<1>1. l = "idle" => AbsOf(q, l) = [st |-> "idle"]
  BY DEF AbsOf
<1>2. l \in Stopped =>
        AbsOf(q, l) = [st |-> "ended", req |-> IF q.rc.st = "pending" THEN q.req ELSE NoReq]
  BY DEF AbsOf, Stopped
<1>3. l \notin {"idle"} \cup Stopped /\ q.rc.st = "pending" =>
        AbsOf(q, l) = [st |-> "called", req |-> q.req]
  BY DEF AbsOf
<1>4. l \notin {"idle"} \cup Stopped /\ q.rc.st # "pending" =>
        AbsOf(q, l) = [st |-> "done", req |-> q.req, rc |-> q.rc]
  BY DEF AbsOf
<1> QED  BY <1>1, <1>2, <1>3, <1>4

\* A process of Db is in the call that its handle says.
LEMMA CallIs ==
  ASSUME NEW p \in Procs
  PROVE  AbsCall[p] = AbsOf(h[p], pc[p])
BY DEF AbsCall, AbsOf

\* A step of process p is a step of its call.
LEMMA CallBecomes ==
  ASSUME IInv, NEW p \in Procs, Steps(p)
  PROVE  AbsCall' = [AbsCall EXCEPT ![p] = AbsOf(h'[p], pc'[p])]
<1>1. \A q \in Procs \ {p} : h'[q] = h[q] /\ pc'[q] = pc[q]
  BY Others
<1>2. AbsCall = [q \in Procs |-> AbsOf(h[q], pc[q])] /\ AbsCall' = [q \in Procs |-> AbsOf(h'[q], pc'[q])]
  BY DEF AbsCall, AbsOf
<1>3. \A q \in Procs \ {p} : AbsOf(h'[q], pc'[q]) = AbsOf(h[q], pc[q])
  BY <1>1
<1> QED  BY <1>2, <1>3

\* Process p is inside the library.
Inside(p) == pc[p] \notin {"idle"} \cup Stopped

\* In the middle of a call nothing happens to it until it is answered, ...
LEMMA GoesOn ==
  ASSUME TurnInv, TurnInv', NEW p \in Procs, Steps(p), Inside(p), Inside(p)',
         h'[p].req = h[p].req, map' = map,
         (~Answered(p) /\ ~Answered(p)') \/ h'[p].rc = h[p].rc
  PROVE  UNCHANGED Abstract!vars
<1>1. (h[p].rc.st = "pending" /\ h'[p].rc.st = "pending") \/ h'[p].rc = h[p].rc
  BY DEF TurnInv, Turn, Inside
<1>2. AbsCall' = [AbsCall EXCEPT ![p] = AbsOf(h'[p], pc'[p])] /\ AbsCall[p] = AbsOf(h[p], pc[p])
  BY CallIs, CallBecomes DEF TurnInv
<1>3. AbsOf(h'[p], pc'[p]) = AbsOf(h[p], pc[p])
  BY <1>1 DEF AbsOf, Inside
<1>4. AbsCall \in [Procs -> {AbsOf(h[q], pc[q]) : q \in Procs}]
  BY DEF AbsCall, AbsOf
<1>5. AbsCall' = AbsCall
  BY <1>2, <1>3, <1>4
<1> QED  BY <1>5 DEF Abstract!vars

Answers(p) ==
  /\ AbsCall[p] = [st |-> "called", req |-> h[p].req]
  /\ AbsCall' = [AbsCall EXCEPT ![p] = [st |-> "done", req |-> h[p].req, rc |-> h'[p].rc]]
\* ... which is where it takes effect.
LEMMA IsAnswered ==
  ASSUME TurnInv, TurnInv', NEW p \in Procs, Steps(p), Inside(p), Inside(p)',
         h'[p].req = h[p].req, ~Answered(p), Answered(p)'
  PROVE  Answers(p)
<1>1. h[p].rc.st = "pending" /\ h'[p].rc.st # "pending"
  BY DEF TurnInv, Turn, Inside
<1>2. AbsCall' = [AbsCall EXCEPT ![p] = AbsOf(h'[p], pc'[p])] /\ AbsCall[p] = AbsOf(h[p], pc[p])
  BY CallIs, CallBecomes DEF TurnInv
<1> QED  BY <1>1, <1>2 DEF AbsOf, Inside, Answers

-----------------------------------------------------------------------------
(* The answers.                                                             *)

\* The key is not there.
LEMMA MissTakes ==
  ASSUME NEW p \in Procs, Answers(p), map' = map, map[h[p].req.key] = Blank,
         \/ h[p].req.op \in {"fetch", "delete"} /\ h'[p].rc = Rc("none", Blank, Blank)
         \/ h[p].req.op = "replace" /\ h'[p].rc = Rc("enoent", Blank, Blank)
  PROVE  Abstract!Take(p)
<1>1. ~Abstract!Present(p) /\ AbsCall[p].req = h[p].req /\ AbsCall[p].st = "called"
  BY DEF Answers, Abstract!Present
<1>2. CASE h[p].req.op = "fetch" /\ h'[p].rc = Rc("none", Blank, Blank)
  BY <1>1, <1>2 DEF Answers, Abstract!Take, Abstract!Fetch, Abstract!Effect, Abstract!None, Rc
<1>3. CASE h[p].req.op = "delete" /\ h'[p].rc = Rc("none", Blank, Blank)
  BY <1>1, <1>3 DEF Answers, Abstract!Take, Abstract!Delete, Abstract!Effect, Abstract!None, Rc
<1>4. CASE h[p].req.op = "replace" /\ h'[p].rc = Rc("enoent", Blank, Blank)
  <2>1. Abstract!Answer("enoent") = h'[p].rc
    BY <1>4 DEF Abstract!Answer, Abstract!None, Rc
  <2>2. Abstract!Effect(p, Abstract!Answer("enoent"), map)
    BY <1>1, <2>1 DEF Answers, Abstract!Effect
  <2> QED  BY <1>1, <1>4, <2>2 DEF Abstract!Take, Abstract!Store, Abstract!Stores
<1> QED  BY <1>2, <1>3, <1>4

\* The key is there.
LEMMA HitTakes ==
  ASSUME NEW p \in Procs, Answers(p), map' = map, map[h[p].req.key] # Blank,
         \/ h[p].req.op = "fetch" /\ h'[p].rc = Rc("ok", h[p].req.key, map[h[p].req.key])
         \/ h[p].req.op = "insert" /\ h'[p].rc = Rc("exists", Blank, Blank)
  PROVE  Abstract!Take(p)
<1>1. Abstract!Present(p) /\ AbsCall[p].req = h[p].req /\ AbsCall[p].st = "called"
  BY DEF Answers, Abstract!Present
<1>2. CASE h[p].req.op = "fetch" /\ h'[p].rc = Rc("ok", h[p].req.key, map[h[p].req.key])
  BY <1>1, <1>2 DEF Answers, Abstract!Take, Abstract!Fetch, Abstract!Effect, Rc
<1>3. CASE h[p].req.op = "insert" /\ h'[p].rc = Rc("exists", Blank, Blank)
  <2>1. Abstract!Answer("exists") = h'[p].rc
    BY <1>3 DEF Abstract!Answer, Abstract!None, Rc
  <2>2. Abstract!Effect(p, Abstract!Answer("exists"), map)
    BY <1>1, <2>1 DEF Answers, Abstract!Effect
  <2> QED  BY <1>1, <1>3, <2>2 DEF Abstract!Take, Abstract!Store, Abstract!Stores
<1> QED  BY <1>2, <1>3

\* The map changes.
LEMMA UpdateTakes ==
  ASSUME NEW p \in Procs, Answers(p), h'[p].rc = Rc("ok", Blank, Blank),
         \/ h[p].req.op = "delete" /\ map[h[p].req.key] # Blank /\ map' = [map EXCEPT ![h[p].req.key] = Blank]
         \/ /\ h[p].req.op = "insert" => map[h[p].req.key] = Blank
            /\ h[p].req.op = "replace" => map[h[p].req.key] # Blank
            /\ h[p].req.op \in StoreOps /\ map' = [map EXCEPT ![h[p].req.key] = h[p].req.val]
  PROVE  Abstract!Take(p)
<1>1. /\ AbsCall[p].req = h[p].req /\ AbsCall[p].st = "called" /\ Abstract!Answer("ok") = h'[p].rc
      /\ Abstract!Present(p) <=> map[h[p].req.key] # Blank
  BY DEF Answers, Abstract!Present, Abstract!Answer, Abstract!None, Rc
<1>2. CASE h[p].req.op = "delete" /\ map[h[p].req.key] # Blank /\ map' = [map EXCEPT ![h[p].req.key] = Blank]
  <2>1. Abstract!Effect(p, Abstract!Answer("ok"), Abstract!Put(p, Blank))
    BY <1>1, <1>2 DEF Answers, Abstract!Effect, Abstract!Put
  <2> QED  BY <1>1, <1>2, <2>1 DEF Abstract!Take, Abstract!Delete
<1>3. CASE /\ h[p].req.op = "insert" => map[h[p].req.key] = Blank
           /\ h[p].req.op = "replace" => map[h[p].req.key] # Blank
           /\ h[p].req.op \in StoreOps /\ map' = [map EXCEPT ![h[p].req.key] = h[p].req.val]
  <2>1. Abstract!Effect(p, Abstract!Answer("ok"), Abstract!Put(p, AbsCall[p].req.val))
    BY <1>1, <1>3 DEF Answers, Abstract!Effect, Abstract!Put
  <2> QED  BY <1>1, <1>3, <2>1 DEF Abstract!Take, Abstract!Store, Abstract!Stores, StoreOps
<1> QED  BY <1>2, <1>3

\* db_nextrec returns a record of the map or one that is being stored, or none.
LEMMA ScanTakes ==
  ASSUME NEW p \in Procs, Answers(p), map' = map, h[p].req.op = "nextrec",
         \/ h'[p].rc = Rc("none", Blank, Blank)
         \/ \E k \in Keys, v \in Values :
              /\ h'[p].rc = Rc("ok", k, v)
              /\ map[k] = v \/ \E q \in Procs : \E n : Leaves(q, n) /\ h[q].req.key = k /\ h[q].req.val = v
  PROVE  Abstract!Take(p)
<1>1. AbsCall[p].req = h[p].req /\ AbsCall[p].st = "called"
  BY DEF Answers
<1>2. CASE h'[p].rc = Rc("none", Blank, Blank)
  BY <1>1, <1>2 DEF Answers, Abstract!Take, Abstract!NextRec, Abstract!Effect, Abstract!None, Rc
<1>3. ASSUME NEW k \in Keys, NEW v \in Values, h'[p].rc = Rc("ok", k, v),
             map[k] = v \/ \E q \in Procs : \E n : Leaves(q, n) /\ h[q].req.key = k /\ h[q].req.val = v
      PROVE  Abstract!Take(p)
  <2>1. map[k] = v \/ Abstract!InFlight(k, v)
    <3> SUFFICES ASSUME NEW n, NEW q \in Procs, Leaves(q, n), h[q].req.key = k, h[q].req.val = v
                 PROVE  Abstract!InFlight(k, v)
      BY <1>3
    <3>1. h[q].rc.st = "pending" /\ pc[q] \in {"aiunlock", "link", "killed", "quit"} /\ h[q].req.op \in StoreOps
      BY DEF Leaves
    <3>2. AbsOf(h[q], pc[q]).st \in {"called", "ended"} /\ AbsOf(h[q], pc[q]).req = h[q].req
      BY <3>1 DEF AbsOf, Stopped
    <3> QED  BY <3>1, <3>2, CallIs DEF Abstract!InFlight, Abstract!Stores, StoreOps
  <2>2. Abstract!Effect(p, [st |-> "ok", key |-> k, val |-> v], map)
    BY <1>1, <1>3 DEF Answers, Abstract!Effect, Rc
  <2> QED  BY <1>1, <2>1, <2>2 DEF Abstract!Take, Abstract!NextRec
<1> QED  BY <1>2, <1>3
-----------------------------------------------------------------------------
(* The steps.                                                               *)

\* A call begins, returns, or the process ends.
LEMMA AbsCalls ==
  ASSUME TurnInv, NEW p \in Procs, Call(p) \/ db_rewind(p) \/ Return(p) \/ NextUnlock(p)
  PROVE  Abstract!Next \/ UNCHANGED Abstract!vars
<1>1. /\ IInv /\ h \in [Procs -> Handles] /\ pc \in [Procs -> Labels] /\ Turn(p)
      /\ h[p] \in Handles
  BY Known DEF TurnInv
<1>2. Steps(p) /\ map' = map
  BY DEF Steps, Step, Call, db_rewind, Return, NextUnlock
<1>3. AbsCall' = [AbsCall EXCEPT ![p] = AbsOf(h'[p], pc'[p])] /\ AbsCall[p] = AbsOf(h[p], pc[p])
  BY <1>1, <1>2, CallIs, CallBecomes
<1>4. CASE Call(p)
  <2>1. PICK r \in Menu[p][ops[p] + 1] :
          /\ Goto(p, "idle", FirstCall(r.op))
          /\ h' = [h EXCEPT ![p].req = r, ![p].phase = IF r.op = "nextrec" THEN "scan" ELSE "find"]
    BY <1>4 DEF Call
  <2>2. r \in Requests
    <3>1. ops[p] \in Nat /\ ops[p] < Len(Menu[p])
      BY <1>1, <1>4 DEF IInv, TypeOK, ProcsOK, Call
    <3>2. Menu[p] \in Seq(SUBSET Requests)
      BY MenuTyped
    <3>3. Menu[p][ops[p] + 1] \in SUBSET Requests
      BY <3>1, <3>2
    <3> QED  BY <2>1, <3>3
  <2>3. pc[p] = "idle" /\ pc'[p] \in {"nlock", "lockchain"} /\ h'[p].req = r /\ h'[p].rc = h[p].rc
    BY <1>1, <2>1 DEF Goto, FirstCall, Handles
  <2>4. h[p].rc.st = "pending"
    BY <1>1, <2>3 DEF Turn
  <2>5. AbsOf(h'[p], pc'[p]) = [st |-> "called", req |-> r] /\ AbsCall[p].st = "idle"
    BY <1>3, <2>3, <2>4, AbsIs DEF Stopped
  <2>6. Abstract!Invoke(p)
    BY <1>2, <1>3, <2>2, <2>5 DEF Abstract!Invoke
  <2> QED  BY <2>6 DEF Abstract!Next
<1>5. CASE db_rewind(p)
  <2>1. pc[p] = "idle" /\ pc'[p] = "idle"
    BY <1>5 DEF db_rewind
  <2>2. AbsOf(h'[p], pc'[p]) = AbsOf(h[p], pc[p])
    BY <2>1, AbsIs
  <2>3. AbsCall' = AbsCall
    BY <1>3, <2>2 DEF AbsCall
  <2> QED  BY <1>2, <2>3 DEF Abstract!vars
<1>6. CASE Return(p) \/ NextUnlock(p)
  <2>1. pc[p] \in {"unlock", "nunlock"} /\ pc'[p] = "idle"
    BY <1>1, <1>6 DEF Return, NextUnlock, Goto
  <2>2. h[p].rc.st # "pending"
    BY <1>1, <2>1 DEF Turn, Answered, Stopped
  <2>3. AbsOf(h'[p], pc'[p]) = [st |-> "idle"] /\ AbsCall[p].st = "done"
    BY <1>3, <2>1, <2>2, AbsIs DEF Stopped
  <2>4. Abstract!Return(p)
    BY <1>2, <1>3, <2>3 DEF Abstract!Return
  <2> QED  BY <2>4 DEF Abstract!Next
<1> QED  BY <1>4, <1>5, <1>6

\* The process ends.  Only the end of the index file makes the map lose a key with it.
LEMMA AbsEnds ==
  ASSUME TurnInv, NEW p \in Procs, Steps(p), pc'[p] \in Stopped
  PROVE  Abstract!Next
<1>1. /\ IInv /\ h \in [Procs -> Handles] /\ pc \in [Procs -> Labels] /\ Turn(p) /\ h[p] \in Handles
      /\ pc[p] \notin Stopped /\ Control(h[p], pc[p])
  BY Known, Running DEF TurnInv, HandleOK
<1>2. /\ h' = h
      /\ \/ map' = map
         \/ /\ pc[p] = "link" /\ h[p].phase = "find" /\ map' = [map EXCEPT ![h[p].req.key] = Blank]
  <2> USE <1>1 DEF Goto, Stopped
  <2>1. CASE Call(p) \/ db_rewind(p) \/ Return(p) \/ NextLock(p) \/ NextUnlock(p) \/ LockChain(p)
    BY <2>1 DEF Call, FirstCall, db_rewind, Return, NextLock, NextUnlock, LockChain
  <2>2. CASE db_close(p) \/ Crash(p)
    BY <2>2 DEF db_close, Crash
  <2>3. CASE FindPtr(p)
    <3>1. pc'[p] \in {Miss(p).to, "hdr"}
      BY <2>3 DEF FindPtr
    <3> QED  BY <3>1 DEF Miss
  <2>4. CASE ReadHdr(p) \/ ReadDat(p)
    BY <2>4 DEF ReadHdr, ReadDat, ErrDump
  <2>5. CASE ReadRec(p)
    <3>1. RecHit(p) \/ RecNext(p) \/ RecMiss(p) \/ RecFits(p) \/ RecNone(p) \/ RecScan(p)
      BY <2>5, RecOutcomes
    <3>2. pc'[p] \in {Hit(p, RecRead(p).datlen).to, Miss(p).to, "hdr", "funlink", "funlock", "readdat"}
      BY <3>1 DEF RecHit, RecNext, RecMiss, RecFits, RecNone, RecScan
    <3> QED  BY <3>2 DEF Hit, Miss
  <2>6. CASE DoDelete(p) \/ FindFree(p)
    BY <2>6 DEF DoDelete, DeleteLock, DeleteDat, DeleteFree, DeleteIdx, DeleteHead, DeletePrev,
       DeleteUnlock, FindFree, FreeLock, FreePtr, FreeUnlink, FreeUnlock
  <2>7. CASE AppendRec(p)
    BY <2>7 DEF AppendRec, AppendDatLock, AppendDatSeek, AppendDat, AppendDatUnlock, AppendIdxLock,
       AppendIdxSeek, AppendIdx, AppendIdxUnlock
  <2>8. CASE ChainHead(p) \/ ReuseDat(p) \/ ReuseIdx(p) \/ Link(p) \/ OverwriteDat(p)
    BY <2>8 DEF ChainHead, ReuseDat, ReuseIdx, Link, OverwriteDat
  <2>9. CASE LinkTooFar(p)
    BY <2>9 DEF LinkTooFar
  <2> QED  BY <2>1, <2>2, <2>3, <2>4, <2>5, <2>6, <2>7, <2>8, <2>9 DEF Steps, Step, Find, Store
<1>3. AbsCall' = [AbsCall EXCEPT ![p] = AbsOf(h[p], pc'[p])] /\ AbsCall[p] = AbsOf(h[p], pc[p])
  BY <1>1, <1>2, CallIs, CallBecomes
<1>4. AbsOf(h[p], pc'[p]) = [st |-> "ended", req |-> IF h[p].rc.st = "pending" THEN h[p].req ELSE NoReq]
  BY AbsIs
<1>5. /\ AbsCall[p].st # "ended"
      /\ (IF h[p].rc.st = "pending" THEN h[p].req ELSE NoReq)
           = (IF AbsCall[p].st = "called" THEN AbsCall[p].req ELSE NoReq)
  <2>1. CASE pc[p] = "idle"
    <3>1. AbsCall[p].st = "idle"
      BY <1>3, <2>1, AbsIs
    <3>2. h[p].req = NoReq
      BY <1>1, <2>1 DEF Turn
    <3> QED  BY <3>1, <3>2
  <2>2. CASE pc[p] # "idle" /\ h[p].rc.st = "pending"
    <3>1. AbsCall[p].st = "called" /\ AbsCall[p].req = h[p].req
      BY <1>1, <1>3, <2>2, AbsIs
    <3> QED  BY <2>2, <3>1
  <2>3. CASE pc[p] # "idle" /\ h[p].rc.st # "pending"
    <3>1. AbsCall[p].st = "done"
      BY <1>1, <1>3, <2>3, AbsIs
    <3> QED  BY <2>3, <3>1
  <2> QED  BY <2>1, <2>2, <2>3
<1>6. map' = map \/ (AbsCall[p].st = "called" /\ AbsCall[p].req.op \in {"replace", "store"}
                     /\ map' = Abstract!Put(p, Blank))
  <2> SUFFICES ASSUME pc[p] = "link", h[p].phase = "find", map' = [map EXCEPT ![h[p].req.key] = Blank]
               PROVE  /\ AbsCall[p].st = "called" /\ AbsCall[p].req.op \in {"replace", "store"}
                      /\ map' = Abstract!Put(p, Blank)
    BY <1>2
  <2>1. h[p].rc.st = "pending" /\ h[p].req.op \in Replaces
    BY <1>1 DEF Turn, OpAt, Answered, Stopped, LatePcs
  <2>2. AbsCall[p] = [st |-> "called", req |-> h[p].req]
    BY <1>1, <1>3, <2>1, AbsIs
  <2> QED  BY <2>1, <2>2 DEF Replaces, Abstract!Put
<1>7. Abstract!End(p)
  BY <1>3, <1>4, <1>5, <1>6 DEF Abstract!End, NoReq
<1> QED  BY <1>7 DEF Abstract!Next

\* A step on the way.
LEMMA AbsOnWay ==
  ASSUME TurnInv, TurnInv', NEW p \in Procs,
         \/ NextLock(p) \/ LockChain(p) \/ FindFree(p) \/ AppendRec(p)
         \/ (DoDelete(p) /\ ~DeletePrev(p)) \/ ChainHead(p) \/ ReuseDat(p) \/ ReuseIdx(p)
  PROVE  UNCHANGED Abstract!vars
<1>1. IInv /\ h \in [Procs -> Handles] /\ pc \in [Procs -> Labels] /\ h[p] \in Handles
  BY Known DEF TurnInv
<1>2. Steps(p) /\ map' = map
  BY DEF Steps, Step, Find, Store, NextLock, LockChain, FindFree, FreeLock, FreePtr, FreeUnlink, FreeUnlock,
     DoDelete, DeleteLock, DeleteDat, DeleteFree, DeleteIdx, DeleteHead, DeleteUnlock, AppendRec,
     AppendDatLock, AppendDatSeek, AppendDat, AppendDatUnlock, AppendIdxLock, AppendIdxSeek, AppendIdx,
     AppendIdxUnlock, ChainHead, ReuseDat, ReuseIdx
<1>3. ~Call(p) /\ ~Return(p) /\ ~NextUnlock(p) /\ h'[p].req = h[p].req
  <2>1. pc[p] \notin {"idle", "unlock", "nunlock"}
    BY DEF NextLock, LockChain, FindFree, FreeLock, FreePtr, FreeUnlink, FreeUnlock,
       DoDelete, DeleteLock, DeleteDat, DeleteFree, DeleteIdx, DeleteHead, DeletePrev, DeleteUnlock, AppendRec,
       AppendDatLock, AppendDatSeek, AppendDat, AppendDatUnlock, AppendIdxLock, AppendIdxSeek, AppendIdx,
       AppendIdxUnlock, ChainHead, ReuseDat, ReuseIdx, Goto
  <2>2. ~Call(p) /\ ~Return(p) /\ ~NextUnlock(p)
    BY <2>1 DEF Call, Return, NextUnlock, Goto
  <2> QED  BY <1>1, <1>2, <2>2, RequestStays
<1>4. CASE DeleteUnlock(p)
  <2>1. Inside(p) /\ Inside(p)' /\ h'[p].rc = h[p].rc
    BY <1>1, <1>4 DEF DeleteUnlock, Goto, Inside, Stopped
  <2> QED  BY <1>2, <1>3, <2>1, GoesOn
<1>5. CASE ~DeleteUnlock(p)
  <2> DEFINE On == {"nlock", "hdr", "lockchain", "findptr", "flock", "fptr", "funlink", "funlock", "adlock", "rdat",
                    "adseek", "adwrite", "adunlock", "ailock", "aiseek", "aiwrite", "aiunlock", "link", "dlock",
                    "ddat", "dfree", "didx", "dhead", "dprev", "chead", "ridx"}
  <2>1. pc[p] \in On /\ pc'[p] \in On
    <3> USE <1>1 DEF Goto
    <3>1. CASE NextLock(p) \/ LockChain(p) \/ ChainHead(p) \/ ReuseDat(p) \/ ReuseIdx(p)
      BY <3>1 DEF NextLock, LockChain, ChainHead, ReuseDat, ReuseIdx
    <3>2. CASE FindFree(p)
      BY <3>2 DEF FindFree, FreeLock, FreePtr, FreeUnlink, FreeUnlock
    <3>3. CASE AppendRec(p)
      BY <3>3 DEF AppendRec, AppendDatLock, AppendDatSeek, AppendDat, AppendDatUnlock, AppendIdxLock,
         AppendIdxSeek, AppendIdx, AppendIdxUnlock
    <3>4. CASE DoDelete(p) /\ ~DeletePrev(p)
      BY <1>5, <3>4 DEF DoDelete, DeleteLock, DeleteDat, DeleteFree, DeleteIdx, DeleteHead
    <3> QED  BY <3>1, <3>2, <3>3, <3>4
  <2>2. Inside(p) /\ Inside(p)' /\ ~Answered(p) /\ ~Answered(p)'
    BY <2>1 DEF Inside, Answered, Stopped
  <2> QED  BY <1>2, <1>3, <2>2, GoesOn
<1> QED  BY <1>4, <1>5

\* A delete or a store takes effect.
LEMMA AbsUpdates ==
  ASSUME NEW on, NEW rk, Lists(on, rk), TurnInv', NEW p \in Procs,
         DeletePrev(p) \/ Link(p) \/ OverwriteDat(p)
  PROVE  Abstract!Next \/ UNCHANGED Abstract!vars
<1>1. /\ TurnInv /\ IInv /\ h \in [Procs -> Handles] /\ pc \in [Procs -> Labels] /\ h[p] \in Handles
      /\ Turn(p) /\ Control(h[p], pc[p]) /\ Knows(p, on, rk) /\ Steps(p)
  BY Known DEF Lists, TurnInv, Chained, HandleOK, Steps, Step, DoDelete, Store
<1>2. /\ pc[p] \in {"dprev", "link", "odat"} /\ pc'[p] \in {"dunlock", "unlock"}
      /\ h'[p].req = h[p].req
  BY <1>1 DEF DeletePrev, Link, OverwriteDat, Goto, Handles
<1>3. Inside(p) /\ Inside(p)' /\ ~Answered(p) /\ OpAt(p)
  BY <1>1, <1>2 DEF Inside, Answered, Stopped, Turn
<1>4. Abstract!Take(p) => Abstract!Next
  BY DEF Abstract!Next
<1>5. CASE DeletePrev(p)
  <2>1. pc[p] = "dprev" /\ pc'[p] = "dunlock"
    BY <1>1, <1>5 DEF DeletePrev, Goto
  <2>2. CASE h[p].req.op = "delete"
    <3>1. h'[p].rc = Rc("ok", Blank, Blank) /\ map' = [map EXCEPT ![h[p].req.key] = Blank]
      BY <1>1, <1>5, <2>2 DEF DeletePrev, Handles
    <3>2. Answered(p)'
      BY <1>2, <2>1, <2>2 DEF Answered
    <3>3. Answers(p)
      BY <1>1, <1>2, <1>3, <3>2, IsAnswered
    <3>4. map[h[p].req.key] # Blank
      BY <1>1, <1>3, <2>1 DEF Knows, Found, OpAt, DeletePcs
    <3> QED  BY <1>4, <2>2, <3>1, <3>3, <3>4, UpdateTakes
  <2>3. CASE h[p].req.op # "delete"
    <3>1. map' = map
      BY <1>5, <2>3 DEF DeletePrev
    <3>2. ~Answered(p)'
      BY <1>2, <2>1, <2>3 DEF Answered
    <3> QED  BY <1>1, <1>2, <1>3, <3>1, <3>2, GoesOn
  <2> QED  BY <2>2, <2>3
<1>6. CASE Link(p) \/ OverwriteDat(p)
  <2>1. /\ pc[p] \in {"link", "odat"} /\ pc'[p] = "unlock" /\ h'[p].rc = Rc("ok", Blank, Blank)
        /\ map' = [map EXCEPT ![h[p].req.key] = h[p].req.val]
    BY <1>1, <1>6 DEF Link, OverwriteDat, Goto, Handles
  <2>2. Answers(p)
    <3>1. Answered(p)'
      BY <2>1 DEF Answered
    <3> QED  BY <1>1, <1>2, <1>3, <3>1, IsAnswered
  <2>3. h[p].req.op \in StoreOps
    BY <1>1, <2>1 DEF Control, StoreLabels, Stopped
  <2>4. CASE pc[p] = "odat"
    <3>1. h[p].req.op \in Replaces /\ map[h[p].req.key] # Blank
      BY <1>1, <1>3, <2>4 DEF Knows, Found, OpAt
    <3> QED  BY <1>4, <2>1, <2>2, <2>3, <3>1, UpdateTakes DEF Replaces
  <2>5. CASE pc[p] = "link"
    <3>1. map[h[p].req.key] = Blank <=> ~Away(p)
      BY <1>1, <2>5 DEF Knows, Absent, LatePcs
    <3>2. h[p].req.op = "insert" => h[p].phase # "find"
      BY <1>3, <2>5 DEF OpAt, LatePcs, Replaces
    <3>3. h[p].req.op = "replace" => h[p].phase = "find"
      BY <1>1, <1>3, <2>5 DEF OpAt, LatePcs, Handles, Control, Stopped
    <3>4. /\ h[p].req.op = "insert" => map[h[p].req.key] = Blank
          /\ h[p].req.op = "replace" => map[h[p].req.key] # Blank
      BY <2>5, <3>1, <3>2, <3>3 DEF Away, LatePcs, Replaces
    <3> QED  BY <1>4, <2>1, <2>2, <2>3, <3>4, UpdateTakes
  <2> QED  BY <2>1, <2>4, <2>5
<1> QED  BY <1>5, <1>6

\* A read tells that the key is not there, or gives the answer.
LEMMA AbsFinds ==
  ASSUME NEW on, NEW rk, Lists(on, rk), TurnInv', NEW p \in Procs, FindPtr(p) \/ ReadHdr(p) \/ ReadRec(p),
         pc'[p] \notin Stopped
  PROVE  Abstract!Next \/ UNCHANGED Abstract!vars
<1>1. /\ TurnInv /\ IInv /\ h \in [Procs -> Handles] /\ pc \in [Procs -> Labels] /\ h[p] \in Handles
      /\ Turn(p) /\ Control(h[p], pc[p]) /\ Knows(p, on, rk) /\ Steps(p)
  BY Known DEF Lists, TurnInv, Chained, HandleOK, Steps, Step, Find
<1>2. pc[p] \in {"findptr", "hdr", "rec"} /\ map' = map /\ h'[p].req = h[p].req
  <2>1. pc[p] \in {"findptr", "hdr", "rec"} /\ map' = map
    BY DEF FindPtr, ReadHdr, ReadRec, ErrDump
  <2>2. ~Call(p) /\ ~Return(p) /\ ~NextUnlock(p)
    BY <2>1 DEF Call, Return, NextUnlock, Goto
  <2> QED  BY <1>1, <2>1, <2>2, RequestStays
<1>3. Inside(p) /\ ~Answered(p) /\ OpAt(p)
  BY <1>1, <1>2 DEF Inside, Answered, Stopped, Turn
<1>4. Abstract!Take(p) => Abstract!Next
  BY DEF Abstract!Next
<1>5. Inside(p)' /\ ~Answered(p)' => UNCHANGED Abstract!vars
  BY <1>1, <1>2, <1>3, GoesOn
<1>6. Inside(p)' /\ Answered(p)' => Answers(p)
  BY <1>1, <1>2, <1>3, IsAnswered
\* The key is not there.
<1>7. ASSUME pc'[p] = Miss(p).to, h'[p].rc = Miss(p).rc, map[h[p].req.key] = Blank, h[p].phase = "find"
      PROVE  Abstract!Next \/ UNCHANGED Abstract!vars
  <2>1. CASE h[p].req.op \in {"insert", "store"}
    <3>1. pc'[p] = "chead"
      BY <1>7, <2>1 DEF Miss
    <3> QED  BY <1>5, <3>1 DEF Inside, Answered, Stopped
  <2>2. CASE h[p].req.op \notin {"insert", "store"}
    <3>1. /\ pc'[p] = "unlock"
          /\ h'[p].rc = Rc(IF h[p].req.op = "replace" THEN "enoent" ELSE "none", Blank, Blank)
      BY <1>7, <2>2 DEF Miss
    <3>2. h[p].req.op \in {"fetch", "delete", "replace"}
      <4>1. h[p].req \in Requests /\ h[p].req.op # "nextrec"
        BY <1>1, <1>2, <1>7 DEF Control, Stopped
      <4> QED  BY <2>2, <4>1 DEF Requests, StoreOps
    <3>3. Answers(p)
      BY <1>6, <3>1 DEF Inside, Answered, Stopped
    <3> QED  BY <1>2, <1>4, <1>7, <3>1, <3>2, <3>3, MissTakes
  <2> QED  BY <2>1, <2>2
<1>8. CASE FindPtr(p)
  <2>1. pc[p] = "findptr" /\ h[p].phase = "find"
    BY <1>3, <1>8 DEF FindPtr, OpAt
  <2>2. CASE head[ChainOf(p)] = 0
    <3>1. pc'[p] = Miss(p).to /\ h'[p].rc = Miss(p).rc
      BY <1>1, <1>8, <2>2 DEF FindPtr, Goto, Handles
    <3>2. ChainOf(p) \in ChainPtrs /\ HasChain(p) /\ ~Away(p)
      BY <1>1, <2>1, KnownChain DEF ChainPtrs, HasChain, Away, Stopped, LatePcs, FreePcs
    <3>3. on[ChainOf(p)] = {}
      BY <2>2, <3>2 DEF Lists, Chained, Linked, First
    <3>4. map[h[p].req.key] = Blank
      BY <3>2, <3>3, NotInMap
    <3> QED  BY <1>7, <2>1, <3>1, <3>4
  <2>3. CASE head[ChainOf(p)] # 0
    <3>1. pc'[p] = "hdr"
      BY <1>1, <1>8, <2>3 DEF FindPtr, Goto
    <3> QED  BY <1>5, <3>1 DEF Inside, Answered, Stopped
  <2> QED  BY <2>2, <2>3
<1>9. CASE ReadHdr(p)
  <2>1. CASE pc'[p] = "rec"
    BY <1>5, <2>1 DEF Inside, Answered, Stopped
  <2>2. CASE pc'[p] # "rec"
    <3>1. h[p].phase = "scan" /\ pc'[p] = "nunlock" /\ h'[p].rc = Rc("none", Blank, Blank)
      BY <1>1, <1>9, <2>2 DEF ReadHdr, ErrDump, Stop, Goto, Stopped, Handles
    <3>2. h[p].req.op = "nextrec"
      BY <1>1, <1>2, <3>1 DEF Control, Stopped
    <3>3. Answers(p)
      BY <1>6, <3>1 DEF Inside, Answered, Stopped
    <3> QED  BY <1>2, <1>4, <3>1, <3>2, <3>3, ScanTakes
  <2> QED  BY <2>1, <2>2
<1>10. CASE ReadRec(p)
  <2>1. pc[p] = "rec" /\ (RecHit(p) \/ RecNext(p) \/ RecMiss(p) \/ RecFits(p) \/ RecNone(p) \/ RecScan(p))
    BY <1>1, <1>10, RecOutcomes
  <2>2. CASE RecNext(p) \/ RecFits(p) \/ RecNone(p) \/ RecScan(p)
    <3>1. pc'[p] \in {"hdr", "funlink", "funlock", "readdat"}
      BY <2>2 DEF RecNext, RecFits, RecNone, RecScan
    <3> QED  BY <1>5, <3>1 DEF Inside, Answered, Stopped
  <2>3. CASE RecMiss(p)
    <3>1. map[h[p].req.key] = Blank
      BY <2>1, <2>3, EndOfChain
    <3> QED  BY <1>7, <2>3, <3>1 DEF RecMiss
  <2>4. CASE RecHit(p) /\ h[p].req.op # "insert"
    <3>1. pc'[p] \in {"readdat", "dlock", "odat"}
      BY <2>4 DEF RecHit, Hit
    <3> QED  BY <1>5, <3>1 DEF Inside, Answered, Stopped
  <2>5. CASE RecHit(p) /\ h[p].req.op = "insert"
    <3>1. pc'[p] = "unlock" /\ h'[p].rc = Rc("exists", Blank, Blank)
      BY <2>5 DEF RecHit, Hit
    <3>2. Answers(p)
      BY <1>6, <3>1 DEF Inside, Answered, Stopped
    <3>3. map[h[p].req.key] # Blank
      <4>1. PICK c, n : c = ChainOf(p) /\ n = h[p].idxoff
        OBVIOUS
      <4>2. c \in Chains /\ h[p].req.key \in Keys /\ Base(p) = c
        BY <1>1, <2>1, <2>5, <4>1, KnownChain DEF Stopped, RecHit, Base
      <4>3. n \in on[c] /\ idx[n].key = h[p].req.key
        BY <1>1, <2>1, <2>5, <4>1, <4>2 DEF RecHit, RecRead, Knows, Walks
      <4> QED  BY <4>2, <4>3, OnChain, BlankIsNoKey
    <3> QED  BY <1>2, <1>4, <2>5, <3>1, <3>2, <3>3, HitTakes
  <2> QED  BY <2>1, <2>2, <2>3, <2>4, <2>5
<1> QED  BY <1>8, <1>9, <1>10

\* The data of a record that is found, or that a scan has come to.
LEMMA AbsReads ==
  ASSUME NEW on, NEW rk, Lists(on, rk), TurnInv', NEW p \in Procs, ReadDat(p), pc'[p] \notin Stopped
  PROVE  Abstract!Next
<1>1. /\ TurnInv /\ IInv /\ h \in [Procs -> Handles] /\ pc \in [Procs -> Labels] /\ h[p] \in Handles
      /\ Turn(p) /\ Control(h[p], pc[p]) /\ Knows(p, on, rk) /\ Steps(p)
  BY Known DEF Lists, TurnInv, Chained, HandleOK, Steps, Step, Find
<1>2. /\ pc[p] = "readdat" /\ pc'[p] = IF h[p].phase = "scan" THEN "nunlock" ELSE "unlock"
      /\ h'[p].req = h[p].req /\ h'[p].rc = Rc("ok", h[p].idxkey, dat[h[p].datoff].val)
      /\ map' = map
  BY <1>1 DEF ReadDat, ErrDump, Stop, Goto, Stopped, Handles
<1>3. PICK n, v : n = h[p].idxoff /\ v = dat[idx[n].datoff].val
  OBVIOUS
<1>4. h'[p].rc = Rc("ok", h[p].idxkey, v)
  <2>1. h[p].datoff = idx[n].datoff
    BY <1>2, <1>3 DEF Lists, ApartInv, FitInv, Fitting, ReadStill, HasRead, ReadPcs
  <2> QED  BY <1>2, <1>3, <2>1
<1>5. Answers(p)
  <2>1. Inside(p) /\ Inside(p)' /\ ~Answered(p) /\ Answered(p)'
    BY <1>2 DEF Inside, Answered, Stopped
  <2> QED  BY <1>1, <1>2, <2>1, IsAnswered
<1>6. Abstract!Take(p) => Abstract!Next
  BY DEF Abstract!Next
<1>7. CASE h[p].phase # "scan"
  <2>1. h[p].req.op = "fetch" /\ h[p].phase = "find"
    BY <1>1, <1>2, <1>7 DEF Turn, OpAt, Stopped
  <2>2. PICK c : c = ChainOf(p)
    OBVIOUS
  <2>3. /\ n \in on[c] /\ map[h[p].req.key] # Blank /\ idx[n].key = h[p].req.key
        /\ h[p].idxkey = h[p].req.key
    BY <1>1, <1>2, <1>3, <1>7, <2>2 DEF Knows, Found, DeletePcs
  <2>4. c \in Chains /\ h[p].req.key \in Keys /\ HasChain(p)
    BY <1>1, <1>2, <1>7, <2>2, KnownChain DEF HasChain, Stopped
  <2>5. ASSUME NEW q \in Procs, Cuts(q, c, n) \/ Wipes(q, c, n) PROVE FALSE
    <3>1. pc[q] \in {"dfree", "didx", "dhead", "dprev"} /\ ChainOf(q) = c
      BY <2>5 DEF Cuts, Wipes
    <3>2. q \in wr[c] /\ p \in rd[c]
      BY <1>1, <2>1, <2>2, <2>4, <3>1, ChainWriter DEF Turn, LocksAt
    <3>3. p = q
      BY <1>1, <2>4, <3>2, KnownLocks DEF LocksExclude, Locks, ChainPtrs
    <3> QED  BY <1>2, <3>1, <3>3
  <2>6. v = map[h[p].req.key]
    BY <1>3, <2>3, <2>4, <2>5 DEF Lists, Chained, OnChains, Current
  <2> QED  BY <1>2, <1>4, <1>5, <1>6, <2>1, <2>3, <2>6, HitTakes
<1>8. CASE h[p].phase = "scan"
  <2>1. h[p].req.op = "nextrec" /\ Scans(p)
    BY <1>1, <1>2, <1>8 DEF Control, Stopped, Scans
  <2>2. PICK k : k = h[p].idxkey
    OBVIOUS
  <2>3. k # Blank /\ idx[n].key = k /\ k \in Keys /\ n \in DOMAIN idx
    <3>1. k # Blank /\ idx[n].key = k
      BY <1>1, <1>2, <1>3, <1>8, <2>2 DEF Knows, Sees
    <3>2. k \in Keys \cup {Blank} /\ n \in 0 .. Len(idx) /\ n # 0
      BY <1>1, <1>2, <1>3, <2>2, Known DEF Handles, HandleOK, Offsets, AtIdx, Stopped
    <3>3. DOMAIN idx = 1 .. Len(idx) /\ Len(idx) \in Nat
      BY <1>1, SlotsAre DEF IInv, TypeOK
    <3> QED  BY <3>1, <3>2, <3>3
  <2>4. n \in on[Hash[k]] \/ \E q \in Procs : Leaves(q, n)
    BY <2>3 DEF Lists, Chained, Written
  <2>5. CASE n \in on[Hash[k]]
    <3>1. PICK c : c = Hash[k] /\ c \in Chains
      BY <2>3, TablesTyped
    <3>2. ASSUME NEW q \in Procs, Cuts(q, c, n) PROVE FALSE
      <4>1. c \in ChainPtrs
        BY <3>1 DEF ChainPtrs
      <4> QED  BY <2>3, <3>2, <4>1, CutsKnown
    <3>3. ASSUME NEW q \in Procs, Wipes(q, c, n) PROVE FALSE
      <4>1. HasFree(q)
        BY <3>3 DEF Wipes, HasFree, Lists, TurnInv, Turn, OpAt, DeletePcs, Stopped
      <4> QED  BY <1>1, <2>1, <4>1, FreeAlone
    <3>4. map[k] # Blank /\ v = map[k]
      BY <1>3, <2>3, <2>5, <3>1, <3>2, <3>3 DEF Lists, Chained, OnChains, Current
    <3>5. v \in Values
      BY <1>1, <2>3, <3>4 DEF IInv, TypeOK, HistoryOK
    <3> QED  BY <1>2, <1>4, <1>5, <1>6, <2>1, <2>2, <2>3, <3>4, <3>5, ScanTakes
  <2>6. ASSUME NEW q \in Procs, Leaves(q, n) PROVE Abstract!Next
    <3>1. h[q].req.key = k /\ h[q].req.val = v /\ h[q].req.op \in StoreOps
      BY <1>3, <2>3, <2>6 DEF Leaves
    <3>2. v \in Values
      <4>1. h[q].req \in Requests \cup {NoReq}
        BY <1>1, Known DEF Handles
      <4> QED  BY <3>1, <4>1 DEF Requests, NoReq, StoreOps
    <3> QED  BY <1>2, <1>4, <1>5, <1>6, <2>1, <2>2, <2>3, <2>6, <3>1, <3>2, ScanTakes
  <2> QED  BY <2>4, <2>5, <2>6
<1> QED  BY <1>7, <1>8

\* The library implements DbMap: every db_fetch, db_store, db_delete and db_nextrec of any
\* number of processes takes effect at one instant between its call and its return, on
\* one map that all share, although each is many reads, writes and locks of two files.
\* No process is killed in a call that may delete a record.
THEOREM CallsAreAtomic == ASSUME NoHalfDelete PROVE Spec => Linearizable
<1>1. Init => Abstract!Init
  <2> SUFFICES ASSUME Init PROVE Abstract!Init
    OBVIOUS
  <2>1. map \in [Keys -> Values \cup {Blank}]
    BY InitIInv DEF IInv, TypeOK, HistoryOK
  <2>2. \A p \in Procs : pc[p] = "idle"
    BY DEF Init
  <2>3. AbsCall = [p \in Procs |-> [st |-> "idle"]]
    BY <2>2 DEF AbsCall
  <2> QED  BY <2>1, <2>3 DEF Abstract!Init
<1>2. /\ ApartInv /\ TurnInv /\ ChainsInv /\ (ApartInv /\ TurnInv /\ ChainsInv)' /\ [Next]_vars
      => [Abstract!Next]_(Abstract!vars)
  <2> SUFFICES ASSUME ApartInv, TurnInv, ChainsInv, TurnInv', [Next]_vars
               PROVE  Abstract!Next \/ UNCHANGED Abstract!vars
    OBVIOUS
  <2>1. PICK on, rk : Lists(on, rk)
    BY DEF ChainsInv, Lists
  <2>2. ASSUME NEW p \in Procs, Steps(p) PROVE Abstract!Next \/ UNCHANGED Abstract!vars
    <3>1. CASE pc'[p] \in Stopped
      BY <2>2, <3>1, AbsEnds
    <3>2. CASE pc'[p] \notin Stopped
      <4>1. ~db_close(p) /\ ~Crash(p) /\ ~LinkTooFar(p)
        <5>1. pc \in [Procs -> Labels]
          BY DEF TurnInv, IInv, TypeOK, ProcsOK
        <5> QED  BY <3>2, <5>1 DEF db_close, Crash, LinkTooFar, Stop, Goto, Stopped
      <4>2. CASE Call(p) \/ db_rewind(p) \/ Return(p) \/ NextUnlock(p)
        BY <4>2, AbsCalls
      <4>3. CASE NextLock(p) \/ LockChain(p) \/ FindFree(p) \/ AppendRec(p)
                 \/ (DoDelete(p) /\ ~DeletePrev(p)) \/ ChainHead(p) \/ ReuseDat(p) \/ ReuseIdx(p)
        BY <4>3, AbsOnWay
      <4>4. CASE DeletePrev(p) \/ Link(p) \/ OverwriteDat(p)
        BY <2>1, <4>4, AbsUpdates
      <4>5. CASE FindPtr(p) \/ ReadHdr(p) \/ ReadRec(p)
        BY <2>1, <3>2, <4>5, AbsFinds
      <4>6. CASE ReadDat(p)
        BY <2>1, <3>2, <4>6, AbsReads
      <4> QED  BY <2>2, <4>1, <4>2, <4>3, <4>4, <4>5, <4>6 DEF Steps, Step, Find, Store
    <3> QED  BY <3>1, <3>2
  <2>3. CASE UNCHANGED vars
    BY <2>3 DEF vars, Abstract!vars, AbsCall
  <2> QED  BY <2>2, <2>3 DEF Next, AllStopped, Steps
<1> QED
  BY <1>1, <1>2, ChainsInvariance, NoneHalfDeleted, PTL DEF Spec, Linearizable, Abstract!Spec
=============================================================================
