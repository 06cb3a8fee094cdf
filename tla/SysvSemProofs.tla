--------------------------- MODULE SysvSemProofs ---------------------------
(***************************************************************************)
(* For any number of processes that create, open, use and close the        *)
(* semaphore of SysvSem, or exit anywhere: the members of the set are what *)
(* the library means them to be, so nobody who got the semaphore from      *)
(* sem_create loses it, and at most InitVal processes are inside.          *)
(***************************************************************************)
EXTENDS SysvSem, FiniteSetTheorems, TLAPS

\* Where a process holds the lock, the third member of the set,
SetPcs == {"set0", "set1"}
ReadyPcs == {"endcreate", "closeget", "rm", "closeunlock"}
LockPcs == SetPcs \cup ReadyPcs \cup {"getval"}
\* where it is counted in the second,
UserPcs == {"using", "inside", "used"}
\* and where it has not yet changed any.
FreshPcs == {"again", "lock", "asleep", "open"}

Lockers == {p \in Procs : pc[p] \in LockPcs}
Counted == {p \in Procs : pc[p] \in UserPcs /\ Valid(p)}
Inside == {p \in Procs : pc[p] = "inside" /\ Valid(p)}

\* What the three members of a set, or of an adjustment, are.
Is(f, a, b, c) == f[0] = a /\ f[1] = b /\ f[2] = c

\* The type invariant but for the sign of the values, which the rest gives.
Types ==
  /\ made \in 0 .. MaxSets /\ set \in 0 .. MaxSets
  /\ val \in [Sets -> [0 .. 2 -> Int]]
  /\ id \in [Procs -> 0 .. MaxSets]
  /\ adj \in [Procs -> [0 .. 2 -> Int]]
  /\ pc \in [Procs -> {"idle"} \cup FreshPcs \cup LockPcs \cup UserPcs \cup Gone]
  /\ rounds \in [Procs -> 0 .. Rounds] /\ exits \in 0 .. MaxExits

\* Identifiers are not reused, and a set that is not there is Zero.
Identifiers ==
  /\ set \in {0, made}
  /\ \A p \in Procs : id[p] <= made
  /\ \A n \in Sets : n # set => Is(val[n], 0, 0, 0)

\* What SEM_UNDO would do for a process that exits now: give back the lock, its
\* place in the counter, its unit of the semaphore.
Undo == \A p \in Procs :
  /\ pc[p] \in FreshPcs => Is(adj[p], 0, 0, 0)
  /\ pc[p] \in LockPcs => Valid(p) /\ Is(adj[p], 0, 0, -1)
  /\ pc[p] \in {"using", "used"} /\ Valid(p) => Is(adj[p], 0, 1, 0)
  /\ pc[p] = "inside" /\ Valid(p) => Is(adj[p], 1, 1, 0)

\* The lock has one holder, and the third member says whether it has.
LockMember ==
  /\ \A p, q \in Lockers : p = q
  /\ set # 0 => val[set][2] = IF Lockers = {} THEN 0 ELSE 1

\* The first two members before and after sem_create has initialized them.
Raw == val[set][1] = 0 /\ val[set][0] \in {0, InitVal} /\ Counted = {} /\ Inside = {}
Ready ==
  /\ val[set][1] = BIGCOUNT - Cardinality(Counted)
  /\ val[set][0] = InitVal - Cardinality(Inside) /\ Cardinality(Inside) <= InitVal
Members ==
  /\ set # 0 => Raw \/ Ready
  /\ \A p \in Procs :
       /\ pc[p] \in SetPcs => Raw
       /\ pc[p] = "set1" => val[set][0] = InitVal
       /\ pc[p] \in ReadyPcs => Ready

\* Who is about to remove the set has seen the counter at BIGCOUNT with the lock
\* held: only a sem_open, which takes no lock, can have come since.
LastUser ==
  /\ \A p \in Procs : pc[p] = "rm" => Counted \subseteq Openers
  /\ \A p \in Procs : pc[p] = "open" => p \in Openers

IInv ==
  /\ Types /\ Identifiers /\ Undo /\ LockMember /\ Members /\ LastUser
  /\ NotRemovedWhileUsed
-----------------------------------------------------------------------------
(* The sets of processes, and how a step of one process changes them.       *)

\* Adding a process to the counted ones, or taking one away.
LEMMA Counting ==
  ASSUME NEW S \in SUBSET Procs, NEW p
  PROVE  /\ Cardinality(S) \in Nat /\ Cardinality(S) < BIGCOUNT
         /\ S = {} <=> Cardinality(S) = 0
         /\ Cardinality(S \cup {p}) = IF p \in S THEN Cardinality(S) ELSE Cardinality(S) + 1
         /\ Cardinality(S \ {p}) = IF p \in S THEN Cardinality(S) - 1 ELSE Cardinality(S)
<1>1. IsFiniteSet(S) /\ Cardinality(S) <= Cardinality(Procs)
  BY ConstantsTyped, FS_Subset
<1>2. Cardinality(S) \in Nat /\ Cardinality(Procs) \in Nat
  BY <1>1, ConstantsTyped, FS_CardinalityType
<1>3. S = {} <=> Cardinality(S) = 0
  BY <1>1, FS_EmptySet
<1>4. Cardinality(S \cup {p}) = IF p \in S THEN Cardinality(S) ELSE Cardinality(S) + 1
  BY <1>1, FS_AddElement
<1>5. Cardinality(S \ {p}) = IF p \in S THEN Cardinality(S) - 1 ELSE Cardinality(S)
  BY <1>1, FS_RemoveElement
<1> QED  BY <1>1, <1>2, <1>3, <1>4, <1>5, ConstantsTyped

\* A step of p alone, in which the set of the key stays.
LEMMA StepOf ==
  ASSUME Types, NEW p \in Procs, NEW l, pc' = [pc EXCEPT ![p] = l], set' = set,
         NEW k, id' = [id EXCEPT ![p] = k]
  PROVE  /\ Lockers' = IF l \in LockPcs THEN Lockers \cup {p} ELSE Lockers \ {p}
         /\ Counted' = IF l \in UserPcs /\ k = set /\ set # 0 THEN Counted \cup {p} ELSE Counted \ {p}
         /\ Inside' = IF l = "inside" /\ k = set /\ set # 0 THEN Inside \cup {p} ELSE Inside \ {p}
         /\ \A q \in Procs \ {p} : pc'[q] = pc[q] /\ id'[q] = id[q]
         /\ pc'[p] = l /\ id'[p] = k
<1>1. \A q \in Procs \ {p} : pc'[q] = pc[q] /\ id'[q] = id[q]
  BY DEF Types
<1>2. pc'[p] = l /\ id'[p] = k
  BY DEF Types
<1>3. Lockers' = IF l \in LockPcs THEN Lockers \cup {p} ELSE Lockers \ {p}
  BY <1>1, <1>2 DEF Lockers
<1>4. Counted' = IF l \in UserPcs /\ k = set /\ set # 0 THEN Counted \cup {p} ELSE Counted \ {p}
  BY <1>1, <1>2 DEF Counted, Valid
<1>5. Inside' = IF l = "inside" /\ k = set /\ set # 0 THEN Inside \cup {p} ELSE Inside \ {p}
  BY <1>1, <1>2 DEF Inside, Valid
<1> QED  BY <1>1, <1>2, <1>3, <1>4, <1>5

\* What semop does to the members of the set and to the adjustments.
LEMMA SemOpIs ==
  ASSUME Types, NEW p \in Procs, Valid(p), NEW a \in Int, NEW b \in Int, NEW c \in Int,
         SemOp(p, Ops(a, b, c))
  PROVE  /\ val' \in [Sets -> [0 .. 2 -> Int]] /\ adj' \in [Procs -> [0 .. 2 -> Int]]
         /\ set \in Sets
         /\ Is(val'[set], val[set][0] + a, val[set][1] + b, val[set][2] + c)
         /\ \A n \in Sets \ {set} : val'[n] = val[n]
         /\ Is(adj'[p], adj[p][0] - a, adj[p][1] - b, adj[p][2] - c)
         /\ \A q \in Procs \ {p} : adj'[q] = adj[q]
<1> DEFINE d == Ops(a, b, c)
<1>1. d \in [0 .. 2 -> Int] /\ Is(d, a, b, c)
  BY DEF Ops, Is
<1>2. set \in Sets /\ id[p] = set
  BY ConstantsTyped DEF Types, Sets, Valid
<1> HIDE DEF d
<1>3. val' = [val EXCEPT ![set] = [m \in 0 .. 2 |-> val[set][m] + d[m]]]
  BY <1>2 DEF SemOp, d
<1>4. adj' = [adj EXCEPT ![p] = [m \in 0 .. 2 |-> adj[p][m] - d[m]]]
  BY DEF SemOp, d
<1>5. val \in [Sets -> [0 .. 2 -> Int]] /\ adj \in [Procs -> [0 .. 2 -> Int]]
  BY DEF Types
<1>6. val[set] \in [0 .. 2 -> Int] /\ adj[p] \in [0 .. 2 -> Int]
  BY <1>2, <1>5
<1>7. /\ [m \in 0 .. 2 |-> val[set][m] + d[m]] \in [0 .. 2 -> Int]
      /\ [m \in 0 .. 2 |-> adj[p][m] - d[m]] \in [0 .. 2 -> Int]
  BY <1>1, <1>6
<1>8. val' \in [Sets -> [0 .. 2 -> Int]] /\ adj' \in [Procs -> [0 .. 2 -> Int]]
  BY <1>3, <1>4, <1>5, <1>7
<1>9. /\ Is(val'[set], val[set][0] + a, val[set][1] + b, val[set][2] + c)
      /\ Is(adj'[p], adj[p][0] - a, adj[p][1] - b, adj[p][2] - c)
  BY <1>1, <1>2, <1>3, <1>4, <1>5 DEF Is
<1> QED  BY <1>2, <1>3, <1>4, <1>5, <1>8, <1>9
\* It holds before the first call.
LEMMA InitIInv == Init => IInv
<1> SUFFICES ASSUME Init PROVE IInv
  OBVIOUS
<1> USE ConstantsTyped DEF Init, Zero, Sets, Is, FreshPcs, LockPcs, SetPcs, ReadyPcs, UserPcs, Gone
<1>1. Types /\ Identifiers /\ Undo
  BY DEF Types, Identifiers, Undo
<1>2. LockMember /\ Members /\ LastUser /\ NotRemovedWhileUsed
  BY DEF LockMember, Lockers, Members, LastUser, NotRemovedWhileUsed, Users
<1> QED  BY <1>1, <1>2 DEF IInv


-----------------------------------------------------------------------------
(* A step of one process while the set of the key stays: p comes to l, its  *)
(* identifier becomes k, and a, b, c are added to the members of the set.   *)

Bit(b) == IF b THEN 1 ELSE 0

\* The three numbers account for what p was and what it becomes: it gives back or
\* takes a unit, a place in the counter, the lock, and takes only what is there.
Accounts(p, l, k, a, b, c) ==
  /\ a = Bit(p \in Inside) - Bit(l = "inside" /\ k = set /\ set # 0)
  /\ b = Bit(p \in Counted) - Bit(l \in UserPcs /\ k = set /\ set # 0)
  /\ c = Bit(l \in LockPcs) - Bit(p \in Lockers)
  /\ a < 0 => p \in Counted /\ val[set][0] >= 1
  /\ b < 0 => val[set][1] >= 1
  /\ l \in LockPcs => Lockers \subseteq {p} /\ k = set /\ set # 0

\* The place p comes to is one for which it has what it needs.
Entitled(p, l, k) ==
  /\ l \in {"idle"} \cup FreshPcs \cup LockPcs \cup UserPcs \cup Gone
  /\ l = "open" => p \in Openers
  /\ l \in UserPcs => k = id[p] /\ (p \in Openers \/ pc[p] \in (LockPcs \cup UserPcs) \ {"rm"})
  /\ l = "rm" => Counted \ {p} \subseteq Openers
  /\ l \in SetPcs => Raw
  /\ l # "set1"
  /\ l \in ReadyPcs => Ready

\* What SEM_UNDO remembers for p at l.
UndoIs(f, l, valid) ==
  /\ l \in FreshPcs => Is(f, 0, 0, 0)
  /\ l \in LockPcs => Is(f, 0, 0, -1)
  /\ l \in {"using", "used"} /\ valid => Is(f, 0, 1, 0)
  /\ l = "inside" /\ valid => Is(f, 1, 1, 0)

\* The types, the lock and who keeps the set, for such a step.
LEMMA LockKept ==
  ASSUME IInv, NEW p \in Procs, NEW l, NEW k \in 0 .. made,
         pc' = [pc EXCEPT ![p] = l], id' = [id EXCEPT ![p] = k],
         set' = set, made' = made, rounds' \in [Procs -> 0 .. Rounds], exits' \in 0 .. MaxExits,
         val' \in [Sets -> [0 .. 2 -> Int]], adj' \in [Procs -> [0 .. 2 -> Int]],
         \A n \in Sets \ {set} : val'[n] = val[n],
         NEW a \in Int, NEW b \in Int, NEW c \in Int, Accounts(p, l, k, a, b, c),
         set # 0 => val'[set][2] = val[set][2] + c,
         Entitled(p, l, k) \/ l \in {"set1", "endcreate"}
  PROVE  Types' /\ Identifiers' /\ LockMember' /\ LastUser' /\ NotRemovedWhileUsed'
<1>0. Types /\ Identifiers /\ LockMember /\ LastUser /\ NotRemovedWhileUsed /\ Undo
  BY DEF IInv
<1>1. /\ Lockers' = IF l \in LockPcs THEN Lockers \cup {p} ELSE Lockers \ {p}
      /\ Counted' = IF l \in UserPcs /\ k = set /\ set # 0 THEN Counted \cup {p} ELSE Counted \ {p}
      /\ \A q \in Procs \ {p} : (pc'[q] = pc[q]) /\ (id'[q] = id[q])
      /\ pc'[p] = l /\ id'[p] = k
  BY <1>0, StepOf
<1>2. \A q \in Procs \ {p} : Valid(q)' <=> Valid(q)
  BY <1>1 DEF Valid
<1>3. Types'
  BY <1>0, ConstantsTyped DEF Types, Entitled, LockPcs, SetPcs, ReadyPcs
<1>4. Identifiers'
  BY <1>0, <1>1 DEF Identifiers, Types, Is
<1>5. LockMember'
  <2>1. \A q, r \in Lockers' : q = r
    BY <1>0, <1>1 DEF LockMember, Accounts
  <2>2. Lockers' = {} <=> l \notin LockPcs /\ Lockers \subseteq {p}
    BY <1>1
  <2>3. p \in Lockers => Lockers = {p}
    BY <1>0 DEF LockMember
  <2>4. c = (IF l \in LockPcs THEN 1 ELSE 0) - (IF p \in Lockers THEN 1 ELSE 0)
    BY DEF Accounts, Bit
  <2>5. ASSUME set # 0 PROVE val'[set][2] = IF Lockers' = {} THEN 0 ELSE 1
    <3>1. val[set][2] = IF Lockers = {} THEN 0 ELSE 1
      BY <1>0, <2>5 DEF LockMember
    <3>2. l \in LockPcs => Lockers \subseteq {p}
      BY DEF Accounts
    <3> QED  BY <2>2, <2>3, <2>4, <2>5, <3>1, <3>2
  <2> QED  BY <2>1, <2>5 DEF LockMember
<1>6. LastUser'
  <2>1. ASSUME NEW q \in Procs, pc'[q] = "rm" PROVE Counted' \subseteq Openers
    <3>1. CASE q = p
      BY <1>1, <2>1, <3>1 DEF UserPcs, Entitled
    <3>2. CASE q # p
      <4>1. pc[q] = "rm" /\ q \in Lockers /\ Counted \subseteq Openers
        BY <1>0, <1>1, <2>1, <3>2 DEF LastUser, Lockers, LockPcs, ReadyPcs
      <4>2. p \notin Lockers
        BY <1>0, <4>1, <3>2 DEF LockMember
      <4>3. l \in UserPcs /\ p \notin Openers /\ k = set /\ set # 0 => p \in Counted
        BY <4>2 DEF Counted, Valid, Lockers, Entitled, UserPcs
      <4> QED  BY <1>1, <4>1, <4>3
    <3> QED  BY <3>1, <3>2
  <2>2. \A q \in Procs : pc'[q] = "open" => q \in Openers
    BY <1>0, <1>1 DEF LastUser, Entitled
  <2> QED  BY <2>1, <2>2 DEF LastUser
<1>7. NotRemovedWhileUsed'
  <2> SUFFICES ASSUME NEW q \in Procs, pc'[q] \in UserPcs, q \notin Openers
               PROVE  Valid(q)'
    BY DEF NotRemovedWhileUsed, Users, UserPcs
  <2>1. CASE q = p
    <3>1. Valid(p) /\ k = id[p]
      BY <1>0, <1>1, <2>1 DEF Undo, NotRemovedWhileUsed, Users, UserPcs, Entitled
    <3> QED  BY <1>1, <2>1, <3>1 DEF Valid
  <2>2. CASE q # p
    BY <1>0, <1>1, <1>2, <2>2 DEF NotRemovedWhileUsed, Users, UserPcs
  <2> QED  BY <2>1, <2>2
<1> QED  BY <1>3, <1>4, <1>5, <1>6, <1>7

\* The first two members stay what they are, raw or ready.
LEMMA MembersKept ==
  ASSUME IInv, NEW p \in Procs, NEW l, NEW k, pc' = [pc EXCEPT ![p] = l],
         id' = [id EXCEPT ![p] = k], set' = set, set # 0,
         NEW a \in Int, NEW b \in Int, NEW c \in Int, Accounts(p, l, k, a, b, c),
         val'[set][0] = val[set][0] + a, val'[set][1] = val[set][1] + b
  PROVE  /\ Raw => Raw' /\ val'[set][0] = val[set][0]
         /\ Ready => Ready'
<1>0. Types /\ Members
  BY DEF IInv
<1>1. Counted' = IF l \in UserPcs /\ k = set /\ set # 0 THEN Counted \cup {p} ELSE Counted \ {p}
  BY <1>0, StepOf
<1>11. Inside' = IF l = "inside" /\ k = set /\ set # 0 THEN Inside \cup {p} ELSE Inside \ {p}
  <2>1. (\A q \in Procs \ {p} : pc'[q] = pc[q] /\ id'[q] = id[q]) /\ pc'[p] = l /\ id'[p] = k
    BY <1>0, StepOf
  <2> QED  BY <2>1 DEF Inside, Valid
<1>2. /\ a = (IF p \in Inside THEN 1 ELSE 0) - (IF l = "inside" /\ k = set /\ set # 0 THEN 1 ELSE 0)
      /\ b = (IF p \in Counted THEN 1 ELSE 0) - (IF l \in UserPcs /\ k = set /\ set # 0 THEN 1 ELSE 0)
      /\ a < 0 => p \in Counted /\ val[set][0] >= 1
      /\ b < 0 => val[set][1] >= 1
  BY DEF Accounts, Bit
<1>3. /\ val \in [Sets -> [0 .. 2 -> Int]] /\ set \in Sets /\ InitVal \in Nat /\ BIGCOUNT \in Nat
      /\ val[set][0] \in Int /\ val[set][1] \in Int
  BY <1>0, ConstantsTyped DEF Types, Sets
<1>4. ASSUME Raw PROVE Raw' /\ val'[set][0] = val[set][0]
  <2>1. Counted = {} /\ Inside = {} /\ val[set][1] = 0
    BY <1>4 DEF Raw
  <2>2. ~(b < 0) /\ ~(a < 0)
    BY <1>2, <2>1
  <2>3. a = 0 /\ b = 0 /\ Counted' = {} /\ Inside' = {}
    BY <1>1, <1>11, <1>2, <2>1, <2>2
  <2> QED  BY <1>3, <1>4, <2>3 DEF Raw
<1>5. ASSUME Ready PROVE Ready'
  <2>1. /\ Counted \in SUBSET Procs /\ Inside \in SUBSET Procs
    BY DEF Counted, Inside
  <2>2. /\ Cardinality(Counted) \in Nat
        /\ Cardinality(Counted \cup {p}) = IF p \in Counted THEN Cardinality(Counted) ELSE Cardinality(Counted) + 1
        /\ Cardinality(Counted \ {p}) = IF p \in Counted THEN Cardinality(Counted) - 1 ELSE Cardinality(Counted)
    BY <2>1, Counting
  <2>3. /\ Cardinality(Inside) \in Nat
        /\ Cardinality(Inside \cup {p}) = IF p \in Inside THEN Cardinality(Inside) ELSE Cardinality(Inside) + 1
        /\ Cardinality(Inside \ {p}) = IF p \in Inside THEN Cardinality(Inside) - 1 ELSE Cardinality(Inside)
    BY <2>1, Counting
  <2>4. /\ Cardinality(Counted') = Cardinality(Counted) - b
        /\ Cardinality(Inside') = Cardinality(Inside) - a
    BY <1>1, <1>11, <1>2, <2>2, <2>3
  <2>5. a < 0 => a = -1
    BY <1>2
  <2> QED  BY <1>2, <1>3, <1>5, <2>2, <2>3, <2>4, <2>5 DEF Ready
<1> QED  BY <1>4, <1>5

\* A step that is accounted for keeps the invariant.
LEMMA Accounted ==
  ASSUME IInv, NEW p \in Procs, NEW l, NEW k \in 0 .. made,
         pc' = [pc EXCEPT ![p] = l], id' = [id EXCEPT ![p] = k],
         set' = set, made' = made, rounds' \in [Procs -> 0 .. Rounds], exits' \in 0 .. MaxExits,
         val' \in [Sets -> [0 .. 2 -> Int]], adj' \in [Procs -> [0 .. 2 -> Int]],
         \A n \in Sets \ {set} : val'[n] = val[n],
         \A q \in Procs \ {p} : adj'[q] = adj[q],
         NEW a \in Int, NEW b \in Int, NEW c \in Int, Accounts(p, l, k, a, b, c),
         set # 0 => Is(val'[set], val[set][0] + a, val[set][1] + b, val[set][2] + c),
         Entitled(p, l, k), UndoIs(adj'[p], l, k = set /\ set # 0)
  PROVE  IInv'
<1>0. Types /\ Undo /\ Members
  BY DEF IInv
<1>1. Types' /\ Identifiers' /\ LockMember' /\ LastUser' /\ NotRemovedWhileUsed'
  BY LockKept DEF Is
<1>2. /\ \A q \in Procs \ {p} : (pc'[q] = pc[q]) /\ (id'[q] = id[q])
      /\ pc'[p] = l /\ id'[p] = k
  BY <1>0, StepOf
<1>3. Undo'
  BY <1>0, <1>2 DEF Undo, Valid, UndoIs, Accounts, Is
<1>4. Members'
  <2>1. CASE set = 0
    <3>1. \A q \in Procs : pc[q] \notin LockPcs
      BY <1>0, <2>1 DEF Undo, Valid
    <3>2. l \notin LockPcs
      BY <2>1 DEF Accounts
    <3> QED  BY <1>2, <2>1, <3>1, <3>2 DEF Members, LockPcs, SetPcs, ReadyPcs
  <2>2. CASE set # 0
    <3>1. (Raw => Raw' /\ val'[set][0] = val[set][0]) /\ (Ready => Ready')
      BY <2>2, MembersKept DEF Is
    <3>2. (l \in SetPcs => Raw) /\ l # "set1" /\ (l \in ReadyPcs => Ready)
      BY DEF Entitled
    <3> HIDE DEF Raw, Ready
    <3> QED  BY <1>0, <1>2, <2>2, <3>1, <3>2 DEF Members, SetPcs
  <2> QED  BY <2>1, <2>2
<1> QED  BY <1>1, <1>3, <1>4 DEF IInv
\* A semop of p.
LEMMA SemOpStep ==
  ASSUME IInv, NEW p \in Procs, Valid(p), NEW l, NEW k \in 0 .. made,
         pc' = [pc EXCEPT ![p] = l], id' = [id EXCEPT ![p] = k],
         UNCHANGED <<made, set, rounds, exits>>,
         NEW a \in Int, NEW b \in Int, NEW c \in Int, SemOp(p, Ops(a, b, c)),
         Accounts(p, l, k, a, b, c), Entitled(p, l, k),
         \A f : Is(f, adj[p][0] - a, adj[p][1] - b, adj[p][2] - c) => UndoIs(f, l, k = set /\ set # 0)
  PROVE  IInv'
<1>1. Types
  BY DEF IInv
<1>2. /\ val' \in [Sets -> [0 .. 2 -> Int]] /\ adj' \in [Procs -> [0 .. 2 -> Int]]
      /\ Is(val'[set], val[set][0] + a, val[set][1] + b, val[set][2] + c)
      /\ \A n \in Sets \ {set} : val'[n] = val[n]
      /\ Is(adj'[p], adj[p][0] - a, adj[p][1] - b, adj[p][2] - c)
      /\ \A q \in Procs \ {p} : adj'[q] = adj[q]
  BY <1>1, SemOpIs
<1>3. rounds' \in [Procs -> 0 .. Rounds] /\ exits' \in 0 .. MaxExits
  BY <1>1 DEF Types
<1>4. UndoIs(adj'[p], l, k = set /\ set # 0)
  BY <1>2
<1> QED  BY <1>2, <1>3, <1>4, Accounted

\* A step that changes no member and no adjustment, or forgets those of p.
LEMMA PlainStep ==
  ASSUME IInv, NEW p \in Procs, NEW l, NEW k \in 0 .. made,
         pc' = [pc EXCEPT ![p] = l], id' = [id EXCEPT ![p] = k],
         UNCHANGED <<made, set, val, exits>>, rounds' \in [Procs -> 0 .. Rounds],
         adj' = adj \/ adj' = [adj EXCEPT ![p] = Zero],
         Accounts(p, l, k, 0, 0, 0), Entitled(p, l, k),
         UndoIs(adj'[p], l, k = set /\ set # 0)
  PROVE  IInv'
<1>1. Types
  BY DEF IInv
<1>2. /\ val' \in [Sets -> [0 .. 2 -> Int]] /\ adj' \in [Procs -> [0 .. 2 -> Int]]
      /\ \A n \in Sets \ {set} : val'[n] = val[n]
      /\ \A q \in Procs \ {p} : adj'[q] = adj[q]
      /\ exits' \in 0 .. MaxExits
  BY <1>1 DEF Types, Zero
<1>3. set # 0 => Is(val'[set], val[set][0] + 0, val[set][1] + 0, val[set][2] + 0)
  <2>1. set # 0 => set \in Sets
    BY <1>1, ConstantsTyped DEF Types, Sets
  <2>2. set # 0 => val[set] \in [0 .. 2 -> Int]
    BY <1>1, <2>1 DEF Types
  <2>3. val' = val
    OBVIOUS
  <2> QED  BY <2>2, <2>3 DEF Is
<1>4. set' = set /\ made' = made /\ 0 \in Int
  OBVIOUS
<1> HIDE DEF Accounts, Entitled, UndoIs
<1> QED  BY <1>2, <1>3, <1>4, Accounted, Zenon
\* One lemma per system call, or group of them.  First what every case uses.
LEMMA Facts ==
  ASSUME IInv, NEW p \in Procs
  PROVE  /\ id[p] \in 0 .. made /\ 0 \in 0 .. made /\ set \in 0 .. made
         /\ set # 0 => val[set][0] \in Int /\ val[set][1] \in Int /\ val[set][2] \in Int
         /\ id' = id => id' = [id EXCEPT ![p] = id[p]]
         /\ rounds \in [Procs -> 0 .. Rounds]
         /\ 0 \in Int /\ 1 \in Int /\ -1 \in Int
         /\ pc[p] \in LockPcs => Valid(p) /\ Lockers = {p}
         /\ p \in Inside => p \in Counted
<1>1. /\ made \in 0 .. MaxSets /\ id \in [Procs -> 0 .. MaxSets] /\ set \in {0, made}
      /\ val \in [Sets -> [0 .. 2 -> Int]] /\ rounds \in [Procs -> 0 .. Rounds]
      /\ id[p] <= made
  BY DEF IInv, Types, Identifiers
<1>2. id[p] \in 0 .. made /\ 0 \in 0 .. made /\ set \in 0 .. made
  BY <1>1, ConstantsTyped
<1>3. set # 0 => set \in Sets
  BY <1>1, ConstantsTyped DEF Sets
<1>4. set # 0 => val[set] \in [0 .. 2 -> Int]
  BY <1>1, <1>3
<1>5. pc[p] \in LockPcs => Valid(p) /\ Lockers = {p}
  BY DEF IInv, Undo, LockMember, Lockers
<1>6. p \in Inside => p \in Counted
  BY DEF Inside, Counted, UserPcs
<1> QED  BY <1>1, <1>2, <1>4, <1>5, <1>6

\* A semop, with all that depends on where p is: who holds the lock is a matter of
\* the third member.
LEMMA CreateLockKeeps ==
  ASSUME IInv, NEW p \in Procs, CreateLock(p)
  PROVE  IInv'
<1> USE DEF LockPcs, SetPcs, ReadyPcs, UserPcs, FreshPcs, Gone
<1>1. Valid(p) /\ id[p] = set /\ set # 0 /\ pc[p] \in {"lock", "asleep"} /\ UNCHANGED <<made, set, id, rounds, exits>>
  BY DEF CreateLock, Valid, Goto
<1>2. p \notin Lockers /\ p \notin Counted /\ p \notin Inside /\ Is(adj[p], 0, 0, 0)
  BY <1>1 DEF Lockers, Counted, Inside, IInv, Undo
<1>3. CASE V(p, 2) = 0 /\ pc' = [pc EXCEPT ![p] = "getval"] /\ SemOp(p, op_lock)
  <2>1. Lockers = {}
    BY <1>1, <1>3 DEF IInv, LockMember, V
  <2>2. Accounts(p, "getval", id[p], 0, 0, 1)
    BY <1>1, <1>2, <2>1 DEF Accounts, Bit
  <2>3. Entitled(p, "getval", id[p])
    BY <1>1 DEF Entitled
  <2>4. \A f : Is(f, adj[p][0] - 0, adj[p][1] - 0, adj[p][2] - 1) => UndoIs(f, "getval", id[p] = set /\ set # 0)
    BY <1>2 DEF Is, UndoIs
  <2>5. SemOp(p, Ops(0, 0, 1))
    BY <1>3 DEF op_lock
  <2> HIDE DEF LockPcs, SetPcs, ReadyPcs, UserPcs, FreshPcs, Gone
  <2> QED  BY <1>1, <1>3, <2>2, <2>3, <2>4, <2>5, Facts, SemOpStep, Zenon
<1>4. CASE pc' = [pc EXCEPT ![p] = "asleep"] /\ UNCHANGED <<val, adj>>
  <2>1. Accounts(p, "asleep", id[p], 0, 0, 0)
    BY <1>1, <1>2 DEF Accounts, Bit
  <2>2. Entitled(p, "asleep", id[p])
    BY <1>1 DEF Entitled
  <2>3. UndoIs(adj'[p], "asleep", id[p] = set /\ set # 0) /\ adj' = adj
    BY <1>2, <1>4 DEF Is, UndoIs
  <2>4. rounds' \in [Procs -> 0 .. Rounds] /\ UNCHANGED <<made, set, val, exits>>
    BY <1>1, <1>4, Facts
  <2> HIDE DEF LockPcs, SetPcs, ReadyPcs, UserPcs, FreshPcs, Gone
  <2> QED  BY <1>1, <1>4, <2>1, <2>2, <2>3, <2>4, Facts, PlainStep, Zenon
<1> QED  BY <1>3, <1>4 DEF CreateLock, Goto
\* A step to "failed", or any other place where nothing is owed, by a process for
\* which there is no set.
LEMMA GoneKeeps ==
  ASSUME IInv, NEW p \in Procs, ~Valid(p), NEW l \in {"again", "failed"},
         pc[p] \in {"lock", "asleep"} \/ l = "failed",
         pc' = [pc EXCEPT ![p] = l],
         UNCHANGED <<made, set, val, id, adj, rounds, exits>>
  PROVE  IInv'
<1> USE DEF LockPcs, SetPcs, ReadyPcs, UserPcs, FreshPcs, Gone
<1>1. p \notin Lockers /\ p \notin Counted /\ p \notin Inside /\ ~(id[p] = set /\ set # 0)
  BY DEF Lockers, Counted, Inside, IInv, Undo, Valid
<1>2. Accounts(p, l, id[p], 0, 0, 0)
  BY <1>1 DEF Accounts, Bit
<1>3. Entitled(p, l, id[p])
  BY DEF Entitled
<1>4. UndoIs(adj'[p], l, id[p] = set /\ set # 0) /\ adj' = adj
  BY DEF UndoIs, Is, IInv, Undo
<1>5. rounds' \in [Procs -> 0 .. Rounds] /\ UNCHANGED <<made, set, val, exits>> /\ id' = id
  BY Facts
<1> HIDE DEF LockPcs, SetPcs, ReadyPcs, UserPcs, FreshPcs, Gone
<1> QED  BY <1>2, <1>3, <1>4, <1>5, Facts, PlainStep, Zenon

\* With the lock held, CreateGetval and CloseGetval learn what the set is.
LEMMA GetvalKeeps ==
  ASSUME IInv, NEW p \in Procs, CreateGetval(p) \/ CloseGetval(p)
  PROVE  IInv'
<1> USE DEF LockPcs, SetPcs, ReadyPcs, UserPcs, FreshPcs, Gone
<1>1. pc[p] \in {"getval", "closeget"} /\ UNCHANGED <<made, set, val, id, adj, rounds, exits>>
  BY DEF CreateGetval, CloseGetval, Goto
<1>2. id[p] = set /\ set # 0 /\ Lockers = {p} /\ Is(adj[p], 0, 0, -1)
  BY <1>1, Facts DEF Valid, IInv, Undo
<1>3. p \in Lockers /\ p \notin Counted /\ p \notin Inside
  BY <1>1, <1>2 DEF Counted, Inside
<1>4. (Raw \/ Ready) /\ (pc[p] = "closeget" => Ready)
  BY <1>2 DEF IInv, Members
<1>5. Cardinality(Counted) \in Nat /\ Cardinality(Counted) < BIGCOUNT /\ (Counted = {} <=> Cardinality(Counted) = 0)
  <2>1. Counted \in SUBSET Procs
    BY DEF Counted
  <2> QED  BY <2>1, Counting
<1>6. BIGCOUNT \in Nat /\ V(p, 1) = val[set][1]
  BY <1>2, ConstantsTyped DEF V
<1>7. ASSUME NEW l \in LockPcs \ {"set1"}, pc' = [pc EXCEPT ![p] = l],
             l = "rm" => Counted = {}, l \in SetPcs => Raw, l \in ReadyPcs => Ready
      PROVE  IInv'
  <2>1. Accounts(p, l, id[p], 0, 0, 0)
    BY <1>2, <1>3, <1>7 DEF Accounts, Bit
  <2>2. Entitled(p, l, id[p])
    BY <1>7 DEF Entitled
  <2>3. UndoIs(adj'[p], l, id[p] = set /\ set # 0) /\ adj' = adj
    BY <1>1, <1>2, <1>7 DEF UndoIs, Is
  <2>4. rounds' \in [Procs -> 0 .. Rounds] /\ UNCHANGED <<made, set, val, exits>> /\ id' = id
    BY <1>1, Facts
  <2> HIDE DEF LockPcs, SetPcs, ReadyPcs, UserPcs, FreshPcs, Gone
  <2> QED  BY <1>7, <2>1, <2>2, <2>3, <2>4, Facts, PlainStep, Zenon
<1>8. CASE CreateGetval(p)
  <2>1. (val[set][1] = 0 => Raw) /\ (val[set][1] # 0 => Ready)
    BY <1>4, <1>5, <1>6 DEF Raw, Ready
  <2>2. CASE V(p, 1) = 0
    <3>1. pc' = [pc EXCEPT ![p] = "set0"]
      BY <1>8, <2>2 DEF CreateGetval, Goto
    <3> QED  BY <1>6, <1>7, <2>1, <2>2, <3>1
  <2>3. CASE V(p, 1) # 0
    <3>1. pc' = [pc EXCEPT ![p] = "endcreate"]
      BY <1>8, <2>3 DEF CreateGetval, Goto
    <3> QED  BY <1>6, <1>7, <2>1, <2>3, <3>1
  <2> QED  BY <2>2, <2>3
<1>9. CASE CloseGetval(p)
  <2>1. Ready
    BY <1>4, <1>9 DEF CloseGetval, Goto
  <2>2. val[set][1] = BIGCOUNT - Cardinality(Counted)
    BY <2>1 DEF Ready
  <2>3. (pc' = [pc EXCEPT ![p] = "rm"] /\ Counted = {}) \/ pc' = [pc EXCEPT ![p] = "closeunlock"]
    <3>1. ~(V(p, 1) > BIGCOUNT) /\ (V(p, 1) = BIGCOUNT => Counted = {})
      BY <1>5, <1>6, <2>2
    <3> QED  BY <1>9, <3>1 DEF CloseGetval, Goto
  <2> QED  BY <1>7, <2>1, <2>3
<1> QED  BY <1>8, <1>9

\* A semop of a process that already has the lock or a place: what it gives back is
\* what its adjustment remembers.
LEMMA SemKeeps ==
  ASSUME IInv, NEW p \in Procs, Valid(p),
         CreateEnd(p) \/ OpenOp(p) \/ sem_wait(p) \/ sem_signal(p) \/ CloseLock(p) \/ CloseUnlock(p)
  PROVE  IInv'
<1> USE DEF LockPcs, SetPcs, ReadyPcs, UserPcs, FreshPcs, Gone
<1>1. id[p] = set /\ set # 0
  BY DEF Valid
<1>2. /\ p \in Lockers <=> pc[p] \in LockPcs
      /\ p \in Counted <=> pc[p] \in UserPcs
      /\ p \in Inside <=> pc[p] = "inside"
  BY DEF Lockers, Counted, Inside
<1>3. UndoIs(adj[p], pc[p], TRUE)
  BY DEF IInv, Undo, UndoIs
<1>4. V(p, 0) = val[set][0] /\ V(p, 1) = val[set][1] /\ V(p, 2) = val[set][2]
  BY <1>1 DEF V
<1>5. adj[p][0] \in Int /\ adj[p][1] \in Int /\ adj[p][2] \in Int
  BY DEF IInv, Types
<1>6. CASE CreateEnd(p)
  <2>1. /\ pc[p] = "endcreate" /\ val[set][1] >= 1 /\ SemOp(p, Ops(0, -1, -1)) /\ pc' = [pc EXCEPT ![p] = "using"]
        /\ UNCHANGED <<made, set, rounds, exits>> /\ id' = id
    BY <1>4, <1>6 DEF CreateEnd, Goto, op_endcreate
  <2>2. Accounts(p, "using", id[p], 0, -1, -1)
    BY <1>1, <1>2, <2>1 DEF Accounts, Bit
  <2>3. Entitled(p, "using", id[p])
    BY <2>1 DEF Entitled
  <2>4. \A f : Is(f, adj[p][0] - 0, adj[p][1] - (-1), adj[p][2] - (-1)) => UndoIs(f, "using", id[p] = set /\ set # 0)
    BY <1>3, <2>1 DEF Is, UndoIs
  <2> HIDE DEF LockPcs, SetPcs, ReadyPcs, UserPcs, FreshPcs, Gone
  <2> QED  BY <2>1, <2>2, <2>3, <2>4, Facts, SemOpStep, Zenon
<1>7. CASE OpenOp(p)
  <2>1. /\ pc[p] = "open" /\ val[set][1] >= 1 /\ SemOp(p, Ops(0, -1, 0)) /\ pc' = [pc EXCEPT ![p] = "using"]
        /\ UNCHANGED <<made, set, rounds, exits>> /\ id' = id
    BY <1>4, <1>7 DEF OpenOp, Goto, op_open
  <2>2. Accounts(p, "using", id[p], 0, -1, 0)
    BY <1>1, <1>2, <2>1 DEF Accounts, Bit
  <2>3. Entitled(p, "using", id[p])
    BY <2>1 DEF Entitled, IInv, LastUser
  <2>4. \A f : Is(f, adj[p][0] - 0, adj[p][1] - (-1), adj[p][2] - 0) => UndoIs(f, "using", id[p] = set /\ set # 0)
    BY <1>3, <2>1 DEF Is, UndoIs
  <2> HIDE DEF LockPcs, SetPcs, ReadyPcs, UserPcs, FreshPcs, Gone
  <2> QED  BY <2>1, <2>2, <2>3, <2>4, Facts, SemOpStep, Zenon
<1>8. CASE sem_wait(p)
  <2>1. /\ pc[p] = "using" /\ val[set][0] >= 1 /\ SemOp(p, Ops(-1, 0, 0)) /\ pc' = [pc EXCEPT ![p] = "inside"]
        /\ UNCHANGED <<made, set, rounds, exits>> /\ id' = id
    BY <1>4, <1>8 DEF sem_wait, Goto
  <2>2. Accounts(p, "inside", id[p], -1, 0, 0)
    BY <1>1, <1>2, <2>1 DEF Accounts, Bit
  <2>3. Entitled(p, "inside", id[p])
    BY <2>1 DEF Entitled
  <2>4. \A f : Is(f, adj[p][0] - (-1), adj[p][1] - 0, adj[p][2] - 0) => UndoIs(f, "inside", id[p] = set /\ set # 0)
    BY <1>3, <2>1 DEF Is, UndoIs
  <2> HIDE DEF LockPcs, SetPcs, ReadyPcs, UserPcs, FreshPcs, Gone
  <2> QED  BY <2>1, <2>2, <2>3, <2>4, Facts, SemOpStep, Zenon
<1>9. CASE sem_signal(p)
  <2>1. /\ pc[p] = "inside" /\ SemOp(p, Ops(1, 0, 0)) /\ pc' = [pc EXCEPT ![p] = "used"]
        /\ UNCHANGED <<made, set, rounds, exits>> /\ id' = id
    BY <1>9 DEF sem_signal, Goto
  <2>2. Accounts(p, "used", id[p], 1, 0, 0)
    BY <1>1, <1>2, <2>1 DEF Accounts, Bit
  <2>3. Entitled(p, "used", id[p])
    BY <2>1 DEF Entitled
  <2>4. \A f : Is(f, adj[p][0] - 1, adj[p][1] - 0, adj[p][2] - 0) => UndoIs(f, "used", id[p] = set /\ set # 0)
    BY <1>3, <2>1 DEF Is, UndoIs
  <2> HIDE DEF LockPcs, SetPcs, ReadyPcs, UserPcs, FreshPcs, Gone
  <2> QED  BY <2>1, <2>2, <2>3, <2>4, Facts, SemOpStep, Zenon
<1>10. CASE CloseLock(p)
  <2>1. /\ pc[p] \in {"using", "used"} /\ val[set][2] = 0 /\ SemOp(p, Ops(0, 1, 1)) /\ pc' = [pc EXCEPT ![p] = "closeget"]
        /\ UNCHANGED <<made, set, rounds, exits>> /\ id' = id
    BY <1>4, <1>10 DEF CloseLock, Goto, op_close
  <2>2. Lockers = {} /\ Ready
    BY <1>1, <1>2, <2>1 DEF IInv, LockMember, Members, Raw
  <2>3. Accounts(p, "closeget", id[p], 0, 1, 1)
    BY <1>1, <1>2, <2>1, <2>2 DEF Accounts, Bit
  <2>4. Entitled(p, "closeget", id[p])
    BY <2>2 DEF Entitled
  <2>5. \A f : Is(f, adj[p][0] - 0, adj[p][1] - 1, adj[p][2] - 1) => UndoIs(f, "closeget", id[p] = set /\ set # 0)
    BY <1>3, <2>1 DEF Is, UndoIs
  <2> HIDE DEF LockPcs, SetPcs, ReadyPcs, UserPcs, FreshPcs, Gone
  <2> QED  BY <2>1, <2>3, <2>4, <2>5, Facts, SemOpStep, Zenon
<1>11. CASE CloseUnlock(p)
  <2>1. /\ pc[p] = "closeunlock" /\ SemOp(p, Ops(0, 0, -1)) /\ pc' = [pc EXCEPT ![p] = "idle"]
        /\ UNCHANGED <<made, set, rounds, exits>> /\ id' = [id EXCEPT ![p] = 0]
    BY <1>11 DEF CloseUnlock, Goto, op_unlock
  <2>2. Accounts(p, "idle", 0, 0, 0, -1)
    BY <1>1, <1>2, <2>1 DEF Accounts, Bit
  <2>3. Entitled(p, "idle", 0)
    BY DEF Entitled
  <2>4. \A f : Is(f, adj[p][0] - 0, adj[p][1] - 0, adj[p][2] - (-1)) => UndoIs(f, "idle", 0 = set /\ set # 0)
    BY DEF UndoIs
  <2> HIDE DEF LockPcs, SetPcs, ReadyPcs, UserPcs, FreshPcs, Gone
  <2> QED  BY <2>1, <2>2, <2>3, <2>4, Facts, SemOpStep, Zenon
<1> QED  BY <1>6, <1>7, <1>8, <1>9, <1>10, <1>11
\* A SETVAL, by the process that has the lock of a raw set: nobody has an adjustment
\* for the member it sets.
LEMMA SetValKeeps ==
  ASSUME IInv, NEW p \in Procs, CreateSet0(p) \/ CreateSet1(p)
  PROVE  IInv'
<1> USE DEF LockPcs, SetPcs, ReadyPcs, UserPcs, FreshPcs, Gone
<1> DEFINE m == IF pc[p] = "set0" THEN 0 ELSE 1
           v == IF pc[p] = "set0" THEN InitVal ELSE BIGCOUNT
           l == IF pc[p] = "set0" THEN "set1" ELSE "endcreate"
<1>1. /\ pc[p] \in SetPcs /\ pc' = [pc EXCEPT ![p] = l] /\ SetVal(p, m, v)
      /\ UNCHANGED <<made, set, id, rounds, exits>>
  <2>1. CASE CreateSet0(p)
    BY <2>1 DEF CreateSet0, Goto
  <2>2. CASE CreateSet1(p)
    BY <2>2 DEF CreateSet1, Goto
  <2> QED  BY <2>1, <2>2
<1>2. Types /\ Undo /\ Members
  BY DEF IInv
<1>3. id[p] = set /\ set # 0 /\ set \in Sets /\ Lockers = {p} /\ Is(adj[p], 0, 0, -1) /\ Raw
  <2>1. id[p] = set /\ set # 0 /\ Lockers = {p}
    BY <1>1, Facts DEF Valid
  <2>2. set \in Sets
    BY <1>2, <2>1, ConstantsTyped DEF Types, Sets
  <2> QED  BY <1>1, <1>2, <2>1, <2>2 DEF Undo, Members
<1>4. \A q \in Procs : pc[q] \in UserPcs => ~Valid(q)
  BY <1>3 DEF Raw, Counted
<1>5. m \in {0, 1} /\ v \in Int /\ l \in {"set1", "endcreate"}
  BY ConstantsTyped
<1>6. /\ val' \in [Sets -> [0 .. 2 -> Int]]
      /\ val'[set][m] = v /\ val'[set][1 - m] = val[set][1 - m] /\ val'[set][2] = val[set][2]
      /\ \A n \in Sets \ {set} : val'[n] = val[n]
  <2>1. val \in [Sets -> [0 .. 2 -> Int]] /\ val' = [val EXCEPT ![set][m] = v]
    BY <1>1, <1>2, <1>3 DEF SetVal, Types
  <2> HIDE DEF m, v
  <2> QED  BY <1>3, <1>5, <2>1
<1>7. /\ adj' \in [Procs -> [0 .. 2 -> Int]]
      /\ \A q \in Procs : /\ Is(adj[q], 0, 0, 0) => Is(adj'[q], 0, 0, 0)
                          /\ Is(adj[q], 0, 0, -1) => Is(adj'[q], 0, 0, -1)
  <2>1. /\ adj \in [Procs -> [0 .. 2 -> Int]]
        /\ adj' = [q \in Procs |-> IF id[q] = id[p] THEN [adj[q] EXCEPT ![m] = 0] ELSE adj[q]]
    BY <1>1, <1>2 DEF SetVal, Types
  <2> HIDE DEF m, v
  <2>2. \A q \in Procs : [adj[q] EXCEPT ![m] = 0] \in [0 .. 2 -> Int]
    BY <1>5, <2>1
  <2> QED  BY <1>5, <2>1, <2>2 DEF Is
<1>8. Accounts(p, l, id[p], 0, 0, 0)
  BY <1>1, <1>3 DEF Accounts, Bit, Lockers, Counted, Inside
<1>9. id[p] \in 0 .. made /\ id' = [id EXCEPT ![p] = id[p]] /\ rounds' \in [Procs -> 0 .. Rounds]
      /\ exits' \in 0 .. MaxExits /\ val'[set][2] = val[set][2] + 0
  <2>1. exits' \in 0 .. MaxExits
    BY <1>1, <1>2 DEF Types
  <2>2. id[p] \in 0 .. made /\ id' = [id EXCEPT ![p] = id[p]] /\ rounds' \in [Procs -> 0 .. Rounds]
    BY <1>1, Facts
  <2>3. val[set][2] \in Int
    BY <1>3, Facts
  <2> QED  BY <1>6, <2>1, <2>2, <2>3
<1>10. Types' /\ Identifiers' /\ LockMember' /\ LastUser' /\ NotRemovedWhileUsed'
  <2>1. set' = set /\ made' = made /\ 0 \in Int
    BY <1>1
  <2> HIDE DEF l, m, v, LockPcs, SetPcs, ReadyPcs, UserPcs, FreshPcs, Gone
  <2> QED  BY <1>1, <1>5, <1>6, <1>7, <1>8, <1>9, <2>1, LockKept
<1>11. (\A q \in Procs \ {p} : pc'[q] = pc[q]) /\ pc'[p] = l /\ id' = id /\ set' = set
  BY <1>1, <1>2 DEF Types
<1>12. \A q \in Procs \ {p} : pc[q] \notin LockPcs
  BY <1>3 DEF Lockers
<1>13. Counted' = {} /\ Inside' = {}
  <2> HIDE DEF m, v
  <2> QED  BY <1>4, <1>11 DEF Counted, Inside, Valid
<1>14. Undo'
  <2> HIDE DEF m, v
  <2> SUFFICES ASSUME NEW q \in Procs
               PROVE  /\ pc'[q] \in FreshPcs => Is(adj'[q], 0, 0, 0)
                      /\ pc'[q] \in LockPcs => Valid(q)' /\ Is(adj'[q], 0, 0, -1)
                      /\ pc'[q] \in UserPcs => ~Valid(q)'
    BY DEF Undo
  <2>1. CASE q = p
    BY <1>3, <1>7, <1>11, <2>1 DEF Valid
  <2>2. CASE q # p
    BY <1>2, <1>4, <1>7, <1>11, <1>12, <2>2 DEF Undo, Valid
  <2> QED  BY <2>1, <2>2
<1>15. Members'
  <2>1. CASE pc[p] = "set0"
    <3>1. val[set][1] = 0 /\ val'[set][0] = InitVal /\ val'[set][1] = val[set][1]
      BY <1>3, <1>6, <2>1 DEF Raw
    <3>2. Raw'
      BY <1>11, <1>13, <3>1 DEF Raw
    <3> QED  BY <1>11, <1>12, <2>1, <3>1, <3>2 DEF Members
  <2>2. CASE pc[p] = "set1"
    <3>1. val'[set][1] = BIGCOUNT /\ val'[set][0] = InitVal
      BY <1>2, <1>6, <2>2 DEF Members
    <3>2. Cardinality({}) = 0
      BY FS_EmptySet
    <3>3. Ready'
      BY <1>11, <1>13, <3>1, <3>2, ConstantsTyped DEF Ready
    <3> QED  BY <1>11, <1>12, <2>2, <3>3 DEF Members
  <2> QED  BY <1>1, <2>1, <2>2
<1> QED  BY <1>10, <1>14, <1>15 DEF IInv
\* sem_rm: nobody but processes with sem_open loses the set.
LEMMA RemoveKeeps ==
  ASSUME IInv, NEW p \in Procs, sem_rm(p)
  PROVE  IInv'
<1> USE DEF LockPcs, SetPcs, ReadyPcs, UserPcs, FreshPcs, Gone
<1>1. /\ pc[p] = "rm" /\ pc' = [pc EXCEPT ![p] = "idle"] /\ set' = 0 /\ id' = [id EXCEPT ![p] = 0]
      /\ val' = [val EXCEPT ![id[p]] = Zero]
      /\ adj' = [q \in Procs |-> IF id[q] = id[p] THEN Zero ELSE adj[q]]
      /\ UNCHANGED <<made, rounds, exits>>
  BY DEF sem_rm, Goto
<1>2. Types /\ Identifiers /\ Undo /\ LockMember /\ LastUser /\ NotRemovedWhileUsed
  BY DEF IInv
<1>3. id[p] = set /\ set # 0 /\ Lockers = {p} /\ Counted \subseteq Openers
  BY <1>1, <1>2, Facts DEF Valid, LastUser
<1>4. Zero \in [0 .. 2 -> Int] /\ Is(Zero, 0, 0, 0)
  BY DEF Zero, Is
<1>5. /\ \A q \in Procs \ {p} : pc'[q] = pc[q] /\ id'[q] = id[q] /\ pc[q] \notin LockPcs
      /\ pc'[p] = "idle" /\ id'[p] = 0
  BY <1>1, <1>2, <1>3 DEF Types, Lockers
<1>6. set \in Sets
  BY <1>2, <1>3, ConstantsTyped DEF Types, Sets
<1> HIDE DEF Zero
<1>7. val' \in [Sets -> [0 .. 2 -> Int]] /\ (\A n \in Sets \ {set} : val'[n] = val[n]) /\ Is(val'[set], 0, 0, 0)
  BY <1>1, <1>2, <1>3, <1>4, <1>6 DEF Types
<1>8. /\ adj' \in [Procs -> [0 .. 2 -> Int]]
      /\ \A q \in Procs : Is(adj[q], 0, 0, 0) => Is(adj'[q], 0, 0, 0)
  BY <1>1, <1>2, <1>4 DEF Types
<1>9. Types'
  BY <1>1, <1>2, <1>7, <1>8, ConstantsTyped DEF Types
<1>10. Identifiers'
  BY <1>1, <1>2, <1>5, <1>7, ConstantsTyped DEF Identifiers, Types
<1>11. Undo'
  BY <1>1, <1>2, <1>5, <1>8 DEF Undo, Valid
<1>12. LockMember' /\ Members'
  BY <1>1, <1>5 DEF LockMember, Members, Lockers
<1>13. LastUser'
  BY <1>2, <1>5 DEF LastUser
<1>14. NotRemovedWhileUsed'
  BY <1>2, <1>3, <1>5 DEF NotRemovedWhileUsed, Users, Counted
<1> QED  BY <1>9, <1>10, <1>11, <1>12, <1>13, <1>14 DEF IInv

\* The kernel applies the adjustments of a process that exits: it gives back just
\* what the process has.
LEMMA ExitKeeps ==
  ASSUME IInv, NEW p \in Procs, Exit(p)
  PROVE  IInv'
<1> USE DEF LockPcs, SetPcs, ReadyPcs, UserPcs, FreshPcs, Gone
<1>1. /\ pc[p] \in FreshPcs \cup LockPcs \cup UserPcs
      /\ pc' = [pc EXCEPT ![p] = "exited"] /\ id' = [id EXCEPT ![p] = 0]
      /\ adj' = [adj EXCEPT ![p] = Zero]
      /\ exits' \in 0 .. MaxExits
      /\ UNCHANGED <<made, set, rounds>>
  BY ConstantsTyped DEF Exit, IInv, Types
<1>2. Types /\ Undo
  BY DEF IInv
<1>3. rounds' \in [Procs -> 0 .. Rounds] /\ set' = set /\ made' = made
  BY <1>1, Facts
<1>4. adj' \in [Procs -> [0 .. 2 -> Int]] /\ \A q \in Procs \ {p} : adj'[q] = adj[q]
  BY <1>1, <1>2 DEF Types, Zero
<1>5. adj[p] \in [0 .. 2 -> Int] /\ adj[p][0] \in Int /\ adj[p][1] \in Int /\ adj[p][2] \in Int
  BY <1>2 DEF Types
<1>6. Entitled(p, "exited", 0) /\ UndoIs(adj'[p], "exited", 0 = set /\ set # 0)
  BY DEF Entitled, UndoIs
<1>7. CASE Valid(p)
  <2>1. id[p] = set /\ set # 0 /\ set \in Sets
    BY <1>2, <1>7, ConstantsTyped DEF Valid, Types, Sets
  <2>2. val' = [val EXCEPT ![set] = [m \in 0 .. 2 |-> val[set][m] + adj[p][m]]]
    BY <1>7, <2>1 DEF Exit
  <2>3. [m \in 0 .. 2 |-> val[set][m] + adj[p][m]] \in [0 .. 2 -> Int]
    <3>1. val[set] \in [0 .. 2 -> Int]
      BY <1>2, <2>1 DEF Types
    <3> QED  BY <1>5, <3>1
  <2>4. /\ val' \in [Sets -> [0 .. 2 -> Int]] /\ \A n \in Sets \ {set} : val'[n] = val[n]
        /\ Is(val'[set], val[set][0] + adj[p][0], val[set][1] + adj[p][1], val[set][2] + adj[p][2])
    BY <1>2, <2>1, <2>2, <2>3 DEF Types, Is
  <2>5. Accounts(p, "exited", 0, adj[p][0], adj[p][1], adj[p][2])
    BY <1>1, <1>2, <1>7, <2>1 DEF Accounts, Bit, Undo, Is, Lockers, Counted, Inside
  <2> HIDE DEF LockPcs, SetPcs, ReadyPcs, UserPcs, FreshPcs, Gone
  <2> QED  BY <1>1, <1>3, <1>4, <1>5, <1>6, <2>4, <2>5, Facts, Accounted, Zenon
<1>8. CASE ~Valid(p)
  <2>1. val' = val
    BY <1>8 DEF Exit
  <2>2. p \notin Lockers /\ p \notin Counted /\ p \notin Inside
    BY <1>2, <1>8 DEF Lockers, Counted, Inside, Undo
  <2>3. Accounts(p, "exited", 0, 0, 0, 0)
    BY <2>2 DEF Accounts, Bit
  <2>4. val' \in [Sets -> [0 .. 2 -> Int]] /\ \A n \in Sets \ {set} : val'[n] = val[n]
    BY <1>2, <2>1 DEF Types
  <2>5. set # 0 => Is(val'[set], val[set][0] + 0, val[set][1] + 0, val[set][2] + 0)
    BY <2>1, Facts DEF Is
  <2> HIDE DEF LockPcs, SetPcs, ReadyPcs, UserPcs, FreshPcs, Gone
  <2> QED  BY <1>1, <1>3, <1>4, <1>6, <2>3, <2>4, <2>5, Facts, Accounted, Zenon
<1> QED  BY <1>7, <1>8

\* semget of the set that is there.
LEMMA GetKeeps ==
  ASSUME IInv, NEW p \in Procs, OpenGet(p) \/ (set # 0 /\ CreateGet(p))
  PROVE  IInv'
<1> USE DEF LockPcs, SetPcs, ReadyPcs, UserPcs, FreshPcs, Gone
<1> DEFINE l == IF p \in Openers THEN "open" ELSE "lock"
<1>1. /\ pc[p] \in {"idle", "again"} /\ pc' = [pc EXCEPT ![p] = l] /\ set # 0
      /\ id' = [id EXCEPT ![p] = set] /\ adj' = [adj EXCEPT ![p] = Zero]
      /\ UNCHANGED <<made, set, val, exits>>
  <2>1. CASE OpenGet(p)
    BY <2>1 DEF OpenGet, Goto
  <2>2. CASE set # 0 /\ CreateGet(p)
    BY <2>2 DEF CreateGet
  <2> QED  BY <2>1, <2>2
<1>2. rounds' \in [Procs -> 0 .. Rounds]
  <2>1. rounds \in [Procs -> 0 .. Rounds] /\ Rounds \in Nat
    BY ConstantsTyped, Facts
  <2>2. CASE OpenGet(p)
    BY <2>1, <2>2 DEF OpenGet
  <2>3. CASE set # 0 /\ CreateGet(p)
    BY <2>1, <2>3 DEF CreateGet
  <2> QED  BY <2>2, <2>3
<1>3. Accounts(p, l, set, 0, 0, 0)
  BY <1>1 DEF Accounts, Bit, Lockers, Counted, Inside
<1>4. Entitled(p, l, set)
  BY DEF Entitled
<1>5. UndoIs(adj'[p], l, set = set /\ set # 0)
  BY <1>1 DEF UndoIs, Is, Zero, IInv, Types
<1> HIDE DEF l, LockPcs, SetPcs, ReadyPcs, UserPcs, FreshPcs, Gone
<1> QED  BY <1>1, <1>2, <1>3, <1>4, <1>5, Facts, PlainStep, Zenon

\* semget makes a new set: nobody has its identifier yet.
LEMMA NewSetKeeps ==
  ASSUME IInv, NEW p \in Procs, set = 0, CreateGet(p)
  PROVE  IInv'
<1> USE DEF LockPcs, SetPcs, ReadyPcs, UserPcs, FreshPcs, Gone
<1>1. /\ p \notin Openers /\ pc[p] \in {"idle", "again"} /\ made < MaxSets
      /\ pc' = [pc EXCEPT ![p] = "lock"] /\ set' = made + 1 /\ made' = made + 1
      /\ id' = [id EXCEPT ![p] = made + 1] /\ adj' = [adj EXCEPT ![p] = Zero]
      /\ UNCHANGED <<val, exits>>
  BY DEF CreateGet
<1>2. Types /\ Identifiers /\ Undo /\ LastUser /\ NotRemovedWhileUsed
  BY DEF IInv
<1>3. rounds' \in [Procs -> 0 .. Rounds]
  <2>1. rounds \in [Procs -> 0 .. Rounds] /\ Rounds \in Nat
    BY ConstantsTyped, Facts
  <2> QED  BY <2>1 DEF CreateGet
<1>4. made + 1 \in Sets /\ made \in Nat /\ made + 1 # 0 /\ made + 1 \in 0 .. MaxSets
  BY <1>1, <1>2, ConstantsTyped DEF Types, Sets
<1>5. /\ \A q \in Procs \ {p} : pc'[q] = pc[q] /\ id'[q] = id[q] /\ adj'[q] = adj[q] /\ id[q] # made + 1
      /\ pc'[p] = "lock" /\ id'[p] = made + 1 /\ Is(adj'[p], 0, 0, 0)
  BY <1>1, <1>2, <1>4 DEF Types, Identifiers, Is, Zero
<1>6. \A q \in Procs : ~Valid(q) /\ pc[q] \notin LockPcs
  BY <1>2 DEF Valid, Undo
<1>7. Lockers' = {} /\ Counted' = {} /\ Inside' = {}
  BY <1>1, <1>5, <1>6 DEF Lockers, Counted, Inside, Valid
<1>8. Is(val'[set'], 0, 0, 0)
  BY <1>1, <1>2, <1>4 DEF Identifiers
<1>9. Types'
  BY <1>1, <1>2, <1>3, <1>4 DEF Types, Zero
<1>10. Identifiers'
  <2>1. \A q \in Procs : id'[q] <= made + 1
    BY <1>2, <1>4, <1>5 DEF Identifiers, Types
  <2>2. \A n \in Sets : Is(val'[n], 0, 0, 0)
    BY <1>1, <1>2, ConstantsTyped DEF Identifiers, Sets
  <2> QED  BY <1>1, <2>1, <2>2 DEF Identifiers
<1>11. Undo'
  BY <1>1, <1>2, <1>5, <1>6 DEF Undo, Valid
<1>12. LockMember'
  BY <1>7, <1>8 DEF LockMember, Is
<1>13. Members'
  <2>1. Raw'
    BY <1>7, <1>8 DEF Raw, Is
  <2> QED  BY <1>5, <1>6, <2>1 DEF Members
<1>14. LastUser' /\ NotRemovedWhileUsed'
  BY <1>2, <1>5, <1>6, <1>7 DEF LastUser, NotRemovedWhileUsed, Users
<1> QED  BY <1>9, <1>10, <1>11, <1>12, <1>13, <1>14 DEF IInv

\* Every step of every process keeps the invariant.
LEMMA StepIInv ==
  ASSUME IInv, [Next]_vars
  PROVE  IInv'
<1>1. CASE UNCHANGED vars
  BY <1>1 DEF vars, IInv, Types, Identifiers, Undo, LockMember, Members, LastUser, NotRemovedWhileUsed,
     Raw, Ready, Lockers, Counted, Inside, Valid, Users
<1>2. CASE Finished
  BY <1>1, <1>2 DEF Finished
<1>3. ASSUME NEW p \in Procs,
             (pc[p] = "idle" /\ CreateGet(p)) \/ OpenGet(p) \/ Step(p) \/ sem_wait(p) \/ Exit(p)
      PROVE  IInv'
  <2>1. CASE CreateGet(p) \/ OpenGet(p)
    BY <2>1, GetKeeps, NewSetKeeps
  <2>2. CASE CreateLock(p)
    BY <2>2, CreateLockKeeps
  <2>3. CASE CreateGone(p)
    <3>1. PICK l \in {"again", "failed"} :
            (pc[p] \in {"lock", "asleep"} \/ l = "failed") /\ pc' = [pc EXCEPT ![p] = l]
      BY <2>3 DEF CreateGone, Goto
    <3> QED  BY <2>3, <3>1, GoneKeeps DEF CreateGone
  <2>4. CASE CreateGetval(p) \/ CloseGetval(p)
    BY <2>4, GetvalKeeps
  <2>5. CASE CreateSet0(p) \/ CreateSet1(p)
    BY <2>5, SetValKeeps
  <2>6. CASE CreateEnd(p) \/ CloseUnlock(p)
    <3>1. pc[p] \in LockPcs
      BY <2>6 DEF CreateEnd, CloseUnlock, Goto, LockPcs, ReadyPcs
    <3> QED  BY <2>6, <3>1, Facts, SemKeeps
  <2>7. CASE OpenOp(p) \/ sem_wait(p) \/ sem_signal(p) \/ CloseLock(p)
    <3>1. CASE Valid(p)
      BY <2>7, <3>1, SemKeeps
    <3>2. CASE ~Valid(p)
      <4>1. pc' = [pc EXCEPT ![p] = "failed"] /\ UNCHANGED <<made, set, val, id, adj, rounds, exits>>
        BY <2>7, <3>2 DEF OpenOp, sem_wait, sem_signal, CloseLock, Goto
      <4> QED  BY <3>2, <4>1, GoneKeeps
    <3> QED  BY <3>1, <3>2
  <2>8. CASE sem_rm(p)
    BY <2>8, RemoveKeeps
  <2>9. CASE Exit(p)
    BY <2>9, ExitKeeps
  <2> QED  BY <1>3, <2>1, <2>2, <2>3, <2>4, <2>5, <2>6, <2>7, <2>8, <2>9 DEF Step, Create, Close
<1> QED  BY <1>1, <1>2, <1>3 DEF Next

LEMMA Invariance == Spec => []IInv
BY InitIInv, StepIInv, PTL DEF Spec

-----------------------------------------------------------------------------
(* What follows.                                                            *)

\* No semaphore value, counter or lock is ever negative, however processes exit:
\* semop's adjustments never take away more than there is.
LEMMA Typed == IInv => TypeOK
<1> SUFFICES ASSUME IInv PROVE TypeOK
  OBVIOUS
<1>1. Types /\ Identifiers /\ LockMember /\ Members
  BY DEF IInv
<1>2. ASSUME NEW n \in Sets, NEW m \in 0 .. 2 PROVE val[n][m] \in Nat
  <2>1. m = 0 \/ m = 1 \/ m = 2
    OBVIOUS
  <2>2. CASE n # set
    BY <1>1, <2>1, <2>2 DEF Identifiers, Is
  <2>3. CASE n = set
    <3>1. set # 0
      BY <2>3, ConstantsTyped DEF Sets
    <3>2. Counted \in SUBSET Procs /\ Inside \in SUBSET Procs
      BY DEF Counted, Inside
    <3>3. /\ Cardinality(Counted) \in Nat /\ Cardinality(Counted) < BIGCOUNT
          /\ Cardinality(Inside) \in Nat
      BY <3>2, Counting
    <3>4. val[set][0] \in Nat /\ val[set][1] \in Nat
      BY <1>1, <3>1, <3>3, ConstantsTyped DEF Members, Raw, Ready
    <3>5. val[set][2] \in Nat
      BY <1>1, <3>1 DEF LockMember
    <3> QED  BY <2>1, <2>3, <3>4, <3>5
  <2> QED  BY <2>2, <2>3
<1>3. val \in [Sets -> [0 .. 2 -> Nat]]
  BY <1>1, <1>2 DEF Types
<1> QED  BY <1>1, <1>3 DEF Types, TypeOK, FreshPcs, LockPcs, SetPcs, ReadyPcs, UserPcs, Gone

\* The counter: with the lock free, BIGCOUNT less the users of the set, through
\* creation by several processes at once, exits anywhere, removal and new creation.
THEOREM CounterExact == Spec => []CounterIsExact
<1>1. ASSUME IInv PROVE CounterIsExact
  <2>1. TypeOK
    BY <1>1, Typed
  <2>2. {p \in Users : Valid(p)} = Counted
    BY DEF Users, Counted, UserPcs
  <2>3. Counted # {} => set # 0 /\ ~Raw
    BY DEF Counted, Valid, Raw
  <2>4. Counted # {} => val[set][1] = BIGCOUNT - Cardinality(Counted)
    BY <1>1, <2>3 DEF IInv, Members, Ready
  <2> QED  BY <2>1, <2>2, <2>4 DEF CounterIsExact
<1> QED  BY <1>1, Invariance, PTL

\* sem_close removes the set for the last user only: a process that got it from
\* sem_create keeps it until it closes it.
THEOREM KeptWhileUsed == Spec => []NotRemovedWhileUsed
<1>1. IInv => NotRemovedWhileUsed
  BY DEF IInv
<1> QED  BY <1>1, Invariance, PTL

\* sem_wait lets at most InitVal processes in.
THEOREM Exclusion == Spec => []MutualExclusion
<1>1. ASSUME IInv PROVE MutualExclusion
  <2>1. {p \in Procs : pc[p] = "inside" /\ (p \in Openers => Valid(p))} = Inside
    BY <1>1 DEF IInv, NotRemovedWhileUsed, Users, Inside
  <2>2. set = 0 => Inside = {}
    BY DEF Inside, Valid
  <2>3. Inside = {} \/ Cardinality(Inside) <= InitVal
    BY <1>1, <2>2 DEF IInv, Members, Raw, Ready
  <2>4. Cardinality({}) = 0
    BY FS_EmptySet
  <2> QED  BY <2>1, <2>3, <2>4, ConstantsTyped DEF MutualExclusion
<1> QED  BY <1>1, Invariance, PTL
=============================================================================
