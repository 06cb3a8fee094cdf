---------------------------- MODULE ThreadProofs ----------------------------
(***************************************************************************)
(* For any number of threads, jobs, messages and numbers: what MCThreads   *)
(* says of the programs on threads.  Each program has its own inductive    *)
(* invariant; a step of one leaves the others as they are.                 *)
(***************************************************************************)
EXTENDS MCThreads, FiniteSetTheorems, TLAPS

\* A step of one program leaves the others as they are.
LEMMA Steps ==
  ASSUME [MCNext]_All
  PROVE  /\ [Count!Next]_countVars /\ [Jobs!Next]_jobsVars /\ [Work!Next]_workVars
         /\ [Sort!Next]_sortVars /\ [Retry!Next]_retryVars /\ [Env!Next]_envVars
         /\ [Poll!Next]_pollVars
BY DEF MCNext, Rest, Finished, All

-----------------------------------------------------------------------------
(* rwlock.c: the queue of jobs.                                            *)

JobTypes ==
  /\ j_next \in [QueuedJobs -> QueuedJobs \cup {Null}]
  /\ j_prev \in [QueuedJobs -> QueuedJobs \cup {Null}]
  /\ found \in [JobWorkers -> {"idle", "walking", "yes"}]
  /\ jp \in [JobWorkers -> QueuedJobs \cup {Null}]
  /\ queue \in Seq(QueuedJobs)

NoneTwice == \A i, k \in 1 .. Len(queue) : queue[i] = queue[k] => i = k

\* The list is the queue, both ways.
Links ==
  /\ queue = <<>> => q_head = Null /\ q_tail = Null
  /\ queue # <<>> => q_head = queue[1] /\ q_tail = queue[Len(queue)]
  /\ \A i \in 1 .. Len(queue) :
       /\ i = Len(queue) => j_next[queue[i]] = Null
       /\ i # Len(queue) => j_next[queue[i]] = queue[i + 1]
       /\ i = 1 => j_prev[queue[i]] = Null
       /\ i # 1 => j_prev[queue[i]] = queue[i - 1]

\* A worker that walks has the read lock and has passed none of its jobs; what one
\* has found is its own, and still queued.
Passed(w, i) == \A k \in 1 .. Len(queue) : JobId[queue[k]] = w => k >= i
Walkers == \A w \in JobWorkers :
  /\ found[w] = "walking" =>
       /\ w \in readers
       /\ \/ jp[w] = Null /\ \A k \in 1 .. Len(queue) : JobId[queue[k]] # w
          \/ \E i \in 1 .. Len(queue) : queue[i] = jp[w] /\ Passed(w, i)
  /\ found[w] = "yes" => \E i \in 1 .. Len(queue) : queue[i] = jp[w] /\ JobId[queue[i]] = w

JobInv == JobTypes /\ NoneTwice /\ Links /\ Walkers

LEMMA JobInit == Jobs!queue_init => JobInv
BY DEF Jobs!queue_init, JobInv, JobTypes, NoneTwice, Links, Walkers

\* What RemoveFirst leaves of a queue that has the job once.
LEMMA Removed ==
  ASSUME NEW q \in Seq(QueuedJobs), NEW k \in 1 .. Len(q), \A i \in 1 .. Len(q) : q[i] = q[k] => i = k
  PROVE  LET r == Jobs!RemoveFirst(q, q[k]) IN
         /\ r \in Seq(QueuedJobs) /\ Len(r) = Len(q) - 1
         /\ \A i \in 1 .. Len(q) - 1 : r[i] = IF i < k THEN q[i] ELSE q[i + 1]
<1>1. Jobs!SelectInSeq(q, LAMBDA v : v = q[k]) = k
  <2>1. {i \in 1 .. Len(q) : q[i] = q[k]} = {k}
    OBVIOUS
  <2> QED  BY <2>1 DEF Jobs!SelectInSeq, Jobs!Min
<1> DEFINE a == SubSeq(q, 1, k - 1)  b == SubSeq(q, k + 1, Len(q))
<1>2. Jobs!RemoveFirst(q, q[k]) = a \o b
  BY <1>1 DEF Jobs!RemoveFirst, Jobs!RemoveAt
<1>3. a \in Seq(QueuedJobs) /\ Len(a) = k - 1 /\ \A i \in 1 .. k - 1 : a[i] = q[i]
  OBVIOUS
<1>4. b \in Seq(QueuedJobs) /\ Len(b) = Len(q) - k /\ \A i \in 1 .. Len(q) - k : b[i] = q[k + i]
  OBVIOUS
<1> HIDE DEF a, b
<1>5. /\ a \o b \in Seq(QueuedJobs) /\ Len(a \o b) = Len(q) - 1
      /\ \A i \in 1 .. Len(q) - 1 : (a \o b)[i] = IF i < k THEN a[i] ELSE b[i - (k - 1)]
  <2>0. a \in Seq(QueuedJobs) /\ b \in Seq(QueuedJobs)
    BY <1>3, <1>4
  <2>1. a \o b \in Seq(QueuedJobs) /\ Len(a \o b) = Len(a) + Len(b)
    BY <2>0
  <2>2. Len(q) \in Nat /\ k \in 1 .. Len(q)
    OBVIOUS
  <2>3. Len(a \o b) = Len(q) - 1
    BY <1>3, <1>4, <2>1, <2>2
  <2>4. \A i \in 1 .. Len(a) + Len(b) : (a \o b)[i] = IF i <= Len(a) THEN a[i] ELSE b[i - Len(a)]
    BY <1>3, <1>4
  <2>5. \A i \in 1 .. Len(q) - 1 : i \in 1 .. Len(a) + Len(b) /\ (i <= Len(a) <=> i < k)
    BY <1>3, <1>4, <2>2
  <2> QED  BY <1>3, <2>1, <2>3, <2>4, <2>5
<1>6. \A i \in 1 .. Len(q) - 1 : (a \o b)[i] = IF i < k THEN q[i] ELSE q[i + 1]
  BY <1>3, <1>4, <1>5
<1> QED  BY <1>2, <1>5, <1>6

\* A job that is queued is queued once, and is not a worker's.
LEMMA InsertKeeps ==
  ASSUME JobInv, NEW j \in QueuedJobs, Jobs!job_insert(j) \/ Jobs!job_append(j)
  PROVE  JobInv'
<1> USE JobsAssumption DEF JobInv
<1> PICK n \in Nat : n = Len(queue)
  BY DEF JobTypes
<1>1. /\ readers = {} /\ readers' = {} /\ UNCHANGED <<found, jp>>
      /\ \A i \in 1 .. n : queue[i] \in QueuedJobs /\ queue[i] # j
      /\ q_head # j /\ q_tail # j /\ q_head \in QueuedJobs \cup {Null} /\ q_tail \in QueuedJobs \cup {Null}
  <2>1. \A i \in 1 .. n : queue[i] \in QueuedJobs /\ queue[i] # j
    BY DEF Jobs!job_insert, Jobs!job_append, Jobs!Unqueued, Jobs!Contains, JobTypes
  <2>2. queue = <<>> \/ (n >= 1 /\ q_head = queue[1] /\ q_tail = queue[n])
    BY DEF JobTypes, Links
  <2>3. 1 \in 1 .. n \/ n = 0
    OBVIOUS
  <2>4. n \in 1 .. n \/ n = 0
    OBVIOUS
  <2> QED  BY <2>1, <2>2, <2>3, <2>4 DEF Jobs!job_insert, Jobs!job_append, Jobs!WriteLocked, Links
<1>2. \A w \in JobWorkers : found[w] # "walking"
  BY <1>1 DEF Walkers
<1>3. n = 0 <=> queue = <<>>
  BY DEF JobTypes
<1>4. CASE Jobs!job_insert(j)
  <2>1. /\ queue' \in Seq(QueuedJobs) /\ Len(queue') = n + 1 /\ queue'[1] = j
        /\ \A i \in 1 .. n : queue'[i + 1] = queue[i]
    BY <1>4 DEF Jobs!job_insert, JobTypes
  <2>2. /\ q_head' = j /\ q_tail' = IF n = 0 THEN j ELSE q_tail
        /\ j_next'[j] = q_head /\ j_prev'[j] = Null
        /\ \A x \in QueuedJobs \ {j} : j_next'[x] = j_next[x] /\ j_prev'[x] = IF x = q_head THEN j ELSE j_prev[x]
    BY <1>1, <1>3, <1>4 DEF Jobs!job_insert, JobTypes, Links
  <2>3. JobTypes'
    BY <1>1, <1>4, <2>1 DEF Jobs!job_insert, JobTypes
  <2>4. \A i \in 1 .. n + 1 : (i = 1 /\ queue'[i] = j) \/ \E k \in 1 .. n : i = k + 1 /\ queue'[i] = queue[k]
    <3>1. \A i \in 1 .. n + 1 : i = 1 \/ (i - 1 \in 1 .. n /\ i = (i - 1) + 1)
      OBVIOUS
    <3> QED  BY <2>1, <3>1
  <2>5. NoneTwice'
    BY <1>1, <2>1, <2>4 DEF NoneTwice
  <2>6. Links'
    <3>1. ASSUME NEW i \in 1 .. n + 1
          PROVE  /\ i = n + 1 => j_next'[queue'[i]] = Null
                 /\ i # n + 1 => j_next'[queue'[i]] = queue'[i + 1]
                 /\ i = 1 => j_prev'[queue'[i]] = Null
                 /\ i # 1 => j_prev'[queue'[i]] = queue'[i - 1]
      <4>1. CASE i = 1
        BY <1>3, <2>1, <2>2, <4>1 DEF Links
      <4>2. CASE i # 1
        <5>1. PICK k \in 1 .. n : i = k + 1 /\ queue'[i] = queue[k] /\ queue[k] \in QueuedJobs \ {j}
          BY <1>1, <2>4, <4>2
        <5>2. k = 1 <=> queue[k] = q_head
          BY <1>3 DEF Links, NoneTwice
        <5>3. j_next'[queue'[i]] = j_next[queue[k]] /\ j_prev'[queue'[i]] = IF k = 1 THEN j ELSE j_prev[queue[k]]
          BY <2>2, <5>1, <5>2
        <5>4. k # n => queue'[i + 1] = queue[k + 1]
          BY <2>1, <5>1
        <5>5. k # 1 => queue'[i - 1] = queue[k - 1]
          <6>1. k # 1 => k - 1 \in 1 .. n /\ (k - 1) + 1 = i - 1
            BY <5>1
          <6> QED  BY <2>1, <6>1
        <5>6. k = 1 => queue'[i - 1] = j
          BY <2>1, <5>1
        <5>7. /\ k = n => j_next[queue[k]] = Null
              /\ k # n => j_next[queue[k]] = queue[k + 1]
              /\ k # 1 => j_prev[queue[k]] = queue[k - 1]
          BY DEF Links
        <5> QED  BY <4>2, <5>1, <5>3, <5>4, <5>5, <5>6, <5>7
      <4> QED  BY <4>1, <4>2
    <3>2. queue' # <<>> /\ q_head' = queue'[1] /\ q_tail' = queue'[n + 1]
      <4>1. n # 0 => q_tail = queue[n] /\ queue'[n + 1] = queue[n]
        BY <1>3, <2>1 DEF Links
      <4> QED  BY <2>1, <2>2, <4>1
    <3> QED  BY <2>1, <3>1, <3>2 DEF Links
  <2>7. Walkers'
    <3>1. ASSUME NEW w \in JobWorkers, found[w] = "yes"
          PROVE  \E i \in 1 .. n + 1 : queue'[i] = jp[w] /\ JobId[queue'[i]] = w
      <4>1. PICK k \in 1 .. n : queue[k] = jp[w] /\ JobId[queue[k]] = w
        BY <3>1 DEF Walkers
      <4> QED  BY <2>1, <4>1
    <3> QED  BY <1>1, <1>2, <2>1, <3>1 DEF Walkers
  <2> QED  BY <2>3, <2>5, <2>6, <2>7
<1>5. CASE Jobs!job_append(j)
  <2>1. /\ queue' \in Seq(QueuedJobs) /\ Len(queue') = n + 1 /\ queue'[n + 1] = j
        /\ \A i \in 1 .. n : queue'[i] = queue[i]
    BY <1>5 DEF Jobs!job_append, JobTypes
  <2>2. /\ q_tail' = j /\ q_head' = IF n = 0 THEN j ELSE q_head
        /\ j_prev'[j] = q_tail /\ j_next'[j] = Null
        /\ \A x \in QueuedJobs \ {j} : j_prev'[x] = j_prev[x] /\ j_next'[x] = IF x = q_tail THEN j ELSE j_next[x]
    BY <1>1, <1>3, <1>5 DEF Jobs!job_append, JobTypes, Links
  <2>3. JobTypes'
    BY <1>1, <1>5, <2>1 DEF Jobs!job_append, JobTypes
  <2>4. \A i \in 1 .. n + 1 : (i = n + 1 /\ queue'[i] = j) \/ (i \in 1 .. n /\ queue'[i] = queue[i])
    BY <2>1
  <2>5. NoneTwice'
    BY <1>1, <2>1, <2>4 DEF NoneTwice
  <2>6. Links'
    <3>1. ASSUME NEW i \in 1 .. n + 1
          PROVE  /\ i = n + 1 => j_next'[queue'[i]] = Null
                 /\ i # n + 1 => j_next'[queue'[i]] = queue'[i + 1]
                 /\ i = 1 => j_prev'[queue'[i]] = Null
                 /\ i # 1 => j_prev'[queue'[i]] = queue'[i - 1]
      <4>1. CASE i = n + 1
        <5>1. i # 1 => queue'[i - 1] = queue[n] /\ q_tail = queue[n]
          BY <1>3, <2>1, <4>1 DEF Links
        <5>2. i = 1 => q_tail = Null
          BY <1>3, <4>1 DEF Links
        <5> QED  BY <2>1, <2>2, <4>1, <5>1, <5>2
      <4>2. CASE i # n + 1
        <5>1. i \in 1 .. n /\ queue'[i] = queue[i] /\ queue[i] \in QueuedJobs \ {j}
          BY <1>1, <2>4, <4>2
        <5>2. i = n <=> queue[i] = q_tail
          BY <1>3, <5>1 DEF Links, NoneTwice
        <5>3. j_prev'[queue'[i]] = j_prev[queue[i]] /\ j_next'[queue'[i]] = IF i = n THEN j ELSE j_next[queue[i]]
          BY <2>2, <5>1, <5>2
        <5>4. i # n => queue'[i + 1] = queue[i + 1]
          BY <2>1, <5>1
        <5>5. i # 1 => queue'[i - 1] = queue[i - 1]
          BY <2>1, <5>1
        <5>6. i = n => queue'[i + 1] = j
          BY <2>1
        <5>7. /\ i # n => j_next[queue[i]] = queue[i + 1]
              /\ i = 1 => j_prev[queue[i]] = Null
              /\ i # 1 => j_prev[queue[i]] = queue[i - 1]
          BY <5>1 DEF Links
        <5> QED  BY <4>2, <5>3, <5>4, <5>5, <5>6, <5>7
      <4> QED  BY <4>1, <4>2
    <3>2. queue' # <<>> /\ q_head' = queue'[1] /\ q_tail' = queue'[n + 1]
      <4>1. n # 0 => q_head = queue[1] /\ queue'[1] = queue[1]
        BY <1>3, <2>1 DEF Links
      <4> QED  BY <2>1, <2>2, <4>1
    <3> QED  BY <2>1, <3>1, <3>2 DEF Links
  <2>7. Walkers'
    <3>1. ASSUME NEW w \in JobWorkers, found[w] = "yes"
          PROVE  \E i \in 1 .. n + 1 : queue'[i] = jp[w] /\ JobId[queue'[i]] = w
      <4>1. PICK k \in 1 .. n : queue[k] = jp[w] /\ JobId[queue[k]] = w
        BY <3>1 DEF Walkers
      <4> QED  BY <2>1, <4>1
    <3> QED  BY <1>1, <1>2, <2>1, <3>1 DEF Walkers
  <2> QED  BY <2>3, <2>5, <2>6, <2>7
<1> QED  BY <1>4, <1>5

\* What the three cases of job_remove do to the job at place k.
LEMMA Unlinked ==
  ASSUME JobInv, NEW k \in 1 .. Len(queue), Jobs!Unlink(queue[k])
  PROVE  LET n == Len(queue)  j == queue[k] IN
         /\ q_head' = IF k = 1 THEN j_next[j] ELSE q_head
         /\ q_tail' = IF k = n THEN j_prev[j] ELSE q_tail
         /\ j_next' \in [QueuedJobs -> QueuedJobs \cup {Null}]
         /\ j_prev' \in [QueuedJobs -> QueuedJobs \cup {Null}]
         /\ \A x \in QueuedJobs : /\ j_next'[x] = IF k # 1 /\ x = queue[k - 1] THEN j_next[j] ELSE j_next[x]
                                  /\ j_prev'[x] = IF k # n /\ x = queue[k + 1] THEN j_prev[j] ELSE j_prev[x]
<1> USE DEF JobInv
<1> DEFINE n == Len(queue)  j == queue[k]
<1>1. /\ n \in Nat /\ queue # <<>> /\ j \in QueuedJobs /\ q_head = queue[1] /\ q_tail = queue[n]
      /\ j_next[j] \in QueuedJobs \cup {Null} /\ j_prev[j] \in QueuedJobs \cup {Null}
  BY DEF JobTypes, Links
<1>2. (j = q_head <=> k = 1) /\ (j = q_tail <=> k = n)
  BY <1>1 DEF NoneTwice
<1>3. /\ k = 1 => j_prev[j] = Null
      /\ k = n => j_next[j] = Null
      /\ k # 1 => j_prev[j] = queue[k - 1] /\ queue[k - 1] \in QueuedJobs
      /\ k # n => j_next[j] = queue[k + 1] /\ queue[k + 1] \in QueuedJobs
  BY <1>1 DEF Links, JobTypes
<1> HIDE DEF n, j
<1>4. CASE k = 1 /\ k = n
  BY <1>1, <1>2, <1>3, <1>4 DEF Jobs!Unlink, JobTypes, n, j
<1>5. CASE k = 1 /\ k # n
  BY <1>1, <1>2, <1>3, <1>5 DEF Jobs!Unlink, JobTypes, n, j
<1>6. CASE k # 1 /\ k = n
  BY <1>1, <1>2, <1>3, <1>6 DEF Jobs!Unlink, JobTypes, n, j
<1>7. CASE k # 1 /\ k # n
  BY <1>1, <1>2, <1>3, <1>7 DEF Jobs!Unlink, JobTypes, n, j
<1> QED  BY <1>4, <1>5, <1>6, <1>7

LEMMA RemoveKeeps ==
  ASSUME JobInv, NEW w \in JobWorkers, Jobs!job_remove(w)
  PROVE  JobInv'
<1> USE DEF JobInv
<1>1. /\ readers = {} /\ readers' = {} /\ found[w] = "yes"
      /\ found' = [found EXCEPT ![w] = "idle"] /\ jp' = [jp EXCEPT ![w] = Null]
  BY DEF Jobs!job_remove, Jobs!RemoveFound, Jobs!WriteLocked
<1>2. PICK k \in 1 .. Len(queue) : queue[k] = jp[w] /\ JobId[queue[k]] = w
  BY <1>1 DEF Walkers
<1> PICK n \in Nat : n = Len(queue)
  BY DEF JobTypes
<1>3. queue' = Jobs!RemoveFirst(queue, queue[k]) /\ Jobs!Unlink(queue[k])
  BY <1>2 DEF Jobs!job_remove, Jobs!RemoveFound
<1>4. /\ queue' \in Seq(QueuedJobs) /\ Len(queue') = n - 1
      /\ \A i \in 1 .. n - 1 : queue'[i] = IF i < k THEN queue[i] ELSE queue[i + 1]
  BY <1>3, Removed DEF JobTypes, NoneTwice
<1>5. /\ q_head' = IF k = 1 THEN j_next[queue[k]] ELSE q_head
      /\ q_tail' = IF k = n THEN j_prev[queue[k]] ELSE q_tail
      /\ j_next' \in [QueuedJobs -> QueuedJobs \cup {Null}]
      /\ j_prev' \in [QueuedJobs -> QueuedJobs \cup {Null}]
      /\ \A x \in QueuedJobs : /\ j_next'[x] = IF k # 1 /\ x = queue[k - 1] THEN j_next[queue[k]] ELSE j_next[x]
                               /\ j_prev'[x] = IF k # n /\ x = queue[k + 1] THEN j_prev[queue[k]] ELSE j_prev[x]
  BY <1>3, Unlinked
<1>6. JobTypes'
  BY <1>1, <1>4, <1>5 DEF JobTypes
<1>8. /\ k \in 1 .. n /\ n # 0 /\ q_head = queue[1] /\ q_tail = queue[n]
      /\ \A i \in 1 .. n : queue[i] \in QueuedJobs
      /\ \A i, h \in 1 .. n : queue[i] = queue[h] => i = h
      /\ \A i \in 1 .. n :
           /\ i = n => j_next[queue[i]] = Null
           /\ i # n => j_next[queue[i]] = queue[i + 1]
           /\ i = 1 => j_prev[queue[i]] = Null
           /\ i # 1 => j_prev[queue[i]] = queue[i - 1]
  BY DEF JobTypes, Links, NoneTwice
<1>7. NoneTwice'
  <2>1. \A i \in 1 .. n - 1 : \E h \in 1 .. n : queue'[i] = queue[h] /\ h = IF i < k THEN i ELSE i + 1
    BY <1>4
  <2>2. k \in Int /\ \A i, h \in 1 .. n : queue[i] = queue[h] => i = h
    BY <1>8
  <2>3. ASSUME NEW i \in 1 .. n - 1, NEW h \in 1 .. n - 1, queue'[i] = queue'[h] PROVE i = h
    <3>1. (IF i < k THEN i ELSE i + 1) = (IF h < k THEN h ELSE h + 1)
      BY <2>1, <2>2, <2>3
    <3>2. i \in Int /\ h \in Int
      OBVIOUS
    <3> QED  BY ONLY <2>2, <3>1, <3>2
  <2> QED  BY <1>4, <2>3 DEF NoneTwice
<1>9. Links'
  <2>1. ASSUME NEW i \in 1 .. n - 1
        PROVE  /\ i = n - 1 => j_next'[queue'[i]] = Null
               /\ i # n - 1 => j_next'[queue'[i]] = queue'[i + 1]
               /\ i = 1 => j_prev'[queue'[i]] = Null
               /\ i # 1 => j_prev'[queue'[i]] = queue'[i - 1]
    <3>1. CASE i < k
      <4>1. queue'[i] = queue[i] /\ i \in 1 .. n /\ i # n /\ i + 1 \in 1 .. n
        BY <1>4, <3>1
      <4>2. k # 1 => (queue[i] = queue[k - 1] <=> i + 1 = k)
        BY <1>8, <4>1
      <4>3. k # n => queue[i] # queue[k + 1]
        BY <1>8, <3>1, <4>1
      <4>4. j_next'[queue[i]] = (IF i + 1 = k THEN j_next[queue[k]] ELSE j_next[queue[i]]) /\ j_prev'[queue[i]] = j_prev[queue[i]]
        BY <1>5, <1>8, <3>1, <4>1, <4>2, <4>3
      <4>5. i # 1 => queue'[i - 1] = queue[i - 1]
        BY <1>4, <3>1
      <4>6. i # n - 1 => queue'[i + 1] = IF i + 1 < k THEN queue[i + 1] ELSE queue[i + 2]
        BY <1>4
      <4>7. i + 1 = k /\ i # n - 1 => j_next[queue[k]] = queue[i + 2]
        BY <1>8
      <4>8. i + 1 = k /\ i = n - 1 => j_next[queue[k]] = Null
        BY <1>8
      <4>9. i + 1 # k => i + 1 < k /\ i # n - 1
        BY <3>1
      <4> QED  BY <1>8, <4>1, <4>4, <4>5, <4>6, <4>7, <4>8, <4>9
    <3>2. CASE ~(i < k)
      <4>1. queue'[i] = queue[i + 1] /\ i + 1 \in 1 .. n /\ k <= i
        BY <1>4, <3>2
      <4>2. k # 1 => queue[i + 1] # queue[k - 1]
        BY <1>8, <4>1
      <4>3. k # n => (queue[i + 1] = queue[k + 1] <=> i = k)
        BY <1>8, <4>1
      <4>4. j_next'[queue[i + 1]] = j_next[queue[i + 1]] /\ j_prev'[queue[i + 1]] = IF i = k THEN j_prev[queue[k]] ELSE j_prev[queue[i + 1]]
        BY <1>5, <1>8, <4>1, <4>2, <4>3
      <4>5. i # n - 1 => queue'[i + 1] = queue[i + 2]
        BY <1>4, <4>1
      <4>6. i # 1 => queue'[i - 1] = IF i = k THEN queue[i - 1] ELSE queue[i]
        BY <1>4, <4>1
      <4>7. i = k => (i = 1 => j_prev[queue[k]] = Null) /\ (i # 1 => j_prev[queue[k]] = queue[i - 1])
        BY <1>8
      <4>8. /\ i = n - 1 => j_next[queue[i + 1]] = Null
            /\ i # n - 1 => j_next[queue[i + 1]] = queue[i + 2]
            /\ i # k => j_prev[queue[i + 1]] = queue[i] /\ i # 1
        <5>1. i = n - 1 <=> i + 1 = n
          OBVIOUS
        <5>2. (i + 1) + 1 = i + 2 /\ (i + 1) - 1 = i /\ i + 1 # 1
          OBVIOUS
        <5>3. i # k => i # 1
          BY <1>8, <4>1
        <5> QED  BY <1>8, <4>1, <5>1, <5>2, <5>3
      <4> QED  BY <4>1, <4>4, <4>5, <4>6, <4>7, <4>8
    <3> QED  BY <3>1, <3>2
  <2>2. queue' = <<>> => q_head' = Null /\ q_tail' = Null
    <3>1. queue' = <<>> => n = 1 /\ k = 1
      <4>1. queue' = <<>> => n - 1 = 0
        BY <1>4
      <4>2. k \in 1 .. n
        BY <1>8
      <4>3. n - 1 = 0 => n = 1 /\ (k \in 1 .. n => k = 1)
        OBVIOUS
      <4> QED  BY <4>1, <4>2, <4>3
    <3> QED  BY <1>5, <1>8, <3>1
  <2>3. queue' # <<>> => q_head' = queue'[1] /\ q_tail' = queue'[n - 1]
    <3>1. queue' # <<>> => n - 1 \in 1 .. n - 1 /\ 1 \in 1 .. n - 1
      BY <1>4, <1>8
    <3>2. queue' # <<>> => q_head' = queue'[1]
      <4>1. CASE k = 1 /\ queue' # <<>>
        <5>1. k # n /\ ~(1 < k) /\ 1 + 1 = k + 1
          BY <3>1, <4>1
        <5> QED  BY <1>4, <1>5, <1>8, <3>1, <4>1, <5>1
      <4>2. CASE k # 1 /\ queue' # <<>>
        <5>1. 1 < k
          BY <1>8, <4>2
        <5> QED  BY <1>4, <1>5, <1>8, <3>1, <4>2, <5>1
      <4> QED  BY <4>1, <4>2
    <3>3. queue' # <<>> => q_tail' = queue'[n - 1]
      <4>1. CASE k = n /\ queue' # <<>>
        <5>1. n # 1 /\ n - 1 < k
          BY <3>1, <4>1
        <5> QED  BY <1>4, <1>5, <1>8, <3>1, <4>1, <5>1
      <4>2. CASE k # n /\ queue' # <<>>
        <5>1. ~(n - 1 < k) /\ (n - 1) + 1 = n
          BY <1>8, <4>2
        <5> QED  BY <1>4, <1>5, <1>8, <3>1, <4>2, <5>1
      <4> QED  BY <4>1, <4>2
    <3> QED  BY <3>2, <3>3
  <2> QED  BY <1>4, <2>1, <2>2, <2>3 DEF Links
<1>10. Walkers'
  <2>1. ASSUME NEW v \in JobWorkers, v # w, found[v] = "yes"
        PROVE  \E i \in 1 .. n - 1 : queue'[i] = jp[v] /\ JobId[queue'[i]] = v
    <3>1. PICK h \in 1 .. n : queue[h] = jp[v] /\ JobId[queue[h]] = v
      BY <2>1 DEF Walkers
    <3>2. h # k
      BY <1>2, <2>1, <3>1
    <3>3. CASE h < k
      BY <1>4, <1>8, <3>1, <3>3
    <3>4. CASE k < h
      <4>1. h - 1 \in 1 .. n - 1 /\ ~(h - 1 < k) /\ (h - 1) + 1 = h
        BY <1>8, <3>4
      <4> QED  BY <1>4, <3>1, <4>1
    <3> QED  BY <1>8, <3>2, <3>3, <3>4
  <2>2. \A v \in JobWorkers : found[v] # "walking"
    BY <1>1 DEF Walkers
  <2>3. \A v \in JobWorkers : (v = w /\ found'[v] = "idle") \/ (v # w /\ found'[v] = found[v] /\ jp'[v] = jp[v])
    BY <1>1 DEF JobTypes
  <2> QED  BY <1>4, <2>1, <2>2, <2>3 DEF Walkers
<1> QED  BY <1>6, <1>7, <1>9, <1>10

\* The walk: the read lock, the head, one job at a time, the unlock.
LEMMA FindKeeps ==
  ASSUME JobInv, NEW w \in JobWorkers, Jobs!FindStart(w) \/ Jobs!FindStep(w) \/ Jobs!FindEnd(w)
  PROVE  JobInv'
<1> USE JobsAssumption DEF JobInv
<1> PICK n \in Nat : n = Len(queue)
  BY DEF JobTypes
<1>1. UNCHANGED <<q_head, q_tail, j_next, j_prev, queue>> /\ NoneTwice' /\ Links'
  BY DEF Jobs!FindStart, Jobs!FindStep, Jobs!FindEnd, NoneTwice, Links
<1>2. \A i \in 1 .. n : queue[i] \in QueuedJobs
  BY DEF JobTypes
<1>2a. CASE UNCHANGED <<readers, found, jp>>
  <2>1. JobTypes' /\ Walkers'
    BY <1>1, <1>2a DEF JobTypes, Walkers, Passed
  <2> QED  BY <1>1, <2>1
<1>3. CASE Jobs!FindStart(w) /\ ~UNCHANGED <<readers, found, jp>>
  <2>1. /\ readers' = readers \cup {w}
        /\ found' = [found EXCEPT ![w] = "walking"] /\ jp' = [jp EXCEPT ![w] = q_head]
    BY <1>3 DEF Jobs!FindStart
  <2>2. (n = 0 /\ q_head = Null) \/ (1 \in 1 .. n /\ q_head = queue[1])
    BY DEF Links, JobTypes
  <2>3. JobTypes'
    BY <1>1, <1>2, <2>1, <2>2 DEF JobTypes
  <2>4. \/ q_head = Null /\ \A k \in 1 .. n : JobId[queue[k]] # w
        \/ \E i \in 1 .. n : queue[i] = q_head /\ Passed(w, i)
    BY <2>2 DEF Passed
  <2>5. Walkers'
    BY <1>1, <2>1, <2>4 DEF Walkers, Passed, JobTypes
  <2> QED  BY <1>1, <2>3, <2>5
<1>4. CASE Jobs!FindStep(w)
  <2>1. /\ found[w] = "walking" /\ jp[w] \in QueuedJobs /\ JobId[jp[w]] # w
        /\ jp' = [jp EXCEPT ![w] = j_next[@]] /\ UNCHANGED <<readers, found>>
    BY <1>4 DEF Jobs!FindStep, JobTypes
  <2>2. PICK i \in 1 .. n : queue[i] = jp[w] /\ Passed(w, i)
    BY <2>1 DEF Walkers
  <2>3. \A k \in 1 .. n : JobId[queue[k]] = w => k > i
    BY <2>1, <2>2 DEF Passed
  <2>4. \/ j_next[jp[w]] = Null /\ \A k \in 1 .. n : JobId[queue[k]] # w
        \/ \E k \in 1 .. n : queue[k] = j_next[jp[w]] /\ Passed(w, k)
    <3>1. CASE i = n
      <4>1. j_next[jp[w]] = Null
        BY <2>2, <3>1 DEF Links
      <4>2. \A k \in 1 .. n : JobId[queue[k]] # w
        BY <2>3, <3>1
      <4> QED  BY <4>1, <4>2
    <3>2. CASE i # n
      <4>1. i + 1 \in 1 .. n /\ j_next[jp[w]] = queue[i + 1]
        BY <2>2, <3>2 DEF Links
      <4>2. Passed(w, i + 1)
        BY <2>3 DEF Passed
      <4> QED  BY <4>1, <4>2
    <3> QED  BY <3>1, <3>2
  <2>5. JobTypes'
    BY <1>1, <2>1 DEF JobTypes
  <2>6. Walkers'
    BY <1>1, <2>1, <2>4 DEF Walkers, Passed, JobTypes
  <2> QED  BY <1>1, <2>5, <2>6
<1>5. CASE Jobs!FindEnd(w)
  <2>1. /\ found[w] = "walking" /\ jp[w] \in {Null} \cup {j \in QueuedJobs : JobId[j] = w}
        /\ readers' = readers \ {w} /\ UNCHANGED jp
        /\ found' = [found EXCEPT ![w] = IF jp[w] = Null THEN "idle" ELSE "yes"]
    BY <1>5 DEF Jobs!FindEnd
  <2>2. jp[w] # Null => JobId[jp[w]] = w /\ \E i \in 1 .. n : queue[i] = jp[w]
    BY <2>1 DEF Walkers
  <2>3. JobTypes'
    BY <1>1, <2>1 DEF JobTypes
  <2>4. Walkers'
    BY <1>1, <2>1, <2>2 DEF Walkers, Passed, JobTypes
  <2> QED  BY <1>1, <2>3, <2>4
<1> QED  BY <1>2a, <1>3, <1>4, <1>5

LEMMA JobStep == JobInv /\ [Jobs!Next]_jobsVars => JobInv'
<1> SUFFICES ASSUME JobInv, [Jobs!Next]_jobsVars PROVE JobInv'
  OBVIOUS
<1>1. CASE UNCHANGED jobsVars
  BY <1>1 DEF jobsVars, JobInv, JobTypes, NoneTwice, Links, Walkers, Passed
<1> QED  BY <1>1, InsertKeeps, RemoveKeeps, FindKeeps DEF Jobs!Next

LEMMA JobHolds == JobInv => Jobs!ListIsQueue /\ Jobs!FindIsExact
<1> SUFFICES ASSUME JobInv PROVE Jobs!ListIsQueue /\ Jobs!FindIsExact
  OBVIOUS
<1> USE DEF JobInv
<1>1. DOMAIN queue = 1 .. Len(queue)
  BY DEF JobTypes
<1>2. Jobs!ListIsQueue
  <2>1. queue # <<>> => Head(queue) = queue[1]
    BY DEF JobTypes
  <2>2. /\ q_head = (IF queue = <<>> THEN Null ELSE Head(queue))
        /\ q_tail = (IF queue = <<>> THEN Null ELSE Jobs!Last(queue))
    BY <2>1 DEF Links, Jobs!Last
  <2>3. \A i \in 1 .. Len(queue) :
          /\ j_next[queue[i]] = (IF i = Len(queue) THEN Null ELSE queue[i + 1])
          /\ j_prev[queue[i]] = (IF i = 1 THEN Null ELSE queue[i - 1])
    BY DEF Links
  <2> QED  BY <1>1, <2>2, <2>3 DEF Jobs!ListIsQueue
<1>3. Jobs!FindIsExact
  BY <1>1 DEF Walkers, Passed, Jobs!FindIsExact
<1> QED  BY <1>2, <1>3

-----------------------------------------------------------------------------
(* condvar.c: the queue of messages.                                       *)

\* The messages that were pushed and not taken.
OnList == {x \in Msgs : x \notin unsent /\ taken[x] = 0}

WorkTypes ==
  /\ waiting \subseteq Consumers /\ unsent \subseteq Msgs
  /\ m_next \in [Msgs -> Msgs \cup {Null}]
  /\ cpc \in [Consumers -> {"lock", "test", "pop", "wait"}]
  /\ mp \in [Consumers -> Msgs \cup {Null}]
  /\ taken \in [Msgs -> {0, 1}] /\ \A x \in unsent : taken[x] = 0

\* The links lead from the messages on the list to the messages on the list; no two
\* lead to the same one, and none to the head.
Linked ==
  /\ workq \in OnList \cup {Null}
  /\ \A x \in OnList : m_next[x] \in OnList \cup {Null}
  /\ \A x \in OnList : m_next[x] # Null => m_next[x] # workq
  /\ \A x, y \in OnList : m_next[x] # Null /\ m_next[x] = m_next[y] => x = y

\* One consumer is between the lock and the unlock, and what it has seen is the head.
InCritical(c) == cpc[c] \in {"test", "pop"}
OneInside ==
  /\ \A c \in Consumers : InCritical(c) => qlock
  /\ \A c, d \in Consumers : InCritical(c) /\ InCritical(d) => c = d
  /\ \A c \in Consumers : cpc[c] = "pop" => mp[c] = workq /\ workq \in OnList

WorkInv == WorkTypes /\ Linked /\ OneInside

LEMMA WorkInit == Work!Init => WorkInv
BY DEF Work!Init, WorkInv, WorkTypes, Linked, OneInside, OnList, InCritical

LEMMA EnqueueKeeps ==
  ASSUME WorkInv, NEW p \in Producers, NEW x \in Msgs, Work!enqueue_msg(p, x)
  PROVE  WorkInv'
<1> USE MsgsAssumption DEF WorkInv, Work!enqueue_msg
<1>1. WorkTypes'
  BY DEF WorkTypes, Linked, OnList
<1>2. OnList' = OnList \cup {x} /\ x \notin OnList
  BY DEF OnList, WorkTypes
<1>3. /\ \A y \in OnList : m_next'[y] = m_next[y]
      /\ m_next'[x] = workq /\ workq' = x
  BY <1>2 DEF WorkTypes, OnList
<1>4. Linked'
  BY <1>2, <1>3 DEF Linked, OnList
<1>5. OneInside'
  BY DEF OneInside, InCritical
<1> QED  BY <1>1, <1>4, <1>5

LEMMA PopKeeps ==
  ASSUME WorkInv, NEW c \in Consumers, Work!Pop(c)
  PROVE  WorkInv'
<1> USE MsgsAssumption DEF WorkInv
<1>1. mp[c] = workq /\ workq \in OnList /\ workq' = m_next[workq] /\ UNCHANGED <<m_next, unsent>>
  BY DEF Work!Pop, OneInside
<1>2. WorkTypes'
  BY <1>1 DEF WorkTypes, Work!Pop, OnList
<1>3. OnList' = OnList \ {workq}
  BY <1>1 DEF OnList, WorkTypes, Work!Pop
<1>4. Linked'
  BY <1>1, <1>3 DEF Linked
<1>5. OneInside'
  BY <1>1 DEF OneInside, InCritical, Work!Pop, WorkTypes
<1> QED  BY <1>2, <1>4, <1>5

LEMMA WorkStep == WorkInv /\ [Work!Next]_workVars => WorkInv'
<1> SUFFICES ASSUME WorkInv, [Work!Next]_workVars PROVE WorkInv'
  OBVIOUS
<1> USE DEF WorkInv
<1>1. CASE UNCHANGED workVars
  BY <1>1 DEF workVars, WorkTypes, Linked, OneInside, OnList, InCritical
<1>2. ASSUME NEW c \in Consumers, Work!Acquire(c) \/ Work!Wait(c) \/ Work!Look(c) \/ Work!Spurious(c)
      PROVE  WorkInv'
  <2>1. UNCHANGED <<workq, m_next, unsent, taken>> /\ OnList' = OnList
    BY <1>2 DEF Work!Acquire, Work!AcquireUnlocked, Work!Wait, Work!Look, Work!Spurious, OnList
  <2>2. WorkTypes' /\ Linked'
    BY <1>2, <2>1 DEF Work!Acquire, Work!AcquireUnlocked, Work!Wait, Work!Look, Work!Spurious, Work!Wake, WorkTypes, Linked, OnList
  <2>3. OneInside'
    BY <1>2, <2>1 DEF Work!Acquire, Work!AcquireUnlocked, Work!Wait, Work!Look, Work!Spurious, Work!Wake, WorkTypes, Linked, OneInside, InCritical
  <2> QED  BY <2>2, <2>3
<1>3. ASSUME NEW p \in Producers, Work!Signal(p) PROVE WorkInv'
  <2>1. UNCHANGED <<workq, m_next, unsent, taken, qlock, mp>> /\ OnList' = OnList
    BY <1>3 DEF Work!Signal, OnList
  <2>2. WorkTypes' /\ Linked'
    BY <1>3, <2>1 DEF Work!Signal, Work!Wake, WorkTypes, Linked
  <2>3. \A c \in Consumers : cpc'[c] = cpc[c] \/ cpc'[c] = "lock"
    BY <1>3 DEF Work!Signal, Work!Wake, WorkTypes
  <2>4. OneInside'
    BY <2>1, <2>3 DEF OneInside, InCritical
  <2> QED  BY <2>2, <2>4
<1> QED  BY <1>1, <1>2, <1>3, EnqueueKeeps, PopKeeps DEF Work!Next, Work!process_msg

LEMMA WorkHolds == WorkInv => Work!TakenOnce
BY DEF WorkInv, WorkTypes, Work!TakenOnce

-----------------------------------------------------------------------------
(* pollmsg.c and pollmsg2.c: the messages on their way to main.            *)

PollTypes ==
  /\ mprog \in {"copy", "share"} /\ sent \in Nat /\ m \in Nat
  /\ mq \in Seq(Nat) /\ sock \in Seq(Nat) /\ printed \in Seq(Nat)

\* The messages 1 to n, then those of the queue: none is missing.
QueueFollows(n) == n \in Nat /\ sent = n + Len(mq) /\ \A i \in 1 .. Len(mq) : mq[i] = n + i

\* pollmsg.c: the printed ones, those in the socket, the helper's, the queue.
CopyOrder ==
  LET p == Len(printed)  s == Len(sock) IN
  /\ \A i \in 1 .. s : sock[i] = p + i
  /\ \/ hpc = "rcv" /\ QueueFollows(p + s)
     \/ hpc = "write" /\ m = p + s + 1 /\ QueueFollows(p + s + 1)

\* pollmsg2.c: the helper's message is in the buffer until it is printed, and the
\* helper waits for that: main holds the turn from the byte in the socket to the signal.
ShareOrder ==
  LET p == Len(printed)  mine == m = p + 1 /\ QueueFollows(p + 1) IN
  /\ mutex = "helper" <=> hpc \in {"write", "sleep"}
  /\ mutex = "main" <=> npc = "signal"
  /\ \/ hpc = "rcv" /\ npc = "poll" /\ sock = <<>> /\ QueueFollows(p)
     \/ hpc \in {"lock", "write"} /\ npc = "poll" /\ sock = <<>> /\ mine
     \/ hpc \in {"sleep", "wait"} /\ npc = "poll" /\ Len(sock) = 1 /\ mine
     \/ hpc \in {"sleep", "wait"} /\ npc = "print" /\ sock = <<>> /\ mine
     \/ hpc \in {"sleep", "wait"} /\ npc = "lock" /\ sock = <<>> /\ QueueFollows(p)
     \/ hpc = "wait" /\ npc = "signal" /\ sock = <<>> /\ QueueFollows(p)
     \/ hpc = "woken" /\ npc = "poll" /\ sock = <<>> /\ QueueFollows(p)

PrintedInOrder == \A i \in 1 .. Len(printed) : printed[i] = i

PollInv ==
  /\ PollTypes
  /\ mprog = "copy" => CopyOrder
  /\ ~spurious => PrintedInOrder /\ (mprog = "share" => ShareOrder)

LEMMA EmptySeq == \A q \in Seq(Nat) : Len(q) = 0 => q = <<>>
OBVIOUS

LEMMA PollInit == Poll!Init => PollInv
BY DEF Poll!Init, PollInv, PollTypes, CopyOrder, ShareOrder, QueueFollows, PrintedInOrder

\* Taking the first of the queue: the next message.
LEMMA Taken ==
  ASSUME PollTypes, NEW n \in Nat, QueueFollows(n), mq # <<>>, mq' = Tail(mq), sent' = sent
  PROVE  /\ Head(mq) = n + 1 /\ mq' \in Seq(Nat) /\ QueueFollows(n + 1)'
<1>1. Len(mq) \in Nat \ {0} /\ Head(mq) = mq[1] /\ Tail(mq) \in Seq(Nat) /\ Len(Tail(mq)) = Len(mq) - 1
  BY DEF PollTypes
<1>2. \A i \in 1 .. Len(mq) - 1 : Tail(mq)[i] = mq[i + 1]
  BY <1>1 DEF PollTypes
<1> QED  BY <1>1, <1>2 DEF QueueFollows, PollTypes

LEMMA SendKeeps == PollInv /\ Poll!Send => PollInv'
<1> SUFFICES ASSUME PollInv, Poll!Send PROVE PollInv'
  OBVIOUS
<1> USE DEF PollInv
<1>1. sent' = sent + 1 /\ mq' = Append(mq, sent + 1) /\ UNCHANGED <<mprog, hpc, m, sock, npc, mutex, printed, spurious>>
  BY DEF Poll!Send
<1>2. PollTypes'
  BY <1>1 DEF PollTypes
<1>3. ASSUME NEW n, QueueFollows(n) PROVE QueueFollows(n)'
  BY <1>1, <1>3 DEF QueueFollows, PollTypes
<1>4. mprog = "copy" => CopyOrder'
  BY <1>1, <1>3 DEF CopyOrder
<1>5. ~spurious => PrintedInOrder' /\ (mprog = "share" => ShareOrder')
  BY <1>1, <1>3 DEF ShareOrder, PrintedInOrder
<1> QED  BY <1>1, <1>2, <1>4, <1>5

LEMMA CopyKeepsOrder == PollInv /\ (Poll!CopyHelper \/ Poll!CopyMain) => PollInv'
<1> SUFFICES ASSUME PollInv, Poll!CopyHelper \/ Poll!CopyMain PROVE PollInv'
  OBVIOUS
<1> USE DEF PollInv
<1> PICK p \in Nat, s \in Nat : p = Len(printed) /\ s = Len(sock)
  BY DEF PollTypes
<1>0. mprog = "copy" /\ mprog' = "copy" /\ UNCHANGED <<sent, spurious>>
  BY DEF Poll!CopyHelper, Poll!CopyMain, PollTypes
<1>1. CASE hpc = "rcv" /\ mq # <<>> /\ m' = Head(mq) /\ mq' = Tail(mq) /\ hpc' = "write" /\ UNCHANGED <<sock, printed>>
  <2>1. QueueFollows(p + s)
    BY <1>0, <1>1 DEF CopyOrder
  <2>2. m' = p + s + 1 /\ mq' \in Seq(Nat) /\ QueueFollows(p + s + 1)'
    BY <1>0, <1>1, <2>1, Taken
  <2> QED  BY <1>0, <1>1, <2>2 DEF CopyOrder, PollTypes, PrintedInOrder
<1>2. CASE hpc = "write" /\ sock' = Append(sock, m) /\ hpc' = "rcv" /\ UNCHANGED <<mq, m, printed>>
  <2>1. m = p + s + 1 /\ QueueFollows(p + s + 1)
    BY <1>0, <1>2 DEF CopyOrder
  <2>2. /\ sock' \in Seq(Nat) /\ Len(sock') = s + 1
        /\ \A i \in 1 .. s + 1 : sock'[i] = IF i = s + 1 THEN m ELSE sock[i]
    BY <1>2 DEF PollTypes
  <2>3. \A i \in 1 .. s + 1 : sock'[i] = p + i
    <3>1. \A i \in 1 .. s : sock[i] = p + i
      BY <1>0 DEF CopyOrder
    <3>2. \A i \in 1 .. s + 1 : i = s + 1 \/ i \in 1 .. s
      OBVIOUS
    <3> QED  BY <2>1, <2>2, <3>1, <3>2
  <2>4. QueueFollows(p + s + 1)' /\ Len(printed') = p
    BY <1>0, <1>2, <2>1 DEF QueueFollows
  <2>5. p + s + 1 = p + (s + 1)
    OBVIOUS
  <2> QED  BY <1>0, <1>2, <2>2, <2>3, <2>4, <2>5 DEF CopyOrder, PollTypes, PrintedInOrder
<1>3. CASE sock # <<>> /\ sock' = Tail(sock) /\ printed' = Append(printed, Head(sock)) /\ UNCHANGED <<mq, m, hpc>>
  <2>1. /\ s \in Nat \ {0} /\ sock' \in Seq(Nat) /\ Len(sock') = s - 1
        /\ \A i \in 1 .. s - 1 : sock'[i] = sock[i + 1]
        /\ Head(sock) = sock[1]
    BY <1>3 DEF PollTypes
  <2>2. Head(sock) = p + 1
    BY <1>0, <2>1 DEF CopyOrder
  <2>3. /\ printed' \in Seq(Nat) /\ Len(printed') = p + 1
        /\ \A i \in 1 .. p + 1 : printed'[i] = IF i = p + 1 THEN p + 1 ELSE printed[i]
    BY <1>0, <1>3, <2>2 DEF PollTypes
  <2>4. ~spurious => PrintedInOrder'
    BY <1>0, <2>3 DEF PrintedInOrder
  <2>5. \A i \in 1 .. s - 1 : sock'[i] = (p + 1) + i
    BY <1>0, <2>1 DEF CopyOrder
  <2>6. (p + 1) + (s - 1) = p + s
    BY <1>0
  <2>7. Len(printed') = p + 1 /\ Len(sock') = s - 1
    BY <2>1, <2>3
  <2>8. \A n : QueueFollows(n) => QueueFollows(n)'
    BY <1>0, <1>3 DEF QueueFollows
  <2>9. CopyOrder'
    BY <1>0, <1>3, <2>5, <2>6, <2>7, <2>8 DEF CopyOrder
  <2> QED  BY <1>0, <1>3, <2>1, <2>3, <2>4, <2>9 DEF PollTypes
<1> QED  BY <1>1, <1>2, <1>3 DEF Poll!CopyHelper, Poll!CopyMain

LEMMA ShareKeepsOrder == PollInv /\ (Poll!ShareHelper \/ Poll!ShareMain) => PollInv'
<1> SUFFICES ASSUME PollInv, Poll!ShareHelper \/ Poll!ShareMain PROVE PollInv'
  OBVIOUS
<1> USE DEF PollInv
<1> PICK p \in Nat : p = Len(printed)
  BY DEF PollTypes
<1>0. mprog = "share" /\ mprog' = "share" /\ UNCHANGED <<sent, spurious>>
  BY DEF Poll!ShareHelper, Poll!HelperOnly, Poll!ShareMain, PollTypes
<1>1. CASE Poll!ShareHelper
  <2>0. UNCHANGED <<npc, printed>> /\ \A n : mq' = mq /\ QueueFollows(n) => QueueFollows(n)'
    BY <1>0, <1>1 DEF Poll!ShareHelper, Poll!HelperOnly, QueueFollows
  <2>1. CASE Poll!Receive("lock")
    <3>1. hpc = "rcv" /\ mq # <<>> /\ m' = Head(mq) /\ mq' = Tail(mq) /\ hpc' = "lock" /\ UNCHANGED <<sock, mutex>>
      BY <2>1 DEF Poll!Receive
    <3>2. ASSUME QueueFollows(p) PROVE m' = p + 1 /\ QueueFollows(p + 1)'
      BY <1>0, <3>1, <3>2, Taken
    <3>3. mq' \in Seq(Nat) /\ m' \in Nat
      BY <3>1 DEF PollTypes
    <3>4. PollTypes'
      BY <1>0, <2>0, <3>1, <3>3 DEF PollTypes
    <3>5. ~spurious => ShareOrder'
      BY <1>0, <2>0, <3>1, <3>2 DEF ShareOrder
    <3> QED  BY <1>0, <2>0, <3>4, <3>5 DEF PrintedInOrder
  <2>2. CASE Poll!WriteStep("sleep", mutex)
    <3>1. hpc = "write" /\ sock' = Append(sock, m) /\ hpc' = "sleep" /\ UNCHANGED <<mq, m, mutex>>
      BY <2>2 DEF Poll!WriteStep
    <3>2. sock' \in Seq(Nat) /\ (sock = <<>> => Len(sock') = 1)
      BY <3>1 DEF PollTypes
    <3>3. PollTypes'
      BY <1>0, <2>0, <3>1, <3>2 DEF PollTypes
    <3>4. ~spurious => ShareOrder'
      BY <1>0, <2>0, <3>1, <3>2 DEF ShareOrder
    <3> QED  BY <1>0, <2>0, <3>3, <3>4 DEF PrintedInOrder
  <2>3. CASE Poll!LockStep("write") \/ Poll!WaitStep \/ Poll!UnlockStep
    <3>1. /\ UNCHANGED <<mq, m, sock>>
          /\ \/ hpc = "lock" /\ hpc' = "write" /\ mutex = "free" /\ mutex' = "helper"
             \/ hpc = "sleep" /\ hpc' = "wait" /\ mutex' = "free"
             \/ hpc = "woken" /\ hpc' = "rcv" /\ mutex = "free" /\ mutex' = mutex
      BY <2>3 DEF Poll!LockStep, Poll!WaitStep, Poll!UnlockStep
    <3>2. PollTypes'
      BY <1>0, <2>0, <3>1 DEF PollTypes
    <3>3. ~spurious => ShareOrder'
      BY <1>0, <2>0, <3>1 DEF ShareOrder
    <3> QED  BY <1>0, <2>0, <3>2, <3>3 DEF PrintedInOrder
  <2> QED  BY <1>1, <2>1, <2>2, <2>3 DEF Poll!ShareHelper
<1>2. CASE Poll!ShareMain
  <2>0. UNCHANGED <<mq, m>> /\ \A n : QueueFollows(n) => QueueFollows(n)'
    BY <1>0, <1>2 DEF Poll!ShareMain, QueueFollows
  <2>1. CASE npc = "poll" /\ sock # <<>> /\ sock' = Tail(sock) /\ npc' = "print" /\ UNCHANGED <<hpc, mutex, printed>>
    <3>1. sock' \in Seq(Nat) /\ (Len(sock) = 1 => sock' = <<>>)
      <4>1. sock' \in Seq(Nat) /\ Len(sock') = Len(sock) - 1 /\ Len(sock) \in Nat
        BY <2>1 DEF PollTypes
      <4> QED  BY <4>1, EmptySeq
    <3>2. PollTypes'
      BY <1>0, <2>0, <2>1, <3>1 DEF PollTypes
    <3>3. ~spurious => ShareOrder'
      BY <1>0, <2>0, <2>1, <3>1 DEF ShareOrder
    <3> QED  BY <1>0, <2>1, <3>2, <3>3 DEF PrintedInOrder
  <2>2. CASE npc = "print" /\ printed' = Append(printed, m) /\ npc' = "lock" /\ UNCHANGED <<hpc, sock, mutex>>
    <3>1. /\ printed' \in Seq(Nat) /\ Len(printed') = p + 1
          /\ \A i \in 1 .. p + 1 : printed'[i] = IF i = p + 1 THEN m ELSE printed[i]
      BY <2>2 DEF PollTypes
    <3>2. ~spurious => m = p + 1 /\ QueueFollows(p + 1)' /\ hpc \in {"sleep", "wait"} /\ sock = <<>>
      BY <1>0, <2>0, <2>2 DEF ShareOrder
    <3>3. PollTypes'
      BY <1>0, <2>0, <2>2, <3>1 DEF PollTypes
    <3>4. ~spurious => PrintedInOrder'
      BY <1>0, <3>1, <3>2 DEF PrintedInOrder
    <3>5. ~spurious => ShareOrder'
      BY <1>0, <2>2, <3>1, <3>2 DEF ShareOrder
    <3> QED  BY <1>0, <3>3, <3>4, <3>5
  <2>3. CASE \/ npc = "lock" /\ mutex = "free" /\ mutex' = "main" /\ npc' = "signal" /\ UNCHANGED <<hpc, sock, printed>>
             \/ npc = "signal" /\ hpc' = (IF hpc = "wait" THEN "woken" ELSE hpc) /\ mutex' = "free"
                /\ npc' = "poll" /\ UNCHANGED <<sock, printed>>
    <3>1. PollTypes'
      BY <1>0, <2>0, <2>3 DEF PollTypes
    <3>2. ~spurious => ShareOrder'
      BY <1>0, <2>0, <2>3 DEF ShareOrder
    <3> QED  BY <1>0, <2>3, <3>1, <3>2 DEF PrintedInOrder
  <2> QED  BY <1>2, <2>1, <2>2, <2>3 DEF Poll!ShareMain
<1> QED  BY <1>1, <1>2

LEMMA PollStep == PollInv /\ [Poll!Next]_pollVars => PollInv'
<1> SUFFICES ASSUME PollInv, [Poll!Next]_pollVars PROVE PollInv'
  OBVIOUS
<1>1. CASE UNCHANGED pollVars
  BY <1>1 DEF pollVars, PollInv, PollTypes, CopyOrder, ShareOrder, QueueFollows, PrintedInOrder
<1>2. CASE Poll!Spurious
  BY <1>2 DEF Poll!Spurious, PollInv, PollTypes, CopyOrder
<1> QED  BY <1>1, <1>2, SendKeeps, CopyKeepsOrder, ShareKeepsOrder DEF Poll!Next, Poll!helper, Poll!main

LEMMA PollHolds == PollInv => Poll!PrintsMessages
BY DEF PollInv, PollTypes, PrintedInOrder, Poll!PrintsMessages

-----------------------------------------------------------------------------
(* getenv2.c and getenv3.c: the buffers of the threads, and the key.       *)

EnvTypes ==
  /\ gpc \in [EnvThreads -> {"idle", "once", "lock", "copy", "use"}]
  /\ call \in [EnvThreads -> {"getenv", "getenv_r"}]
  /\ name \in [EnvThreads -> Names]
  /\ ptr \in [EnvThreads -> EnvThreads \cup {Null}]
  /\ buf \in [Env!Bufs -> [name : Names \cup {Null}, bytes : Int, ended : BOOLEAN]]

\* A thread is given its own buffer or none, and only it writes to that.
OwnBuffers == \A t \in EnvThreads :
  /\ ptr[t] \in {Null, t}
  /\ gpc[t] \in {"once", "lock", "copy"} => ptr[t] = Null
  /\ gpc[t] = "use" /\ ptr[t] # Null =>
       /\ buf[t].name = name[t]
       /\ call[t] = "getenv" => buf[t].bytes <= MAXSTRINGSZ
       /\ call[t] = "getenv_r" => buf[t].bytes <= Buflen

KeyFirst ==
  /\ \A t \in EnvThreads : gpc[t] \in {"lock", "copy", "use"} => once = "done"
  /\ once = "done" => keyed = TRUE

EnvInv == EnvTypes /\ OwnBuffers /\ KeyFirst

LEMMA EnvInit == Env!Init => EnvInv
BY EnvAssumption DEF Env!Init, EnvInv, EnvTypes, OwnBuffers, KeyFirst, Env!Empty

\* The lesser of two lengths, as FiniteSetsExt chooses it.
LEMMA MinOfTwo ==
  ASSUME NEW a \in Int, NEW b \in Int
  PROVE  Env!Min({a, b}) \in Int /\ Env!Min({a, b}) <= b
<1>1. \E x \in {a, b} : \A y \in {a, b} : x <= y
  <2>1. CASE a <= b
    BY <2>1
  <2>2. CASE b <= a
    BY <2>2
  <2> QED  BY <2>1, <2>2
<1> QED  BY <1>1 DEF Env!Min

LEMMA CopyKeeps ==
  ASSUME EnvInv, NEW t \in EnvThreads, Env!Copy(t)
  PROVE  EnvInv'
<1> USE EnvAssumption DEF EnvInv
<1> DEFINE len == ValueLen[name[t]]
<1>0. len \in Int
  BY DEF EnvTypes
<1> HIDE DEF len
<1>1. /\ gpc[t] = "copy" /\ gpc' = [gpc EXCEPT ![t] = "use"] /\ ptr[t] = Null
      /\ UNCHANGED <<once, keyed, call, name>>
  BY DEF Env!Copy, Env!Goto, OwnBuffers
<1>2. \/ UNCHANGED <<ptr, buf>>
      \/ /\ ptr' = [ptr EXCEPT ![t] = t]
         /\ \E n \in Int, e \in BOOLEAN :
              /\ buf' = [buf EXCEPT ![t] = [name |-> name[t], bytes |-> n, ended |-> e]]
              /\ call[t] = "getenv" => n <= MAXSTRINGSZ
              /\ call[t] = "getenv_r" => n <= Buflen
  <2>1. CASE Env!getenv_r(t)
    <3>1. /\ call[t] = "getenv_r"
          /\ \/ UNCHANGED <<ptr, buf>>
             \/ /\ len < Buflen /\ ptr' = [ptr EXCEPT ![t] = t]
                /\ buf' = [buf EXCEPT ![t] = [name |-> name[t], bytes |-> len + 1, ended |-> TRUE]]
      BY <2>1 DEF Env!getenv_r, len
    <3>2. len + 1 \in Int /\ (len < Buflen => len + 1 <= Buflen)
      BY <1>0
    <3> QED  BY <3>1, <3>2
  <2>2. CASE Env!getenv(t)
    <3> DEFINE n == Env!Min({len + 1, MAXSTRINGSZ - 1})
    <3>1. n \in Int /\ n <= MAXSTRINGSZ - 1
      BY <1>0, MinOfTwo
    <3> HIDE DEF n
    <3>2. n <= MAXSTRINGSZ
      BY <3>1
    <3>3. /\ call[t] = "getenv"
          /\ \/ UNCHANGED <<ptr, buf>>
             \/ /\ ptr' = [ptr EXCEPT ![t] = t]
                /\ buf' = [buf EXCEPT ![t] = [name |-> name[t], bytes |-> n, ended |-> len + 1 <= MAXSTRINGSZ - 1]]
      BY <2>2 DEF Env!getenv, Env!KeptBuffer, len, n
    <3>4. (len + 1 <= MAXSTRINGSZ - 1) \in BOOLEAN
      OBVIOUS
    <3> QED  BY <3>1, <3>2, <3>3, <3>4
  <2> QED  BY <2>1, <2>2 DEF Env!Copy
<1>3. /\ \A u \in EnvThreads \ {t} : ptr'[u] = ptr[u] /\ buf'[u] = buf[u] /\ gpc'[u] = gpc[u]
      /\ ptr'[t] \in {Null, t} /\ gpc'[t] = "use"
      /\ ptr'[t] = t => /\ buf'[t].name = name[t]
                        /\ call[t] = "getenv" => buf'[t].bytes <= MAXSTRINGSZ
                        /\ call[t] = "getenv_r" => buf'[t].bytes <= Buflen
  BY <1>1, <1>2 DEF EnvTypes, Env!Bufs
<1>4. EnvTypes'
  <2>1. buf' \in [Env!Bufs -> [name : Names \cup {Null}, bytes : Int, ended : BOOLEAN]]
    <3>1. ASSUME NEW n \in Int, NEW e \in BOOLEAN
          PROVE  [name |-> name[t], bytes |-> n, ended |-> e] \in [name : Names \cup {Null}, bytes : Int, ended : BOOLEAN]
      BY DEF EnvTypes
    <3>2. CASE UNCHANGED buf
      BY <3>2 DEF EnvTypes
    <3>3. CASE buf' # buf
      <4>1. PICK n \in Int, e \in BOOLEAN : buf' = [buf EXCEPT ![t] = [name |-> name[t], bytes |-> n, ended |-> e]]
        BY <1>2, <3>3
      <4> DEFINE r == [name |-> name[t], bytes |-> n, ended |-> e]
      <4>2. r \in [name : Names \cup {Null}, bytes : Int, ended : BOOLEAN]
        BY <3>1
      <4> HIDE DEF r
      <4> QED  BY <4>1, <4>2 DEF EnvTypes, r
    <3> QED  BY <3>2, <3>3
  <2>2. ptr' \in [EnvThreads -> EnvThreads \cup {Null}]
    BY <1>2 DEF EnvTypes
  <2> QED  BY <1>1, <2>1, <2>2 DEF EnvTypes
<1>5. OwnBuffers'
  BY <1>1, <1>3 DEF OwnBuffers
<1>6. KeyFirst'
  BY <1>1 DEF KeyFirst, EnvTypes
<1> QED  BY <1>4, <1>5, <1>6

LEMMA EnvStep == EnvInv /\ [Env!Next]_envVars => EnvInv'
<1> SUFFICES ASSUME EnvInv, [Env!Next]_envVars PROVE EnvInv'
  OBVIOUS
<1> USE EnvAssumption DEF EnvInv
<1>1. CASE UNCHANGED envVars
  BY <1>1 DEF envVars, EnvTypes, OwnBuffers, KeyFirst
<1>2. ASSUME NEW t \in EnvThreads, Env!thread_init(t) \/ Env!Lock(t) \/ Env!Done(t) PROVE EnvInv'
  <2>1. EnvTypes' /\ OwnBuffers'
    BY <1>2 DEF Env!thread_init, Env!Lock, Env!Done, Env!Goto, EnvTypes, OwnBuffers
  <2>2. KeyFirst'
    BY <1>2 DEF Env!thread_init, Env!Lock, Env!Done, Env!Goto, EnvTypes, KeyFirst
  <2> QED  BY <2>1, <2>2
<1>3. ASSUME NEW t \in EnvThreads, NEW n \in Names, NEW f \in {"getenv", "getenv_r"}, Env!Call(t, f, n)
      PROVE  EnvInv'
  BY <1>3 DEF Env!Call, Env!Goto, EnvTypes, OwnBuffers, KeyFirst
<1> QED  BY <1>1, <1>2, <1>3, CopyKeeps DEF Env!Next

LEMMA EnvHolds == EnvInv => Env!OwnValue /\ Env!KeyIsMade
BY EnvAssumption DEF EnvInv, EnvTypes, OwnBuffers, KeyFirst, Env!OwnValue, Env!KeyIsMade

-----------------------------------------------------------------------------
(* mutex3.c: the reference counts under hashlock.                          *)

CountTypes ==
  /\ alive3 \subseteq Objs /\ table3 \subseteq alive3
  /\ f_count3 \in [Objs -> Int]
  /\ refs3 \in [Objs -> SUBSET Threads]
  /\ pc3 \in [Threads -> {"idle", "new", "init", "free"}]
  /\ fp3 \in [Threads -> Objs \cup {NoObj}]

\* The object in the hands of foo_alloc or of the end of foo_rele: its thread has
\* the only reference until it is listed, keeps one while it holds the mutex, and
\* has taken it off the list, without a reference left, before it frees it.
Busy(t) == pc3[t] # "idle"
InHand == \A t \in Threads :
  /\ Busy(t) => fp3[t] \in alive3
  /\ pc3[t] = "new" => fp3[t] \notin table3 /\ refs3[fp3[t]] = {t}
  /\ pc3[t] = "init" => fp3[t] \in table3 /\ t \in refs3[fp3[t]]
  /\ pc3[t] = "free" => fp3[t] \notin table3 /\ refs3[fp3[t]] = {}

\* Two threads never have the same one.
Apart == \A s, t \in Threads : Busy(s) /\ Busy(t) /\ fp3[s] = fp3[t] => s = t

MutexHeld == f_lock3 = {fp3[t] : t \in {s \in Threads : pc3[s] = "init"}}

\* A listed object has a reference, and one with a reference is listed or new.
Listed == \A o \in Objs :
  /\ o \in table3 => refs3[o] # {}
  /\ refs3[o] # {} => o \in table3 \/ \E s \in Threads : pc3[s] = "new" /\ fp3[s] = o

CountsRefs == \A o \in alive3 : f_count3[o] = Cardinality(refs3[o])

CountInv == CountTypes /\ InHand /\ Apart /\ MutexHeld /\ Listed /\ CountsRefs

-----------------------------------------------------------------------------
\* foo_rele's test of the count tells the last reference from the others.
LEMMA Counted ==
  ASSUME IsFiniteSet(Threads), NEW S \in SUBSET Threads, NEW t
  PROVE  /\ Cardinality({t}) = 1
         /\ t \notin S => Cardinality(S \cup {t}) = Cardinality(S) + 1
         /\ t \in S => /\ Cardinality(S \ {t}) = Cardinality(S) - 1
                       /\ Cardinality(S) = 1 <=> S = {t}
<1>1. IsFiniteSet(S) /\ Cardinality(S) \in Nat
  BY FS_Subset, FS_CardinalityType
<1>2. Cardinality({t}) = 1 /\ (Cardinality(S) = 1 => \E x : S = {x})
  BY <1>1, FS_Singleton
<1>3. t \notin S => Cardinality(S \cup {t}) = Cardinality(S) + 1
  BY <1>1, FS_AddElement
<1>4. t \in S => Cardinality(S \ {t}) = Cardinality(S) - 1
  BY <1>1, FS_RemoveElement
<1> QED  BY <1>2, <1>3, <1>4

\* The count of a listed object says whether t has its last reference.
LEMMA LastIsCounted ==
  ASSUME IsFiniteSet(Threads), CountInv, NEW o \in alive3, NEW t \in refs3[o]
  PROVE  f_count3[o] = 1 <=> refs3[o] = {t}
<1>1. refs3[o] \in SUBSET Threads /\ f_count3[o] = Cardinality(refs3[o])
  BY DEF CountInv, CountTypes, CountsRefs
<1> QED  BY <1>1, Counted

\* What an idle thread has a reference to is listed, and nobody is freeing it.
LEMMA HeldIsListed ==
  ASSUME CountInv, NEW t \in Threads, pc3[t] = "idle", NEW o \in Objs, t \in refs3[o]
  PROVE  o \in table3
BY DEF CountInv, Listed, InHand

LEMMA LastRefOf ==
  ASSUME CountInv
  PROVE  /\ \A o \in table3 : Count!LastRef(o) = {}
         /\ \A o \in Objs \ alive3 : Count!LastRef(o) = {}
         /\ \A t \in Threads : Busy(t) /\ pc3[t] # "free" => Count!LastRef(fp3[t]) = {}
         /\ \A t \in Threads : pc3[t] = "free" => Count!LastRef(fp3[t]) = {t}
BY DEF CountInv, InHand, Apart, Count!LastRef, Busy

\* It holds before the first call: no object, no reference, every thread idle.
LEMMA CountInit == Count!Init => CountInv
BY DEF Count!Init, CountInv, CountTypes, InHand, Busy, Apart, MutexHeld, Listed, CountsRefs

\* One more reference to a listed object: foo_hold and foo_find.
LEMMA AddRefKeeps ==
  ASSUME IsFiniteSet(Threads), CountInv, NEW o \in table3, NEW u \in Threads, u \notin refs3[o], Count!AddRef(o, u),
         UNCHANGED <<alive3, table3, f_lock3, pc3, fp3>>
  PROVE  CountInv'
<1> USE DEF CountInv
<1>1. /\ \A x \in Objs : refs3'[x] = (IF x = o THEN refs3[o] \cup {u} ELSE refs3[x])
      /\ \A x \in Objs : f_count3'[x] = (IF x = o THEN f_count3[o] + 1 ELSE f_count3[x])
      /\ o \in alive3 /\ o \in Objs
  BY DEF Count!AddRef, CountTypes
<1>2. CountTypes'
  BY DEF Count!AddRef, CountTypes
<1>3. InHand' /\ Apart' /\ MutexHeld'
  BY <1>1 DEF InHand, Apart, MutexHeld, Busy, CountTypes
<1>4. Listed'
  BY <1>1 DEF Listed
<1>5. CountsRefs'
  <2>1. Cardinality(refs3[o] \cup {u}) = f_count3[o] + 1
    <3>1. refs3[o] \in SUBSET Threads /\ f_count3[o] = Cardinality(refs3[o])
      BY <1>1 DEF CountTypes, CountsRefs
    <3>2. Cardinality(refs3[o] \cup {u}) = Cardinality(refs3[o]) + 1
      BY <3>1, Counted
    <3> QED  BY <3>1, <3>2
  <2> QED  BY <1>1, <2>1 DEF CountsRefs, CountTypes
<1> QED  BY <1>2, <1>3, <1>4, <1>5

\* foo_alloc.
LEMMA AllocKeeps ==
  ASSUME IsFiniteSet(Threads), CountInv, NEW t \in Threads, Count!foo_alloc(t)
  PROVE  CountInv'
<1> USE DEF CountInv
<1>1. ASSUME NEW o \in Objs \ alive3, pc3[t] = "idle", pc3' = [pc3 EXCEPT ![t] = "new"], fp3' = [fp3 EXCEPT ![t] = o],
             alive3' = alive3 \cup {o}, f_count3' = [f_count3 EXCEPT ![o] = 1], refs3' = [refs3 EXCEPT ![o] = {t}],
             UNCHANGED <<table3, f_lock3>>
      PROVE  CountInv'
  <2>1. /\ \A x \in Objs : refs3'[x] = (IF x = o THEN {t} ELSE refs3[x])
        /\ \A x \in Objs : f_count3'[x] = (IF x = o THEN 1 ELSE f_count3[x])
        /\ \A s \in Threads : pc3'[s] = (IF s = t THEN "new" ELSE pc3[s]) /\ fp3'[s] = (IF s = t THEN o ELSE fp3[s])
    BY <1>1 DEF CountTypes
  <2>2. CountTypes'
    BY <1>1 DEF CountTypes
  <2>3. InHand' /\ Apart'
    BY <1>1, <2>1 DEF InHand, Apart, Busy, CountTypes
  <2>4. MutexHeld'
    BY <1>1, <2>1 DEF MutexHeld
  <2>5. Listed'
    <3>1. o \notin table3
      BY <1>1 DEF CountTypes
    <3> QED  BY <1>1, <2>1, <3>1 DEF Listed
  <2>6. CountsRefs'
    <3>1. Cardinality({t}) = 1
      BY Counted
    <3> QED  BY <1>1, <2>1, <3>1 DEF CountsRefs, CountTypes
  <2> QED  BY <2>2, <2>3, <2>4, <2>5, <2>6
<1>2. CASE /\ pc3[t] = "new" /\ pc3' = [pc3 EXCEPT ![t] = "init"]
           /\ table3' = table3 \cup {fp3[t]} /\ f_lock3' = f_lock3 \cup {fp3[t]}
           /\ UNCHANGED <<alive3, f_count3, refs3, fp3>>
  <2>1. /\ \A s \in Threads : pc3'[s] = (IF s = t THEN "init" ELSE pc3[s])
        /\ fp3[t] \in alive3 /\ fp3[t] \notin table3 /\ refs3[fp3[t]] = {t}
    BY <1>2 DEF CountTypes, InHand, Busy
  <2>2. CountTypes' /\ CountsRefs'
    BY <1>2, <2>1 DEF CountTypes, CountsRefs
  <2>3. InHand' /\ Apart'
    BY <1>2, <2>1 DEF InHand, Apart, Busy
  <2>4. MutexHeld'
    BY <1>2, <2>1 DEF MutexHeld
  <2>5. Listed'
    BY <1>2, <2>1 DEF Listed
  <2> QED  BY <2>2, <2>3, <2>4, <2>5
<1>3. CASE /\ pc3[t] = "init" /\ pc3' = [pc3 EXCEPT ![t] = "idle"] /\ fp3' = [fp3 EXCEPT ![t] = NoObj]
           /\ f_lock3' = f_lock3 \ {fp3[t]}
           /\ UNCHANGED <<alive3, table3, f_count3, refs3>>
  <2>1. \A s \in Threads : pc3'[s] = (IF s = t THEN "idle" ELSE pc3[s]) /\ fp3'[s] = (IF s = t THEN NoObj ELSE fp3[s])
    BY <1>3 DEF CountTypes
  <2>2. CountTypes' /\ CountsRefs'
    BY <1>3 DEF CountTypes, CountsRefs
  <2>3. InHand' /\ Apart'
    BY <1>3, <2>1 DEF InHand, Apart, Busy
  <2>4. MutexHeld'
    BY <1>3, <2>1 DEF MutexHeld, Apart, Busy
  <2>5. Listed'
    BY <1>3, <2>1 DEF Listed
  <2> QED  BY <2>2, <2>3, <2>4, <2>5
<1> QED  BY <1>1, <1>2, <1>3 DEF Count!foo_alloc

\* foo_rele, and the free that ends it.
LEMMA ReleKeeps ==
  ASSUME IsFiniteSet(Threads), CountInv, NEW t \in Threads, NEW o \in Objs, Count!foo_rele(t, o)
  PROVE  CountInv'
<1> USE DEF CountInv
<1>1. pc3[t] = "idle" /\ t \in refs3[o] /\ o \in table3 /\ o \in alive3
  BY HeldIsListed DEF Count!foo_rele, CountTypes
<1>2. f_count3[o] = 1 <=> refs3[o] = {t}
  BY <1>1, LastIsCounted
<1>3. /\ UNCHANGED <<alive3, f_lock3>>
      /\ \A x \in Objs : refs3'[x] = (IF x = o THEN refs3[o] \ {t} ELSE refs3[x])
      /\ \A x \in Objs : f_count3'[x] = (IF x = o THEN f_count3[o] - 1 ELSE f_count3[x])
      /\ f_count3' \in [Objs -> Int] /\ refs3' \in [Objs -> SUBSET Threads]
  BY DEF Count!foo_rele, CountTypes
<1>4. CountsRefs'
  <2>1. Cardinality(refs3[o] \ {t}) = f_count3[o] - 1
    <3>1. refs3[o] \in SUBSET Threads /\ f_count3[o] = Cardinality(refs3[o])
      BY <1>1 DEF CountTypes, CountsRefs
    <3> QED  BY <1>1, <3>1, Counted
  <2> QED  BY <1>1, <1>3, <2>1 DEF CountsRefs, CountTypes
<1>5. CASE f_count3[o] = 1
  <2>1. /\ table3' = table3 \ {o} /\ pc3' = [pc3 EXCEPT ![t] = "free"] /\ fp3' = [fp3 EXCEPT ![t] = o]
    BY <1>5 DEF Count!foo_rele
  <2>2. \A s \in Threads : pc3'[s] = (IF s = t THEN "free" ELSE pc3[s]) /\ fp3'[s] = (IF s = t THEN o ELSE fp3[s])
    BY <2>1 DEF CountTypes
  <2>3. \A s \in Threads : Busy(s) => fp3[s] # o
    BY <1>1, <1>2, <1>5 DEF InHand, Busy, CountTypes
  <2>4. CountTypes'
    BY <1>1, <1>3, <2>1 DEF CountTypes
  <2>5. InHand' /\ Apart'
    BY <1>1, <1>2, <1>3, <1>5, <2>1, <2>2, <2>3 DEF InHand, Apart, Busy, CountTypes
  <2>6. MutexHeld'
    BY <1>1, <1>3, <2>2 DEF MutexHeld
  <2>7. Listed'
    BY <1>1, <1>2, <1>3, <1>5, <2>1, <2>2 DEF Listed
  <2> QED  BY <1>4, <2>4, <2>5, <2>6, <2>7
<1>6. CASE f_count3[o] # 1
  <2>1. UNCHANGED <<table3, pc3, fp3>>
    BY <1>6 DEF Count!foo_rele
  <2>2. CountTypes' /\ InHand' /\ Apart' /\ MutexHeld'
    BY <1>1, <1>3, <2>1 DEF CountTypes, InHand, Apart, Busy, MutexHeld
  <2>3. Listed'
    BY <1>1, <1>2, <1>3, <1>6, <2>1 DEF Listed
  <2> QED  BY <1>4, <2>2, <2>3
<1> QED  BY <1>5, <1>6

LEMMA FreeKeeps ==
  ASSUME CountInv, NEW t \in Threads, Count!Free(t)
  PROVE  CountInv'
<1> USE DEF CountInv
<1>1. /\ UNCHANGED <<table3, f_count3, refs3, f_lock3>> /\ pc3[t] = "free" /\ alive3' = alive3 \ {fp3[t]}
      /\ \A s \in Threads : pc3'[s] = (IF s = t THEN "idle" ELSE pc3[s]) /\ fp3'[s] = (IF s = t THEN NoObj ELSE fp3[s])
      /\ fp3[t] \notin table3
  BY DEF Count!Free, CountTypes, InHand
<1>2. CountTypes' /\ CountsRefs'
  BY <1>1 DEF Count!Free, CountTypes, CountsRefs
<1>3. InHand' /\ Apart'
  BY <1>1 DEF InHand, Apart, Busy
<1>4. MutexHeld' /\ Listed'
  BY <1>1 DEF MutexHeld, Listed
<1> QED  BY <1>2, <1>3, <1>4

\* So every step keeps it.
LEMMA CountStep ==
  ASSUME IsFiniteSet(Threads), CountInv, [Count!Next]_countVars
  PROVE  CountInv'
<1>1. CASE UNCHANGED countVars
  BY <1>1 DEF countVars, CountInv, CountTypes, InHand, Busy, Apart, MutexHeld, Listed, CountsRefs
<1>2. ASSUME NEW t \in Threads, NEW o \in Objs, NEW u \in Threads, Count!foo_hold(t, o, u) PROVE CountInv'
  BY <1>2, AddRefKeeps DEF Count!foo_hold
<1>3. ASSUME NEW t \in Threads, NEW id \in Ids, Count!foo_find(t, id) PROVE CountInv'
  BY <1>3, AddRefKeeps DEF Count!foo_find
<1> QED  BY <1>1, <1>2, <1>3, AllocKeeps, ReleKeeps, FreeKeeps DEF Count!Next



-----------------------------------------------------------------------------
(* Refinement: a step under hashlock is a step of the table, or none.       *)

\* What the table of RefTable is given for its references.
Promised == [o \in Objs |-> refs3[o] \cup Count!LastRef(o)]

LEMMA CountInitImplements == Count!Init => Count!Refs!Init
BY DEF Count!Init, Count!Refs!Init, Count!LastRef

\* foo_hold and foo_find add one to an object that has some.
LEMMA AddImplements ==
  ASSUME CountInv, NEW o \in table3, NEW u \in Threads, u \notin refs3[o], Count!AddRef(o, u),
         UNCHANGED <<alive3, table3, f_lock3, pc3, fp3>>
  PROVE  Count!Refs!Next
<1>1. o \in Objs /\ refs3[o] # {} /\ Count!LastRef(o) = {} /\ \A x \in Objs : Count!LastRef(x)' = Count!LastRef(x)
  BY LastRefOf DEF CountInv, CountTypes, Listed, Count!LastRef
<1>2. Promised' = [Promised EXCEPT ![o] = @ \cup {u}]
  BY <1>1 DEF Promised, Count!AddRef, CountInv, CountTypes
<1>3. Count!Refs!AddRef(u, o)
  BY <1>1, <1>2 DEF Count!Refs!AddRef, Promised
<1> QED  BY <1>1, <1>3 DEF Count!Refs!Next

\* foo_alloc allocates an object with its first reference, then lists it.
LEMMA AllocImplements ==
  ASSUME CountInv, NEW t \in Threads, Count!foo_alloc(t)
  PROVE  [Count!Refs!Next]_(Count!Refs!vars)
<1>1. ASSUME NEW o \in Objs \ alive3, pc3[t] = "idle", pc3' = [pc3 EXCEPT ![t] = "new"], fp3' = [fp3 EXCEPT ![t] = o],
             alive3' = alive3 \cup {o}, refs3' = [refs3 EXCEPT ![o] = {t}], UNCHANGED table3
      PROVE  Count!Refs!Next
  <2>1. Count!LastRef(o) = {} /\ \A x \in Objs : Count!LastRef(x)' = Count!LastRef(x)
    BY <1>1, LastRefOf DEF Count!LastRef, CountInv, CountTypes
  <2>2. Promised' = [Promised EXCEPT ![o] = {t}]
    <3>1. \A x \in Objs : refs3'[x] = IF x = o THEN {t} ELSE refs3[x]
      BY <1>1 DEF CountInv, CountTypes
    <3> QED  BY <2>1, <3>1 DEF Promised
  <2>3. Count!Refs!Allocate(t, o)
    BY <1>1, <2>2 DEF Count!Refs!Allocate, Promised
  <2> QED  BY <2>3 DEF Count!Refs!Next
<1>2. CASE /\ pc3[t] = "new" /\ pc3' = [pc3 EXCEPT ![t] = "init"]
           /\ table3' = table3 \cup {fp3[t]} /\ UNCHANGED <<alive3, refs3, fp3>>
  <2>1. fp3[t] \in alive3 \ table3 /\ fp3[t] \in Objs /\ refs3[fp3[t]] = {t}
    BY <1>2 DEF CountInv, InHand, Busy, CountTypes
  <2>2. \A x \in Objs : Count!LastRef(x)' = Count!LastRef(x)
    BY <1>2 DEF Count!LastRef, CountInv, CountTypes
  <2>3. Promised' = Promised /\ Promised[fp3[t]] # {}
    BY <1>2, <2>1, <2>2 DEF Promised
  <2>4. Count!Refs!Publish(fp3[t])
    BY <1>2, <2>1, <2>3 DEF Count!Refs!Publish, Promised
  <2> QED  BY <2>1, <2>4 DEF Count!Refs!Next
<1>3. CASE /\ pc3[t] = "init" /\ pc3' = [pc3 EXCEPT ![t] = "idle"] /\ fp3' = [fp3 EXCEPT ![t] = NoObj]
           /\ UNCHANGED <<alive3, table3, refs3>>
  <2>1. \A x \in Objs : Count!LastRef(x)' = Count!LastRef(x)
    BY <1>3 DEF Count!LastRef, CountInv, CountTypes
  <2>2. Promised' = Promised
    BY <1>3, <2>1 DEF Promised
  <2> QED  BY <1>3, <2>2 DEF Count!Refs!vars, Promised
<1> QED  BY <1>1, <1>2, <1>3 DEF Count!foo_alloc

\* foo_rele drops a reference, or takes the object of the last one off the list;
LEMMA ReleImplements ==
  ASSUME IsFiniteSet(Threads), CountInv, NEW t \in Threads, NEW o \in Objs, Count!foo_rele(t, o)
  PROVE  Count!Refs!Next
<1>1. pc3[t] = "idle" /\ t \in refs3[o] /\ o \in table3 /\ o \in alive3 /\ Count!LastRef(o) = {} /\ alive3' = alive3
  BY HeldIsListed, LastRefOf DEF Count!foo_rele, CountInv, CountTypes
<1>2. f_count3[o] = 1 <=> refs3[o] = {t}
  BY <1>1, LastIsCounted
<1>3. refs3' = [refs3 EXCEPT ![o] = @ \ {t}] /\ refs3 \in [Objs -> SUBSET Threads]
  BY DEF Count!foo_rele, CountInv, CountTypes
<1>4. CASE f_count3[o] = 1
  <2>1. table3' = table3 \ {o} /\ pc3' = [pc3 EXCEPT ![t] = "free"] /\ fp3' = [fp3 EXCEPT ![t] = o]
    BY <1>4 DEF Count!foo_rele
  <2>2. Count!LastRef(o)' = {t} /\ \A x \in Objs \ {o} : Count!LastRef(x)' = Count!LastRef(x)
    BY <1>1, <2>1 DEF Count!LastRef, CountInv, CountTypes
  <2>3. Promised' = Promised /\ Promised[o] = {t}
    BY <1>1, <1>2, <1>3, <1>4, <2>2 DEF Promised
  <2>4. Count!Refs!DropRef(t, o)
    BY <1>1, <2>1, <2>3 DEF Count!Refs!DropRef, Promised
  <2> QED  BY <2>4 DEF Count!Refs!Next
<1>5. CASE f_count3[o] # 1
  <2>1. UNCHANGED <<table3, pc3, fp3>>
    BY <1>5 DEF Count!foo_rele
  <2>2. \A x \in Objs : Count!LastRef(x)' = Count!LastRef(x)
    BY <2>1 DEF Count!LastRef
  <2>3. Promised' = [Promised EXCEPT ![o] = @ \ {t}] /\ Promised[o] = refs3[o]
    <3>1. \A x \in Objs : refs3'[x] = IF x = o THEN refs3[o] \ {t} ELSE refs3[x]
      BY <1>3
    <3>2. Promised[o] = refs3[o] /\ refs3'[o] \cup Count!LastRef(o)' = refs3[o] \ {t}
      BY <1>1, <2>2, <3>1 DEF Promised
    <3>3. \A x \in Objs \ {o} : refs3'[x] \cup Count!LastRef(x)' = Promised[x]
      BY <2>2, <3>1 DEF Promised
    <3> QED  BY <3>2, <3>3 DEF Promised
  <2>4. Count!Refs!DropRef(t, o)
    BY <1>1, <1>2, <1>5, <2>1, <2>3 DEF Count!Refs!DropRef, Promised
  <2> QED  BY <2>4 DEF Count!Refs!Next
<1> QED  BY <1>4, <1>5

\* and the free after it gives the memory back.
LEMMA FreeImplements ==
  ASSUME CountInv, NEW t \in Threads, Count!Free(t)
  PROVE  Count!Refs!Next
<1>0. PICK o \in Objs : o = fp3[t]
  BY DEF Count!Free, CountInv, InHand, Busy, CountTypes
<1>1. o \in alive3 \ table3 /\ refs3[o] = {} /\ Count!LastRef(o) = {t} /\ pc3[t] = "free"
  BY <1>0, LastRefOf DEF Count!Free, CountInv, InHand, Busy, CountTypes
<1>2. /\ UNCHANGED <<table3, refs3>> /\ alive3' = alive3 \ {o}
      /\ pc3' = [pc3 EXCEPT ![t] = "idle"] /\ fp3' = [fp3 EXCEPT ![t] = NoObj]
  BY <1>0 DEF Count!Free
<1>3. \A x \in Objs : Count!LastRef(x)' = IF x = o THEN {} ELSE Count!LastRef(x)
  BY <1>0, <1>1, <1>2 DEF Count!LastRef, CountInv, CountTypes
<1>4. Promised' = [Promised EXCEPT ![o] = {}] /\ Promised[o] = {t}
  BY <1>1, <1>2, <1>3 DEF Promised
<1>5. Count!Refs!Free(t, o)
  BY <1>1, <1>2, <1>4 DEF Count!Refs!Free, Promised
<1> QED  BY <1>5 DEF Count!Refs!Next

LEMMA CountHolds == CountInv => Count!LockedIsAlive
BY LastRefOf DEF CountInv, MutexHeld, InHand, Busy, Count!LockedIsAlive

\* A step under hashlock is a step of the table of references, or none.
LEMMA CountStepImplements ==
  ASSUME IsFiniteSet(Threads), CountInv, [Count!Next]_countVars
  PROVE  [Count!Refs!Next]_(Count!Refs!vars)
<1>1. CASE UNCHANGED countVars
  BY <1>1 DEF countVars, Count!Refs!vars, Count!LastRef
<1>2. ASSUME NEW t \in Threads, NEW o \in Objs, NEW u \in Threads, Count!foo_hold(t, o, u) PROVE Count!Refs!Next
  BY <1>2, AddImplements DEF Count!foo_hold
<1>3. ASSUME NEW t \in Threads, NEW id \in Ids, Count!foo_find(t, id) PROVE Count!Refs!Next
  BY <1>3, AddImplements DEF Count!foo_find
<1> QED  BY <1>1, <1>2, <1>3, AllocImplements, ReleImplements, FreeImplements DEF Count!Next

-----------------------------------------------------------------------------
(* barrier.c: the parts, the barrier, the merge.                           *)

N == NTHR * TNUM
Thr == Sort!Thr
Places == 0 .. N - 1
First(t) == t * TNUM

LEMMA PartsFit ==
  /\ N \in Nat /\ Thr = 0 .. NTHR - 1 /\ IsFiniteSet(Thr) /\ Cardinality(Thr) = NTHR
  /\ IsFiniteSet(Places) /\ Cardinality(Places) = N
<1>1. N \in Nat /\ Thr = 0 .. NTHR - 1
  BY SortAssumption DEF N, Thr, Sort!Thr
<1>2. IsFiniteSet(0 .. NTHR - 1) /\ Cardinality(0 .. NTHR - 1) = IF 0 > NTHR - 1 THEN 0 ELSE (NTHR - 1) - 0 + 1
  BY FS_Interval, SortAssumption
<1>3. Cardinality(Thr) = NTHR
  BY <1>1, <1>2, SortAssumption
<1>4. IsFiniteSet(0 .. N - 1) /\ Cardinality(0 .. N - 1) = IF 0 > N - 1 THEN 0 ELSE (N - 1) - 0 + 1
  BY <1>1, FS_Interval
<1>5. Cardinality(Places) = N
  BY <1>1, <1>4 DEF Places
<1> QED  BY <1>1, <1>2, <1>3, <1>4, <1>5 DEF Places

\* The parts follow each other, and together they are all the places.
LEMMA Multiples ==
  ASSUME NEW a \in Nat, NEW b \in Nat, NEW k \in Nat
  PROVE  /\ a * k \in Nat /\ (a + 1) * k = a * k + k
         /\ a <= b => a * k <= b * k
<1>1. a * k \in Nat /\ (a + 1) * k = a * k + k
  OBVIOUS
<1>2. ASSUME a <= b PROVE a * k <= b * k
  <2>1. PICK d \in Nat : b = a + d
    <3>1. b - a \in Nat /\ b = a + (b - a)
      BY <1>2
    <3> QED  BY <3>1
  <2>2. b * k = a * k + d * k /\ d * k \in Nat
    BY <2>1
  <2> QED  BY <1>1, <2>2
<1> QED  BY <1>1, <1>2

LEMMA Parts ==
  ASSUME NEW t \in Thr
  PROVE  /\ t \in Nat /\ First(t) \in Nat /\ First(t) + TNUM <= N
         /\ Sort!Part(t) = First(t) .. First(t) + TNUM - 1 /\ (t + 1) * TNUM = First(t) + TNUM
         /\ \A u \in Thr : t < u => First(t) + TNUM <= First(u)
<1>1. t \in Nat /\ TNUM \in Nat /\ NTHR \in Nat /\ t + 1 <= NTHR /\ Thr \subseteq Nat
  BY PartsFit, SortAssumption
<1>2. First(t) \in Nat /\ (t + 1) * TNUM = First(t) + TNUM
  BY <1>1, Multiples DEF First
<1>3. First(t) + TNUM <= N
  BY <1>1, <1>2, Multiples DEF N
<1>4. Sort!Part(t) = First(t) .. First(t) + TNUM - 1
  <2> DEFINE next == (t + 1) * TNUM
  <2>1. next = First(t) + TNUM /\ Sort!Part(t) = First(t) .. next - 1
    BY <1>2 DEF Sort!Part, First
  <2> HIDE DEF next
  <2>2. next - 1 = First(t) + TNUM - 1
    BY <1>1, <1>2, <2>1
  <2> QED  BY <2>1, <2>2
<1>5. ASSUME NEW u \in Thr, t < u PROVE First(t) + TNUM <= First(u)
  <2>1. t + 1 <= u /\ u \in Nat
    BY <1>1, <1>5
  <2> QED  BY <1>1, <1>2, <2>1, Multiples DEF First
<1> QED  BY <1>1, <1>2, <1>3, <1>4, <1>5

LEMMA PartsAreApart ==
  ASSUME NEW t \in Thr, NEW u \in Thr, NEW i \in Sort!Part(t), i \in Sort!Part(u)
  PROVE  t = u /\ i \in Places
<1>1. /\ t \in Nat /\ u \in Nat /\ First(t) \in Nat /\ First(u) \in Nat /\ TNUM \in Nat /\ N \in Nat
      /\ i \in First(t) .. First(t) + TNUM - 1 /\ i \in First(u) .. First(u) + TNUM - 1
      /\ t < u => First(t) + TNUM <= First(u)
      /\ u < t => First(u) + TNUM <= First(t)
      /\ First(t) + TNUM <= N
  BY Parts, PartsFit, SortAssumption
<1> QED  BY <1>1 DEF Places

LEMMA PartsCover ==
  ASSUME NEW i \in Places
  PROVE  \E t \in Thr : i \in Sort!Part(t)
<1>1. i \in Nat /\ i < N /\ TNUM \in Nat \ {0} /\ NTHR \in Nat
  BY PartsFit, SortAssumption DEF Places
<1> DEFINE q == i \div TNUM  r == i % TNUM
<1>2. q \in Nat /\ r \in 0 .. TNUM - 1 /\ i = q * TNUM + r
  <2>1. q \in Int /\ r \in 0 .. TNUM - 1 /\ i = TNUM * q + r
    BY <1>1
  <2>2. q \in Nat
    BY <1>1
  <2> QED  BY <1>1, <2>1, <2>2
<1> HIDE DEF q, r
<1>3. q < NTHR
  <2> SUFFICES ASSUME NTHR <= q PROVE FALSE
    BY <1>1, <1>2
  <2>1. NTHR * TNUM <= q * TNUM /\ q * TNUM \in Nat
    BY <1>1, <1>2, Multiples
  <2> QED  BY <1>1, <1>2, <2>1 DEF N
<1>4. q \in Thr
  BY <1>1, <1>2, <1>3, PartsFit
<1>5. i \in First(q) .. First(q) + TNUM - 1
  BY <1>1, <1>2 DEF First
<1> QED  BY <1>4, <1>5, Parts

-----------------------------------------------------------------------------
SortTypes ==
  /\ nums \in [Places -> Values] /\ given \in [Places -> Values] /\ snums \in Seq(Values)
  /\ tstate \in [Thr -> {"none", "sort", "barrier"}] /\ idx \in [Thr -> Int]
  /\ arrived \in Nat /\ bpc \in {"create", "barrier", "merge"}

\* The barrier counts the threads that have sorted, and main.
Come == {t \in Thr : tstate[t] = "barrier"}
Counting == arrived = Cardinality(Come) + IF bpc = "create" THEN 0 ELSE 1

\* Whoever has come has sorted its part, and no number was lost in it.
Ordered(t) == \A i, j \in Sort!Part(t) : i < j => nums[i] <= nums[j]
Where(v, f) == {i \in DOMAIN f : f[i] = v}
PartsSorted ==
  /\ \A t \in Come : Ordered(t)
  /\ \A v \in Values : Cardinality(Where(v, nums)) <= Cardinality(Where(v, given))

\* What the merge has taken of each part.
Merged == {i \in Places : \E t \in Thr : i \in Sort!Part(t) /\ i < idx[t]}
Before == snums = <<>> /\ idx = [t \in Thr |-> First(t)]
Merging ==
  /\ Come = Thr
  /\ \A t \in Thr : First(t) <= idx[t] /\ idx[t] <= First(t) + TNUM
  /\ Len(snums) = Cardinality(Merged)
  /\ \A v \in Values : Cardinality(Where(v, snums)) = Cardinality({i \in Merged : nums[i] = v})
  /\ \A k \in 1 .. Len(snums) - 1 : snums[k] <= snums[k + 1]
  /\ \A k \in 1 .. Len(snums), t \in Thr : \A i \in Sort!Part(t) : i >= idx[t] => snums[k] <= nums[i]

SortInv ==
  /\ SortTypes /\ Counting /\ PartsSorted
  /\ bpc # "merge" => Before
  /\ bpc = "merge" => Merging

LEMMA SortInit == Sort!Init => SortInv
<1> SUFFICES ASSUME Sort!Init PROVE SortInv
  OBVIOUS
<1>1. SortTypes /\ Before /\ bpc = "create"
  BY PartsFit, Parts DEF Sort!Init, Sort!NUMNUM, SortTypes, Before, Places, N, Thr, First
<1>2. Come = {} /\ arrived = 0
  BY DEF Come, Sort!Init, Thr
<1>3. Counting
  BY <1>1, <1>2, FS_EmptySet DEF Counting
<1>4. PartsSorted
  <2>1. given = nums
    BY DEF Sort!Init
  <2>2. \A v : IsFiniteSet(Where(v, nums))
    BY <1>1, PartsFit, FS_Subset DEF Where, SortTypes
  <2> QED  BY <1>2, <2>1, <2>2, FS_CardinalityType DEF PartsSorted
<1> QED  BY <1>1, <1>3, <1>4 DEF SortInv

\* One thread sorts its part and goes to the barrier.
LEMMA SortKeeps ==
  ASSUME SortInv, NEW t \in Thr, Sort!thr_fn(t)
  PROVE  SortInv'
<1> USE DEF SortInv
<1>1. /\ tstate[t] = "sort" /\ arrived' = arrived + 1 /\ tstate' = [tstate EXCEPT ![t] = "barrier"]
      /\ UNCHANGED <<snums, bpc, idx, given>>
  BY DEF Sort!thr_fn
<1>2. PICK p \in Sort!Bijection(Sort!Part(t), Sort!Part(t)) :
        /\ nums' = [i \in DOMAIN nums |-> IF i \in Sort!Part(t) THEN nums[p[i]] ELSE nums[i]]
        /\ \A i, j \in Sort!Part(t) : i < j => ~Sort!complong(nums'[j], nums'[i])
  BY DEF Sort!thr_fn
<1>3. /\ p \in [Sort!Part(t) -> Sort!Part(t)]
      /\ \A i, j \in Sort!Part(t) : p[i] = p[j] => i = j
  BY DEF Sort!Bijection, Sort!Injection, Sort!IsInjective
<1>4. Sort!Part(t) \subseteq Places
  BY PartsAreApart
<1>5. /\ nums' \in [Places -> Values]
      /\ \A i \in Places : nums'[i] = IF i \in Sort!Part(t) THEN nums[p[i]] ELSE nums[i]
  BY <1>2, <1>3, <1>4 DEF SortTypes
<1>6. bpc # "merge"
  BY <1>1 DEF Merging, Come
<1>7. SortTypes'
  BY <1>1, <1>5 DEF SortTypes
<1>8. Come' = Come \cup {t} /\ t \notin Come
  BY <1>1 DEF Come, SortTypes
<1>9. Counting'
  <2>1. IsFiniteSet(Come) /\ Cardinality(Come) \in Nat
    BY PartsFit, FS_Subset, FS_CardinalityType DEF Come
  <2>2. Cardinality(Come') = Cardinality(Come) + 1
    BY <1>8, <2>1, FS_AddElement
  <2> QED  BY <1>1, <2>1, <2>2 DEF Counting, SortTypes
<1>10. PartsSorted'
  <2>1. ASSUME NEW u \in Come' PROVE Ordered(u)'
    <3>1. CASE u = t
      <4>1. \A i, j \in Sort!Part(t) : i < j => ~(nums'[j] < nums'[i])
        BY <1>2 DEF Sort!complong
      <4>2. \A i \in Sort!Part(t) : nums'[i] \in Int
        BY <1>4, <1>5, SortAssumption
      <4>3. \A i, j \in Sort!Part(t) : i < j => nums'[i] <= nums'[j]
        BY <4>1, <4>2
      <4> QED  BY <3>1, <4>3 DEF Ordered
    <3>2. CASE u # t
      <4>1. u \in Come /\ u \in Thr
        BY <1>8, <3>2 DEF Come
      <4>2. \A i \in Sort!Part(u) : nums'[i] = nums[i]
        BY <1>5, <3>2, <4>1, PartsAreApart
      <4>3. Ordered(u)
        BY <4>1 DEF PartsSorted
      <4> QED  BY <4>2, <4>3 DEF Ordered
    <3> QED  BY <3>1, <3>2
  <2>2. ASSUME NEW v \in Values
        PROVE  Cardinality(Where(v, nums')) <= Cardinality(Where(v, given))
    <3> DEFINE from == [i \in Where(v, nums') |-> IF i \in Sort!Part(t) THEN p[i] ELSE i]
    <3>1. Where(v, nums') \subseteq Places /\ Where(v, nums) = {i \in Places : nums[i] = v} /\ Where(v, nums') = {i \in Places : nums'[i] = v}
      BY <1>5 DEF Where, SortTypes
    <3>2. from \in [Where(v, nums') -> Where(v, nums)]
      BY <1>3, <1>4, <1>5, <3>1
    <3>3. \A i, j \in Where(v, nums') : from[i] = from[j] => i = j
      BY <1>3
    <3>4. from \in Injection(Where(v, nums'), Where(v, nums))
      BY <3>2, <3>3 DEF Injection, IsInjective
    <3>5. IsFiniteSet(Where(v, nums)) /\ IsFiniteSet(Where(v, nums')) /\ IsFiniteSet(Where(v, given))
      BY <3>1, PartsFit, FS_Subset DEF Where, SortTypes
    <3>6. Cardinality(Where(v, nums')) <= Cardinality(Where(v, nums))
      BY <3>4, <3>5, FS_Injection
    <3>7. Cardinality(Where(v, nums)) <= Cardinality(Where(v, given))
      BY DEF PartsSorted
    <3>8. Cardinality(Where(v, nums)) \in Nat /\ Cardinality(Where(v, nums')) \in Nat /\ Cardinality(Where(v, given)) \in Nat
      BY <3>5, FS_CardinalityType
    <3> QED  BY <3>6, <3>7, <3>8
  <2>3. \A v : Where(v, nums)' = Where(v, nums') /\ Where(v, given)' = Where(v, given)
    BY <1>1 DEF Where
  <2> QED  BY <2>1, <2>2, <2>3 DEF PartsSorted
<1>11. Before'
  BY <1>1, <1>6 DEF Before
<1> QED  BY <1>1, <1>6, <1>7, <1>9, <1>10, <1>11

LEMMA CreateKeeps == SortInv /\ Sort!Create => SortInv'
<1> SUFFICES ASSUME SortInv, Sort!Create PROVE SortInv'
  OBVIOUS
<1> USE DEF SortInv
<1>1. UNCHANGED <<nums, snums, idx, given>> /\ bpc = "create"
  BY DEF Sort!Create
<1>2. IsFiniteSet(Come) /\ Cardinality(Come) \in Nat
  BY PartsFit, FS_Subset, FS_CardinalityType DEF Come
<1>3. ASSUME NEW t \in Thr, tstate[t] = "none", tstate' = [tstate EXCEPT ![t] = "sort"], UNCHANGED <<arrived, bpc>>
      PROVE  SortInv'
  <2>1. tstate' \in [Thr -> {"none", "sort", "barrier"}]
    BY <1>3 DEF SortTypes
  <2>2. Come' = Come
    BY <1>3 DEF Come, SortTypes
  <2>3. SortTypes' /\ Counting' /\ Before'
    BY <1>1, <1>3, <2>1, <2>2 DEF SortTypes, Counting, Before
  <2>4. PartsSorted'
    BY <1>1, <2>2 DEF PartsSorted, Ordered, Where
  <2> QED  BY <1>1, <1>3, <2>3, <2>4
<1>4. ASSUME arrived' = arrived + 1, bpc' = "barrier", UNCHANGED tstate PROVE SortInv'
  <2>1. Come' = Come
    BY <1>4 DEF Come
  <2>2. SortTypes' /\ Counting' /\ Before'
    BY <1>1, <1>2, <1>4, <2>1 DEF SortTypes, Counting, Before
  <2>3. PartsSorted'
    BY <1>1, <2>1 DEF PartsSorted, Ordered, Where
  <2> QED  BY <1>4, <2>2, <2>3
<1> QED  BY <1>3, <1>4 DEF Sort!Create, Thr

\* The barrier opens when every thread has sorted.
LEMMA OpenKeeps == SortInv /\ Sort!Open => SortInv'
<1> SUFFICES ASSUME SortInv, Sort!Open PROVE SortInv'
  OBVIOUS
<1> USE DEF SortInv
<1>1. /\ bpc = "barrier" /\ arrived >= NTHR + 1 /\ bpc' = "merge"
      /\ UNCHANGED <<nums, snums, arrived, tstate, idx, given>> /\ Before
  BY DEF Sort!Open, Sort!Waiters
<1>2. Come = Thr
  <2>1. /\ IsFiniteSet(Come) /\ Cardinality(Come) \in Nat /\ Come \subseteq Thr
        /\ Cardinality(Come) <= Cardinality(Thr) /\ (Cardinality(Come) = Cardinality(Thr) => Come = Thr)
    BY PartsFit, FS_Subset, FS_CardinalityType DEF Come
  <2>2. NTHR \in Nat /\ Cardinality(Come) >= NTHR
    BY <1>1, <2>1, SortAssumption DEF Counting
  <2> QED  BY <2>1, <2>2, PartsFit
<1>3. SortTypes' /\ Counting' /\ PartsSorted' /\ Come' = Come
  BY <1>1 DEF SortTypes, Counting, PartsSorted, Come, Ordered, Where
<1>4. Merging'
  <2>1. Merged = {}
    <3>1. \A t \in Thr : \A i \in Sort!Part(t) : ~(i < idx[t])
      BY <1>1, Parts, SortAssumption DEF Before
    <3> QED  BY <3>1 DEF Merged
  <2>2. Merged' = {} /\ snums' = <<>> /\ Len(snums') = 0
    BY <1>1, <2>1 DEF Merged, Before
  <2>3. \A v : Where(v, snums') = {} /\ {i \in Merged' : nums'[i] = v} = {}
    BY <2>2 DEF Where
  <2>4. \A t \in Thr : First(t) <= idx'[t] /\ idx'[t] <= First(t) + TNUM
    BY <1>1, Parts, SortAssumption DEF Before
  <2> QED  BY <1>2, <1>3, <2>2, <2>3, <2>4, FS_EmptySet DEF Merging, Where
<1> QED  BY <1>1, <1>3, <1>4

\* As long as numbers are missing in the result, some part has one left.
LEMMA SomeLeft ==
  ASSUME SortInv, bpc = "merge", Len(snums) < N
  PROVE  Sort!Heads # {}
<1> USE DEF SortInv
<1>1. Merged \subseteq Places /\ Len(snums) = Cardinality(Merged)
  BY DEF Merged, Merging
<1>2. Merged # Places
  BY <1>1, PartsFit
<1>3. PICK i \in Places : i \notin Merged
  BY <1>1, <1>2
<1>4. PICK t \in Thr : i \in Sort!Part(t)
  BY PartsCover
<1>5. /\ TNUM \in Nat /\ First(t) \in Nat /\ idx[t] \in Int /\ i \in First(t) .. First(t) + TNUM - 1
      /\ (t + 1) * TNUM = First(t) + TNUM /\ First(t) <= idx[t] /\ First(t) + TNUM <= N /\ N \in Nat
  BY <1>4, Parts, PartsFit, SortAssumption DEF SortTypes, Merging
<1>6. ~(i < idx[t])
  BY <1>3, <1>4 DEF Merged
<1>7. idx[t] < First(t) + TNUM /\ idx[t] \in 0 .. N - 1
  BY <1>5, <1>6
<1>8. nums[idx[t]] < LONG_MAX
  BY <1>7, SortAssumption DEF SortTypes, Places
<1>9. t \in Sort!Heads
  BY <1>5, <1>7, <1>8 DEF Sort!Heads, Thr
<1> QED  BY <1>9

\* The number that is taken is not greater than any that is left.
LEMMA LeastIsTaken ==
  ASSUME SortInv, bpc = "merge", NEW t \in Sort!Heads, Sort!Least(t)
  PROVE  /\ t \in Thr /\ idx[t] \in Sort!Part(t) /\ nums[idx[t]] \in Values
         /\ \A u \in Thr : \A i \in Sort!Part(u) : i >= idx[u] => nums[idx[t]] <= nums[i]
<1> USE DEF SortInv
<1>1. \A u \in Thr : /\ TNUM \in Nat /\ First(u) \in Nat /\ idx[u] \in Int /\ First(u) <= idx[u]
                     /\ Sort!Part(u) = First(u) .. First(u) + TNUM - 1 /\ (u + 1) * TNUM = First(u) + TNUM
  BY Parts, SortAssumption DEF SortTypes, Merging
<1>2. \A u \in Thr : \A i \in Sort!Part(u) : nums[i] \in Values /\ nums[i] \in Int /\ nums[i] < LONG_MAX
  BY PartsAreApart, SortAssumption DEF SortTypes
<1>3. t \in Thr /\ idx[t] < (t + 1) * TNUM
  BY DEF Sort!Heads, Thr
<1>4. idx[t] \in Sort!Part(t)
  BY <1>1, <1>3
<1>5. ASSUME NEW u \in Thr, NEW i \in Sort!Part(u), i >= idx[u]
      PROVE  nums[idx[t]] <= nums[i]
  <2>1. idx[u] \in Sort!Part(u) /\ idx[u] < (u + 1) * TNUM /\ i \in Int /\ idx[u] \in Int
    BY <1>1, <1>5
  <2>2. u \in Sort!Heads
    BY <1>2, <2>1 DEF Sort!Heads, Thr
  <2>3. nums[idx[t]] <= nums[idx[u]]
    <3>1. nums[idx[t]] < nums[idx[u]] \/ nums[idx[t]] = nums[idx[u]]
      BY <2>2 DEF Sort!Least
    <3>2. nums[idx[t]] \in Int /\ nums[idx[u]] \in Int
      BY <1>2, <1>3, <1>4, <2>1
    <3> QED  BY <3>1, <3>2
  <2>4. Ordered(u)
    BY DEF PartsSorted, Merging
  <2>5. nums[idx[u]] <= nums[i]
    <3>1. CASE i = idx[u]
      BY <1>2, <3>1
    <3>2. CASE idx[u] < i
      BY <2>1, <2>4, <3>2 DEF Ordered
    <3> QED  BY <1>5, <2>1, <3>1, <3>2
  <2>6. nums[idx[t]] \in Int /\ nums[idx[u]] \in Int /\ nums[i] \in Int
    BY <1>2, <1>3, <1>4, <2>1
  <2> QED  BY ONLY <2>3, <2>5, <2>6
<1> QED  BY <1>2, <1>3, <1>4, <1>5

LEMMA MergeKeeps == SortInv /\ Sort!merge => SortInv'
<1> SUFFICES ASSUME SortInv, Sort!merge PROVE SortInv'
  OBVIOUS
<1> USE DEF SortInv
<1>1. /\ bpc = "merge" /\ Len(snums) < N /\ Merging
      /\ UNCHANGED <<nums, arrived, tstate, bpc, given>>
  BY DEF Sort!merge, Sort!NUMNUM, N
<1>2. PICK t \in Sort!Heads : /\ Sort!Least(t) /\ snums' = Append(snums, nums[idx[t]])
                             /\ idx' = [idx EXCEPT ![t] = @ + 1]
  BY <1>1, SomeLeft DEF Sort!merge, Sort!minidx
<1>3. /\ t \in Thr /\ idx[t] \in Sort!Part(t) /\ nums[idx[t]] \in Values
      /\ \A u \in Thr : \A i \in Sort!Part(u) : i >= idx[u] => nums[idx[t]] <= nums[i]
  BY <1>1, <1>2, LeastIsTaken
<1> PICK n \in Nat, x \in Places, v \in Values : n = Len(snums) /\ x = idx[t] /\ v = nums[x]
  BY <1>3, PartsAreApart DEF SortTypes
<1>4. /\ snums' \in Seq(Values) /\ Len(snums') = n + 1 /\ snums'[n + 1] = v
      /\ \A k \in 1 .. n : snums'[k] = snums[k] /\ snums[k] \in Values
  BY <1>2 DEF SortTypes
<1>5. /\ idx' \in [Thr -> Int] /\ idx'[t] = x + 1
      /\ \A u \in Thr \ {t} : idx'[u] = idx[u]
  BY <1>2, <1>3 DEF SortTypes, Places
<1>6. SortTypes' /\ Counting' /\ PartsSorted' /\ Come' = Come
  BY <1>1, <1>4, <1>5 DEF SortTypes, Counting, PartsSorted, Come, Ordered, Where
<1>7. \A u \in Thr : /\ TNUM \in Nat /\ First(u) \in Nat /\ idx[u] \in Int
                     /\ First(u) <= idx[u] /\ idx[u] <= First(u) + TNUM
                     /\ Sort!Part(u) = First(u) .. First(u) + TNUM - 1
  BY <1>1, Parts, SortAssumption DEF SortTypes, Merging
<1>8. x \in Int /\ x \notin Merged
  <2>1. \A u \in Thr : x \in Sort!Part(u) => u = t
    BY <1>3, PartsAreApart
  <2> QED  BY <2>1, PartsFit DEF Merged, Places
<1>9. Merged' = Merged \cup {x}
  <2>1. ASSUME NEW i \in Places, NEW u \in Thr, i \in Sort!Part(u)
        PROVE  i < idx'[u] <=> i < idx[u] \/ i = x
    <3>1. CASE u = t
      <4>1. i \in Int
        BY PartsFit DEF Places
      <4> QED  BY <1>5, <1>8, <3>1, <4>1
    <3>2. CASE u # t
      <4>1. i # x
        BY <1>3, <2>1, <3>2, PartsAreApart
      <4> QED  BY <1>5, <3>2, <4>1
    <3> QED  BY <3>1, <3>2
  <2>2. ASSUME NEW i \in Merged' PROVE i \in Merged \cup {x}
    BY <2>1 DEF Merged
  <2>3. ASSUME NEW i \in Merged PROVE i \in Merged'
    BY <2>1 DEF Merged
  <2>4. x \in Merged'
    BY <1>3, <2>1 DEF Merged
  <2> QED  BY <2>2, <2>3, <2>4
<1>10. IsFiniteSet(Merged) /\ Cardinality(Merged) \in Nat /\ n = Cardinality(Merged)
  BY <1>1, PartsFit, FS_Subset, FS_CardinalityType DEF Merged, Merging
<1>11. Len(snums') = Cardinality(Merged')
  <2>1. Cardinality(Merged \cup {x}) = Cardinality(Merged) + 1
    BY <1>8, <1>10, FS_AddElement
  <2> QED  BY <1>4, <1>9, <1>10, <2>1
<1>12. ASSUME NEW y \in Values
       PROVE  Cardinality(Where(y, snums')) = Cardinality({i \in Merged' : nums'[i] = y})
  <2> DEFINE A == Where(y, snums)  B == {i \in Merged : nums[i] = y}
             A1 == Where(y, snums')  B1 == {i \in Merged' : nums'[i] = y}
  <2>1. Cardinality(A) = Cardinality(B)
    BY <1>1 DEF Merging
  <2>2. /\ A = {k \in 1 .. n : snums[k] = y} /\ A1 = {k \in 1 .. n + 1 : snums'[k] = y}
    BY <1>4 DEF Where, SortTypes
  <2>3. IsFiniteSet(A) /\ IsFiniteSet(B)
    <3>1. IsFiniteSet(1 .. n)
      BY FS_Interval
    <3> QED  BY <1>10, <2>2, <3>1, FS_Subset
  <2>4. n + 1 \notin A /\ x \notin B
    BY <1>8, <2>2
  <2>5. CASE v = y
    <3>1. A1 = A \cup {n + 1}
      <4>1. \A k \in 1 .. n + 1 : k = n + 1 \/ k \in 1 .. n
        OBVIOUS
      <4>2. \A k \in 1 .. n : k \in 1 .. n + 1
        OBVIOUS
      <4> QED  BY <1>4, <2>2, <2>5, <4>1, <4>2
    <3>2. B1 = B \cup {x}
      BY <1>1, <1>9, <2>5
    <3>3. Cardinality(A1) = Cardinality(A) + 1 /\ Cardinality(B1) = Cardinality(B) + 1
      BY <2>3, <2>4, <3>1, <3>2, FS_AddElement
    <3> QED  BY <2>1, <3>3
  <2>6. CASE v # y
    <3>1. A1 = A
      <4>1. \A k \in 1 .. n + 1 : k = n + 1 \/ k \in 1 .. n
        OBVIOUS
      <4>2. \A k \in 1 .. n : k \in 1 .. n + 1
        OBVIOUS
      <4> QED  BY <1>4, <2>2, <2>6, <4>1, <4>2
    <3>2. B1 = B
      BY <1>1, <1>9, <2>6
    <3> QED  BY <2>1, <3>1, <3>2
  <2> QED  BY <2>5, <2>6
<1>13. ASSUME NEW k \in 1 .. n PROVE snums[k] <= v
  BY <1>1, <1>3, <1>7, <1>8 DEF Merging
<1>14. \A k \in 1 .. n : snums'[k] <= snums'[k + 1]
  <2>1. ASSUME NEW k \in 1 .. n, k # n PROVE snums'[k] <= snums'[k + 1]
    <3>1. k \in 1 .. n - 1 /\ k + 1 \in 1 .. n
      BY <2>1
    <3> QED  BY <1>1, <1>4, <3>1 DEF Merging
  <2> QED  BY <1>4, <1>13, <2>1
<1>15. ASSUME NEW k \in 1 .. n + 1, NEW u \in Thr, NEW i \in Sort!Part(u), i >= idx'[u]
       PROVE  snums'[k] <= nums'[i]
  <2>1. i >= idx[u]
    <3>1. i \in Int /\ idx[u] \in Int
      BY <1>7
    <3>2. CASE u = t
      BY <1>5, <1>8, <1>15, <3>1, <3>2
    <3>3. CASE u # t
      BY <1>5, <1>15, <3>3
    <3> QED  BY <3>2, <3>3
  <2>2. CASE k \in 1 .. n
    BY <1>1, <1>4, <2>1, <2>2 DEF Merging
  <2>3. CASE k = n + 1
    BY <1>1, <1>3, <1>4, <2>1, <2>3
  <2> QED  BY <2>2, <2>3
<1>16. \A u \in Thr : First(u) <= idx'[u] /\ idx'[u] <= First(u) + TNUM
  <2>1. ASSUME NEW u \in Thr, u # t PROVE First(u) <= idx'[u] /\ idx'[u] <= First(u) + TNUM
    BY <1>5, <1>7, <2>1
  <2>2. First(t) <= idx'[t] /\ idx'[t] <= First(t) + TNUM
    BY <1>3, <1>5, <1>7, <1>8
  <2> QED  BY <2>1, <2>2
<1>17. Merging'
  <2>1. /\ Come' = Thr /\ Len(snums') - 1 = n
    BY <1>1, <1>4, <1>6 DEF Merging
  <2> QED  BY <1>4, <1>11, <1>12, <1>14, <1>15, <1>16, <2>1 DEF Merging, Where
<1> QED  BY <1>1, <1>6, <1>17

LEMMA SortStep == SortInv /\ [Sort!Next]_sortVars => SortInv'
<1> SUFFICES ASSUME SortInv, [Sort!Next]_sortVars PROVE SortInv'
  OBVIOUS
<1>1. CASE UNCHANGED sortVars
  BY <1>1 DEF sortVars, SortInv, SortTypes, Counting, PartsSorted, Before, Merging, Come, Merged, Ordered, Where
<1> QED  BY <1>1, CreateKeeps, OpenKeeps, MergeKeeps, SortKeeps DEF Sort!Next, Thr

\* The cardinality of BarrierSort is the library's.
LEMMA SameCardinality == ASSUME NEW S PROVE Sort!Cardinality(S) = Cardinality(S)
BY DEF Sort!Cardinality, Cardinality

LEMMA SortHolds == SortInv => Sort!Sorted
<1> SUFFICES ASSUME SortInv, bpc = "merge" PROVE Sort!Sorted
  BY DEF Sort!Sorted
<1> USE DEF SortInv
<1>1. ASSUME NEW v \in Values
      PROVE  Cardinality({i \in DOMAIN snums : snums[i] = v}) <= Cardinality({i \in DOMAIN given : given[i] = v})
  <2> DEFINE B == {i \in Merged : nums[i] = v}
  <2>1. Cardinality(Where(v, snums)) = Cardinality(B) /\ Cardinality(Where(v, nums)) <= Cardinality(Where(v, given))
    BY DEF Merging, PartsSorted
  <2>2. B \subseteq Where(v, nums)
    BY DEF Merged, Where, SortTypes
  <2>3. IsFiniteSet(Where(v, nums)) /\ IsFiniteSet(Where(v, given))
    BY PartsFit, FS_Subset DEF Where, SortTypes
  <2>4. Cardinality(B) <= Cardinality(Where(v, nums)) /\ IsFiniteSet(B)
    BY <2>2, <2>3, FS_Subset
  <2>5. Cardinality(B) \in Nat /\ Cardinality(Where(v, nums)) \in Nat /\ Cardinality(Where(v, given)) \in Nat
    BY <2>3, <2>4, FS_CardinalityType
  <2>6. Cardinality(Where(v, snums)) <= Cardinality(Where(v, given))
    BY <2>1, <2>4, <2>5
  <2> QED  BY <2>6 DEF Where
<1>2. \A i \in 1 .. Len(snums) - 1 : snums[i] <= snums[i + 1]
  BY DEF Merging
<1> HIDE DEF SortInv
<1> QED  BY <1>1, <1>2, SameCardinality DEF Sort!Sorted

-----------------------------------------------------------------------------
(* timeout.c: the wait that is computed, and the thread that waits.        *)

\* A time is its seconds and its nanoseconds.
LEMMA Split ==
  ASSUME NEW a \in Int
  PROVE  /\ Retry!tv_sec(a) \in Int /\ Retry!tv_nsec(a) \in 0 .. SECTONSEC - 1
         /\ a = Retry!tv_sec(a) * SECTONSEC + Retry!tv_nsec(a)
BY TimeAssumption DEF Retry!tv_sec, Retry!tv_nsec

RetryTypes ==
  /\ clock \in Nat /\ when \in Nat /\ wakeup \in Nat
  /\ to_wait \in [sec : Nat, nsec : 0 .. SECTONSEC - 1]
  /\ topc \in {"lock", "when", "timeout", "call", "unlock", "retry", "done"}
  /\ helper \in {"none", "start", "asleep", "call", "retry", "end"}

\* From the start of the thread to the call of retry, the time that is left is
\* not less than it was; either main calls retry or the thread does, and each call is
\* recorded with the time it begins.
Waited ==
  /\ topc \in {"lock", "when", "timeout", "call"} => helper = "none" /\ calls = {}
  /\ helper \in {"start", "asleep", "call"} => calls = {}
  /\ topc = "call" => clock >= when \/ failed
  /\ helper = "start" => clock + to_wait.sec * SECTONSEC + to_wait.nsec >= when
  /\ helper = "asleep" => wakeup >= when
  /\ helper = "call" => clock >= when
  /\ \A c \in calls : c[2] >= when \/ (c[1] = "main" /\ failed)
  /\ \A c, d \in calls : c = d

RetryInv == RetryTypes /\ Waited

\* The wait that timeout() computes ends at the time asked for.
LEMMA WaitIsLeft ==
  ASSUME RetryTypes, Retry!Later(clock)
  PROVE  /\ Retry!Wait(clock) \in [sec : Nat, nsec : 0 .. SECTONSEC - 1]
         /\ clock + Retry!Wait(clock).sec * SECTONSEC + Retry!Wait(clock).nsec = when
<1> DEFINE cs == Retry!tv_sec(clock)  cn == Retry!tv_nsec(clock)
           ws == Retry!tv_sec(when)   wn == Retry!tv_nsec(when)
<1> HIDE DEF cs, cn, ws, wn
<1>1. /\ cs \in Int /\ cn \in 0 .. SECTONSEC - 1 /\ clock = cs * SECTONSEC + cn
      /\ ws \in Int /\ wn \in 0 .. SECTONSEC - 1 /\ when = ws * SECTONSEC + wn
  BY Split DEF RetryTypes, cs, cn, ws, wn
<1>2. ws > cs \/ (ws = cs /\ wn > cn)
  BY DEF Retry!Later, cs, cn, ws, wn
<1>3. Retry!Wait(clock) = IF wn >= cn THEN [sec |-> ws - cs, nsec |-> wn - cn]
                          ELSE [sec |-> ws - cs - 1, nsec |-> SECTONSEC - cn + wn]
  BY DEF Retry!Wait, cs, cn, ws, wn
<1>4. SECTONSEC \in Nat
  BY TimeAssumption
<1>5. (ws - cs) * SECTONSEC = ws * SECTONSEC - cs * SECTONSEC
  BY <1>1, <1>4
<1>6. (ws - cs - 1) * SECTONSEC = ws * SECTONSEC - cs * SECTONSEC - SECTONSEC
  BY <1>1, <1>4
<1>7. clock \in Int /\ when \in Int
  BY DEF RetryTypes
<1>8. CASE wn >= cn
  <2>1. Retry!Wait(clock) = [sec |-> ws - cs, nsec |-> wn - cn]
    BY <1>3, <1>8
  <2>2. ws - cs \in Nat /\ wn - cn \in 0 .. SECTONSEC - 1
    BY <1>1, <1>2, <1>4, <1>8
  <2>3. clock + (ws - cs) * SECTONSEC + (wn - cn) = when
    <3> DEFINE cS == cs * SECTONSEC  wS == ws * SECTONSEC
    <3>1. cS \in Int /\ wS \in Int
      BY <1>1, <1>4
    <3> HIDE DEF cS, wS
    <3>2. (ws - cs) * SECTONSEC = wS - cS /\ clock = cS + cn /\ when = wS + wn
      BY <1>1, <1>5 DEF cS, wS
    <3>3. cn \in Int /\ wn \in Int
      BY <1>1, <1>4
    <3> QED  BY ONLY <3>1, <3>2, <3>3
  <2> QED  BY <2>1, <2>2, <2>3
<1>9. CASE wn < cn
  <2>1. Retry!Wait(clock) = [sec |-> ws - cs - 1, nsec |-> SECTONSEC - cn + wn]
    BY <1>1, <1>3, <1>4, <1>9
  <2>2. ws - cs - 1 \in Nat /\ SECTONSEC - cn + wn \in 0 .. SECTONSEC - 1
    BY <1>1, <1>2, <1>4, <1>9
  <2>3. clock + (ws - cs - 1) * SECTONSEC + (SECTONSEC - cn + wn) = when
    <3> DEFINE cS == cs * SECTONSEC  wS == ws * SECTONSEC
    <3>1. cS \in Int /\ wS \in Int
      BY <1>1, <1>4
    <3> HIDE DEF cS, wS
    <3>2. (ws - cs - 1) * SECTONSEC = wS - cS - SECTONSEC /\ clock = cS + cn /\ when = wS + wn
      BY <1>1, <1>6 DEF cS, wS
    <3>3. cn \in Int /\ wn \in Int /\ SECTONSEC \in Int
      BY <1>1, <1>4
    <3> QED  BY ONLY <3>1, <3>2, <3>3
  <2> QED  BY <2>1, <2>2, <2>3
<1> QED  BY <1>1, <1>4, <1>8, <1>9

\* Otherwise the time asked for has come.
LEMMA TimeHasCome ==
  ASSUME RetryTypes, ~Retry!Later(clock)
  PROVE  clock >= when
<1> DEFINE cs == Retry!tv_sec(clock)  cn == Retry!tv_nsec(clock)
           ws == Retry!tv_sec(when)   wn == Retry!tv_nsec(when)
<1> HIDE DEF cs, cn, ws, wn
<1>1. /\ cs \in Int /\ cn \in 0 .. SECTONSEC - 1 /\ clock = cs * SECTONSEC + cn
      /\ ws \in Int /\ wn \in 0 .. SECTONSEC - 1 /\ when = ws * SECTONSEC + wn
  BY Split DEF RetryTypes, cs, cn, ws, wn
<1>2. cs > ws \/ (ws = cs /\ wn <= cn)
  <2>1. ~(ws > cs) /\ ~(ws = cs /\ wn > cn)
    BY DEF Retry!Later, cs, cn, ws, wn
  <2>2. cn \in Int /\ wn \in Int
    BY <1>1, TimeAssumption
  <2> QED  BY ONLY <1>1, <2>1, <2>2
<1>3. SECTONSEC \in Nat
  BY TimeAssumption
<1>4. CASE ws = cs /\ wn <= cn
  <2> DEFINE cS == cs * SECTONSEC
  <2>1. cS \in Int /\ clock = cS + cn /\ when = cS + wn /\ cn \in Int /\ wn \in Int
    BY <1>1, <1>3, <1>4
  <2> HIDE DEF cS
  <2> QED  BY ONLY <1>4, <2>1
<1>5. CASE cs > ws
  <2> DEFINE d == cs - ws - 1
  <2>1. d \in Nat /\ cs = ws + d + 1
    BY <1>1, <1>5
  <2> HIDE DEF d
  <2> DEFINE wS == ws * SECTONSEC  dS == d * SECTONSEC
  <2>2. wS \in Int /\ dS \in Nat
    BY <1>1, <1>3, <2>1
  <2>3. cs * SECTONSEC = wS + dS + SECTONSEC
    BY <1>1, <1>3, <2>1
  <2> HIDE DEF wS, dS
  <2>4. clock = wS + dS + SECTONSEC + cn /\ when = wS + wn
    BY <1>1, <2>3 DEF wS
  <2>5. cn >= 0 /\ wn < SECTONSEC /\ cn \in Int /\ wn \in Int
    BY <1>1, <1>3
  <2> QED  BY ONLY <1>3, <2>2, <2>4, <2>5
<1> QED  BY <1>2, <1>4, <1>5

LEMMA RetryInit == Retry!Init => RetryInv
BY TimeAssumption DEF Retry!Init, RetryInv, RetryTypes, Waited

LEMMA TimeoutKeeps == RetryInv /\ Retry!timeout => RetryInv'
<1> SUFFICES ASSUME RetryInv, Retry!timeout PROVE RetryInv'
  OBVIOUS
<1> USE DEF RetryInv
<1>1. topc = "timeout" /\ helper = "none" /\ calls = {} /\ UNCHANGED <<clock, when, wakeup, calls>>
  BY DEF Retry!timeout, Waited
<1>2. CASE UNCHANGED <<to_wait, helper>> /\ topc' = "call" /\ (failed' \/ ~Retry!Later(clock))
  <2>1. clock' >= when' \/ failed'
    BY <1>1, <1>2, TimeHasCome
  <2> QED  BY <1>1, <1>2, <2>1 DEF RetryTypes, Waited
<1>3. CASE /\ Retry!Later(clock) /\ to_wait' = Retry!Wait(clock)
           /\ \E err \in BOOLEAN : Retry!makethread(err) /\ failed' = err /\ topc' = IF err THEN "call" ELSE "unlock"
  <2>1. /\ to_wait' \in [sec : Nat, nsec : 0 .. SECTONSEC - 1]
        /\ clock + to_wait'.sec * SECTONSEC + to_wait'.nsec = when
    BY <1>3, WaitIsLeft
  <2>2. /\ topc' \in {"call", "unlock"} /\ helper' \in {"none", "start"}
        /\ topc' = "call" => failed' /\ helper' = "none"
    BY <1>1, <1>3 DEF Retry!makethread
  <2>3. RetryTypes'
    BY <1>1, <2>1, <2>2 DEF RetryTypes
  <2>4. when \in Int
    BY DEF RetryTypes
  <2>5. clock' + to_wait'.sec * SECTONSEC + to_wait'.nsec >= when'
    BY <1>1, <2>1, <2>4
  <2>6. Waited'
    BY <1>1, <2>2, <2>5 DEF Waited
  <2> QED  BY <2>3, <2>6
<1> QED  BY <1>2, <1>3 DEF Retry!timeout

LEMMA RetryStep == RetryInv /\ [Retry!Next]_retryVars => RetryInv'
<1> SUFFICES ASSUME RetryInv, [Retry!Next]_retryVars PROVE RetryInv'
  OBVIOUS
<1> USE DEF RetryInv
<1>0. SECTONSEC \in Nat /\ Delay \in Nat /\ Delay * SECTONSEC \in Nat
  BY TimeAssumption
<1>w. to_wait.sec \in Nat /\ to_wait.nsec \in Nat /\ to_wait.sec * SECTONSEC \in Nat
  BY <1>0 DEF RetryTypes
<1>1. CASE UNCHANGED retryVars
  BY <1>1 DEF retryVars, RetryTypes, Waited
<1>2. CASE Retry!Tick
  <2>1. clock' = clock + 1 /\ UNCHANGED <<topc, when, to_wait, helper, wakeup, calls, failed>>
    BY <1>2 DEF Retry!Tick
  <2>2. RetryTypes'
    BY <2>1 DEF RetryTypes
  <2> DEFINE left == to_wait.sec * SECTONSEC
  <2>4. left \in Nat /\ to_wait.nsec \in Nat /\ clock \in Nat /\ when \in Nat
    BY <1>w DEF RetryTypes
  <2> HIDE DEF left
  <2>5. clock + left + to_wait.nsec >= when => clock' + left + to_wait.nsec >= when
    BY <2>1, <2>4
  <2>6. clock >= when => clock' >= when
    BY <2>1, <2>4
  <2>3. Waited'
    BY <2>1, <2>5, <2>6 DEF Waited, left
  <2> QED  BY <2>2, <2>3
<1>3. CASE Retry!main
  <2>1. CASE Retry!timeout
    BY <2>1, TimeoutKeeps
  <2>2. ASSUME topc = "when", when' = clock + Delay * SECTONSEC, topc' = "timeout", UNCHANGED <<clock, to_wait, helper, wakeup, calls, failed>>
        PROVE  RetryInv'
    <3>1. when' \in Nat
      BY <1>0, <2>2 DEF RetryTypes
    <3> QED  BY <2>2, <3>1 DEF RetryTypes, Waited
  <2>3. ASSUME topc' \in {"when", "done", "retry", "unlock"}, topc \notin {"when", "timeout"}, topc = "lock" <=> topc' = "when",
               calls' = calls \/ (topc = "call" /\ topc' = "retry" /\ calls' = calls \cup {<<"main", clock>>}),
               UNCHANGED <<clock, when, to_wait, helper, wakeup, failed>>
        PROVE  RetryInv'
    BY <2>3 DEF RetryTypes, Waited
  <2> QED  BY <1>3, <2>1, <2>2, <2>3 DEF Retry!main, Retry!retry
<1>4. CASE Retry!timeout_helper
  <2>1. UNCHANGED <<clock, topc, when, to_wait, failed>>
    BY <1>4 DEF Retry!timeout_helper
  <2>2. CASE helper = "start" /\ helper' = "asleep" /\ wakeup' = clock + to_wait.sec * SECTONSEC + to_wait.nsec /\ UNCHANGED calls
    <3>1. wakeup' \in Nat /\ (clock + to_wait.sec * SECTONSEC + to_wait.nsec >= when => wakeup' >= when)
      BY <1>w, <2>2 DEF RetryTypes
    <3> QED  BY <2>1, <2>2, <3>1 DEF RetryTypes, Waited
  <2>3. CASE helper = "asleep" /\ clock >= wakeup /\ helper' = "call" /\ UNCHANGED <<calls, wakeup>>
    BY <2>1, <2>3 DEF RetryTypes, Waited
  <2>4. CASE Retry!retry("helper", "call", "end", helper, helper') /\ UNCHANGED wakeup
    <3>1. \/ helper = "call" /\ helper' = "retry" /\ calls' = calls \cup {<<"helper", clock>>}
          \/ helper = "retry" /\ helper' = "end" /\ UNCHANGED calls
      BY <2>4 DEF Retry!retry
    <3>2. RetryTypes' /\ topc \notin {"lock", "when", "timeout", "call"}
      BY <2>1, <2>4, <3>1 DEF RetryTypes, Waited
    <3>3. Waited'
      BY <2>1, <2>4, <3>1, <3>2 DEF Waited
    <3> QED  BY <3>2, <3>3
  <2> QED  BY <1>4, <2>2, <2>3, <2>4 DEF Retry!timeout_helper
<1> QED  BY <1>1, <1>2, <1>3, <1>4 DEF Retry!Next

LEMMA RetryHolds == RetryInv => Retry!NotEarly
BY DEF RetryInv, RetryTypes, Waited, Retry!NotEarly

-----------------------------------------------------------------------------
(* The programs together.                                                  *)

MCInv == JobInv /\ WorkInv /\ PollInv /\ EnvInv /\ CountInv /\ SortInv /\ RetryInv

LEMMA MCInitInv == MCInit => MCInv
BY JobInit, WorkInit, PollInit, EnvInit, CountInit, SortInit, RetryInit DEF MCInit, MCInv

LEMMA MCStepInv == MCInv /\ [MCNext]_All => MCInv'
BY Steps, ThreadsFinite, JobStep, WorkStep, PollStep, EnvStep, CountStep, SortStep, RetryStep DEF MCInv

\* In every behaviour of the programs on threads each one's invariant holds.
THEOREM ThreadsInvariance == MCSpec => []MCInv
BY MCInitInv, MCStepInv, PTL DEF MCSpec

\* Jobs and messages are handed over intact: rwlock.c's list is the queue both ways and
\* job_find misses no job, condvar.c hands out no message twice, pollmsg.c and pollmsg2.c
\* print each message once and in order.
THEOREM HandedOverIntact == MCSpec => []QueuesIntact
<1>1. MCInv => QueuesIntact
  BY JobHolds, WorkHolds, PollHolds DEF MCInv, QueuesIntact
<1> QED  BY <1>1, ThreadsInvariance, PTL

\* What a thread relies on is not changed under it: the value getenv gave it, the key it
\* uses, the mutex foo_alloc holds.
THEOREM NothingChangesUnderAThread == MCSpec => []HeldIsOwn
<1>1. MCInv => HeldIsOwn
  BY EnvHolds, CountHolds DEF MCInv, HeldIsOwn
<1> QED  BY <1>1, ThreadsInvariance, PTL

\* Nothing is done too early: barrier.c merges sorted parts into the sorted numbers, and
\* timeout() calls its function once at most, and before the time only when malloc or
\* makethread has failed.
THEOREM NothingIsEarly == MCSpec => []NotTooEarly
<1>1. MCInv => NotTooEarly
  BY SortHolds, RetryHolds DEF MCInv, NotTooEarly
<1> QED  BY <1>1, ThreadsInvariance, PTL

\* The four calls of mutex3.c implement the table of references that those of mutex2.c
\* implement: what is found has a reference, what is freed nobody can find or holds.
THEOREM CountRefines == MCSpec => CountImplements
<1>1. MCInit => Count!Refs!Init
  BY CountInitImplements DEF MCInit
<1>2. MCInv /\ [MCNext]_All => [Count!Refs!Next]_(Count!Refs!vars)
  BY Steps, ThreadsFinite, CountStepImplements DEF MCInv
<1> QED  BY <1>1, <1>2, ThreadsInvariance, PTL DEF MCSpec, CountImplements, Count!Implements, Count!Refs!Spec
=============================================================================
