-------------------------- MODULE PrintSpoolProofs --------------------------
(***************************************************************************)
(* For any number of clients, restarts, SIGHUPs, failed attempts and       *)
(* failing calls: jobs are printed in the order they were queued; and as   *)
(* long as no number in use was handed out, a number stands for one job    *)
(* and one file, and a job a client was told of is neither lost nor        *)
(* forgotten, but for a failing call on its own files.  In a first life    *)
(* that happens only after a whole turn of the numbers.                    *)
(***************************************************************************)
EXTENDS PrintSpool, FiniteSetTheorems, SequenceTheorems, TLAPS

\* Where a client thread has a number,
NumberedPcs == {"creat", "store", "creatreq", "writereq", "respond", "add", "signal", "done"}
\* and where the job of that number is its own business: not queued yet.
LivePcs == {"creat", "store", "creatreq", "writereq", "respond", "add"}
Live(c) == cpc[c] \in LivePcs

\* A thread has the number get_newjobno gave it, and none before.
Numbered == \A c \in Clients :
  /\ cpc[c] \in NumberedPcs => cid[c] \in Ids
  /\ cpc[c] \in {"new", "number"} => cid[c] = NoId

\* The printer thread has a job in hand except while it waits for one.
Working == ppc \notin {"get", "waiting"}
JobHeld == IF Working THEN job \in Jobs ELSE job = NoJob

\* A file is somebody's, and its number somebody's number.
Owned == \A i \in Ids :
  /\ dataf[i].cl = None => dataf[i] = NoFile
  /\ reqf[i].cl = None => reqf[i] = NoReq

\* The line is in the order of the stamps given out so far, the job in hand first.
Entries(q) == {q[n] : n \in DOMAIN q}
Ordered(q) == \A m, n \in DOMAIN q : m < n => q[m].at < q[n].at
InOrder ==
  /\ Ordered(queue)
  /\ \A x \in Entries(queue) : x.at <= stamp /\ (Working => job.at < x.at)
  /\ job.at <= stamp

Ordering == TypeOK /\ Numbered /\ JobHeld /\ InOrder

\* While the line is rebuilt there are no client threads, and what is left to do
\* is not yet in line; otherwise nothing is left to do.
Settled == {"new", "refused", "done", "cut"}
Building ==
  /\ mpc # "building" => todo = {}
  /\ mpc # "serving" => \A c \in Clients : cpc[c] \in Settled
  /\ mpc = "down" => queue = << >> /\ ~Working
  /\ stops = 0 => mpc = "serving"
  /\ \A i \in todo : reqf[i].cl # None /\ i # job.id /\ \A x \in Entries(queue) : x.id # i

\* What holds whatever numbers are handed out.
LineInv == Ordering /\ Building

-----------------------------------------------------------------------------
(* Numbers that are not in use.                                             *)

\* get_newjobno hands out a number that nobody uses.
FreshNumber == \A c \in Clients : get_newjobno(c) => ~InUse(nextjob)

\* What a thread has in the spool under its number, by how far it is.
OwnFiles == \A c \in Clients : Live(c) =>
  /\ cpc[c] = "creat" => dataf[cid[c]] = NoFile
  /\ cpc[c] # "creat" => dataf[cid[c]].cl = c
  /\ cpc[c] \in {"creat", "store", "creatreq"} => reqf[cid[c]] = NoReq
  /\ cpc[c] = "writereq" => reqf[cid[c]] = [cl |-> c, full |-> FALSE]
  /\ cpc[c] \in {"respond", "add"} => reqf[cid[c]] = [cl |-> c, full |-> TRUE]

\* Its number is nobody else's.
OwnNumber == \A c \in Clients : Live(c) =>
  /\ cid[c] # job.id /\ \A x \in Entries(queue) : x.id # cid[c]
  /\ \A d \in Clients : Live(d) /\ cid[d] = cid[c] => d = c

\* A complete request has its data, unless that was printed.
HasData(i) == dataf[i].cl = reqf[i].cl \/ (dataf[i] = NoFile /\ printed[reqf[i].cl] # {})
Complete == \A i \in Ids : reqf[i].full => reqf[i].cl # None /\ HasData(i)

\* What is in line, and in hand, is the job of a complete request.
Requested ==
  /\ \A x \in Entries(queue) : reqf[x.id] = [cl |-> x.cl, full |-> TRUE]
  /\ Working => reqf[job.id] = [cl |-> job.cl, full |-> TRUE]
  /\ ppc \in {"connect", "requeue", "unlinkdata"} => dataf[job.id].cl = job.cl
  /\ ppc = "unlinkreq" => dataf[job.id] = NoFile
  /\ ppc \in {"unlinkdata", "unlinkreq"} => printed[job.cl] # {}

\* No job is in two places.
Distinct(q) == \A m, n \in DOMAIN q : q[m].id = q[n].id => m = n
OnePlace ==
  /\ Distinct(queue)
  /\ \A x \in Entries(queue) : x.id # job.id

\* A complete job is under way or was given up (NeverForgotten), and without a
\* restart every file is of such a job.
UnderWay(i) ==
  \/ (\E x \in Entries(queue) : x.id = i) \/ i = job.id
  \/ \E c \in Clients : Live(c) /\ cid[c] = i
Remembered == mpc # "down" => \A i \in Ids : reqf[i].full /\ dataf[i] # NoFile =>
  UnderWay(i) \/ i \in todo \/ reqf[i].cl \in canceled
Left(i) == {dataf[i].cl, reqf[i].cl} \subseteq {None} \cup canceled
NoOrphans == stops = 0 =>
  /\ \A i \in Ids : UnderWay(i) \/ Left(i)
  /\ \A x \in Entries(queue) : dataf[x.id] # NoFile
  /\ ppc \in {"update", "config", "open"} => dataf[job.id] # NoFile

\* A client is told of its job once it is complete.
Told == \A c \in acked : cpc[c] \in {"add", "signal", "done", "cut"}

SpoolInv ==
  /\ Owned /\ OwnFiles /\ OwnNumber /\ Complete /\ Requested /\ OnePlace
  /\ Remembered /\ NoOrphans /\ Told /\ PrintsOwnFile /\ AckedIsSafe

\* In the first life, what is in use was handed out.
HandedOut ==
  /\ stops = 0 => \A i \in Ids : dataf[i] # NoFile \/ reqf[i] # NoReq => i \in handed
  /\ stops = 0 => \A c \in Clients : Live(c) => cid[c] \in handed
  /\ mpc = "down" => handed = {}

\* Numbers are handed out one after the other, from any start s, until they have
\* come round: what was handed out lies between the start and the next number.
Turn(s) ==
  \/ s >= 1 /\ nextjob >= s /\ handed = s .. nextjob - 1
  \/ s <= 0 /\ nextjob = s /\ handed = {}
  \/ s <= 0 /\ nextjob >= 1 /\ handed = {s} \cup (1 .. nextjob - 1)
  \/ 1 <= nextjob /\ nextjob < s /\ handed = (s .. MaxId) \cup (1 .. nextjob - 1)
InSequence == CameRound \/ \E s \in Ids : Turn(s)

\* The daemon while no number in use was handed out.
NumberInv == LineInv /\ HandedOut /\ InSequence /\ (~reused => SpoolInv)

-----------------------------------------------------------------------------
(* The line of jobs.                                                        *)

\* add_job puts a job behind the line.
LEMMA Appended ==
  ASSUME NEW q \in Seq(Jobs), NEW e \in Jobs
  PROVE  /\ Append(q, e) \in Seq(Jobs)
         /\ Entries(Append(q, e)) = Entries(q) \cup {e}
         /\ Ordered(q) /\ (\A x \in Entries(q) : x.at < e.at) => Ordered(Append(q, e))
         /\ Distinct(q) /\ (\A x \in Entries(q) : x.id # e.id) => Distinct(Append(q, e))
<1> DEFINE r == Append(q, e)
<1>1. /\ r \in Seq(Jobs)
      /\ DOMAIN q = 1 .. Len(q) /\ Len(q) \in Nat /\ DOMAIN r = 1 .. Len(q) + 1
      /\ \A n \in 1 .. Len(q) : r[n] = q[n]
      /\ r[Len(q) + 1] = e
  BY AppendProperties
<1> HIDE DEF r
<1>2. Entries(r) = Entries(q) \cup {e}
  <2>1. \A n \in DOMAIN r : r[n] \in Entries(q) \cup {e}
    BY <1>1 DEF Entries
  <2>2. \A n \in DOMAIN q : q[n] \in Entries(r)
    BY <1>1 DEF Entries
  <2>3. e \in Entries(r)
    BY <1>1 DEF Entries
  <2> QED  BY <2>1, <2>2, <2>3 DEF Entries
<1>3. ASSUME Ordered(q), \A x \in Entries(q) : x.at < e.at PROVE Ordered(r)
  BY <1>1, <1>3 DEF Ordered, Entries
<1>4. ASSUME Distinct(q), \A x \in Entries(q) : x.id # e.id PROVE Distinct(r)
  BY <1>1, <1>4 DEF Distinct, Entries
<1> QED  BY <1>1, <1>2, <1>3, <1>4 DEF r

\* The printer thread takes one from its head.
LEMMA Headed ==
  ASSUME NEW q \in Seq(Jobs), q # << >>
  PROVE  /\ Tail(q) \in Seq(Jobs) /\ Head(q) \in Jobs
         /\ Entries(q) = Entries(Tail(q)) \cup {Head(q)}
         /\ Ordered(q) => Ordered(Tail(q)) /\ \A x \in Entries(Tail(q)) : Head(q).at < x.at
         /\ Distinct(q) => Distinct(Tail(q)) /\ \A x \in Entries(Tail(q)) : x.id # Head(q).id
<1> DEFINE r == Tail(q)
<1>1. /\ r \in Seq(Jobs) /\ Head(q) \in Jobs /\ Head(q) = q[1]
      /\ DOMAIN q = 1 .. Len(q) /\ Len(q) \in Nat \ {0} /\ DOMAIN r = 1 .. Len(q) - 1
      /\ \A n \in 1 .. Len(q) - 1 : r[n] = q[n + 1]
  BY HeadTailProperties
<1> HIDE DEF r
<1>11. \A n \in DOMAIN r : n \in Nat /\ 1 < n + 1 /\ n + 1 \in DOMAIN q /\ 1 \in DOMAIN q /\ r[n] = q[n + 1]
  BY <1>1
<1>2. Entries(q) = Entries(r) \cup {Head(q)}
  <2>1. \A n \in DOMAIN r : r[n] \in Entries(q)
    BY <1>11 DEF Entries
  <2>2. ASSUME NEW n \in DOMAIN q PROVE q[n] \in Entries(r) \cup {Head(q)}
    <3>1. CASE n = 1
      BY <1>1, <3>1
    <3>2. CASE n # 1
      <4>1. n - 1 \in DOMAIN r /\ r[n - 1] = q[n]
        BY <1>1, <3>2
      <4> QED  BY <4>1 DEF Entries
    <3> QED  BY <3>1, <3>2
  <2>3. Head(q) \in Entries(q)
    BY <1>1 DEF Entries
  <2> QED  BY <2>1, <2>2, <2>3 DEF Entries
<1>3. ASSUME Ordered(q) PROVE Ordered(r) /\ \A x \in Entries(r) : Head(q).at < x.at
  <2>1. \A n \in DOMAIN r : q[1].at < q[n + 1].at
    BY <1>3, <1>11 DEF Ordered
  <2>2. ASSUME NEW m \in DOMAIN r, NEW n \in DOMAIN r, m < n PROVE r[m].at < r[n].at
    <3>1. m + 1 < n + 1 /\ m + 1 \in DOMAIN q /\ n + 1 \in DOMAIN q
      BY <1>11, <2>2
    <3> QED  BY <1>3, <1>11, <3>1 DEF Ordered
  <2> QED  BY <1>1, <1>11, <2>1, <2>2 DEF Ordered, Entries
<1>4. ASSUME Distinct(q) PROVE Distinct(r) /\ \A x \in Entries(r) : x.id # Head(q).id
  <2>1. ASSUME NEW n \in DOMAIN r PROVE q[n + 1].id # q[1].id
    <3>1. n + 1 # 1 /\ n + 1 \in DOMAIN q /\ 1 \in DOMAIN q
      BY <1>11
    <3> QED  BY <1>4, <3>1 DEF Distinct
  <2>2. ASSUME NEW m \in DOMAIN r, NEW n \in DOMAIN r, r[m].id = r[n].id PROVE m = n
    <3>1. m + 1 = n + 1
      BY <1>4, <1>11, <2>2 DEF Distinct
    <3> QED  BY <1>11, <3>1
  <2> QED  BY <1>1, <1>11, <2>1, <2>2 DEF Distinct, Entries
<1> QED  BY <1>1, <1>2, <1>3, <1>4 DEF r

\* replace_job puts it back there.
LEMMA Replaced ==
  ASSUME NEW q \in Seq(Jobs), NEW e \in Jobs
  PROVE  /\ <<e>> \o q \in Seq(Jobs)
         /\ Entries(<<e>> \o q) = Entries(q) \cup {e}
         /\ Ordered(q) /\ (\A x \in Entries(q) : e.at < x.at) => Ordered(<<e>> \o q)
         /\ Distinct(q) /\ (\A x \in Entries(q) : x.id # e.id) => Distinct(<<e>> \o q)
<1> DEFINE r == <<e>> \o q
<1>1. /\ r \in Seq(Jobs)
      /\ DOMAIN q = 1 .. Len(q) /\ Len(q) \in Nat /\ DOMAIN r = 1 .. Len(q) + 1
      /\ r[1] = e
      /\ \A n \in 1 .. Len(q) : r[n + 1] = q[n]
  BY ConcatProperties
<1> HIDE DEF r
<1>2. \A n \in DOMAIN r : n = 1 \/ (n - 1 \in DOMAIN q /\ r[n] = q[n - 1])
  BY <1>1
<1>3. Entries(r) = Entries(q) \cup {e}
  <2>1. \A n \in DOMAIN r : r[n] \in Entries(q) \cup {e}
    BY <1>1, <1>2 DEF Entries
  <2>2. ASSUME NEW n \in DOMAIN q PROVE q[n] \in Entries(r)
    <3>1. n + 1 \in DOMAIN r /\ r[n + 1] = q[n]
      BY <1>1
    <3> QED  BY <3>1 DEF Entries
  <2>3. e \in Entries(r)
    BY <1>1 DEF Entries
  <2> QED  BY <2>1, <2>2, <2>3 DEF Entries
<1>4. ASSUME Ordered(q), \A x \in Entries(q) : e.at < x.at PROVE Ordered(r)
  <2> SUFFICES ASSUME NEW m \in DOMAIN r, NEW n \in DOMAIN r, m < n PROVE r[m].at < r[n].at
    BY DEF Ordered
  <2>1. n - 1 \in DOMAIN q /\ r[n] = q[n - 1]
    BY <1>1, <1>2
  <2>2. CASE m = 1
    BY <1>1, <1>4, <2>1, <2>2 DEF Entries
  <2>3. CASE m # 1
    <3>1. m - 1 \in DOMAIN q /\ r[m] = q[m - 1] /\ m - 1 < n - 1
      BY <1>1, <1>2, <2>3
    <3> QED  BY <1>4, <2>1, <3>1 DEF Ordered
  <2> QED  BY <2>2, <2>3
<1>5. ASSUME Distinct(q), \A x \in Entries(q) : x.id # e.id PROVE Distinct(r)
  <2> SUFFICES ASSUME NEW m \in DOMAIN r, NEW n \in DOMAIN r, r[m].id = r[n].id PROVE m = n
    BY DEF Distinct
  <2>1. m = 1 => n = 1
    BY <1>1, <1>2, <1>5 DEF Entries
  <2>2. n = 1 => m = 1
    BY <1>1, <1>2, <1>5 DEF Entries
  <2>3. CASE m # 1 /\ n # 1
    <3>1. m - 1 \in DOMAIN q /\ r[m] = q[m - 1] /\ n - 1 \in DOMAIN q /\ r[n] = q[n - 1]
      BY <1>2, <2>3
    <3>2. m - 1 = n - 1
      BY <1>5, <3>1 DEF Distinct
    <3> QED  BY <1>1, <3>2
  <2> QED  BY <2>1, <2>2, <2>3
<1> QED  BY <1>1, <1>3, <1>4, <1>5 DEF r
-----------------------------------------------------------------------------
(* The type of the state and the order of the line, step by step.           *)

\* The text of a number is one of digits,
LEMMA Text ==
  ASSUME NEW i, NEW t \in sprintf(i)
  PROVE  t \in Seq(0 .. Base)
<1>1. ASSUME NEW n PROVE Digits(n) \in Nat
  <2> DEFINE S == {k \in 1 .. MaxId : Base ^ k <= n}
  <2>1. IsFiniteSet(1 .. MaxId) /\ S \subseteq 1 .. MaxId
    BY BoundsTyped, FS_Interval
  <2>2. Cardinality(S) \in Nat
    <3> HIDE DEF S
    <3> QED  BY <2>1, FS_Subset, FS_CardinalityType
  <2> QED  BY <2>2 DEF Digits
<1>2. PICK n \in Nat : t \in [1 .. n -> 0 .. Base]
  BY <1>1 DEF sprintf
<1> QED  BY <1>2, SeqDef

\* and so is what a write of it leaves in the file.
LEMMA Overwritten ==
  ASSUME NEW t \in Seq(0 .. Base), NEW old \in Seq(0 .. Base)
  PROVE  Overwrite(t, old) \in Seq(0 .. Base)
<1>1. Len(t) \in Nat /\ Len(old) \in Nat /\ \A n \in 1 .. Len(old) : old[n] \in 0 .. Base
  BY LenProperties, ElementOfSeq
<1>2. \A n \in Len(t) + 1 .. Len(old) : old[n] \in 0 .. Base
  BY <1>1
<1>3. SubSeq(old, Len(t) + 1, Len(old)) \in Seq(0 .. Base)
  BY <1>1, <1>2, SubSeqProperties
<1> QED  BY <1>3, ConcatProperties DEF Overwrite

\* The daemon starts with an empty line and nothing in hand.
LEMMA InitLine == Init => LineInv
<1> SUFFICES ASSUME Init PROVE LineInv
  OBVIOUS
<1>1. queue \in Seq(Jobs) /\ Entries(queue) = {} /\ Ordered(queue)
  BY DEF Init, Entries, Ordered
<1>2. 1 \in Ids /\ MaxStops \in Nat /\ Hups \in Nat /\ MaxDefers \in Nat
  BY BoundsTyped DEF Ids
<1>3. TypeOK
  <2>1. NoFile \in [cl : Clients \cup {None}, whole : BOOLEAN] /\ NoReq \in [cl : Clients \cup {None}, full : BOOLEAN]
    BY DEF NoFile, NoReq
  <2>2. dataf \in [Ids -> [cl : Clients \cup {None}, whole : BOOLEAN]] /\ reqf \in [Ids -> [cl : Clients \cup {None}, full : BOOLEAN]]
    BY <2>1 DEF Init
  <2>3. 0 \in 0 .. MaxStops /\ 0 \in 0 .. Hups /\ 0 \in 0 .. MaxDefers /\ 0 \in Nat
    BY <1>2
  <2>4. jobno \in Seq(0 .. Base)
    <3>1. CASE jobno = << >>
      BY <3>1
    <3>2. CASE jobno # << >>
      <4>1. PICK m \in Written, n \in Written :
              jobno \in {Overwrite(t, old) : t \in sprintf(m), old \in sprintf(n)}
        BY <3>2 DEF Init
      <4>2. PICK t \in sprintf(m) : \E old \in sprintf(n) : jobno = Overwrite(t, old)
        BY <4>1
      <4> QED  BY <4>2, Text, Overwritten
    <3> QED  BY <3>1, <3>2
  <2>5. nextjob \in Ids
    BY <1>2 DEF Init, init_request
  <2> QED  BY <1>1, <1>2, <2>2, <2>3, <2>4, <2>5 DEF Init, TypeOK
<1>4. Numbered /\ JobHeld /\ InOrder
  BY <1>1 DEF Init, Numbered, JobHeld, InOrder, Working, NumberedPcs, NoJob
<1>5. Building
  BY <1>1 DEF Init, Building, Settled, Working
<1> QED  BY <1>3, <1>4, <1>5 DEF LineInv, Ordering

\* A step of a client thread.
LEMMA ClientOrder ==
  ASSUME Ordering, NEW c \in Clients, Accept(c) \/ HeaderTimeout(c) \/ ClientStep(c)
  PROVE  Ordering'
<1> USE DEF Ordering, Numbered, JobHeld, InOrder, Working, NumberedPcs, CGoto, daemon, past, spool, client, thread, bounds
<1>0. 1 \in Ids /\ MaxId \in Nat /\ MaxId \in Ids /\ Ids = -(MaxId + 1) .. MaxId /\ None \notin Clients
  BY BoundsTyped DEF Ids
<1>1. CASE Accept(c) \/ HeaderTimeout(c) \/ Respond(c)
  <2>1. CASE Accept(c)
    BY <2>1 DEF Accept, TypeOK
  <2>2. CASE HeaderTimeout(c)
    BY <2>2 DEF HeaderTimeout, TypeOK
  <2>3. CASE Respond(c)
    BY <2>3 DEF Respond, TypeOK
  <2> QED  BY <1>1, <2>1, <2>2, <2>3
<1>2. CASE get_newjobno(c)
  <2>1. nextjob' \in Ids /\ cid' = [cid EXCEPT ![c] = nextjob] /\ nextjob \in Ids
    BY <1>0, <1>2 DEF get_newjobno, TypeOK, Bumped
  <2>4. handed' \subseteq Ids
    BY <1>2, <2>1 DEF get_newjobno, NoteNumber, TypeOK
  <2>5. reused' \in BOOLEAN
    BY <1>2 DEF get_newjobno, NoteNumber
  <2>2. TypeOK'
    BY <1>2, <2>1, <2>4, <2>5 DEF get_newjobno, TypeOK
  <2>3. Numbered' /\ JobHeld' /\ InOrder'
    BY <1>2, <2>1 DEF get_newjobno, TypeOK
  <2> QED  BY <2>2, <2>3
<1>3. CASE CreatData(c)
  BY <1>3 DEF CreatData, TypeOK
<1>4. CASE StoreData(c)
  <2>1. PICK whole \in BOOLEAN : dataf' = [dataf EXCEPT ![cid[c]].whole = whole]
    BY <1>4 DEF StoreData
  <2>2. dataf' \in [Ids -> [cl : Clients \cup {None}, whole : BOOLEAN]]
    <3>1. cid[c] \in Ids /\ dataf \in [Ids -> [cl : Clients \cup {None}, whole : BOOLEAN]]
      BY <1>4 DEF StoreData, TypeOK
    <3>2. [dataf[cid[c]] EXCEPT !.whole = whole] \in [cl : Clients \cup {None}, whole : BOOLEAN]
      BY <3>1
    <3> QED  BY <2>1, <3>1, <3>2
  <2> QED  BY <1>4, <2>2 DEF StoreData, TypeOK
<1>5. CASE CreatReq(c)
  <2>1. reqf' \in [Ids -> [cl : Clients \cup {None}, full : BOOLEAN]]
    BY <1>5 DEF CreatReq, TypeOK
  <2> QED  BY <1>5, <2>1 DEF CreatReq, TypeOK
<1>9. CASE WriteReq(c)
  <2>1. reqf' \in [Ids -> [cl : Clients \cup {None}, full : BOOLEAN]]
    <3>1. cid[c] \in Ids /\ reqf \in [Ids -> [cl : Clients \cup {None}, full : BOOLEAN]]
      BY <1>9 DEF WriteReq, TypeOK
    <3>2. [reqf[cid[c]] EXCEPT !.full = TRUE] \in [cl : Clients \cup {None}, full : BOOLEAN]
      BY <3>1
    <3> QED  BY <1>9, <3>1, <3>2 DEF WriteReq
  <2> QED  BY <1>9, <2>1 DEF WriteReq, TypeOK
<1>6. CASE CannotStore(c)
  <2>1. /\ dataf' \in [Ids -> [cl : Clients \cup {None}, whole : BOOLEAN]]
        /\ reqf' \in [Ids -> [cl : Clients \cup {None}, full : BOOLEAN]]
    BY <1>6 DEF CannotStore, RemoveFiles, TypeOK, NoFile, NoReq
  <2> QED  BY <1>6, <2>1 DEF CannotStore, TypeOK
<1>7. CASE AddJob(c)
  <2> DEFINE e == [id |-> cid[c], cl |-> c, at |-> stamp + 1]
  <2>1. e \in Jobs /\ queue \in Seq(Jobs) /\ stamp \in Nat /\ stamp' = stamp + 1 /\ queue' = Append(queue, e)
    BY <1>7 DEF AddJob, Enqueue, TypeOK, Jobs
  <2>2. \A x \in Entries(queue) : x \in Jobs /\ x.at \in Nat
    <3>1. \A n \in DOMAIN queue : queue[n] \in Jobs
      BY <2>1, LenProperties
    <3> QED  BY <3>1 DEF Entries, Jobs
  <2>3. /\ queue' \in Seq(Jobs) /\ Entries(queue') = Entries(queue) \cup {e}
        /\ Ordered(queue')
    <3>1. \A x \in Entries(queue) : x.at < e.at
      BY <2>1, <2>2
    <3> HIDE DEF e
    <3> QED  BY <2>1, <3>1, Appended
  <2>4. TypeOK'
    BY <1>7, <2>1, <2>3 DEF AddJob, TypeOK
  <2>5. Numbered' /\ JobHeld'
    BY <1>7 DEF AddJob
  <2>6. job' = job /\ ppc' = ppc /\ job.at \in Nat
    BY <1>7 DEF AddJob, TypeOK, Jobs, NoJob
  <2>7. InOrder'
    BY <2>1, <2>2, <2>3, <2>6
  <2> QED  BY <2>4, <2>5, <2>7
<1>8. CASE Signal(c)
  BY <1>8 DEF Signal, Signalled, TypeOK
<1> QED  BY <1>1, <1>2, <1>3, <1>4, <1>5, <1>6, <1>7, <1>8, <1>9 DEF ClientStep

\* A step of the printer thread.
LEMMA PrinterOrder ==
  ASSUME Ordering, PrinterStep
  PROVE  Ordering'
<1> USE DEF Ordering, Numbered, JobHeld, InOrder, Working, NumberedPcs, PGoto, daemon, past, spool, client, thread, bounds
<1>1. CASE GetJob
  <2>1. queue \in Seq(Jobs) /\ queue # << >> /\ job' = Head(queue) /\ queue' = Tail(queue) /\ ppc' = "update"
    BY <1>1 DEF GetJob, TypeOK
  <2>2. /\ queue' \in Seq(Jobs) /\ job' \in Jobs /\ Entries(queue) = Entries(queue') \cup {job'}
        /\ Ordered(queue') /\ \A x \in Entries(queue') : job'.at < x.at
    BY <2>1, Headed
  <2>3. TypeOK'
    BY <1>1, <2>1, <2>2 DEF GetJob, TypeOK
  <2>4. Numbered' /\ JobHeld'
    BY <1>1, <2>1, <2>2 DEF GetJob
  <2>5. InOrder'
    BY <1>1, <2>1, <2>2 DEF GetJob
  <2> QED  BY <2>3, <2>4, <2>5
<1>2. CASE WaitForJob
  BY <1>2 DEF WaitForJob, TypeOK
<1>3. CASE update_jobno
  <2>1. jobno' \in Seq(0 .. Base)
    BY <1>3, Text, Overwritten DEF update_jobno, TypeOK
  <2> QED  BY <1>3, <2>1 DEF update_jobno, TypeOK
<1>4. CASE CheckConfig
  BY <1>4 DEF CheckConfig, TypeOK
<1>5. CASE OpenData
  BY <1>5 DEF OpenData, TypeOK
<1>10. CASE CancelJob
  <2>1. NoJob.at = 0 /\ stamp \in Nat
    BY DEF NoJob, TypeOK
  <2>2. job.cl \in Clients /\ canceled' \subseteq Clients
    BY <1>10 DEF CancelJob, TypeOK, Jobs
  <2>3. TypeOK'
    BY <1>10, <2>2 DEF CancelJob, TypeOK
  <2>4. Numbered' /\ JobHeld' /\ InOrder'
    BY <1>10, <2>1 DEF CancelJob
  <2> QED  BY <2>3, <2>4
<1>6. CASE CannotPrint \/ PrintJob
  <2>1. job \in Jobs /\ job.id \in Ids /\ job.cl \in Clients
    BY <1>6 DEF CannotPrint, PrintJob, Jobs
  <2>2. printed' \in [Clients -> SUBSET [cl : Clients \cup {None}, whole : BOOLEAN]]
    <3>1. printed \in [Clients -> SUBSET [cl : Clients \cup {None}, whole : BOOLEAN]]
          /\ dataf[job.id] \in [cl : Clients \cup {None}, whole : BOOLEAN]
      BY <2>1 DEF TypeOK
    <3>2. printed' = printed \/ printed' = [printed EXCEPT ![job.cl] = @ \cup {dataf[job.id]}]
      BY <1>6 DEF CannotPrint, PrintJob
    <3> QED  BY <2>1, <3>1, <3>2
  <2>3. CASE CannotPrint
    BY <2>2, <2>3, BoundsTyped DEF CannotPrint, TypeOK
  <2>4. CASE PrintJob
    BY <2>2, <2>4 DEF PrintJob, TypeOK
  <2> QED  BY <1>6, <2>3, <2>4
<1>7. CASE UnlinkData
  BY <1>7 DEF UnlinkData, TypeOK, NoFile
<1>8. CASE UnlinkReq
  <2>1. reqf' \in [Ids -> [cl : Clients \cup {None}, full : BOOLEAN]] /\ job' = NoJob
    BY <1>8 DEF UnlinkReq, TypeOK, NoReq
  <2>2. NoJob.at = 0 /\ stamp \in Nat
    BY DEF NoJob, TypeOK
  <2> QED  BY <1>8, <2>1, <2>2 DEF UnlinkReq, TypeOK
<1>9. CASE replace_job
  <2>1. queue \in Seq(Jobs) /\ job \in Jobs /\ queue' = <<job>> \o queue /\ job' = NoJob /\ ppc' = "get"
        /\ \A x \in Entries(queue) : job.at < x.at
    BY <1>9 DEF replace_job, TypeOK
  <2>2. queue' \in Seq(Jobs) /\ Entries(queue') = Entries(queue) \cup {job} /\ Ordered(queue')
    BY <2>1, Replaced
  <2>3. TypeOK'
    BY <1>9, <2>1, <2>2 DEF replace_job, TypeOK
  <2>4. Numbered' /\ JobHeld' /\ InOrder'
    <3>1. NoJob.at = 0 /\ stamp' = stamp /\ stamp \in Nat /\ job.at <= stamp /\ UNCHANGED <<cpc, cid>>
      BY <1>9 DEF replace_job, TypeOK, NoJob
    <3> QED  BY <2>1, <2>2, <3>1
  <2> QED  BY <2>3, <2>4
<1> QED  BY <1>1, <1>2, <1>3, <1>4, <1>5, <1>6, <1>7, <1>8, <1>9, <1>10 DEF PrinterStep

\* A step of the main thread or of the signal thread, or the end of the daemon.
LEMMA MainOrder ==
  ASSUME LineInv, MainStep \/ Hup \/ Stop
  PROVE  Ordering'
<1> USE DEF Ordering, Numbered, JobHeld, InOrder, Working, NumberedPcs, daemon, past, spool, client, thread, bounds
<1>0. Ordering /\ Building
  BY DEF LineInv
<1>1. CASE Start
  <2>1. nextjob' \in Ids
    BY <1>0, <1>1, BoundsTyped DEF Start, init_request, Ids
  <2>2. todo' \subseteq Ids /\ canceled' \subseteq Clients
    <3>1. \A i \in Requests : i \in Ids /\ reqf[i].cl \in Clients
      BY <1>0 DEF Requests, TypeOK
    <3> QED  BY <1>1, <3>1 DEF Start
  <2> QED  BY <1>0, <1>1, <2>1, <2>2 DEF Start, TypeOK
<1>2. CASE BuildDone
  BY <1>0, <1>2 DEF BuildDone, TypeOK
<1>3. ASSUME NEW i \in Ids, BuildEntry(i) PROVE Ordering'
  <2>1. i \in todo /\ todo' = todo \ {i} /\ UNCHANGED <<nextjob, jobno, mpc, reread, past, client, job, bounds, acked, printed>>
    BY <1>3 DEF BuildEntry, TakeEntry
  <2> DEFINE e == [id |-> i, cl |-> reqf[i].cl, at |-> stamp + 1]
  <2>2. reqf[i].cl \in Clients
    BY <1>0, <2>1 DEF Building, TypeOK
  <2>3. /\ e \in Jobs /\ queue \in Seq(Jobs) /\ stamp \in Nat /\ stamp' = stamp + 1 /\ queue' = Append(queue, e)
        /\ ppc' = Signalled /\ UNCHANGED spool
    BY <1>0, <1>3, <2>2 DEF BuildEntry, Enqueue, TypeOK, Jobs
  <2>4. \A x \in Entries(queue) : x \in Jobs /\ x.at \in Nat
    <3>1. \A n \in DOMAIN queue : queue[n] \in Jobs
      BY <2>3, LenProperties
    <3> QED  BY <3>1 DEF Entries, Jobs
  <2>5. queue' \in Seq(Jobs) /\ Entries(queue') = Entries(queue) \cup {e} /\ Ordered(queue')
    <3>1. \A x \in Entries(queue) : x.at < e.at
      BY <1>0, <2>3, <2>4
    <3> HIDE DEF e
    <3> QED  BY <1>0, <2>3, <3>1, Appended
  <2>6. job.at \in Nat
    BY <1>0 DEF TypeOK, Jobs, NoJob
  <2>7. TypeOK'
    BY <1>0, <2>1, <2>3, <2>5 DEF TypeOK, Signalled
  <2>8. Numbered' /\ JobHeld'
    BY <1>0, <2>1, <2>3 DEF Signalled
  <2>9. InOrder'
    BY <1>0, <2>1, <2>3, <2>4, <2>5, <2>6 DEF Signalled
  <2> QED  BY <2>7, <2>8, <2>9
<1>6. ASSUME NEW i \in Ids, BuildRemove(i) PROVE Ordering'
  <2>1. reqf[i].cl \in Clients
    BY <1>0, <1>6 DEF BuildRemove, TakeEntry, Building, TypeOK
  <2>2. /\ dataf' \in [Ids -> [cl : Clients \cup {None}, whole : BOOLEAN]]
        /\ reqf' \in [Ids -> [cl : Clients \cup {None}, full : BOOLEAN]]
        /\ lost' \subseteq Clients
    BY <1>0, <1>6, <2>1 DEF BuildRemove, TypeOK, NoFile, NoReq
  <2> QED  BY <1>0, <1>6, <2>2 DEF BuildRemove, TakeEntry, TypeOK
<1>7. ASSUME NEW i \in Ids, BuildCannotOpen(i) PROVE Ordering'
  <2>1. reqf[i].cl \in Clients
    BY <1>0, <1>7 DEF BuildCannotOpen, TakeEntry, Building, TypeOK
  <2> QED  BY <1>0, <1>7, <2>1 DEF BuildCannotOpen, TakeEntry, TypeOK
<1>4. CASE Hup
  BY <1>0, <1>4, BoundsTyped DEF Hup, TypeOK
<1>5. CASE Stop
  <2>1. queue' \in Seq(Jobs) /\ Entries(queue') = {} /\ Ordered(queue')
    BY <1>5 DEF Stop, Entries, Ordered
  <2>2. stops' \in 0 .. MaxStops /\ job' = NoJob /\ stamp' = 0 /\ ppc' = "get" /\ job'.at = 0
    BY <1>0, <1>5, BoundsTyped DEF Stop, TypeOK, NoJob
  <2>3. \A c \in Clients : cpc'[c] = IF cpc[c] \in {"new", "refused", "done"} THEN cpc[c] ELSE "cut"
    BY <1>5 DEF Stop
  <2>4. cpc' \in [Clients -> {"new", "refused", "done", "cut"}]
    BY <1>5 DEF Stop
  <2>5. TypeOK'
    <3>1. /\ mpc' = "down" /\ reread' = FALSE /\ todo' = {}
          /\ handed' = {} /\ canceled' = {}
          /\ UNCHANGED <<nextjob, jobno, reused, lost, dataf, reqf, cid, hups, defers, acked, printed>>
      BY <1>5 DEF Stop
    <3> QED  BY <1>0, <2>1, <2>2, <2>4, <3>1 DEF TypeOK
  <2>6. Numbered' /\ JobHeld' /\ InOrder'
    BY <1>0, <1>5, <2>1, <2>2, <2>3 DEF Stop
  <2> QED  BY <2>5, <2>6
<1> QED  BY <1>1, <1>2, <1>3, <1>4, <1>5, <1>6, <1>7 DEF MainStep

\* What a step does to the rebuilding of the line.
LEMMA BuildingKept ==
  ASSUME LineInv, Next
  PROVE  Building'
<1> USE DEF LineInv, Building, Settled, Working, daemon, past, spool, client, thread, bounds, CGoto, PGoto
<1>0. TypeOK /\ JobHeld
  BY DEF LineInv, Ordering
<1>1. ASSUME NEW c \in Clients, Accept(c) \/ HeaderTimeout(c) \/ ClientStep(c) PROVE Building'
  <2>1. mpc = "serving" /\ mpc' = mpc /\ todo' = todo /\ stops' = stops
    BY <1>0, <1>1 DEF Accept, ClientStep, HeaderTimeout, get_newjobno, CreatData, StoreData, CreatReq, WriteReq,
       CannotStore, Respond, AddJob, Signal, TypeOK
  <2> QED  BY <2>1
<1>2. CASE PrinterStep
  <2>1. mpc' = mpc /\ todo' = todo /\ stops' = stops /\ cpc' = cpc /\ mpc # "down"
    BY <1>2 DEF PrinterStep, GetJob, WaitForJob, update_jobno, CheckConfig, OpenData, CancelJob,
       CannotPrint, PrintJob, UnlinkData, UnlinkReq, replace_job, Up
  <2>2. ASSUME NEW i \in todo PROVE reqf'[i].cl # None /\ i # job'.id /\ \A x \in Entries(queue') : x.id # i
    <3>1. i \in Ids /\ i # NoJob.id
      BY <1>0, BoundsTyped DEF TypeOK, Ids, NoJob, NoId
    <3>2. CASE GetJob
      <4>1. queue \in Seq(Jobs) /\ queue # << >> /\ job' = Head(queue) /\ queue' = Tail(queue) /\ reqf' = reqf
        BY <1>0, <3>2 DEF GetJob, TypeOK
      <4>2. Entries(queue) = Entries(queue') \cup {job'}
        BY <4>1, Headed
      <4> QED  BY <4>1, <4>2
    <3>3. CASE UnlinkReq
      BY <1>0, <3>1, <3>3 DEF UnlinkReq, TypeOK
    <3>4. CASE replace_job
      <4>1. queue \in Seq(Jobs) /\ job \in Jobs /\ queue' = <<job>> \o queue /\ job' = NoJob /\ reqf' = reqf
        BY <1>0, <3>4 DEF replace_job, TypeOK, JobHeld
      <4>2. Entries(queue') = Entries(queue) \cup {job}
        BY <4>1, Replaced
      <4> QED  BY <3>1, <4>1, <4>2
    <3>5. CASE CancelJob
      BY <3>1, <3>5 DEF CancelJob
    <3>6. CASE OpenData \/ WaitForJob \/ update_jobno \/ CheckConfig \/ CannotPrint \/ PrintJob \/ UnlinkData
      BY <3>6 DEF OpenData, WaitForJob, update_jobno, CheckConfig, CannotPrint, PrintJob, UnlinkData
    <3> QED  BY <1>2, <3>2, <3>3, <3>4, <3>5, <3>6 DEF PrinterStep
  <2> QED  BY <2>1, <2>2
<1>3. CASE Start
  <2>1. queue = << >> /\ ~Working /\ job.id = NoId
    BY <1>0, <1>3 DEF Start, JobHeld, NoJob
  <2>2. Entries(queue) = {}
    BY <2>1 DEF Entries
  <2> QED  BY <1>0, <1>3, <2>1, <2>2, BoundsTyped DEF Start, Requests, Ids, NoId
<1>4. ASSUME NEW i \in Ids, BuildEntry(i) PROVE Building'
  <2>1. /\ mpc = "building" /\ i \in todo /\ todo' = todo \ {i}
        /\ UNCHANGED <<nextjob, jobno, mpc, reread, client, job, bounds, acked, printed>>
    BY <1>4 DEF BuildEntry, TakeEntry
  <2> DEFINE e == [id |-> i, cl |-> reqf[i].cl, at |-> stamp + 1]
  <2>2. e \in Jobs /\ queue \in Seq(Jobs) /\ queue' = Append(queue, e) /\ UNCHANGED spool /\ e.id = i
    BY <1>0, <1>4, <2>1 DEF BuildEntry, Enqueue, TypeOK, Jobs
  <2>3. Entries(queue') = Entries(queue) \cup {e}
    <3> HIDE DEF e
    <3> QED  BY <2>2, Appended
  <2> QED  BY <2>1, <2>2, <2>3
<1>9. ASSUME NEW i \in Ids, BuildRemove(i) \/ BuildCannotOpen(i) PROVE Building'
  <2>1. /\ mpc = "building" /\ i \in todo /\ todo' = todo \ {i}
        /\ UNCHANGED <<mpc, client, thread, bounds, queue>>
        /\ \A j \in Ids \ {i} : reqf'[j] = reqf[j]
    BY <1>0, <1>9 DEF BuildRemove, BuildCannotOpen, TakeEntry, TypeOK
  <2> QED  BY <1>0, <2>1 DEF TypeOK
<1>5. CASE BuildDone
  BY <1>5 DEF BuildDone
<1>6. CASE Hup
  BY <1>6 DEF Hup, Up
<1>7. CASE Stop
  <2>1. \A c \in Clients : cpc'[c] \in Settled
    BY <1>7 DEF Stop
  <2>2. stops' # 0
    BY <1>0, <1>7 DEF Stop, TypeOK
  <2> QED  BY <1>7, <2>1, <2>2 DEF Stop
<1>8. CASE Quiet
  BY <1>8 DEF Quiet, vars
<1> QED  BY <1>1, <1>2, <1>3, <1>4, <1>5, <1>6, <1>7, <1>8, <1>9 DEF Next, MainStep

\* Every step keeps the type of the state, the order of the line and its rebuilding.
LEMMA LineStep ==
  ASSUME LineInv, [Next]_vars
  PROVE  LineInv'
<1>1. CASE Quiet \/ UNCHANGED vars
  BY <1>1 DEF Quiet, vars, daemon, past, spool, client, thread, bounds, LineInv, Ordering, TypeOK, Numbered,
     JobHeld, InOrder, Building, Working, Ordered, Entries
<1>2. CASE Next /\ ~Quiet
  <2>1. Ordering'
    BY <1>2, ClientOrder, PrinterOrder, MainOrder DEF LineInv, Next
  <2> QED  BY <1>2, <2>1, BuildingKept DEF LineInv
<1> QED  BY <1>1, <1>2

\* So it holds in every state.
LEMMA LineInvariance == Spec => []LineInv
BY InitLine, LineStep, PTL DEF Spec

\* The state has its type; the counters and the stamps among it stay in bounds.
THEOREM TypeCorrect == Spec => []TypeOK
<1>1. LineInv => TypeOK
  BY DEF LineInv, Ordering
<1> QED  BY <1>1, LineInvariance, PTL

\* Jobs are printed in the order in which they were queued: replace_job puts a job
\* that could not be printed back before all others, add_job puts a new one last.
THEOREM FirstCome == Spec => []FirstComeFirstServed
<1>1. ASSUME LineInv PROVE FirstComeFirstServed
  <2>1. InOrder /\ JobHeld
    BY <1>1 DEF LineInv, Ordering
  <2>2. job # NoJob => \A n \in DOMAIN queue : job.at < queue[n].at
    BY <2>1 DEF InOrder, JobHeld, Working, Entries
  <2> QED  BY <2>1, <2>2 DEF InOrder, Ordered, FirstComeFirstServed
<1> QED  BY <1>1, LineInvariance, PTL

-----------------------------------------------------------------------------
(* The files of a job, step by step.                                        *)

\* The types the steps below need, one value at a time.
LEMMA Typed ==
  ASSUME LineInv
  PROVE  /\ \A i \in Ids : /\ dataf[i] \in [cl : Clients \cup {None}, whole : BOOLEAN]
                           /\ reqf[i] \in [cl : Clients \cup {None}, full : BOOLEAN]
         /\ \A x \in Entries(queue) : x \in Jobs /\ x.id \in Ids /\ x.cl \in Clients
         /\ IF Working THEN job.id \in Ids /\ job.cl \in Clients ELSE job.id = NoId
         /\ \A c \in Clients : Live(c) => cid[c] \in Ids
         /\ NoId \notin Ids /\ nextjob \in Ids /\ None \notin Clients
<1> USE DEF LineInv, Ordering
<1>1. TypeOK /\ Numbered /\ JobHeld
  OBVIOUS
<1>2. \A x \in Entries(queue) : x \in Jobs /\ x.id \in Ids /\ x.cl \in Clients
  <2>1. \A n \in DOMAIN queue : queue[n] \in Jobs
    BY <1>1, LenProperties DEF TypeOK
  <2> QED  BY <2>1 DEF Entries, Jobs
<1>3. IF Working THEN job.id \in Ids /\ job.cl \in Clients ELSE job.id = NoId
  BY <1>1 DEF JobHeld, Jobs, NoJob
<1>4. \A c \in Clients : Live(c) => cid[c] \in Ids
  BY <1>1 DEF Numbered, Live, LivePcs, NumberedPcs
<1>5. NoId \notin Ids /\ nextjob \in Ids /\ None \notin Clients
  BY <1>1, BoundsTyped DEF Ids, NoId, TypeOK
<1> QED  BY <1>1, <1>2, <1>3, <1>4, <1>5 DEF TypeOK

\* A request is its client and whether it is complete;
LEMMA Request ==
  ASSUME NEW S, NEW r \in [cl : S, full : BOOLEAN], r.full
  PROVE  r = [cl |-> r.cl, full |-> TRUE]
OBVIOUS

\* WriteReq completes it,
LEMMA Completed ==
  ASSUME NEW S, NEW r \in [cl : S, full : BOOLEAN]
  PROVE  [r EXCEPT !.full = TRUE] = [cl |-> r.cl, full |-> TRUE]
<1> DEFINE q == [r EXCEPT !.full = TRUE]
<1>1. q \in [cl : S, full : BOOLEAN] /\ q.full /\ q.cl = r.cl
  OBVIOUS
<1> HIDE DEF q
<1>2. q = [cl |-> q.cl, full |-> TRUE]
  BY <1>1, Request
<1> QED  BY <1>1, <1>2 DEF q

\* and it is not complete before.
LEMMA NotComplete ==
  /\ \A c, d : [cl |-> c, full |-> FALSE] # [cl |-> d, full |-> TRUE]
  /\ \A d : NoReq # [cl |-> d, full |-> TRUE]
<1>1. ASSUME NEW c, NEW d, [cl |-> c, full |-> FALSE] = [cl |-> d, full |-> TRUE] PROVE FALSE
  <2>1. [cl |-> c, full |-> FALSE].full = [cl |-> d, full |-> TRUE].full
    BY <1>1, Zenon
  <2>2. [cl |-> c, full |-> FALSE].full = FALSE /\ [cl |-> d, full |-> TRUE].full = TRUE
    BY Zenon
  <2> QED  BY <2>1, <2>2, Zenon
<1> QED  BY <1>1, Zenon DEF NoReq

\* The daemon starts with an empty spool.
LEMMA InitSpool == Init => SpoolInv
<1> SUFFICES ASSUME Init PROVE SpoolInv
  OBVIOUS
<1>1. Entries(queue) = {} /\ ~Working /\ \A c \in Clients : ~Live(c)
  BY DEF Init, Entries, Working, Live, LivePcs
<1>2. \A i \in Ids : dataf[i] = NoFile /\ reqf[i] = NoReq /\ ~reqf[i].full
  BY DEF Init, NoReq
<1>3. Owned /\ OwnFiles /\ OwnNumber /\ Complete /\ OnePlace
  BY <1>1, <1>2 DEF Init, Owned, OwnFiles, OwnNumber, Complete, OnePlace, Distinct, NoFile, NoReq
<1>4. Requested /\ Remembered /\ NoOrphans /\ Told /\ PrintsOwnFile /\ AckedIsSafe
  BY <1>1, <1>2 DEF Init, Requested, Remembered, NoOrphans, Left, Told, PrintsOwnFile, AckedIsSafe, NoFile, NoReq
<1> QED  BY <1>3, <1>4 DEF SpoolInv

\* A step of a client thread: creat, write and unlink touch the files of its own
\* number only.
LEMMA ClientSpool ==
  ASSUME LineInv, SpoolInv, FreshNumber, NEW c \in Clients, Accept(c) \/ HeaderTimeout(c) \/ ClientStep(c)
  PROVE  SpoolInv'
<1> DEFINE i == cid[c]
<1> USE DEF daemon, past, spool, client, thread, bounds, CGoto
<1>0. TypeOK /\ Numbered
  BY DEF LineInv, Ordering
<1>1. CASE Accept(c) \/ HeaderTimeout(c) \/ Signal(c)
  <2>1. /\ UNCHANGED <<dataf, reqf, queue, cid, job, todo, mpc, stops, acked, printed, canceled, lost>>
        /\ \A d \in Clients : Live(d)' <=> Live(d)
        /\ \A d \in Clients : Live(d) => cpc'[d] = cpc[d]
    BY <1>0, <1>1 DEF Accept, HeaderTimeout, Signal, Live, LivePcs, TypeOK
  <2>2. Owned' /\ OwnFiles' /\ OwnNumber' /\ Complete' /\ OnePlace'
    BY <2>1 DEF SpoolInv, Owned, OwnFiles, OwnNumber, Complete, HasData, OnePlace
  <2>3. ppc' = ppc \/ (ppc = "waiting" /\ ppc' = "get")
    BY <1>1 DEF Accept, HeaderTimeout, Signal, Signalled
  <2>4. Requested'
    BY <2>1, <2>3 DEF SpoolInv, Requested, Working
  <2>5. Remembered' /\ NoOrphans'
    BY <2>1, <2>3 DEF SpoolInv, Remembered, NoOrphans, UnderWay, Left
  <2>6. Told'
    BY <1>0, <1>1 DEF Accept, HeaderTimeout, Signal, SpoolInv, Told, TypeOK
  <2>7. PrintsOwnFile' /\ AckedIsSafe'
    BY <2>1 DEF SpoolInv, PrintsOwnFile, AckedIsSafe
  <2> QED  BY <2>2, <2>4, <2>5, <2>6, <2>7 DEF SpoolInv
<1>2. CASE get_newjobno(c)
  <2> DEFINE n == nextjob
  <2>1. /\ UNCHANGED <<dataf, reqf, queue, ppc, job, todo, mpc, stops, acked, printed, canceled, lost>>
        /\ \A d \in Clients : cid'[d] = (IF d = c THEN n ELSE cid[d]) /\ cpc'[d] = (IF d = c THEN "creat" ELSE cpc[d])
        /\ \A d \in Clients : Live(d)' <=> (Live(d) \/ d = c)
        /\ ~Live(c) /\ cid[c] = NoId /\ c \notin acked
    BY <1>0, <1>2 DEF get_newjobno, Live, LivePcs, TypeOK, SpoolInv, Told, Numbered
  <2>2. n \in Ids /\ ~InUse(n)
    BY <1>2, Typed DEF FreshNumber
  <2>3. dataf[n] = NoFile /\ reqf[n] = NoReq
    BY <2>2 DEF InUse
  <2>4. n # job.id /\ \A x \in Entries(queue) : x.id # n
    <3>1. reqf[n].full = FALSE
      BY <2>3 DEF NoReq
    <3>2. ~Working => job.id = NoId
      BY Typed
    <3>3. Working => n # job.id
      BY <3>1 DEF SpoolInv, Requested
    <3>4. ASSUME NEW x \in Entries(queue) PROVE x.id # n
      <4>1. reqf[x.id] = [cl |-> x.cl, full |-> TRUE]
        BY DEF SpoolInv, Requested
      <4> QED  BY <3>1, <4>1
    <3> QED  BY <2>2, <3>2, <3>3, <3>4, Typed
  <2>5. \A d \in Clients : Live(d) => cid[d] # n
    <3>1. dataf[n].cl = None
      BY <2>3 DEF NoFile
    <3> HIDE DEF n
    <3>2. SUFFICES ASSUME NEW d \in Clients, Live(d), cid[d] = n PROVE FALSE
      OBVIOUS
    <3>3. cpc[d] # "creat"
      BY <2>2, <3>2 DEF InUse
    <3>4. dataf[n].cl = d
      BY <3>2, <3>3 DEF SpoolInv, OwnFiles
    <3> QED  BY <3>1, <3>4, Typed
  <2>6. Owned'
    BY <2>1, Typed DEF SpoolInv, Owned
  <2>7. OwnFiles'
    BY <2>1, <2>3 DEF SpoolInv, OwnFiles
  <2>8. OwnNumber'
    BY <2>1, <2>4, <2>5 DEF SpoolInv, OwnNumber
  <2>9. Complete' /\ OnePlace' /\ Requested'
    BY <2>1 DEF SpoolInv, Complete, HasData, OnePlace, Requested, Working
  <2>10. Remembered' /\ NoOrphans'
    BY <2>1 DEF SpoolInv, Remembered, NoOrphans, UnderWay, Left
  <2>11. Told'
    BY <1>0, <2>1 DEF SpoolInv, Told, TypeOK
  <2>12. PrintsOwnFile' /\ AckedIsSafe'
    BY <2>1 DEF SpoolInv, PrintsOwnFile, AckedIsSafe
  <2> QED  BY <2>6, <2>7, <2>8, <2>9, <2>10, <2>11, <2>12 DEF SpoolInv
<1>3. CASE CreatData(c) \/ StoreData(c)
  <2>1. /\ UNCHANGED <<reqf, queue, ppc, job, todo, mpc, stops, acked, printed, cid, canceled, lost>>
        /\ \A d \in Clients : Live(d)' <=> Live(d)
        /\ Live(c) /\ c \notin acked
        /\ \A d \in Clients : d # c => cpc'[d] = cpc[d]
        /\ cpc[c] \in {"creat", "store"} /\ cpc'[c] \in {"store", "creatreq"}
    BY <1>0, <1>3 DEF CreatData, StoreData, Live, LivePcs, TypeOK, SpoolInv, Told
  <2>2. i \in Ids /\ reqf[i] = NoReq /\ i # job.id /\ (\A x \in Entries(queue) : x.id # i)
        /\ \A d \in Clients : Live(d) /\ cid[d] = i => d = c
    BY <2>1, Typed DEF SpoolInv, OwnNumber, OwnFiles
  <2>3. /\ \A j \in Ids \ {i} : dataf'[j] = dataf[j]
        /\ dataf'[i].cl = c /\ c # None
    <3>1. c # None
      BY Typed
    <3>2. CASE CreatData(c)
      BY <1>0, <2>2, <3>1, <3>2 DEF CreatData, TypeOK
    <3>3. CASE StoreData(c)
      <4>1. cpc[c] = "store" /\ dataf[i].cl = c
        BY <2>1, <3>3 DEF StoreData, SpoolInv, OwnFiles
      <4>2. PICK whole \in BOOLEAN : dataf' = [dataf EXCEPT ![i].whole = whole]
        BY <3>3 DEF StoreData
      <4> QED  BY <1>0, <2>2, <3>1, <4>1, <4>2 DEF TypeOK
    <3> QED  BY <1>3, <3>2, <3>3
  <2> HIDE DEF i
  <2>4. Owned'
    <3>1. i = cid[c]
      BY DEF i
    <3> QED  BY <2>1, <2>2, <2>3, <3>1 DEF SpoolInv, Owned
  <2>5. OwnFiles'
    <3>1. i = cid[c]
      BY DEF i
    <3> QED  BY <2>1, <2>2, <2>3, <3>1, Typed DEF SpoolInv, OwnFiles
  <2>6. OwnNumber' /\ OnePlace' /\ PrintsOwnFile'
    BY <2>1 DEF SpoolInv, OwnNumber, OnePlace, PrintsOwnFile
  <2>11. Told'
    BY <1>0, <2>1 DEF SpoolInv, Told, TypeOK
  <2>7. Complete'
    BY <2>1, <2>2, <2>3 DEF SpoolInv, Complete, HasData, NoReq
  <2>8. Requested'
    BY <2>1, <2>2, <2>3, Typed DEF SpoolInv, Requested, Working
  <2>9. Remembered' /\ NoOrphans'
    <3>1. i = cid[c]
      BY DEF i
    <3> QED  BY <2>1, <2>2, <2>3, <3>1, Typed DEF SpoolInv, Remembered, NoOrphans, UnderWay, Left, Working
  <2>10. AckedIsSafe'
    BY <2>1, <2>2, <2>3 DEF SpoolInv, AckedIsSafe, NoReq
  <2> QED  BY <2>4, <2>5, <2>6, <2>7, <2>8, <2>9, <2>10, <2>11 DEF SpoolInv
<1>4. CASE CreatReq(c) \/ WriteReq(c)
  <2>1. /\ UNCHANGED <<dataf, queue, ppc, job, todo, mpc, stops, acked, printed, cid, canceled, lost>>
        /\ \A d \in Clients : Live(d)' <=> Live(d)
        /\ Live(c) /\ c \notin acked
        /\ \A d \in Clients : d # c => cpc'[d] = cpc[d]
        /\ \/ cpc[c] = "creatreq" /\ cpc'[c] = "writereq"
           \/ cpc[c] = "writereq" /\ cpc'[c] = "respond"
    BY <1>0, <1>4 DEF CreatReq, WriteReq, Live, LivePcs, TypeOK, SpoolInv, Told
  <2>2. i \in Ids /\ dataf[i].cl = c /\ i # job.id /\ (\A x \in Entries(queue) : x.id # i)
        /\ (\A d \in Clients : Live(d) /\ cid[d] = i => d = c)
        /\ \A d \in Clients : reqf[i] # [cl |-> d, full |-> TRUE]
    <3>1. i \in Ids /\ dataf[i].cl = c /\ i # job.id /\ (\A x \in Entries(queue) : x.id # i)
          /\ (\A d \in Clients : Live(d) /\ cid[d] = i => d = c)
      BY <2>1, Typed DEF SpoolInv, OwnNumber, OwnFiles
    <3>2. reqf[i] = NoReq \/ reqf[i] = [cl |-> c, full |-> FALSE]
      BY <2>1 DEF SpoolInv, OwnFiles
    <3>4. \A d \in Clients : reqf[i] # [cl |-> d, full |-> TRUE]
      BY <3>2, NotComplete, Zenon
    <3> QED  BY <3>1, <3>4
  <2>3. /\ \A j \in Ids \ {i} : reqf'[j] = reqf[j]
        /\ cpc'[c] = "writereq" => reqf'[i] = [cl |-> c, full |-> FALSE]
        /\ cpc'[c] = "respond" => reqf'[i] = [cl |-> c, full |-> TRUE]
        /\ reqf'[i].cl = c
    <3>1. CASE CreatReq(c)
      BY <1>0, <2>1, <2>2, <3>1 DEF CreatReq, TypeOK
    <3>2. CASE WriteReq(c)
      <4>1. cpc[c] = "writereq" /\ reqf[i] = [cl |-> c, full |-> FALSE] /\ cpc'[c] = "respond"
        BY <1>0, <2>1, <3>2 DEF WriteReq, SpoolInv, OwnFiles, TypeOK
      <4>2. reqf' = [reqf EXCEPT ![i].full = TRUE]
        BY <3>2 DEF WriteReq
      <4>3. [reqf[i] EXCEPT !.full = TRUE] = [cl |-> c, full |-> TRUE]
        <5>1. reqf[i] \in [cl : Clients \cup {None}, full : BOOLEAN] /\ reqf[i].cl = c
          BY <2>2, <4>1, Typed
        <5> QED  BY <5>1, Completed
      <4> QED  BY <1>0, <2>2, <4>1, <4>2, <4>3 DEF TypeOK
    <3> QED  BY <1>4, <3>1, <3>2
  <2>12. i = cid[c]
    OBVIOUS
  <2> HIDE DEF i
  <2>4. Owned'
    BY <2>1, <2>2, <2>3, <2>12, Typed DEF SpoolInv, Owned
  <2>5. OwnFiles'
    <3> SUFFICES ASSUME NEW d \in Clients, Live(d)
                 PROVE  /\ cpc'[d] = "creat" => dataf'[cid'[d]] = NoFile
                        /\ cpc'[d] # "creat" => dataf'[cid'[d]].cl = d
                        /\ cpc'[d] \in {"creat", "store", "creatreq"} => reqf'[cid'[d]] = NoReq
                        /\ cpc'[d] = "writereq" => reqf'[cid'[d]] = [cl |-> d, full |-> FALSE]
                        /\ cpc'[d] \in {"respond", "add"} => reqf'[cid'[d]] = [cl |-> d, full |-> TRUE]
      BY <2>1 DEF OwnFiles
    <3>1. CASE d = c
      BY <2>1, <2>2, <2>3, <2>12, <3>1
    <3>2. CASE d # c
      <4>1. cid[d] \in Ids \ {i}
        BY <2>2, <3>2, Typed
      <4> QED  BY <2>1, <2>3, <3>2, <4>1 DEF SpoolInv, OwnFiles
    <3> QED  BY <3>1, <3>2
  <2>6. OwnNumber' /\ OnePlace' /\ PrintsOwnFile'
    BY <2>1 DEF SpoolInv, OwnNumber, OnePlace, PrintsOwnFile
  <2>11. Told'
    BY <1>0, <2>1 DEF SpoolInv, Told, TypeOK
  <2>7. Complete'
    BY <2>1, <2>2, <2>3, Typed DEF SpoolInv, Complete, HasData
  <2>8. Requested'
    BY <2>1, <2>2, <2>3, Typed DEF SpoolInv, Requested, Working
  <2>9. Remembered' /\ NoOrphans'
    <3>3. \A j \in Ids : UnderWay(j) \/ j = i => UnderWay(j)'
      BY <2>1, <2>12 DEF UnderWay
    <3>4. Remembered'
      BY <2>1, <2>2, <2>3, <3>3 DEF SpoolInv, Remembered
    <3>5. NoOrphans'
      BY <2>1, <2>2, <2>3, <3>3 DEF SpoolInv, NoOrphans, Left, Working
    <3> QED  BY <3>4, <3>5
  <2>10. AckedIsSafe'
    <3>1. ASSUME NEW d \in acked, NEW j \in Ids, reqf[j] = [cl |-> d, full |-> TRUE] PROVE reqf'[j] = reqf[j]
      BY <1>0, <2>2, <2>3, <3>1 DEF TypeOK
    <3> QED  BY <2>1, <3>1 DEF SpoolInv, AckedIsSafe
  <2> QED  BY <2>4, <2>5, <2>6, <2>7, <2>8, <2>9, <2>10, <2>11 DEF SpoolInv
<1>5. CASE CannotStore(c)
  <2>1. /\ UNCHANGED <<queue, ppc, job, todo, mpc, stops, acked, printed, cid, canceled, lost>>
        /\ \A d \in Clients : Live(d)' <=> Live(d) /\ d # c
        /\ Live(c) /\ c \notin acked
        /\ cpc[c] \in {"creat", "store", "creatreq", "writereq"}
        /\ \A d \in Clients : d # c => cpc'[d] = cpc[d]
    BY <1>0, <1>5 DEF CannotStore, Live, LivePcs, TypeOK, SpoolInv, Told
  <2>2. /\ i \in Ids /\ i # job.id /\ (\A x \in Entries(queue) : x.id # i)
        /\ \A d \in Clients : Live(d) /\ cid[d] = i => d = c
    BY <2>1, Typed DEF SpoolInv, OwnNumber
  <2>3. \A d \in Clients : reqf[i] # [cl |-> d, full |-> TRUE]
    <3>2. reqf[i] = NoReq \/ reqf[i] = [cl |-> c, full |-> FALSE]
      BY <2>1 DEF SpoolInv, OwnFiles
    <3> QED  BY <3>2, NotComplete, Zenon
  <2>4. /\ \A j \in Ids \ {i} : dataf'[j] = dataf[j] /\ reqf'[j] = reqf[j]
        /\ dataf'[i] = NoFile /\ reqf'[i] = NoReq
    <3>1. cpc[c] = "creat" => dataf[i] = NoFile
      BY <2>1 DEF SpoolInv, OwnFiles
    <3>2. cpc[c] \in {"creat", "store", "creatreq"} => reqf[i] = NoReq
      BY <2>1 DEF SpoolInv, OwnFiles
    <3>3. dataf' = (IF cpc[c] # "creat" THEN [dataf EXCEPT ![i] = NoFile] ELSE dataf)
          /\ reqf' = (IF cpc[c] = "writereq" THEN [reqf EXCEPT ![i] = NoReq] ELSE reqf)
      BY <1>5 DEF CannotStore, RemoveFiles
    <3>4. /\ \A j \in Ids \ {i} : dataf'[j] = dataf[j]
          /\ dataf'[i] = NoFile
      BY <1>0, <2>2, <3>1, <3>3 DEF TypeOK
    <3>5. /\ \A j \in Ids \ {i} : reqf'[j] = reqf[j]
          /\ reqf'[i] = NoReq
      BY <1>0, <2>1, <2>2, <3>2, <3>3 DEF TypeOK
    <3> QED  BY <3>4, <3>5
  <2>12. i = cid[c]
    OBVIOUS
  <2>13. NoFile.cl = None /\ NoReq.cl = None /\ NoReq.full = FALSE /\ c # None
    BY Typed DEF NoFile, NoReq
  <2> HIDE DEF i
  <2>5. Owned'
    BY <2>1, <2>2, <2>4 DEF SpoolInv, Owned
  <2>6. OwnFiles'
    BY <2>1, <2>2, <2>4, Typed DEF SpoolInv, OwnFiles
  <2>7. OwnNumber' /\ OnePlace' /\ PrintsOwnFile'
    BY <2>1 DEF SpoolInv, OwnNumber, OnePlace, PrintsOwnFile
  <2>8. Told'
    BY <1>0, <2>1 DEF SpoolInv, Told, TypeOK
  <2>9. Complete'
    BY <2>1, <2>2, <2>4, <2>13 DEF SpoolInv, Complete, HasData
  <2>10. Requested'
    BY <2>1, <2>2, <2>4, Typed DEF SpoolInv, Requested, Working
  <2>11. Remembered' /\ NoOrphans'
    <3>3. \A j \in Ids \ {i} : UnderWay(j) => UnderWay(j)'
      BY <2>1, <2>12 DEF UnderWay
    <3>4. Remembered'
      BY <2>1, <2>2, <2>4, <3>3 DEF SpoolInv, Remembered
    <3>6. stops = 0 => \A j \in Ids : (UnderWay(j) \/ Left(j))'
      <4>1. \A j \in Ids : j = i => Left(j)'
        BY <2>4, <2>13 DEF Left
      <4>2. \A j \in Ids \ {i} : Left(j) => Left(j)'
        BY <2>1, <2>4 DEF Left
      <4> QED  BY <2>1, <3>3, <4>1, <4>2 DEF SpoolInv, NoOrphans
    <3>5. NoOrphans'
      BY <2>1, <2>2, <2>4, <3>6, Typed DEF SpoolInv, NoOrphans, Working
    <3> QED  BY <3>4, <3>5
  <2>14. AckedIsSafe'
    <3>1. ASSUME NEW d \in acked, NEW j \in Ids, reqf[j] = [cl |-> d, full |-> TRUE]
          PROVE  reqf'[j] = reqf[j] /\ dataf'[j] = dataf[j]
      BY <1>0, <2>3, <2>4, <3>1 DEF TypeOK
    <3> QED  BY <2>1, <3>1 DEF SpoolInv, AckedIsSafe
  <2> QED  BY <2>5, <2>6, <2>7, <2>8, <2>9, <2>10, <2>11, <2>14 DEF SpoolInv
<1>6. CASE Respond(c)
  <2>1. /\ UNCHANGED <<dataf, reqf, queue, ppc, job, todo, mpc, stops, printed, cid, canceled, lost>>
        /\ acked' = acked \cup {c}
        /\ \A d \in Clients : Live(d)' <=> Live(d)
        /\ Live(c) /\ cpc[c] = "respond" /\ cpc'[c] = "add"
        /\ \A d \in Clients : d # c => cpc'[d] = cpc[d]
    BY <1>0, <1>6 DEF Respond, Live, LivePcs, TypeOK
  <2>2. i \in Ids /\ dataf[i].cl = c /\ reqf[i] = [cl |-> c, full |-> TRUE]
    BY <2>1, Typed DEF SpoolInv, OwnFiles
  <2>3. Owned' /\ Complete' /\ Requested' /\ OnePlace' /\ PrintsOwnFile' /\ OwnNumber'
    BY <2>1 DEF SpoolInv, Owned, Complete, HasData, Requested, Working, OnePlace, PrintsOwnFile, OwnNumber
  <2>4. OwnFiles'
    BY <2>1 DEF SpoolInv, OwnFiles
  <2>5. Remembered' /\ NoOrphans'
    BY <2>1 DEF SpoolInv, Remembered, NoOrphans, UnderWay, Left
  <2>6. Told' /\ AckedIsSafe'
    BY <1>0, <2>1, <2>2 DEF SpoolInv, Told, AckedIsSafe, TypeOK
  <2> QED  BY <2>3, <2>4, <2>5, <2>6 DEF SpoolInv
<1>7. CASE AddJob(c)
  <2> DEFINE e == [id |-> i, cl |-> c, at |-> stamp + 1]
  <2>1. /\ UNCHANGED <<dataf, reqf, ppc, job, todo, mpc, stops, acked, printed, cid, canceled, lost>>
        /\ queue' = Append(queue, e) /\ queue \in Seq(Jobs)
        /\ \A d \in Clients : Live(d)' <=> Live(d) /\ d # c
        /\ Live(c) /\ cpc[c] = "add" /\ cpc'[c] = "signal"
        /\ \A d \in Clients : d # c => cpc'[d] = cpc[d]
    BY <1>0, <1>7 DEF AddJob, Enqueue, Live, LivePcs, TypeOK
  <2>2. /\ i \in Ids /\ dataf[i].cl = c /\ c # None /\ reqf[i] = [cl |-> c, full |-> TRUE]
        /\ i # job.id /\ (\A x \in Entries(queue) : x.id # i)
        /\ \A d \in Clients : Live(d) /\ cid[d] = i => d = c
    BY <2>1, Typed DEF SpoolInv, OwnFiles, OwnNumber
  <2>3. e \in Jobs /\ e.id = i /\ e.cl = c
    BY <1>0, <2>2 DEF Jobs, TypeOK
  <2>12. i = cid[c]
    OBVIOUS
  <2> HIDE DEF e, i
  <2>4. Entries(queue') = Entries(queue) \cup {e} /\ Distinct(queue')
    BY <2>1, <2>2, <2>3, Appended DEF SpoolInv, OnePlace
  <2>5. Owned' /\ Complete' /\ PrintsOwnFile' /\ AckedIsSafe'
    BY <2>1 DEF SpoolInv, Owned, Complete, HasData, PrintsOwnFile, AckedIsSafe
  <2>6. OwnFiles'
    BY <2>1 DEF SpoolInv, OwnFiles
  <2>7. OwnNumber'
    BY <2>1, <2>2, <2>3, <2>4, <2>12 DEF SpoolInv, OwnNumber
  <2>8. OnePlace'
    BY <2>1, <2>2, <2>3, <2>4 DEF SpoolInv, OnePlace
  <2>9. Requested'
    BY <2>1, <2>2, <2>3, <2>4 DEF SpoolInv, Requested, Working
  <2>10. Remembered' /\ NoOrphans'
    <3>1. \A j \in Ids : UnderWay(j) => UnderWay(j)'
      BY <2>1, <2>3, <2>4, <2>12 DEF UnderWay
    <3>2. Remembered'
      BY <2>1, <3>1 DEF SpoolInv, Remembered
    <3>3. dataf[i] # NoFile
      BY <2>2 DEF NoFile
    <3>4. NoOrphans'
      BY <2>1, <2>3, <2>4, <3>1, <3>3 DEF SpoolInv, NoOrphans, Left
    <3> QED  BY <3>2, <3>4
  <2>11. Told'
    BY <1>0, <2>1 DEF SpoolInv, Told, TypeOK
  <2> QED  BY <2>5, <2>6, <2>7, <2>8, <2>9, <2>10, <2>11 DEF SpoolInv
<1> QED  BY <1>1, <1>2, <1>3, <1>4, <1>5, <1>6, <1>7 DEF ClientStep

\* A step of the printer thread touches the files of the job in hand only.
LEMMA PrinterSpool ==
  ASSUME LineInv, SpoolInv, PrinterStep
  PROVE  SpoolInv'
<1> DEFINE i == job.id
<1> USE DEF daemon, past, spool, client, thread, bounds, PGoto
<1>0. TypeOK /\ JobHeld
  BY DEF LineInv, Ordering
<1>1. CASE GetJob
  <2>1. /\ UNCHANGED <<dataf, reqf, cpc, cid, todo, mpc, stops, acked, printed, canceled, lost>>
        /\ queue \in Seq(Jobs) /\ queue # << >> /\ job' = Head(queue) /\ queue' = Tail(queue)
        /\ ppc = "get" /\ ppc' = "update"
    BY <1>0, <1>1 DEF GetJob, TypeOK
  <2>2. /\ Entries(queue) = Entries(queue') \cup {job'} /\ Distinct(queue')
        /\ \A x \in Entries(queue') : x.id # job'.id
    BY <2>1, Headed DEF SpoolInv, OnePlace
  <2>3. Owned' /\ OwnFiles' /\ Complete' /\ Told' /\ PrintsOwnFile' /\ AckedIsSafe'
    BY <2>1 DEF SpoolInv, Owned, OwnFiles, Live, Complete, HasData, Told, PrintsOwnFile, AckedIsSafe
  <2>4. OwnNumber' /\ OnePlace'
    BY <2>1, <2>2 DEF SpoolInv, OwnNumber, Live, OnePlace
  <2>5. Requested'
    BY <2>1, <2>2 DEF SpoolInv, Requested, Working
  <2>6. ~Working /\ job.id = NoId /\ NoId \notin Ids
    BY <2>1, Typed DEF Working
  <2>7. \A j \in Ids : UnderWay(j) => UnderWay(j)'
    BY <2>1, <2>2, <2>6 DEF UnderWay, Live
  <2>8. Remembered' /\ NoOrphans'
    BY <2>1, <2>2, <2>7 DEF SpoolInv, Remembered, NoOrphans, Left
  <2> QED  BY <2>3, <2>4, <2>5, <2>8 DEF SpoolInv
<1>2. CASE WaitForJob \/ update_jobno \/ CheckConfig
  <2>1. /\ UNCHANGED <<dataf, reqf, queue, job, cpc, cid, todo, mpc, stops, acked, printed, canceled, lost>>
        /\ Working' <=> Working
        /\ ppc' \notin {"connect", "requeue", "unlinkdata", "unlinkreq"}
        /\ ppc' \in {"update", "config", "open"} => ppc \in {"update", "config", "open"}
    BY <1>2 DEF WaitForJob, update_jobno, CheckConfig, Working
  <2>2. /\ Owned' /\ OwnFiles' /\ Complete' /\ Told' /\ PrintsOwnFile' /\ AckedIsSafe' /\ OwnNumber'
        /\ OnePlace' /\ Requested'
    BY <2>1 DEF SpoolInv, Owned, OwnFiles, Live, Complete, HasData, Told, PrintsOwnFile, AckedIsSafe,
       OwnNumber, OnePlace, Requested
  <2>3. Remembered' /\ NoOrphans'
    BY <2>1 DEF SpoolInv, Remembered, NoOrphans, UnderWay, Left, Live
  <2> QED  BY <2>2, <2>3 DEF SpoolInv
<1>3. CASE OpenData \/ CancelJob
  <2>1. /\ UNCHANGED <<dataf, reqf, queue, cpc, cid, todo, mpc, stops, acked, printed, lost>>
        /\ ppc = "open" /\ Working
        /\ \/ dataf[i] # NoFile /\ ppc' = "connect" /\ job' = job /\ canceled' = canceled
           \/ /\ ppc' = "get" /\ job' = NoJob
              /\ canceled' = IF dataf[i] = NoFile THEN canceled ELSE canceled \cup {job.cl}
    BY <1>3 DEF OpenData, CancelJob, Working
  <2>2. i \in Ids /\ NoId \notin Ids /\ NoJob.id = NoId
    BY <2>1, Typed DEF NoJob
  <2>3. reqf[i] = [cl |-> job.cl, full |-> TRUE]
    BY <2>1 DEF SpoolInv, Requested
  <2>10. dataf[i] # NoFile => dataf[i].cl = job.cl
    <3>2. HasData(i) /\ reqf[i].cl = job.cl
      BY <2>2, <2>3 DEF SpoolInv, Complete
    <3> QED  BY <3>2 DEF HasData
  <2>4. Owned' /\ OwnFiles' /\ Complete' /\ Told' /\ PrintsOwnFile' /\ AckedIsSafe'
    BY <2>1 DEF SpoolInv, Owned, OwnFiles, Live, Complete, HasData, Told, PrintsOwnFile, AckedIsSafe
  <2>5. \A j \in Ids : j # job.id => j # job'.id
    BY <2>1, <2>2
  <2>6. OwnNumber' /\ OnePlace'
    BY <2>1, <2>5, Typed DEF SpoolInv, OwnNumber, Live, OnePlace
  <2>7. Requested'
    BY <2>1, <2>10 DEF SpoolInv, Requested, Working
  <2>8. \A j \in Ids : UnderWay(j) /\ (j # i \/ ppc' = "connect") => UnderWay(j)'
    BY <2>1 DEF UnderWay, Live
  <2>11. /\ canceled \subseteq canceled'
         /\ ppc' = "get" /\ dataf[i] # NoFile => {dataf[i].cl, reqf[i].cl} \subseteq canceled'
    BY <2>1, <2>3, <2>10
  <2>9. Remembered'
    BY <2>1, <2>2, <2>8, <2>11 DEF SpoolInv, Remembered
  <2>12. NoOrphans'
    <3>1. stops = 0 => dataf[i] # NoFile
      BY <2>1 DEF SpoolInv, NoOrphans
    <3> QED  BY <2>1, <2>2, <2>8, <2>11, <3>1 DEF SpoolInv, NoOrphans, Left
  <2> QED  BY <2>4, <2>6, <2>7, <2>9, <2>12 DEF SpoolInv
<1>4. CASE CannotPrint \/ PrintJob
  <2>1. /\ UNCHANGED <<dataf, reqf, queue, job, cpc, cid, todo, mpc, stops, acked, canceled, lost>>
        /\ Working /\ Working' /\ ppc = "connect" /\ ppc' \in {"requeue", "unlinkdata"}
        /\ \/ printed' = printed /\ ppc' = "requeue"
           \/ printed' = [printed EXCEPT ![job.cl] = @ \cup {dataf[i]}]
    BY <1>4 DEF CannotPrint, PrintJob, Working
  <2>2. i \in Ids /\ job.cl \in Clients /\ dataf[i].cl = job.cl
    BY <2>1, Typed DEF SpoolInv, Requested
  <2>3. /\ \A c \in Clients : \A d \in printed'[c] : d \in printed[c] \/ d.cl = c
        /\ \A c \in Clients : printed[c] # {} => printed'[c] # {}
        /\ ppc' = "unlinkdata" => printed'[job.cl] # {}
    <3>1. CASE printed' = printed /\ ppc' = "requeue"
      BY <3>1
    <3>2. CASE printed' = [printed EXCEPT ![job.cl] = @ \cup {dataf[i]}]
      <4>1. /\ printed'[job.cl] = printed[job.cl] \cup {dataf[i]}
            /\ \A c \in Clients : c # job.cl => printed'[c] = printed[c]
        BY <1>0, <2>2, <3>2 DEF TypeOK
      <4> QED  BY <2>2, <4>1
    <3> QED  BY <2>1, <3>1, <3>2
  <2>4. Owned' /\ OwnFiles' /\ Told' /\ OwnNumber' /\ OnePlace'
    BY <2>1 DEF SpoolInv, Owned, OwnFiles, Live, Told, OwnNumber, OnePlace
  <2>5. Complete'
    <3>1. \A j \in Ids : reqf[j].full => reqf[j].cl \in Clients
      BY <1>0 DEF SpoolInv, Complete, TypeOK
    <3> QED  BY <2>1, <2>3, <3>1 DEF SpoolInv, Complete, HasData
  <2>6. Requested'
    BY <2>1, <2>2, <2>3 DEF SpoolInv, Requested
  <2>7. Remembered' /\ NoOrphans'
    BY <2>1 DEF SpoolInv, Remembered, NoOrphans, UnderWay, Left, Live
  <2>8. PrintsOwnFile'
    BY <2>3 DEF SpoolInv, PrintsOwnFile
  <2>9. AckedIsSafe'
    BY <1>0, <2>1, <2>3 DEF SpoolInv, AckedIsSafe, TypeOK
  <2> QED  BY <2>4, <2>5, <2>6, <2>7, <2>8, <2>9 DEF SpoolInv
<1>5. CASE UnlinkData \/ UnlinkReq
  <2>1. /\ UNCHANGED <<queue, cpc, cid, todo, mpc, stops, acked, printed, canceled, lost>>
        /\ Working
        /\ \/ /\ ppc = "unlinkdata" /\ ppc' = "unlinkreq"
              /\ dataf' = [dataf EXCEPT ![i] = NoFile] /\ reqf' = reqf /\ job' = job
           \/ /\ ppc = "unlinkreq" /\ ppc' = "get"
              /\ dataf' = dataf /\ reqf' = [reqf EXCEPT ![i] = NoReq] /\ job' = NoJob
    BY <1>5 DEF UnlinkData, UnlinkReq, Working
  <2>2. /\ i \in Ids /\ job.cl \in Clients /\ printed[job.cl] # {}
        /\ reqf[i] = [cl |-> job.cl, full |-> TRUE] /\ NoId \notin Ids
    BY <2>1, Typed DEF SpoolInv, Requested
  <2>3. /\ \A j \in Ids \ {i} : dataf'[j] = dataf[j] /\ reqf'[j] = reqf[j]
        /\ dataf'[i] = NoFile /\ reqf'[i] \in {reqf[i], NoReq} /\ (ppc' = "unlinkreq" => reqf'[i] = reqf[i])
        /\ ppc = "unlinkreq" => reqf'[i] = NoReq
    <3>1. ppc = "unlinkreq" => dataf[i] = NoFile
      BY DEF SpoolInv, Requested
    <3> QED  BY <1>0, <2>1, <2>2, <3>1 DEF TypeOK
  <2>4. /\ job'.id \in {i, NoId}
        /\ \A j \in Ids : j # i => j # job'.id
        /\ ppc = "unlinkdata" => job' = job
    BY <2>1, <2>2 DEF NoJob
  <2>5. /\ \A x \in Entries(queue) : x.id \in Ids \ {i}
        /\ \A c \in Clients : Live(c) => cid[c] \in Ids \ {i}
    BY Typed DEF SpoolInv, OnePlace, OwnNumber
  <2>20. \A c \in Clients : Live(c)' <=> Live(c)
    BY <2>1 DEF Live
  <2> HIDE DEF i
  <2>6. Owned'
    BY <2>1, <2>3 DEF SpoolInv, Owned
  <2>7. OwnFiles'
    BY <2>1, <2>3, <2>5, <2>20 DEF SpoolInv, OwnFiles
  <2>8. OwnNumber' /\ OnePlace'
    BY <2>1, <2>4, <2>5, <2>20 DEF SpoolInv, OwnNumber, OnePlace
  <2>9. Complete'
    <3>1. \A j \in Ids \ {i} : reqf'[j].full => reqf'[j].cl # None /\ HasData(j)'
      BY <2>1, <2>3 DEF SpoolInv, Complete, HasData
    <3>2. reqf[i].cl = job.cl /\ reqf[i].cl # None
      BY <2>2, Typed
    <3>3. reqf'[i].full => reqf'[i].cl # None /\ dataf'[i] = NoFile /\ printed'[reqf'[i].cl] # {}
      BY <2>1, <2>2, <2>3, <3>2 DEF NoReq
    <3> QED  BY <3>1, <3>3 DEF Complete, HasData
  <2>10. Requested'
    <3>4. \A x \in Entries(queue) : reqf'[x.id] = reqf[x.id]
      BY <2>3, <2>5
    <3>5. Entries(queue') = Entries(queue) /\ \A x \in Entries(queue) : reqf[x.id] = [cl |-> x.cl, full |-> TRUE]
      BY <2>1 DEF SpoolInv, Requested
    <3>1. ASSUME NEW x \in Entries(queue') PROVE reqf'[x.id] = [cl |-> x.cl, full |-> TRUE]
      <4>1. x \in Entries(queue)
        BY <3>5
      <4> QED  BY <3>4, <3>5, <4>1, Zenon
    <3>2. CASE ppc = "unlinkdata"
      <4>1. i = job'.id /\ job' = job
        BY <2>1, <3>2 DEF i
      <4> QED  BY <2>1, <2>2, <2>3, <3>1, <3>2, <4>1 DEF Requested, Working
    <3>3. CASE ppc = "unlinkreq"
      BY <2>1, <3>1, <3>3 DEF Requested, Working
    <3> QED  BY <2>1, <3>2, <3>3
  <2>11. \A j \in Ids : UnderWay(j) /\ (j # i \/ ppc = "unlinkdata") => UnderWay(j)'
    <3>1. i = job.id
      BY DEF i
    <3> QED  BY <2>1, <2>20, <3>1 DEF UnderWay
  <2>12. Remembered'
    BY <2>1, <2>3, <2>11 DEF SpoolInv, Remembered
  <2>13. NoOrphans'
    <3>1. \A j \in Ids \ {i} : Left(j) => Left(j)'
      BY <2>1, <2>3 DEF Left
    <3>2. ppc = "unlinkreq" => \A j \in Ids : j = i => Left(j)'
      BY <2>3 DEF Left, NoFile, NoReq
    <3>3. stops = 0 => \A j \in Ids : (UnderWay(j) \/ Left(j))'
      <4> SUFFICES ASSUME stops = 0, NEW j \in Ids PROVE (UnderWay(j) \/ Left(j))'
        OBVIOUS
      <4>1. UnderWay(j) \/ Left(j)
        BY DEF SpoolInv, NoOrphans
      <4>2. j = i => UnderWay(j)
        BY DEF UnderWay, i
      <4> QED  BY <2>1, <2>11, <3>1, <3>2, <4>1, <4>2
    <3>4. stops = 0 => \A x \in Entries(queue) : dataf'[x.id] # NoFile
      BY <2>3, <2>5 DEF SpoolInv, NoOrphans
    <3> QED  BY <2>1, <3>3, <3>4 DEF NoOrphans
  <2>14. Told' /\ PrintsOwnFile'
    BY <2>1 DEF SpoolInv, Told, PrintsOwnFile
  <2>15. AckedIsSafe'
    <3>1. ASSUME NEW c \in acked, NEW j \in Ids, reqf[j] = [cl |-> c, full |-> TRUE], dataf[j].cl = c, printed[c] = {}
          PROVE  j # i
      BY <2>2, <3>1
    <3> SUFFICES ASSUME NEW c \in acked, printed[c] = {}, c \notin lost
                 PROVE  \E j \in Ids : reqf'[j] = [cl |-> c, full |-> TRUE] /\ dataf'[j].cl = c
      BY <2>1 DEF AckedIsSafe
    <3>2. PICK j \in Ids : reqf[j] = [cl |-> c, full |-> TRUE] /\ dataf[j].cl = c
      BY DEF SpoolInv, AckedIsSafe
    <3>3. j # i
      BY <3>1, <3>2
    <3> QED  BY <2>3, <3>2, <3>3
  <2> QED  BY <2>6, <2>7, <2>8, <2>9, <2>10, <2>12, <2>13, <2>14, <2>15 DEF SpoolInv
<1>6. CASE replace_job
  <2>1. /\ UNCHANGED <<dataf, reqf, cpc, cid, todo, mpc, stops, acked, printed, canceled, lost>>
        /\ queue \in Seq(Jobs) /\ job \in Jobs /\ queue' = <<job>> \o queue /\ job' = NoJob
        /\ ppc = "requeue" /\ ppc' = "get" /\ Working /\ ~Working'
    BY <1>0, <1>6 DEF replace_job, TypeOK, JobHeld, Working
  <2>2. /\ Entries(queue') = Entries(queue) \cup {job} /\ Distinct(queue')
    BY <2>1, Replaced DEF SpoolInv, OnePlace
  <2>3. i \in Ids /\ NoId \notin Ids /\ job'.id = NoId /\ dataf[i].cl = job.cl /\ job.cl # None
        /\ reqf[i] = [cl |-> job.cl, full |-> TRUE]
    BY <2>1, Typed DEF SpoolInv, Requested, NoJob
  <2>4. Owned' /\ OwnFiles' /\ Complete' /\ Told' /\ PrintsOwnFile' /\ AckedIsSafe'
    BY <2>1 DEF SpoolInv, Owned, OwnFiles, Live, Complete, HasData, Told, PrintsOwnFile, AckedIsSafe
  <2>5. OwnNumber' /\ OnePlace'
    BY <2>1, <2>2, <2>3, Typed DEF SpoolInv, OwnNumber, Live, OnePlace
  <2>6. Requested'
    BY <2>1, <2>2, <2>3 DEF SpoolInv, Requested
  <2>7. \A j \in Ids : UnderWay(j) => UnderWay(j)'
    BY <2>1, <2>2, <2>3 DEF UnderWay, Live
  <2>8. dataf[i] # NoFile
    BY <2>3 DEF NoFile
  <2>9. Remembered' /\ NoOrphans'
    BY <2>1, <2>2, <2>7, <2>8 DEF SpoolInv, Remembered, NoOrphans, Left
  <2> QED  BY <2>4, <2>5, <2>6, <2>9 DEF SpoolInv
<1> QED  BY <1>1, <1>2, <1>3, <1>4, <1>5, <1>6 DEF PrinterStep

\* The main thread, the signal thread, and the end of the daemon: the spool stays,
\* and the next start takes up everything in it that is complete.
LEMMA MainSpool ==
  ASSUME LineInv, SpoolInv, MainStep \/ Hup \/ Stop
  PROVE  SpoolInv'
<1> USE DEF daemon, past, spool, client, thread, bounds
<1>0. TypeOK /\ JobHeld /\ Building
  BY DEF LineInv, Ordering
<1>10. mpc = "building" => \A c \in Clients : ~Live(c)
  BY <1>0 DEF Building, Settled, Live, LivePcs
<1>1. CASE Start
  <2>1. /\ UNCHANGED <<dataf, reqf, queue, ppc, job, cpc, cid, stops, acked, printed, lost>>
        /\ mpc = "down" /\ stops # 0
        /\ todo' = Requests \/ canceled' = {reqf[i].cl : i \in Requests}
    BY <1>0, <1>1 DEF Start, Building
  <2>2. /\ Owned' /\ OwnFiles' /\ Complete' /\ Told' /\ PrintsOwnFile' /\ AckedIsSafe' /\ OwnNumber'
        /\ OnePlace' /\ Requested' /\ NoOrphans'
    BY <2>1 DEF SpoolInv, Owned, OwnFiles, Live, Complete, HasData, Told, PrintsOwnFile, AckedIsSafe,
       OwnNumber, OnePlace, Requested, Working, NoOrphans
  <2>3. Remembered'
    <3>1. \A i \in Ids : reqf[i].full => i \in Requests
      BY DEF SpoolInv, Complete, Requests
    <3> QED  BY <2>1, <3>1 DEF Remembered
  <2> QED  BY <2>2, <2>3 DEF SpoolInv
<1>2. ASSUME NEW i \in Ids, BuildEntry(i) \/ BuildRemove(i) \/ BuildCannotOpen(i) PROVE SpoolInv'
  <2>1. /\ mpc = "building" /\ i \in todo /\ todo' = todo \ {i}
        /\ UNCHANGED <<mpc, cpc, cid, job, stops, acked, printed>>
        /\ stops # 0 /\ reqf[i].cl # None /\ i # job.id /\ \A x \in Entries(queue) : x.id # i
    BY <1>0, <1>2 DEF BuildEntry, BuildRemove, BuildCannotOpen, TakeEntry, Building
  <2>2. (\A c \in Clients : ~Live(c)) /\ \A c \in Clients : ~Live(c)'
    BY <1>10, <2>1 DEF Live
  <2>3. OwnFiles' /\ OwnNumber' /\ NoOrphans' /\ Told' /\ PrintsOwnFile'
    BY <2>1, <2>2 DEF OwnFiles, OwnNumber, NoOrphans, Told, PrintsOwnFile, SpoolInv
  <2>4. CASE BuildEntry(i)
    <3> DEFINE e == [id |-> i, cl |-> reqf[i].cl, at |-> stamp + 1]
    <3>1. /\ e \in Jobs /\ e.id = i /\ e.cl = reqf[i].cl /\ queue \in Seq(Jobs) /\ queue' = Append(queue, e)
          /\ UNCHANGED <<dataf, reqf, canceled, lost>> /\ ppc' = Signalled
      BY <1>0, <2>1, <2>4 DEF BuildEntry, Enqueue, TypeOK, Jobs
    <3>2. reqf[i] = [cl |-> e.cl, full |-> TRUE]
      BY <2>4, <3>1, Request, Typed DEF BuildEntry
    <3> HIDE DEF e
    <3>3. Entries(queue') = Entries(queue) \cup {e} /\ Distinct(queue')
      BY <2>1, <3>1, Appended DEF SpoolInv, OnePlace
    <3>4. Owned' /\ Complete' /\ AckedIsSafe'
      BY <2>1, <3>1 DEF SpoolInv, Owned, Complete, HasData, AckedIsSafe
    <3>5. OnePlace'
      BY <2>1, <3>1, <3>3 DEF SpoolInv, OnePlace
    <3>6. Requested'
      BY <2>1, <3>1, <3>2, <3>3 DEF SpoolInv, Requested, Working, Signalled
    <3>7. \A j \in Ids : UnderWay(j) \/ j = i => UnderWay(j)'
      BY <2>1, <2>2, <3>1, <3>3 DEF UnderWay
    <3>8. Remembered'
      BY <2>1, <3>1, <3>7 DEF SpoolInv, Remembered
    <3> QED  BY <2>3, <3>4, <3>5, <3>6, <3>8 DEF SpoolInv
  <2>5. CASE BuildRemove(i)
    <3>1. /\ \A j \in Ids \ {i} : dataf'[j] = dataf[j] /\ reqf'[j] = reqf[j]
          /\ dataf'[i] = NoFile /\ reqf'[i] = NoReq
          /\ lost \subseteq lost' /\ (reqf[i].full => reqf[i].cl \in lost')
          /\ UNCHANGED <<queue, ppc, canceled>>
      BY <1>0, <2>5 DEF BuildRemove, TypeOK
    <3>2. Owned'
      BY <2>1, <3>1 DEF SpoolInv, Owned
    <3>3. Complete'
      BY <2>1, <3>1 DEF SpoolInv, Complete, HasData, NoReq
    <3>4. OnePlace'
      BY <2>1, <3>1 DEF SpoolInv, OnePlace
    <3>5. Requested'
      BY <2>1, <3>1, Typed DEF SpoolInv, Requested, Working
    <3>6. \A j \in Ids : UnderWay(j) => UnderWay(j)'
      BY <2>1, <2>2, <3>1 DEF UnderWay
    <3>7. Remembered'
      BY <2>1, <3>1, <3>6 DEF SpoolInv, Remembered
    <3>8. AckedIsSafe'
      <4>1. ASSUME NEW c \in acked, reqf[i] = [cl |-> c, full |-> TRUE] PROVE c \in lost'
        BY <3>1, <4>1
      <4> SUFFICES ASSUME NEW c \in acked, printed[c] = {}, c \notin lost'
                   PROVE  \E j \in Ids : reqf'[j] = [cl |-> c, full |-> TRUE] /\ dataf'[j].cl = c
        BY <2>1 DEF AckedIsSafe
      <4>2. PICK j \in Ids : reqf[j] = [cl |-> c, full |-> TRUE] /\ dataf[j].cl = c
        BY <3>1 DEF SpoolInv, AckedIsSafe
      <4>3. j # i
        BY <4>1, <4>2
      <4> QED  BY <3>1, <4>2, <4>3
    <3> QED  BY <2>3, <3>2, <3>3, <3>4, <3>5, <3>7, <3>8 DEF SpoolInv
  <2>6. CASE BuildCannotOpen(i)
    <3>1. /\ UNCHANGED <<dataf, reqf, queue, ppc, job, cpc, cid, acked, printed, lost>>
          /\ canceled' = canceled \cup {reqf[i].cl}
      BY <2>6 DEF BuildCannotOpen
    <3>2. Owned' /\ Complete' /\ OnePlace' /\ Requested' /\ AckedIsSafe'
      BY <3>1 DEF SpoolInv, Owned, Complete, HasData, OnePlace, Requested, Working, AckedIsSafe
    <3>3. Remembered'
      BY <2>1, <3>1 DEF SpoolInv, Remembered, UnderWay, Live
    <3> QED  BY <2>3, <3>2, <3>3 DEF SpoolInv
  <2> QED  BY <1>2, <2>4, <2>5, <2>6
<1>3. CASE BuildDone \/ Hup
  <2>1. /\ UNCHANGED <<dataf, reqf, queue, ppc, job, cpc, cid, stops, acked, printed, todo, canceled, lost>>
        /\ mpc # "down"
    BY <1>3 DEF BuildDone, Hup, Up
  <2>2. /\ Owned' /\ OwnFiles' /\ Complete' /\ Told' /\ PrintsOwnFile' /\ AckedIsSafe' /\ OwnNumber'
        /\ OnePlace' /\ Requested'
    BY <2>1 DEF SpoolInv, Owned, OwnFiles, Live, Complete, HasData, Told, PrintsOwnFile, AckedIsSafe,
       OwnNumber, OnePlace, Requested, Working
  <2>3. Remembered' /\ NoOrphans'
    BY <2>1 DEF SpoolInv, Remembered, NoOrphans, UnderWay, Left, Live
  <2> QED  BY <2>2, <2>3 DEF SpoolInv
<1>4. CASE Stop
  <2>1. /\ UNCHANGED <<dataf, reqf, cid, acked, printed, lost>>
        /\ mpc' = "down" /\ queue' = << >> /\ ppc' = "get" /\ job' = NoJob
        /\ cpc' = [c \in Clients |-> IF cpc[c] \in {"new", "refused", "done"} THEN cpc[c] ELSE "cut"]
        /\ stops' = stops + 1
    BY <1>4 DEF Stop
  <2>2. /\ Entries(queue') = {} /\ Distinct(queue') /\ ~Working' /\ stops' # 0
        /\ \A c \in Clients : ~Live(c)'
    BY <1>0, <2>1 DEF Entries, Distinct, Working, TypeOK, Live, LivePcs
  <2>3. Owned' /\ Complete' /\ PrintsOwnFile' /\ AckedIsSafe'
    BY <2>1 DEF SpoolInv, Owned, Complete, HasData, PrintsOwnFile, AckedIsSafe
  <2>4. OwnFiles' /\ OwnNumber' /\ OnePlace' /\ Requested' /\ Remembered' /\ NoOrphans'
    BY <2>1, <2>2 DEF OwnFiles, OwnNumber, OnePlace, Requested, Remembered, NoOrphans
  <2>5. Told'
    BY <1>0, <2>1 DEF SpoolInv, Told, TypeOK
  <2> QED  BY <2>3, <2>4, <2>5 DEF SpoolInv
<1> QED  BY <1>1, <1>2, <1>3, <1>4 DEF MainStep

\* A step that reuses no number keeps the files as they should be.
LEMMA SpoolStep ==
  ASSUME LineInv, SpoolInv, [Next]_vars, [FreshNumber]_vars
  PROVE  SpoolInv'
<1>1. CASE UNCHANGED vars
  BY <1>1 DEF vars, daemon, past, spool, client, thread, bounds, SpoolInv, Owned, OwnFiles, OwnNumber, Live, Complete,
     HasData, Requested, Working, OnePlace, Distinct, Entries, Remembered, NoOrphans, UnderWay, Left, Told,
     PrintsOwnFile, AckedIsSafe
<1>2. CASE Next /\ FreshNumber /\ ~UNCHANGED vars
  <2>1. ~Quiet
    BY <1>2 DEF Quiet
  <2> QED  BY <1>2, <2>1, ClientSpool, PrinterSpool, MainSpool DEF Next
<1> QED  BY <1>1, <1>2

-----------------------------------------------------------------------------
(* The numbers.                                                             *)

\* While nothing is in use that was not handed out, and the numbers have not come
\* round, the next one is not among those.
LEMMA NextIsFresh ==
  ASSUME LineInv, InSequence, ~CameRound
  PROVE  nextjob \notin handed
<1>1. PICK s \in Ids : Turn(s)
  BY DEF InSequence
<1>2. nextjob \in Int /\ s \in Int /\ MaxId \in Nat
  BY Typed, BoundsTyped DEF Ids
<1> QED  BY <1>1, <1>2 DEF Turn

\* A number that is handed out goes on with the turn, or ends it.
LEMMA TurnKept ==
  ASSUME LineInv, InSequence, handed' = handed \cup {nextjob},
         nextjob' = IF Bumped(nextjob) <= 0 THEN 1 ELSE Bumped(nextjob)
  PROVE  InSequence'
<1>1. CASE CameRound
  BY <1>1 DEF CameRound, InSequence
<1>2. CASE ~CameRound
  <2>1. PICK s \in Ids : Turn(s)
    BY <1>2 DEF InSequence
  <2>2. nextjob \in Ids /\ MaxId \in Nat \ {0} /\ Ids = -(MaxId + 1) .. MaxId
    BY Typed, BoundsTyped DEF Ids
  <2>3. nextjob' = IF nextjob = MaxId \/ nextjob < 0 THEN 1 ELSE nextjob + 1
    BY <2>2 DEF Bumped
  <2> USE DEF Turn, InSequence, CameRound
  <2>4. CASE s >= 1 /\ nextjob >= s /\ handed = s .. nextjob - 1
    <3>1. handed' = s .. nextjob
      BY <2>2, <2>4
    <3>2. CASE nextjob # MaxId
      <4>1. Turn(s)'
        BY <2>2, <2>3, <2>4, <3>1, <3>2
      <4> QED  BY <4>1
    <3>3. CASE nextjob = MaxId /\ s = 1
      BY <3>1, <3>3
    <3>4. CASE nextjob = MaxId /\ s # 1
      <4>1. Turn(s)'
        BY <2>2, <2>3, <2>4, <3>1, <3>4
      <4> QED  BY <4>1
    <3> QED  BY <3>2, <3>3, <3>4
  <2>5. CASE s <= 0 /\ nextjob = s /\ handed = {}
    <3>1. Turn(s)'
      BY <2>2, <2>3, <2>5
    <3> QED  BY <3>1
  <2>6. CASE s <= 0 /\ nextjob >= 1 /\ handed = {s} \cup (1 .. nextjob - 1)
    <3>1. handed' = {s} \cup (1 .. nextjob)
      BY <2>2, <2>6
    <3>2. CASE nextjob # MaxId
      <4>1. Turn(s)'
        BY <2>2, <2>3, <2>6, <3>1, <3>2
      <4> QED  BY <4>1
    <3> QED  BY <2>2, <3>1, <3>2
  <2>7. CASE 1 <= nextjob /\ nextjob < s /\ handed = (s .. MaxId) \cup (1 .. nextjob - 1)
    <3>1. handed' = (s .. MaxId) \cup (1 .. nextjob)
      BY <2>2, <2>7
    <3>2. CASE nextjob + 1 < s
      <4>1. Turn(s)'
        BY <2>2, <2>3, <2>7, <3>1, <3>2
      <4> QED  BY <4>1
    <3>3. CASE nextjob + 1 = s
      BY <2>2, <3>1, <3>3
    <3>4. nextjob + 1 < s \/ nextjob + 1 = s
      <4>1. s \in Int /\ nextjob \in Int
        BY <2>2
      <4> QED  BY <2>7, <4>1
    <3> QED  BY <3>2, <3>3, <3>4
  <2> QED  BY <2>1, <2>4, <2>5, <2>6, <2>7
<1> QED  BY <1>1, <1>2

\* A life begins with no number handed out.
LEMMA TurnBegins ==
  ASSUME NEW n \in Ids
  PROVE  (n >= 1 /\ {} = n .. n - 1) \/ n <= 0
BY BoundsTyped DEF Ids

\* Every step keeps the numbers in sequence, and in use only what was handed out.
LEMMA SequenceStep ==
  ASSUME LineInv, HandedOut, InSequence, [Next]_vars
  PROVE  HandedOut' /\ InSequence'
<1> USE DEF daemon, past, spool, client, thread, bounds, CGoto, PGoto
<1>0. TypeOK /\ Numbered /\ JobHeld /\ Building /\ LineInv'
  BY LineStep DEF LineInv, Ordering
<1>1. ASSUME NEW c \in Clients, get_newjobno(c) PROVE HandedOut' /\ InSequence'
  <2>1. /\ handed' = handed \cup {nextjob}
        /\ nextjob' = (IF Bumped(nextjob) <= 0 THEN 1 ELSE Bumped(nextjob))
        /\ UNCHANGED <<dataf, reqf, stops, mpc>> /\ mpc # "down"
    BY <1>1 DEF get_newjobno, NoteNumber, Up
  <2>2. /\ \A d \in Clients : d # c => cid'[d] = cid[d] /\ (Live(d)' <=> Live(d))
        /\ cid'[c] = nextjob
    BY <1>0, <1>1 DEF get_newjobno, TypeOK, Live
  <2>3. HandedOut'
    BY <2>1, <2>2 DEF HandedOut
  <2> QED  BY <2>1, <2>3, TurnKept
<1>2. ASSUME UNCHANGED <<nextjob, handed, stops>>, mpc' = "down" => mpc = "down",
             \A i \in Ids : dataf'[i] # NoFile \/ reqf'[i] # NoReq =>
               \/ dataf[i] # NoFile \/ reqf[i] # NoReq
               \/ \E d \in Clients : Live(d) /\ cid[d] = i,
             \A d \in Clients : Live(d)' => Live(d) /\ cid'[d] = cid[d]
      PROVE  HandedOut' /\ InSequence'
  BY <1>2 DEF HandedOut, InSequence, CameRound, Turn
<1>3. ASSUME NEW c \in Clients, Accept(c) \/ HeaderTimeout(c) \/ Respond(c) \/ AddJob(c) \/ Signal(c)
      PROVE  HandedOut' /\ InSequence'
  <2>1. UNCHANGED <<nextjob, handed, stops, mpc, dataf, reqf>> /\ \A d \in Clients : Live(d)' => Live(d) /\ cid'[d] = cid[d]
    BY <1>0, <1>3 DEF Accept, HeaderTimeout, Respond, AddJob, Signal, Live, LivePcs, TypeOK
  <2> QED  BY <1>2, <2>1
<1>4. ASSUME NEW c \in Clients, CreatData(c) \/ StoreData(c) \/ CreatReq(c) \/ WriteReq(c) \/ CannotStore(c)
      PROVE  HandedOut' /\ InSequence'
  <2>1. /\ UNCHANGED <<nextjob, handed, stops, mpc, cid>>
        /\ Live(c) /\ \A d \in Clients : Live(d)' => Live(d)
        /\ \A i \in Ids : i # cid[c] => dataf'[i] = dataf[i] /\ reqf'[i] = reqf[i]
    <3>1. /\ UNCHANGED <<nextjob, handed, stops, mpc, cid>>
          /\ Live(c) /\ \A d \in Clients : Live(d)' => Live(d)
      BY <1>0, <1>4 DEF CreatData, StoreData, CreatReq, WriteReq, CannotStore, Live, LivePcs, TypeOK
    <3>2. /\ dataf' = dataf \/ \E f : dataf' = [dataf EXCEPT ![cid[c]] = f]
          /\ reqf' = reqf \/ \E f : reqf' = [reqf EXCEPT ![cid[c]] = f]
      BY <1>4 DEF CreatData, StoreData, CreatReq, WriteReq, CannotStore, RemoveFiles
    <3> QED  BY <1>0, <3>1, <3>2 DEF TypeOK
  <2> QED  BY <1>2, <2>1
<1>5. CASE PrinterStep
  <2>1. /\ UNCHANGED <<nextjob, handed, stops, mpc, cpc, cid>>
        /\ \A i \in Ids : dataf'[i] \in {dataf[i], NoFile} /\ reqf'[i] \in {reqf[i], NoReq}
    BY <1>0, <1>5 DEF PrinterStep, GetJob, WaitForJob, update_jobno, CheckConfig, OpenData, CancelJob, CannotPrint,
       PrintJob, UnlinkData, UnlinkReq, replace_job, TypeOK
  <2> QED  BY <1>2, <2>1 DEF Live
<1>6. CASE Start \/ Stop
  <2>1. handed' = {}
    BY <1>6 DEF Start, Stop, HandedOut
  <2>2. stops' # 0
    <3>1. CASE Start
      BY <1>0, <3>1 DEF Start, Building
    <3>2. CASE Stop
      BY <1>0, <3>2, BoundsTyped DEF Stop, TypeOK
    <3> QED  BY <1>6, <3>1, <3>2
  <2>3. nextjob' \in Ids
    BY <1>0 DEF LineInv, Ordering, TypeOK
  <2>5. \E s \in Ids : Turn(s)'
    <3>1. ASSUME NEW n \in Ids, nextjob' = n PROVE Turn(n)'
      <4>1. n >= n
        BY BoundsTyped DEF Ids
      <4> QED  BY <2>1, <3>1, <4>1, TurnBegins DEF Turn
    <3> QED  BY <2>3, <3>1
  <2> QED  BY <2>1, <2>2, <2>5 DEF HandedOut, InSequence
<1>7. ASSUME NEW i \in Ids, BuildEntry(i) \/ BuildRemove(i) \/ BuildCannotOpen(i)
      PROVE  HandedOut' /\ InSequence'
  <2>1. UNCHANGED <<nextjob, handed, stops, mpc>> /\ stops # 0
    BY <1>0, <1>7 DEF BuildEntry, BuildRemove, BuildCannotOpen, TakeEntry, Building
  <2> QED  BY <2>1 DEF HandedOut, InSequence, CameRound, Turn
<1>8. CASE BuildDone \/ Hup \/ Quiet \/ UNCHANGED vars
  <2>1. UNCHANGED <<nextjob, handed, stops, dataf, reqf, cpc, cid>> /\ (mpc' = "down" => mpc = "down")
    BY <1>8 DEF BuildDone, Hup, Quiet, vars
  <2> QED  BY <1>2, <2>1 DEF Live
<1> QED  BY <1>1, <1>3, <1>4, <1>5, <1>6, <1>7, <1>8 DEF Next, ClientStep, MainStep

\* A step that leaves reused as it is hands out a number that nobody uses.
LEMMA NotReused ==
  ASSUME NumberInv, NEW c \in Clients, get_newjobno(c), ~reused'
  PROVE  ~reused /\ ~InUse(nextjob)
<1>1. ~reused /\ ~(InUse(nextjob) /\ (nextjob \notin handed \/ CameRound))
  BY DEF get_newjobno, NoteNumber
<1>2. ~CameRound => nextjob \notin handed
  BY NextIsFresh DEF NumberInv
<1> QED  BY <1>1, <1>2

\* Once true, reused stays true.
LEMMA ReusedStays ==
  ASSUME [Next]_vars, reused
  PROVE  reused'
<1> USE DEF daemon, past, spool, client, thread, bounds
<1>1. ASSUME NEW c \in Clients, get_newjobno(c) PROVE reused'
  BY <1>1 DEF get_newjobno, NoteNumber
<1>2. ASSUME NEW c \in Clients, Accept(c) \/ HeaderTimeout(c) \/ ClientStep(c), ~get_newjobno(c) PROVE reused'
  BY <1>2 DEF Accept, HeaderTimeout, ClientStep, CreatData, StoreData, CreatReq, WriteReq, CannotStore, Respond,
     AddJob, Signal
<1>3. CASE PrinterStep
  BY <1>3 DEF PrinterStep, GetJob, WaitForJob, update_jobno, CheckConfig, OpenData, CancelJob, CannotPrint, PrintJob,
     UnlinkData, UnlinkReq, replace_job
<1>4. CASE MainStep \/ Hup \/ Stop \/ Quiet \/ UNCHANGED vars
  BY <1>4 DEF MainStep, Start, BuildEntry, BuildRemove, BuildCannotOpen, BuildDone, Hup, Stop, Quiet, vars
<1> QED  BY <1>1, <1>2, <1>3, <1>4 DEF Next

\* So the daemon keeps the whole invariant.
LEMMA NumberStep ==
  ASSUME NumberInv, [Next]_vars
  PROVE  NumberInv'
<1>1. LineInv' /\ HandedOut' /\ InSequence'
  BY LineStep, SequenceStep DEF NumberInv
<1>2. ASSUME ~reused' PROVE SpoolInv'
  <2>1. ~reused
    BY <1>2, ReusedStays
  <2>2. FreshNumber
    BY <1>2, NotReused DEF FreshNumber
  <2> QED  BY <2>1, <2>2, SpoolStep DEF NumberInv
<1> QED  BY <1>1, <1>2 DEF NumberInv

LEMMA NumberInvariance == Spec => []NumberInv
<1>1. Init => NumberInv
  <2> SUFFICES ASSUME Init PROVE HandedOut /\ InSequence
    BY InitLine, InitSpool DEF NumberInv
  <2>1. handed = {} /\ nextjob \in Ids
    BY InitLine, Typed DEF Init
  <2>2. HandedOut
    BY DEF Init, HandedOut, Live, LivePcs
  <2>3. nextjob >= nextjob
    BY <2>1, BoundsTyped DEF Ids
  <2>4. Turn(nextjob)
    BY <2>1, <2>3, TurnBegins DEF Turn
  <2> QED  BY <2>1, <2>2, <2>4 DEF InSequence
<1> QED  BY <1>1, NumberStep, PTL DEF Spec

-----------------------------------------------------------------------------
(* What the invariant says of the properties.                               *)

LEMMA Promises ==
  ASSUME NumberInv
  PROVE  OneJobOneFile /\ AckedIsKept /\ SpoolIsCleared /\ NeverForgotten
<1>1. LineInv /\ TypeOK /\ JobHeld /\ Building
  BY DEF NumberInv, LineInv, Ordering
<1> SUFFICES ASSUME ~reused, SpoolInv
             PROVE  QueuedOnce /\ PrintsOwnFile /\ AckedIsSafe /\ SpoolIsCleared /\ NeverForgotten
  BY <1>1 DEF NumberInv, OneJobOneFile, AckedIsKept, SpoolIsCleared, NeverForgotten
<1>2. QueuedOnce
  <2>1. \A m, n \in DOMAIN queue : queue[m].id = queue[n].id => m = n
    BY DEF SpoolInv, OnePlace, Distinct
  <2>2. InLine = {x.id : x \in Entries(queue)}
    BY DEF InLine, Entries
  <2>3. job.id \notin InLine /\ todo \cap (InLine \cup {job.id}) = {}
    BY <1>1, <2>2 DEF SpoolInv, OnePlace, Building
  <2>4. \A c \in Clients : cpc[c] = "add" => cid[c] \notin InLine \cup {job.id}
    BY <2>2 DEF SpoolInv, OwnNumber, Live, LivePcs
  <2> QED  BY <2>1, <2>3, <2>4 DEF QueuedOnce
<1>4. SpoolIsCleared
  <2> SUFFICES ASSUME stops = 0, ppc = "waiting", queue = << >>, \A c \in Clients : cpc[c] \in {"new", "done", "refused"},
                      NEW i \in Ids
               PROVE  {dataf[i].cl, reqf[i].cl} \subseteq {None} \cup canceled
    BY DEF SpoolIsCleared
  <2>1. Entries(queue) = {} /\ job.id = NoId /\ i # NoId /\ \A c \in Clients : ~Live(c)
    BY <1>1, Typed DEF Entries, Live, LivePcs, Working
  <2>2. ~UnderWay(i)
    BY <2>1 DEF UnderWay
  <2>3. Left(i)
    BY <2>2 DEF SpoolInv, NoOrphans
  <2> QED  BY <2>3 DEF Left
<1>5. NeverForgotten
  <2> SUFFICES ASSUME mpc # "down", NEW i \in Ids, reqf[i].full, dataf[i] # NoFile, reqf[i].cl \notin canceled
               PROVE  \/ i \in InLine \/ i = job.id \/ i \in todo
                      \/ \E c \in Clients : cpc[c] \in {"respond", "add"} /\ cid[c] = i
    BY DEF NeverForgotten, Up
  <2>1. UnderWay(i) \/ i \in todo
    BY DEF SpoolInv, Remembered
  <2>2. ASSUME NEW x \in Entries(queue), x.id = i PROVE i \in InLine
    BY <2>2 DEF Entries, InLine
  <2>3. ASSUME NEW c \in Clients, Live(c), cid[c] = i PROVE cpc[c] \in {"respond", "add"}
    <3>1. reqf[i] # NoReq /\ reqf[i] # [cl |-> c, full |-> FALSE]
      BY DEF NoReq
    <3> QED  BY <2>3, <3>1 DEF SpoolInv, OwnFiles, Live, LivePcs
  <2> QED  BY <2>1, <2>2, <2>3 DEF UnderWay
<1> QED  BY <1>2, <1>4, <1>5 DEF SpoolInv

\* As long as no number in use was handed out, a number stands for one job and one
\* file, and no job is queued twice: files of one name are created, filled, queued,
\* printed and unlinked by one thread after the other.
THEOREM NumbersApart == Spec => []OneJobOneFile
BY NumberInvariance, Promises, PTL

\* Until then what a client was told of is printed, or in the spool where a restart
\* finds it, or was removed by build_qonstart as unreadable: the answer goes out
\* after both files are complete, and nothing else unlinks them before the printer
\* has accepted the job.
THEOREM JobsKept == Spec => []AckedIsKept
BY NumberInvariance, Promises, PTL

\* A complete job is in line, in hand, being queued or still to be found: no path
\* of the printer thread drops one and build_qonstart leaves none out, except where
\* a call on one of its own files fails.
THEOREM JobsRemembered == Spec => []NeverForgotten
BY NumberInvariance, Promises, PTL

\* Every path of client_thread and printer_thread takes its files away with it, but
\* for the jobs that were canceled.
THEOREM FilesRemoved == Spec => []SpoolIsCleared
BY NumberInvariance, Promises, PTL

\* All of it at once.
THEOREM SpoolKept == Spec => [](OneJobOneFile /\ AckedIsKept /\ NeverForgotten /\ SpoolIsCleared)
BY NumberInvariance, Promises, PTL

\* In its first life, whatever number it read from the job ID file, the daemon
\* hands out no number in use before all positive numbers have been given out: not
\* after a wrap either, nor from a spoiled file.
THEOREM NumbersFresh == Spec => [][stops = 0 /\ ~CameRound => FreshNumber]_vars
<1>1. ASSUME NumberInv, [Next]_vars PROVE [stops = 0 /\ ~CameRound => FreshNumber]_vars
  <2> SUFFICES ASSUME stops = 0, ~CameRound, NEW c \in Clients, get_newjobno(c) PROVE ~InUse(nextjob)
    BY DEF FreshNumber
  <2>1. nextjob \notin handed /\ nextjob \in Ids
    BY <1>1, NextIsFresh, Typed DEF NumberInv
  <2>2. InUse(nextjob) => nextjob \in handed
    BY <1>1, <2>1 DEF InUse, NumberInv, HandedOut, Live, LivePcs
  <2> QED  BY <2>1, <2>2
<1> QED  BY <1>1, NumberInvariance, PTL DEF Spec
=============================================================================
