----------------------------- MODULE PrintSpool -----------------------------
(***************************************************************************)
(* The job path of the print spooler apue.3e/printer/printd.c: client      *)
(* threads store a job in the spool directories and queue it, the printer  *)
(* thread takes jobs from the queue, the signal thread asks for a re-read  *)
(* of the configuration, and a daemon that was killed is started again and *)
(* rebuilds its queue from the spool.                                      *)
(*                                                                         *)
(* A step is one system call that others can observe, or one critical      *)
(* section of joblock or configlock (nothing blocks inside one, except     *)
(* pthread_cond_wait, which has a state of its own).  A job's data is      *)
(* abstracted to whose it is and whether all of it is there.               *)
(***************************************************************************)
EXTENDS Integers, Sequences, FiniteSets
LOCAL INSTANCE SequencesExt

CONSTANTS
  Clients,      \* client connections, one job each
  None,         \* no client
  MaxId,        \* INT32_MAX: job numbers wrap from MaxId to 1
  Base,         \* ten: the digits of a number in the job ID file
  Written,      \* numbers that earlier daemons wrote to that file, with the spool emptied since
  MaxStops,     \* bound: how often the daemon is killed or terminated
  Hups,         \* bound: SIGHUPs
  MaxDefers,    \* bound: failed attempts to print
  Faults        \* the calls that may fail, a subset of AllFaults

AllFaults == {"timeout", "stall", "write", "creat", "open", "read"}

ASSUME BoundsTyped ==
  /\ MaxId \in Nat \ {0} /\ Base \in Nat \ {0, 1}
  /\ MaxStops \in Nat /\ Hups \in Nat /\ MaxDefers \in Nat
  /\ Faults \subseteq AllFaults
  /\ Written \subseteq 1 .. MaxId
  /\ None \notin Clients

\* int32_t: a number read from a spoiled job ID file may be negative.
Ids == -(MaxId + 1) .. MaxId
NoId == MaxId + 1

VARIABLES
  nextjob,   \* the next job number
  jobno,     \* the characters of the job ID file
  dataf,     \* DATADIR: dataf[i] = [cl, whole], cl = None if there is no file
  reqf,      \* REQDIR: reqf[i] = [cl, full], cl = None if there is no file
  queue,     \* jobhead .. jobtail
  cpc,       \* client threads
  cid,       \* the job number of each client thread
  ppc,       \* the printer thread
  job,       \* the job the printer thread works on
  mpc,       \* the main thread
  todo,      \* entries of REQDIR that build_qonstart has not read yet
  reread,    \* the configuration is to be read again
  stops, hups, defers,
  acked,     \* history: clients that were told "request ID"
  printed,   \* history: printed[c]: what the printer accepted for client c
  stamp,     \* history: jobs queued in this life of the daemon
  handed,    \* history: numbers that this life handed out
  reused,    \* history: a number in use was handed out after a restart or a whole turn
  canceled,  \* history: clients whose stored job this life of the daemon gave up
  lost       \* history: clients whose complete request was removed as unreadable

spool == <<dataf, reqf>>
client == <<cpc, cid>>
thread == <<ppc, job>>
past == <<handed, reused, canceled, lost>>
daemon == <<nextjob, jobno, mpc, todo, reread, past>>
bounds == <<stops, hups, defers>>
vars == <<daemon, spool, queue, client, thread, bounds, acked, printed, stamp>>

NoFile == [cl |-> None, whole |-> FALSE]
NoReq == [cl |-> None, full |-> FALSE]
NoJob == [id |-> NoId, cl |-> None, at |-> 0]

-----------------------------------------------------------------------------
(* The job ID file: a number in digits, a "-" before a negative one.        *)

Minus == Base

\* The number a text stands for.
atol(t) ==
  LET Value(digits) == FoldLeft(LAMBDA v, d : v * Base + d, 0, digits)
  IN  IF Head(t) = Minus THEN -Value(Tail(t)) ELSE Value(t)

\* The text of a number, without leading zeros: one text, as a set of one.
Digits(n) == 1 + Cardinality({k \in 1 .. MaxId : Base ^ k <= n})
sprintf(i) ==
  {t \in [1 .. (IF i < 0 THEN 1 + Digits(-i) ELSE Digits(i)) -> 0 .. Base] :
     atol(t) = i /\ \A n \in DOMAIN t : t[n] = Minus => n = 1 /\ i < 0}

\* A write at offset 0 of a file that is not truncated.
Overwrite(t, old) == t \o SubSeq(old, Len(t) + 1, Len(old))

\* What init_request makes of the file: 1 if it is empty, else the number as an int32_t.
init_request(file) ==
  IF file = << >> THEN {1} ELSE {i \in Ids : (i - atol(file)) % (2 * (MaxId + 1)) = 0}

\* The daemon is up for the first time, or for the first time since the spool was empty.
Init ==
  /\ jobno \in {<< >>} \cup
       UNION {{Overwrite(t, old) : t \in sprintf(m), old \in sprintf(n)} : m, n \in Written}
  /\ nextjob \in init_request(jobno)
  /\ handed = {} /\ reused = FALSE /\ canceled = {} /\ lost = {}
  /\ dataf = [i \in Ids |-> NoFile]
  /\ reqf = [i \in Ids |-> NoReq]
  /\ queue = << >>
  /\ cpc = [c \in Clients |-> "new"]
  /\ cid = [c \in Clients |-> NoId]
  /\ ppc = "get" /\ job = NoJob
  /\ mpc = "serving" /\ todo = {}
  /\ reread = FALSE
  /\ stops = 0 /\ hups = 0 /\ defers = 0
  /\ acked = {}
  /\ printed = [c \in Clients |-> {}]
  /\ stamp = 0

Up == mpc # "down"
CGoto(c, from, to) == Up /\ cpc[c] = from /\ cpc' = [cpc EXCEPT ![c] = to]
PGoto(from, to) == Up /\ ppc = from /\ ppc' = to

-----------------------------------------------------------------------------
(* client_thread.                                                           *)

\* The main thread accepts a connection and starts a thread, which reads the
\* request header, or is answered with an error.
Accept(c) ==
  /\ mpc = "serving"
  /\ CGoto(c, "new", "number")
  /\ UNCHANGED <<daemon, spool, queue, cid, thread, bounds, acked, printed, stamp>>

HeaderTimeout(c) ==
  /\ "timeout" \in Faults /\ mpc = "serving"
  /\ CGoto(c, "new", "refused")
  /\ UNCHANGED <<daemon, spool, queue, cid, thread, bounds, acked, printed, stamp>>

\* A number is in use while a file of the spool has it, or a thread that is about
\* to create one.
InUse(i) ==
  \/ dataf[i] # NoFile \/ reqf[i] # NoReq
  \/ \E c \in Clients : cpc[c] = "creat" /\ cid[c] = i

\* This life has handed out all positive numbers: they come again.
CameRound == 1 .. MaxId \subseteq handed

\* History: the number that is handed out is in use, and not because the counter
\* stood still.
NoteNumber ==
  /\ handed' = handed \cup {nextjob}
  /\ reused' = (reused \/ (InUse(nextjob) /\ (nextjob \notin handed \/ CameRound)))

\* Mutation: the number is not advanced.
StaleJobno(c) ==
  /\ CGoto(c, "number", "creat")
  /\ cid' = [cid EXCEPT ![c] = nextjob]
  /\ NoteNumber
  /\ UNCHANGED <<nextjob, jobno, mpc, todo, reread, canceled, lost>>
  /\ UNCHANGED <<spool, queue, thread, bounds, acked, printed, stamp>>

\* nextjob++, which wraps as the builds of gcc do.
Bumped(n) == IF n = MaxId THEN -(MaxId + 1) ELSE n + 1

get_newjobno(c) ==
  /\ CGoto(c, "number", "creat")
  /\ cid' = [cid EXCEPT ![c] = nextjob]
  /\ nextjob' = IF Bumped(nextjob) <= 0 THEN 1 ELSE Bumped(nextjob)
  /\ NoteNumber
  /\ UNCHANGED <<jobno, mpc, todo, reread, canceled, lost>>
  /\ UNCHANGED <<spool, queue, thread, bounds, acked, printed, stamp>>

\* creat() of the data file truncates a file that is already there.
CreatData(c) ==
  /\ CGoto(c, "creat", "store")
  /\ dataf' = [dataf EXCEPT ![cid[c]] = [cl |-> c, whole |-> FALSE]]
  /\ UNCHANGED <<daemon, reqf, queue, cid, thread, bounds, acked, printed, stamp>>

\* The loop of tread and write.  It ends when tread returns 0 or -1, so a client
\* that stays silent for 20 seconds ends it with part of the file stored.
StoreData(c) ==
  /\ CGoto(c, "store", "creatreq")
  /\ \E whole \in {TRUE} \cup (IF "stall" \in Faults THEN {FALSE} ELSE {}) :
       dataf' = [dataf EXCEPT ![cid[c]].whole = whole]
  /\ UNCHANGED <<daemon, reqf, queue, cid, thread, bounds, acked, printed, stamp>>

CreatReq(c) ==
  /\ CGoto(c, "creatreq", "writereq")
  /\ reqf' = [reqf EXCEPT ![cid[c]] = [cl |-> c, full |-> FALSE]]
  /\ UNCHANGED <<daemon, dataf, queue, cid, thread, bounds, acked, printed, stamp>>

\* Mutation: the answer is sent before the request file is complete.
WriteReqLate(c) ==
  /\ CGoto(c, "writereq", "respond")
  /\ UNCHANGED <<daemon, spool, queue, cid, thread, bounds, acked, printed, stamp>>

WriteReq(c) ==
  /\ CGoto(c, "writereq", "respond")
  /\ reqf' = [reqf EXCEPT ![cid[c]].full = TRUE]
  /\ UNCHANGED <<daemon, dataf, queue, cid, thread, bounds, acked, printed, stamp>>

\* Mutation: only the request file is removed.
RemoveReqOnly(c) ==
  /\ reqf' = IF cpc[c] = "writereq" THEN [reqf EXCEPT ![cid[c]] = NoReq] ELSE reqf
  /\ UNCHANGED dataf

\* What the error paths unlink: nothing when the data file could not be created.
RemoveFiles(c) ==
  /\ dataf' = IF cpc[c] # "creat" THEN [dataf EXCEPT ![cid[c]] = NoFile] ELSE dataf
  /\ reqf' = IF cpc[c] = "writereq" THEN [reqf EXCEPT ![cid[c]] = NoReq] ELSE reqf

\* A creat or a write fails and the client is told that there is no job.
CannotStore(c) ==
  /\ \/ cpc[c] \in {"creat", "creatreq"} /\ "creat" \in Faults
     \/ cpc[c] \in {"store", "writereq"} /\ "write" \in Faults
  /\ CGoto(c, cpc[c], "refused")
  /\ RemoveFiles(c)
  /\ UNCHANGED <<daemon, queue, cid, thread, bounds, acked, printed, stamp>>

Respond(c) ==
  /\ CGoto(c, "respond", "add")
  /\ acked' = acked \cup {c}
  /\ UNCHANGED <<daemon, spool, queue, cid, thread, bounds, printed, stamp>>

\* add_job, its critical section; the job carries its place in the line.
Enqueue(i, c) ==
  /\ queue' = Append(queue, [id |-> i, cl |-> c, at |-> stamp + 1])
  /\ stamp' = stamp + 1

AddJob(c) ==
  /\ CGoto(c, "add", "signal")
  /\ Enqueue(cid[c], c)
  /\ UNCHANGED <<daemon, spool, cid, thread, bounds, acked, printed>>

\* pthread_cond_signal, after joblock is released; only the printer thread waits.
Signalled == IF ppc = "waiting" THEN "get" ELSE ppc

Signal(c) ==
  /\ CGoto(c, "signal", "done")
  /\ ppc' = Signalled
  /\ UNCHANGED <<daemon, spool, queue, cid, job, bounds, acked, printed, stamp>>

-----------------------------------------------------------------------------
(* printer_thread.                                                          *)

\* Wait for a job and remove it from the head of the list.
GetJob ==
  /\ queue # << >>
  /\ PGoto("get", "update")
  /\ job' = Head(queue)
  /\ queue' = Tail(queue)
  /\ UNCHANGED <<daemon, spool, client, bounds, acked, printed, stamp>>

WaitForJob ==
  /\ queue = << >>
  /\ PGoto("get", "waiting")
  /\ UNCHANGED <<daemon, spool, queue, client, job, bounds, acked, printed, stamp>>

\* update_jobno writes over the file from its start and does not truncate it.  It
\* reads nextjob without joblock, so perhaps between the two assignments of
\* get_newjobno.
update_jobno ==
  /\ PGoto("update", "config")
  /\ \E n \in {nextjob} \cup {Bumped(nextjob) : c \in {d \in Clients : cpc[d] = "number"}} :
       \E t \in sprintf(n) : jobno' = Overwrite(t, jobno)
  /\ UNCHANGED <<nextjob, mpc, todo, reread, past>>
  /\ UNCHANGED <<spool, queue, client, job, bounds, acked, printed, stamp>>

\* A re-read that finds no printer in the configuration ends the daemon: see Stop.
CheckConfig ==
  /\ PGoto("config", "open")
  /\ reread' = FALSE
  /\ UNCHANGED <<nextjob, jobno, mpc, todo, past>>
  /\ UNCHANGED <<spool, queue, client, job, bounds, acked, printed, stamp>>

OpenData ==
  /\ PGoto("open", "connect")
  /\ dataf[job.id] # NoFile
  /\ UNCHANGED <<daemon, spool, queue, client, job, bounds, acked, printed, stamp>>

\* "job canceled": the data file is gone, or open or fstat fails, and the job is
\* freed; its files stay.
CancelJob ==
  /\ PGoto("open", "get")
  /\ dataf[job.id] = NoFile \/ "open" \in Faults
  /\ job' = NoJob
  /\ canceled' = IF dataf[job.id] = NoFile THEN canceled ELSE canceled \cup {job.cl}
  /\ UNCHANGED <<nextjob, jobno, mpc, todo, reread, handed, reused, lost>>
  /\ UNCHANGED <<spool, queue, client, bounds, acked, printed, stamp>>

\* connect_retry, the write of the headers or of the data fails, or the printer
\* reports an error; it may have printed the job all the same.
CannotPrint ==
  /\ defers < MaxDefers
  /\ PGoto("connect", "requeue")
  /\ \E got \in BOOLEAN :
       printed' = IF got THEN [printed EXCEPT ![job.cl] = @ \cup {dataf[job.id]}] ELSE printed
  /\ defers' = defers + 1
  /\ UNCHANGED <<daemon, spool, queue, client, job, stops, hups, acked, stamp>>

\* The printer took the whole file and printer_status returned 1.
PrintJob ==
  /\ PGoto("connect", "unlinkdata")
  /\ printed' = [printed EXCEPT ![job.cl] = @ \cup {dataf[job.id]}]
  /\ UNCHANGED <<daemon, spool, queue, client, job, bounds, acked, stamp>>

UnlinkData ==
  /\ PGoto("unlinkdata", "unlinkreq")
  /\ dataf' = [dataf EXCEPT ![job.id] = NoFile]
  /\ UNCHANGED <<daemon, reqf, queue, client, job, bounds, acked, printed, stamp>>

UnlinkReq ==
  /\ PGoto("unlinkreq", "get")
  /\ reqf' = [reqf EXCEPT ![job.id] = NoReq]
  /\ job' = NoJob
  /\ UNCHANGED <<daemon, dataf, queue, client, bounds, acked, printed, stamp>>

\* Mutations: the job goes to the end of the line; the job is forgotten.
RequeueLast ==
  /\ PGoto("requeue", "get")
  /\ queue' = Append(queue, job)
  /\ job' = NoJob
  /\ UNCHANGED <<daemon, spool, client, bounds, acked, printed, stamp>>
RequeueLost ==
  /\ PGoto("requeue", "get")
  /\ job' = NoJob
  /\ UNCHANGED <<daemon, spool, queue, client, bounds, acked, printed, stamp>>

\* replace_job puts the job back at the head; the thread then sleeps a minute.
replace_job ==
  /\ PGoto("requeue", "get")
  /\ queue' = <<job>> \o queue
  /\ job' = NoJob
  /\ UNCHANGED <<daemon, spool, client, bounds, acked, printed, stamp>>

-----------------------------------------------------------------------------
(* signal_thread, and the life of the daemon.                               *)

Hup ==
  /\ Up /\ hups < Hups
  /\ reread' = TRUE
  /\ hups' = hups + 1
  /\ UNCHANGED <<nextjob, jobno, mpc, todo, past>>
  /\ UNCHANGED <<spool, queue, client, thread, stops, defers, acked, printed, stamp>>

\* The daemon is killed, gets SIGTERM, or exits itself: the configuration names
\* no printer, malloc fails in add_job, the job ID file cannot be written.  Its
\* threads and its queue are gone, the spool stays.
Stop ==
  /\ Up /\ stops < MaxStops
  /\ stops' = stops + 1
  /\ mpc' = "down"
  /\ queue' = << >>
  /\ ppc' = "get" /\ job' = NoJob
  /\ cpc' = [c \in Clients |-> IF cpc[c] \in {"new", "refused", "done"} THEN cpc[c] ELSE "cut"]
  /\ reread' = FALSE /\ todo' = {} /\ stamp' = 0
  /\ handed' = {} /\ canceled' = {}
  /\ UNCHANGED <<nextjob, jobno, reused, lost, spool, cid, hups, defers, acked, printed>>

\* init_request, then the threads are started, then build_qonstart opens REQDIR.
\* If it cannot, it returns: whatever is there waits for the next start.
Requests == {i \in Ids : reqf[i].cl # None}

Start ==
  /\ mpc = "down"
  /\ mpc' = "building"
  /\ nextjob' \in init_request(jobno)
  /\ \/ todo' = Requests /\ canceled' = {}
     \/ /\ "open" \in Faults
        /\ todo' = {} /\ canceled' = {reqf[i].cl : i \in Requests}
  /\ UNCHANGED <<jobno, reread, handed, reused, lost>>
  /\ UNCHANGED <<spool, queue, client, thread, bounds, acked, printed, stamp>>

\* build_qonstart, one entry of REQDIR, in any order.
TakeEntry(i) == mpc = "building" /\ i \in todo /\ todo' = todo \ {i}

\* Mutation: the entry is skipped.
BuildSkip(i) ==
  /\ TakeEntry(i)
  /\ UNCHANGED <<nextjob, jobno, mpc, reread, past>>
  /\ UNCHANGED <<spool, queue, client, thread, bounds, acked, printed, stamp>>

\* The request is read and queued.
BuildEntry(i) ==
  /\ TakeEntry(i)
  /\ reqf[i].full
  /\ Enqueue(i, reqf[i].cl)
  /\ ppc' = Signalled
  /\ UNCHANGED <<nextjob, jobno, mpc, reread, past, spool, client, job, bounds, acked, printed>>

\* It is not complete, or read fails: it is removed with its data.
BuildRemove(i) ==
  /\ TakeEntry(i)
  /\ ~reqf[i].full \/ "read" \in Faults
  /\ dataf' = [dataf EXCEPT ![i] = NoFile]
  /\ reqf' = [reqf EXCEPT ![i] = NoReq]
  /\ lost' = IF reqf[i].full THEN lost \cup {reqf[i].cl} ELSE lost
  /\ UNCHANGED <<nextjob, jobno, mpc, reread, handed, reused, canceled>>
  /\ UNCHANGED <<queue, client, thread, bounds, acked, printed, stamp>>

\* It cannot be opened: it stays, and is not queued.
BuildCannotOpen(i) ==
  /\ "open" \in Faults
  /\ TakeEntry(i)
  /\ canceled' = canceled \cup {reqf[i].cl}
  /\ UNCHANGED <<nextjob, jobno, mpc, reread, handed, reused, lost>>
  /\ UNCHANGED <<spool, queue, client, thread, bounds, acked, printed, stamp>>

BuildDone ==
  /\ mpc = "building" /\ todo = {}
  /\ mpc' = "serving"
  /\ UNCHANGED <<nextjob, jobno, todo, reread, past>>
  /\ UNCHANGED <<spool, queue, client, thread, bounds, acked, printed, stamp>>

ClientStep(c) ==
  \/ get_newjobno(c) \/ CreatData(c) \/ StoreData(c)
  \/ CreatReq(c) \/ WriteReq(c) \/ CannotStore(c) \/ Respond(c) \/ AddJob(c) \/ Signal(c)
PrinterStep ==
  \/ GetJob \/ WaitForJob \/ update_jobno \/ CheckConfig \/ OpenData \/ CancelJob
  \/ CannotPrint \/ PrintJob \/ UnlinkData \/ UnlinkReq \/ replace_job
MainStep ==
  \/ Start \/ BuildDone
  \/ \E i \in Ids : BuildEntry(i) \/ BuildRemove(i) \/ BuildCannotOpen(i)

\* Everybody is served; the printer thread and the main thread wait.
Quiet ==
  /\ mpc = "serving" /\ ppc = "waiting" /\ queue = << >>
  /\ \A c \in Clients : cpc[c] \in {"new", "done", "refused", "cut"}
  /\ UNCHANGED vars

Next ==
  \/ \E c \in Clients : Accept(c) \/ HeaderTimeout(c) \/ ClientStep(c)
  \/ PrinterStep \/ MainStep \/ Hup \/ Stop \/ Quiet

Spec == Init /\ [][Next]_vars

\* Threads are scheduled; whoever killed the daemon starts it again; the
\* printer answers at last, because failed attempts are bounded.
Fairness ==
  /\ \A c \in Clients : WF_vars(ClientStep(c))
  /\ WF_vars(PrinterStep)
  /\ WF_vars(MainStep)
FairSpec == Spec /\ Fairness

-----------------------------------------------------------------------------
(* Properties.                                                              *)

Jobs == [id : Ids, cl : Clients, at : Nat]
TypeOK ==
  /\ nextjob \in Ids /\ jobno \in Seq(0 .. Base)
  /\ dataf \in [Ids -> [cl : Clients \cup {None}, whole : BOOLEAN]]
  /\ reqf \in [Ids -> [cl : Clients \cup {None}, full : BOOLEAN]]
  /\ queue \in Seq(Jobs)
  /\ cpc \in [Clients -> {"new", "number", "creat", "store", "creatreq", "writereq",
                          "respond", "add", "signal", "done", "refused", "cut"}]
  /\ cid \in [Clients -> Ids \cup {NoId}]
  /\ ppc \in {"get", "waiting", "update", "config", "open", "connect", "unlinkdata",
              "unlinkreq", "requeue"}
  /\ job \in Jobs \cup {NoJob}
  /\ mpc \in {"serving", "building", "down"}
  /\ todo \subseteq Ids
  /\ reread \in BOOLEAN
  /\ stops \in 0 .. MaxStops /\ hups \in 0 .. Hups /\ defers \in 0 .. MaxDefers
  /\ acked \subseteq Clients
  /\ printed \in [Clients -> SUBSET [cl : Clients \cup {None}, whole : BOOLEAN]]
  /\ stamp \in Nat
  /\ handed \subseteq Ids /\ reused \in BOOLEAN
  /\ canceled \subseteq Clients /\ lost \subseteq Clients

\* A client that was told "request ID" has its job printed, or it is in the spool
\* with its own data and a complete request, where a restart finds it, or a
\* restart could not read the request.
AckedIsSafe ==
  \A c \in acked :
    \/ printed[c] # {} \/ c \in lost
    \/ \E i \in Ids : reqf[i] = [cl |-> c, full |-> TRUE] /\ dataf[i].cl = c

\* What is printed under a client's request is that client's file.
PrintsOwnFile == \A c \in Clients : \A d \in printed[c] : d.cl = c

\* "Read the file and store it in the spool directory": what is printed for a
\* client that was told "request ID" is the whole file.
PrintsWholeFile == \A c \in acked : \A d \in printed[c] : d.whole

\* A job is in one place only: no number is queued twice, queued while it is
\* being printed, or about to be queued while it is.
InLine == {queue[n].id : n \in DOMAIN queue}
QueuedOnce ==
  /\ \A m, n \in DOMAIN queue : queue[m].id = queue[n].id => m = n
  /\ job.id \notin InLine
  /\ todo \cap (InLine \cup {job.id}) = {}
  /\ \A c \in Clients : cpc[c] = "add" => cid[c] \notin InLine \cup {job.id}

(* The daemon does not check that a number it hands out is free.  The job ID   *)
(* file lags behind, a write of it leaves the old digits behind the new ones,  *)
(* and after MaxId numbers the first comes again.  Once that gave out a number *)
(* in use (reused), files of two jobs share a name, see run spool_reuse; the   *)
(* properties are about the daemon before.                                     *)

\* A number stands for one job and one file, in its life and after a restart: the
\* state has its type, numbers among them; no number is in line twice, and nothing
\* is printed under another client's request.
OneJobOneFile == TypeOK /\ (~reused => QueuedOnce /\ PrintsOwnFile)

\* An acknowledged job is safe.
AckedIsKept == ~reused => AckedIsSafe

\* Jobs are printed in the order in which they were queued, a deferred one first.
FirstComeFirstServed ==
  /\ \A m, n \in DOMAIN queue : m < n => queue[m].at < queue[n].at
  /\ job # NoJob => \A n \in DOMAIN queue : job.at < queue[n].at

\* A job whose two files are complete is not forgotten: it is in line, being
\* printed, still being queued by its client, or still to be found at start-up,
\* unless a call on its files failed: then it stays in the spool for the next start.
NeverForgotten ==
  Up /\ ~reused => \A i \in Ids : reqf[i].full /\ dataf[i] # NoFile =>
    \/ i \in InLine \/ i = job.id \/ i \in todo
    \/ \E c \in Clients : cpc[c] \in {"respond", "add"} /\ cid[c] = i
    \/ reqf[i].cl \in canceled

\* When every client is served and the printer thread waits, the spool of a daemon
\* that was never interrupted holds no file but those of canceled jobs: neither a
\* printed nor a refused job leaves anything behind.
SpoolIsCleared ==
  (/\ stops = 0 /\ ~reused /\ ppc = "waiting" /\ queue = << >>
   /\ \A c \in Clients : cpc[c] \in {"new", "done", "refused"}) =>
  \A i \in Ids : {dataf[i].cl, reqf[i].cl} \subseteq {None} \cup canceled

\* Every acknowledged job is printed, whatever SIGHUPs, failed attempts and
\* restarts come in between, unless the last start could not read its request or
\* open one of its files.
AckedIsPrinted ==
  \A c \in Clients :
    (c \in acked) ~> [](printed[c] # {} \/ c \in canceled \/ c \in lost \/ reused)

=============================================================================
