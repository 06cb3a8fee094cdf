--------------------------------- MODULE Db ---------------------------------
(***************************************************************************)
(* The multi-user database library apue.3e/db/db.c, after db_open.         *)
(*                                                                         *)
(* Several processes share an index file and a data file and coordinate    *)
(* only through byte-range record locks.  A step of this module is one     *)
(* system call of the library (fcntl, read/readv, write/writev, and the    *)
(* lseek(SEEK_END) of an append); an lseek to a fixed offset is merged     *)
(* with the read or write behind it, because the file offset is private    *)
(* to the process.  A single writev or read is taken to be atomic.         *)
(*                                                                         *)
(* Offsets are abstracted to record numbers: slot n is the n-th record     *)
(* ever appended, 0 is the null chain pointer.  A record keeps the sizes   *)
(* that the layout depends on (the length of its key and of its data) and  *)
(* `room', the size of the hole it was appended into.                      *)
(***************************************************************************)
EXTENDS Integers, Sequences, FiniteSets

CONSTANTS
  Procs,      \* processes that opened the database
  Keys,       \* non-blank keys
  Values,     \* data strings
  Blank,      \* a key or a data string overwritten with spaces
  Chains,     \* the hash table entries (chainoff values)
  FREE,       \* FREE_OFF, the free list pointer
  TAIL,       \* the lock on the index records, from the end of the table to EOF
  DAT,        \* the lock on the whole data file
  Hash,       \* _db_hash: Keys -> Chains
  KeyLen,     \* strlen(key)
  DatLen,     \* strlen(data) + 1
  PtrMax,     \* PTR_MAX, in slots
  Preload,    \* sequence of [key, val]: the records inserted before Init
  Menu,       \* bound: Menu[p][n] are the requests process p may make n-th
  CrashOps    \* operations in the middle of which the process may be killed

ChainPtrs == Chains \cup {FREE}
Locks == ChainPtrs \cup {TAIL, DAT}

ASSUME LocksDistinct ==
  /\ FREE \notin Chains
  /\ TAIL \notin ChainPtrs
  /\ DAT \notin ChainPtrs \cup {TAIL}
  /\ Locks \cap Int = {}
ASSUME BlankIsNoKey == Blank \notin Keys \cup Values
ASSUME TablesTyped ==
  /\ Hash \in [Keys -> Chains]
  /\ KeyLen \in [Keys -> Nat]
  /\ DatLen \in [Values -> Nat \ {0}]
ASSUME BoundsTyped == PtrMax \in Nat

StoreOps == {"insert", "replace", "store"}
Ops == StoreOps \cup {"fetch", "delete", "nextrec"}
Requests ==
  [op : StoreOps, key : Keys, val : Values]
    \cup [op : {"fetch", "delete"}, key : Keys, val : {Blank}]
    \cup [op : {"nextrec"}, key : {Blank}, val : {Blank}]

ASSUME MenuTyped == Menu \in [Procs -> Seq(SUBSET Requests)]
ASSUME CrashTyped == CrashOps \subseteq Ops
ASSUME PreloadTyped ==
  /\ Preload \in Seq([key : Keys, val : Values])
  /\ \A m, n \in DOMAIN Preload : Preload[m].key = Preload[n].key => m = n

VARIABLES
  idx,   \* the index records: [ptr, key, klen, datoff, datlen, room]
  head,  \* the hash table and the free list pointer
  dat,   \* the data records: [val, len, room]
  rd,    \* rd[l]: processes holding a read lock on l
  wr,    \* wr[l]: processes holding a write lock on l
  pc,    \* the system call each process makes next
  h,     \* the DB structure and the locals of each process
  ops,   \* requests made by each process
  map,   \* history: the abstract content, changed where an update takes effect
  scan   \* history: records a sequential scan must return, and has returned

files == <<idx, head, dat>>
locks == <<rd, wr>>
vars == <<files, locks, pc, h, ops, map, scan>>

-----------------------------------------------------------------------------
(* Results.  `st' is the return code of the library call.                   *)

Statuses == {"pending", "ok", "none", "exists", "enoent"}
Rc(st, k, v) == [st |-> st, key |-> k, val |-> v]
Pending == Rc("pending", Blank, Blank)

NoReq == [op |-> "fetch", key |-> Blank, val |-> Blank]

\* A handle between two operations; only the file offset of idxfd survives.
Handle(position) ==
  [req |-> NoReq, rc |-> Pending, phase |-> "find", pos |-> position,
   idxoff |-> 0, ptroff |-> FREE, ptrval |-> 0, idxkey |-> Blank,
   idxklen |-> 0, datoff |-> 0, datlen |-> 0, freeptr |-> 0, saveptr |-> 0,
   front |-> 0]

ChainOf(p) == Hash[h[p].req.key]

\* Position 0 stands for an offset inside the hash table or inside a record.
Mid == 0

\* The history of a scan: is the file offset still where the last db_rewind or
\* db_nextrec left it, which records must it return, which has it returned.
Scanning(slots) == [on |-> TRUE, live |-> slots, seen |-> {}]
NotScanning == [on |-> FALSE, live |-> {}, seen |-> {}]

-----------------------------------------------------------------------------
(* Initial states: the records of Preload were inserted, in order, into an  *)
(* empty database; each went to the front of its chain.                     *)

Latest(S) ==
  LET last == {n \in S : \A m \in S : m <= n} IN
  IF last = {} THEN 0 ELSE CHOOSE n \in last : TRUE
ChainMembers(c) == {n \in DOMAIN Preload : Hash[Preload[n].key] = c}

Init ==
  /\ idx = [n \in DOMAIN Preload |->
             [ptr |-> Latest({m \in ChainMembers(Hash[Preload[n].key]) : m < n}),
              key |-> Preload[n].key, klen |-> KeyLen[Preload[n].key],
              datoff |-> n, datlen |-> DatLen[Preload[n].val],
              room |-> KeyLen[Preload[n].key]]]
  /\ head = [c \in ChainPtrs |-> IF c = FREE THEN 0 ELSE Latest(ChainMembers(c))]
  /\ dat = [n \in DOMAIN Preload |->
             [val |-> Preload[n].val, len |-> DatLen[Preload[n].val],
              room |-> DatLen[Preload[n].val]]]
  /\ rd = [l \in Locks |-> {}]
  /\ wr = [l \in Locks |-> {}]
  /\ pc = [p \in Procs |-> "idle"]
  /\ h = [p \in Procs |-> Handle(1)]          \* db_open ends with db_rewind
  /\ ops = [p \in Procs |-> 0]
  /\ map = [k \in Keys |->
             IF \E n \in DOMAIN Preload : Preload[n].key = k
             THEN Preload[CHOOSE n \in DOMAIN Preload : Preload[n].key = k].val
             ELSE Blank]
  /\ scan = [p \in Procs |-> Scanning(DOMAIN Preload)]

-----------------------------------------------------------------------------
(* Record locks: writew_lock, readw_lock and un_lock.                       *)

CanWriteLock(p, l) == wr[l] \cup rd[l] \subseteq {p}
CanReadLock(p, l) == wr[l] \subseteq {p}

WriteLock(p, l) ==
  /\ CanWriteLock(p, l)
  /\ wr' = [wr EXCEPT ![l] = @ \cup {p}]
  /\ rd' = [rd EXCEPT ![l] = @ \ {p}]
ReadLock(p, l) ==
  /\ CanReadLock(p, l)
  /\ rd' = [rd EXCEPT ![l] = @ \cup {p}]
  /\ wr' = [wr EXCEPT ![l] = @ \ {p}]
Unlock(p, l) ==
  /\ rd' = [rd EXCEPT ![l] = @ \ {p}]
  /\ wr' = [wr EXCEPT ![l] = @ \ {p}]

\* A process that ends, however it ends, loses all its locks.
UnlockAll(p) ==
  /\ rd' = [l \in Locks |-> rd[l] \ {p}]
  /\ wr' = [l \in Locks |-> wr[l] \ {p}]

-----------------------------------------------------------------------------
(* Control.                                                                 *)

Goto(p, from, to) == pc[p] = from /\ pc' = [pc EXCEPT ![p] = to]
Stop(p, how) == pc' = [pc EXCEPT ![p] = how]

\* err_dump: the library met a file it cannot make sense of; it aborts.
ErrDump(p) ==
  /\ Stop(p, "dumped")
  /\ UnlockAll(p)
  /\ UNCHANGED <<files, h, ops, map, scan>>

-----------------------------------------------------------------------------
(* File access.                                                             *)

\* A write at the slot an lseek returned; it overwrites what is there by now.
WriteAt(file, n, rec) ==
  IF n \in DOMAIN file THEN [file EXCEPT ![n] = [rec EXCEPT !.room = file[n].room]]
                       ELSE Append(file, rec)

IdxRec(p, key, klen, ptr) ==
  [ptr |-> ptr, key |-> key, klen |-> klen, datoff |-> h[p].datoff,
   datlen |-> h[p].datlen, room |-> klen]
DatRec(val, len) == [val |-> val, len |-> len, room |-> len]

\* _db_writeptr to a table entry or to the chain pointer of a record.
WritePtr(loc, ptr) ==
  IF loc \in ChainPtrs
  THEN head' = [head EXCEPT ![loc] = ptr] /\ UNCHANGED <<idx, dat>>
  ELSE idx' = [idx EXCEPT ![loc].ptr = ptr] /\ UNCHANGED <<head, dat>>

\* The records whose framing the scan and the chains rely on: a record that
\* does not fill its hole exactly makes the bytes after it unreadable.
GoodIdx(n) == n \in DOMAIN idx /\ idx[n].klen = idx[n].room
GoodDat(n, len) == n \in DOMAIN dat /\ dat[n].len = len /\ dat[n].room = len

-----------------------------------------------------------------------------
(* A request and its return.                                                *)

FirstCall(op) == IF op = "nextrec" THEN "nlock" ELSE "lockchain"

\* db_fetch, db_delete, db_store or db_nextrec is called.  After any other
\* operation the caller starts a new scan with db_rewind, because every operation
\* moves the one file offset that db_nextrec reads from.
Call(p) ==
  /\ ops[p] < Len(Menu[p])
  /\ \E r \in Menu[p][ops[p] + 1] :
       /\ Goto(p, "idle", FirstCall(r.op))
       /\ h' = [h EXCEPT ![p].req = r,
                         ![p].phase = IF r.op = "nextrec" THEN "scan" ELSE "find"]
       /\ r.op = "nextrec" => scan[p].on
       /\ scan' = IF r.op = "nextrec" THEN scan
                  ELSE [scan EXCEPT ![p] = NotScanning]
  /\ ops' = [ops EXCEPT ![p] = @ + 1]
  /\ UNCHANGED <<files, locks, map>>

\* A scan must return the records that are in place now; the ones on their way
\* in or out (blank, or not yet linked) it may return or not.
Committed == {n \in DOMAIN idx : idx[n].key # Blank
                /\ \A p \in Procs : pc[p] \in {"aiunlock", "link"} => h[p].idxoff # n}

db_rewind(p) ==
  /\ pc[p] = "idle"
  /\ ops[p] < Len(Menu[p])
  /\ \E r \in Menu[p][ops[p] + 1] : r.op = "nextrec"
  /\ h' = [h EXCEPT ![p].pos = 1]
  /\ ops' = [ops EXCEPT ![p] = @ + 1]
  /\ scan' = [scan EXCEPT ![p] = Scanning(Committed)]
  /\ UNCHANGED <<files, locks, pc, map>>

\* Unlock the hash chain that _db_find_and_lock locked, and return.
Return(p) ==
  /\ Goto(p, "unlock", "idle")
  /\ Unlock(p, ChainOf(p))
  /\ h' = [h EXCEPT ![p] = Handle(h[p].pos)]
  /\ UNCHANGED <<files, ops, map, scan>>

db_close(p) ==
  /\ Goto(p, "idle", "closed")
  /\ UnlockAll(p)
  /\ UNCHANGED <<files, h, ops, map, scan>>

-----------------------------------------------------------------------------
(* _db_find_and_lock and _db_readidx.  The walks over a hash chain and over *)
(* the free list and the scan share the two reads of _db_readidx; `phase'   *)
(* says which of them is reading.                                           *)

\* Mutation: every operation takes only the shared lock.
LockChainShared(p) ==
  /\ Goto(p, "lockchain", "findptr")
  /\ ReadLock(p, ChainOf(p))
  /\ h' = [h EXCEPT ![p].ptroff = ChainOf(p)]
  /\ UNCHANGED <<files, ops, map, scan>>

LockChain(p) ==
  /\ Goto(p, "lockchain", "findptr")
  /\ IF h[p].req.op = "fetch" THEN ReadLock(p, ChainOf(p)) ELSE WriteLock(p, ChainOf(p))
  /\ h' = [h EXCEPT ![p].ptroff = ChainOf(p)]
  /\ UNCHANGED <<files, ops, map, scan>>

\* What each operation does when the key is not on its chain ...
Miss(p) ==
  LET op == h[p].req.op IN
  IF op \in {"insert", "store"}
  THEN [to |-> "chead", rc |-> Pending, phase |-> "free"]
  ELSE [to |-> "unlock", phase |-> "find",
        rc |-> Rc(IF op = "replace" THEN "enoent" ELSE "none", Blank, Blank)]

\* ... and when it is: len is the data length the index record gives.
Hit(p, len) ==
  LET op == h[p].req.op IN
  CASE op = "fetch"  -> [to |-> "readdat", rc |-> Pending]
    [] op = "delete" -> [to |-> "dlock", rc |-> Pending]
    [] op = "insert" -> [to |-> "unlock", rc |-> Rc("exists", Blank, Blank)]
    [] OTHER         -> [to |-> IF len = DatLen[h[p].req.val] THEN "odat" ELSE "dlock",
                         rc |-> Pending]

FindPtr(p) ==
  /\ pc[p] = "findptr"
  /\ LET first == head[ChainOf(p)] IN
       IF first = 0
       THEN /\ Goto(p, "findptr", Miss(p).to)
            /\ h' = [h EXCEPT ![p].pos = Mid, ![p].rc = Miss(p).rc,
                              ![p].phase = Miss(p).phase]
       ELSE /\ Goto(p, "findptr", "hdr")
            /\ h' = [h EXCEPT ![p].pos = Mid, ![p].idxoff = first]
  /\ UNCHANGED <<files, locks, ops, map, scan>>

\* Mutation: the end of the file is taken one record early.
ReadHdrEarly(p) ==
  LET o == IF h[p].phase = "scan" THEN h[p].pos ELSE h[p].idxoff IN
  IF h[p].phase = "scan" /\ o >= Len(idx)
  THEN /\ Goto(p, "hdr", "nunlock")
       /\ h' = [h EXCEPT ![p].rc = Rc("none", Blank, Blank)]
       /\ UNCHANGED <<files, locks, ops, map, scan>>
  ELSE /\ Goto(p, "hdr", "rec")
       /\ h' = [h EXCEPT ![p].idxoff = o, ![p].ptrval = idx[o].ptr]
       /\ UNCHANGED <<files, locks, ops, map, scan>>

\* The readv of the chain pointer and the record length.
ReadHdr(p) ==
  LET o == IF h[p].phase = "scan" THEN h[p].pos ELSE h[p].idxoff IN
  /\ pc[p] = "hdr"
  /\ IF h[p].phase = "scan" /\ o = Len(idx) + 1
     THEN /\ Goto(p, "hdr", "nunlock")                       \* end of file
          /\ h' = [h EXCEPT ![p].rc = Rc("none", Blank, Blank)]
          /\ UNCHANGED <<files, locks, ops, map, scan>>
     ELSE IF GoodIdx(o)
     THEN /\ Goto(p, "hdr", "rec")
          /\ h' = [h EXCEPT ![p].idxoff = o, ![p].ptrval = idx[o].ptr]
          /\ UNCHANGED <<files, locks, ops, map, scan>>
     ELSE ErrDump(p)

\* Mutations: one of the two sizes is not compared.
FitsKey(p, r) == r.klen = KeyLen[h[p].req.key]
FitsDat(p, r) == r.datlen = DatLen[h[p].req.val]

\* A free record is reused only if both its sizes are the wanted ones.
Fits(p, r) == r.klen = KeyLen[h[p].req.key] /\ r.datlen = DatLen[h[p].req.val]

\* The read of the record proper, and what the caller's loop does with it.
ReadRec(p) ==
  LET q == h[p]
      r == idx[q.idxoff]
      got == [q EXCEPT !.pos = q.idxoff + 1, !.idxkey = r.key, !.idxklen = r.klen,
                       !.datoff = r.datoff, !.datlen = r.datlen]
      advanced == [got EXCEPT !.ptroff = q.idxoff, !.idxoff = q.ptrval]
      Become(new, to) == h' = [h EXCEPT ![p] = new] /\ Goto(p, "rec", to)
  IN
  /\ pc[p] = "rec"
  /\ CASE q.phase = "find" ->
            IF r.key = q.req.key
            THEN Become([got EXCEPT !.rc = Hit(p, r.datlen).rc], Hit(p, r.datlen).to)
            ELSE IF q.ptrval # 0 THEN Become(advanced, "hdr")
            ELSE Become([advanced EXCEPT !.rc = Miss(p).rc, !.phase = Miss(p).phase],
                        Miss(p).to)
       [] q.phase = "free" ->
            IF Fits(p, r) THEN Become(got, "funlink")
            ELSE Become(advanced, IF q.ptrval # 0 THEN "hdr" ELSE "funlock")
       [] OTHER -> Become(got, IF r.key = Blank THEN "hdr" ELSE "readdat")
  /\ UNCHANGED <<files, locks, ops, map, scan>>

-----------------------------------------------------------------------------
(* _db_readdat, and db_nextrec around it.                                   *)

ReadDat(p) ==
  LET q == h[p] IN
  /\ pc[p] = "readdat"
  /\ IF GoodDat(q.datoff, q.datlen)
     THEN /\ Goto(p, "readdat", IF q.phase = "scan" THEN "nunlock" ELSE "unlock")
          /\ h' = [h EXCEPT ![p].rc = Rc("ok", q.idxkey, dat[q.datoff].val)]
          /\ scan' = IF q.phase = "scan" /\ scan[p].on
                     THEN [scan EXCEPT ![p].seen = @ \cup {q.idxoff}] ELSE scan
          /\ UNCHANGED <<files, locks, ops, map>>
     ELSE ErrDump(p)

\* Mutation: the scan does not lock the free list.
NextUnlocked(p) ==
  /\ Goto(p, "nlock", "hdr")
  /\ UNCHANGED <<files, locks, h, ops, map, scan>>

NextLock(p) ==
  /\ Goto(p, "nlock", "hdr")
  /\ ReadLock(p, FREE)
  /\ UNCHANGED <<files, h, ops, map, scan>>

NextUnlock(p) ==
  /\ Goto(p, "nunlock", "idle")
  /\ Unlock(p, FREE)
  /\ h' = [h EXCEPT ![p] = Handle(h[p].pos)]
  /\ UNCHANGED <<files, ops, map, scan>>

-----------------------------------------------------------------------------
(* _db_dodelete.                                                            *)

\* Mutation: the free list is not locked.
DeleteUnlocked(p) ==
  /\ Goto(p, "dlock", "ddat")
  /\ UNCHANGED <<files, locks, h, ops, map, scan>>

DeleteLock(p) ==
  /\ Goto(p, "dlock", "ddat")
  /\ WriteLock(p, FREE)
  /\ UNCHANGED <<files, h, ops, map, scan>>

DeleteDat(p) ==
  /\ Goto(p, "ddat", "dfree")
  /\ dat' = WriteAt(dat, h[p].datoff, DatRec(Blank, h[p].datlen))
  /\ UNCHANGED <<idx, head, locks, h, ops, map, scan>>

DeleteFree(p) ==
  /\ Goto(p, "dfree", "didx")
  /\ h' = [h EXCEPT ![p].freeptr = head[FREE], ![p].saveptr = h[p].ptrval,
                    ![p].pos = Mid]
  /\ UNCHANGED <<files, locks, ops, map, scan>>

\* The record becomes blank and its chain pointer now leads into the free list.
DeleteIdx(p) ==
  LET q == h[p] IN
  /\ Goto(p, "didx", "dhead")
  /\ idx' = WriteAt(idx, q.idxoff, IdxRec(p, Blank, q.idxklen, q.freeptr))
  /\ h' = [h EXCEPT ![p].ptrval = q.freeptr, ![p].pos = q.idxoff + 1]
  /\ scan' = [s \in Procs |-> [scan[s] EXCEPT !.live = @ \ {q.idxoff}]]
  /\ UNCHANGED <<head, dat, locks, ops, map>>

DeleteHead(p) ==
  /\ Goto(p, "dhead", "dprev")
  /\ WritePtr(FREE, h[p].idxoff)
  /\ h' = [h EXCEPT ![p].pos = Mid]
  /\ UNCHANGED <<locks, ops, map, scan>>

\* Mutation: the chain pointer is taken after _db_writeidx changed it.
DeletePrevLate(p) ==
  LET q == h[p] IN
  /\ Goto(p, "dprev", "dunlock")
  /\ WritePtr(q.ptroff, q.ptrval)
  /\ h' = [h EXCEPT ![p].pos = Mid,
                    ![p].rc = IF q.req.op = "delete" THEN Rc("ok", Blank, Blank) ELSE @]
  /\ map' = IF q.req.op = "delete" THEN [map EXCEPT ![q.req.key] = Blank] ELSE map
  /\ UNCHANGED <<locks, ops, scan>>

\* The record leaves its chain.  Here a db_delete takes effect; a db_store that
\* replaces a record with one of another size goes on.
DeletePrev(p) ==
  LET q == h[p] IN
  /\ Goto(p, "dprev", "dunlock")
  /\ WritePtr(q.ptroff, q.saveptr)
  /\ h' = [h EXCEPT ![p].pos = Mid,
                    ![p].rc = IF q.req.op = "delete" THEN Rc("ok", Blank, Blank) ELSE @]
  /\ map' = IF q.req.op = "delete" THEN [map EXCEPT ![q.req.key] = Blank] ELSE map
  /\ UNCHANGED <<locks, ops, scan>>

DeleteUnlock(p) ==
  /\ Goto(p, "dunlock", IF h[p].req.op = "delete" THEN "unlock" ELSE "chead")
  /\ Unlock(p, FREE)
  /\ UNCHANGED <<files, h, ops, map, scan>>

-----------------------------------------------------------------------------
(* _db_findfree.                                                            *)

\* Mutation: the free list is not locked.
FreeUnlocked(p) ==
  /\ Goto(p, "flock", "fptr")
  /\ UNCHANGED <<files, locks, h, ops, map, scan>>

FreeLock(p) ==
  /\ Goto(p, "flock", "fptr")
  /\ WriteLock(p, FREE)
  /\ UNCHANGED <<files, h, ops, map, scan>>

FreePtr(p) ==
  /\ Goto(p, "fptr", IF head[FREE] = 0 THEN "funlock" ELSE "hdr")
  /\ h' = [h EXCEPT ![p].ptroff = FREE, ![p].idxoff = head[FREE], ![p].pos = Mid]
  /\ UNCHANGED <<files, locks, ops, map, scan>>

\* Mutation: the record that is reused stays on the free list.
FreeKept(p) ==
  /\ Goto(p, "funlink", "funlock")
  /\ UNCHANGED <<files, locks, h, ops, map, scan>>

FreeUnlink(p) ==
  /\ Goto(p, "funlink", "funlock")
  /\ WritePtr(h[p].ptroff, h[p].ptrval)
  /\ h' = [h EXCEPT ![p].pos = Mid]
  /\ UNCHANGED <<locks, ops, map, scan>>

FreeUnlock(p) ==
  /\ Goto(p, "funlock", IF h[p].idxoff = 0 THEN "adlock" ELSE "rdat")
  /\ Unlock(p, FREE)
  /\ UNCHANGED <<files, h, ops, map, scan>>

-----------------------------------------------------------------------------
(* db_store after the search.  Both the insertion of a new key and the      *)
(* replacement by data of another size (which always appends) read the      *)
(* head of the chain first and link the new record in front of it last.     *)

ChainHead(p) ==
  /\ Goto(p, "chead", IF h[p].phase = "free" THEN "flock" ELSE "adlock")
  /\ h' = [h EXCEPT ![p].front = head[ChainOf(p)], ![p].pos = Mid]
  /\ UNCHANGED <<files, locks, ops, map, scan>>

\* Reuse the free record that _db_findfree unlinked.
ReuseDat(p) ==
  LET len == DatLen[h[p].req.val] IN
  /\ Goto(p, "rdat", "ridx")
  /\ dat' = WriteAt(dat, h[p].datoff, DatRec(h[p].req.val, len))
  /\ h' = [h EXCEPT ![p].datlen = len]
  /\ UNCHANGED <<idx, head, locks, ops, map, scan>>

ReuseIdx(p) ==
  LET q == h[p] IN
  /\ Goto(p, "ridx", "link")
  /\ idx' = WriteAt(idx, q.idxoff, IdxRec(p, q.req.key, KeyLen[q.req.key], q.front))
  /\ h' = [h EXCEPT ![p].ptrval = q.front, ![p].pos = q.idxoff + 1]
  /\ UNCHANGED <<head, dat, locks, ops, map, scan>>

\* Mutation: lseek and write without the lock.
AppendDatUnlocked(p) ==
  /\ Goto(p, "adlock", "adseek")
  /\ UNCHANGED <<files, locks, h, ops, map, scan>>

\* Append to the data file: lock it, find its end, write there, unlock.
AppendDatLock(p) ==
  /\ Goto(p, "adlock", "adseek")
  /\ WriteLock(p, DAT)
  /\ UNCHANGED <<files, h, ops, map, scan>>

AppendDatSeek(p) ==
  /\ Goto(p, "adseek", "adwrite")
  /\ h' = [h EXCEPT ![p].datoff = Len(dat) + 1, ![p].datlen = DatLen[h[p].req.val]]
  /\ UNCHANGED <<files, locks, ops, map, scan>>

AppendDat(p) ==
  /\ Goto(p, "adwrite", "adunlock")
  /\ dat' = WriteAt(dat, h[p].datoff, DatRec(h[p].req.val, h[p].datlen))
  /\ UNCHANGED <<idx, head, locks, h, ops, map, scan>>

AppendDatUnlock(p) ==
  /\ Goto(p, "adunlock", "ailock")
  /\ Unlock(p, DAT)
  /\ UNCHANGED <<files, h, ops, map, scan>>

\* Mutation: lseek and write without the lock.
AppendIdxUnlocked(p) ==
  /\ Goto(p, "ailock", "aiseek")
  /\ UNCHANGED <<files, locks, h, ops, map, scan>>

\* Append to the index file, under a lock on everything behind the hash table.
AppendIdxLock(p) ==
  /\ Goto(p, "ailock", "aiseek")
  /\ WriteLock(p, TAIL)
  /\ UNCHANGED <<files, h, ops, map, scan>>

\* Mutations: the offset is one record off; the chain is linked before the
\* record is written.
AppendIdxSeekOff(p) ==
  /\ Goto(p, "aiseek", "aiwrite")
  /\ h' = [h EXCEPT ![p].idxoff = Len(idx) + 2, ![p].ptrval = h[p].front]
  /\ UNCHANGED <<files, locks, ops, map, scan>>
AppendIdxLinkFirst(p) ==
  /\ Goto(p, "aiseek", "aiwrite")
  /\ h' = [h EXCEPT ![p].idxoff = Len(idx) + 1, ![p].ptrval = h[p].front]
  /\ WritePtr(ChainOf(p), Len(idx) + 1)
  /\ UNCHANGED <<locks, ops, map, scan>>

AppendIdxSeek(p) ==
  /\ Goto(p, "aiseek", "aiwrite")
  /\ h' = [h EXCEPT ![p].idxoff = Len(idx) + 1, ![p].ptrval = h[p].front]
  /\ UNCHANGED <<files, locks, ops, map, scan>>

AppendIdx(p) ==
  LET q == h[p] IN
  /\ Goto(p, "aiwrite", "aiunlock")
  /\ idx' = WriteAt(idx, q.idxoff, IdxRec(p, q.req.key, KeyLen[q.req.key], q.ptrval))
  /\ h' = [h EXCEPT ![p].pos = q.idxoff + 1]
  /\ UNCHANGED <<head, dat, locks, ops, map, scan>>

AppendIdxUnlock(p) ==
  /\ Goto(p, "aiunlock", "link")
  /\ Unlock(p, TAIL)
  /\ UNCHANGED <<files, h, ops, map, scan>>

\* The record becomes the first of its chain: the store takes effect.
Link(p) ==
  LET q == h[p] IN
  /\ q.idxoff <= PtrMax
  /\ Goto(p, "link", "unlock")
  /\ WritePtr(ChainOf(p), q.idxoff)
  /\ h' = [h EXCEPT ![p].rc = Rc("ok", Blank, Blank), ![p].pos = Mid]
  /\ map' = [map EXCEPT ![q.req.key] = q.req.val]
  /\ UNCHANGED <<locks, ops, scan>>

\* _db_writeptr refuses an offset above PTR_MAX with err_quit.  The record is in
\* the files but on no chain, and a record it was to replace is already gone.
\* (Every other pointer the library writes was read from the file.)
LinkTooFar(p) ==
  LET q == h[p] IN
  /\ pc[p] = "link"
  /\ q.idxoff > PtrMax
  /\ Stop(p, "quit")
  /\ UnlockAll(p)
  /\ map' = IF q.phase = "find" THEN [map EXCEPT ![q.req.key] = Blank] ELSE map
  /\ UNCHANGED <<files, h, ops, scan>>

\* The new data has the size of the old: overwrite it in place.
OverwriteDat(p) ==
  LET q == h[p] IN
  /\ Goto(p, "odat", "unlock")
  /\ dat' = WriteAt(dat, q.datoff, DatRec(q.req.val, DatLen[q.req.val]))
  /\ h' = [h EXCEPT ![p].rc = Rc("ok", Blank, Blank)]
  /\ map' = [map EXCEPT ![q.req.key] = q.req.val]
  /\ UNCHANGED <<idx, head, locks, ops, scan>>

-----------------------------------------------------------------------------

Stopped == {"closed", "dumped", "quit", "killed"}

\* A process is killed between two system calls.
Crash(p) ==
  /\ pc[p] \notin Stopped \cup {"idle"}
  /\ h[p].req.op \in CrashOps
  /\ Stop(p, "killed")
  /\ UnlockAll(p)
  /\ UNCHANGED <<files, h, ops, map, scan>>

Find(p) == LockChain(p) \/ FindPtr(p) \/ ReadHdr(p) \/ ReadRec(p) \/ ReadDat(p)
DoDelete(p) ==
  \/ DeleteLock(p) \/ DeleteDat(p) \/ DeleteFree(p) \/ DeleteIdx(p)
  \/ DeleteHead(p) \/ DeletePrev(p) \/ DeleteUnlock(p)
FindFree(p) == FreeLock(p) \/ FreePtr(p) \/ FreeUnlink(p) \/ FreeUnlock(p)
AppendRec(p) ==
  \/ AppendDatLock(p) \/ AppendDatSeek(p) \/ AppendDat(p) \/ AppendDatUnlock(p)
  \/ AppendIdxLock(p) \/ AppendIdxSeek(p) \/ AppendIdx(p) \/ AppendIdxUnlock(p)
Store(p) ==
  \/ ChainHead(p) \/ ReuseDat(p) \/ ReuseIdx(p)
  \/ Link(p) \/ LinkTooFar(p) \/ OverwriteDat(p)

\* The steps a process that has been asked for something takes by itself.
Step(p) ==
  \/ Find(p) \/ DoDelete(p) \/ FindFree(p) \/ AppendRec(p) \/ Store(p)
  \/ NextLock(p) \/ NextUnlock(p) \/ Return(p)

AllStopped == (\A p \in Procs : pc[p] \in Stopped) /\ UNCHANGED vars

Next ==
  \/ \E p \in Procs : Call(p) \/ db_rewind(p) \/ db_close(p) \/ Step(p) \/ Crash(p)
  \/ AllStopped

Spec == Init /\ [][Next]_vars

\* A process that is inside the library keeps running.
FairSpec == Spec /\ \A p \in Procs : WF_vars(Step(p))

-----------------------------------------------------------------------------
(* Properties.                                                              *)

Labels ==
  {"idle", "lockchain", "findptr", "hdr", "rec", "readdat", "unlock",
   "dlock", "ddat", "dfree", "didx", "dhead", "dprev", "dunlock",
   "flock", "fptr", "funlink", "funlock", "chead", "rdat", "ridx",
   "adlock", "adseek", "adwrite", "adunlock", "ailock", "aiseek", "aiwrite",
   "aiunlock", "link", "odat", "nlock", "nunlock"} \cup Stopped

IdxRecords ==
  [ptr : Nat, key : Keys \cup {Blank}, klen : Nat, datoff : Nat \ {0},
   datlen : Nat \ {0}, room : Nat]
DatRecords == [val : Values \cup {Blank}, len : Nat \ {0}, room : Nat \ {0}]
Handles ==
  [req : Requests \cup {NoReq}, phase : {"find", "free", "scan"}, pos : Nat,
   rc : [st : Statuses, key : Keys \cup {Blank}, val : Values \cup {Blank}],
   idxoff : Nat, ptroff : ChainPtrs \cup Nat, ptrval : Nat,
   idxkey : Keys \cup {Blank}, idxklen : Nat, datoff : Nat, datlen : Nat,
   freeptr : Nat, saveptr : Nat, front : Nat]

FilesOK ==
  /\ idx \in Seq(IdxRecords)
  /\ dat \in Seq(DatRecords)
  /\ head \in [ChainPtrs -> 0 .. Len(idx)]
  /\ \A n \in DOMAIN idx : idx[n].ptr \in 0 .. Len(idx)
LocksOK == rd \in [Locks -> SUBSET Procs] /\ wr \in [Locks -> SUBSET Procs]
ProcsOK ==
  /\ pc \in [Procs -> Labels]
  /\ h \in [Procs -> Handles]
  /\ ops \in [Procs -> Nat] /\ \A p \in Procs : ops[p] <= Len(Menu[p])
HistoryOK ==
  /\ map \in [Keys -> Values \cup {Blank}]
  /\ scan \in [Procs -> [on : BOOLEAN, live : SUBSET (DOMAIN idx), seen : SUBSET (DOMAIN idx)]]

\* Every chain pointer is null or the offset of a record in the file, and the
\* rest of the state has its type.
TypeOK == FilesOK /\ LocksOK /\ ProcsOK /\ HistoryOK

\* No process ever meets a record it cannot read: _db_readidx and _db_readdat
\* never call err_dump, whatever the other processes do meanwhile.
NoErrDump == \A p \in Procs : pc[p] # "dumped"

\* The slots met when following chain pointers from n.
Trail(n) ==
  LET t[i \in 1 .. Len(idx) + 1] ==
        IF i = 1 THEN n
        ELSE IF t[i - 1] \in DOMAIN idx THEN idx[t[i - 1]].ptr ELSE 0
  IN t
OnTrail(n) == {Trail(n)[i] : i \in 1 .. Len(idx) + 1} \ {0}
Ends(n) == Trail(n)[Len(idx) + 1] = 0

\* Whenever a hash chain is not write locked it is a finite list that holds
\* exactly the current records of its keys, each once, with the current data:
\* what a reader that gets the lock next will find is the committed content.
ChainsHoldMap ==
  \A c \in Chains : wr[c] = {} =>
    LET on == OnTrail(head[c]) IN
    /\ Ends(head[c])
    /\ \A n \in on :
         /\ n \in DOMAIN idx /\ idx[n].datoff \in DOMAIN dat
         /\ idx[n].key \in Keys
         /\ Hash[idx[n].key] = c
         /\ map[idx[n].key] # Blank
         /\ dat[idx[n].datoff].val = map[idx[n].key]
         /\ dat[idx[n].datoff].len = idx[n].datlen
         /\ \A m \in on : idx[m].key = idx[n].key => m = n
    /\ \A k \in Keys : Hash[k] = c /\ map[k] # Blank => \E n \in on : idx[n].key = k

\* Whenever the free list is not write locked it is a finite list of blank
\* records, none of which is on a hash chain or has been taken by a db_store.
FreeListHoldsFree ==
  wr[FREE] = {} =>
    LET free == OnTrail(head[FREE]) IN
    /\ Ends(head[FREE])
    /\ \A n \in free :
         /\ idx[n].key = Blank
         /\ dat[idx[n].datoff].val = Blank
         /\ \A c \in Chains : wr[c] = {} => n \notin OnTrail(head[c])
         /\ \A p \in Procs : pc[p] \in {"rdat", "ridx", "link"} => h[p].idxoff # n

\* A record always fills the hole it is in, so that the sequential scan finds
\* the record behind it: a deleted record is reused only for the same sizes.
RecordsFit ==
  /\ \A n \in DOMAIN idx : idx[n].klen = idx[n].room
  /\ \A n \in DOMAIN dat : dat[n].len = dat[n].room

\* No two index records share a data record.
DataUnshared ==
  \A m, n \in DOMAIN idx : idx[m].datoff = idx[n].datoff => m = n

\* No record is in two places: the free list holds only records that nothing
\* else leads to, and no two index records lead to the same data.
RecordsUnshared == FreeListHoldsFree /\ DataUnshared

\* Every record can be read: none is longer or shorter than its hole, and no
\* process has called err_dump over one.
RecordsReadable == RecordsFit /\ NoErrDump

\* When nobody is inside the library every record of the index file is on
\* exactly one hash chain or on the free list, unless a process ended inside
\* the library and left its record behind.
NoRecordLost ==
  (\A p \in Procs : pc[p] \in {"idle", "closed"}) =>
    \A n \in DOMAIN idx :
      Cardinality({c \in ChainPtrs : n \in OnTrail(head[c])}) = 1

\* A sequential scan that reaches the end of the file has returned every record
\* that was in place from db_rewind on, however many others came and went.
ScanComplete ==
  \A p \in Procs :
    pc[p] = "nunlock" /\ h[p].rc.st = "none" /\ scan[p].on => scan[p].live \subseteq scan[p].seen

\* The offset that lseek(SEEK_END) returned is still the end of the file when
\* the record is written there: no two appends meet, no record is overwritten.
AppendAtEof ==
  \A p \in Procs :
    /\ pc[p] = "aiwrite" => h[p].idxoff = Len(idx) + 1
    /\ pc[p] = "adwrite" => h[p].datoff = Len(dat) + 1

\* Every call is atomic: the library implements the map of DbMap.
AbsCall ==
  [p \in Procs |->
    IF pc[p] = "idle" THEN [st |-> "idle"]
    ELSE IF pc[p] \in Stopped
    THEN [st |-> "ended", req |-> IF h[p].rc.st = "pending" THEN h[p].req ELSE NoReq]
    ELSE IF h[p].rc.st = "pending" THEN [st |-> "called", req |-> h[p].req]
    ELSE [st |-> "done", req |-> h[p].req, rc |-> h[p].rc]]
Abstract == INSTANCE DbMap WITH call <- AbsCall
Linearizable == Abstract!Spec

\* Every call returns, or the process ends: no chain walk is endless and no
\* process waits for a lock for ever (each makes boundedly many calls).
CallsReturn == \A p \in Procs : pc[p] \notin {"idle"} \cup Stopped ~> pc[p] \in {"idle"} \cup Stopped
=============================================================================
