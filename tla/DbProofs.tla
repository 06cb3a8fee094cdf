------------------------------ MODULE DbProofs ------------------------------
(***************************************************************************)
(* For any number of processes, keys and chains, killed or not in the      *)
(* middle of any operation: the files of Db stay well formed, every offset *)
(* a process holds leads to a record, an append never overwrites one,      *)
(* every record fills its hole and can be read, no two index records share *)
(* data, and a scan misses nothing.                                        *)
(***************************************************************************)
EXTENDS Db, TLAPS

\* The calls that belong to a store, to _db_dodelete, and to db_nextrec.
StoreLabels ==
  {"odat", "chead", "flock", "fptr", "funlink", "funlock", "rdat", "ridx", "adlock",
   "adseek", "adwrite", "adunlock", "ailock", "aiseek", "aiwrite", "aiunlock", "link"}
DeleteLabels == {"dlock", "ddat", "dfree", "didx", "dhead", "dprev", "dunlock"}
ScanLabels == {"nlock", "nunlock", "hdr", "rec", "readdat"}

\* Where idxoff is the offset of a record, and datoff and datlen are its data.
AtIdx ==
  {"rec", "readdat", "dlock", "ddat", "dfree", "didx", "dhead", "odat", "funlink",
   "rdat", "ridx", "aiunlock", "link"}
AtDat ==
  {"readdat", "dlock", "ddat", "dfree", "didx", "odat", "funlink", "rdat", "ridx",
   "adunlock", "ailock", "aiseek", "aiwrite"}

\* What the handle q of a process that is about to make call l says about index
\* and data files of n and m records.
Control(q, l) ==
  l \notin {"idle"} \cup Stopped =>
    /\ q.req \in Requests
    /\ q.phase = "scan" <=> q.req.op = "nextrec"
    /\ q.phase = "scan" => l \in ScanLabels
    /\ q.phase = "free" \/ l \in StoreLabels => q.req.op \in StoreOps
    /\ l \in {"nlock", "nunlock"} => q.phase = "scan"
    /\ l \in DeleteLabels => q.req.op \in StoreOps \cup {"delete"}

Offsets(q, l, n) ==
  l \notin Stopped =>
    /\ q.idxoff \in 0 .. n \/ l = "aiwrite"
    /\ q.ptroff \in ChainPtrs \cup 1 .. n
    /\ q.ptrval \in 0 .. n /\ q.front \in 0 .. n
    /\ q.freeptr \in 0 .. n /\ q.saveptr \in 0 .. n
    /\ l \in AtIdx => q.idxoff # 0
    /\ l = "aiwrite" => q.idxoff = n + 1

DataOffset(q, l, m) ==
  /\ l \in AtDat \/ (l = "funlock" /\ q.idxoff # 0) => q.datoff \in 1 .. m /\ q.datlen # 0
  /\ l = "adwrite" => q.datoff = m + 1 /\ q.datlen # 0

HandleOK(q, l, n, m) == Control(q, l) /\ Offsets(q, l, n) /\ DataOffset(q, l, m)

HandlesOK == \A p \in Procs : HandleOK(h[p], pc[p], Len(idx), Len(dat))

\* Every index record has its data in the data file.
DataInFile == \A n \in DOMAIN idx : idx[n].datoff \in 1 .. Len(dat)

\* A write lock excludes all others, and the two appends hold theirs.
LocksExclude == \A l \in Locks : \A p \in wr[l] : wr[l] \cup rd[l] \subseteq {p}
AppendLocked(p) ==
  /\ pc[p] \in {"aiseek", "aiwrite", "aiunlock"} => p \in wr[TAIL]
  /\ pc[p] \in {"adseek", "adwrite", "adunlock"} => p \in wr[DAT]
AppendLocks == \A p \in Procs : AppendLocked(p)

IInv == TypeOK /\ HandlesOK /\ DataInFile /\ LocksExclude /\ AppendLocks
-----------------------------------------------------------------------------
(* What a step of process p leaves alone: the handles of the others, and    *)
(* the write locks they hold.                                               *)

Moves(p) == ProcsOK' /\ \A q \in Procs \ {p} : h'[q] = h[q] /\ pc'[q] = pc[q]
KeepsLocks(p) ==
  /\ LocksOK' /\ LocksExclude'
  /\ \A q \in Procs \ {p}, l \in Locks : q \in wr[l] => q \in wr'[l]

\* writew_lock is granted only if nobody else holds a lock.
LEMMA WriteLockKeeps ==
  ASSUME LocksOK, LocksExclude, NEW p \in Procs, NEW l \in Locks, WriteLock(p, l)
  PROVE  KeepsLocks(p) /\ p \in wr'[l] /\ \A k \in Locks : p \in wr[k] => p \in wr'[k]
BY DEF LocksOK, LocksExclude, WriteLock, CanWriteLock, KeepsLocks

\* readw_lock is granted only if nobody else holds a write lock.
LEMMA ReadLockKeeps ==
  ASSUME LocksOK, LocksExclude, NEW p \in Procs, NEW l \in Locks, ReadLock(p, l)
  PROVE  KeepsLocks(p) /\ \A k \in Locks \ {l} : p \in wr[k] => p \in wr'[k]
BY DEF LocksOK, LocksExclude, ReadLock, CanReadLock, KeepsLocks

\* un_lock, and the end of a process, release locks of that process only.
LEMMA UnlockKeeps ==
  ASSUME LocksOK, LocksExclude, NEW p \in Procs, NEW l \in Locks, Unlock(p, l)
  PROVE  KeepsLocks(p) /\ \A k \in Locks \ {l} : p \in wr[k] => p \in wr'[k]
BY DEF LocksOK, LocksExclude, Unlock, KeepsLocks

\* The end of a process.
LEMMA UnlockAllKeeps ==
  ASSUME LocksOK, LocksExclude, NEW p \in Procs, UnlockAll(p)
  PROVE  KeepsLocks(p)
BY DEF LocksOK, LocksExclude, UnlockAll, KeepsLocks

\* A step that touches no lock.
LEMMA UnchangedKeeps ==
  ASSUME LocksOK, LocksExclude, NEW p \in Procs, UNCHANGED locks
  PROVE  KeepsLocks(p) /\ wr' = wr
BY DEF LocksOK, LocksExclude, locks, KeepsLocks

\* A handle stays right when the files grow, unless it is about to append.
LEMMA HandleGrows ==
  ASSUME NEW q \in Handles, NEW l, NEW n \in Nat, NEW m \in Nat, NEW n2 \in Nat, NEW m2 \in Nat,
         n <= n2, m <= m2, l = "aiwrite" => n2 = n, l = "adwrite" => m2 = m,
         HandleOK(q, l, n, m)
  PROVE  HandleOK(q, l, n2, m2)
<1>1. Control(q, l)
  BY DEF HandleOK
<1>2. Offsets(q, l, n2)
  BY DEF HandleOK, Offsets, Handles
<1>3. DataOffset(q, l, m2)
  BY DEF HandleOK, DataOffset, Handles
<1> QED  BY <1>1, <1>2, <1>3 DEF HandleOK

\* The rest of the invariant follows from what a step does to its own process,
\* and from the locks when it makes a file longer.
LEMMA Frame ==
  ASSUME IInv, NEW p \in Procs, FilesOK', DataInFile', HistoryOK', KeepsLocks(p), Moves(p),
         Len(idx) <= Len(idx'), Len(dat) <= Len(dat'),
         Len(idx') # Len(idx) => p \in wr[TAIL],
         Len(dat') # Len(dat) => p \in wr[DAT],
         HandleOK(h[p], pc[p], Len(idx), Len(dat))', AppendLocked(p)'
  PROVE  IInv'
<1>1. TypeOK' /\ LocksExclude'
  BY DEF KeepsLocks, Moves, TypeOK
<1>2. HandlesOK'
  <2> SUFFICES ASSUME NEW q \in Procs \ {p}
               PROVE  HandleOK(h[q], pc[q], Len(idx), Len(dat))'
    BY DEF HandlesOK
  <2>1. h'[q] = h[q] /\ pc'[q] = pc[q] /\ h[q] \in Handles
    BY DEF Moves, IInv, TypeOK, ProcsOK
  <2>2. /\ Len(idx) \in Nat /\ Len(dat) \in Nat /\ Len(idx') \in Nat /\ Len(dat') \in Nat
    BY DEF IInv, TypeOK, FilesOK
  <2>3. TAIL \in Locks /\ DAT \in Locks
    BY DEF Locks
  <2>4. pc[q] = "aiwrite" => Len(idx') = Len(idx)
    BY <2>3 DEF IInv, AppendLocks, AppendLocked, LocksExclude
  <2>5. pc[q] = "adwrite" => Len(dat') = Len(dat)
    BY <2>3 DEF IInv, AppendLocks, AppendLocked, LocksExclude
  <2>6. HandleOK(h[q], pc[q], Len(idx), Len(dat))
    BY DEF IInv, HandlesOK
  <2>7. HandleOK(h[q], pc[q], Len(idx'), Len(dat'))
    BY <2>1, <2>2, <2>4, <2>5, <2>6, HandleGrows
  <2> QED  BY <2>1, <2>7
<1>3. AppendLocks'
  BY DEF IInv, AppendLocks, AppendLocked, KeepsLocks, Moves, Locks
<1> QED  BY <1>1, <1>2, <1>3 DEF IInv

\* What is known about a process inside the library, and about its next call.
LEMMA Known ==
  ASSUME IInv, NEW p \in Procs
  PROVE  /\ h \in [Procs -> Handles] /\ pc \in [Procs -> Labels]
         /\ h[p] \in Handles /\ HandleOK(h[p], pc[p], Len(idx), Len(dat))
         /\ Len(idx) \in Nat /\ Len(dat) \in Nat /\ Mid \in Nat
         /\ head \in [ChainPtrs -> 0 .. Len(idx)]
BY DEF IInv, TypeOK, ProcsOK, HandlesOK, FilesOK, Mid

\* The locks it may hold, and that they are different bytes of the files.
LEMMA KnownLocks ==
  ASSUME IInv, NEW p \in Procs
  PROVE  /\ LocksOK /\ LocksExclude /\ AppendLocked(p)
         /\ FREE \in Locks /\ DAT \in Locks /\ TAIL \in Locks /\ FREE \in ChainPtrs
         /\ FREE # TAIL /\ FREE # DAT /\ DAT # TAIL
BY LocksDistinct DEF IInv, TypeOK, AppendLocks, Locks, ChainPtrs

\* Whoever is not in db_nextrec has a key, and with it a hash chain.
LEMMA KnownChain ==
  ASSUME IInv, NEW p \in Procs, pc[p] \notin {"idle"} \cup Stopped, h[p].phase # "scan"
  PROVE  /\ h[p].req.key \in Keys /\ ChainOf(p) \in Chains
         /\ ChainOf(p) \in ChainPtrs /\ ChainOf(p) \in Locks
         /\ ChainOf(p) \notin {FREE, DAT, TAIL}
BY Known, TablesTyped, LocksDistinct
   DEF HandleOK, Control, Requests, StoreOps, ChainOf, Locks, ChainPtrs

\* The parts of the frame of a step that gives process p handle q and label l.
LEMMA MovesTo ==
  ASSUME IInv, NEW p \in Procs, NEW q \in Handles, NEW l \in Labels,
         pc' = [pc EXCEPT ![p] = l], h' = [h EXCEPT ![p] = q], UNCHANGED ops
  PROVE  Moves(p) /\ h'[p] = q /\ pc'[p] = l
BY DEF IInv, TypeOK, ProcsOK, Moves

\* A step is in order if its own handle fits the files it leaves.
LEMMA FrameMove ==
  ASSUME IInv, NEW p \in Procs, NEW q \in Handles, NEW l \in Labels,
         pc' = [pc EXCEPT ![p] = l], h' = [h EXCEPT ![p] = q], UNCHANGED ops,
         FilesOK', DataInFile', HistoryOK', KeepsLocks(p),
         Len(idx) <= Len(idx'), Len(dat) <= Len(dat'),
         Len(idx') # Len(idx) => p \in wr[TAIL],
         Len(dat') # Len(dat) => p \in wr[DAT],
         HandleOK(q, l, Len(idx'), Len(dat')),
         l \in {"aiseek", "aiwrite", "aiunlock"} => p \in wr'[TAIL],
         l \in {"adseek", "adwrite", "adunlock"} => p \in wr'[DAT]
  PROVE  IInv'
<1>1. Moves(p) /\ h'[p] = q /\ pc'[p] = l
  BY MovesTo
<1>2. HandleOK(h[p], pc[p], Len(idx), Len(dat))' /\ AppendLocked(p)'
  BY <1>1 DEF AppendLocked
<1> QED  BY <1>1, <1>2, Frame

\* The frame of a step that reads the files only, ...
LEMMA FrameRead ==
  ASSUME IInv, NEW p \in Procs, NEW q \in Handles, NEW l \in Labels,
         pc' = [pc EXCEPT ![p] = l], h' = [h EXCEPT ![p] = q], UNCHANGED ops,
         UNCHANGED files, HistoryOK', KeepsLocks(p),
         HandleOK(q, l, Len(idx), Len(dat)),
         l \in {"aiseek", "aiwrite", "aiunlock"} => p \in wr'[TAIL],
         l \in {"adseek", "adwrite", "adunlock"} => p \in wr'[DAT]
  PROVE  IInv'
<1>1. idx' = idx /\ dat' = dat /\ head' = head
  BY DEF files
<1>2. FilesOK' /\ DataInFile'
  BY <1>1 DEF IInv, TypeOK, FilesOK, DataInFile
<1>3. Len(idx) \in Nat /\ Len(dat) \in Nat
  BY Known
<1>4. HandleOK(q, l, Len(idx'), Len(dat'))
  BY <1>1
<1>5. Len(idx') = Len(idx) /\ Len(dat') = Len(dat)
      /\ Len(idx) <= Len(idx') /\ Len(dat) <= Len(dat')
  BY <1>1, <1>3
<1> QED  BY <1>2, <1>4, <1>5, FrameMove

\* ... of one that changes nothing but locks, ...
LEMMA FrameLock ==
  ASSUME IInv, NEW p \in Procs, NEW l \in Labels,
         pc' = [pc EXCEPT ![p] = l], UNCHANGED <<files, h, ops, map, scan>>, KeepsLocks(p),
         HandleOK(h[p], l, Len(idx), Len(dat)),
         l \in {"aiseek", "aiwrite", "aiunlock"} => p \in wr'[TAIL],
         l \in {"adseek", "adwrite", "adunlock"} => p \in wr'[DAT]
  PROVE  IInv'
<1>1. h' = [h EXCEPT ![p] = h[p]] /\ h[p] \in Handles
  BY Known
<1>2. HistoryOK'
  BY DEF IInv, TypeOK, HistoryOK, files
<1> QED  BY <1>1, <1>2, FrameRead

\* ... and of the end of a process.
LEMMA FrameEnd ==
  ASSUME IInv, NEW p \in Procs, NEW l \in Stopped,
         pc' = [pc EXCEPT ![p] = l], UNCHANGED <<files, h, ops>>, HistoryOK', UnlockAll(p)
  PROVE  IInv'
<1>1. h' = [h EXCEPT ![p] = h[p]] /\ h[p] \in Handles
  BY Known
<1>2. KeepsLocks(p)
  BY KnownLocks, UnlockAllKeeps
<1>3. HandleOK(h[p], l, Len(idx), Len(dat)) /\ l \in Labels
  BY DEF HandleOK, Control, Offsets, DataOffset, Stopped, AtDat, Labels
<1>4. l \notin {"aiseek", "aiwrite", "aiunlock", "adseek", "adwrite", "adunlock"}
  BY DEF Stopped
<1> QED  BY <1>1, <1>2, <1>3, <1>4, FrameRead

\* A write inside a file or at its end keeps the files well formed.
LEMMA WriteIdx ==
  ASSUME FilesOK, DataInFile, NEW n \in 1 .. Len(idx) + 1, NEW r \in IdxRecords,
         r.ptr \in 0 .. Len(idx), r.datoff \in 1 .. Len(dat),
         idx' = WriteAt(idx, n, r), UNCHANGED <<head, dat>>
  PROVE  /\ FilesOK' /\ DataInFile' /\ DOMAIN idx \subseteq DOMAIN idx'
         /\ Len(idx') = IF n = Len(idx) + 1 THEN n ELSE Len(idx)
<1>1. CASE n \in DOMAIN idx
  <2> DEFINE w == [r EXCEPT !.room = idx[n].room]
  <2>1. w \in IdxRecords /\ w.ptr = r.ptr /\ w.datoff = r.datoff
    <3>1. idx[n] \in IdxRecords
      BY <1>1 DEF FilesOK
    <3> QED  BY <3>1 DEF IdxRecords
  <2>2. idx' = [idx EXCEPT ![n] = w]
    BY <1>1 DEF WriteAt
  <2> HIDE DEF w
  <2> QED  BY <1>1, <2>1, <2>2 DEF FilesOK, DataInFile
<1>2. CASE n \notin DOMAIN idx
  <2>1. idx' = Append(idx, r) /\ n = Len(idx) + 1
    BY <1>2 DEF WriteAt, FilesOK
  <2> QED  BY <2>1 DEF FilesOK, DataInFile
<1> QED  BY <1>1, <1>2

\* The same of the data file.
LEMMA WriteDat ==
  ASSUME FilesOK, DataInFile, NEW n \in 1 .. Len(dat) + 1, NEW r \in DatRecords,
         dat' = WriteAt(dat, n, r), UNCHANGED <<head, idx>>
  PROVE  /\ FilesOK' /\ DataInFile'
         /\ Len(dat') = IF n = Len(dat) + 1 THEN n ELSE Len(dat)
<1>1. CASE n \in DOMAIN dat
  <2> DEFINE w == [r EXCEPT !.room = dat[n].room]
  <2>1. w \in DatRecords
    <3>1. dat[n] \in DatRecords
      BY <1>1 DEF FilesOK
    <3> QED  BY <3>1 DEF DatRecords
  <2>2. dat' = [dat EXCEPT ![n] = w]
    BY <1>1 DEF WriteAt
  <2> HIDE DEF w
  <2> QED  BY <1>1, <2>1, <2>2 DEF FilesOK, DataInFile
<1>2. CASE n \notin DOMAIN dat
  <2>1. dat' = Append(dat, r) /\ n = Len(dat) + 1
    BY <1>2 DEF WriteAt, FilesOK
  <2> QED  BY <2>1 DEF FilesOK, DataInFile
<1> QED  BY <1>1, <1>2

\* So does _db_writeptr with an offset that is null or a record's.
LEMMA WritePtrKeeps ==
  ASSUME FilesOK, DataInFile, NEW loc \in ChainPtrs \cup 1 .. Len(idx), NEW n \in 0 .. Len(idx),
         WritePtr(loc, n)
  PROVE  FilesOK' /\ DataInFile' /\ Len(idx') = Len(idx) /\ DOMAIN idx' = DOMAIN idx /\ dat' = dat
<1>1. CASE loc \in ChainPtrs
  BY <1>1 DEF WritePtr, FilesOK, DataInFile
<1>2. CASE loc \notin ChainPtrs
  <2> DEFINE w == [idx[loc] EXCEPT !.ptr = n]
  <2>1. loc \in DOMAIN idx /\ w \in IdxRecords /\ w.ptr = n /\ w.datoff = idx[loc].datoff
    <3>1. loc \in DOMAIN idx /\ idx[loc] \in IdxRecords /\ n \in Nat
      BY <1>2 DEF FilesOK
    <3> QED  BY <3>1 DEF IdxRecords
  <2>2. idx' = [idx EXCEPT ![loc] = w] /\ UNCHANGED <<head, dat>>
    BY <1>2 DEF WritePtr
  <2> HIDE DEF w
  <2> QED  BY <2>1, <2>2 DEF FilesOK, DataInFile
<1> QED  BY <1>1, <1>2

-----------------------------------------------------------------------------
(* The steps.                                                               *)

\* Taking and releasing a lock.
LEMMA LockSteps ==
  ASSUME IInv, NEW p \in Procs,
         \/ NextLock(p) \/ DeleteLock(p) \/ FreeLock(p) \/ AppendDatLock(p) \/ AppendIdxLock(p)
         \/ DeleteUnlock(p) \/ FreeUnlock(p) \/ AppendDatUnlock(p) \/ AppendIdxUnlock(p)
  PROVE  IInv'
<1>1. HandleOK(h[p], pc[p], Len(idx), Len(dat)) /\ h[p] \in Handles
  BY Known
<1>2. CASE NextLock(p)
  <2>1. KeepsLocks(p)
    BY <1>2, KnownLocks, ReadLockKeeps DEF NextLock
  <2>2. HandleOK(h[p], "hdr", Len(idx), Len(dat)) /\ "hdr" \in Labels
    BY <1>2, <1>1 DEF NextLock, Goto, Labels, HandleOK, Control, Offsets, DataOffset, AtIdx,
       AtDat, StoreLabels, DeleteLabels, ScanLabels, Stopped
  <2> QED  BY <1>2, <2>1, <2>2, FrameLock DEF NextLock, Goto
<1>3. CASE DeleteLock(p)
  <2>1. KeepsLocks(p)
    BY <1>3, KnownLocks, WriteLockKeeps DEF DeleteLock
  <2>2. HandleOK(h[p], "ddat", Len(idx), Len(dat)) /\ "ddat" \in Labels
    BY <1>3, <1>1 DEF DeleteLock, Goto, Labels, HandleOK, Control, Offsets, DataOffset, AtIdx,
       AtDat, StoreLabels, DeleteLabels, ScanLabels, Stopped
  <2> QED  BY <1>3, <2>1, <2>2, FrameLock DEF DeleteLock, Goto
<1>4. CASE FreeLock(p)
  <2>1. KeepsLocks(p)
    BY <1>4, KnownLocks, WriteLockKeeps DEF FreeLock
  <2>2. HandleOK(h[p], "fptr", Len(idx), Len(dat)) /\ "fptr" \in Labels
    BY <1>4, <1>1 DEF FreeLock, Goto, Labels, HandleOK, Control, Offsets, DataOffset, AtIdx,
       AtDat, StoreLabels, DeleteLabels, ScanLabels, Stopped
  <2> QED  BY <1>4, <2>1, <2>2, FrameLock DEF FreeLock, Goto
<1>5. CASE AppendDatLock(p)
  <2>1. KeepsLocks(p) /\ p \in wr'[DAT]
    BY <1>5, KnownLocks, WriteLockKeeps DEF AppendDatLock
  <2>2. HandleOK(h[p], "adseek", Len(idx), Len(dat)) /\ "adseek" \in Labels
    BY <1>5, <1>1 DEF AppendDatLock, Goto, Labels, HandleOK, Control, Offsets, DataOffset,
       AtIdx, AtDat, StoreLabels, DeleteLabels, ScanLabels, Stopped
  <2> QED  BY <1>5, <2>1, <2>2, FrameLock DEF AppendDatLock, Goto
<1>6. CASE AppendIdxLock(p)
  <2>1. KeepsLocks(p) /\ p \in wr'[TAIL]
    BY <1>6, KnownLocks, WriteLockKeeps DEF AppendIdxLock
  <2>2. HandleOK(h[p], "aiseek", Len(idx), Len(dat)) /\ "aiseek" \in Labels
    BY <1>6, <1>1 DEF AppendIdxLock, Goto, Labels, HandleOK, Control, Offsets, DataOffset,
       AtIdx, AtDat, StoreLabels, DeleteLabels, ScanLabels, Stopped
  <2> QED  BY <1>6, <2>1, <2>2, FrameLock DEF AppendIdxLock, Goto
<1>7. CASE DeleteUnlock(p)
  <2> DEFINE to == IF h[p].req.op = "delete" THEN "unlock" ELSE "chead"
  <2>1. KeepsLocks(p)
    BY <1>7, KnownLocks, UnlockKeeps DEF DeleteUnlock
  <2>2. HandleOK(h[p], to, Len(idx), Len(dat)) /\ to \in Labels
    BY <1>7, <1>1 DEF DeleteUnlock, Goto, Labels, HandleOK, Control, Offsets, DataOffset,
       AtIdx, AtDat, StoreLabels, DeleteLabels, ScanLabels, Stopped, StoreOps
  <2> QED  BY <1>7, <2>1, <2>2, FrameLock DEF DeleteUnlock, Goto
<1>8. CASE FreeUnlock(p)
  <2> DEFINE to == IF h[p].idxoff = 0 THEN "adlock" ELSE "rdat"
  <2>1. KeepsLocks(p)
    BY <1>8, KnownLocks, UnlockKeeps DEF FreeUnlock
  <2>2. HandleOK(h[p], to, Len(idx), Len(dat)) /\ to \in Labels
    BY <1>8, <1>1 DEF FreeUnlock, Goto, Labels, HandleOK, Control, Offsets, DataOffset, AtIdx,
       AtDat, StoreLabels, DeleteLabels, ScanLabels, Stopped, Handles
  <2> QED  BY <1>8, <2>1, <2>2, FrameLock DEF FreeUnlock, Goto
<1>9. CASE AppendDatUnlock(p)
  <2>1. KeepsLocks(p)
    BY <1>9, KnownLocks, UnlockKeeps DEF AppendDatUnlock
  <2>2. HandleOK(h[p], "ailock", Len(idx), Len(dat)) /\ "ailock" \in Labels
    BY <1>9, <1>1 DEF AppendDatUnlock, Goto, Labels, HandleOK, Control, Offsets, DataOffset,
       AtIdx, AtDat, StoreLabels, DeleteLabels, ScanLabels, Stopped
  <2> QED  BY <1>9, <2>1, <2>2, FrameLock DEF AppendDatUnlock, Goto
<1>10. CASE AppendIdxUnlock(p)
  <2>1. KeepsLocks(p)
    BY <1>10, KnownLocks, UnlockKeeps DEF AppendIdxUnlock
  <2>2. HandleOK(h[p], "link", Len(idx), Len(dat)) /\ "link" \in Labels
    BY <1>10, <1>1 DEF AppendIdxUnlock, Goto, Labels, HandleOK, Control, Offsets, DataOffset,
       AtIdx, AtDat, StoreLabels, DeleteLabels, ScanLabels, Stopped
  <2> QED  BY <1>10, <2>1, <2>2, FrameLock DEF AppendIdxUnlock, Goto
<1> QED  BY <1>2, <1>3, <1>4, <1>5, <1>6, <1>7, <1>8, <1>9, <1>10

\* The end of a process: db_close, err_dump, err_quit and a kill.
LEMMA EndSteps ==
  ASSUME IInv, NEW p \in Procs, db_close(p) \/ ErrDump(p) \/ LinkTooFar(p) \/ Crash(p)
  PROVE  IInv'
<1>1. ASSUME UNCHANGED <<files, map, scan>> PROVE HistoryOK'
  BY <1>1 DEF IInv, TypeOK, HistoryOK, files
<1>2. CASE db_close(p)
  BY <1>1, <1>2, FrameEnd DEF db_close, Goto, Stopped
<1>3. CASE ErrDump(p)
  BY <1>1, <1>3, FrameEnd DEF ErrDump, Stop, Stopped
<1>4. CASE LinkTooFar(p)
  <2>1. HistoryOK'
    BY <1>4 DEF LinkTooFar, IInv, TypeOK, HistoryOK, files
  <2> QED  BY <1>4, <2>1, FrameEnd DEF LinkTooFar, Stop, Stopped
<1>5. CASE Crash(p)
  BY <1>1, <1>5, FrameEnd DEF Crash, Stop, Stopped
<1> QED  BY <1>2, <1>3, <1>4, <1>5

\* A request is made only below the bound.
LEMMA OneMoreOp ==
  ASSUME ProcsOK, NEW p \in Procs, ops[p] < Len(Menu[p]), ops' = [ops EXCEPT ![p] = @ + 1]
  PROVE  ops' \in [Procs -> Nat] /\ \A s \in Procs : ops'[s] <= Len(Menu[s])
<1>1. ops \in [Procs -> Nat] /\ \A s \in Procs : Len(Menu[s]) \in Nat /\ ops[s] <= Len(Menu[s])
  BY MenuTyped DEF ProcsOK
<1> QED  BY <1>1

\* Calls and returns.
LEMMA CallSteps ==
  ASSUME IInv, NEW p \in Procs,
         Call(p) \/ db_rewind(p) \/ Return(p) \/ NextUnlock(p) \/ LockChain(p)
  PROVE  IInv'
<1>1. /\ HandleOK(h[p], pc[p], Len(idx), Len(dat)) /\ h[p] \in Handles
      /\ h \in [Procs -> Handles] /\ Len(idx) \in Nat /\ Len(dat) \in Nat
  BY Known
<1>2. CASE Call(p)
  <2>1. PICK r \in Menu[p][ops[p] + 1] :
          /\ pc[p] = "idle" /\ pc' = [pc EXCEPT ![p] = FirstCall(r.op)]
          /\ h' = [h EXCEPT ![p].req = r,
                            ![p].phase = IF r.op = "nextrec" THEN "scan" ELSE "find"]
          /\ scan' = IF r.op = "nextrec" THEN scan ELSE [scan EXCEPT ![p] = NotScanning]
    BY <1>2 DEF Call, Goto
  <2>2. r \in Requests
    <3>1. ops[p] \in Nat /\ ops[p] < Len(Menu[p]) /\ Menu[p] \in Seq(SUBSET Requests)
      BY <1>2, MenuTyped DEF Call, IInv, TypeOK, ProcsOK
    <3>2. Menu[p][ops[p] + 1] \in SUBSET Requests
      BY <3>1
    <3> QED  BY <3>2
  <2> DEFINE q == [h[p] EXCEPT !.req = r, !.phase = IF r.op = "nextrec" THEN "scan" ELSE "find"]
  <2>3. q \in Handles /\ h' = [h EXCEPT ![p] = q]
    BY <1>1, <2>1, <2>2 DEF Handles
  <2>4. HandleOK(q, FirstCall(r.op), Len(idx), Len(dat)) /\ FirstCall(r.op) \in Labels
    <3>1. q.req = r /\ q.phase = IF r.op = "nextrec" THEN "scan" ELSE "find"
      BY <1>1 DEF Handles
    <3>2. /\ q.idxoff = h[p].idxoff /\ q.ptroff = h[p].ptroff /\ q.ptrval = h[p].ptrval
          /\ q.front = h[p].front /\ q.freeptr = h[p].freeptr /\ q.saveptr = h[p].saveptr
      BY <1>1 DEF Handles
    <3> HIDE DEF q
    <3> QED  BY <1>1, <2>1, <2>2, <3>1, <3>2 DEF FirstCall, Labels, HandleOK, Control, Offsets,
    DataOffset, AtIdx, AtDat, StoreLabels, DeleteLabels, ScanLabels, Stopped
  <2>5. HistoryOK'
    BY <1>2, <2>1 DEF Call, NotScanning, IInv, TypeOK, HistoryOK, files
  <2>6. KeepsLocks(p)
    BY <1>2, KnownLocks, UnchangedKeeps DEF Call
  <2>7. FirstCall(r.op) \in {"nlock", "lockchain"}
    BY DEF FirstCall
  <2>8. Moves(p) /\ h'[p] = q /\ pc'[p] = FirstCall(r.op)
    <3>1. ops' \in [Procs -> Nat] /\ \A s \in Procs : ops'[s] <= Len(Menu[s])
      BY <1>2, OneMoreOp DEF Call, IInv, TypeOK
    <3> HIDE DEF q
    <3> QED  BY <2>1, <2>3, <2>4, <3>1 DEF IInv, TypeOK, ProcsOK, Moves
  <2>9. HandleOK(h[p], pc[p], Len(idx), Len(dat))' /\ AppendLocked(p)'
    BY <1>2, <2>4, <2>7, <2>8 DEF Call, files, AppendLocked
  <2>10. FilesOK' /\ DataInFile' /\ Len(idx') = Len(idx) /\ Len(dat') = Len(dat)
    BY <1>2 DEF Call, files, IInv, TypeOK, FilesOK, DataInFile
  <2> QED  BY <1>1, <2>5, <2>6, <2>8, <2>9, <2>10, Frame
<1>3. CASE db_rewind(p)
  <2> DEFINE q == [h[p] EXCEPT !.pos = 1]
  <2>1. q \in Handles /\ h' = [h EXCEPT ![p] = q]
    BY <1>1, <1>3 DEF db_rewind, Handles
  <2>2. HandleOK(q, pc[p], Len(idx), Len(dat))
    BY <1>1, <1>3 DEF db_rewind, Handles, HandleOK, Control, Offsets, DataOffset, AtIdx, AtDat,
       StoreLabels, DeleteLabels, ScanLabels, Stopped
  <2>3. HistoryOK'
    BY <1>3 DEF db_rewind, Scanning, Committed, IInv, TypeOK, HistoryOK, files
  <2>4. KeepsLocks(p)
    BY <1>3, KnownLocks, UnchangedKeeps DEF db_rewind
  <2>5. Moves(p) /\ h'[p] = q /\ pc'[p] = "idle"
    <3>1. ops' \in [Procs -> Nat] /\ \A s \in Procs : ops'[s] <= Len(Menu[s])
      BY <1>3, OneMoreOp DEF db_rewind, IInv, TypeOK
    <3> HIDE DEF q
    <3> QED  BY <1>3, <2>1, <3>1 DEF db_rewind, IInv, TypeOK, ProcsOK, Moves
  <2>6. HandleOK(h[p], pc[p], Len(idx), Len(dat))' /\ AppendLocked(p)'
    BY <1>3, <2>2, <2>5 DEF db_rewind, files, AppendLocked
  <2>7. FilesOK' /\ DataInFile' /\ Len(idx') = Len(idx) /\ Len(dat') = Len(dat)
    BY <1>3 DEF db_rewind, files, IInv, TypeOK, FilesOK, DataInFile
  <2> QED  BY <1>1, <2>3, <2>4, <2>5, <2>6, <2>7, Frame
<1>4. CASE Return(p) \/ NextUnlock(p)
  <2>1. Handle(h[p].pos) \in Handles
    BY <1>1, BlankIsNoKey DEF Handle, Handles, NoReq, Pending, Rc, Statuses, ChainPtrs
  <2>2. HandleOK(Handle(h[p].pos), "idle", Len(idx), Len(dat)) /\ "idle" \in Labels
    BY <1>1 DEF Handle, ChainPtrs, Labels, HandleOK, Control, Offsets, DataOffset, AtIdx,
       AtDat, StoreLabels, DeleteLabels, ScanLabels, Stopped
  <2>3. KeepsLocks(p)
    <3>1. CASE Return(p)
      <4>1. ChainOf(p) \in Locks
        BY <1>1, <3>1, KnownChain DEF Return, Goto, HandleOK, Control, ScanLabels, Stopped
      <4> QED  BY <3>1, <4>1, KnownLocks, UnlockKeeps DEF Return
    <3>2. CASE NextUnlock(p)
      BY <3>2, KnownLocks, UnlockKeeps DEF NextUnlock
    <3> QED  BY <1>4, <3>1, <3>2
  <2>4. HistoryOK'
    BY <1>4 DEF Return, NextUnlock, IInv, TypeOK, HistoryOK, files
  <2> QED  BY <1>4, <2>1, <2>2, <2>3, <2>4, FrameRead DEF Return, NextUnlock, Goto
<1>5. CASE LockChain(p)
  <2> DEFINE q == [h[p] EXCEPT !.ptroff = ChainOf(p)]
  <2>1. ChainOf(p) \in Locks /\ ChainOf(p) \in ChainPtrs
    BY <1>1, <1>5, KnownChain DEF LockChain, Goto, HandleOK, Control, ScanLabels, Stopped
  <2>2. q \in Handles /\ h' = [h EXCEPT ![p] = q]
    BY <1>1, <1>5, <2>1 DEF LockChain, Handles
  <2>3. HandleOK(q, "findptr", Len(idx), Len(dat)) /\ "findptr" \in Labels
    BY <1>1, <1>5, <2>1 DEF LockChain, Goto, Handles, Labels, HandleOK, Control, Offsets,
       DataOffset, AtIdx, AtDat, StoreLabels, DeleteLabels, ScanLabels, Stopped
  <2>4. KeepsLocks(p)
    BY <1>5, <2>1, KnownLocks, ReadLockKeeps, WriteLockKeeps DEF LockChain
  <2>5. HistoryOK'
    BY <1>5 DEF LockChain, IInv, TypeOK, HistoryOK, files
  <2> QED  BY <1>5, <2>2, <2>3, <2>4, <2>5, FrameRead DEF LockChain, Goto
<1> QED  BY <1>2, <1>3, <1>4, <1>5

\* Reading a pointer of the table, and finding the end of a file.
LEMMA PointerSteps ==
  ASSUME IInv, NEW p \in Procs,
         \/ FindPtr(p) \/ DeleteFree(p) \/ FreePtr(p) \/ ChainHead(p)
         \/ AppendDatSeek(p) \/ AppendIdxSeek(p)
  PROVE  IInv'
<1>1. /\ HandleOK(h[p], pc[p], Len(idx), Len(dat)) /\ h[p] \in Handles
      /\ h \in [Procs -> Handles] /\ Len(idx) \in Nat /\ Len(dat) \in Nat /\ Mid \in Nat
      /\ head[FREE] \in 0 .. Len(idx) /\ FREE \in ChainPtrs
  BY Known, KnownLocks
<1>0. /\ h[p] \in Handles /\ Mid \in Nat /\ head[FREE] \in Nat
      /\ Len(idx) + 1 \in Nat /\ Len(dat) + 1 \in Nat
  BY <1>1
<1>2. ASSUME UNCHANGED <<files, map, scan>> PROVE HistoryOK'
  BY <1>2 DEF IInv, TypeOK, HistoryOK, files
<1>3. ASSUME pc[p] \in {"findptr", "chead", "adseek"}
      PROVE  head[ChainOf(p)] \in 0 .. Len(idx) /\ h[p].req.key \in Keys
  BY <1>1, <1>3, Known, KnownChain DEF HandleOK, Control, ScanLabels, Stopped
<1>4. CASE DeleteFree(p)
  <2> DEFINE q == [h[p] EXCEPT !.freeptr = head[FREE], !.saveptr = h[p].ptrval, !.pos = Mid]
  <2>0. q \in Handles
    BY <1>0 DEF Handles, ChainPtrs
  <2>1. h' = [h EXCEPT ![p] = q]
    BY <1>1, <1>4 DEF DeleteFree
  <2>2. HandleOK(q, "didx", Len(idx), Len(dat)) /\ "didx" \in Labels
    BY <1>1, <1>4 DEF DeleteFree, Goto, Handles, Labels, HandleOK, Control, Offsets,
       DataOffset, AtIdx, AtDat, StoreLabels, DeleteLabels, ScanLabels, Stopped
  <2>3. KeepsLocks(p) /\ AppendLocked(p) /\ wr' = wr
    BY <1>4, KnownLocks, UnchangedKeeps DEF DeleteFree
  <2> QED  BY <1>2, <1>4, <2>0, <2>1, <2>2, <2>3, FrameRead DEF DeleteFree, Goto, AppendLocked
<1>5. CASE FreePtr(p)
  <2> DEFINE to == IF head[FREE] = 0 THEN "funlock" ELSE "hdr"
  <2> DEFINE q == [h[p] EXCEPT !.ptroff = FREE, !.idxoff = head[FREE], !.pos = Mid]
  <2>0. q \in Handles
    BY <1>0 DEF Handles, ChainPtrs
  <2>1. h' = [h EXCEPT ![p] = q]
    BY <1>1, <1>5 DEF FreePtr
  <2>2. HandleOK(q, to, Len(idx), Len(dat)) /\ to \in Labels
    BY <1>1, <1>5 DEF FreePtr, Goto, Handles, Labels, HandleOK, Control, Offsets, DataOffset,
       AtIdx, AtDat, StoreLabels, DeleteLabels, ScanLabels, Stopped
  <2>3. KeepsLocks(p) /\ AppendLocked(p) /\ wr' = wr
    BY <1>5, KnownLocks, UnchangedKeeps DEF FreePtr
  <2> QED  BY <1>2, <1>5, <2>0, <2>1, <2>2, <2>3, FrameRead DEF FreePtr, Goto, AppendLocked
<1>6. CASE ChainHead(p)
  <2> DEFINE to == IF h[p].phase = "free" THEN "flock" ELSE "adlock"
  <2> DEFINE q == [h[p] EXCEPT !.front = head[ChainOf(p)], !.pos = Mid]
  <2>10. head[ChainOf(p)] \in 0 .. Len(idx) /\ head[ChainOf(p)] \in Nat
    BY <1>1, <1>3, <1>6 DEF ChainHead, Goto
  <2>0. q \in Handles
    BY <1>0, <2>10 DEF Handles, ChainPtrs
  <2>1. h' = [h EXCEPT ![p] = q]
    BY <1>1, <1>6 DEF ChainHead
  <2>2. HandleOK(q, to, Len(idx), Len(dat)) /\ to \in Labels
    BY <1>1, <1>6, <2>10 DEF ChainHead, Goto, Handles, Labels, HandleOK, Control, Offsets,
       DataOffset, AtIdx, AtDat, StoreLabels, DeleteLabels, ScanLabels, Stopped
  <2>3. KeepsLocks(p) /\ AppendLocked(p) /\ wr' = wr
    BY <1>6, KnownLocks, UnchangedKeeps DEF ChainHead
  <2> QED  BY <1>2, <1>6, <2>0, <2>1, <2>2, <2>3, FrameRead DEF ChainHead, Goto, AppendLocked
<1>7. CASE AppendDatSeek(p)
  <2> DEFINE q == [h[p] EXCEPT !.datoff = Len(dat) + 1, !.datlen = DatLen[h[p].req.val]]
  <2>10. DatLen[h[p].req.val] \in Nat \ {0}
    BY <1>1, <1>7, TablesTyped DEF AppendDatSeek, Goto, HandleOK, Control, StoreLabels,
       StoreOps, Requests, Stopped
  <2>0. q \in Handles
    BY <1>0, <2>10 DEF Handles, ChainPtrs
  <2>1. h' = [h EXCEPT ![p] = q]
    BY <1>1, <1>7 DEF AppendDatSeek
  <2>2. HandleOK(q, "adwrite", Len(idx), Len(dat)) /\ "adwrite" \in Labels
    BY <1>1, <1>7, <2>10 DEF AppendDatSeek, Goto, Handles, Labels, HandleOK, Control, Offsets,
       DataOffset, AtIdx, AtDat, StoreLabels, DeleteLabels, ScanLabels, Stopped
  <2>3. KeepsLocks(p) /\ AppendLocked(p) /\ wr' = wr
    BY <1>7, KnownLocks, UnchangedKeeps DEF AppendDatSeek
  <2> QED  BY <1>2, <1>7, <2>0, <2>1, <2>2, <2>3, FrameRead DEF AppendDatSeek, Goto,
  AppendLocked
<1>8. CASE AppendIdxSeek(p)
  <2> DEFINE q == [h[p] EXCEPT !.idxoff = Len(idx) + 1, !.ptrval = h[p].front]
  <2>0. q \in Handles
    BY <1>0 DEF Handles, ChainPtrs
  <2>1. h' = [h EXCEPT ![p] = q]
    BY <1>1, <1>8 DEF AppendIdxSeek
  <2>2. HandleOK(q, "aiwrite", Len(idx), Len(dat)) /\ "aiwrite" \in Labels
    BY <1>1, <1>8 DEF AppendIdxSeek, Goto, Handles, Labels, HandleOK, Control, Offsets,
       DataOffset, AtIdx, AtDat, StoreLabels, DeleteLabels, ScanLabels, Stopped
  <2>3. KeepsLocks(p) /\ AppendLocked(p) /\ wr' = wr
    BY <1>8, KnownLocks, UnchangedKeeps DEF AppendIdxSeek
  <2> QED  BY <1>2, <1>8, <2>0, <2>1, <2>2, <2>3, FrameRead DEF AppendIdxSeek, Goto,
  AppendLocked
<1>9. CASE FindPtr(p)
  <2>1. /\ head[ChainOf(p)] \in 0 .. Len(idx) /\ h[p].phase # "scan"
        /\ h[p].req \in Requests /\ h[p].req.op # "nextrec" /\ pc[p] = "findptr"
    BY <1>1, <1>3, <1>9 DEF FindPtr, HandleOK, Control, ScanLabels, Stopped
  <2>2. KeepsLocks(p)
    BY <1>9, KnownLocks, UnchangedKeeps DEF FindPtr
  <2>3. CASE head[ChainOf(p)] = 0
    <3> DEFINE q == [h[p] EXCEPT !.pos = Mid, !.rc = Miss(p).rc, !.phase = Miss(p).phase]
               to == Miss(p).to
    <3>1. /\ Miss(p).rc \in [st : Statuses, key : Keys \cup {Blank}, val : Values \cup {Blank}]
          /\ IF h[p].req.op \in {"insert", "store"} THEN Miss(p).phase = "free" /\ to = "chead"
             ELSE Miss(p).phase = "find" /\ to = "unlock"
      BY DEF Miss, Rc, Pending, Statuses
    <3> HIDE DEF to
    <3>2. q \in Handles /\ h' = [h EXCEPT ![p] = q]
      BY <1>1, <1>9, <2>3, <3>1 DEF FindPtr, Handles
    <3>3. HandleOK(q, to, Len(idx), Len(dat)) /\ to \in Labels
      BY <1>1, <2>1, <3>1 DEF Handles, Labels, StoreOps, HandleOK, Control, Offsets,
         DataOffset, AtIdx, AtDat, StoreLabels, DeleteLabels, ScanLabels, Stopped
    <3> QED  BY <1>2, <1>9, <2>2, <2>3, <3>1, <3>2, <3>3, FrameRead DEF FindPtr, Goto, to
  <2>4. CASE head[ChainOf(p)] # 0
    <3> DEFINE q == [h[p] EXCEPT !.pos = Mid, !.idxoff = head[ChainOf(p)]]
    <3>1. q \in Handles
      <4>1. head[ChainOf(p)] \in Nat
        BY <1>1, <2>1
      <4> QED  BY <1>0, <4>1 DEF Handles
    <3>3. h' = [h EXCEPT ![p] = q]
      BY <1>1, <1>9, <2>4 DEF FindPtr
    <3>2. HandleOK(q, "hdr", Len(idx), Len(dat)) /\ "hdr" \in Labels
      BY <1>1, <2>1 DEF Handles, Labels, HandleOK, Control, Offsets, DataOffset, AtIdx, AtDat,
         StoreLabels, DeleteLabels, ScanLabels, Stopped
    <3> QED  BY <1>2, <1>9, <2>2, <2>4, <3>1, <3>2, <3>3, FrameRead DEF FindPtr, Goto
  <2> QED  BY <2>3, <2>4
<1> QED  BY <1>4, <1>5, <1>6, <1>7, <1>8, <1>9

\* _db_readidx and _db_readdat: what they find is in the files, or they dump.
LEMMA ReadSteps ==
  ASSUME IInv, NEW p \in Procs, ReadHdr(p) \/ ReadRec(p) \/ ReadDat(p)
  PROVE  IInv'
<1>1. /\ HandleOK(h[p], pc[p], Len(idx), Len(dat)) /\ h[p] \in Handles
      /\ h \in [Procs -> Handles] /\ Len(idx) \in Nat /\ Len(dat) \in Nat
  BY Known
<1>2. ASSUME UNCHANGED <<files, map, scan>> PROVE HistoryOK'
  BY <1>2 DEF IInv, TypeOK, HistoryOK, files
<1>3. ASSUME UNCHANGED locks PROVE KeepsLocks(p)
  BY <1>3, KnownLocks, UnchangedKeeps
<1>4. ASSUME NEW n \in DOMAIN idx
      PROVE  /\ idx[n] \in IdxRecords /\ idx[n].ptr \in 0 .. Len(idx)
             /\ idx[n].datoff \in 1 .. Len(dat) /\ n \in 1 .. Len(idx) /\ n \in Nat
  BY DEF IInv, TypeOK, FilesOK, DataInFile
<1>5. CASE ReadHdr(p)
  <2> DEFINE o == IF h[p].phase = "scan" THEN h[p].pos ELSE h[p].idxoff
  <2>1. CASE h[p].phase = "scan" /\ o = Len(idx) + 1
    <3> DEFINE q == [h[p] EXCEPT !.rc = Rc("none", Blank, Blank)]
    <3>1. q \in Handles
      BY <1>1 DEF Handles, Rc, Statuses
    <3>2. h' = [h EXCEPT ![p] = q] /\ pc[p] = "hdr" /\ pc' = [pc EXCEPT ![p] = "nunlock"]
          /\ UNCHANGED <<files, locks, ops, map, scan>>
      BY <1>1, <1>5, <2>1 DEF ReadHdr, Goto
    <3>3. HandleOK(q, "nunlock", Len(idx), Len(dat)) /\ "nunlock" \in Labels
      BY <1>1, <2>1, <3>2 DEF Handles, Labels, HandleOK, Control, Offsets, DataOffset, AtIdx,
         AtDat, StoreLabels, DeleteLabels, ScanLabels, Stopped
    <3> QED  BY <1>2, <1>3, <3>1, <3>2, <3>3, FrameRead
  <2>2. CASE GoodIdx(o) /\ ~(h[p].phase = "scan" /\ o = Len(idx) + 1)
    <3> DEFINE q == [h[p] EXCEPT !.idxoff = o, !.ptrval = idx[o].ptr]
    <3>0. o \in DOMAIN idx
      BY <2>2 DEF GoodIdx
    <3>1. o \in 1 .. Len(idx) /\ o \in Nat /\ idx[o].ptr \in 0 .. Len(idx) /\ idx[o].ptr \in Nat
      BY <1>1, <1>4, <3>0
    <3>2. h' = [h EXCEPT ![p] = q] /\ pc[p] = "hdr" /\ pc' = [pc EXCEPT ![p] = "rec"]
          /\ UNCHANGED <<files, locks, ops, map, scan>>
      BY <1>1, <1>5, <2>2 DEF ReadHdr, Goto
    <3> HIDE DEF o
    <3>3. q \in Handles
      BY <1>1, <3>1 DEF Handles
    <3>4. HandleOK(q, "rec", Len(idx), Len(dat)) /\ "rec" \in Labels
      BY <1>1, <3>1, <3>2 DEF Handles, Labels, HandleOK, Control, Offsets, DataOffset, AtIdx,
         AtDat, StoreLabels, DeleteLabels, ScanLabels, Stopped
    <3> QED  BY <1>2, <1>3, <3>2, <3>3, <3>4, FrameRead
  <2>3. CASE ~GoodIdx(o) /\ ~(h[p].phase = "scan" /\ o = Len(idx) + 1)
    BY <1>5, <2>3, EndSteps DEF ReadHdr
  <2> QED  BY <2>1, <2>2, <2>3
<1>6. CASE ReadDat(p)
  <2>1. CASE GoodDat(h[p].datoff, h[p].datlen)
    <3> DEFINE q == [h[p] EXCEPT !.rc = Rc("ok", h[p].idxkey, dat[h[p].datoff].val)]
               to == IF h[p].phase = "scan" THEN "nunlock" ELSE "unlock"
    <3>1. dat[h[p].datoff] \in DatRecords
      BY <2>1 DEF GoodDat, IInv, TypeOK, FilesOK
    <3>2. Rc("ok", h[p].idxkey, dat[h[p].datoff].val) \in [st : Statuses, key : Keys \cup {Blank}, val : Values \cup {Blank}]
      BY <1>1, <3>1 DEF Rc, Statuses, Handles, DatRecords
    <3>3. q \in Handles
      BY <1>1, <3>2 DEF Handles
    <3>4. h' = [h EXCEPT ![p] = q] /\ pc[p] = "readdat" /\ pc' = [pc EXCEPT ![p] = to]
          /\ UNCHANGED <<files, locks, ops, map>>
      BY <1>1, <1>6, <2>1 DEF ReadDat, Goto
    <3>5. HandleOK(q, to, Len(idx), Len(dat)) /\ to \in Labels
      BY <1>1, <3>4 DEF Handles, Labels, HandleOK, Control, Offsets, DataOffset, AtIdx, AtDat,
         StoreLabels, DeleteLabels, ScanLabels, Stopped
    <3>6. HistoryOK'
      <4>1. h[p].idxoff \in DOMAIN idx
        BY <1>1, <3>4 DEF HandleOK, Offsets, AtIdx, Stopped, IInv, TypeOK, FilesOK
      <4> QED  BY <1>6, <2>1, <4>1 DEF ReadDat, IInv, TypeOK, HistoryOK, files
    <3>7. to \in {"nunlock", "unlock"}
      OBVIOUS
    <3> HIDE DEF q, to
    <3> QED  BY <1>3, <3>3, <3>4, <3>5, <3>6, <3>7, FrameRead
  <2>2. CASE ~GoodDat(h[p].datoff, h[p].datlen)
    BY <1>6, <2>2, EndSteps DEF ReadDat
  <2> QED  BY <2>1, <2>2
<1>7. CASE ReadRec(p)
  <2> DEFINE r == idx[h[p].idxoff]
             got == [h[p] EXCEPT !.pos = h[p].idxoff + 1, !.idxkey = r.key, !.idxklen = r.klen,
                                 !.datoff = r.datoff, !.datlen = r.datlen]
             advanced == [got EXCEPT !.ptroff = h[p].idxoff, !.idxoff = h[p].ptrval]
  <2>1. /\ pc[p] = "rec" /\ h[p].idxoff \in DOMAIN idx /\ h[p].idxoff + 1 \in Nat
        /\ h[p].req \in Requests /\ UNCHANGED <<files, locks, ops, map, scan>>
    BY <1>1, <1>7 DEF ReadRec, HandleOK, Control, Offsets, AtIdx, Stopped, IInv, TypeOK, FilesOK
  <2>2. r \in IdxRecords /\ r.datoff \in 1 .. Len(dat) /\ h[p].idxoff \in 1 .. Len(idx)
        /\ h[p].ptrval \in 0 .. Len(idx)
    BY <1>1, <1>4, <2>1 DEF HandleOK, Offsets, Stopped
  <2> HIDE DEF r
  <2>3. got \in Handles
    BY <1>1, <2>1, <2>2 DEF Handles, IdxRecords
  <2>4. advanced \in Handles
    <3> HIDE DEF got
    <3>1. h[p].idxoff \in Nat /\ h[p].ptrval \in Nat
      BY <1>1 DEF Handles
    <3> QED  BY <2>3, <3>1 DEF Handles
  <2>5. /\ got.req = h[p].req /\ got.phase = h[p].phase /\ got.idxoff = h[p].idxoff
        /\ got.ptroff = h[p].ptroff /\ got.ptrval = h[p].ptrval /\ got.front = h[p].front
        /\ got.freeptr = h[p].freeptr /\ got.saveptr = h[p].saveptr
        /\ got.datoff = r.datoff /\ got.datlen = r.datlen
    BY <1>1 DEF Handles
  <2>6. /\ advanced.req = h[p].req /\ advanced.phase = h[p].phase /\ advanced.idxoff = h[p].ptrval
        /\ advanced.ptroff = h[p].idxoff /\ advanced.ptrval = h[p].ptrval
        /\ advanced.front = h[p].front /\ advanced.freeptr = h[p].freeptr
        /\ advanced.saveptr = h[p].saveptr
    BY <1>1 DEF Handles
  <2>7. r.datlen # 0
    BY <2>2 DEF IdxRecords
  <2>8. ASSUME NEW q \in Handles, NEW l \in Labels,
               h' = [h EXCEPT ![p] = q], pc' = [pc EXCEPT ![p] = l],
               HandleOK(q, l, Len(idx), Len(dat)),
               l \in {"readdat", "dlock", "odat", "unlock", "chead", "hdr", "funlink", "funlock"}
        PROVE  IInv'
    BY <1>2, <1>3, <2>1, <2>8, FrameRead
  <2> HIDE DEF got, advanced
  <2>9. CASE h[p].phase = "find"
    <3>0. h[p].req.op \in StoreOps \cup {"fetch", "delete"}
      BY <1>1, <2>1, <2>9 DEF HandleOK, Control, Stopped, Requests
    <3>1. CASE r.key = h[p].req.key
      <4> DEFINE q == [got EXCEPT !.rc = Hit(p, r.datlen).rc]
                 to == Hit(p, r.datlen).to
      <4>1. /\ Hit(p, r.datlen).rc \in [st : Statuses, key : Keys \cup {Blank}, val : Values \cup {Blank}]
            /\ to \in {"readdat", "dlock", "odat", "unlock"}
            /\ to \in {"dlock", "odat"} => h[p].req.op \in StoreOps \cup {"delete"}
            /\ to = "odat" => h[p].req.op \in StoreOps
        BY <3>0 DEF Hit, Rc, Pending, Statuses, StoreOps
      <4> HIDE DEF to
      <4>2. q \in Handles
        BY <2>3, <4>1 DEF Handles
      <4>3. HandleOK(q, to, Len(idx), Len(dat)) /\ to \in Labels
        <5>1. /\ q.req = h[p].req /\ q.phase = h[p].phase /\ q.idxoff = h[p].idxoff
              /\ q.ptroff = h[p].ptroff /\ q.ptrval = h[p].ptrval /\ q.front = h[p].front
              /\ q.freeptr = h[p].freeptr /\ q.saveptr = h[p].saveptr
              /\ q.datoff = r.datoff /\ q.datlen = r.datlen
          BY <2>3, <2>5 DEF Handles
        <5> HIDE DEF q
        <5> QED  BY <1>1, <2>1, <2>2, <2>7, <2>9, <3>0, <4>1, <5>1 DEF Labels, HandleOK,
        Control, Offsets, DataOffset, AtIdx, AtDat, StoreLabels, DeleteLabels, ScanLabels,
        Stopped
      <4>4. h' = [h EXCEPT ![p] = q] /\ pc' = [pc EXCEPT ![p] = to]
        BY <1>7, <2>9, <3>1 DEF ReadRec, Goto, got, r, to
      <4> QED  BY <2>8, <4>1, <4>2, <4>3, <4>4
    <3>2. CASE r.key # h[p].req.key /\ h[p].ptrval # 0
      <4>1. h' = [h EXCEPT ![p] = advanced] /\ pc' = [pc EXCEPT ![p] = "hdr"]
        BY <1>7, <2>9, <3>2 DEF ReadRec, Goto, advanced, got, r
      <4>2. HandleOK(advanced, "hdr", Len(idx), Len(dat)) /\ "hdr" \in Labels
        BY <1>1, <2>1, <2>2, <2>6, <2>9 DEF Labels, HandleOK, Control, Offsets, DataOffset,
           AtIdx, AtDat, StoreLabels, DeleteLabels, ScanLabels, Stopped
      <4> QED  BY <2>4, <2>8, <4>1, <4>2
    <3>3. CASE r.key # h[p].req.key /\ h[p].ptrval = 0
      <4> DEFINE q == [advanced EXCEPT !.rc = Miss(p).rc, !.phase = Miss(p).phase]
                 to == Miss(p).to
      <4>1. /\ Miss(p).rc \in [st : Statuses, key : Keys \cup {Blank}, val : Values \cup {Blank}]
            /\ IF h[p].req.op \in {"insert", "store"} THEN Miss(p).phase = "free" /\ to = "chead"
               ELSE Miss(p).phase = "find" /\ to = "unlock"
        BY DEF Miss, Rc, Pending, Statuses
      <4> HIDE DEF to
      <4>2. q \in Handles
        BY <2>4, <4>1 DEF Handles
      <4>3. HandleOK(q, to, Len(idx), Len(dat)) /\ to \in Labels
        <5>1. /\ q.req = h[p].req /\ q.phase = Miss(p).phase /\ q.idxoff = h[p].ptrval
              /\ q.ptroff = h[p].idxoff /\ q.ptrval = h[p].ptrval /\ q.front = h[p].front
              /\ q.freeptr = h[p].freeptr /\ q.saveptr = h[p].saveptr
          BY <2>4, <2>6 DEF Handles
        <5> HIDE DEF q
        <5> QED  BY <1>1, <2>1, <2>2, <2>9, <3>0, <4>1, <5>1 DEF Labels, StoreOps, HandleOK,
        Control, Offsets, DataOffset, AtIdx, AtDat, StoreLabels, DeleteLabels, ScanLabels,
        Stopped
      <4>4. h' = [h EXCEPT ![p] = q] /\ pc' = [pc EXCEPT ![p] = to]
        BY <1>7, <2>9, <3>3 DEF ReadRec, Goto, advanced, got, r, to
      <4> QED  BY <2>8, <4>1, <4>2, <4>3, <4>4
    <3> QED  BY <3>1, <3>2, <3>3
  <2>10. CASE h[p].phase = "free"
    <3>1. CASE Fits(p, r)
      <4>1. h' = [h EXCEPT ![p] = got] /\ pc' = [pc EXCEPT ![p] = "funlink"]
        BY <1>7, <2>10, <3>1 DEF ReadRec, Goto, got, r
      <4>2. HandleOK(got, "funlink", Len(idx), Len(dat)) /\ "funlink" \in Labels
        BY <1>1, <2>1, <2>2, <2>5, <2>7, <2>10 DEF Labels, HandleOK, Control, Offsets,
           DataOffset, AtIdx, AtDat, StoreLabels, DeleteLabels, ScanLabels, Stopped
      <4> QED  BY <2>3, <2>8, <4>1, <4>2
    <3>2. CASE ~Fits(p, r)
      <4> DEFINE to == IF h[p].ptrval # 0 THEN "hdr" ELSE "funlock"
      <4>1. h' = [h EXCEPT ![p] = advanced] /\ pc' = [pc EXCEPT ![p] = to]
        BY <1>7, <2>10, <3>2 DEF ReadRec, Goto, advanced, got, r
      <4>2. HandleOK(advanced, to, Len(idx), Len(dat)) /\ to \in Labels
        BY <1>1, <2>1, <2>2, <2>6, <2>10 DEF Labels, HandleOK, Control, Offsets, DataOffset,
           AtIdx, AtDat, StoreLabels, DeleteLabels, ScanLabels, Stopped
      <4> QED  BY <2>4, <2>8, <4>1, <4>2
    <3> QED  BY <3>1, <3>2
  <2>11. CASE h[p].phase \notin {"find", "free"}
    <3> DEFINE to == IF r.key = Blank THEN "hdr" ELSE "readdat"
    <3>1. h' = [h EXCEPT ![p] = got] /\ pc' = [pc EXCEPT ![p] = to]
      BY <1>7, <2>11 DEF ReadRec, Goto, got, r
    <3>2. HandleOK(got, to, Len(idx), Len(dat)) /\ to \in Labels
      BY <1>1, <2>1, <2>2, <2>5, <2>7, <2>11 DEF Labels, HandleOK, Control, Offsets,
         DataOffset, AtIdx, AtDat, StoreLabels, DeleteLabels, ScanLabels, Stopped
    <3> QED  BY <2>3, <2>8, <3>1, <3>2
  <2> QED  BY <2>9, <2>10, <2>11
<1> QED  BY <1>5, <1>6, <1>7

\* Writing a record: in the file where the search found it, at the end of the
\* file when it is appended.
LEMMA WriteDatSteps ==
  ASSUME IInv, NEW p \in Procs, DeleteDat(p) \/ ReuseDat(p) \/ AppendDat(p) \/ OverwriteDat(p)
  PROVE  IInv'
<1>1. /\ HandleOK(h[p], pc[p], Len(idx), Len(dat)) /\ h[p] \in Handles
      /\ h \in [Procs -> Handles] /\ Len(idx) \in Nat /\ Len(dat) \in Nat /\ Mid \in Nat
      /\ FREE \in ChainPtrs
  BY Known, KnownLocks
<1>2. FilesOK /\ DataInFile /\ AppendLocked(p)
  BY DEF IInv, TypeOK, AppendLocks
<1>3. ASSUME UNCHANGED locks PROVE KeepsLocks(p) /\ wr' = wr
  BY <1>3, KnownLocks, UnchangedKeeps
<1>4. ASSUME pc[p] \in StoreLabels
      PROVE  /\ h[p].req.key \in Keys /\ h[p].req.val \in Values
             /\ KeyLen[h[p].req.key] \in Nat /\ DatLen[h[p].req.val] \in Nat \ {0}
  BY <1>1, <1>4, TablesTyped DEF HandleOK, Control, StoreLabels, StoreOps, Requests, Stopped
<1>5. ASSUME UNCHANGED <<map, scan>>, DOMAIN idx \subseteq DOMAIN idx' PROVE HistoryOK'
  BY <1>5 DEF IInv, TypeOK, HistoryOK
<1>6. CASE DeleteDat(p)
  <2> DEFINE q == h[p]
             r == DatRec(Blank, h[p].datlen)
  <2>1. /\ pc[p] = "ddat" /\ pc' = [pc EXCEPT ![p] = "dfree"] /\ h' = [h EXCEPT ![p] = q]
        /\ dat' = WriteAt(dat, h[p].datoff, r) /\ UNCHANGED <<idx, head, locks, ops, scan>>
    BY <1>1, <1>6 DEF DeleteDat, Goto
  <2>2. h[p].datoff \in 1 .. Len(dat) + 1 /\ h[p].datlen \in Nat \ {0}
        /\ (h[p].datoff # Len(dat) + 1)
    BY <1>1, <2>1 DEF HandleOK, DataOffset, AtDat, Handles
  <2>3. r \in DatRecords
    BY <2>1, <2>2 DEF DatRec, DatRecords
  <2>4. FilesOK' /\ DataInFile' /\ Len(dat') = IF h[p].datoff = Len(dat) + 1 THEN h[p].datoff ELSE Len(dat)
    <3> HIDE DEF r, q
    <3> QED  BY <1>2, <2>1, <2>2, <2>3, WriteDat
  <2>5. q \in Handles
    BY <1>1 DEF Handles
  <2>6. HandleOK(q, "dfree", Len(idx'), Len(dat')) /\ "dfree" \in Labels
    BY <1>1, <2>1, <2>2, <2>4 DEF Handles, Labels, HandleOK, Control, Offsets, DataOffset,
       AtIdx, AtDat, StoreLabels, DeleteLabels, ScanLabels, Stopped
  <2>7. HistoryOK'
    BY <1>5, <1>6, <2>1 DEF DeleteDat
  <2>8. /\ Len(idx) <= Len(idx') /\ Len(dat) <= Len(dat') /\ Len(idx') = Len(idx)
        /\ Len(dat') = Len(dat)
    BY <1>1, <2>1, <2>2, <2>4
  <2> HIDE DEF q, r
  <2> QED  BY <1>3, <2>1, <2>4, <2>5, <2>6, <2>7, <2>8, FrameMove
<1>7. CASE ReuseDat(p)
  <2> DEFINE q == [h[p] EXCEPT !.datlen = DatLen[h[p].req.val]]
             r == DatRec(h[p].req.val, DatLen[h[p].req.val])
  <2>1. /\ pc[p] = "rdat" /\ pc' = [pc EXCEPT ![p] = "ridx"] /\ h' = [h EXCEPT ![p] = q]
        /\ dat' = WriteAt(dat, h[p].datoff, r) /\ UNCHANGED <<idx, head, locks, ops, scan>>
    BY <1>1, <1>7 DEF ReuseDat, Goto
  <2>2. h[p].datoff \in 1 .. Len(dat) + 1 /\ h[p].datlen \in Nat \ {0}
        /\ (h[p].datoff # Len(dat) + 1)
    BY <1>1, <2>1 DEF HandleOK, DataOffset, AtDat, Handles
  <2>3. r \in DatRecords
    BY <1>4, <2>1, <2>2 DEF DatRec, DatRecords, StoreLabels
  <2>4. FilesOK' /\ DataInFile' /\ Len(dat') = IF h[p].datoff = Len(dat) + 1 THEN h[p].datoff ELSE Len(dat)
    <3> HIDE DEF r, q
    <3> QED  BY <1>2, <2>1, <2>2, <2>3, WriteDat
  <2>5. q \in Handles
    BY <1>1, <1>4, <2>1 DEF Handles, StoreLabels, Rc, Statuses
  <2>6. HandleOK(q, "ridx", Len(idx'), Len(dat')) /\ "ridx" \in Labels
    BY <1>1, <2>1, <2>2, <2>4, <1>4 DEF Handles, Labels, HandleOK, Control, Offsets,
       DataOffset, AtIdx, AtDat, StoreLabels, DeleteLabels, ScanLabels, Stopped
  <2>7. HistoryOK'
    BY <1>5, <1>7, <2>1 DEF ReuseDat
  <2>8. /\ Len(idx) <= Len(idx') /\ Len(dat) <= Len(dat') /\ Len(idx') = Len(idx)
        /\ Len(dat') = Len(dat)
    BY <1>1, <2>1, <2>2, <2>4
  <2> HIDE DEF q, r
  <2> QED  BY <1>3, <2>1, <2>4, <2>5, <2>6, <2>7, <2>8, FrameMove
<1>8. CASE AppendDat(p)
  <2> DEFINE q == h[p]
             r == DatRec(h[p].req.val, h[p].datlen)
  <2>1. /\ pc[p] = "adwrite" /\ pc' = [pc EXCEPT ![p] = "adunlock"] /\ h' = [h EXCEPT ![p] = q]
        /\ dat' = WriteAt(dat, h[p].datoff, r) /\ UNCHANGED <<idx, head, locks, ops, scan>>
    BY <1>1, <1>8 DEF AppendDat, Goto
  <2>2. h[p].datoff \in 1 .. Len(dat) + 1 /\ h[p].datlen \in Nat \ {0}
        /\ (h[p].datoff = Len(dat) + 1)
    BY <1>1, <2>1 DEF HandleOK, DataOffset, AtDat, Handles
  <2>3. r \in DatRecords
    BY <1>4, <2>1, <2>2 DEF DatRec, DatRecords, StoreLabels
  <2>4. FilesOK' /\ DataInFile' /\ Len(dat') = IF h[p].datoff = Len(dat) + 1 THEN h[p].datoff ELSE Len(dat)
    <3> HIDE DEF r, q
    <3> QED  BY <1>2, <2>1, <2>2, <2>3, WriteDat
  <2>5. q \in Handles
    BY <1>1 DEF Handles
  <2>6. HandleOK(q, "adunlock", Len(idx'), Len(dat')) /\ "adunlock" \in Labels
    BY <1>1, <2>1, <2>2, <2>4 DEF Handles, Labels, HandleOK, Control, Offsets, DataOffset,
       AtIdx, AtDat, StoreLabels, DeleteLabels, ScanLabels, Stopped
  <2>7. HistoryOK'
    BY <1>5, <1>8, <2>1 DEF AppendDat
  <2>8. /\ Len(idx) <= Len(idx') /\ Len(dat) <= Len(dat') /\ Len(idx') = Len(idx)
        /\ p \in wr[DAT] /\ p \in wr'[DAT]
    BY <1>1, <2>1, <2>2, <2>4, <1>2, <1>3 DEF AppendLocked
  <2> HIDE DEF q, r
  <2> QED  BY <1>3, <2>1, <2>4, <2>5, <2>6, <2>7, <2>8, FrameMove
<1>9. CASE OverwriteDat(p)
  <2> DEFINE q == [h[p] EXCEPT !.rc = Rc("ok", Blank, Blank)]
             r == DatRec(h[p].req.val, DatLen[h[p].req.val])
  <2>1. /\ pc[p] = "odat" /\ pc' = [pc EXCEPT ![p] = "unlock"] /\ h' = [h EXCEPT ![p] = q]
        /\ dat' = WriteAt(dat, h[p].datoff, r) /\ UNCHANGED <<idx, head, locks, ops, scan>>
    BY <1>1, <1>9 DEF OverwriteDat, Goto
  <2>2. h[p].datoff \in 1 .. Len(dat) + 1 /\ h[p].datlen \in Nat \ {0}
        /\ (h[p].datoff # Len(dat) + 1)
    BY <1>1, <2>1 DEF HandleOK, DataOffset, AtDat, Handles
  <2>3. r \in DatRecords
    BY <1>4, <2>1, <2>2 DEF DatRec, DatRecords, StoreLabels
  <2>4. FilesOK' /\ DataInFile' /\ Len(dat') = IF h[p].datoff = Len(dat) + 1 THEN h[p].datoff ELSE Len(dat)
    <3> HIDE DEF r, q
    <3> QED  BY <1>2, <2>1, <2>2, <2>3, WriteDat
  <2>5. q \in Handles
    BY <1>1, <1>4, <2>1 DEF Handles, StoreLabels, Rc, Statuses
  <2>6. HandleOK(q, "unlock", Len(idx'), Len(dat')) /\ "unlock" \in Labels
    BY <1>1, <2>1, <2>2, <2>4, <1>4 DEF Handles, Labels, HandleOK, Control, Offsets,
       DataOffset, AtIdx, AtDat, StoreLabels, DeleteLabels, ScanLabels, Stopped
  <2>7. HistoryOK'
    BY <1>4, <1>9, <2>1 DEF OverwriteDat, StoreLabels, IInv, TypeOK, HistoryOK
  <2>8. /\ Len(idx) <= Len(idx') /\ Len(dat) <= Len(dat') /\ Len(idx') = Len(idx)
        /\ Len(dat') = Len(dat)
    BY <1>1, <2>1, <2>2, <2>4
  <2> HIDE DEF q, r
  <2> QED  BY <1>3, <2>1, <2>4, <2>5, <2>6, <2>7, <2>8, FrameMove
<1> QED  BY <1>6, <1>7, <1>8, <1>9

\* The same of the index records of _db_writeidx.
LEMMA WriteIdxSteps ==
  ASSUME IInv, NEW p \in Procs, DeleteIdx(p) \/ ReuseIdx(p) \/ AppendIdx(p)
  PROVE  IInv'
<1>1. /\ HandleOK(h[p], pc[p], Len(idx), Len(dat)) /\ h[p] \in Handles
      /\ h \in [Procs -> Handles] /\ Len(idx) \in Nat /\ Len(dat) \in Nat /\ Mid \in Nat
      /\ FREE \in ChainPtrs
  BY Known, KnownLocks
<1>2. FilesOK /\ DataInFile /\ AppendLocked(p)
  BY DEF IInv, TypeOK, AppendLocks
<1>3. ASSUME UNCHANGED locks PROVE KeepsLocks(p) /\ wr' = wr
  BY <1>3, KnownLocks, UnchangedKeeps
<1>4. ASSUME pc[p] \in StoreLabels
      PROVE  /\ h[p].req.key \in Keys /\ h[p].req.val \in Values
             /\ KeyLen[h[p].req.key] \in Nat /\ DatLen[h[p].req.val] \in Nat \ {0}
  BY <1>1, <1>4, TablesTyped DEF HandleOK, Control, StoreLabels, StoreOps, Requests, Stopped
<1>5. ASSUME UNCHANGED <<map, scan>>, DOMAIN idx \subseteq DOMAIN idx' PROVE HistoryOK'
  BY <1>5 DEF IInv, TypeOK, HistoryOK
<1>6. CASE DeleteIdx(p)
  <2> DEFINE q == [h[p] EXCEPT !.ptrval = h[p].freeptr, !.pos = h[p].idxoff + 1]
             r == IdxRec(p, Blank, h[p].idxklen, h[p].freeptr)
  <2>1. /\ pc[p] = "didx" /\ pc' = [pc EXCEPT ![p] = "dhead"] /\ h' = [h EXCEPT ![p] = q]
        /\ idx' = WriteAt(idx, h[p].idxoff, r) /\ UNCHANGED <<dat, head, locks, ops, map>>
    BY <1>1, <1>6 DEF DeleteIdx, Goto
  <2>2. /\ h[p].idxoff \in 1 .. Len(idx) + 1 /\ h[p].idxoff + 1 \in Nat
        /\ h[p].datoff \in 1 .. Len(dat) /\ h[p].datlen \in Nat \ {0} /\ h[p].datoff \in Nat \ {0}
        /\ h[p].freeptr \in 0 .. Len(idx) /\ h[p].freeptr \in Nat /\ h[p].idxklen \in Nat
        /\ h[p].idxoff # Len(idx) + 1
    BY <1>1, <2>1 DEF HandleOK, Offsets, DataOffset, AtDat, AtIdx, Stopped, StoreLabels, Handles
  <2>3. r \in IdxRecords /\ r.ptr = h[p].freeptr /\ r.datoff = h[p].datoff
    BY <2>1, <2>2 DEF IdxRec, IdxRecords
  <2>4. /\ FilesOK' /\ DataInFile' /\ DOMAIN idx \subseteq DOMAIN idx'
        /\ Len(idx') = IF h[p].idxoff = Len(idx) + 1 THEN h[p].idxoff ELSE Len(idx)
    <3> HIDE DEF r, q
    <3> QED  BY <1>2, <2>1, <2>2, <2>3, WriteIdx
  <2>5. q \in Handles
    BY <1>1, <2>2 DEF Handles
  <2>6. HandleOK(q, "dhead", Len(idx'), Len(dat')) /\ "dhead" \in Labels
    <3> HIDE DEF r
    <3> QED  BY <1>1, <2>1, <2>2, <2>4 DEF Handles, Labels, HandleOK, Control, Offsets,
    DataOffset, AtIdx, AtDat, StoreLabels, DeleteLabels, ScanLabels, Stopped
  <2>7. HistoryOK'
    BY <1>6, <2>4 DEF DeleteIdx, IInv, TypeOK, HistoryOK
  <2>8. /\ Len(idx) <= Len(idx') /\ Len(dat) <= Len(dat') /\ Len(dat') = Len(dat)
        /\ Len(idx') = Len(idx)
    BY <1>1, <2>1, <2>2, <2>4
  <2> HIDE DEF q, r
  <2> QED  BY <1>3, <2>1, <2>4, <2>5, <2>6, <2>7, <2>8, FrameMove
<1>7. CASE ReuseIdx(p)
  <2> DEFINE q == [h[p] EXCEPT !.ptrval = h[p].front, !.pos = h[p].idxoff + 1]
             r == IdxRec(p, h[p].req.key, KeyLen[h[p].req.key], h[p].front)
  <2>1. /\ pc[p] = "ridx" /\ pc' = [pc EXCEPT ![p] = "link"] /\ h' = [h EXCEPT ![p] = q]
        /\ idx' = WriteAt(idx, h[p].idxoff, r) /\ UNCHANGED <<dat, head, locks, ops, map>>
    BY <1>1, <1>7 DEF ReuseIdx, Goto
  <2>2. /\ h[p].idxoff \in 1 .. Len(idx) + 1 /\ h[p].idxoff + 1 \in Nat
        /\ h[p].datoff \in 1 .. Len(dat) /\ h[p].datlen \in Nat \ {0} /\ h[p].datoff \in Nat \ {0}
        /\ h[p].front \in 0 .. Len(idx) /\ h[p].front \in Nat /\ KeyLen[h[p].req.key] \in Nat
        /\ h[p].idxoff # Len(idx) + 1
    BY <1>1, <1>4, <2>1 DEF HandleOK, Offsets, DataOffset, AtDat, AtIdx, Stopped, StoreLabels,
       Handles
  <2>3. r \in IdxRecords /\ r.ptr = h[p].front /\ r.datoff = h[p].datoff
    BY <1>4, <2>1, <2>2 DEF IdxRec, IdxRecords, StoreLabels
  <2>4. /\ FilesOK' /\ DataInFile' /\ DOMAIN idx \subseteq DOMAIN idx'
        /\ Len(idx') = IF h[p].idxoff = Len(idx) + 1 THEN h[p].idxoff ELSE Len(idx)
    <3> HIDE DEF r, q
    <3> QED  BY <1>2, <2>1, <2>2, <2>3, WriteIdx
  <2>5. q \in Handles
    BY <1>1, <2>2 DEF Handles
  <2>6. HandleOK(q, "link", Len(idx'), Len(dat')) /\ "link" \in Labels
    <3> HIDE DEF r
    <3> QED  BY <1>1, <2>1, <2>2, <2>4 DEF Handles, Labels, HandleOK, Control, Offsets,
    DataOffset, AtIdx, AtDat, StoreLabels, DeleteLabels, ScanLabels, Stopped
  <2>7. HistoryOK'
    BY <1>5, <1>7, <2>1, <2>4 DEF ReuseIdx
  <2>8. /\ Len(idx) <= Len(idx') /\ Len(dat) <= Len(dat') /\ Len(dat') = Len(dat)
        /\ Len(idx') = Len(idx)
    BY <1>1, <2>1, <2>2, <2>4
  <2> HIDE DEF q, r
  <2> QED  BY <1>3, <2>1, <2>4, <2>5, <2>6, <2>7, <2>8, FrameMove
<1>8. CASE AppendIdx(p)
  <2> DEFINE q == [h[p] EXCEPT !.pos = h[p].idxoff + 1]
             r == IdxRec(p, h[p].req.key, KeyLen[h[p].req.key], h[p].ptrval)
  <2>1. /\ pc[p] = "aiwrite" /\ pc' = [pc EXCEPT ![p] = "aiunlock"] /\ h' = [h EXCEPT ![p] = q]
        /\ idx' = WriteAt(idx, h[p].idxoff, r) /\ UNCHANGED <<dat, head, locks, ops, map>>
    BY <1>1, <1>8 DEF AppendIdx, Goto
  <2>2. /\ h[p].idxoff \in 1 .. Len(idx) + 1 /\ h[p].idxoff + 1 \in Nat
        /\ h[p].datoff \in 1 .. Len(dat) /\ h[p].datlen \in Nat \ {0} /\ h[p].datoff \in Nat \ {0}
        /\ h[p].ptrval \in 0 .. Len(idx) /\ h[p].ptrval \in Nat /\ KeyLen[h[p].req.key] \in Nat
        /\ h[p].idxoff = Len(idx) + 1
    BY <1>1, <1>4, <2>1 DEF HandleOK, Offsets, DataOffset, AtDat, AtIdx, Stopped, StoreLabels,
       Handles
  <2>3. r \in IdxRecords /\ r.ptr = h[p].ptrval /\ r.datoff = h[p].datoff
    BY <1>4, <2>1, <2>2 DEF IdxRec, IdxRecords, StoreLabels
  <2>4. /\ FilesOK' /\ DataInFile' /\ DOMAIN idx \subseteq DOMAIN idx'
        /\ Len(idx') = IF h[p].idxoff = Len(idx) + 1 THEN h[p].idxoff ELSE Len(idx)
    <3> HIDE DEF r, q
    <3> QED  BY <1>2, <2>1, <2>2, <2>3, WriteIdx
  <2>5. q \in Handles
    BY <1>1, <2>2 DEF Handles
  <2>6. HandleOK(q, "aiunlock", Len(idx'), Len(dat')) /\ "aiunlock" \in Labels
    <3> HIDE DEF r
    <3> QED  BY <1>1, <2>1, <2>2, <2>4 DEF Handles, Labels, HandleOK, Control, Offsets,
    DataOffset, AtIdx, AtDat, StoreLabels, DeleteLabels, ScanLabels, Stopped
  <2>7. HistoryOK'
    BY <1>5, <1>8, <2>1, <2>4 DEF AppendIdx
  <2>8. /\ Len(idx) <= Len(idx') /\ Len(dat) <= Len(dat') /\ Len(dat') = Len(dat)
        /\ p \in wr[TAIL] /\ p \in wr'[TAIL]
    BY <1>1, <2>1, <2>2, <2>4, <1>2, <1>3 DEF AppendLocked
  <2> HIDE DEF q, r
  <2> QED  BY <1>3, <2>1, <2>4, <2>5, <2>6, <2>7, <2>8, FrameMove
<1> QED  BY <1>6, <1>7, <1>8

\* _db_writeptr: the head of the free list, a predecessor, the head of a chain.
LEMMA WritePtrSteps ==
  ASSUME IInv, NEW p \in Procs, DeleteHead(p) \/ DeletePrev(p) \/ FreeUnlink(p) \/ Link(p)
  PROVE  IInv'
<1>1. /\ HandleOK(h[p], pc[p], Len(idx), Len(dat)) /\ h[p] \in Handles
      /\ h \in [Procs -> Handles] /\ Len(idx) \in Nat /\ Len(dat) \in Nat /\ Mid \in Nat
      /\ FREE \in ChainPtrs
  BY Known, KnownLocks
<1>2. FilesOK /\ DataInFile /\ AppendLocked(p)
  BY DEF IInv, TypeOK, AppendLocks
<1>3. ASSUME UNCHANGED locks PROVE KeepsLocks(p) /\ wr' = wr
  BY <1>3, KnownLocks, UnchangedKeeps
<1>4. ASSUME pc[p] \in StoreLabels
      PROVE  /\ h[p].req.key \in Keys /\ h[p].req.val \in Values
             /\ KeyLen[h[p].req.key] \in Nat /\ DatLen[h[p].req.val] \in Nat \ {0}
  BY <1>1, <1>4, TablesTyped DEF HandleOK, Control, StoreLabels, StoreOps, Requests, Stopped
<1>5. ASSUME UNCHANGED <<map, scan>>, DOMAIN idx \subseteq DOMAIN idx' PROVE HistoryOK'
  BY <1>5 DEF IInv, TypeOK, HistoryOK
<1>6. CASE DeleteHead(p)
  <2> DEFINE q == [h[p] EXCEPT !.pos = Mid]
  <2>1. /\ pc[p] = "dhead" /\ pc' = [pc EXCEPT ![p] = "dprev"] /\ h' = [h EXCEPT ![p] = q]
        /\ WritePtr(FREE, h[p].idxoff) /\ UNCHANGED <<locks, ops, scan>>
    BY <1>1, <1>6 DEF DeleteHead, Goto
  <2>2. FREE \in ChainPtrs \cup 1 .. Len(idx) /\ h[p].idxoff \in 0 .. Len(idx)
    BY <1>1, <2>1 DEF HandleOK, Offsets, AtIdx, Stopped
  <2>3. FilesOK' /\ DataInFile' /\ Len(idx') = Len(idx) /\ DOMAIN idx' = DOMAIN idx /\ dat' = dat
    <3> HIDE DEF q
    <3> QED  BY <1>2, <2>1, <2>2, WritePtrKeeps
  <2>4. q \in Handles
    BY <1>1 DEF Handles, Rc, Statuses
  <2>5. HandleOK(q, "dprev", Len(idx'), Len(dat')) /\ "dprev" \in Labels
    BY <1>1, <2>1, <2>3 DEF Handles, Labels, HandleOK, Control, Offsets, DataOffset, AtIdx,
       AtDat, StoreLabels, DeleteLabels, ScanLabels, Stopped
  <2>6. HistoryOK'
    BY <1>5, <1>6, <2>1, <2>3 DEF DeleteHead
  <2>7. Len(idx) <= Len(idx') /\ Len(dat') = Len(dat) /\ Len(dat) <= Len(dat')
    BY <1>1, <2>3
  <2> HIDE DEF q
  <2> QED  BY <1>3, <2>1, <2>3, <2>4, <2>5, <2>6, <2>7, FrameMove
<1>7. CASE DeletePrev(p)
  <2> DEFINE q == [h[p] EXCEPT !.pos = Mid, !.rc = IF h[p].req.op = "delete" THEN Rc("ok", Blank, Blank) ELSE h[p].rc]
  <2>1. /\ pc[p] = "dprev" /\ pc' = [pc EXCEPT ![p] = "dunlock"] /\ h' = [h EXCEPT ![p] = q]
        /\ WritePtr(h[p].ptroff, h[p].saveptr) /\ UNCHANGED <<locks, ops, scan>>
    BY <1>1, <1>7 DEF DeletePrev, Goto
  <2>2. h[p].ptroff \in ChainPtrs \cup 1 .. Len(idx) /\ h[p].saveptr \in 0 .. Len(idx)
    BY <1>1, <2>1 DEF HandleOK, Offsets, AtIdx, Stopped
  <2>3. FilesOK' /\ DataInFile' /\ Len(idx') = Len(idx) /\ DOMAIN idx' = DOMAIN idx /\ dat' = dat
    <3> HIDE DEF q
    <3> QED  BY <1>2, <2>1, <2>2, WritePtrKeeps
  <2>4. q \in Handles
    BY <1>1 DEF Handles, Rc, Statuses
  <2>5. HandleOK(q, "dunlock", Len(idx'), Len(dat')) /\ "dunlock" \in Labels
    BY <1>1, <2>1, <2>3 DEF Handles, Labels, HandleOK, Control, Offsets, DataOffset, AtIdx,
       AtDat, StoreLabels, DeleteLabels, ScanLabels, Stopped
  <2>6. HistoryOK'
    BY <1>7, <2>3 DEF DeletePrev, IInv, TypeOK, HistoryOK
  <2>7. Len(idx) <= Len(idx') /\ Len(dat') = Len(dat) /\ Len(dat) <= Len(dat')
    BY <1>1, <2>3
  <2> HIDE DEF q
  <2> QED  BY <1>3, <2>1, <2>3, <2>4, <2>5, <2>6, <2>7, FrameMove
<1>8. CASE FreeUnlink(p)
  <2> DEFINE q == [h[p] EXCEPT !.pos = Mid]
  <2>1. /\ pc[p] = "funlink" /\ pc' = [pc EXCEPT ![p] = "funlock"] /\ h' = [h EXCEPT ![p] = q]
        /\ WritePtr(h[p].ptroff, h[p].ptrval) /\ UNCHANGED <<locks, ops, scan>>
    BY <1>1, <1>8 DEF FreeUnlink, Goto
  <2>2. h[p].ptroff \in ChainPtrs \cup 1 .. Len(idx) /\ h[p].ptrval \in 0 .. Len(idx)
    BY <1>1, <2>1 DEF HandleOK, Offsets, AtIdx, Stopped
  <2>3. FilesOK' /\ DataInFile' /\ Len(idx') = Len(idx) /\ DOMAIN idx' = DOMAIN idx /\ dat' = dat
    <3> HIDE DEF q
    <3> QED  BY <1>2, <2>1, <2>2, WritePtrKeeps
  <2>4. q \in Handles
    BY <1>1 DEF Handles, Rc, Statuses
  <2>5. HandleOK(q, "funlock", Len(idx'), Len(dat')) /\ "funlock" \in Labels
    BY <1>1, <2>1, <2>3 DEF Handles, Labels, HandleOK, Control, Offsets, DataOffset, AtIdx,
       AtDat, StoreLabels, DeleteLabels, ScanLabels, Stopped
  <2>6. HistoryOK'
    BY <1>5, <1>8, <2>1, <2>3 DEF FreeUnlink
  <2>7. Len(idx) <= Len(idx') /\ Len(dat') = Len(dat) /\ Len(dat) <= Len(dat')
    BY <1>1, <2>3
  <2> HIDE DEF q
  <2> QED  BY <1>3, <2>1, <2>3, <2>4, <2>5, <2>6, <2>7, FrameMove
<1>9. CASE Link(p)
  <2> DEFINE q == [h[p] EXCEPT !.rc = Rc("ok", Blank, Blank), !.pos = Mid]
  <2>1. /\ pc[p] = "link" /\ pc' = [pc EXCEPT ![p] = "unlock"] /\ h' = [h EXCEPT ![p] = q]
        /\ WritePtr(ChainOf(p), h[p].idxoff) /\ UNCHANGED <<locks, ops, scan>>
    BY <1>1, <1>9 DEF Link, Goto
  <2>10. ChainOf(p) \in ChainPtrs
    BY <1>1, <2>1, KnownChain DEF HandleOK, Control, ScanLabels, Stopped
  <2>2. ChainOf(p) \in ChainPtrs \cup 1 .. Len(idx) /\ h[p].idxoff \in 0 .. Len(idx)
    BY <1>1, <2>1, <2>10 DEF HandleOK, Offsets, AtIdx, Stopped
  <2>3. FilesOK' /\ DataInFile' /\ Len(idx') = Len(idx) /\ DOMAIN idx' = DOMAIN idx /\ dat' = dat
    <3> HIDE DEF q
    <3> QED  BY <1>2, <2>1, <2>2, WritePtrKeeps
  <2>4. q \in Handles
    BY <1>1 DEF Handles, Rc, Statuses
  <2>5. HandleOK(q, "unlock", Len(idx'), Len(dat')) /\ "unlock" \in Labels
    BY <1>1, <2>1, <2>3 DEF Handles, Labels, HandleOK, Control, Offsets, DataOffset, AtIdx,
       AtDat, StoreLabels, DeleteLabels, ScanLabels, Stopped
  <2>6. HistoryOK'
    BY <1>4, <1>9, <2>1, <2>3 DEF Link, StoreLabels, IInv, TypeOK, HistoryOK
  <2>7. Len(idx) <= Len(idx') /\ Len(dat') = Len(dat) /\ Len(dat) <= Len(dat')
    BY <1>1, <2>3
  <2> HIDE DEF q
  <2> QED  BY <1>3, <2>1, <2>3, <2>4, <2>5, <2>6, <2>7, FrameMove
<1> QED  BY <1>6, <1>7, <1>8, <1>9

-----------------------------------------------------------------------------
(* The initial state, and the theorems.                                     *)

\* The initial chain pointers lead to a preloaded record or are null.
LEMMA LatestIn ==
  ASSUME NEW n \in Nat, NEW S \in SUBSET (1 .. n)
  PROVE  Latest(S) \in 0 .. n
<1> DEFINE last == {k \in S : \A m \in S : m <= k}
           top == CHOOSE k \in last : TRUE
<1>1. Latest(S) = IF last = {} THEN 0 ELSE top
  BY DEF Latest
<1>2. last # {} => top \in last
  <2> HIDE DEF last
  <2> QED  OBVIOUS
<1>3. last \subseteq 1 .. n
  OBVIOUS
<1>4. CASE last = {}
  <2>1. Latest(S) = 0
    BY <1>1, <1>4
  <2> QED  BY <2>1
<1>5. CASE last # {}
  <2>1. Latest(S) = top
    BY <1>1, <1>5
  <2>2. top \in 1 .. n
    <3> HIDE DEF last, top
    <3> QED  BY <1>2, <1>3, <1>5
  <2> HIDE DEF last, top
  <2> QED  BY <2>1, <2>2
<1> QED  BY <1>4, <1>5

\* A database into which records were only inserted satisfies the invariant.
LEMMA InitIInv == Init => IInv
<1> SUFFICES ASSUME Init PROVE IInv
  OBVIOUS
<1> DEFINE N == Len(Preload)
<1>1. N \in Nat /\ DOMAIN Preload = 1 .. N /\ \A n \in 1 .. N : Preload[n] \in [key : Keys, val : Values]
  <2> DEFINE Recs == [key : Keys, val : Values]
  <2>1. Preload \in Seq(Recs)
    BY PreloadTyped
  <2> HIDE DEF Recs
  <2>2. N \in Nat /\ DOMAIN Preload = 1 .. N /\ \A n \in 1 .. N : Preload[n] \in Recs
    BY <2>1
  <2> QED  BY <2>2 DEF Recs
<1>2. ASSUME NEW n \in 1 .. N
      PROVE  /\ Preload[n].key \in Keys /\ Preload[n].val \in Values
             /\ KeyLen[Preload[n].key] \in Nat /\ DatLen[Preload[n].val] \in Nat \ {0}
             /\ Latest({m \in ChainMembers(Hash[Preload[n].key]) : m < n}) \in 0 .. N
  BY <1>1, TablesTyped, LatestIn DEF ChainMembers
<1>3. \A c \in Chains : Latest(ChainMembers(c)) \in 0 .. N
  BY <1>1, LatestIn DEF ChainMembers
<1> HIDE DEF N
<1>4. /\ idx \in Seq(IdxRecords) /\ Len(idx) = N /\ DOMAIN idx = 1 .. N
      /\ \A n \in 1 .. N : idx[n].ptr \in 0 .. N /\ idx[n].datoff = n
  <2> DEFINE R(n) == [ptr |-> Latest({m \in ChainMembers(Hash[Preload[n].key]) : m < n}),
                      key |-> Preload[n].key, klen |-> KeyLen[Preload[n].key],
                      datoff |-> n, datlen |-> DatLen[Preload[n].val],
                      room |-> KeyLen[Preload[n].key]]
  <2>1. \A n \in 1 .. N : R(n) \in IdxRecords /\ R(n).ptr \in 0 .. N /\ R(n).datoff = n
    BY <1>1, <1>2 DEF IdxRecords
  <2>2. idx = [n \in 1 .. N |-> R(n)]
    BY <1>1 DEF Init
  <2> HIDE DEF R
  <2> QED  BY <1>1, <2>1, <2>2
<1>5. dat \in Seq(DatRecords) /\ Len(dat) = N
  <2> DEFINE R(n) == [val |-> Preload[n].val, len |-> DatLen[Preload[n].val],
                      room |-> DatLen[Preload[n].val]]
  <2>1. \A n \in 1 .. N : R(n) \in DatRecords
    BY <1>2 DEF DatRecords
  <2>2. dat = [n \in 1 .. N |-> R(n)]
    BY <1>1 DEF Init
  <2> HIDE DEF R
  <2> QED  BY <1>1, <2>1, <2>2
<1>6. FilesOK /\ DataInFile
  <2>1. head \in [ChainPtrs -> 0 .. N]
    BY <1>1, <1>3 DEF Init, ChainPtrs
  <2> QED  BY <1>4, <1>5, <2>1 DEF FilesOK, DataInFile
<1>7. LocksOK /\ LocksExclude
  BY DEF Init, LocksOK, LocksExclude
<1>8. ProcsOK /\ AppendLocks
  <2>1. Handle(1) \in Handles
    BY DEF Handle, Handles, NoReq, Pending, Rc, Statuses, ChainPtrs
  <2> QED  BY <2>1, MenuTyped DEF Init, ProcsOK, Labels, AppendLocks, AppendLocked
<1>9. HistoryOK
  <2>1. \A k \in Keys : map[k] \in Values \cup {Blank}
    <3> SUFFICES ASSUME NEW k \in Keys PROVE map[k] \in Values \cup {Blank}
      OBVIOUS
    <3>1. CASE \E n \in DOMAIN Preload : Preload[n].key = k
      <4>1. (CHOOSE n \in DOMAIN Preload : Preload[n].key = k) \in 1 .. N
        BY <1>1, <3>1
      <4> QED  BY <1>2, <3>1, <4>1 DEF Init
    <3>2. CASE ~ \E n \in DOMAIN Preload : Preload[n].key = k
      BY <3>2 DEF Init
    <3> QED  BY <3>1, <3>2
  <2>2. map \in [Keys -> Values \cup {Blank}]
    BY <2>1 DEF Init
  <2> QED  BY <1>1, <1>4, <2>2 DEF Init, HistoryOK, Scanning
<1>10. HandlesOK
  <2>1. HandleOK(Handle(1), "idle", Len(idx), Len(dat))
    BY <1>1, <1>4, <1>5 DEF Handle, ChainPtrs, HandleOK, Control, Offsets, DataOffset, AtIdx,
       AtDat, StoreLabels, DeleteLabels, ScanLabels, Stopped
  <2> QED  BY <2>1 DEF Init, HandlesOK
<1> QED  BY <1>6, <1>7, <1>8, <1>9, <1>10 DEF IInv, TypeOK

\* Every call of the library, in any interleaving of any number of processes,
\* and every end of a process inside it keeps the invariant.
THEOREM Invariance == Spec => []IInv
<1>1. IInv /\ [Next]_vars => IInv'
  <2> SUFFICES ASSUME IInv, [Next]_vars PROVE IInv'
    OBVIOUS
  <2>1. ASSUME NEW p \in Procs, Call(p) \/ db_rewind(p) \/ db_close(p) \/ Step(p) \/ Crash(p)
        PROVE  IInv'
    BY <2>1, LockSteps, EndSteps, CallSteps, PointerSteps, ReadSteps, WriteDatSteps,
       WriteIdxSteps, WritePtrSteps DEF Step, Find, DoDelete, FindFree, AppendRec, Store
  <2>2. CASE UNCHANGED vars
    BY <2>2 DEF vars, files, locks, IInv, TypeOK, FilesOK, LocksOK, ProcsOK, HistoryOK,
       HandlesOK, DataInFile, LocksExclude, AppendLocks, AppendLocked
  <2> QED  BY <2>1, <2>2 DEF Next, AllStopped
<1> QED  BY <1>1, InitIInv, PTL DEF Spec

\* The files stay well formed: every chain pointer of the index file, also after
\* any number of deletes, reuses and appends, is null or leads to a record.
THEOREM TypeCorrect == Spec => []TypeOK
<1>1. IInv => TypeOK
  BY DEF IInv
<1> QED  BY <1>1, Invariance, PTL

\* The record locks of _db_writeidx and _db_writedat suffice: between lseek and
\* write nobody else makes the file longer, so no append overwrites a record.
THEOREM AppendsAtEof == Spec => []AppendAtEof
<1>1. IInv => AppendAtEof
  BY DEF IInv, HandlesOK, HandleOK, Offsets, DataOffset, Stopped, AppendAtEof
<1> QED  BY <1>1, Invariance, PTL

-----------------------------------------------------------------------------
(* The second invariant, FitInv: the sizes of the records, what a process   *)
(* knows of the record it works on, and how far a scan has come.            *)

\* Where a process has read the index record at idxoff,
ReadPcs == {"readdat", "dlock", "ddat", "dfree", "didx", "odat", "funlink", "rdat", "ridx"}
\* where that is a free record which it has taken, or is about to,
TakenPcs == {"funlink", "rdat", "ridx"}
\* and where it has data of its own that no index record leads to yet.
NewDataPcs == {"adwrite", "adunlock", "ailock", "aiseek", "aiwrite"}

HasRead(p) == pc[p] \in ReadPcs \/ (pc[p] = "funlock" /\ h[p].idxoff # 0)
HasTaken(p) == pc[p] \in TakenPcs \/ (pc[p] = "funlock" /\ h[p].idxoff # 0)

\* An index record and its data agree on the size of the data.
DataFits == \A n \in DOMAIN idx : dat[idx[n].datoff].room = idx[n].datlen

\* What a process has read about a record stays true, because the room a record has
\* and where its data is never change.
ReadStill(p) == HasRead(p) =>
  LET r == idx[h[p].idxoff] IN
  h[p].idxklen = r.room /\ h[p].datoff = r.datoff /\ h[p].datlen = r.datlen

\* What it is about to write there has the right size.
WritesFit(p) ==
  /\ HasTaken(p) => h[p].idxklen = KeyLen[h[p].req.key]
  /\ HasTaken(p) \/ pc[p] = "odat" => h[p].datlen = DatLen[h[p].req.val]
  /\ pc[p] \in NewDataPcs \ {"adwrite"} => dat[h[p].datoff].room = h[p].datlen

\* Where it will read a record, there is one.
ReadsRecord(p) == pc[p] = "hdr" /\ h[p].phase # "scan" => h[p].idxoff # 0

Fitting(p) == ReadStill(p) /\ WritesFit(p) /\ ReadsRecord(p)

\* A scan is at a record or at the end of the file, and has returned every record
\* in place that is behind it.
ScanAt(p) == IF pc[p] \in {"rec", "readdat"} THEN h[p].idxoff ELSE h[p].pos
ScanGoes(p) ==
  /\ pc[p] \notin {"idle"} \cup Stopped => (scan[p].on <=> h[p].phase = "scan")
  /\ \A n \in scan[p].live : idx[n].key # Blank
  /\ scan[p].on /\ pc[p] \notin Stopped =>
       /\ ScanAt(p) \in 1 .. Len(idx) + 1 /\ h[p].pos \in 1 .. Len(idx) + 1
       /\ \A n \in scan[p].live : n < ScanAt(p) => n \in scan[p].seen
       /\ pc[p] = "readdat" => h[p].pos = h[p].idxoff + 1
  /\ pc[p] = "nunlock" /\ h[p].rc.st = "none" => scan[p].live \subseteq scan[p].seen

FitInv == IInv /\ RecordsReadable /\ DataFits /\ \A p \in Procs : Fitting(p) /\ ScanGoes(p)
-----------------------------------------------------------------------------
(* What a step leaves alone.                                                *)

Steps(p) == Call(p) \/ db_rewind(p) \/ db_close(p) \/ Step(p) \/ Crash(p)
WritesIdx(p) == DeleteIdx(p) \/ ReuseIdx(p) \/ AppendIdx(p)
WritesDat(p) == DeleteDat(p) \/ ReuseDat(p) \/ AppendDat(p) \/ OverwriteDat(p)
WritesPtr(p) == DeleteHead(p) \/ DeletePrev(p) \/ FreeUnlink(p) \/ Link(p)

\* The state of the other processes, ...
LEMMA Others ==
  ASSUME IInv, NEW p \in Procs, Steps(p)
  PROVE  \A q \in Procs \ {p} : h'[q] = h[q] /\ pc'[q] = pc[q]
<1> SUFFICES ASSUME NEW q \in Procs \ {p} PROVE h'[q] = h[q] /\ pc'[q] = pc[q]
  OBVIOUS
<1> USE Known DEF Goto, Stop
<1>1. CASE Call(p) \/ db_rewind(p) \/ db_close(p) \/ Crash(p) \/ Return(p) \/ NextLock(p) \/ NextUnlock(p)
  BY <1>1 DEF Call, db_rewind, db_close, Crash, Return, NextLock, NextUnlock
<1>2. CASE LockChain(p) \/ FindPtr(p)
  BY <1>2 DEF LockChain, FindPtr
<1>3. CASE ReadHdr(p)
  BY <1>3 DEF ReadHdr, ErrDump
<1>4. CASE ReadRec(p)
  BY <1>4 DEF ReadRec
<1>5. CASE ReadDat(p)
  BY <1>5 DEF ReadDat, ErrDump
<1>6. CASE DoDelete(p)
  BY <1>6 DEF DoDelete, DeleteLock, DeleteDat, DeleteFree, DeleteIdx, DeleteHead, DeletePrev, DeleteUnlock
<1>7. CASE FindFree(p)
  BY <1>7 DEF FindFree, FreeLock, FreePtr, FreeUnlink, FreeUnlock
<1>8. CASE AppendRec(p)
  BY <1>8 DEF AppendRec, AppendDatLock, AppendDatSeek, AppendDat, AppendDatUnlock, AppendIdxLock,
     AppendIdxSeek, AppendIdx, AppendIdxUnlock
<1>9. CASE Store(p)
  BY <1>9 DEF Store, ChainHead, ReuseDat, ReuseIdx, Link, LinkTooFar, OverwriteDat
<1> QED  BY <1>1, <1>2, <1>3, <1>4, <1>5, <1>6, <1>7, <1>8, <1>9 DEF Steps, Step, Find

\* ... and the files, unless it is a write.
LEMMA FilesStay ==
  ASSUME NEW p \in Procs, Steps(p), ~WritesIdx(p), ~WritesDat(p), ~WritesPtr(p)
  PROVE  UNCHANGED files
<1>1. CASE Call(p) \/ db_rewind(p) \/ db_close(p) \/ Crash(p) \/ Return(p) \/ NextLock(p) \/ NextUnlock(p)
  BY <1>1 DEF Call, db_rewind, db_close, Crash, Return, NextLock, NextUnlock
<1>2. CASE Find(p)
  BY <1>2 DEF Find, LockChain, FindPtr, ReadHdr, ReadRec, ReadDat, ErrDump
<1>3. CASE DoDelete(p) \/ FindFree(p)
  BY <1>3 DEF DoDelete, DeleteLock, DeleteFree, DeleteUnlock, FindFree, FreeLock, FreePtr, FreeUnlock,
     WritesIdx, WritesDat, WritesPtr
<1>4. CASE AppendRec(p) \/ Store(p)
  BY <1>4 DEF AppendRec, AppendDatLock, AppendDatSeek, AppendDatUnlock, AppendIdxLock,
     AppendIdxSeek, AppendIdxUnlock, Store, ChainHead, LinkTooFar, WritesIdx, WritesDat, WritesPtr
<1> QED  BY <1>1, <1>2, <1>3, <1>4 DEF Steps, Step

-----------------------------------------------------------------------------
(* The layout of the files.                                                 *)

\* A record keeps its room, and where its data is.
LayoutKept ==
  /\ \A n \in DOMAIN idx : /\ n \in DOMAIN idx' /\ idx'[n].room = idx[n].room
                           /\ idx'[n].datoff = idx[n].datoff /\ idx'[n].datlen = idx[n].datlen
  /\ \A n \in DOMAIN dat : n \in DOMAIN dat' /\ dat'[n].room = dat[n].room
Layout == RecordsFit /\ DataFits

\* Writing an index record over one of the same sizes with the same data, or at the
\* end of the file with data that was written before.
LEMMA IdxWritten ==
  ASSUME IInv, Layout, NEW n \in 1 .. Len(idx) + 1, NEW r \in IdxRecords, UNCHANGED dat,
         idx' = WriteAt(idx, n, r), r.datoff \in 1 .. Len(dat), r.room = r.klen,
         n \in DOMAIN idx => r.klen = idx[n].room /\ r.datoff = idx[n].datoff /\ r.datlen = idx[n].datlen,
         n \notin DOMAIN idx => dat[r.datoff].room = r.datlen
  PROVE  LayoutKept /\ Layout'
<1>1. idx \in Seq(IdxRecords) /\ Len(idx) \in Nat /\ DOMAIN idx = 1 .. Len(idx)
  BY DEF IInv, TypeOK, FilesOK
<1>2. CASE n \in DOMAIN idx
  <2> DEFINE w == [r EXCEPT !.room = idx[n].room]
  <2>1. /\ w.room = idx[n].room /\ w.klen = idx[n].room
        /\ w.datoff = idx[n].datoff /\ w.datlen = idx[n].datlen
    BY <1>2 DEF IdxRecords
  <2>2. idx' = [idx EXCEPT ![n] = w]
    BY <1>2 DEF WriteAt
  <2> HIDE DEF w
  <2>3. DOMAIN idx' = DOMAIN idx /\ \A k \in DOMAIN idx : idx'[k] = IF k = n THEN w ELSE idx[k]
    BY <1>2, <2>2
  <2> QED  BY <2>1, <2>3 DEF LayoutKept, Layout, RecordsFit, DataFits
<1>3. CASE n \notin DOMAIN idx
  <2>1. idx' = Append(idx, r)
    BY <1>3 DEF WriteAt
  <2>3. n = Len(idx) + 1
    BY <1>1, <1>3
  <2>2. /\ DOMAIN idx' = DOMAIN idx \cup {n} /\ \A k \in DOMAIN idx : idx'[k] = idx[k]
        /\ idx'[n] = r
    BY <1>1, <2>1, <2>3
  <2> QED  BY <1>3, <2>2 DEF LayoutKept, Layout, RecordsFit, DataFits
<1> QED  BY <1>2, <1>3

\* Writing data over data of the same size, or at the end of the file.
LEMMA DatWritten ==
  ASSUME IInv, Layout, NEW n \in 1 .. Len(dat) + 1, NEW r \in DatRecords, UNCHANGED idx,
         dat' = WriteAt(dat, n, r), r.room = r.len, n \in DOMAIN dat => r.len = dat[n].room
  PROVE  LayoutKept /\ Layout' /\ (n \notin DOMAIN dat => n \in DOMAIN dat' /\ dat'[n].room = r.room)
<1>1. dat \in Seq(DatRecords) /\ Len(dat) \in Nat /\ DOMAIN dat = 1 .. Len(dat)
      /\ \A k \in DOMAIN idx : idx[k].datoff \in DOMAIN dat
  BY DEF IInv, TypeOK, FilesOK, DataInFile
<1>2. CASE n \in DOMAIN dat
  <2> DEFINE w == [r EXCEPT !.room = dat[n].room]
  <2>1. w.room = dat[n].room /\ w.len = dat[n].room
    BY <1>2 DEF DatRecords
  <2>2. dat' = [dat EXCEPT ![n] = w]
    BY <1>2 DEF WriteAt
  <2> HIDE DEF w
  <2>3. DOMAIN dat' = DOMAIN dat /\ \A k \in DOMAIN dat : dat'[k] = IF k = n THEN w ELSE dat[k]
    BY <1>2, <2>2
  <2> QED  BY <1>1, <1>2, <2>1, <2>3 DEF LayoutKept, Layout, RecordsFit, DataFits
<1>3. CASE n \notin DOMAIN dat
  <2>1. dat' = Append(dat, r)
    BY <1>3 DEF WriteAt
  <2>3. n = Len(dat) + 1
    BY <1>1, <1>3
  <2>2. /\ DOMAIN dat' = DOMAIN dat \cup {n} /\ \A k \in DOMAIN dat : dat'[k] = dat[k]
        /\ dat'[n] = r
    BY <1>1, <2>1, <2>3
  <2> QED  BY <1>1, <1>3, <2>2 DEF LayoutKept, Layout, RecordsFit, DataFits
<1> QED  BY <1>2, <1>3

\* _db_writeptr changes nothing but a pointer.
LEMMA PtrWritten ==
  ASSUME IInv, Layout, NEW loc \in ChainPtrs \cup 1 .. Len(idx), NEW n \in 0 .. Len(idx), WritePtr(loc, n)
  PROVE  /\ LayoutKept /\ Layout' /\ DOMAIN idx' = DOMAIN idx
         /\ \A k \in DOMAIN idx : idx'[k].key = idx[k].key
<1>1. idx \in Seq(IdxRecords) /\ Len(idx) \in Nat /\ DOMAIN idx = 1 .. Len(idx)
  BY DEF IInv, TypeOK, FilesOK
<1>2. CASE loc \in ChainPtrs
  BY <1>2 DEF WritePtr, LayoutKept, Layout, RecordsFit, DataFits
<1>3. CASE loc \notin ChainPtrs
  <2> DEFINE w == [idx[loc] EXCEPT !.ptr = n]
  <2>1. /\ loc \in DOMAIN idx /\ w.room = idx[loc].room /\ w.klen = idx[loc].klen /\ w.key = idx[loc].key
        /\ w.datoff = idx[loc].datoff /\ w.datlen = idx[loc].datlen
    <3>1. loc \in DOMAIN idx /\ idx[loc] \in IdxRecords
      BY <1>1, <1>3
    <3> QED  BY <3>1 DEF IdxRecords
  <2>2. idx' = [idx EXCEPT ![loc] = w] /\ dat' = dat
    BY <1>3 DEF WritePtr
  <2> HIDE DEF w
  <2>3. DOMAIN idx' = DOMAIN idx /\ \A k \in DOMAIN idx : idx'[k] = IF k = loc THEN w ELSE idx[k]
    BY <2>1, <2>2
  <2> QED  BY <2>1, <2>2, <2>3 DEF LayoutKept, Layout, RecordsFit, DataFits
<1> QED  BY <1>2, <1>3

\* With the layout a process keeps what it knows of it.
LEMMA FittingStays ==
  ASSUME IInv, NEW q \in Procs, Fitting(q), LayoutKept, h'[q] = h[q], pc'[q] = pc[q]
  PROVE  Fitting(q)'
<1>1. HasRead(q) => h[q].idxoff \in DOMAIN idx
  <2>1. HandleOK(h[q], pc[q], Len(idx), Len(dat)) /\ Len(idx) \in Nat /\ DOMAIN idx = 1 .. Len(idx)
    BY Known DEF IInv, TypeOK, FilesOK
  <2> QED  BY <2>1 DEF HandleOK, Offsets, HasRead, ReadPcs, AtIdx, Stopped
<1>2. pc[q] \in NewDataPcs \ {"adwrite"} => h[q].datoff \in DOMAIN dat
  BY Known DEF HandleOK, DataOffset, NewDataPcs, AtDat, IInv, TypeOK, FilesOK
<1>3. ReadStill(q)'
  BY <1>1 DEF Fitting, ReadStill, HasRead, LayoutKept
<1>4. WritesFit(q)' /\ ReadsRecord(q)'
  BY <1>2 DEF Fitting, WritesFit, HasTaken, ReadsRecord, LayoutKept
<1> QED  BY <1>3, <1>4 DEF Fitting

-----------------------------------------------------------------------------
(* What a process knows about records, step by step.                        *)

\* Taking and releasing locks, and the end of a process.
LEMMA FittingLocks ==
  ASSUME IInv, NEW p \in Procs, Fitting(p),
         \/ NextLock(p) \/ DeleteLock(p) \/ FreeLock(p) \/ AppendDatLock(p) \/ AppendIdxLock(p)
         \/ DeleteUnlock(p) \/ FreeUnlock(p) \/ AppendDatUnlock(p) \/ AppendIdxUnlock(p)
         \/ db_close(p) \/ Crash(p) \/ LinkTooFar(p)
  PROVE  Fitting(p)' /\ pc'[p] # "dumped"
<1> USE Known DEF Fitting, ReadStill, WritesFit, ReadsRecord, HasRead, HasTaken, ReadPcs, TakenPcs,
                  NewDataPcs, Goto, Stop, files
<1>1. CASE NextLock(p)
  BY <1>1 DEF NextLock, HandleOK, Control, Stopped
<1>2. CASE DeleteLock(p) \/ FreeLock(p) \/ AppendDatLock(p) \/ AppendIdxLock(p)
  BY <1>2 DEF DeleteLock, FreeLock, AppendDatLock, AppendIdxLock
<1>3. CASE DeleteUnlock(p) \/ AppendDatUnlock(p) \/ AppendIdxUnlock(p)
  BY <1>3 DEF DeleteUnlock, AppendDatUnlock, AppendIdxUnlock
<1>4. CASE FreeUnlock(p)
  BY <1>4 DEF FreeUnlock
<1>5. CASE db_close(p) \/ Crash(p) \/ LinkTooFar(p)
  BY <1>5 DEF db_close, Crash, LinkTooFar
<1> QED  BY <1>1, <1>2, <1>3, <1>4, <1>5

\* Calls, returns, and reading a pointer of the table or the end of a file.
LEMMA FittingMoves ==
  ASSUME IInv, NEW p \in Procs, Fitting(p),
         \/ Call(p) \/ db_rewind(p) \/ Return(p) \/ NextUnlock(p) \/ LockChain(p)
         \/ FindPtr(p) \/ DeleteFree(p) \/ FreePtr(p) \/ ChainHead(p)
         \/ AppendDatSeek(p) \/ AppendIdxSeek(p)
  PROVE  Fitting(p)' /\ pc'[p] # "dumped"
<1> USE Known DEF Fitting, ReadStill, WritesFit, ReadsRecord, HasRead, HasTaken, ReadPcs, TakenPcs,
                  NewDataPcs, Goto, Stop, files
<1>1. CASE Call(p) \/ db_rewind(p) \/ Return(p) \/ NextUnlock(p) \/ LockChain(p)
  <2>1. pc'[p] \in {"nlock", "lockchain", "idle", "findptr"}
    BY <1>1 DEF Call, FirstCall, db_rewind, Return, NextUnlock, LockChain
  <2> QED  BY <2>1
<1>2. CASE FindPtr(p)
  <2>1. CASE head[ChainOf(p)] = 0
    <3>1. pc'[p] \in {"chead", "unlock"}
      BY <1>2, <2>1 DEF FindPtr, Miss
    <3> QED  BY <3>1
  <2>2. CASE head[ChainOf(p)] # 0
    <3>1. pc'[p] = "hdr" /\ h'[p].idxoff # 0
      BY <1>2, <2>2 DEF FindPtr, Handles
    <3> QED  BY <3>1
  <2> QED  BY <2>1, <2>2
<1>3. CASE DeleteFree(p)
  <2>1. /\ pc[p] = "dfree" /\ pc'[p] = "didx" /\ h'[p].idxoff = h[p].idxoff /\ h'[p].idxklen = h[p].idxklen
        /\ h'[p].datoff = h[p].datoff /\ h'[p].datlen = h[p].datlen /\ idx' = idx
    BY <1>3 DEF DeleteFree, Handles
  <2> QED  BY <2>1
<1>4. CASE FreePtr(p)
  <2>1. /\ pc'[p] \in {"hdr", "funlock"} /\ idx' = idx
        /\ pc'[p] = "hdr" => h'[p].idxoff # 0
        /\ pc'[p] = "funlock" => h'[p].idxoff = 0
    BY <1>4 DEF FreePtr, Handles
  <2> QED  BY <2>1
<1>5. CASE ChainHead(p)
  <2>1. pc'[p] \in {"flock", "adlock"}
    BY <1>5 DEF ChainHead
  <2> QED  BY <2>1
<1>6. CASE AppendDatSeek(p)
  <2>1. pc'[p] = "adwrite"
    BY <1>6 DEF AppendDatSeek
  <2> QED  BY <2>1
<1>7. CASE AppendIdxSeek(p)
  <2>1. /\ pc[p] = "aiseek" /\ pc'[p] = "aiwrite" /\ dat' = dat
        /\ h'[p].datoff = h[p].datoff /\ h'[p].datlen = h[p].datlen
    BY <1>7 DEF AppendIdxSeek, Handles
  <2> QED  BY <2>1
<1> QED  BY <1>1, <1>2, <1>3, <1>4, <1>5, <1>6, <1>7

\* _db_readidx and _db_readdat find every record they look for in order.
LEMMA FittingReads ==
  ASSUME FitInv, NEW p \in Procs, ReadHdr(p) \/ ReadRec(p) \/ ReadDat(p)
  PROVE  Fitting(p)' /\ pc'[p] # "dumped"
<1>1. /\ HandleOK(h[p], pc[p], Len(idx), Len(dat)) /\ h[p] \in Handles /\ h \in [Procs -> Handles]
      /\ pc \in [Procs -> Labels] /\ DOMAIN idx = 1 .. Len(idx) /\ Len(idx) \in Nat
      /\ DOMAIN dat = 1 .. Len(dat) /\ Len(dat) \in Nat
  BY Known DEF FitInv, IInv, TypeOK, FilesOK
<1>2. Fitting(p) /\ ScanGoes(p) /\ RecordsFit /\ DataFits
  BY DEF FitInv, RecordsReadable
<1>3. CASE ReadHdr(p)
  <2> DEFINE o == IF h[p].phase = "scan" THEN h[p].pos ELSE h[p].idxoff
  <2>1. pc[p] = "hdr"
    BY <1>3 DEF ReadHdr
  <2>2. o \in 1 .. Len(idx) \/ (h[p].phase = "scan" /\ o = Len(idx) + 1)
    <3>1. CASE h[p].phase = "scan"
      BY <1>1, <1>2, <2>1, <3>1 DEF ScanGoes, ScanAt, Stopped
    <3>2. CASE h[p].phase # "scan"
      BY <1>1, <1>2, <2>1, <3>2 DEF Fitting, ReadsRecord, HandleOK, Offsets, Stopped
    <3> QED  BY <3>1, <3>2
  <2>3. o \in 1 .. Len(idx) => GoodIdx(o)
    BY <1>1, <1>2 DEF GoodIdx, RecordsFit
  <2> HIDE DEF o
  <2>4. pc'[p] \in {"nunlock", "rec"}
    BY <1>1, <1>3, <2>2, <2>3 DEF ReadHdr, Goto, o
  <2> QED  BY <2>4 DEF Fitting, ReadStill, WritesFit, ReadsRecord, HasRead, HasTaken, ReadPcs, TakenPcs,
                       NewDataPcs
<1>4. CASE ReadDat(p)
  <2>1. pc[p] = "readdat" /\ h[p].idxoff \in DOMAIN idx
    BY <1>1, <1>4 DEF ReadDat, HandleOK, Offsets, AtIdx, Stopped
  <2>2. GoodDat(h[p].datoff, h[p].datlen)
    <3>1. h[p].datoff \in DOMAIN dat
      BY <1>1, <2>1 DEF HandleOK, DataOffset, AtDat
    <3>2. dat[h[p].datoff].room = h[p].datlen
      BY <1>2, <2>1 DEF Fitting, ReadStill, HasRead, ReadPcs, DataFits
    <3> QED  BY <1>2, <3>1, <3>2 DEF GoodDat, RecordsFit
  <2>3. pc'[p] \in {"nunlock", "unlock"}
    BY <1>1, <1>4, <2>2 DEF ReadDat, Goto
  <2> QED  BY <2>3 DEF Fitting, ReadStill, WritesFit, ReadsRecord, HasRead, HasTaken, ReadPcs, TakenPcs,
                       NewDataPcs
<1>5. CASE ReadRec(p)
  <2> DEFINE r == idx[h[p].idxoff]
  <2>1. pc[p] = "rec" /\ h[p].idxoff \in DOMAIN idx /\ r.klen = r.room /\ idx' = idx
    BY <1>1, <1>2, <1>5 DEF ReadRec, HandleOK, Offsets, AtIdx, Stopped, RecordsFit, files
  <2> DEFINE got == [h[p] EXCEPT !.pos = h[p].idxoff + 1, !.idxkey = r.key, !.idxklen = r.klen,
                                 !.datoff = r.datoff, !.datlen = r.datlen]
             advanced == [got EXCEPT !.ptroff = h[p].idxoff, !.idxoff = h[p].ptrval]
  <2>2. /\ got.idxoff = h[p].idxoff /\ got.idxklen = r.klen /\ got.datoff = r.datoff /\ got.datlen = r.datlen
        /\ got.req = h[p].req /\ got.phase = h[p].phase
    BY <1>1 DEF Handles
  <2>3. advanced.idxoff = h[p].ptrval /\ advanced.phase = h[p].phase
    BY <1>1 DEF Handles
  <2> HIDE DEF r
  <2>4. \/ h[p].phase = "find" /\ r.key = h[p].req.key
           /\ h'[p] = [got EXCEPT !.rc = Hit(p, r.datlen).rc] /\ pc'[p] = Hit(p, r.datlen).to
        \/ h[p].phase = "find" /\ pc'[p] = Miss(p).to
        \/ h[p].phase # "scan" /\ h'[p] = advanced /\ h[p].ptrval # 0 /\ pc'[p] = "hdr"
        \/ h[p].phase = "free" /\ Fits(p, r) /\ h'[p] = got /\ pc'[p] = "funlink"
        \/ h[p].phase = "free" /\ h[p].ptrval = 0 /\ h'[p] = advanced /\ pc'[p] = "funlock"
        \/ h[p].phase = "scan" /\ h'[p] = got /\ pc'[p] \in {"hdr", "readdat"}
    <3> HIDE DEF got, advanced
    <3>1. h[p].phase \in {"find", "free", "scan"}
      BY <1>1 DEF Handles
    <3> QED  BY <1>1, <1>5, <3>1 DEF ReadRec, Goto, got, advanced, r
  <2> HIDE DEF advanced
  <2> USE DEF Fitting, ReadStill, WritesFit, ReadsRecord, HasRead, HasTaken, ReadPcs, TakenPcs, NewDataPcs
  <2>5. CASE h[p].phase = "find" /\ r.key = h[p].req.key
             /\ h'[p] = [got EXCEPT !.rc = Hit(p, r.datlen).rc] /\ pc'[p] = Hit(p, r.datlen).to
    <3>1. /\ h'[p].idxoff = h[p].idxoff /\ h'[p].idxklen = r.klen /\ h'[p].datoff = r.datoff
          /\ h'[p].datlen = r.datlen /\ h'[p].req = h[p].req
      BY <1>1, <2>5 DEF Handles
    <3>2. /\ pc'[p] \in {"readdat", "dlock", "unlock", "odat"}
          /\ pc'[p] = "odat" => r.datlen = DatLen[h[p].req.val]
      <4>1. h[p].req.op \in StoreOps \cup {"fetch", "delete"}
        BY <1>1, <2>1, <2>5 DEF HandleOK, Control, Stopped, Requests
      <4>2. pc'[p] = Hit(p, r.datlen).to
        BY <2>5
      <4> HIDE DEF got
      <4> QED  BY <4>1, <4>2 DEF Hit, StoreOps
    <3> HIDE DEF got
    <3> QED  BY <2>1, <3>1, <3>2 DEF r
  <2>6. CASE h[p].phase = "find" /\ pc'[p] = Miss(p).to
    <3>1. pc'[p] \in {"chead", "unlock"}
      BY <2>6 DEF Miss
    <3> QED  BY <3>1
  <2>7. CASE h[p].phase # "scan" /\ h'[p] = advanced /\ h[p].ptrval # 0 /\ pc'[p] = "hdr"
    BY <2>3, <2>7
  <2>8. CASE h[p].phase = "free" /\ Fits(p, r) /\ h'[p] = got /\ pc'[p] = "funlink"
    <3> HIDE DEF got
    <3> QED  BY <2>1, <2>2, <2>8 DEF Fits, r
  <2>9. CASE h[p].phase = "free" /\ h[p].ptrval = 0 /\ h'[p] = advanced /\ pc'[p] = "funlock"
    BY <2>3, <2>9
  <2>10. CASE h[p].phase = "scan" /\ h'[p] = got /\ pc'[p] \in {"hdr", "readdat"}
    <3> HIDE DEF got
    <3> QED  BY <2>1, <2>2, <2>10 DEF r
  <2> QED  BY <2>4, <2>5, <2>6, <2>7, <2>8, <2>9, <2>10
<1> QED  BY <1>3, <1>4, <1>5

\* Every write leaves the files in order: what it writes fits, and where it writes
\* nothing has changed since.
LEMMA FittingWrites ==
  ASSUME FitInv, NEW p \in Procs, WritesDat(p) \/ WritesIdx(p) \/ WritesPtr(p)
  PROVE  LayoutKept /\ Layout' /\ Fitting(p)' /\ pc'[p] # "dumped"
<1>1. /\ HandleOK(h[p], pc[p], Len(idx), Len(dat)) /\ h[p] \in Handles /\ h \in [Procs -> Handles]
      /\ pc \in [Procs -> Labels] /\ DOMAIN idx = 1 .. Len(idx) /\ Len(idx) \in Nat
      /\ DOMAIN dat = 1 .. Len(dat) /\ Len(dat) \in Nat
  BY Known DEF FitInv, IInv, TypeOK, FilesOK
<1>2. Fitting(p) /\ IInv /\ Layout
  BY DEF FitInv, RecordsReadable, Layout
<1>3. ASSUME pc[p] \in StoreLabels
      PROVE  /\ h[p].req.key \in Keys /\ h[p].req.val \in Values
             /\ KeyLen[h[p].req.key] \in Nat /\ DatLen[h[p].req.val] \in Nat \ {0}
  BY <1>1, <1>3, TablesTyped DEF HandleOK, Control, StoreLabels, StoreOps, Requests, Stopped
<1>4. HasRead(p) => /\ h[p].idxoff \in DOMAIN idx /\ h[p].datoff \in DOMAIN dat /\ h[p].datlen \in Nat \ {0}
                    /\ h[p].idxklen = idx[h[p].idxoff].room
                    /\ h[p].datoff = idx[h[p].idxoff].datoff /\ h[p].datlen = idx[h[p].idxoff].datlen
                    /\ dat[h[p].datoff].room = h[p].datlen
  <2>1. HasRead(p) => /\ h[p].idxoff \in DOMAIN idx /\ h[p].datoff \in DOMAIN dat /\ h[p].datlen \in Nat \ {0}
    BY <1>1 DEF HasRead, ReadPcs, HandleOK, Offsets, DataOffset, AtIdx, AtDat, Stopped, Handles
  <2> QED  BY <1>2, <2>1 DEF Fitting, ReadStill, Layout, DataFits
<1>5. WritesFit(p)
  BY <1>2 DEF Fitting
<1> USE DEF Goto, HasRead, HasTaken, ReadPcs, TakenPcs, NewDataPcs, StoreLabels
<1>6. CASE WritesDat(p)
  <2>1. ASSUME NEW n \in 1 .. Len(dat) + 1, NEW v \in Values \cup {Blank}, NEW len \in Nat \ {0},
               dat' = WriteAt(dat, n, DatRec(v, len)), UNCHANGED idx,
               n \in DOMAIN dat => dat[n].room = len
        PROVE  LayoutKept /\ Layout' /\ (n \notin DOMAIN dat => n \in DOMAIN dat' /\ dat'[n].room = len)
    <3> DEFINE r == DatRec(v, len)
    <3>1. r \in DatRecords /\ r.room = r.len /\ r.len = len
      BY DEF DatRec, DatRecords
    <3> HIDE DEF r
    <3>2. dat' = WriteAt(dat, n, r)
      BY <2>1 DEF r
    <3> QED  BY <1>2, <2>1, <3>1, <3>2, DatWritten
  <2>2. CASE DeleteDat(p)
    <3>1. pc[p] = "ddat" /\ pc'[p] = "dfree" /\ h' = h /\ idx' = idx
      BY <1>1, <2>2 DEF DeleteDat
    <3>2. LayoutKept /\ Layout'
      <4>1. dat' = WriteAt(dat, h[p].datoff, DatRec(Blank, h[p].datlen))
        BY <2>2 DEF DeleteDat
      <4>2. h[p].datoff \in 1 .. Len(dat) + 1 /\ h[p].datlen \in Nat \ {0}
            /\ h[p].datoff \in DOMAIN dat /\ dat[h[p].datoff].room = h[p].datlen
        BY <1>1, <1>4, <3>1
      <4> QED  BY <2>1, <3>1, <4>1, <4>2
    <3> QED  BY <1>4, <3>1, <3>2 DEF Fitting, ReadStill, WritesFit, ReadsRecord
  <2>3. CASE ReuseDat(p)
    <3>1. /\ pc[p] = "rdat" /\ pc'[p] = "ridx" /\ idx' = idx
          /\ h'[p].idxoff = h[p].idxoff /\ h'[p].idxklen = h[p].idxklen /\ h'[p].datoff = h[p].datoff
          /\ h'[p].req = h[p].req /\ h'[p].datlen = DatLen[h[p].req.val]
      BY <1>1, <2>3 DEF ReuseDat, Handles
    <3>2. h[p].datlen = DatLen[h[p].req.val] /\ h[p].idxklen = KeyLen[h[p].req.key]
      BY <1>5, <3>1 DEF WritesFit
    <3>3. LayoutKept /\ Layout'
      <4>1. dat' = WriteAt(dat, h[p].datoff, DatRec(h[p].req.val, h[p].datlen))
        BY <2>3, <3>2 DEF ReuseDat
      <4> QED  BY <1>1, <1>3, <1>4, <2>1, <3>1, <4>1
    <3> QED  BY <1>4, <3>1, <3>2, <3>3 DEF Fitting, ReadStill, WritesFit, ReadsRecord
  <2>4. CASE AppendDat(p)
    <3>1. /\ pc[p] = "adwrite" /\ pc'[p] = "adunlock" /\ h' = h /\ idx' = idx
          /\ dat' = WriteAt(dat, h[p].datoff, DatRec(h[p].req.val, h[p].datlen))
      BY <1>1, <2>4 DEF AppendDat
    <3>2. h[p].datoff = Len(dat) + 1 /\ h[p].datlen \in Nat \ {0}
      BY <1>1, <3>1 DEF HandleOK, DataOffset, Handles
    <3>3. LayoutKept /\ Layout' /\ dat'[h[p].datoff].room = h[p].datlen
      BY <1>1, <1>3, <2>1, <3>1, <3>2
    <3> QED  BY <3>1, <3>3 DEF Fitting, ReadStill, WritesFit, ReadsRecord
  <2>5. CASE OverwriteDat(p)
    <3>1. pc[p] = "odat" /\ pc'[p] = "unlock" /\ idx' = idx
      BY <1>1, <2>5 DEF OverwriteDat
    <3>2. h[p].datlen = DatLen[h[p].req.val]
      BY <1>5, <3>1 DEF WritesFit
    <3>3. LayoutKept /\ Layout'
      <4>1. dat' = WriteAt(dat, h[p].datoff, DatRec(h[p].req.val, h[p].datlen))
        BY <2>5, <3>2 DEF OverwriteDat
      <4> QED  BY <1>1, <1>3, <1>4, <2>1, <3>1, <4>1
    <3> QED  BY <3>1, <3>3 DEF Fitting, ReadStill, WritesFit, ReadsRecord
  <2> QED  BY <1>6, <2>2, <2>3, <2>4, <2>5 DEF WritesDat
<1>7. CASE WritesIdx(p)
  <2>1. ASSUME NEW n \in 1 .. Len(idx) + 1, NEW k \in Keys \cup {Blank}, NEW len \in Nat, NEW ptr \in Nat,
               idx' = WriteAt(idx, n, IdxRec(p, k, len, ptr)), UNCHANGED dat,
               h[p].datoff \in 1 .. Len(dat), h[p].datlen \in Nat \ {0},
               n \in DOMAIN idx => /\ len = idx[n].room /\ h[p].datoff = idx[n].datoff
                                   /\ h[p].datlen = idx[n].datlen,
               n \notin DOMAIN idx => dat[h[p].datoff].room = h[p].datlen
        PROVE  LayoutKept /\ Layout'
    <3> DEFINE r == IdxRec(p, k, len, ptr)
    <3>1. /\ r \in IdxRecords /\ r.room = r.klen /\ r.klen = len
          /\ r.datoff = h[p].datoff /\ r.datlen = h[p].datlen
      BY <1>1, <2>1 DEF IdxRec, IdxRecords
    <3> HIDE DEF r
    <3>2. idx' = WriteAt(idx, n, r)
      BY <2>1 DEF r
    <3> QED  BY <1>2, <2>1, <3>1, <3>2, IdxWritten
  <2>2. CASE DeleteIdx(p)
    <3>1. /\ pc[p] = "didx" /\ pc'[p] = "dhead" /\ dat' = dat
          /\ idx' = WriteAt(idx, h[p].idxoff, IdxRec(p, Blank, h[p].idxklen, h[p].freeptr))
      BY <1>1, <2>2 DEF DeleteIdx
    <3>2. h[p].idxklen \in Nat /\ h[p].freeptr \in Nat
      BY <1>1 DEF Handles
    <3>3. LayoutKept /\ Layout'
      <4>1. h[p].idxoff \in 1 .. Len(idx) + 1 /\ h[p].idxoff \in DOMAIN idx
            /\ h[p].datoff \in 1 .. Len(dat) /\ h[p].datlen \in Nat \ {0} /\ h[p].idxklen = idx[h[p].idxoff].room
            /\ h[p].datoff = idx[h[p].idxoff].datoff /\ h[p].datlen = idx[h[p].idxoff].datlen
        BY <1>1, <1>4, <3>1
      <4> QED  BY <2>1, <3>1, <3>2, <4>1
    <3> QED  BY <3>1, <3>3 DEF Fitting, ReadStill, WritesFit, ReadsRecord
  <2>3. CASE ReuseIdx(p)
    <3>1. /\ pc[p] = "ridx" /\ pc'[p] = "link" /\ dat' = dat
          /\ idx' = WriteAt(idx, h[p].idxoff, IdxRec(p, h[p].req.key, KeyLen[h[p].req.key], h[p].front))
      BY <1>1, <2>3 DEF ReuseIdx
    <3>2. h[p].front \in Nat /\ h[p].idxklen = KeyLen[h[p].req.key]
      BY <1>1, <1>5, <3>1 DEF Handles, WritesFit
    <3>3. LayoutKept /\ Layout'
      <4>1. h[p].idxoff \in 1 .. Len(idx) + 1 /\ h[p].idxoff \in DOMAIN idx
            /\ h[p].datoff \in 1 .. Len(dat) /\ h[p].datlen \in Nat \ {0} /\ h[p].idxklen = idx[h[p].idxoff].room
            /\ h[p].datoff = idx[h[p].idxoff].datoff /\ h[p].datlen = idx[h[p].idxoff].datlen
        BY <1>1, <1>4, <3>1
      <4>2. h[p].req.key \in Keys /\ KeyLen[h[p].req.key] \in Nat
        BY <1>3, <3>1
      <4> QED  BY <2>1, <3>1, <3>2, <4>1, <4>2
    <3> QED  BY <3>1, <3>3 DEF Fitting, ReadStill, WritesFit, ReadsRecord
  <2>4. CASE AppendIdx(p)
    <3>1. /\ pc[p] = "aiwrite" /\ pc'[p] = "aiunlock" /\ dat' = dat
          /\ h'[p].datoff = h[p].datoff /\ h'[p].datlen = h[p].datlen
          /\ idx' = WriteAt(idx, h[p].idxoff, IdxRec(p, h[p].req.key, KeyLen[h[p].req.key], h[p].ptrval))
      BY <1>1, <2>4 DEF AppendIdx, Handles
    <3>2. h[p].ptrval \in Nat /\ h[p].idxoff = Len(idx) + 1
          /\ h[p].datoff \in 1 .. Len(dat) /\ h[p].datlen \in Nat \ {0}
      BY <1>1, <3>1 DEF Handles, HandleOK, Offsets, DataOffset, AtDat, Stopped
    <3>3. dat[h[p].datoff].room = h[p].datlen
      BY <1>5, <3>1 DEF WritesFit
    <3>4. LayoutKept /\ Layout'
      <4>1. h[p].req.key \in Keys /\ KeyLen[h[p].req.key] \in Nat
        BY <1>3, <3>1
      <4>2. h[p].idxoff \in 1 .. Len(idx) + 1 /\ h[p].idxoff \notin DOMAIN idx
        BY <1>1, <3>2
      <4> QED  BY <2>1, <3>1, <3>2, <3>3, <4>1, <4>2
    <3> QED  BY <3>1, <3>3, <3>4 DEF Fitting, ReadStill, WritesFit, ReadsRecord
  <2> QED  BY <1>7, <2>2, <2>3, <2>4 DEF WritesIdx
<1>8. CASE WritesPtr(p)
  <2>1. PICK loc \in ChainPtrs \cup 1 .. Len(idx), n \in 0 .. Len(idx) : WritePtr(loc, n)
    <3>1. CASE DeleteHead(p)
      BY <1>1, <3>1 DEF DeleteHead, HandleOK, Offsets, Stopped, ChainPtrs
    <3>2. CASE DeletePrev(p)
      BY <1>1, <3>2 DEF DeletePrev, HandleOK, Offsets, Stopped
    <3>3. CASE FreeUnlink(p)
      BY <1>1, <3>3 DEF FreeUnlink, HandleOK, Offsets, Stopped
    <3>4. CASE Link(p)
      <4>1. pc[p] = "link" /\ h[p].phase # "scan"
        BY <1>1, <3>4 DEF Link, HandleOK, Control, ScanLabels, Stopped
      <4> QED  BY <1>1, <1>2, <3>4, <4>1, KnownChain DEF Link, HandleOK, Offsets, Stopped
    <3> QED  BY <1>8, <3>1, <3>2, <3>3, <3>4 DEF WritesPtr
  <2>2. LayoutKept /\ Layout'
    BY <1>2, <2>1, PtrWritten
  <2>3. CASE FreeUnlink(p)
    <3>1. /\ pc[p] = "funlink" /\ pc'[p] = "funlock" /\ h'[p].idxoff = h[p].idxoff
          /\ h'[p].idxklen = h[p].idxklen /\ h'[p].datoff = h[p].datoff /\ h'[p].datlen = h[p].datlen
          /\ h'[p].req = h[p].req
      BY <1>1, <2>3 DEF FreeUnlink, Handles
    <3>2. idx'[h[p].idxoff].room = idx[h[p].idxoff].room /\ idx'[h[p].idxoff].datoff = idx[h[p].idxoff].datoff
          /\ idx'[h[p].idxoff].datlen = idx[h[p].idxoff].datlen
      BY <1>4, <2>2, <3>1 DEF LayoutKept
    <3> QED  BY <1>4, <1>5, <2>2, <3>1, <3>2 DEF Fitting, ReadStill, WritesFit, ReadsRecord
  <2>4. CASE ~FreeUnlink(p)
    <3>1. pc'[p] \in {"dprev", "dunlock", "unlock"}
      BY <1>1, <1>8, <2>4 DEF WritesPtr, DeleteHead, DeletePrev, Link
    <3> QED  BY <2>2, <3>1 DEF Fitting, ReadStill, WritesFit, ReadsRecord
  <2> QED  BY <2>3, <2>4
<1> QED  BY <1>6, <1>7, <1>8

-----------------------------------------------------------------------------
(* Scans.                                                                   *)

\* A record that is written again stays a record; only _db_dodelete makes it blank.
LEMMA KeysStay ==
  ASSUME IInv, IInv', NEW p \in Procs, Steps(p)
  PROVE  /\ Len(idx) <= Len(idx') /\ DOMAIN idx \subseteq DOMAIN idx'
         /\ \A n \in DOMAIN idx : idx[n].key # Blank /\ ~(DeleteIdx(p) /\ n = h[p].idxoff) => idx'[n].key # Blank
<1>1. /\ idx \in Seq(IdxRecords) /\ Len(idx) \in Nat /\ DOMAIN idx = 1 .. Len(idx)
      /\ HandleOK(h[p], pc[p], Len(idx), Len(dat)) /\ h[p] \in Handles
  BY Known DEF IInv, TypeOK, FilesOK
<1>2. CASE UNCHANGED idx
  BY <1>1, <1>2
<1>3. CASE WritesPtr(p)
  <2>1. PICK loc \in ChainPtrs \cup 1 .. Len(idx), n \in 0 .. Len(idx) : WritePtr(loc, n)
    <3>1. CASE DeleteHead(p)
      BY <1>1, <3>1 DEF DeleteHead, Goto, HandleOK, Offsets, Stopped, ChainPtrs
    <3>2. CASE DeletePrev(p)
      BY <1>1, <3>2 DEF DeletePrev, Goto, HandleOK, Offsets, Stopped
    <3>3. CASE FreeUnlink(p)
      BY <1>1, <3>3 DEF FreeUnlink, Goto, HandleOK, Offsets, Stopped
    <3>4. CASE Link(p)
      <4>1. pc[p] = "link" /\ h[p].phase # "scan"
        BY <1>1, <3>4 DEF Link, Goto, HandleOK, Control, ScanLabels, Stopped
      <4> QED  BY <1>1, <3>4, <4>1, KnownChain DEF Link, HandleOK, Offsets, Stopped
    <3> QED  BY <1>3, <3>1, <3>2, <3>3, <3>4 DEF WritesPtr
  <2>2. CASE loc \in ChainPtrs
    BY <1>2, <2>1, <2>2 DEF WritePtr
  <2>3. CASE loc \notin ChainPtrs
    <3>1. loc \in DOMAIN idx /\ idx' = [idx EXCEPT ![loc].ptr = n]
      BY <1>1, <2>1, <2>3 DEF WritePtr
    <3>4. [idx[loc] EXCEPT !.ptr = n].key = idx[loc].key
      <4>1. idx[loc] \in IdxRecords
        BY <1>1, <3>1
      <4> QED  BY <4>1 DEF IdxRecords
    <3>2. \A k \in DOMAIN idx : idx'[k].key = idx[k].key
      BY <3>1, <3>4
    <3>3. DOMAIN idx' = DOMAIN idx /\ Len(idx') = Len(idx)
      BY <1>1, <3>1
    <3> QED  BY <1>1, <3>2, <3>3
  <2> QED  BY <2>2, <2>3
<1>4. ASSUME NEW r \in IdxRecords, NEW n \in 1 .. Len(idx) + 1, idx' = WriteAt(idx, n, r),
             r.key # Blank \/ (DeleteIdx(p) /\ n = h[p].idxoff)
      PROVE  /\ Len(idx) <= Len(idx') /\ DOMAIN idx \subseteq DOMAIN idx'
             /\ \A k \in DOMAIN idx : idx[k].key # Blank /\ ~(DeleteIdx(p) /\ k = h[p].idxoff) => idx'[k].key # Blank
  <2>1. CASE n \in DOMAIN idx
    <3>1. idx' = [idx EXCEPT ![n] = [r EXCEPT !.room = idx[n].room]]
      BY <1>4, <2>1 DEF WriteAt
    <3>2. DOMAIN idx' = DOMAIN idx /\ Len(idx') = Len(idx) /\ idx'[n].key = r.key
          /\ \A k \in DOMAIN idx : k # n => idx'[k] = idx[k]
      BY <1>1, <2>1, <3>1 DEF IdxRecords
    <3> QED  BY <1>1, <1>4, <3>2
  <2>2. CASE n \notin DOMAIN idx
    <3>1. idx' = Append(idx, r)
      BY <1>4, <2>2 DEF WriteAt
    <3>2. Len(idx') = Len(idx) + 1 /\ DOMAIN idx \subseteq DOMAIN idx' /\ \A k \in DOMAIN idx : idx'[k] = idx[k]
      BY <1>1, <3>1
    <3> QED  BY <1>1, <3>2
  <2> QED  BY <2>1, <2>2
<1>5. CASE DeleteIdx(p)
  <2> DEFINE r == IdxRec(p, Blank, h[p].idxklen, h[p].freeptr)
  <2>1. r \in IdxRecords /\ h[p].idxoff \in 1 .. Len(idx) + 1 /\ idx' = WriteAt(idx, h[p].idxoff, r)
    <3>1. pc[p] = "didx" /\ idx' = WriteAt(idx, h[p].idxoff, r)
      BY <1>5 DEF DeleteIdx, Goto
    <3>2. /\ h[p].datoff \in Nat \ {0} /\ h[p].datlen \in Nat \ {0} /\ h[p].idxklen \in Nat /\ h[p].freeptr \in Nat
          /\ h[p].idxoff \in 1 .. Len(idx) + 1
      BY <1>1, <3>1 DEF HandleOK, Offsets, DataOffset, AtDat, AtIdx, Stopped, Handles
    <3> QED  BY <3>1, <3>2 DEF IdxRec, IdxRecords
  <2> HIDE DEF r
  <2> QED  BY <1>4, <1>5, <2>1
<1>6. CASE ReuseIdx(p) \/ AppendIdx(p)
  <2>1. PICK ptr \in Nat : idx' = WriteAt(idx, h[p].idxoff, IdxRec(p, h[p].req.key, KeyLen[h[p].req.key], ptr))
    BY <1>1, <1>6 DEF ReuseIdx, AppendIdx, Handles
  <2> DEFINE r == IdxRec(p, h[p].req.key, KeyLen[h[p].req.key], ptr)
  <2>2. r \in IdxRecords /\ r.key # Blank
    <3>1. pc[p] \in {"ridx", "aiwrite"}
      BY <1>6 DEF ReuseIdx, AppendIdx, Goto
    <3>2. h[p].req.key \in Keys /\ KeyLen[h[p].req.key] \in Nat
      BY <1>1, <3>1, TablesTyped DEF HandleOK, Control, StoreLabels, StoreOps, Requests, Stopped
    <3>3. h[p].datoff \in Nat \ {0} /\ h[p].datlen \in Nat \ {0}
      BY <1>1, <3>1 DEF HandleOK, DataOffset, AtDat, Handles
    <3> QED  BY <3>2, <3>3, BlankIsNoKey DEF IdxRec, IdxRecords
  <2>3. h[p].idxoff \in 1 .. Len(idx) + 1
    <3>1. pc[p] \in {"ridx", "aiwrite"}
      BY <1>6 DEF ReuseIdx, AppendIdx, Goto
    <3> QED  BY <1>1, <3>1 DEF HandleOK, Offsets, AtIdx, Stopped, Handles
  <2>4. idx' = WriteAt(idx, h[p].idxoff, r)
    BY <2>1
  <2> HIDE DEF r
  <2> QED  BY <1>4, <2>2, <2>3, <2>4
<1> QED
  <2>1. CASE WritesDat(p)
    BY <1>2, <2>1 DEF WritesDat, DeleteDat, ReuseDat, AppendDat, OverwriteDat
  <2> QED  BY <1>2, <1>3, <1>5, <1>6, <2>1, FilesStay DEF files, WritesIdx

\* A record that is deleted is taken off the list of every scan; otherwise a process
\* changes only its own scan.
LEMMA ScansStay ==
  ASSUME IInv, NEW p \in Procs, Steps(p)
  PROVE  \A q \in Procs : q # p \/ ~(Call(p) \/ db_rewind(p) \/ ReadDat(p)) =>
           /\ scan'[q].on = scan[q].on /\ scan'[q].seen = scan[q].seen
           /\ scan'[q].live = IF DeleteIdx(p) THEN scan[q].live \ {h[p].idxoff} ELSE scan[q].live
<1>1. scan \in [Procs -> [on : BOOLEAN, live : SUBSET (DOMAIN idx), seen : SUBSET (DOMAIN idx)]]
  BY DEF IInv, TypeOK, HistoryOK
<1>2. CASE DeleteIdx(p)
  <2> SUFFICES ASSUME NEW q \in Procs
               PROVE  /\ scan'[q].on = scan[q].on /\ scan'[q].seen = scan[q].seen
                      /\ scan'[q].live = scan[q].live \ {h[p].idxoff}
    BY <1>2
  <2>1. scan'[q] = [scan[q] EXCEPT !.live = @ \ {h[p].idxoff}]
    BY <1>2 DEF DeleteIdx
  <2>2. DOMAIN scan[q] = {"on", "live", "seen"}
    BY <1>1
  <2>3. scan'[q].on = scan[q].on
    BY <2>1, <2>2
  <2>4. scan'[q].seen = scan[q].seen /\ scan'[q].live = scan[q].live \ {h[p].idxoff}
    BY <2>1, <2>2
  <2> QED  BY <2>3, <2>4
<1>3. CASE Call(p) \/ db_rewind(p) \/ ReadDat(p)
  <2>1. \A q \in Procs \ {p} : scan'[q] = scan[q]
    BY <1>1, <1>3 DEF Call, db_rewind, ReadDat, ErrDump
  <2>2. ~DeleteIdx(p)
    BY <1>3 DEF Call, db_rewind, ReadDat, DeleteIdx, Goto
  <2> QED  BY <1>3, <2>1, <2>2
<1>4. CASE ~(DeleteIdx(p) \/ Call(p) \/ db_rewind(p) \/ ReadDat(p))
  <2>1. UNCHANGED scan
    <3>1. CASE db_close(p) \/ Crash(p) \/ Return(p) \/ NextLock(p) \/ NextUnlock(p)
      BY <3>1 DEF db_close, Crash, Return, NextLock, NextUnlock
    <3>2. CASE LockChain(p) \/ FindPtr(p) \/ ReadHdr(p) \/ ReadRec(p)
      BY <3>2 DEF LockChain, FindPtr, ReadHdr, ReadRec, ErrDump
    <3>3. CASE DoDelete(p) \/ FindFree(p)
      BY <1>4, <3>3 DEF DoDelete, DeleteLock, DeleteDat, DeleteFree, DeleteHead, DeletePrev, DeleteUnlock,
         FindFree, FreeLock, FreePtr, FreeUnlink, FreeUnlock
    <3>4. CASE AppendRec(p) \/ Store(p)
      BY <3>4 DEF AppendRec, AppendDatLock, AppendDatSeek, AppendDat, AppendDatUnlock, AppendIdxLock,
         AppendIdxSeek, AppendIdx, AppendIdxUnlock, Store, ChainHead, ReuseDat, ReuseIdx, Link, LinkTooFar,
         OverwriteDat
    <3> QED  BY <1>4, <3>1, <3>2, <3>3, <3>4 DEF Steps, Step, Find
  <2> QED  BY <1>4, <2>1
<1> QED  BY <1>2, <1>3, <1>4

\* The request is the same from the call to the return.
LEMMA RequestStays ==
  ASSUME IInv, NEW p \in Procs, Steps(p), ~(Call(p) \/ Return(p) \/ NextUnlock(p))
  PROVE  h'[p].req = h[p].req
<1> USE Known DEF Handles, Goto, Stop
<1>1. CASE db_rewind(p) \/ db_close(p) \/ Crash(p) \/ NextLock(p) \/ LockChain(p) \/ FindPtr(p)
  BY <1>1 DEF db_rewind, db_close, Crash, NextLock, LockChain, FindPtr
<1>2. CASE ReadHdr(p) \/ ReadDat(p)
  BY <1>2 DEF ReadHdr, ReadDat, ErrDump
<1>3. CASE ReadRec(p)
  <2> DEFINE r == idx[h[p].idxoff]
             got == [h[p] EXCEPT !.pos = h[p].idxoff + 1, !.idxkey = r.key, !.idxklen = r.klen,
                                 !.datoff = r.datoff, !.datlen = r.datlen]
             advanced == [got EXCEPT !.ptroff = h[p].idxoff, !.idxoff = h[p].ptrval]
  <2>1. /\ got.req = h[p].req /\ [got EXCEPT !.rc = Hit(p, r.datlen).rc].req = h[p].req
        /\ advanced.req = h[p].req
        /\ [advanced EXCEPT !.rc = Miss(p).rc, !.phase = Miss(p).phase].req = h[p].req
    OBVIOUS
  <2>2. h'[p] \in {got, [got EXCEPT !.rc = Hit(p, r.datlen).rc], advanced,
                   [advanced EXCEPT !.rc = Miss(p).rc, !.phase = Miss(p).phase]}
    <3> HIDE DEF got, advanced, r
    <3> QED  BY <1>3 DEF ReadRec, got, advanced, r
  <2> HIDE DEF got, advanced, r
  <2> QED  BY <2>1, <2>2
<1>4. CASE DoDelete(p)
  BY <1>4 DEF DoDelete, DeleteLock, DeleteDat, DeleteFree, DeleteIdx, DeleteHead, DeletePrev, DeleteUnlock
<1>5. CASE FindFree(p)
  BY <1>5 DEF FindFree, FreeLock, FreePtr, FreeUnlink, FreeUnlock
<1>6. CASE AppendRec(p)
  BY <1>6 DEF AppendRec, AppendDatLock, AppendDatSeek, AppendDat, AppendDatUnlock, AppendIdxLock,
     AppendIdxSeek, AppendIdx, AppendIdxUnlock
<1>7. CASE Store(p)
  BY <1>7 DEF Store, ChainHead, ReuseDat, ReuseIdx, Link, LinkTooFar, OverwriteDat
<1> QED  BY <1>1, <1>2, <1>3, <1>4, <1>5, <1>6, <1>7 DEF Steps, Step, Find

\* A scan of another process: its records stay in place or are taken off its list.
LEMMA OtherScan ==
  ASSUME IInv, IInv', NEW p \in Procs, Steps(p), NEW q \in Procs \ {p}, ScanGoes(q)
  PROVE  ScanGoes(q)'
<1>1. h'[q] = h[q] /\ pc'[q] = pc[q]
  BY Others
<1>2. /\ scan'[q].on = scan[q].on /\ scan'[q].seen = scan[q].seen
      /\ scan'[q].live = IF DeleteIdx(p) THEN scan[q].live \ {h[p].idxoff} ELSE scan[q].live
  BY ScansStay
<1>3. scan[q].live \subseteq DOMAIN idx
  BY DEF IInv, TypeOK, HistoryOK
<1>4. Len(idx) <= Len(idx') /\ Len(idx) \in Nat /\ Len(idx') \in Nat
  BY KeysStay DEF IInv, TypeOK, FilesOK
<1>5. \A n \in scan'[q].live : n \in scan[q].live /\ idx'[n].key # Blank
  BY <1>2, <1>3, KeysStay DEF ScanGoes
<1>6. h[q].pos \in Nat /\ h[q].idxoff \in Nat
  BY Known DEF Handles
<1>7. ScanAt(q)' = ScanAt(q)
  BY <1>1 DEF ScanAt
<1>8. scan[q].on /\ pc[q] \notin Stopped =>
        ScanAt(q) \in 1 .. Len(idx') + 1 /\ h[q].pos \in 1 .. Len(idx') + 1
  BY <1>4, <1>6 DEF ScanGoes, ScanAt
<1> QED  BY <1>1, <1>2, <1>5, <1>7, <1>8 DEF ScanGoes

\* A call that is not db_nextrec ends the scan; the calls in it move no scan.
LEMMA NoScan ==
  ASSUME IInv, IInv', NEW p \in Procs, Steps(p), ScanGoes(p),
         pc[p] \notin {"idle"} \cup Stopped, h[p].phase # "scan"
  PROVE  ScanGoes(p)'
<1>1. ~scan[p].on
  BY DEF ScanGoes
<1>2. ~(Call(p) \/ db_rewind(p) \/ NextUnlock(p))
  BY Known DEF Call, db_rewind, NextUnlock, Goto, HandleOK, Control
<1>3. ~scan'[p].on
  <2>1. CASE ReadDat(p)
    BY <1>1, <2>1 DEF ReadDat, ErrDump
  <2> QED  BY <1>1, <1>2, <2>1, ScansStay
<1>4. \A n \in scan'[p].live : idx'[n].key # Blank
  <2>1. scan[p].live \subseteq DOMAIN idx
    BY DEF IInv, TypeOK, HistoryOK
  <2>2. CASE ReadDat(p)
    <3>1. scan' = scan /\ ~DeleteIdx(p)
      BY <1>1, <2>2 DEF ReadDat, ErrDump, DeleteIdx, Goto
    <3> QED  BY <2>1, <3>1, KeysStay DEF ScanGoes
  <2>3. CASE ~ReadDat(p)
    <3>1. scan'[p].live = IF DeleteIdx(p) THEN scan[p].live \ {h[p].idxoff} ELSE scan[p].live
      BY <1>2, <2>3, ScansStay
    <3> QED  BY <2>1, <3>1, KeysStay DEF ScanGoes
  <2> QED  BY <2>2, <2>3
<1>5. pc'[p] \notin {"idle"} \cup Stopped => h'[p].phase # "scan" /\ pc'[p] # "nunlock"
  <2> SUFFICES ASSUME pc'[p] \notin {"idle"} \cup Stopped PROVE h'[p].phase # "scan" /\ pc'[p] # "nunlock"
    OBVIOUS
  <2>1. ~Return(p)
    BY Known DEF Return, Goto
  <2>2. h'[p].req = h[p].req
    BY <1>2, <2>1, RequestStays
  <2>3. h[p].req.op # "nextrec"
    BY Known DEF HandleOK, Control
  <2>4. Control(h'[p], pc'[p])
    BY DEF IInv, HandlesOK, HandleOK
  <2> QED  BY <2>2, <2>3, <2>4 DEF Control
<1>6. pc'[p] = "nunlock" => FALSE
  BY <1>5 DEF Stopped
<1> QED  BY <1>3, <1>4, <1>5, <1>6 DEF ScanGoes

\* Between calls: db_rewind makes a list of the records in place, and the next call
\* goes on with it or, unless it is db_nextrec, drops it.
LEMMA ScanCalls ==
  ASSUME IInv, IInv', NEW p \in Procs, ScanGoes(p), Call(p) \/ db_rewind(p) \/ db_close(p)
  PROVE  ScanGoes(p)'
<1>1. /\ h[p] \in Handles /\ h \in [Procs -> Handles] /\ pc \in [Procs -> Labels]
      /\ scan \in [Procs -> [on : BOOLEAN, live : SUBSET (DOMAIN idx), seen : SUBSET (DOMAIN idx)]]
      /\ Len(idx) \in Nat
  BY Known DEF IInv, TypeOK, HistoryOK
<1>2. idx' = idx /\ pc[p] = "idle"
  BY DEF Call, db_rewind, db_close, Goto, files
<1>3. CASE Call(p)
  <2>1. PICK r \in Menu[p][ops[p] + 1] :
          /\ pc'[p] = FirstCall(r.op)
          /\ h' = [h EXCEPT ![p].req = r, ![p].phase = IF r.op = "nextrec" THEN "scan" ELSE "find"]
          /\ r.op = "nextrec" => scan[p].on
          /\ scan' = IF r.op = "nextrec" THEN scan ELSE [scan EXCEPT ![p] = NotScanning]
    BY <1>1, <1>3 DEF Call, Goto
  <2>2. /\ h'[p].phase = (IF r.op = "nextrec" THEN "scan" ELSE "find")
        /\ h'[p].pos = h[p].pos
    BY <1>1, <2>1 DEF Handles
  <2>3. CASE r.op = "nextrec"
    <3>1. pc'[p] = "nlock" /\ scan' = scan /\ h'[p].phase = "scan" /\ scan[p].on
      BY <2>1, <2>2, <2>3 DEF FirstCall
    <3> QED  BY <1>2, <2>2, <3>1 DEF ScanGoes, ScanAt, Stopped
  <2>4. CASE r.op # "nextrec"
    <3>1. pc'[p] = "lockchain" /\ scan'[p] = NotScanning /\ h'[p].phase # "scan"
      BY <1>1, <2>1, <2>2, <2>4 DEF FirstCall
    <3> QED  BY <3>1 DEF ScanGoes, NotScanning
  <2> QED  BY <2>3, <2>4
<1>4. CASE db_rewind(p)
  <2>1. /\ pc'[p] = "idle" /\ h'[p].pos = 1
        /\ scan'[p].live \subseteq Committed
    BY <1>1, <1>2, <1>4 DEF db_rewind, Scanning, Handles
  <2>2. ScanAt(p)' = 1
    BY <2>1 DEF ScanAt
  <2>3. \A n \in scan'[p].live : idx'[n].key # Blank /\ n \in 1 .. Len(idx)
    BY <1>1, <1>2, <2>1 DEF Committed, IInv, TypeOK, FilesOK
  <2>4. 1 \in 1 .. Len(idx') + 1 /\ \A n \in scan'[p].live : ~(n < 1)
    BY <1>1, <1>2, <2>3
  <2> QED  BY <2>1, <2>2, <2>3, <2>4 DEF ScanGoes
<1>5. CASE db_close(p)
  <2>1. pc'[p] = "closed" /\ scan' = scan
    BY <1>1, <1>5 DEF db_close, Goto
  <2> QED  BY <1>2, <2>1 DEF ScanGoes, Stopped
<1> QED  BY <1>3, <1>4, <1>5

\* db_nextrec: the record it is at is returned, or was blank when it was read, and
\* blank records are on no list.
LEMMA ScanSteps ==
  ASSUME FitInv, NEW p \in Procs, h[p].phase = "scan", pc'[p] # "dumped",
         NextLock(p) \/ ReadHdr(p) \/ ReadRec(p) \/ ReadDat(p) \/ NextUnlock(p)
  PROVE  ScanGoes(p)'
<1>1. /\ h[p] \in Handles /\ h \in [Procs -> Handles] /\ pc \in [Procs -> Labels]
      /\ scan[p] \in [on : BOOLEAN, live : SUBSET (DOMAIN idx), seen : SUBSET (DOMAIN idx)]
      /\ scan \in [Procs -> [on : BOOLEAN, live : SUBSET (DOMAIN idx), seen : SUBSET (DOMAIN idx)]]
      /\ Len(idx) \in Nat /\ DOMAIN idx = 1 .. Len(idx) /\ IInv
  BY Known DEF FitInv, IInv, TypeOK, HistoryOK, FilesOK
<1>2. pc[p] \in {"nlock", "hdr", "rec", "readdat", "nunlock"} /\ idx' = idx
  BY DEF NextLock, ReadHdr, ReadRec, ReadDat, ErrDump, NextUnlock, Goto, files
<1>3. /\ scan[p].on /\ \A n \in scan[p].live : idx[n].key # Blank /\ n \in 1 .. Len(idx)
      /\ ScanAt(p) \in 1 .. Len(idx) + 1 /\ h[p].pos \in 1 .. Len(idx) + 1
      /\ \A n \in scan[p].live : n < ScanAt(p) => n \in scan[p].seen
      /\ pc[p] = "readdat" => h[p].pos = h[p].idxoff + 1
      /\ pc[p] = "nunlock" /\ h[p].rc.st = "none" => scan[p].live \subseteq scan[p].seen
  <2>1. ScanGoes(p)
    BY DEF FitInv
  <2> QED  BY <1>1, <1>2, <2>1 DEF ScanGoes, Stopped
<1>4. CASE NextLock(p)
  <2>1. pc[p] = "nlock" /\ pc'[p] = "hdr" /\ h' = h /\ scan' = scan
    BY <1>1, <1>4 DEF NextLock, Goto
  <2> QED  BY <1>2, <1>3, <2>1 DEF ScanGoes, ScanAt
<1>5. CASE NextUnlock(p)
  <2>1. pc[p] = "nunlock" /\ pc'[p] = "idle" /\ h'[p].pos = h[p].pos /\ scan' = scan
    BY <1>1, <1>5 DEF NextUnlock, Goto, Handle
  <2> QED  BY <1>2, <1>3, <2>1 DEF ScanGoes, ScanAt
<1>6. CASE ReadHdr(p)
  <2>1. pc[p] = "hdr" /\ scan' = scan /\ ScanAt(p) = h[p].pos
    BY <1>6 DEF ReadHdr, ErrDump, ScanAt
  <2>2. CASE h[p].pos = Len(idx) + 1
    <3>1. pc'[p] = "nunlock" /\ h'[p].pos = h[p].pos /\ h'[p].phase = "scan"
      BY <1>1, <1>6, <2>2 DEF ReadHdr, Goto, Handles
    <3>2. scan[p].live \subseteq scan[p].seen
      BY <1>1, <1>3, <2>1, <2>2
    <3> QED  BY <1>2, <1>3, <2>1, <3>1, <3>2 DEF ScanGoes, ScanAt
  <2>3. CASE h[p].pos # Len(idx) + 1
    <3>1. pc'[p] = "rec" /\ h' = [h EXCEPT ![p].idxoff = h[p].pos, ![p].ptrval = idx[h[p].pos].ptr]
      BY <1>1, <1>6, <2>3 DEF ReadHdr, Goto, ErrDump, Stop
    <3>2. h'[p].pos = h[p].pos /\ h'[p].phase = "scan" /\ h'[p].idxoff = h[p].pos
      BY <1>1, <3>1 DEF Handles
    <3> QED  BY <1>2, <1>3, <2>1, <3>1, <3>2 DEF ScanGoes, ScanAt
  <2> QED  BY <2>2, <2>3
<1>7. CASE ReadRec(p)
  <2>1. pc[p] = "rec" /\ scan' = scan /\ ScanAt(p) = h[p].idxoff
    BY <1>7 DEF ReadRec, ScanAt
  <2>2. h[p].idxoff \in 1 .. Len(idx)
    BY <1>1, <2>1, Known DEF HandleOK, Offsets, AtIdx, Stopped
  <2>3. /\ h'[p].pos = h[p].idxoff + 1 /\ h'[p].phase = "scan" /\ h'[p].idxoff = h[p].idxoff
        /\ pc'[p] = IF idx[h[p].idxoff].key = Blank THEN "hdr" ELSE "readdat"
    <3>1. /\ h' = [h EXCEPT ![p] = [h[p] EXCEPT !.pos = h[p].idxoff + 1, !.idxkey = idx[h[p].idxoff].key,
                                      !.idxklen = idx[h[p].idxoff].klen, !.datoff = idx[h[p].idxoff].datoff,
                                      !.datlen = idx[h[p].idxoff].datlen]]
          /\ pc'[p] = IF idx[h[p].idxoff].key = Blank THEN "hdr" ELSE "readdat"
      BY <1>1, <1>7 DEF ReadRec, Goto
    <3> QED  BY <1>1, <3>1 DEF Handles
  <2>4. CASE idx[h[p].idxoff].key = Blank
    <3>1. \A n \in scan[p].live : n < h[p].idxoff + 1 => n \in scan[p].seen
      BY <1>1, <1>3, <2>1, <2>2, <2>4
    <3>2. ScanAt(p)' = h[p].idxoff + 1 /\ pc'[p] = "hdr"
      BY <2>3, <2>4 DEF ScanAt
    <3>3. h[p].idxoff + 1 \in 1 .. Len(idx) + 1
      BY <1>1, <2>2
    <3> QED  BY <1>2, <1>3, <2>1, <2>3, <3>1, <3>2, <3>3 DEF ScanGoes
  <2>5. CASE idx[h[p].idxoff].key # Blank
    <3>1. ScanAt(p)' = h[p].idxoff /\ pc'[p] = "readdat"
      BY <2>3, <2>5 DEF ScanAt
    <3>2. h[p].idxoff + 1 \in 1 .. Len(idx) + 1
      BY <1>1, <2>2
    <3> QED  BY <1>2, <1>3, <2>1, <2>3, <3>1, <3>2 DEF ScanGoes
  <2> QED  BY <2>4, <2>5
<1>8. CASE ReadDat(p)
  <2>1. pc[p] = "readdat" /\ ScanAt(p) = h[p].idxoff
    BY <1>8 DEF ReadDat, ScanAt
  <2>2. /\ pc'[p] = "nunlock" /\ scan' = [scan EXCEPT ![p].seen = @ \cup {h[p].idxoff}]
        /\ h' = [h EXCEPT ![p].rc = Rc("ok", h[p].idxkey, dat[h[p].datoff].val)]
    BY <1>1, <1>3, <1>8 DEF ReadDat, Goto, ErrDump, Stop
  <2>3. /\ scan'[p].on = scan[p].on /\ scan'[p].live = scan[p].live
        /\ scan'[p].seen = scan[p].seen \cup {h[p].idxoff}
    BY <1>1, <2>2
  <2>4. h'[p].pos = h[p].pos /\ h'[p].phase = "scan" /\ h'[p].rc.st = "ok"
    BY <1>1, <2>2 DEF Handles, Rc
  <2>5. h[p].idxoff \in Nat /\ ScanAt(p)' = h[p].idxoff + 1
    BY <1>1, <1>3, <2>1, <2>2, <2>4 DEF ScanAt, Handles
  <2>6. \A n \in scan'[p].live : n < h[p].idxoff + 1 => n \in scan'[p].seen
    BY <1>1, <1>3, <2>1, <2>3, <2>5
  <2> QED  BY <1>2, <1>3, <2>1, <2>2, <2>3, <2>4, <2>5, <2>6 DEF ScanGoes
<1> QED  BY <1>4, <1>5, <1>6, <1>7, <1>8

\* All of that for the process that takes a step.
LEMMA OwnScan ==
  ASSUME FitInv, IInv', NEW p \in Procs, Steps(p), pc'[p] # "dumped"
  PROVE  ScanGoes(p)'
<1>1. IInv /\ ScanGoes(p)
  BY DEF FitInv
<1>2. CASE pc[p] \in {"idle"} \cup Stopped
  <2>1. Call(p) \/ db_rewind(p) \/ db_close(p)
    BY <1>2 DEF Steps, Step, Stopped, Goto, Crash, Find, LockChain, FindPtr, ReadHdr, ReadRec, ReadDat,
       DoDelete, DeleteLock, DeleteDat, DeleteFree, DeleteIdx, DeleteHead, DeletePrev, DeleteUnlock,
       FindFree, FreeLock, FreePtr, FreeUnlink, FreeUnlock, AppendRec, AppendDatLock, AppendDatSeek,
       AppendDat, AppendDatUnlock, AppendIdxLock, AppendIdxSeek, AppendIdx, AppendIdxUnlock,
       Store, ChainHead, ReuseDat, ReuseIdx, Link, LinkTooFar, OverwriteDat, NextLock, NextUnlock, Return
  <2> QED  BY <1>1, <2>1, ScanCalls
<1>3. CASE pc[p] \notin {"idle"} \cup Stopped /\ h[p].phase # "scan"
  BY <1>1, <1>3, NoScan
<1>4. CASE pc[p] \notin {"idle"} \cup Stopped /\ h[p].phase = "scan"
  <2>1. pc[p] \in ScanLabels
    BY <1>1, <1>4, Known DEF HandleOK, Control
  <2>2. CASE Crash(p)
    <3>1. pc'[p] = "killed" /\ scan' = scan /\ idx' = idx
      BY <1>1, <2>2, Known DEF Crash, Stop, files
    <3> QED  BY <1>1, <3>1 DEF ScanGoes, Stopped
  <2>3. CASE ~Crash(p)
    <3>1. NextLock(p) \/ ReadHdr(p) \/ ReadRec(p) \/ ReadDat(p) \/ NextUnlock(p)
      BY <1>4, <2>1, <2>3 DEF ScanLabels, Steps, Step, Goto, Call, db_rewind, db_close, Find, LockChain, FindPtr,
         DoDelete, DeleteLock, DeleteDat, DeleteFree, DeleteIdx, DeleteHead, DeletePrev, DeleteUnlock,
         FindFree, FreeLock, FreePtr, FreeUnlink, FreeUnlock, AppendRec, AppendDatLock, AppendDatSeek,
         AppendDat, AppendDatUnlock, AppendIdxLock, AppendIdxSeek, AppendIdx, AppendIdxUnlock,
         Store, ChainHead, ReuseDat, ReuseIdx, Link, LinkTooFar, OverwriteDat, Return
    <3> QED  BY <1>4, <3>1, ScanSteps
  <2> QED  BY <2>2, <2>3
<1> QED  BY <1>2, <1>3, <1>4

-----------------------------------------------------------------------------
(* The invariant.                                                           *)

\* What a step does to its own process: it writes, or the files stay.
LEMMA OwnFitting ==
  ASSUME FitInv, NEW p \in Procs, Steps(p)
  PROVE  LayoutKept /\ Layout' /\ Fitting(p)' /\ pc'[p] # "dumped"
<1>1. IInv /\ Fitting(p) /\ Layout
  BY DEF FitInv, RecordsReadable, Layout
<1>2. CASE WritesDat(p) \/ WritesIdx(p) \/ WritesPtr(p)
  BY <1>2, FittingWrites
<1>3. CASE ~(WritesDat(p) \/ WritesIdx(p) \/ WritesPtr(p))
  <2>1. UNCHANGED files
    BY <1>3, FilesStay
  <2>2. LayoutKept /\ Layout'
    BY <1>1, <2>1 DEF files, LayoutKept, Layout, RecordsFit, DataFits
  <2>3. Fitting(p)' /\ pc'[p] # "dumped"
    <3>1. CASE \/ NextLock(p) \/ DeleteLock(p) \/ FreeLock(p) \/ AppendDatLock(p) \/ AppendIdxLock(p)
               \/ DeleteUnlock(p) \/ FreeUnlock(p) \/ AppendDatUnlock(p) \/ AppendIdxUnlock(p)
               \/ db_close(p) \/ Crash(p) \/ LinkTooFar(p)
      BY <1>1, <3>1, FittingLocks
    <3>2. CASE \/ Call(p) \/ db_rewind(p) \/ Return(p) \/ NextUnlock(p) \/ LockChain(p)
               \/ FindPtr(p) \/ DeleteFree(p) \/ FreePtr(p) \/ ChainHead(p)
               \/ AppendDatSeek(p) \/ AppendIdxSeek(p)
      BY <1>1, <3>2, FittingMoves
    <3>3. CASE ReadHdr(p) \/ ReadRec(p) \/ ReadDat(p)
      BY <3>3, FittingReads
    <3> QED  BY <1>3, <3>1, <3>2, <3>3 DEF Steps, Step, Find, DoDelete, FindFree, AppendRec, Store,
                WritesDat, WritesIdx, WritesPtr
  <2> QED  BY <2>2, <2>3
<1> QED  BY <1>2, <1>3

\* The records that were inserted before have the room they were written into, and
\* db_open leaves every process at the start of a scan.
LEMMA InitFitInv == Init => FitInv
<1> SUFFICES ASSUME Init PROVE FitInv
  OBVIOUS
<1>1. IInv
  BY InitIInv
<1>2. RecordsReadable /\ DataFits
  BY DEF Init, RecordsReadable, RecordsFit, NoErrDump, DataFits
<1>3. \A p \in Procs : Fitting(p)
  BY DEF Init, Fitting, ReadStill, WritesFit, ReadsRecord, HasRead, HasTaken, ReadPcs, TakenPcs, NewDataPcs
<1>4. ASSUME NEW p \in Procs PROVE ScanGoes(p)
  <2>1. pc[p] = "idle" /\ h[p].pos = 1 /\ scan[p] = Scanning(DOMAIN Preload) /\ ScanAt(p) = 1
    BY DEF Init, Handle, ScanAt
  <2>2. \A n \in DOMAIN Preload : idx[n].key # Blank /\ n \in Nat \ {0}
    <3>1. \A n \in DOMAIN Preload : Preload[n].key \in Keys /\ n \in Nat \ {0}
      <4> DEFINE Recs == [key : Keys, val : Values]
      <4>1. Preload \in Seq(Recs)
        BY PreloadTyped
      <4> HIDE DEF Recs
      <4>2. DOMAIN Preload = 1 .. Len(Preload) /\ Len(Preload) \in Nat
            /\ \A n \in 1 .. Len(Preload) : Preload[n] \in Recs
        BY <4>1
      <4> QED  BY <4>2 DEF Recs
    <3>2. \A n \in DOMAIN Preload : idx[n].key = Preload[n].key
      BY DEF Init
    <3> QED  BY <3>1, <3>2, BlankIsNoKey
  <2>3. Len(idx) \in Nat
    BY <1>1, Known DEF IInv, TypeOK, FilesOK
  <2> QED  BY <2>1, <2>2, <2>3 DEF ScanGoes, Scanning
<1> QED  BY <1>1, <1>2, <1>3, <1>4 DEF FitInv

LEMMA StepFitInv == FitInv /\ IInv' /\ [Next]_vars => FitInv'
<1> SUFFICES ASSUME FitInv, IInv', [Next]_vars PROVE FitInv'
  OBVIOUS
<1>1. ASSUME NEW p \in Procs, Steps(p)
      PROVE  FitInv'
  <2>1. LayoutKept /\ Layout' /\ Fitting(p)' /\ pc'[p] # "dumped" /\ IInv
    BY <1>1, OwnFitting DEF FitInv
  <2>2. \A q \in Procs \ {p} : h'[q] = h[q] /\ pc'[q] = pc[q]
    BY <1>1, <2>1, Others
  <2>3. ASSUME NEW q \in Procs PROVE Fitting(q)' /\ ScanGoes(q)' /\ pc'[q] # "dumped"
    <3>1. CASE q = p
      BY <1>1, <2>1, <3>1, OwnScan
    <3>2. CASE q # p
      <4>1. Fitting(q) /\ ScanGoes(q) /\ pc[q] # "dumped"
        BY DEF FitInv, RecordsReadable, NoErrDump
      <4>2. h'[q] = h[q] /\ pc'[q] = pc[q]
        BY <2>2, <3>2
      <4>3. Fitting(q)'
        BY <2>1, <4>1, <4>2, FittingStays
      <4>4. ScanGoes(q)'
        BY <1>1, <2>1, <3>2, <4>1, OtherScan
      <4> QED  BY <4>1, <4>2, <4>3, <4>4
    <3> QED  BY <3>1, <3>2
  <2> QED  BY <2>1, <2>3 DEF FitInv, Layout, RecordsReadable, NoErrDump
<1>2. CASE UNCHANGED vars
  BY <1>2 DEF vars, files, locks, FitInv, RecordsReadable, RecordsFit, NoErrDump, DataFits, Fitting, ReadStill,
     WritesFit, ReadsRecord, HasRead, HasTaken, ScanGoes, ScanAt
<1> QED  BY <1>1, <1>2 DEF Next, AllStopped, Steps

THEOREM FitInvariance == Spec => []FitInv
BY InitFitInv, StepFitInv, Invariance, PTL DEF Spec

\* No process meets a record it cannot read, not even after a process was killed in
\* the middle of any operation: a deleted record is reused only for a key and data of
\* the same sizes, so that db_nextrec finds the next record behind it, and neither
\* _db_readidx nor _db_readdat calls err_dump.
THEOREM RecordsAreReadable == Spec => []RecordsReadable
<1>1. FitInv => RecordsReadable
  BY DEF FitInv
<1> QED  BY <1>1, FitInvariance, PTL

\* A db_nextrec that says there are no more records has returned every record that
\* was there at db_rewind and has not been deleted since, although the chains and the
\* file change under it.
THEOREM ScansMissNothing == Spec => []ScanComplete
<1>1. FitInv => ScanComplete
  BY DEF FitInv, ScanGoes, ScanComplete
<1> QED  BY <1>1, FitInvariance, PTL

-----------------------------------------------------------------------------
(* Index records and their data.                                            *)

\* New data belongs to no index record and to no other process; two processes that are
\* about to append at the end of the file are kept apart by the lock on it.
DataIsNew(p) == pc[p] \in NewDataPcs => \A n \in DOMAIN idx : idx[n].datoff # h[p].datoff
DataApart(p, q) ==
  pc[p] \in NewDataPcs /\ pc[q] \in NewDataPcs /\ h[q].datoff = h[p].datoff =>
    pc[p] = "adwrite" /\ pc[q] = "adwrite"
ApartInv ==
  /\ FitInv /\ DataUnshared
  /\ \A p \in Procs : DataIsNew(p) /\ \A q \in Procs \ {p} : DataApart(p, q)

\* Only an append makes the index file longer.
LEMMA SlotsStay ==
  ASSUME FitInv, NEW p \in Procs, Steps(p), ~AppendIdx(p)
  PROVE  DOMAIN idx' = DOMAIN idx /\ \A n \in DOMAIN idx : idx'[n].datoff = idx[n].datoff
<1>1. /\ idx \in Seq(IdxRecords) /\ IInv /\ DOMAIN idx = 1 .. Len(idx)
      /\ HandleOK(h[p], pc[p], Len(idx), Len(dat)) /\ h[p] \in Handles
  BY Known DEF FitInv, IInv, TypeOK, FilesOK
<1>2. DOMAIN idx' = DOMAIN idx
  <2>1. CASE WritesPtr(p)
    <3>1. PICK loc, n : WritePtr(loc, n)
      BY <2>1 DEF WritesPtr, DeleteHead, DeletePrev, FreeUnlink, Link
    <3> QED  BY <3>1 DEF WritePtr
  <2>2. CASE DeleteIdx(p) \/ ReuseIdx(p)
    <3>1. pc[p] \in {"didx", "ridx"} /\ \E r : idx' = WriteAt(idx, h[p].idxoff, r)
      BY <2>2 DEF DeleteIdx, ReuseIdx, Goto
    <3>2. h[p].idxoff \in DOMAIN idx
      BY <1>1, <3>1 DEF HandleOK, Offsets, AtIdx, Stopped
    <3> QED  BY <3>1, <3>2 DEF WriteAt
  <2>3. CASE WritesDat(p)
    BY <2>3 DEF WritesDat, DeleteDat, ReuseDat, AppendDat, OverwriteDat
  <2> QED  BY <2>1, <2>2, <2>3, FilesStay DEF WritesIdx, files
<1> QED  BY <1>2, OwnFitting DEF LayoutKept

\* New data comes from the end of the data file.
LEMMA NewData ==
  ASSUME FitInv, NEW p \in Procs, Steps(p), pc'[p] \in NewDataPcs
  PROVE  \/ pc[p] = "adseek" /\ pc'[p] = "adwrite" /\ h'[p].datoff = Len(dat) + 1
         \/ pc[p] = "adwrite" /\ pc'[p] = "adunlock" /\ h'[p].datoff = h[p].datoff
         \/ /\ {pc[p], pc'[p]} \subseteq NewDataPcs \ {"adwrite"} /\ h'[p].datoff = h[p].datoff
<1> USE Known DEF FitInv, Goto, Stop, NewDataPcs, Stopped
<1>1. CASE AppendRec(p)
  BY <1>1 DEF AppendRec, AppendDatLock, AppendDatSeek, AppendDat, AppendDatUnlock, AppendIdxLock,
     AppendIdxSeek, AppendIdx, AppendIdxUnlock, Handles
<1>2. CASE Call(p) \/ db_rewind(p) \/ db_close(p) \/ Crash(p) \/ Return(p) \/ NextLock(p) \/ NextUnlock(p)
  BY <1>2 DEF Call, FirstCall, db_rewind, db_close, Crash, Return, NextLock, NextUnlock
<1>3. CASE LockChain(p) \/ FindPtr(p) \/ ReadHdr(p) \/ ReadDat(p)
  BY <1>3 DEF LockChain, FindPtr, Miss, ReadHdr, ReadDat, ErrDump
<1>4. CASE ReadRec(p)
  <2>1. pc'[p] \in {Hit(p, idx[h[p].idxoff].datlen).to, "hdr", Miss(p).to, "funlink", "funlock", "readdat"}
    <3>1. pc \in [Procs -> Labels]
      OBVIOUS
    <3> HIDE Known DEF FitInv, NewDataPcs, Stopped
    <3> QED  BY <1>4, <3>1 DEF ReadRec
  <2>2. Hit(p, idx[h[p].idxoff].datlen).to \in {"readdat", "dlock", "unlock", "odat"}
    BY DEF Hit
  <2>3. Miss(p).to \in {"chead", "unlock"}
    BY DEF Miss
  <2> QED  BY <2>1, <2>2, <2>3
<1>5. CASE DoDelete(p) \/ FindFree(p)
  BY <1>5 DEF DoDelete, DeleteLock, DeleteDat, DeleteFree, DeleteIdx, DeleteHead, DeletePrev, DeleteUnlock,
     FindFree, FreeLock, FreePtr, FreeUnlink, FreeUnlock
<1>6. CASE Store(p)
  BY <1>6 DEF Store, ChainHead, ReuseDat, ReuseIdx, Link, LinkTooFar, OverwriteDat
<1> QED  BY <1>1, <1>2, <1>3, <1>4, <1>5, <1>6 DEF Steps, Step, Find

\* Every index record has data of its own, or will have when it is written.
LEMMA StepApart == ApartInv /\ FitInv' /\ [Next]_vars => ApartInv'
<1> SUFFICES ASSUME ApartInv, FitInv', [Next]_vars PROVE ApartInv'
  OBVIOUS
<1>1. ASSUME NEW p \in Procs, Steps(p)
      PROVE  DataUnshared' /\ \A q \in Procs : DataIsNew(q)' /\ \A r \in Procs \ {q} : DataApart(q, r)'
  <2>1. /\ FitInv /\ IInv /\ idx \in Seq(IdxRecords) /\ Len(idx) \in Nat /\ Len(dat) \in Nat
        /\ DOMAIN idx = 1 .. Len(idx)
        /\ \A q \in Procs : HandleOK(h[q], pc[q], Len(idx), Len(dat))
    BY Known DEF ApartInv, FitInv, IInv, TypeOK, FilesOK
  <2>2. \A q \in Procs \ {p} : h'[q] = h[q] /\ pc'[q] = pc[q]
    BY <1>1, <2>1, Others
  <2>3. \A n \in DOMAIN idx : idx[n].datoff \in 1 .. Len(dat)
    BY <2>1 DEF IInv, DataInFile
  <2>4. \A q, r \in Procs : q # r => DataApart(q, r)
    BY DEF ApartInv
  <2>5. ASSUME pc[p] = "adwrite", NEW q \in Procs \ {p} PROVE pc[q] # "adwrite"
    <3>1. DAT \in Locks
      BY DEF Locks
    <3> QED  BY <2>1, <2>5, <3>1 DEF IInv, AppendLocks, AppendLocked, LocksExclude
  <2>6. \A q \in Procs \ {p} : DataApart(p, q)' /\ DataApart(q, p)'
    <3> SUFFICES ASSUME NEW q \in Procs \ {p}, pc'[p] \in NewDataPcs, pc[q] \in NewDataPcs,
                        h[q].datoff = h'[p].datoff
                 PROVE  pc'[p] = "adwrite" /\ pc[q] = "adwrite"
      BY <2>2 DEF DataApart
    <3>1. pc[q] # "adwrite" => h[q].datoff \in 1 .. Len(dat)
      BY <2>1 DEF HandleOK, DataOffset, AtDat, NewDataPcs
    <3>2. DataApart(p, q)
      BY <2>4
    <3> QED  BY <1>1, <2>1, <2>5, <3>1, <3>2, NewData DEF DataApart, NewDataPcs
  <2>7. \A q, r \in Procs : q # r => DataApart(q, r)'
    BY <2>2, <2>4, <2>6 DEF DataApart
  <2>8. CASE AppendIdx(p)
    <3>1. /\ pc[p] = "aiwrite" /\ pc'[p] = "aiunlock" /\ h[p].idxoff = Len(idx) + 1
          /\ \E ptr : idx' = WriteAt(idx, h[p].idxoff, IdxRec(p, h[p].req.key, KeyLen[h[p].req.key], ptr))
      BY <2>1, <2>8, Known DEF AppendIdx, Goto, HandleOK, Offsets, Stopped
    <3>2. PICK r : idx' = Append(idx, r) /\ r.datoff = h[p].datoff
      <4>1. h[p].idxoff \notin DOMAIN idx
        BY <2>1, <3>1
      <4>2. PICK ptr : idx' = Append(idx, IdxRec(p, h[p].req.key, KeyLen[h[p].req.key], ptr))
        BY <3>1, <4>1 DEF WriteAt
      <4> QED  BY <4>2 DEF IdxRec
    <3>3. /\ DOMAIN idx' = 1 .. Len(idx) + 1 /\ idx'[Len(idx) + 1] = r
          /\ \A n \in DOMAIN idx : idx'[n] = idx[n]
      <4>1. idx' \in Seq(IdxRecords)
        BY DEF FitInv, IInv, TypeOK, FilesOK
      <4> QED  BY <2>1, <3>2, <4>1
    <3>4. \A n \in DOMAIN idx : idx[n].datoff # h[p].datoff
      BY <3>1 DEF ApartInv, DataIsNew, NewDataPcs
    <3>5. DataUnshared'
      <4>1. \A m, n \in DOMAIN idx : idx[m].datoff = idx[n].datoff => m = n
        BY DEF ApartInv, DataUnshared
      <4> QED  BY <2>1, <3>2, <3>3, <3>4, <4>1 DEF DataUnshared
    <3>6. ASSUME NEW q \in Procs PROVE DataIsNew(q)'
      <4>1. CASE q = p
        BY <3>1, <4>1 DEF DataIsNew, NewDataPcs
      <4>2. CASE q # p
        <5> SUFFICES ASSUME pc[q] \in NewDataPcs
                     PROVE  \A n \in DOMAIN idx' : idx'[n].datoff # h[q].datoff
          BY <2>2, <4>2 DEF DataIsNew
        <5>1. h[q].datoff # h[p].datoff
          BY <2>4, <3>1, <4>2 DEF DataApart, NewDataPcs
        <5>2. \A n \in DOMAIN idx : idx[n].datoff # h[q].datoff
          BY DEF ApartInv, DataIsNew
        <5> QED  BY <2>1, <3>2, <3>3, <5>1, <5>2
      <4> QED  BY <4>1, <4>2
    <3> QED  BY <2>7, <3>5, <3>6
  <2>9. CASE ~AppendIdx(p)
    <3>1. DOMAIN idx' = DOMAIN idx /\ \A n \in DOMAIN idx : idx'[n].datoff = idx[n].datoff
      BY <1>1, <2>1, <2>9, SlotsStay
    <3>2. DataUnshared'
      BY <3>1 DEF ApartInv, DataUnshared
    <3>3. ASSUME NEW q \in Procs PROVE DataIsNew(q)'
      <4>1. CASE q # p
        BY <2>2, <3>1, <4>1 DEF ApartInv, DataIsNew
      <4>2. CASE q = p
        <5> SUFFICES ASSUME pc'[p] \in NewDataPcs
                     PROVE  \A n \in DOMAIN idx : idx[n].datoff # h'[p].datoff
          BY <3>1, <4>2 DEF DataIsNew
        <5>1. \A n \in DOMAIN idx : idx[n].datoff # Len(dat) + 1
          BY <2>1, <2>3
        <5>2. pc[p] \in NewDataPcs => \A n \in DOMAIN idx : idx[n].datoff # h[p].datoff
          BY DEF ApartInv, DataIsNew
        <5> QED  BY <1>1, <2>1, <5>1, <5>2, NewData DEF NewDataPcs
      <4> QED  BY <4>1, <4>2
    <3> QED  BY <2>7, <3>2, <3>3
  <2> QED  BY <2>8, <2>9
<1>2. CASE UNCHANGED vars
  BY <1>2 DEF vars, files, ApartInv, DataUnshared, DataIsNew, DataApart
<1> QED  BY <1>1, <1>2 DEF ApartInv, Next, AllStopped, Steps

\* The data of every index record is its own in every state.
THEOREM ApartInvariance == Spec => []ApartInv
<1>1. Init => ApartInv
  <2> SUFFICES ASSUME Init PROVE ApartInv
    OBVIOUS
  <2>1. DataUnshared
    BY DEF Init, DataUnshared
  <2>2. \A p \in Procs : pc[p] \notin NewDataPcs
    BY DEF Init, NewDataPcs
  <2> QED  BY <2>1, <2>2, InitFitInv DEF ApartInv, DataIsNew, DataApart
<1> QED  BY <1>1, StepApart, FitInvariance, PTL DEF Spec

\* No two index records lead to the same data, however many records were deleted and
\* used again: a record that is used again keeps its data record, and a new one gets
\* the data that its own process has just put at the end of the data file.
THEOREM DataIsUnshared == Spec => []DataUnshared
<1>1. ApartInv => DataUnshared
  BY DEF ApartInv
<1> QED  BY <1>1, ApartInvariance, PTL
=============================================================================
