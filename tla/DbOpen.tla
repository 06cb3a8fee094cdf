------------------------------- MODULE DbOpen -------------------------------
(***************************************************************************)
(* db_open of apue.3e/db/db.c: several processes create, truncate or open  *)
(* the same database while others already use it.  The two files are       *)
(* opened one after the other, and O_TRUNC empties each at its open, before*)
(* any lock is taken; only the stat and the initialization of the hash     *)
(* table are under a lock on the whole index file.                         *)
(*                                                                         *)
(* A user's db_store is one step here, under its chain lock (module Db     *)
(* takes it apart).                                                        *)
(***************************************************************************)
EXTENDS Naturals, FiniteSets

CONSTANTS
  Procs,    \* processes
  FlagSets, \* the oflag arguments: subsets of {"creat", "trunc"}
  Existing  \* BOOLEAN: did the database exist before?

ASSUME FlagsTyped == FlagSets \subseteq SUBSET {"creat", "trunc"} /\ Existing \in BOOLEAN

Absent == "absent"
Empty == "empty"        \* the file exists and has size 0
Table == "table"        \* the index file starts with a hash table

VARIABLES
  idx,     \* the index file: Absent, Empty or Table
  dat,     \* the data file: does it exist?
  data,    \* processes whose data record is in the data file
  linked,  \* processes whose record the chains of the index file lead to
  wlock,   \* holders of the lock on the whole index file
  pc,
  flags,   \* the oflag of each process
  idxfd,   \* did the open of the index file succeed?
  lost     \* history: users whose record vanished without a truncation

vars == <<idx, dat, data, linked, wlock, pc, flags, idxfd, lost>>

Init ==
  /\ idx = IF Existing THEN Table ELSE Absent
  /\ dat = Existing
  /\ data = {}
  /\ linked = {}
  /\ wlock = {}
  /\ pc = [p \in Procs |-> "start"]
  /\ flags \in [Procs -> FlagSets]
  /\ idxfd = [p \in Procs |-> FALSE]
  /\ lost = {}

Goto(p, from, to) == pc[p] = from /\ pc' = [pc EXCEPT ![p] = to]

\* open(name.idx): O_CREAT creates it, O_TRUNC empties it.
OpenIdx(p) ==
  /\ Goto(p, "start", "opendat")
  /\ idxfd' = [idxfd EXCEPT ![p] = idx # Absent \/ "creat" \in flags[p]]
  /\ idx' = CASE idx = Absent /\ "creat" \in flags[p] -> Empty
              [] idx # Absent /\ "trunc" \in flags[p] -> Empty
              [] OTHER -> idx
  /\ linked' = IF idx' = Table THEN linked ELSE {}
  /\ UNCHANGED <<dat, data, wlock, flags, lost>>

\* open(name.dat), made whether or not the first open worked.
OpenDat(p) ==
  LET ok == idxfd[p] /\ (dat \/ "creat" \in flags[p])
      next == CASE ~ok -> "failed"                       \* _db_free, return NULL
                [] flags[p] = {"creat", "trunc"} -> "lock"
                [] OTHER -> "opened"                     \* db_rewind, return
  IN
  /\ Goto(p, "opendat", next)
  /\ dat' = (dat \/ "creat" \in flags[p])
  /\ data' = IF "trunc" \in flags[p] THEN {} ELSE data
  /\ UNCHANGED <<idx, linked, wlock, flags, idxfd, lost>>

\* Mutation: the creator goes straight on to fstat.
NoWholeLock(p) ==
  /\ Goto(p, "lock", "stat")
  /\ UNCHANGED <<idx, dat, data, linked, wlock, flags, idxfd, lost>>

\* writew_lock on the whole index file.
WholeLock(p) ==
  /\ wlock = {}
  /\ Goto(p, "lock", "stat")
  /\ wlock' = {p}
  /\ UNCHANGED <<idx, dat, data, linked, flags, idxfd, lost>>

Fstat(p) ==
  /\ Goto(p, "stat", IF idx = Empty THEN "init" ELSE "unlock")
  /\ UNCHANGED <<idx, dat, data, linked, wlock, flags, idxfd, lost>>

\* Mutation: the table is not written.
InitSkipped(p) ==
  /\ Goto(p, "init", "unlock")
  /\ UNCHANGED <<idx, dat, data, linked, wlock, flags, idxfd, lost>>

\* The table of null chain pointers is written at offset 0.
InitTable(p) ==
  /\ Goto(p, "init", "unlock")
  /\ idx' = Table
  /\ linked' = {}
  /\ lost' = lost \cup linked
  /\ UNCHANGED <<dat, data, wlock, flags, idxfd>>

WholeUnlock(p) ==
  /\ Goto(p, "unlock", "opened")       \* db_rewind, return
  /\ wlock' = wlock \ {p}
  /\ UNCHANGED <<idx, dat, data, linked, flags, idxfd, lost>>

\* A db_store by a process whose db_open returned: without a hash table the
\* read of the chain pointer fails and the library aborts.
Use(p) ==
  /\ wlock = {}
  /\ Goto(p, "opened", IF idx = Table THEN "used" ELSE "dumped")
  /\ linked' = IF idx = Table THEN linked \cup {p} ELSE linked
  /\ data' = IF idx = Table THEN data \cup {p} ELSE data
  /\ UNCHANGED <<idx, dat, wlock, flags, idxfd, lost>>

Ends == {"used", "failed", "dumped"}
AllDone == (\A p \in Procs : pc[p] \in Ends) /\ UNCHANGED vars

Next ==
  \/ \E p \in Procs : \/ OpenIdx(p) \/ OpenDat(p) \/ WholeLock(p) \/ Fstat(p)
                      \/ InitTable(p) \/ WholeUnlock(p) \/ Use(p)
  \/ AllDone

Spec == Init /\ [][Next]_vars

-----------------------------------------------------------------------------

\* Initializing the index file never wipes the record of another process that
\* already found the table in place: the lock makes the fstat, the check of the
\* size and the write one step.
InitKeepsRecords == lost = {}

\* Once every creator has finished, the index file has its hash table: whoever
\* opens the database from then on can use it.  (A db_open with O_TRUNC alone
\* empties the index file and writes no table: it must not have been called.)
CreatedIsUsable ==
  /\ \A p \in Procs : pc[p] \notin {"opendat", "lock", "stat", "init", "unlock"}
  /\ \A p \in Procs : pc[p] # "start" => flags[p] # {"trunc"}
  /\ \E p \in Procs : pc[p] # "start" /\ flags[p] = {"creat", "trunc"}
  => idx = Table /\ dat

\* However many processes create it at once, the database is created once.
CreatedOnce == InitKeepsRecords /\ CreatedIsUsable
=============================================================================
