------------------------------ MODULE Rot13Aio ------------------------------
(***************************************************************************)
(* apue.3e/advio/rot13c2.c.in: a file is read, translated and written with *)
(* asynchronous I/O through NBUF buffers; the operations finish in any     *)
(* order.  A block's contents are its number, translated or not.           *)
(***************************************************************************)
EXTENDS Integers

CONSTANTS NBUF, Size    \* buffers, and blocks of the input file

Bufs == 1 .. NBUF
Block == 0 .. Size - 1
Nothing == <<"nothing", 0>>

VARIABLES
  bufop, aiocb,       \* each buffer's op, and the block its operation is for
  bdata,              \* ... its contents
  busy,               \* buffers whose operation is in progress
  off, numop, scan,   \* off in blocks; the buffer to look at, or NBUF + 1
  ofile, adone

vars == <<bufop, aiocb, bdata, busy, off, numop, scan, ofile, adone>>

Init ==
  /\ bufop = [b \in Bufs |-> "UNUSED"] /\ aiocb = [b \in Bufs |-> 0]
  /\ bdata = [b \in Bufs |-> Nothing] /\ busy = {}
  /\ off = 0 /\ numop = 0 /\ scan = 1 /\ ofile = [n \in Block |-> Nothing] /\ adone = FALSE

(* The kernel finishes an operation. *)
Complete(b) ==
  /\ b \in busy /\ busy' = busy \ {b}
  /\ IF bufop[b] = "READ" THEN bdata' = [bdata EXCEPT ![b] = <<"plain", aiocb[b]>>] /\ UNCHANGED ofile
                          ELSE ofile' = [ofile EXCEPT ![aiocb[b]] = bdata[b]] /\ UNCHANGED bdata
  /\ UNCHANGED <<bufop, aiocb, off, numop, scan, adone>>

(* Mutation: an operation in progress counts as done. *)
NeverBusy(b) == FALSE
InProgress(b) == b \in busy      \* aio_error says EINPROGRESS
translate(c) == <<"rot13", c[2]>>

(* One buffer of the scan: start a read, turn a finished read into a write,  *)
(* or take back the buffer of a finished write.                              *)
Unused(b) ==
  /\ bufop[b] = "UNUSED"
  /\ IF off < Size
     THEN /\ bufop' = [bufop EXCEPT ![b] = "READ"] /\ aiocb' = [aiocb EXCEPT ![b] = off]
          /\ off' = off + 1 /\ busy' = busy \cup {b} /\ numop' = numop + 1
     ELSE UNCHANGED <<bufop, aiocb, off, busy, numop>>
  /\ UNCHANGED bdata

ReadPending(b) ==
  /\ bufop[b] = "READ"
  /\ IF InProgress(b) THEN UNCHANGED <<bufop, bdata, busy>>
     ELSE /\ bdata' = [bdata EXCEPT ![b] = translate(@)]
          /\ bufop' = [bufop EXCEPT ![b] = "WRITE"] /\ busy' = busy \cup {b}
  /\ UNCHANGED <<aiocb, off, numop>>

WritePending(b) ==
  /\ bufop[b] = "WRITE"
  /\ IF InProgress(b) THEN UNCHANGED <<bufop, numop>>
     ELSE bufop' = [bufop EXCEPT ![b] = "UNUSED"] /\ numop' = numop - 1
  /\ UNCHANGED <<aiocb, off, busy, bdata>>

(* The end of a scan: done, or wait until an operation in the list is done.  *)
Suspend ==
  /\ scan = NBUF + 1 /\ scan' = 1
  /\ IF numop = 0 THEN adone' = (off >= Size)
     ELSE (\E b \in Bufs : bufop[b] # "UNUSED" /\ b \notin busy) /\ UNCHANGED adone
  /\ UNCHANGED <<bufop, aiocb, bdata, busy, off, numop, ofile>>

main ==
  /\ ~adone
  /\ \/ /\ scan <= NBUF /\ scan' = scan + 1
        /\ Unused(scan) \/ ReadPending(scan) \/ WritePending(scan)
        /\ UNCHANGED <<ofile, adone>>
     \/ Suspend

Next == main \/ \E b \in Bufs : Complete(b)

-----------------------------------------------------------------------------
(* When the program ends every block was translated and is in its own place, *)
(* whatever the order in which the operations finished.                      *)
OutputInPlace ==
  /\ \A n \in Block : ofile[n] \in {Nothing, <<"rot13", n>>}
  /\ adone => \A n \in Block : ofile[n] # Nothing

(* It ends: it never waits when nothing is left in progress.                 *)
CopyEnds == <>adone
=============================================================================
