----------------------------- MODULE MemStream -----------------------------
(***************************************************************************)
(* The memory stream of apue.3e/exercises/fmemopen.c: fmemopen and the     *)
(* four functions that it hands to funopen, on the caller's buffer or on   *)
(* one of its own.  Positions count from 0, as in the code.                *)
(***************************************************************************)
EXTENDS Integers, Sequences, FiniteSetsExt

CONSTANTS
  Chars,      \* what the bytes may be, besides the null byte 0
  MaxSize,    \* of the buffer
  MaxOps      \* calls made on the stream

VARIABLES
  msflags, mybuf, msbuf,    \* flags without MS_MYBUF, MS_MYBUF, the buffer
  rsize, vsize, curpos,
  ops, wrote,               \* how many calls were made; was one a write
  file                      \* history: what an ordinary file would hold now

vars == <<msflags, mybuf, msbuf, rsize, vsize, curpos, ops, wrote, file>>

Types == {"r", "w", "a", "r+", "w+", "a+"}

(* The valid types; "b" changes nothing, everything else gives EINVAL. *)
type_to_flags(type) ==
  (CASE type \in {"r", "r+"} -> {"READ"}
     [] type \in {"w", "w+"} -> {"WRITE", "TRUNCATE"}
     [] type \in {"a", "a+"} -> {"APPEND"})
  \cup (IF type \in {"r+", "w+", "a+"} THEN {"READ", "WRITE"} ELSE {})

(* The first null byte, or the length. *)
find_end(buf) == Min({k \in DOMAIN buf : buf[k] = 0} \cup {rsize})

Bytes(buf, n) == [k \in 1 .. n |-> buf[k - 1]]      \* a buffer's first n bytes

fmemopen ==
  /\ rsize \in 1 .. MaxSize
  /\ msbuf \in [0 .. rsize - 1 -> Chars \cup {0}]    \* the caller's, or from malloc
  /\ \E type \in Types : msflags = type_to_flags(type)
  /\ mybuf \in BOOLEAN /\ (mybuf => {"READ", "WRITE"} \subseteq msflags)
  /\ curpos = IF "APPEND" \in msflags /\ ~mybuf THEN find_end(msbuf) ELSE 0
  /\ vsize = IF "APPEND" \in msflags THEN curpos ELSE IF "TRUNCATE" \in msflags THEN 0 ELSE rsize
  /\ ops = 0 /\ wrote = FALSE /\ file = Bytes(msbuf, vsize)

Init == fmemopen

Call == ops < MaxOps /\ ops' = ops + 1 /\ UNCHANGED <<msflags, mybuf, rsize>>

mstream_read(len) ==
  /\ "READ" \in msflags /\ Call
  /\ curpos' = IF curpos >= vsize THEN curpos ELSE curpos + Min({len, vsize - curpos})
  /\ UNCHANGED <<msbuf, vsize, wrote, file>>

(* Mutation: no null byte is written. *)
NoEnd(pos, grew) == {}

(* Mutation: a null byte also behind data that fills the buffer. *)
NullBehind(pos, grew) ==
  (IF grew /\ {"READ", "WRITE"} \subseteq msflags THEN {pos} ELSE {})
  \cup (IF "READ" \in msflags THEN {} ELSE {IF pos < rsize THEN pos ELSE rsize - 1})

(* Where the null byte goes: behind data that grew, if it is read as well;   *)
(* behind what was written, or over the last byte, if it is only written.    *)
Terminator(pos, grew) ==
  (IF grew /\ {"READ", "WRITE"} \subseteq msflags /\ pos < rsize THEN {pos} ELSE {})
  \cup (IF "READ" \in msflags THEN {} ELSE {IF pos < rsize THEN pos ELSE rsize - 1})

(* Mutation: an append goes where the offset is. *)
AtCurpos == curpos
WriteAt == IF "APPEND" \in msflags THEN vsize ELSE curpos

(* What is stored outside of the buffer makes msbuf grow. *)
mstream_write(s) ==
  LET off == WriteAt
      nw == Min({Len(s), rsize - off})
      end == off + nw
      nulls == Terminator(end, end > vsize)
  IN
  /\ {"APPEND", "WRITE"} \cap msflags # {} /\ Call /\ wrote' = TRUE
  /\ msbuf' = [k \in DOMAIN msbuf \cup (off .. end - 1) \cup nulls |->
                 IF k \in nulls THEN 0
                 ELSE IF off <= k /\ k < end THEN s[k - off + 1] ELSE msbuf[k]]
  /\ curpos' = end
  /\ vsize' = Max({vsize, end})
  /\ file' = LET at == IF "APPEND" \in msflags THEN Len(file) ELSE curpos IN
             [k \in 1 .. Max({Len(file), at + nw}) |->
                IF k > at /\ k <= at + nw THEN s[k - at] ELSE file[k]]

mstream_seek(pos, whence) ==
  LET off == pos + (CASE whence = "SET" -> 0 [] whence = "END" -> vsize [] whence = "CUR" -> curpos) IN
  /\ Call
  /\ curpos' = IF off < 0 \/ off > vsize THEN curpos ELSE off
  /\ UNCHANGED <<msbuf, vsize, wrote, file>>

Texts == UNION {[1 .. n -> Chars] : n \in 1 .. 2}

Next ==
  \/ \E len \in 1 .. 2 : mstream_read(len)
  \/ \E s \in Texts : mstream_write(s)
  \/ \E pos \in -1 .. 1, whence \in {"SET", "END", "CUR"} : mstream_seek(pos, whence)

-----------------------------------------------------------------------------
(* No call reads or writes outside of the buffer, the data or the null byte  *)
(* behind it.                                                                *)
InBuffer == 0 <= curpos /\ curpos <= vsize /\ vsize <= rsize /\ DOMAIN msbuf = 0 .. rsize - 1

(* What can be read is what an ordinary file would hold, the null bytes that *)
(* are put behind the data notwithstanding.  A stream that is only appended  *)
(* to keeps all it held before, but for a last byte that has to give way;    *)
(* and after a write a stream that is only written holds a string, of whose  *)
(* data nothing is said: a seek back and a write cut it with a null byte.    *)
LikeAFile ==
  /\ "READ" \in msflags => file = Bytes(msbuf, vsize)
  /\ msflags = {"APPEND"} => \A k \in 0 .. vsize - 1 : k < rsize - 1 => msbuf[k] = file[k + 1]
  /\ wrote /\ "READ" \notin msflags => \E k \in DOMAIN msbuf : msbuf[k] = 0
=============================================================================
