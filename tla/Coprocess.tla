----------------------------- MODULE Coprocess -----------------------------
(***************************************************************************)
(* apue.3e/ipc1/pipe4.c sends each line of its input to add2 (ipc1/add2.c) *)
(* over one pipe and reads the answer from another.  A line is a pair of   *)
(* numbers or is not; the coprocess may be killed at any time.             *)
(***************************************************************************)
EXTENDS Integers, Sequences, SequencesExt

CONSTANTS MaxLines

VARIABLES
  input, line,      \* history: the lines read so far; the one at work
  kpc,              \* the parent's place
  fd1, fd2,         \* the pipes to and from the coprocess
  stdio,            \* what add2 holds back in a stdio buffer
  copro,            \* "run", "exit" or "killed"
  out               \* history: what the parent printed

vars == <<input, line, kpc, fd1, fd2, stdio, copro, out>>

Lines == {"pair", "text"}
Answer(l) == IF l = "pair" THEN "sum" ELSE "invalid args"

Init ==
  /\ input = <<>> /\ line = "pair" /\ kpc = "fgets" /\ fd1 = <<>> /\ fd2 = <<>>
  /\ stdio = <<>> /\ copro = "run" /\ out = <<>>

Go(from, to) == kpc = from /\ kpc' = to

(* The parent.  Writing to a coprocess that is gone raises SIGPIPE, whose    *)
(* handler exits; reading from one gives end of file.                        *)
sig_pipe == Go("write", "exit") /\ copro # "run" /\ UNCHANGED <<input, line, fd1, fd2, out>>

parent ==
  /\ \/ /\ Len(input) < MaxLines /\ Go("fgets", "write")
        /\ \E l \in Lines : line' = l /\ input' = Append(input, l)
        /\ UNCHANGED <<fd1, fd2, out>>
     \/ Go("fgets", "exit") /\ UNCHANGED <<input, line, fd1, fd2, out>>        \* end of file
     \/ Go("write", "read") /\ copro = "run" /\ fd1' = Append(fd1, line) /\ UNCHANGED <<input, line, fd2, out>>
     \/ sig_pipe
     \/ /\ Go("read", "fgets") /\ fd2 # <<>>
        /\ out' = Append(out, Head(fd2)) /\ fd2' = Tail(fd2) /\ UNCHANGED <<input, line, fd1>>
     \/ Go("read", "exit") /\ fd2 = <<>> /\ copro # "run" /\ UNCHANGED <<input, line, fd1, fd2, out>>
  /\ UNCHANGED <<stdio, copro>>

(* Mutation: add2stdio.c: the answer stays in the buffer until the end. *)
Stdio ==
  /\ copro = "run"
  /\ IF fd1 # <<>> THEN stdio' = Append(stdio, Answer(Head(fd1))) /\ fd1' = Tail(fd1) /\ UNCHANGED <<copro, fd2>>
                   ELSE kpc = "exit" /\ copro' = "exit" /\ fd2' = fd2 \o stdio /\ UNCHANGED <<stdio, fd1>>
  /\ UNCHANGED <<input, line, kpc, out>>

(* add2.c answers with write; it ends when the parent's end is closed. *)
add2 ==
  /\ copro = "run"
  /\ IF fd1 # <<>> THEN fd2' = Append(fd2, Answer(Head(fd1))) /\ fd1' = Tail(fd1) /\ UNCHANGED copro
                   ELSE kpc = "exit" /\ copro' = "exit" /\ UNCHANGED <<fd1, fd2>>
  /\ UNCHANGED <<input, line, kpc, stdio, out>>

Kill == copro = "run" /\ copro' = "killed" /\ UNCHANGED <<input, line, kpc, fd1, fd2, stdio, out>>

Next == parent \/ add2 \/ Kill

-----------------------------------------------------------------------------
(* The i-th answer printed belongs to the i-th line.                         *)
AnswersMatch == \A j \in DOMAIN out : j <= Len(input) /\ out[j] = Answer(input[j])

(* The two never wait for each other: a line that was sent is answered, or   *)
(* the parent notices that the coprocess is gone.                            *)
AnswerComes == kpc = "read" ~> kpc # "read"
=============================================================================
