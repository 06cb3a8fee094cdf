------------------------------ MODULE OpenFork ------------------------------
(***************************************************************************)
(* The open server that the client starts itself: csopen and main of       *)
(* apue.3e/ipc2/open.fe, main and handle_request of ipc2/opend.fe.  The    *)
(* two are the ends of one stream pipe.  Names are such that a request     *)
(* fits in MAXLINE; client and server may be killed at any time.           *)
(***************************************************************************)
EXTENDS Integers, Sequences

CONSTANTS MaxCalls

VARIABLES
  opc, fd,           \* the client's place; its static fd[]: "none", "open", or
                     \* "both" when it has both ends
  asked, got,        \* history: what was asked for, and the results of csopen
  req, ans,          \* the pipe, in both directions
  srv, cur, own      \* the server's place and request; has it the client's end

vars == <<opc, fd, asked, got, req, ans, srv, cur, own>>

Init ==
  /\ opc = "idle" /\ fd = "none" /\ asked = <<>> /\ got = <<>>
  /\ req = <<>> /\ ans = <<>> /\ srv = "none" /\ cur = "" /\ own = FALSE

clientGone == opc \in {"exit", "killed"}
serverGone == srv \in {"none", "exit"}

Return(r) == opc' = "idle" /\ got' = Append(got, r)

(* main reads a name and calls csopen, or comes to the end of its input. *)
Call(name) ==
  /\ opc = "idle" /\ Len(asked) < MaxCalls /\ asked' = Append(asked, name)
  /\ opc' = IF fd = "none" THEN "start" ELSE "writev"
  /\ UNCHANGED <<fd, got, req, ans, srv, cur, own>>

End == opc = "idle" /\ opc' = "exit" /\ UNCHANGED <<fd, asked, got, req, ans, srv, cur, own>>

(* The first time: fd_pipe and fork.  If fork fails fd[] stays set. *)
StartServer ==
  /\ opc = "start"
  /\ \/ Return("failed") /\ UNCHANGED <<fd, srv>>
     \/ Return("failed") /\ fd' = "both" /\ UNCHANGED srv
     \/ opc' = "writev" /\ fd' = "open" /\ srv' = "start" /\ UNCHANGED got
  /\ UNCHANGED <<asked, req, ans, cur, own>>

(* writev; without a reader it is SIGPIPE. *)
Writev ==
  /\ opc = "writev"
  /\ IF fd = "open" /\ serverGone THEN opc' = "killed" /\ UNCHANGED req
     ELSE opc' = "recv" /\ req' = Append(req, asked[Len(asked)])
  /\ UNCHANGED <<fd, asked, got, ans, srv, cur, own>>

(* Mutation: the text counts as the answer. *)
RecvOnce ==
  /\ opc = "recv"
  /\ \/ ans # <<>> /\ ans' = Tail(ans) /\ Return(IF Head(ans) = "fd" THEN "fd" ELSE "error")
     \/ ans = <<>> /\ fd = "open" /\ serverGone /\ Return("closed") /\ UNCHANGED ans
  /\ UNCHANGED <<fd, asked, req, srv, cur, own>>

(* recv_fd: text goes to standard error until the status comes. *)
recv_fd ==
  /\ opc = "recv"
  /\ \/ /\ ans # <<>> /\ ans' = Tail(ans)
        /\ IF Head(ans) = "text" THEN UNCHANGED <<opc, got>>
           ELSE Return(IF Head(ans) = "fd" THEN "fd" ELSE "error")
     \/ ans = <<>> /\ fd = "open" /\ serverGone /\ Return("closed") /\ UNCHANGED ans
  /\ UNCHANGED <<fd, asked, req, srv, cur, own>>

csopen == StartServer \/ Writev \/ recv_fd

(* Mutation: the child keeps the client's end. *)
ExecKeeping ==
  /\ srv = "start" /\ own' = TRUE /\ srv' = "read"
  /\ UNCHANGED <<opc, fd, asked, got, req, ans, cur>>

(* The child closes the client's end and becomes opend, or exec fails. *)
Exec ==
  /\ srv = "start" /\ own' = FALSE /\ srv' \in {"read", "exit"}
  /\ UNCHANGED <<opc, fd, asked, got, req, ans, cur>>

(* opend: read a request, or the end of the pipe. *)
Read ==
  /\ srv = "read"
  /\ \/ req # <<>> /\ cur' = Head(req) /\ req' = Tail(req) /\ srv' = "handle"
     \/ req = <<>> /\ clientGone /\ ~own /\ srv' = "exit" /\ UNCHANGED <<cur, req>>
  /\ UNCHANGED <<opc, fd, asked, got, ans, own>>

(* A descriptor, or send_err: the text and then the status. *)
handle_request ==
  /\ \/ srv = "handle" /\ IF cur = "file" THEN ans' = Append(ans, "fd") /\ srv' = "read"
                                          ELSE ans' = Append(ans, "text") /\ srv' = "status"
     \/ srv = "status" /\ ans' = Append(ans, "status") /\ srv' = "read"
     \/ srv \in {"handle", "status"} /\ clientGone /\ srv' = "exit" /\ UNCHANGED ans   \* SIGPIPE
  /\ UNCHANGED <<opc, fd, asked, got, req, cur, own>>

opend == Exec \/ Read \/ handle_request

Kill ==
  /\ \/ ~serverGone /\ srv' = "exit" /\ UNCHANGED opc
     \/ ~clientGone /\ opc' = "killed" /\ UNCHANGED srv
  /\ UNCHANGED <<fd, asked, got, req, ans, cur, own>>

Next == csopen \/ opend \/ End \/ Kill \/ \E name \in {"file", "missing"} : Call(name)

-----------------------------------------------------------------------------
(* Every result belongs to its own call: no text or status of an earlier     *)
(* answer is left in the pipe.                                               *)
OwnResult ==
  \A n \in DOMAIN got : /\ got[n] = "fd" => asked[n] = "file"
                        /\ got[n] = "error" => asked[n] = "missing"

(* csopen returns, unless an earlier one could not fork and left fd[] set;   *)
(* and the server does not outlive its client.                               *)
OpenEnds ==
  /\ opc \in {"start", "writev", "recv"} ~> opc \notin {"start", "writev", "recv"} \/ fd = "both"
  /\ clientGone ~> serverGone
=============================================================================
