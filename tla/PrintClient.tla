---------------------------- MODULE PrintClient ----------------------------
(***************************************************************************)
(* The print command and the daemon's side of one upload: print.c of       *)
(* apue.3e/printer with connect_retry, treadn and tread, and client_thread *)
(* of printd.c up to its answer.  The connection carries tokens: HDR of    *)
(* the header, then FILE of the file, and splits them as it likes.  What   *)
(* becomes of an accepted job is the subject of PrintSpool.                *)
(***************************************************************************)
EXTENDS Integers, Sequences

CONSTANTS HDR, FILE, IOBUFSZ, MAXSLEEP, Addrs   \* Addrs: addresses of the host

VARIABLES
  cpc, aip, numsec,      \* the client: its place, address and back-off
  sent, bad, told,       \* tokens written; the file cannot be read; its result
  sock, resp,            \* tokens on the way; the answer, or "reset"
  vpc, hdr, stored,      \* client_thread: header tokens read, file tokens stored
  stalled, failed        \* history: the client was too slow; the daemon had an error

client == <<cpc, aip, numsec, sent, bad, told>>
server == <<vpc, hdr, stored, stalled, failed>>
vars == <<client, sock, resp, server>>

Init ==
  /\ cpc = "connect" /\ aip = 1 /\ numsec = 1 /\ sent = 0 /\ bad = FALSE /\ told = "none"
  /\ sock = <<>> /\ resp = "none"
  /\ vpc = "none" /\ hdr = 0 /\ stored = <<>> /\ stalled = FALSE /\ failed = FALSE

Exit(r) == cpc' = "exit" /\ told' = r

(* connect_retry: a new socket for each try, twice the wait after each; main *)
(* goes on with the next address.                                            *)
NextAddr ==
  IF aip = Addrs THEN Exit("failed") /\ UNCHANGED <<aip, numsec>>
  ELSE aip' = aip + 1 /\ numsec' = 1 /\ UNCHANGED <<cpc, told>>

connect_retry ==
  /\ cpc = "connect"
  /\ \/ cpc' = "header" /\ vpc' = "header" /\ UNCHANGED <<aip, numsec, told>>
     \/ NextAddr /\ UNCHANGED vpc                                  \* socket fails
     \/ /\ IF 2 * numsec <= MAXSLEEP THEN numsec' = 2 * numsec /\ UNCHANGED <<cpc, aip, told>>
           ELSE NextAddr
        /\ UNCHANGED vpc
  /\ UNCHANGED <<sent, bad, sock, resp, hdr, stored, stalled, failed>>

(* writen to a connection that may have been closed: the tokens are lost and *)
(* so may the answer be, or the client ends.                                 *)
writen(upto) ==
  \E k \in 1 .. upto - sent :
    /\ sent' = sent + k
    /\ IF vpc # "gone" THEN sock' = sock \o [t \in 1 .. k |-> sent + t] /\ UNCHANGED <<cpc, resp, told>>
       ELSE UNCHANGED sock /\ \/ resp' \in {resp, "reset"} /\ UNCHANGED <<cpc, told>>
                              \/ Exit("failed") /\ UNCHANGED resp

SendHeader == cpc = "header" /\ sent < HDR /\ writen(HDR)

(* The loop of submit_file; read() = -1 is written with length -1, which     *)
(* fails with the same -1, and read again.                                   *)
SendFile == cpc = "header" /\ sent >= HDR /\ sent < HDR + FILE /\ ~bad /\ writen(HDR + FILE)

ReadResponse ==
  /\ cpc = "header" /\ sent = HDR + FILE /\ resp # "none"
  /\ Exit(IF resp = "reset" THEN "failed" ELSE resp) /\ UNCHANGED <<sent, sock, resp>>

print ==
  \/ (SendHeader \/ SendFile \/ ReadResponse) /\ UNCHANGED <<aip, numsec, bad, server>>
  \/ connect_retry

(* From outside: the file system fails, the client is killed, the daemon too. *)
Fault ==
  /\ \/ cpc = "header" /\ bad' = TRUE /\ UNCHANGED <<cpc, vpc, resp, failed>>
     \/ cpc # "exit" /\ cpc' = "exit" /\ UNCHANGED <<bad, vpc, resp, failed>>
     \/ /\ vpc \notin {"none", "gone"} /\ vpc' = "gone" /\ resp' = "reset" /\ failed' = TRUE
        /\ UNCHANGED <<cpc, bad>>
  /\ UNCHANGED <<aip, numsec, sent, told, sock, hdr, stored, stalled>>

(* The end of client_thread closes the socket; with tokens unread the client *)
(* may lose the answer.                                                      *)
Answer(r) == vpc' = "gone" /\ resp' \in IF sock' = <<>> THEN {r} ELSE {r, "reset"}

(* Mutation: no timeout. *)
EofOnly == sock = <<>> /\ cpc = "exit" /\ UNCHANGED stalled

(* tread finds nothing: end of file, or nothing came in time. *)
Nothing == sock = <<>> /\ stalled' = (stalled \/ (cpc # "exit" /\ sent < HDR + FILE))

Tread(n, k) == k <= n /\ k <= Len(sock) /\ sock' = SubSeq(sock, k + 1, Len(sock))

(* Mutation: one read for the header. *)
OneTread ==
  /\ vpc = "header" /\ UNCHANGED <<stored, failed>>
  /\ \/ \E k \in 1 .. HDR : Tread(HDR, k) /\ hdr' = k /\ UNCHANGED stalled
                            /\ IF k = HDR THEN vpc' = "creat" /\ UNCHANGED resp ELSE Answer("rejected")
     \/ Nothing /\ UNCHANGED <<hdr, sock>> /\ Answer("rejected")

(* Mutation: more is read than the header. *)
Greedy ==
  /\ vpc = "header" /\ UNCHANGED <<stored, failed>>
  /\ \/ \E k \in 1 .. IOBUFSZ : Tread(IOBUFSZ, k) /\ hdr' = hdr + k /\ UNCHANGED <<resp, stalled>>
                                /\ vpc' = IF hdr' >= HDR THEN "creat" ELSE "header"
     \/ Nothing /\ UNCHANGED <<hdr, sock>> /\ Answer("rejected")

(* The header, in as many reads as it takes. *)
treadn ==
  /\ vpc = "header" /\ UNCHANGED <<stored, failed>>
  /\ \/ \E k \in 1 .. HDR - hdr : Tread(HDR - hdr, k) /\ hdr' = hdr + k /\ UNCHANGED <<resp, stalled>>
                                  /\ vpc' = IF hdr' = HDR THEN "creat" ELSE "header"
     \/ Nothing /\ UNCHANGED <<hdr, sock>> /\ Answer("rejected")

(* The loop over the file ends when tread finds nothing, whatever the reason. *)
Store ==
  /\ vpc = "file" /\ UNCHANGED hdr
  /\ \/ \E k \in 1 .. IOBUFSZ :
          /\ Tread(IOBUFSZ, k) /\ UNCHANGED stalled
          /\ \/ stored' = stored \o SubSeq(sock, 1, k) /\ UNCHANGED <<vpc, resp, failed>>
             \/ Answer("rejected") /\ failed' = TRUE /\ UNCHANGED stored      \* write fails
     \/ Nothing /\ vpc' = "reqs" /\ UNCHANGED <<resp, stored, sock, failed>>

(* The data file and the request file are made, or the job is refused. *)
SpoolFiles ==
  /\ UNCHANGED <<sock, hdr, stored, stalled>>
  /\ \/ vpc = "creat" /\ vpc' = "file" /\ UNCHANGED <<resp, failed>>
     \/ vpc = "reqs" /\ Answer("jobid") /\ UNCHANGED failed
     \/ vpc \in {"creat", "reqs"} /\ Answer("rejected") /\ failed' = TRUE

client_thread == (treadn \/ Store \/ SpoolFiles) /\ UNCHANGED client

Next == print \/ client_thread \/ Fault

-----------------------------------------------------------------------------
(* A client that is told a job number and kept up has its whole file in the  *)
(* spool, no token of the header taken for one of the file or the reverse;   *)
(* it is refused only for being too slow or for an error of the daemon.      *)
SubmitRight ==
  /\ told = "jobid" /\ ~stalled => stored = [t \in 1 .. FILE |-> HDR + t]
  /\ told = "rejected" => stalled \/ failed

(* The command ends, although it never says where its file ends, unless the  *)
(* file cannot be read any more; and the daemon's thread ends.               *)
SubmitEnds == <>(cpc = "exit" \/ bad) /\ (vpc # "none" ~> vpc = "gone")
=============================================================================
