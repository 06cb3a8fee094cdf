----------------------------- MODULE OpenServer -----------------------------
(***************************************************************************)
(* The open server apue.3e/ipc2/opend and its clients apue.3e/ipc2/open:   *)
(* a client sends the name of a file over a UNIX domain stream and gets a  *)
(* descriptor or an error message back, in the protocol of send_fd,        *)
(* send_err and recv_fd.  Both event loops are here, loop.poll.c and       *)
(* loop.select.c, on the client table of client.c.                         *)
(*                                                                         *)
(* A step is one system call of the server or of a client.  Streams are    *)
(* sequences of bytes, because reads do not respect the boundaries of      *)
(* writes; a byte says what it is part of.  A request has one byte, its    *)
(* null, unless it is longer than MAXLINE.                                 *)
(***************************************************************************)
EXTENDS Integers, Sequences, FiniteSets, FiniteSetsExt

CONSTANTS
  Clients,    \* client processes, each with a user ID of its own
  None,       \* no client, no answer
  Loops,      \* the event loops to check: a subset of {"poll", "select"}
  Menu,       \* bound: Menu[c][n] is what client c may ask for in its n-th csopen
  MAXLINE,    \* size of the buffers
  NALLOC,     \* entries by which the two tables grow
  MaxFaults   \* bound: clients killed inside csopen, stale clients at serv_accept

\* A file that can be opened; one that cannot; a name with a space in it, or none;
\* a name with MAXARGC spaces; a name for which the request exceeds MAXLINE.
Kinds == {"file", "nofile", "usage", "args", "long"}

ASSUME ConstantsTyped ==
  /\ IsFiniteSet(Clients) /\ None \notin Clients
  /\ Loops \subseteq {"poll", "select"}
  /\ Menu \in [Clients -> Seq(SUBSET Kinds)]
  /\ MAXLINE \in Nat /\ MAXLINE > 2 /\ NALLOC \in Nat \ {0}
  /\ MaxFaults \in Nat

VARIABLES
  loop,      \* the event loop the server was built with
  client,    \* client[]: [fd, uid] by index, fd = -1 if available
  pollfd,    \* poll: [fd, revents] by index
  numfd,     \* poll: entries of pollfd in use
  allset,    \* select: descriptors to wait for
  rset,      \* select: descriptors that are ready
  maxi,      \* select: highest index in client[] ever used
  spc,       \* the server: what it does next
  i,         \* the index of the scan
  buf,       \* what was read from the client
  who,       \* the uid argument of handle_request
  errmsg,    \* whose request the global error message is about
  backlog,   \* connections that are not accepted yet
  sfd,       \* sfd[c]: the server's descriptor for c, -1 if it has none
  c2s, s2c,  \* the two streams of each connection
  cpc,       \* the clients
  calls,     \* calls of csopen
  said,      \* whose error messages this call of csopen wrote to stderr
  answer,    \* what the last csopen returned
  faults

tables == <<client, pollfd, numfd, allset, rset, maxi>>
server == <<spc, i, buf, who, errmsg>>
streams == <<c2s, s2c>>
net == <<backlog, sfd, streams>>
clients == <<cpc, calls, said, answer>>
vars == <<loop, tables, server, net, clients, faults>>

listenfd == 0
Free == [fd |-> -1, uid |-> None]

Init ==
  /\ loop \in Loops
  /\ client = [k \in 0 .. NALLOC - 1 |->
                 IF k = 0 /\ loop = "poll" THEN [fd |-> listenfd, uid |-> None] ELSE Free]
  /\ pollfd = [k \in 0 .. NALLOC - 1 |->
                 [fd |-> IF k = 0 THEN listenfd ELSE -1, revents |-> {}]]
  /\ numfd = 1
  /\ allset = {listenfd} /\ rset = {} /\ maxi = -1
  /\ spc = "wait" /\ i = 0 /\ buf = << >> /\ who = None /\ errmsg = None
  /\ backlog = << >>
  /\ sfd = [c \in Clients |-> -1]
  /\ c2s = [c \in Clients |-> << >>] /\ s2c = [c \in Clients |-> << >>]
  /\ cpc = [c \in Clients |-> "new"]
  /\ calls = [c \in Clients |-> 0]
  /\ said = [c \in Clients |-> {}]
  /\ answer = [c \in Clients |-> None]
  /\ faults = 0

Up == spc # "down"
Gone(c) == cpc[c] \in {"gone", "dumped"}
Owner(fd) == CHOOSE c \in Clients : sfd[c] = fd

-----------------------------------------------------------------------------
(* Clients: cli_conn, csopen and recv_fd.                                   *)

\* cli_conn binds a name, connects and may write before it is accepted.
cli_conn(c) ==
  /\ cpc[c] = "new"
  /\ IF Up THEN /\ cpc' = [cpc EXCEPT ![c] = "idle"]
                /\ backlog' = Append(backlog, c)
           ELSE /\ cpc' = [cpc EXCEPT ![c] = "gone"]
                /\ UNCHANGED backlog
  /\ UNCHANGED <<loop, tables, server, sfd, streams, calls, said, answer, faults>>

\* The bytes of a request: `kind' with its number and the position in it.
ReqLen(kind) == IF kind = "long" THEN MAXLINE + 1 ELSE 1
Request(c, kind) ==
  [n \in 1 .. ReqLen(kind) |-> [cl |-> c, call |-> calls[c] + 1, kind |-> kind, pos |-> n]]
Nul(b) == b.pos = ReqLen(b.kind)

\* csopen sends its request with one writev; SIGPIPE if the server is gone.
csopen(c) ==
  /\ cpc[c] = "idle" /\ calls[c] < Len(Menu[c])
  /\ IF Up THEN /\ cpc' = [cpc EXCEPT ![c] = "recv"]
                /\ \E kind \in Menu[c][calls[c] + 1] : c2s' = [c2s EXCEPT ![c] = @ \o Request(c, kind)]
           ELSE /\ cpc' = [cpc EXCEPT ![c] = "gone"]
                /\ UNCHANGED c2s
  /\ calls' = [calls EXCEPT ![c] = @ + 1]
  /\ said' = [said EXCEPT ![c] = {}]
  /\ answer' = [answer EXCEPT ![c] = None]
  /\ UNCHANGED <<loop, tables, server, backlog, sfd, s2c, faults>>

\* What recvmsg returns: all there is, at most MAXLINE bytes, and nothing behind
\* a descriptor.
Received(s) ==
  LET fds == {n \in DOMAIN s : s[n].what = "fd"}
      ends == {Len(s), MAXLINE} \cup fds
  IN SubSeq(s, 1, Min(ends))

\* One round of recv_fd: the first null must be the next to last byte.
recv_fd(c) ==
  LET got == Received(s2c[c])
      nr == Len(got)
      nuls == {n \in 1 .. nr : got[n].what = "nul"}
      texts == {n \in 1 .. nr : got[n].what = "text"}
  IN
  /\ cpc[c] = "recv" /\ s2c[c] # << >>
  /\ s2c' = [s2c EXCEPT ![c] = SubSeq(@, nr + 1, Len(@))]
  /\ said' = [said EXCEPT ![c] = @ \cup {[cl |-> got[n].cl, call |-> got[n].call] : n \in texts}]
  /\ \/ /\ nuls = {}
        /\ UNCHANGED <<cpc, answer>>
     \/ /\ nuls # {} /\ Min(nuls) = nr - 1
        /\ cpc' = [cpc EXCEPT ![c] = "idle"]
        /\ answer' = [answer EXCEPT ![c] = got[nr]]
     \/ /\ nuls # {} /\ Min(nuls) # nr - 1          \* err_dump
        /\ cpc' = [cpc EXCEPT ![c] = "dumped"]
        /\ UNCHANGED answer
  /\ UNCHANGED <<loop, tables, server, backlog, sfd, c2s, calls, faults>>

\* "connection closed by server": csopen returns -1.
RecvEof(c) ==
  /\ cpc[c] = "recv" /\ s2c[c] = << >> /\ ~Up
  /\ cpc' = [cpc EXCEPT ![c] = "idle"]
  /\ UNCHANGED <<loop, tables, server, net, calls, said, answer, faults>>

\* The client has read its last line, or is killed while it waits.
Leave(c) ==
  /\ \/ cpc[c] = "idle" /\ faults' = faults
     \/ cpc[c] = "recv" /\ faults < MaxFaults /\ faults' = faults + 1
  /\ cpc' = [cpc EXCEPT ![c] = "gone"]
  /\ said' = [said EXCEPT ![c] = {}] /\ answer' = [answer EXCEPT ![c] = None]
  /\ UNCHANGED <<loop, tables, server, net, calls>>

-----------------------------------------------------------------------------
(* The client table.                                                        *)

Indices(fd) == {k \in DOMAIN client : client[k].fd = fd}

\* client_alloc: grow a table by NALLOC entries.
Grown(t, entry) ==
  LET size == Cardinality(DOMAIN t) IN
  [k \in 0 .. size + NALLOC - 1 |-> IF k < size THEN t[k] ELSE entry]

\* Mutation: the user ID of the last owner stays.
AddKeepsUid(fd, uid, k, t) == [t EXCEPT ![k].fd = fd]

\* The entry client_add fills.
AddEntry(fd, uid, k, t) == [t EXCEPT ![k] = [fd |-> fd, uid |-> uid]]

\* client_add takes the first entry that is available, of a larger table if
\* there is none; k is its index.
client_add(fd, uid, k) ==
  /\ k = IF Indices(-1) = {} THEN Cardinality(DOMAIN client) ELSE Min(Indices(-1))
  /\ client' = AddEntry(fd, uid, k, IF Indices(-1) = {} THEN Grown(client, Free) ELSE client)

\* client_del ends the server (log_quit) if there is no such entry.
client_del(fd) ==
  IF Indices(fd) = {} THEN client' = client /\ spc' = "down"
  ELSE client' = [client EXCEPT ![Min(Indices(fd))].fd = -1] /\ spc' = "scan"

-----------------------------------------------------------------------------
(* The two event loops.                                                     *)

\* What poll reports of a connection.
Revents(c) == (IF c2s[c] # << >> \/ Gone(c) THEN {"in"} ELSE {}) \cup (IF Gone(c) THEN {"hup"} ELSE {})

Poll ==
  LET re(k) == IF k = 0 THEN IF backlog # << >> THEN {"in"} ELSE {}
               ELSE IF k < numfd THEN Revents(Owner(pollfd[k].fd)) ELSE {}
  IN
  /\ loop = "poll" /\ spc = "wait"
  /\ \E k \in 0 .. numfd - 1 : re(k) # {}
  /\ pollfd' = [k \in DOMAIN pollfd |-> [pollfd[k] EXCEPT !.revents = re(k)]]
  /\ spc' = IF re(0) # {} THEN "accept" ELSE "scan"
  /\ i' = 1
  /\ UNCHANGED <<loop, client, numfd, allset, rset, maxi, buf, who, errmsg, net, clients, faults>>

Select ==
  LET ready == {fd \in allset : IF fd = listenfd THEN backlog # << >>
                                ELSE Revents(Owner(fd)) # {}}
  IN
  /\ loop = "select" /\ spc = "wait"
  /\ ready # {}
  /\ rset' = ready
  /\ spc' = IF listenfd \in ready THEN "accept" ELSE "scan"
  /\ i' = 0
  /\ UNCHANGED <<loop, client, pollfd, numfd, allset, maxi, buf, who, errmsg, net, clients, faults>>

\* Mutation: the highest index is not raised.
ListenSelectLow(fd) ==
  /\ loop = "select"
  /\ allset' = allset \cup {fd}
  /\ spc' = "wait"
  /\ \E k \in 0 .. Cardinality(DOMAIN client) :
       client_add(fd, Head(backlog), k) /\ maxi' = IF maxi = -1 THEN k ELSE maxi
  /\ UNCHANGED <<pollfd, numfd>>

\* The new connection is entered; poll goes on with its scan, select waits anew.
ListenPoll(fd) ==
  /\ loop = "poll"
  /\ pollfd' = [(IF numfd = Cardinality(DOMAIN pollfd)
                 THEN Grown(pollfd, [fd |-> -1, revents |-> {}]) ELSE pollfd)
                EXCEPT ![numfd] = [fd |-> fd, revents |-> {}]]
  /\ numfd' = numfd + 1
  /\ spc' = "scan"
  /\ \E k \in 0 .. Cardinality(DOMAIN client) : client_add(fd, Head(backlog), k)
  /\ UNCHANGED <<allset, maxi>>
ListenSelect(fd) ==
  /\ loop = "select"
  /\ allset' = allset \cup {fd}
  /\ spc' = "wait"
  /\ \E k \in 0 .. Cardinality(DOMAIN client) :
       client_add(fd, Head(backlog), k) /\ maxi' = Max({k, maxi})
  /\ UNCHANGED <<pollfd, numfd>>

\* serv_accept: the lowest descriptor that is not in use.
Accept ==
  LET fd == Min((1 .. Cardinality(Clients) + 1) \ {sfd[c] : c \in Clients}) IN
  /\ spc = "accept"
  /\ ListenPoll(fd) \/ ListenSelect(fd)
  /\ sfd' = [sfd EXCEPT ![Head(backlog)] = fd]
  /\ backlog' = Tail(backlog)
  /\ rset' = {}
  /\ UNCHANGED <<loop, i, buf, who, errmsg, streams, clients, faults>>

\* serv_accept refuses a client whose name is too old; log_sys ends the server.
AcceptStale ==
  /\ spc = "accept" /\ faults < MaxFaults
  /\ faults' = faults + 1
  /\ spc' = "down"
  /\ UNCHANGED <<loop, tables, i, buf, who, errmsg, net, clients>>

\* The entries the scan still has to look at, and the first of them.
Pending ==
  IF loop = "poll" THEN {k \in i .. numfd - 1 : pollfd[k].revents # {}}
  ELSE {k \in i .. maxi : client[k].fd \in rset}
At == Min(Pending)
Fd == IF loop = "poll" THEN pollfd[At].fd ELSE client[At].fd

\* What poll or select reported is not looked at again: it is cleared here.
NoEvents == [k \in DOMAIN pollfd |-> [pollfd[k] EXCEPT !.revents = {}]]

ScanDone ==
  /\ spc = "scan" /\ Pending = {}
  /\ spc' = "wait" /\ i' = 0
  /\ pollfd' = NoEvents /\ rset' = {}
  /\ UNCHANGED <<loop, client, numfd, allset, maxi, buf, who, errmsg, net, clients, faults>>

\* poll looks at POLLHUP first; select learns of the end of a connection when
\* read returns 0.
HungUp == IF loop = "poll" THEN "hup" \in pollfd[At].revents
          ELSE c2s[Owner(Fd)] = << >> /\ Gone(Owner(Fd))

\* Mutation: the last entry is dropped, not the one that hung up.
PackNothing(k) == numfd' = numfd - 1 /\ pollfd' = pollfd

\* The last entry moves to the place that became free.  (Entries behind the last
\* are never read; they are cleared here.)
Pack(k) ==
  /\ numfd' = numfd - 1
  /\ pollfd' = [pollfd EXCEPT ![k] = pollfd[numfd - 1],
                              ![numfd - 1] = [fd |-> -1, revents |-> {}]]

\* A client that ended with an answer unread resets the connection: the read of
\* the select loop fails with ECONNRESET, and log_sys ends the server.
HangUp ==
  /\ spc = "scan" /\ Pending # {} /\ HungUp
  /\ IF loop = "select" /\ s2c[Owner(Fd)] # << >>
     THEN spc' = "down" /\ UNCHANGED <<client, pollfd, numfd, allset, sfd, i>>
     ELSE /\ client_del(Fd)
          /\ sfd' = [sfd EXCEPT ![Owner(Fd)] = -1]
          /\ IF loop = "poll"
             THEN Pack(At) /\ i' = At /\ UNCHANGED allset
             ELSE allset' = allset \ {Fd} /\ i' = At + 1 /\ UNCHANGED <<pollfd, numfd>>
  /\ UNCHANGED <<loop, rset, maxi, buf, who, errmsg, backlog, streams, clients, faults>>

\* read: as many bytes as there are, at most MAXLINE.
Read ==
  LET s == c2s[Owner(Fd)]
      n == Min({Len(s), MAXLINE})
  IN
  /\ spc = "scan" /\ Pending # {} /\ ~HungUp
  /\ buf' = SubSeq(s, 1, n)
  /\ c2s' = [c2s EXCEPT ![Owner(Fd)] = SubSeq(@, n + 1, Len(@))]
  /\ who' = client[At].uid
  /\ i' = At
  /\ spc' = "request"
  /\ UNCHANGED <<loop, tables, errmsg, backlog, sfd, s2c, clients, faults>>

-----------------------------------------------------------------------------
(* handle_request.                                                          *)

\* Which case of handle_request buf leads to.  strtok stops at the first null,
\* so only the first request in buf counts; the rest of a request that was too
\* long does not parse.
Outcome ==
  IF ~Nul(buf[Len(buf)]) THEN "unterminated"
  ELSE IF buf[1].pos # 1 THEN "usage"
  ELSE buf[1].kind

\* Mutation: the answer goes by the index in the client table.
AnswerByClient == client[i].fd

\* The descriptor handle_request answers on.
AnswerFd == IF loop = "poll" THEN pollfd[i].fd ELSE client[i].fd

Byte(what, r) == [what |-> what, cl |-> r.cl, call |-> r.call]
Ask == [cl |-> buf[1].cl, call |-> buf[1].call]

\* Write to a connection; SIGPIPE ends the server if the client is gone.
Write(bytes, next) ==
  LET c == Owner(AnswerFd) IN
  IF Gone(c) THEN spc' = "down" /\ UNCHANGED s2c
  ELSE spc' = next /\ s2c' = [s2c EXCEPT ![c] = @ \o bytes]

\* The file is opened and its descriptor sent with send_fd.
SendFd ==
  /\ spc = "request" /\ Outcome = "file"
  /\ Write(<<Byte("nul", Ask), Byte("fd", Ask)>>, "scan")
  /\ i' = i + 1 /\ buf' = << >> /\ who' = None
  /\ UNCHANGED <<loop, tables, errmsg, backlog, sfd, c2s, clients, faults>>

\* Mutation: the message may fill the whole buffer.
LongText(r) == [n \in 1 .. MAXLINE - 1 |-> Byte("text", r)]

\* snprintf with MAXLINE-1 leaves room for the null; the longest message.
Text(r) == [n \in 1 .. MAXLINE - 2 |-> Byte("text", r)]

\* The global errmsg; buf_args sets none when there are too many arguments.
Message == IF Outcome = "args" THEN errmsg ELSE Ask

\* send_err: the message, then the status.
SendText ==
  /\ spc = "request" /\ Outcome # "file"
  /\ errmsg' = Message
  /\ IF errmsg' = None THEN spc' = "status" /\ UNCHANGED s2c
     ELSE Write(Text(errmsg'), "status")
  /\ UNCHANGED <<loop, tables, i, buf, who, backlog, sfd, c2s, clients, faults>>

SendStatus ==
  /\ spc = "status"
  /\ Write(<<Byte("nul", Ask), Byte("err", Ask)>>, "scan")
  /\ i' = i + 1 /\ buf' = << >> /\ who' = None
  /\ UNCHANGED <<loop, tables, errmsg, backlog, sfd, c2s, clients, faults>>

-----------------------------------------------------------------------------

Serve ==
  \/ Poll \/ Select \/ Accept \/ ScanDone \/ HangUp \/ Read
  \/ SendFd \/ SendText \/ SendStatus

Ended == (\A c \in Clients : Gone(c)) /\ spc \in {"wait", "down"} /\ UNCHANGED vars

Next ==
  \/ \E c \in Clients : cli_conn(c) \/ csopen(c) \/ recv_fd(c) \/ RecvEof(c) \/ Leave(c)
  \/ Serve \/ AcceptStale \/ Ended

Spec == Init /\ [][Next]_vars

\* The server runs, and a client that waits for its answer does.
FairSpec ==
  /\ Spec /\ WF_vars(Serve)
  /\ \A c \in Clients : WF_vars(recv_fd(c) \/ RecvEof(c))

-----------------------------------------------------------------------------
(* Properties.                                                              *)

Served == {c \in Clients : sfd[c] # -1}
Fds == {sfd[c] : c \in Served}
InTable == {k \in DOMAIN client : client[k].fd # -1}

\* client[] and the poll array, or client[] and the sets of select, always hold
\* the descriptors of exactly the connections that are open, each once, although
\* entries are taken, freed, packed and reused in different orders.
TablesAgree ==
  Up =>
    /\ Cardinality(Fds) = Cardinality(Served)
    /\ {client[k].fd : k \in InTable} \ {listenfd} = Fds
    /\ Cardinality(InTable) = Cardinality(Fds) + (IF loop = "poll" THEN 1 ELSE 0)
    /\ loop = "poll" =>
         /\ numfd = Cardinality(Fds) + 1
         /\ {pollfd[k].fd : k \in 1 .. numfd - 1} = Fds
    /\ loop = "select" => allset = Fds \cup {listenfd} /\ \A k \in InTable : k <= maxi

\* A csopen that returns an answer returns the answer to its own request, and the
\* messages it wrote to stderr are about that request.
OwnAnswer ==
  \A c \in Clients :
    LET own == [cl |-> c, call |-> calls[c]] IN
    /\ said[c] \subseteq {own}
    /\ answer[c] # None => answer[c] \in {Byte("fd", own), Byte("err", own)}

\* "Null is next to last byte of buffer; status byte is last byte": recv_fd never
\* finds a null anywhere else, however the bytes of an answer are cut or glued.
NoFormatError == \A c \in Clients : cpc[c] # "dumped"

\* In the select loop the uid that goes with a request is the one of the client
\* that sent it, also when its entry of client[] was used before.
RequestUid == loop = "select" /\ spc \in {"request", "status"} => who = buf[1].cl

\* Every csopen returns, with an answer or because the server ended.
OpenReturns == \A c \in Clients : cpc[c] = "recv" ~> cpc[c] # "recv"
=============================================================================
