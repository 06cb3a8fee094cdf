-------------------------- MODULE OpenServerProofs --------------------------
(***************************************************************************)
(* For any number of clients, requests and faults, and either event loop:  *)
(* the client table, and the poll array or the set of select, describe     *)
(* exactly the open connections, and in the select loop a request goes     *)
(* with the user ID of its client.  When no request is longer than the     *)
(* buffer or has too many words, every client gets its own answer and      *)
(* finds the end of it.                                                    *)
(*                                                                         *)
(* Three invariants, each on top of the one before: TablesInv about the    *)
(* tables, ReadyInv about what was reported and is still to be read, and   *)
(* ProtocolInv about the streams.                                          *)
(***************************************************************************)
EXTENDS OpenServer, FiniteSetTheorems, SequenceTheorems, TLAPS

\* A table has entries 0 to Size - 1.
Size(t) == Cardinality(DOMAIN t)
IsTable(t) == Size(t) \in Nat \ {0} /\ DOMAIN t = 0 .. Size(t) - 1

Spcs == {"wait", "accept", "scan", "request", "status", "down"}
Types ==
  /\ loop \in {"poll", "select"}
  /\ IsTable(client) /\ \A k \in DOMAIN client : client[k] \in [fd : Nat \cup {-1}, uid : Clients \cup {None}]
  /\ IsTable(pollfd) /\ \A k \in DOMAIN pollfd : pollfd[k] \in [fd : Nat \cup {-1}, revents : SUBSET {"in", "hup"}]
  /\ numfd \in 1 .. Size(pollfd) /\ maxi \in -1 .. Size(client) - 1
  /\ allset \subseteq Nat /\ rset \subseteq Nat
  /\ spc \in Spcs /\ i \in Nat
  /\ backlog \in Seq(Clients)
  /\ sfd \in [Clients -> Nat \cup {-1}]
  /\ cpc \in [Clients -> {"new", "idle", "recv", "gone", "dumped"}]

\* Each connection has a descriptor of its own.
Connected(c) == sfd[c] # -1
Apart ==
  /\ \A c \in Clients : sfd[c] # listenfd
  /\ \A c, d \in Clients : Connected(c) /\ sfd[c] = sfd[d] => c = d

\* A client is connected once: it is new, waits to be accepted, or was.
Waiting == {backlog[n] : n \in DOMAIN backlog}
AcceptedOnce ==
  /\ \A m, n \in DOMAIN backlog : backlog[m] = backlog[n] => m = n
  /\ \A c \in Waiting : ~Connected(c)
  /\ \A c \in Clients : cpc[c] = "new" => ~Connected(c) /\ c \notin Waiting
  /\ spc = "accept" => backlog # << >>

\* An entry of client[] is free, or has the descriptor of a connection and the
\* user ID of its client, each once; in the poll loop entry 0 has listenfd.
Entries == {k \in DOMAIN client : client[k].fd # -1}
Entered ==
  /\ loop = "poll" => client[0].fd = listenfd
  /\ \A k \in Entries : \/ loop = "poll" /\ k = 0
                        \/ client[k].uid \in Clients /\ sfd[client[k].uid] = client[k].fd
  /\ \A j, k \in Entries : client[j].fd = client[k].fd => j = k
  /\ \A c \in Clients : Connected(c) => \E k \in Entries : client[k].fd = sfd[c]

\* So do the entries of the poll array,
Polled == loop = "poll" =>
  /\ \A k \in 1 .. numfd - 1 : \E c \in Clients : Connected(c) /\ pollfd[k].fd = sfd[c]
  /\ \A j, k \in 1 .. numfd - 1 : pollfd[j].fd = pollfd[k].fd => j = k
  /\ \A c \in Clients : Connected(c) => \E k \in 1 .. numfd - 1 : pollfd[k].fd = sfd[c]
  /\ spc \in {"accept", "scan", "request", "status"} => i >= 1

\* and the set of select, whose highest index is not passed by any entry.
Selected == loop = "select" =>
  /\ allset = {sfd[c] : c \in {d \in Clients : Connected(d)}} \cup {listenfd}
  /\ \A k \in Entries : k <= maxi
  /\ spc \in {"scan", "request", "status"} => listenfd \notin rset

TablesInv == Types /\ Apart /\ AcceptedOnce /\ Entered /\ Polled /\ Selected

-----------------------------------------------------------------------------
(* Helpers of the model.                                                    *)

\* The least number of a set, as client_add and serv_accept look for it.
LEMMA Least ==
  ASSUME NEW S \in SUBSET Nat, S # {}
  PROVE  Min(S) \in S /\ \A y \in S : Min(S) <= y
<1>1. \E x \in S : \A y \in S : x <= y
  <2> DEFINE R == OpToRel(<, Nat)
  <2>1. IsWellFoundedOn(R, Nat)
    BY NatLessThanWellFounded
  <2>2. \A x, y \in Nat : x < y => <<x, y>> \in R
    BY DEF OpToRel
  <2> HIDE DEF R
  <2>3. PICK x \in S : \A y \in S : ~(<<y, x>> \in R)
    BY <2>1, WFMin
  <2>4. ASSUME NEW y \in S PROVE x <= y
    <3>1. x \in Nat /\ y \in Nat /\ ~(y < x)
      BY <2>2, <2>3
    <3> QED  BY <3>1
  <2> QED  BY <2>4
<1> QED  BY <1>1 DEF Min

\* client_alloc: the entries that were there stay, the new ones are free.
LEMMA GrownTable ==
  ASSUME NEW t, IsTable(t), NEW e
  PROVE  /\ IsTable(Grown(t, e)) /\ Size(Grown(t, e)) = Size(t) + NALLOC
         /\ \A k \in 0 .. Size(t) + NALLOC - 1 : Grown(t, e)[k] = IF k < Size(t) THEN t[k] ELSE e
<1> DEFINE g == Grown(t, e)
<1>1. NALLOC \in Nat \ {0} /\ Size(t) \in Nat \ {0}
  BY ConstantsTyped DEF IsTable
<1>2. g = [k \in 0 .. Size(t) + NALLOC - 1 |-> IF k < Size(t) THEN t[k] ELSE e]
  BY DEF Grown, Size
<1> HIDE DEF g
<1>3. DOMAIN g = 0 .. Size(t) + NALLOC - 1
  BY <1>2
<1>4. Cardinality(0 .. Size(t) + NALLOC - 1) = Size(t) + NALLOC
  BY <1>1, FS_Interval
<1>5. Size(g) = Size(t) + NALLOC
  BY <1>3, <1>4 DEF Size
<1> QED  BY <1>1, <1>2, <1>3, <1>5 DEF IsTable, g

\* Writing an entry keeps a table.
LEMMA SetTable ==
  ASSUME NEW t, IsTable(t), NEW k, NEW e
  PROVE  IsTable([t EXCEPT ![k] = e]) /\ Size([t EXCEPT ![k] = e]) = Size(t)
BY DEF IsTable, Size

\* client_add fills a free entry; all others keep what they have.
LEMMA Added ==
  ASSUME Types, NEW fd, NEW uid, NEW k, client_add(fd, uid, k)
  PROVE  /\ k \in Nat /\ IsTable(client') /\ Size(client) <= Size(client') /\ k \in DOMAIN client'
         /\ DOMAIN client \subseteq DOMAIN client'
         /\ \A j \in DOMAIN client' : client'[j] = IF j = k THEN [fd |-> fd, uid |-> uid]
                                                   ELSE IF j \in DOMAIN client THEN client[j] ELSE Free
         /\ k \in DOMAIN client => client[k].fd = -1
<1> DEFINE n == Size(client)
<1>1. n \in Nat \ {0} /\ DOMAIN client = 0 .. n - 1 /\ IsTable(client) /\ NALLOC \in Nat \ {0}
  BY ConstantsTyped DEF Types, IsTable
<1>2. CASE Indices(-1) = {}
  <2> DEFINE g == Grown(client, Free)
  <2>1. k = n /\ client' = [g EXCEPT ![k] = [fd |-> fd, uid |-> uid]]
    BY <1>2 DEF client_add, AddEntry, Size
  <2>2. /\ IsTable(g) /\ Size(g) = n + NALLOC
        /\ \A j \in 0 .. n + NALLOC - 1 : g[j] = IF j < n THEN client[j] ELSE Free
    BY <1>1, GrownTable
  <2> HIDE DEF n, g
  <2>3. IsTable(client') /\ Size(client') = n + NALLOC
    BY <2>1, <2>2, SetTable
  <2>4. DOMAIN g = 0 .. n + NALLOC - 1 /\ DOMAIN client' = 0 .. n + NALLOC - 1
    <3>1. DOMAIN g = 0 .. n + NALLOC - 1
      <4>1. n \in Nat /\ NALLOC \in Nat /\ Size(g) - 1 = n + NALLOC - 1
        BY <1>1, <2>2 DEF n
      <4> QED  BY <2>2, <4>1 DEF IsTable
    <3>2. DOMAIN client' = DOMAIN g
      BY <2>1
    <3> QED  BY <3>1, <3>2
  <2> QED  BY <1>1, <2>1, <2>2, <2>3, <2>4 DEF n
<1>3. CASE Indices(-1) # {}
  <2>1. k = Min(Indices(-1)) /\ client' = [client EXCEPT ![k] = [fd |-> fd, uid |-> uid]]
    BY <1>3 DEF client_add, AddEntry
  <2>2. Indices(-1) \in SUBSET Nat
    BY <1>1 DEF Indices
  <2>3. k \in Indices(-1)
    BY <1>3, <2>1, <2>2, Least
  <2>4. k \in DOMAIN client /\ client[k].fd = -1 /\ k \in Nat
    BY <2>2, <2>3 DEF Indices
  <2>5. IsTable(client') /\ Size(client') = n /\ DOMAIN client' = DOMAIN client
    BY <1>1, <2>1, SetTable
  <2> QED  BY <1>1, <2>1, <2>4, <2>5
<1> QED  BY <1>2, <1>3

\* serv_accept always finds a descriptor: there are more than clients.
LEMMA FreeDescriptor ==
  ASSUME Types
  PROVE  LET S == (1 .. Cardinality(Clients) + 1) \ {sfd[c] : c \in Clients}
         IN  Min(S) \in Nat \ {0} /\ \A c \in Clients : sfd[c] # Min(S)
<1> DEFINE U == {sfd[c] : c \in Clients}
           n == Cardinality(Clients)
           S == (1 .. n + 1) \ U
<1>1. IsFiniteSet(Clients) /\ n \in Nat
  BY ConstantsTyped, FS_CardinalityType
<1>2. IsFiniteSet(U) /\ Cardinality(U) <= n /\ Cardinality(U) \in Nat
  <2>1. sfd \in [Clients -> U]
    BY DEF Types
  <2>2. sfd \in Surjection(Clients, U)
    BY <2>1 DEF Surjection
  <2> QED  BY <1>1, <2>2, FS_Surjection, FS_CardinalityType
<1>3. Cardinality(1 .. n + 1) = n + 1
  BY <1>1, FS_Interval
<1>4. S # {}
  <2> SUFFICES ASSUME S = {} PROVE FALSE
    OBVIOUS
  <2>1. 1 .. n + 1 \in SUBSET U
    OBVIOUS
  <2> HIDE DEF U, n
  <2>2. Cardinality(1 .. n + 1) <= Cardinality(U)
    BY <1>2, <2>1, FS_Subset
  <2> QED  BY <1>1, <1>2, <1>3, <2>2
<1>5. S \in SUBSET Nat
  BY <1>1
<1>6. Min(S) \in S
  BY <1>4, <1>5, Least
<1> QED  BY <1>1, <1>6

\* Who has a descriptor.
LEMMA OwnerOf ==
  ASSUME Apart, NEW c \in Clients, Connected(c)
  PROVE  Owner(sfd[c]) = c
<1>1. \E d \in Clients : sfd[d] = sfd[c]
  OBVIOUS
<1>2. Owner(sfd[c]) \in Clients /\ sfd[Owner(sfd[c])] = sfd[c]
  BY <1>1, Zenon DEF Owner
<1> QED  BY <1>2 DEF Apart

\* What the scan looks at next is an entry of a connection.
LEMMA ScanAt ==
  ASSUME TablesInv, spc = "scan", Pending # {}
  PROVE  /\ At \in Pending /\ At \in Nat /\ i <= At
         /\ Owner(Fd) \in Clients /\ Connected(Owner(Fd)) /\ Fd = sfd[Owner(Fd)]
         /\ loop = "poll" => At \in 1 .. numfd - 1 /\ Fd = pollfd[At].fd
         /\ loop = "select" => At \in Entries /\ At <= maxi /\ Fd = client[At].fd /\ client[At].uid = Owner(Fd)
<1> USE DEF TablesInv
<1>1. Types /\ Apart /\ i \in Nat /\ Size(client) \in Nat
  BY DEF Types, IsTable
<1>2. Pending \in SUBSET Nat
  BY <1>1 DEF Pending
<1>3. At \in Pending
  BY <1>2, Least DEF At
<1>4. CASE loop = "poll"
  <2>1. At \in i .. numfd - 1 /\ Fd = pollfd[At].fd
    BY <1>3, <1>4 DEF Pending, Fd
  <2>2. i >= 1 /\ numfd \in Nat
    BY <1>1, <1>4 DEF Polled, Types, IsTable
  <2>3. At \in 1 .. numfd - 1
    BY <1>1, <2>1, <2>2
  <2>4. PICK c \in Clients : Connected(c) /\ pollfd[At].fd = sfd[c]
    BY <1>4, <2>3 DEF Polled
  <2>5. Owner(Fd) = c
    BY <2>1, <2>4, <1>1, OwnerOf
  <2> QED  BY <1>1, <1>3, <1>4, <2>1, <2>3, <2>4, <2>5
<1>5. CASE loop = "select"
  <2>1. At \in i .. maxi /\ client[At].fd \in rset /\ Fd = client[At].fd
    BY <1>3, <1>5 DEF Pending, Fd
  <2>2. At \in DOMAIN client /\ At <= maxi /\ rset \subseteq Nat
    BY <1>1, <2>1 DEF Types, IsTable
  <2>3. At \in Entries
    BY <2>1, <2>2 DEF Entries
  <2>4. client[At].uid \in Clients /\ sfd[client[At].uid] = client[At].fd
    BY <1>5, <2>3 DEF Entered
  <2>5. Owner(Fd) = client[At].uid /\ Connected(client[At].uid)
    <3>1. Connected(client[At].uid)
      BY <2>3, <2>4 DEF Entries, Connected
    <3> QED  BY <1>1, <2>1, <2>4, <3>1, OwnerOf
  <2> QED  BY <1>1, <1>3, <1>5, <2>1, <2>2, <2>3, <2>4, <2>5
<1> QED  BY <1>1, <1>4, <1>5 DEF Types

\* Steps of the clients: a new one enters the backlog, the rest leave the server alone.
LEMMA ClientTables ==
  ASSUME TablesInv, NEW c \in Clients, cli_conn(c) \/ csopen(c) \/ recv_fd(c) \/ RecvEof(c) \/ Leave(c)
  PROVE  TablesInv'
<1> USE DEF TablesInv, tables, server, net, streams
<1>1. CASE cli_conn(c) /\ Up
  <2>1. /\ UNCHANGED <<loop, client, pollfd, numfd, allset, rset, maxi, spc, i, sfd>>
        /\ cpc[c] = "new" /\ backlog' = Append(backlog, c) /\ backlog \in Seq(Clients)
        /\ \A d \in Clients : cpc'[d] = "new" => cpc[d] = "new" /\ d # c
        /\ cpc' \in [Clients -> {"new", "idle", "recv", "gone", "dumped"}]
    BY <1>1 DEF cli_conn, Types
  <2>2. /\ backlog' \in Seq(Clients) /\ backlog' # << >>
        /\ DOMAIN backlog = 1 .. Len(backlog) /\ DOMAIN backlog' = 1 .. Len(backlog) + 1 /\ Len(backlog) \in Nat
        /\ \A n \in DOMAIN backlog : backlog'[n] = backlog[n] /\ backlog'[Len(backlog) + 1] = c
        /\ backlog'[Len(backlog) + 1] = c
    BY <2>1, AppendProperties
  <2>3. Types' /\ Apart' /\ Entered' /\ Polled' /\ Selected'
    BY <2>1, <2>2 DEF Types, Apart, Entered, Entries, Polled, Selected, Connected
  <2>4. Waiting' = Waiting \cup {c}
    BY <2>2 DEF Waiting
  <2>5. c \notin Waiting /\ ~Connected(c)
    BY <2>1 DEF AcceptedOnce
  <2>6. \A m, n \in DOMAIN backlog' : backlog'[m] = backlog'[n] => m = n
    BY <2>2, <2>5 DEF AcceptedOnce, Waiting
  <2>7. AcceptedOnce'
    BY <2>1, <2>2, <2>4, <2>5, <2>6 DEF AcceptedOnce, Connected
  <2> QED  BY <2>3, <2>7
<1>2. CASE ~(cli_conn(c) /\ Up)
  <2>1. /\ UNCHANGED <<loop, client, pollfd, numfd, allset, rset, maxi, spc, i, sfd, backlog>>
    BY <1>2 DEF cli_conn, csopen, recv_fd, RecvEof, Leave
  <2>2. \E to \in {"idle", "recv", "gone", "dumped"} : cpc' = [cpc EXCEPT ![c] = to] \/ cpc' = cpc
    BY <1>2 DEF cli_conn, csopen, recv_fd, RecvEof, Leave
  <2>3. /\ \A d \in Clients : cpc'[d] = "new" => cpc[d] = "new"
        /\ cpc' \in [Clients -> {"new", "idle", "recv", "gone", "dumped"}]
    BY <2>2 DEF Types
  <2>4. Types' /\ Apart' /\ Entered'
    BY <2>1, <2>3 DEF Types, Apart, Entered, Entries, Connected
  <2>5. AcceptedOnce'
    BY <2>1, <2>3 DEF AcceptedOnce, Connected, Waiting
  <2>6. Polled' /\ Selected'
    BY <2>1 DEF Entries, Polled, Selected, Connected
  <2> QED  BY <2>4, <2>5, <2>6
<1> QED  BY <1>1, <1>2

\* poll and select report, and the scan ends: only events and ready sets change.
LEMMA WaitTables ==
  ASSUME TablesInv, Poll \/ Select \/ ScanDone
  PROVE  TablesInv'
<1> USE DEF TablesInv, tables, server, net, streams, clients
<1>1. /\ UNCHANGED <<loop, client, numfd, allset, maxi, sfd, backlog, cpc>>
      /\ i' \in Nat /\ spc' \in {"wait", "accept", "scan"}
  BY DEF Poll, Select, ScanDone
<1>2. /\ DOMAIN pollfd' = DOMAIN pollfd
      /\ \A k \in DOMAIN pollfd : pollfd'[k].fd = pollfd[k].fd
      /\ \A k \in DOMAIN pollfd : pollfd'[k] \in [fd : Nat \cup {-1}, revents : SUBSET {"in", "hup"}]
  <2>1. ASSUME NEW re, pollfd' = [k \in DOMAIN pollfd |-> [pollfd[k] EXCEPT !.revents = re[k]]],
               \A k \in DOMAIN pollfd : re[k] \in SUBSET {"in", "hup"}
        PROVE  <1>2
    BY <2>1 DEF Types
  <2>2. CASE pollfd' = pollfd
    BY <2>2 DEF Types
  <2>3. CASE Poll
    <3> DEFINE re == [k \in DOMAIN pollfd |-> IF k = 0 THEN IF backlog # << >> THEN {"in"} ELSE {}
                      ELSE IF k < numfd THEN Revents(Owner(pollfd[k].fd)) ELSE {}]
    <3>1. \A k \in DOMAIN pollfd : re[k] \in SUBSET {"in", "hup"}
      BY DEF Revents
    <3>2. pollfd' = [k \in DOMAIN pollfd |-> [pollfd[k] EXCEPT !.revents = re[k]]]
      BY <2>3 DEF Poll
    <3> HIDE DEF re
    <3> QED  BY <2>1, <3>1, <3>2
  <2>4. CASE ScanDone
    <3> DEFINE re == [k \in DOMAIN pollfd |-> {}]
    <3>1. \A k \in DOMAIN pollfd : re[k] \in SUBSET {"in", "hup"}
      OBVIOUS
    <3>2. pollfd' = [k \in DOMAIN pollfd |-> [pollfd[k] EXCEPT !.revents = re[k]]]
      BY <2>4 DEF ScanDone, NoEvents
    <3> HIDE DEF re
    <3> QED  BY <2>1, <3>1, <3>2
  <2> QED  BY <2>2, <2>3, <2>4 DEF Select
<1>3. IsTable(pollfd') /\ Size(pollfd') = Size(pollfd)
  BY <1>2 DEF Types, IsTable, Size
<1>4. rset' \subseteq Nat /\ (spc' = "scan" /\ loop = "select" => listenfd \notin rset')
  <2>1. CASE Poll
    BY <2>1 DEF Poll, Types
  <2>2. CASE Select
    BY <2>2 DEF Select, Types
  <2>3. CASE ScanDone
    BY <2>3 DEF ScanDone
  <2> QED  BY <2>1, <2>2, <2>3
<1>5. spc' \in {"accept", "scan"} => (spc' = "accept" /\ backlog # << >>) \/ spc' = "scan"
  BY DEF Poll, Select, ScanDone, listenfd
<1>6. loop = "poll" /\ spc' \in {"accept", "scan"} => i' >= 1
  BY DEF Poll, Select, ScanDone
<1>7. Types'
  BY <1>1, <1>2, <1>3, <1>4 DEF Types, Spcs
<1>8. Apart' /\ AcceptedOnce' /\ Entered'
  BY <1>1, <1>5 DEF Apart, AcceptedOnce, Entered, Entries, Connected, Waiting
<1>9. 1 .. numfd - 1 \subseteq DOMAIN pollfd
  BY DEF Types, IsTable
<1>10. Polled'
  BY <1>1, <1>2, <1>6, <1>9 DEF Polled, Connected
<1>11. Selected'
  BY <1>1, <1>4 DEF Selected, Entries, Connected
<1> QED  BY <1>7, <1>8, <1>10, <1>11

\* Requests are read and answered, or serv_accept refuses: the tables stay.
LEMMA RequestTables ==
  ASSUME TablesInv, Read \/ SendFd \/ SendText \/ SendStatus \/ AcceptStale \/ Ended
  PROVE  TablesInv'
<1> USE DEF TablesInv, tables, server, net, streams, clients
<1>1. /\ UNCHANGED <<loop, client, pollfd, numfd, allset, rset, maxi, sfd, backlog, cpc>>
      /\ spc' \in {"scan", "request", "status", "down"} \/ spc' = spc
      /\ spc' \in {"scan", "request", "status"} => spc \in {"scan", "request", "status"}
      /\ i' \in Nat /\ i' >= i
  <2>1. CASE Read
    BY <2>1, ScanAt DEF Read
  <2>2. CASE SendFd \/ SendStatus \/ SendText \/ AcceptStale \/ Ended
    BY <2>2 DEF SendFd, SendStatus, SendText, Write, AcceptStale, Ended, vars, Types
  <2> QED  BY <2>1, <2>2
<1>2. Types'
  BY <1>1 DEF Types, Spcs
<1>3. Apart' /\ AcceptedOnce' /\ Entered'
  BY <1>1 DEF Apart, AcceptedOnce, Entered, Entries, Connected, Waiting
<1>4. Polled' /\ Selected'
  BY <1>1 DEF Polled, Selected, Entries, Connected, Types
<1> QED  BY <1>2, <1>3, <1>4

\* serv_accept gives the first in the backlog a descriptor nobody has, and both
\* tables an entry for it.
LEMMA AcceptTables ==
  ASSUME TablesInv, Accept
  PROVE  TablesInv'
<1> USE DEF TablesInv, tables, server, net, streams, clients
<1>1. PICK fd \in Nat \ {0} : /\ fd = Min((1 .. Cardinality(Clients) + 1) \ {sfd[c] : c \in Clients})
                              /\ \A c \in Clients : sfd[c] # fd
  BY FreeDescriptor
<1> PICK h : h = Head(backlog)
  OBVIOUS
<1>2. /\ ListenPoll(fd) \/ ListenSelect(fd)
      /\ sfd' = [sfd EXCEPT ![h] = fd] /\ backlog' = Tail(backlog) /\ rset' = {}
      /\ UNCHANGED <<loop, i, cpc>> /\ spc = "accept" /\ backlog # << >>
  BY <1>1 DEF Accept, AcceptedOnce
<1>3. /\ h \in Clients /\ h \in Waiting /\ ~Connected(h)
      /\ Waiting' \subseteq Waiting \ {h}
      /\ backlog' \in Seq(Clients)
      /\ \A m, n \in DOMAIN backlog' : backlog'[m] = backlog'[n] => m = n
  <2>1. /\ h = backlog[1] /\ backlog' \in Seq(Clients) /\ h \in Clients
        /\ DOMAIN backlog = 1 .. Len(backlog) /\ Len(backlog) \in Nat \ {0}
        /\ DOMAIN backlog' = 1 .. Len(backlog) - 1
        /\ \A n \in DOMAIN backlog' : backlog'[n] = backlog[n + 1]
    BY <1>2, HeadTailProperties DEF Types
  <2>2. \A n \in DOMAIN backlog' : n + 1 \in DOMAIN backlog /\ n + 1 # 1 /\ n \in Nat
    BY <2>1
  <2>3. \A m, n \in DOMAIN backlog' : backlog'[m] = backlog'[n] => m = n
    <3> SUFFICES ASSUME NEW m \in DOMAIN backlog', NEW n \in DOMAIN backlog', backlog'[m] = backlog'[n]
                 PROVE  m = n
      OBVIOUS
    <3>1. m + 1 = n + 1
      BY <2>1, <2>2 DEF AcceptedOnce
    <3> QED  BY <2>2, <3>1
  <2>4. h \in Waiting
    BY <2>1 DEF Waiting
  <2>5. \A n \in DOMAIN backlog' : backlog'[n] \in Waiting /\ backlog'[n] # h
    BY <2>1, <2>2 DEF Waiting, AcceptedOnce
  <2> QED  BY <2>1, <2>3, <2>4, <2>5 DEF Waiting, AcceptedOnce
<1>4. /\ sfd'[h] = fd /\ fd # -1 /\ Connected(h)'
      /\ \A c \in Clients \ {h} : sfd'[c] = sfd[c]
      /\ sfd' \in [Clients -> Nat \cup {-1}]
  <2>1. sfd \in [Clients -> Nat \cup {-1}] /\ fd # -1 /\ fd \in Nat \cup {-1}
    BY <1>1 DEF Types
  <2> QED  BY <2>1, <1>2, <1>3 DEF Connected
<1>5. Apart'
  BY <1>1, <1>4 DEF Apart, Connected, listenfd
<1>6. spc' \in {"scan", "wait"}
  BY <1>2 DEF ListenPoll, ListenSelect
<1>7. AcceptedOnce'
  BY <1>2, <1>3, <1>4, <1>6 DEF AcceptedOnce, Connected
<1>8. PICK k \in 0 .. Cardinality(DOMAIN client) : client_add(fd, h, k) /\ (loop = "select" => maxi' = Max({k, maxi}))
  BY <1>2 DEF ListenPoll, ListenSelect
<1>9. /\ k \in Nat /\ IsTable(client') /\ Size(client) <= Size(client') /\ k \in DOMAIN client'
      /\ DOMAIN client \subseteq DOMAIN client'
      /\ \A j \in DOMAIN client' : client'[j] = IF j = k THEN [fd |-> fd, uid |-> h]
                                                ELSE IF j \in DOMAIN client THEN client[j] ELSE Free
      /\ k \in DOMAIN client => client[k].fd = -1
  BY <1>8, Added
<1>10. /\ Entries' = Entries \cup {k} /\ k \notin Entries
       /\ client'[k].fd = fd /\ client'[k].uid = h
       /\ \A j \in Entries : client'[j] = client[j]
  BY <1>1, <1>9 DEF Entries, Free
<1>11. \A j \in DOMAIN client' : client'[j] \in [fd : Nat \cup {-1}, uid : Clients \cup {None}]
  BY <1>1, <1>3, <1>9 DEF Types, Free
<1>12. Entered'
  <2>1. 0 \in DOMAIN client /\ (loop = "poll" => 0 \in Entries)
    BY DEF Types, IsTable, Entered, Entries, listenfd
  <2>2. loop' = "poll" => client'[0].fd = listenfd
    BY <1>2, <1>10, <2>1 DEF Entered
  <2>3. ASSUME NEW j \in Entries' PROVE \/ loop' = "poll" /\ j = 0
                                        \/ client'[j].uid \in Clients /\ sfd'[client'[j].uid] = client'[j].fd
    <3>1. CASE j = k
      BY <1>3, <1>4, <1>10, <3>1
    <3>2. CASE j \in Entries /\ j # k
      <4>1. (loop = "poll" /\ j = 0) \/ (client[j].uid \in Clients /\ sfd[client[j].uid] = client[j].fd)
        BY <3>2 DEF Entered
      <4>2. client[j].fd # -1
        BY <3>2 DEF Entries
      <4>3. client[j].uid \in Clients /\ sfd[client[j].uid] = client[j].fd => client[j].uid # h
        BY <1>3, <4>2 DEF Connected
      <4> QED  BY <1>2, <1>4, <1>10, <3>2, <4>1, <4>3
    <3> QED  BY <1>10, <2>3, <3>1, <3>2
  <2>4. \A j \in Entries : client[j].fd # fd
    BY <1>1, <2>1 DEF Entered, listenfd
  <2>5. \A j, l \in Entries' : client'[j].fd = client'[l].fd => j = l
    BY <1>10, <2>4 DEF Entered
  <2>6. \A c \in Clients : Connected(c)' => \E j \in Entries' : client'[j].fd = sfd'[c]
    BY <1>4, <1>10 DEF Entered, Connected
  <2> QED  BY <2>2, <2>3, <2>5, <2>6 DEF Entered
<1>13. CASE ListenPoll(fd)
  <2> DEFINE n == Size(pollfd)
             g == Grown(pollfd, [fd |-> -1, revents |-> {}])
             b == IF numfd = n THEN g ELSE pollfd
             e == [fd |-> fd, revents |-> {}]
  <2>1. /\ loop = "poll" /\ numfd' = numfd + 1 /\ spc' = "scan" /\ UNCHANGED <<allset, maxi>>
        /\ pollfd' = [b EXCEPT ![numfd] = e]
    BY <1>13 DEF ListenPoll, Size
  <2>2. IsTable(pollfd) /\ n \in Nat \ {0} /\ DOMAIN pollfd = 0 .. n - 1 /\ numfd \in 1 .. n /\ NALLOC \in Nat \ {0}
    BY ConstantsTyped DEF Types, IsTable
  <2>3. /\ IsTable(b) /\ Size(b) \in Nat /\ n <= Size(b) /\ numfd < Size(b)
        /\ \A j \in 0 .. numfd - 1 : b[j] = pollfd[j]
        /\ \A j \in DOMAIN b : b[j] \in [fd : Nat \cup {-1}, revents : SUBSET {"in", "hup"}]
    <3>1. CASE numfd = n
      <4>1. /\ IsTable(g) /\ Size(g) = n + NALLOC
            /\ \A j \in 0 .. n + NALLOC - 1 : g[j] = IF j < n THEN pollfd[j] ELSE [fd |-> -1, revents |-> {}]
        BY <2>2, GrownTable
      <4>2. [fd |-> -1, revents |-> {}] \in [fd : Nat \cup {-1}, revents : SUBSET {"in", "hup"}]
        OBVIOUS
      <4>3. b = g
        BY <3>1
      <4> HIDE DEF g, b, n
      <4>4. DOMAIN g = 0 .. n + NALLOC - 1
        <5>1. DOMAIN g = 0 .. Size(g) - 1 /\ Size(g) - 1 = n + NALLOC - 1
          BY <2>2, <4>1 DEF IsTable
        <5> QED  BY <5>1
      <4>5. \A j \in DOMAIN g : g[j] \in [fd : Nat \cup {-1}, revents : SUBSET {"in", "hup"}]
        BY <2>2, <4>1, <4>2, <4>4 DEF Types
      <4> QED  BY <2>2, <3>1, <4>1, <4>3, <4>5
    <3>2. CASE numfd # n
      BY <2>2, <3>2 DEF Types
    <3> QED  BY <3>1, <3>2
  <2> HIDE DEF b, n, g
  <2>4. IsTable(pollfd') /\ Size(pollfd') = Size(b) /\ DOMAIN pollfd' = DOMAIN b /\ numfd \in DOMAIN b
    <3>1. IsTable(pollfd') /\ Size(pollfd') = Size(b) /\ DOMAIN pollfd' = DOMAIN b
      BY <2>1, <2>3, SetTable
    <3> QED  BY <2>2, <2>3, <3>1 DEF IsTable
  <2>5. /\ pollfd'[numfd] = e
        /\ \A j \in 0 .. numfd - 1 : pollfd'[j] = pollfd[j]
        /\ \A j \in DOMAIN pollfd' : pollfd'[j] \in [fd : Nat \cup {-1}, revents : SUBSET {"in", "hup"}]
    <3>1. e \in [fd : Nat \cup {-1}, revents : SUBSET {"in", "hup"}]
      BY <1>1
    <3> HIDE DEF e
    <3>2. \A j \in DOMAIN b : pollfd'[j] = IF j = numfd THEN e ELSE b[j]
      BY <2>1
    <3>3. \A j \in 0 .. numfd - 1 : j \in DOMAIN b /\ j # numfd
      <4>1. DOMAIN b = 0 .. Size(b) - 1
        BY <2>3 DEF IsTable
      <4> QED  BY <4>1, <2>2, <2>3
    <3> QED  BY <2>3, <2>4, <3>1, <3>2, <3>3
  <2>6. Types'
    <3>1. numfd' \in 1 .. Size(pollfd')
      BY <2>1, <2>2, <2>3, <2>4
    <3>2. maxi' \in -1 .. Size(client') - 1
      <4>1. Size(client) <= Size(client') /\ Size(client) \in Nat /\ Size(client') \in Nat
        BY <1>9 DEF Types, IsTable
      <4>2. maxi' = maxi /\ maxi \in -1 .. Size(client) - 1
        BY <2>1 DEF Types
      <4> QED  BY <4>1, <4>2
    <3> QED  BY <1>2, <1>3, <1>4, <1>9, <1>11, <2>1, <2>4, <2>5, <3>1, <3>2 DEF Types, Spcs
  <2>7. Polled'
    <3>1. numfd' - 1 = numfd /\ numfd \in Nat \ {0}
      BY <2>1, <2>2
    <3>2. \A j \in 1 .. numfd - 1 : pollfd'[j] = pollfd[j] /\ pollfd[j].fd # fd
      <4>1. ASSUME NEW j \in 1 .. numfd - 1 PROVE pollfd[j].fd # fd
        <5>1. PICK c \in Clients : pollfd[j].fd = sfd[c]
          BY <2>1 DEF Polled
        <5> QED  BY <1>1, <5>1
      <4>2. 1 .. numfd - 1 \subseteq 0 .. numfd - 1
        BY <3>1
      <4> QED  BY <2>5, <4>1, <4>2
    <3>3. pollfd'[numfd].fd = fd /\ 1 .. numfd = (1 .. numfd - 1) \cup {numfd}
      BY <2>5, <3>1
    <3>4. ASSUME NEW j \in 1 .. numfd PROVE \E c \in Clients : Connected(c)' /\ pollfd'[j].fd = sfd'[c]
      <4>1. CASE j = numfd
        BY <1>3, <1>4, <3>3, <4>1
      <4>2. CASE j \in 1 .. numfd - 1
        <5>1. PICK c \in Clients : Connected(c) /\ pollfd[j].fd = sfd[c]
          BY <2>1, <4>2 DEF Polled
        <5>2. sfd'[c] = sfd[c] /\ Connected(c)'
          BY <1>3, <1>4, <5>1 DEF Connected
        <5> QED  BY <3>2, <4>2, <5>1, <5>2
      <4> QED  BY <3>3, <4>1, <4>2
    <3>5. \A j, l \in 1 .. numfd : pollfd'[j].fd = pollfd'[l].fd => j = l
      BY <2>1, <3>2, <3>3 DEF Polled
    <3>6. \A c \in Clients : Connected(c)' => \E j \in 1 .. numfd : pollfd'[j].fd = sfd'[c]
      BY <1>4, <2>1, <3>2, <3>3 DEF Polled, Connected
    <3> QED  BY <1>2, <2>1, <3>1, <3>4, <3>5, <3>6 DEF Polled
  <2>8. Selected'
    BY <1>2, <2>1 DEF Selected
  <2> QED  BY <1>5, <1>7, <1>12, <2>6, <2>7, <2>8
<1>14. CASE ListenSelect(fd)
  <2>1. /\ loop = "select" /\ allset' = allset \cup {fd} /\ spc' = "wait" /\ UNCHANGED <<pollfd, numfd>>
        /\ maxi' = Max({k, maxi})
    BY <1>8, <1>14 DEF ListenSelect
  <2>2. maxi \in Int /\ maxi < Size(client) /\ maxi >= -1 /\ Size(client') \in Nat /\ k < Size(client')
    BY <1>9 DEF Types, IsTable
  <2>3. maxi' \in {k, maxi} /\ k <= maxi' /\ maxi <= maxi'
    <3>1. \E x \in {k, maxi} : \A y \in {k, maxi} : x >= y
      BY <1>9, <2>2
    <3>2. Max({k, maxi}) \in {k, maxi} /\ \A y \in {k, maxi} : Max({k, maxi}) >= y
      BY <3>1 DEF Max
    <3> QED  BY <1>9, <2>1, <2>2, <3>2
  <2>4. Types'
    <3>1. allset' \subseteq Nat
      BY <1>1, <2>1 DEF Types
    <3>2. maxi' \in -1 .. Size(client') - 1
      <4>1. Size(client) <= Size(client') /\ Size(client) \in Nat
        BY <1>9 DEF Types, IsTable
      <4> QED  BY <1>9, <2>2, <2>3, <4>1
    <3> QED  BY <1>2, <1>3, <1>4, <1>9, <1>11, <2>1, <3>1, <3>2 DEF Types, Spcs
  <2>5. Polled'
    BY <1>2, <2>1 DEF Polled
  <2>6. Selected'
    <3>1. allset' = {sfd'[c] : c \in {d \in Clients : Connected(d)'}} \cup {listenfd}
      <4>1. ASSUME NEW c \in Clients PROVE Connected(c)' <=> Connected(c) \/ c = h
        <5>1. CASE c = h
          BY <1>4, <5>1
        <5>2. CASE c # h
          BY <1>4, <5>2 DEF Connected
        <5> QED  BY <5>1, <5>2
      <4>2. {sfd'[c] : c \in {d \in Clients : Connected(d)'}} = {sfd[c] : c \in {d \in Clients : Connected(d)}} \cup {fd}
        BY <1>3, <1>4, <4>1
      <4> QED  BY <2>1, <4>2 DEF Selected
    <3>2. \A j \in Entries' : j <= maxi'
      <4>1. \A j \in Entries : j <= maxi /\ j \in Int
        BY <2>1 DEF Selected, Entries, Types, IsTable
      <4> QED  BY <1>10, <2>2, <2>3, <4>1, <1>9
    <3> QED  BY <2>1, <3>1, <3>2 DEF Selected
  <2> QED  BY <1>5, <1>7, <1>12, <2>4, <2>5, <2>6
<1> QED  BY <1>2, <1>13, <1>14

\* client_del always finds the entry, so it never ends the server, and frees it.
LEMMA Deleted ==
  ASSUME TablesInv, NEW c \in Clients, Connected(c), client_del(sfd[c])
  PROVE  /\ spc' = "scan" /\ IsTable(client') /\ Size(client') = Size(client) /\ DOMAIN client' = DOMAIN client
         /\ \A j \in DOMAIN client : client'[j] \in [fd : Nat \cup {-1}, uid : Clients \cup {None}]
         /\ \E k \in Entries : /\ client[k].fd = sfd[c] /\ client'[k].fd = -1
                               /\ \A j \in DOMAIN client \ {k} : client'[j] = client[j]
<1> USE DEF TablesInv
<1>1. PICK k \in Entries : client[k].fd = sfd[c]
  BY DEF Entered
<1>2. sfd[c] # -1 /\ k \in DOMAIN client
  BY DEF Connected, Entries
<1>3. Indices(sfd[c]) = {k}
  <2>1. \A j \in DOMAIN client : client[j].fd = sfd[c] => j \in Entries
    BY <1>2 DEF Entries
  <2>2. \A j \in Indices(sfd[c]) : j = k
    BY <1>1, <2>1 DEF Indices, Entered
  <2> QED  BY <1>1, <1>2, <2>2 DEF Indices
<1>4. Min({k}) = k
  <2>1. k \in Nat
    BY <1>2 DEF Types, IsTable
  <2>2. {k} \in SUBSET Nat /\ {k} # {}
    BY <2>1
  <2>3. Min({k}) \in {k}
    BY <2>2, Least
  <2> QED  BY <2>3
<1>5. client' = [client EXCEPT ![k].fd = -1] /\ spc' = "scan"
  <2>1. client' = [client EXCEPT ![Min({k})].fd = -1] /\ spc' = "scan"
    BY <1>3 DEF client_del
  <2> QED  BY <1>4, <2>1
<1>6. \A j \in DOMAIN client : client'[j] = IF j = k THEN [client[j] EXCEPT !.fd = -1] ELSE client[j]
  BY <1>5
<1>7. DOMAIN client' = DOMAIN client /\ IsTable(client)
  BY <1>5 DEF Types
<1>8. client[k] \in [fd : Nat \cup {-1}, uid : Clients \cup {None}]
  BY <1>2 DEF Types
<1>9. client'[k].fd = -1 /\ client'[k] \in [fd : Nat \cup {-1}, uid : Clients \cup {None}]
  BY <1>2, <1>6, <1>8
<1>10. \A j \in DOMAIN client : client'[j] \in [fd : Nat \cup {-1}, uid : Clients \cup {None}]
  BY <1>6, <1>9 DEF Types
<1> QED  BY <1>1, <1>2, <1>5, <1>6, <1>7, <1>9, <1>10 DEF IsTable, Size

\* A connection that hung up leaves both tables; the last entry of the poll array
\* takes its place there.
LEMMA HangUpTables ==
  ASSUME TablesInv, HangUp
  PROVE  TablesInv'
<1> USE DEF TablesInv, tables, server, net, streams, clients
<1>0. spc = "scan" /\ Pending # {} /\ UNCHANGED <<loop, rset, maxi, backlog, cpc>>
  BY DEF HangUp
<1>1. CASE spc' = "down" /\ UNCHANGED <<client, pollfd, numfd, allset, sfd, i>>
  <2>1. Types' /\ Apart' /\ AcceptedOnce' /\ Entered'
    BY <1>0, <1>1 DEF Types, Spcs, Apart, AcceptedOnce, Entered, Entries, Connected, Waiting
  <2>2. Polled' /\ Selected'
    BY <1>0, <1>1 DEF Polled, Selected, Entries, Connected
  <2> QED  BY <2>1, <2>2
<1>2. CASE /\ client_del(Fd) /\ sfd' = [sfd EXCEPT ![Owner(Fd)] = -1]
           /\ IF loop = "poll" THEN Pack(At) /\ i' = At /\ UNCHANGED allset
              ELSE allset' = allset \ {Fd} /\ i' = At + 1 /\ UNCHANGED <<pollfd, numfd>>
  <2>1. PICK o \in Clients : o = Owner(Fd) /\ Connected(o) /\ Fd = sfd[o]
    BY <1>0, ScanAt
  <2>2. PICK a \in Nat : /\ a = At /\ i <= a
                         /\ loop = "poll" => a \in 1 .. numfd - 1 /\ pollfd[a].fd = sfd[o]
    BY <1>0, <2>1, ScanAt
  <2>3. /\ client_del(sfd[o]) /\ sfd' = [sfd EXCEPT ![o] = -1] /\ i' \in Nat
        /\ loop = "poll" => Pack(a) /\ i' = a /\ UNCHANGED allset
        /\ loop # "poll" => allset' = allset \ {sfd[o]} /\ UNCHANGED <<pollfd, numfd>>
    BY <1>2, <2>1, <2>2
  <2>4. /\ spc' = "scan" /\ IsTable(client') /\ Size(client') = Size(client) /\ DOMAIN client' = DOMAIN client
        /\ \A j \in DOMAIN client : client'[j] \in [fd : Nat \cup {-1}, uid : Clients \cup {None}]
        /\ \E k \in Entries : /\ client[k].fd = sfd[o] /\ client'[k].fd = -1
                              /\ \A j \in DOMAIN client \ {k} : client'[j] = client[j]
    BY <2>1, <2>3, Deleted
  <2>5. PICK k \in Entries : /\ client[k].fd = sfd[o] /\ client'[k].fd = -1
                             /\ \A j \in DOMAIN client \ {k} : client'[j] = client[j]
    BY <2>4
  <2>6. Entries' = Entries \ {k} /\ \A j \in Entries' : client'[j] = client[j]
    BY <2>4, <2>5 DEF Entries
  <2>7. /\ sfd' \in [Clients -> Nat \cup {-1}]
        /\ sfd'[o] = -1 /\ \A c \in Clients \ {o} : sfd'[c] = sfd[c]
    BY <2>3 DEF Types
  <2>8. /\ \A c \in Clients : Connected(c)' <=> Connected(c) /\ c # o
        /\ \A c \in Clients : Connected(c)' => sfd'[c] = sfd[c] /\ sfd[c] # sfd[o]
    BY <2>1, <2>7 DEF Connected, Apart
  <2>9. Apart'
    <3>1. \A c \in Clients : sfd'[c] # listenfd
      BY <2>7 DEF Apart, listenfd
    <3>2. \A c, d \in Clients : Connected(c)' /\ sfd'[c] = sfd'[d] => c = d
      <4> SUFFICES ASSUME NEW c \in Clients, NEW d \in Clients, Connected(c)', sfd'[c] = sfd'[d] PROVE c = d
        OBVIOUS
      <4>1. Connected(d)'
        BY DEF Connected
      <4> QED  BY <2>8, <4>1 DEF Apart
    <3> QED  BY <3>1, <3>2 DEF Apart
  <2>10. AcceptedOnce'
    <3>1. Waiting' = Waiting
      BY <1>0 DEF Waiting
    <3>2. Waiting \subseteq Clients
      BY DEF Waiting, Types
    <3>3. /\ \A m, n \in DOMAIN backlog' : backlog'[m] = backlog'[n] => m = n
          /\ spc' # "accept"
      BY <1>0, <2>4 DEF AcceptedOnce
    <3>4. \A c \in Waiting' : ~Connected(c)'
      BY <2>8, <3>1, <3>2 DEF AcceptedOnce
    <3>5. \A c \in Clients : cpc'[c] = "new" => ~Connected(c)' /\ c \notin Waiting'
      BY <1>0, <2>8, <3>1 DEF AcceptedOnce
    <3> QED  BY <3>3, <3>4, <3>5 DEF AcceptedOnce
  <2>11. Entered'
    <3>1. loop = "poll" => 0 \in DOMAIN client /\ k # 0
      BY <2>5 DEF Types, IsTable, Entered, Apart
    <3>2. loop' = "poll" => client'[0].fd = listenfd
      BY <1>0, <2>5, <3>1 DEF Entered
    <3>3. ASSUME NEW j \in Entries' PROVE \/ loop' = "poll" /\ j = 0
                                          \/ client'[j].uid \in Clients /\ sfd'[client'[j].uid] = client'[j].fd
      <4>1. j \in Entries /\ j # k /\ client'[j] = client[j] /\ client[j].fd # sfd[o]
        BY <2>5, <2>6, <3>3 DEF Entered
      <4>2. (loop = "poll" /\ j = 0) \/ (client[j].uid \in Clients /\ sfd[client[j].uid] = client[j].fd)
        BY <4>1 DEF Entered
      <4> QED  BY <1>0, <2>7, <4>1, <4>2
    <3>4. \A j, l \in Entries' : client'[j].fd = client'[l].fd => j = l
      BY <2>6 DEF Entered
    <3>5. \A c \in Clients : Connected(c)' => \E j \in Entries' : client'[j].fd = sfd'[c]
      <4> SUFFICES ASSUME NEW c \in Clients, Connected(c)' PROVE \E j \in Entries' : client'[j].fd = sfd'[c]
        OBVIOUS
      <4>1. Connected(c) /\ sfd'[c] = sfd[c] /\ sfd[c] # sfd[o]
        BY <2>8
      <4>2. PICK j \in Entries : client[j].fd = sfd[c]
        BY <4>1 DEF Entered
      <4> QED  BY <2>5, <2>6, <4>1, <4>2
    <3> QED  BY <3>2, <3>3, <3>4, <3>5 DEF Entered
  <2>12. CASE loop = "poll"
    <3> DEFINE e == [fd |-> -1, revents |-> {}]
               n == numfd - 1
               m(j) == IF j = a THEN n ELSE j
    <3>1. /\ n \in Nat /\ numfd \in Nat /\ numfd = n + 1 /\ a \in 1 .. n /\ numfd <= Size(pollfd) /\ Size(pollfd) \in Nat
          /\ DOMAIN pollfd = 0 .. Size(pollfd) - 1 /\ n \in DOMAIN pollfd /\ a \in DOMAIN pollfd
          /\ pollfd[a].fd = sfd[o]
      BY <2>2, <2>12 DEF Types, IsTable
    <3>2. numfd' = n /\ pollfd' = [[pollfd EXCEPT ![a] = pollfd[n]] EXCEPT ![n] = e] /\ UNCHANGED allset
      BY <2>3, <2>12 DEF Pack
    <3>3. /\ IsTable(pollfd') /\ Size(pollfd') = Size(pollfd) /\ DOMAIN pollfd' = DOMAIN pollfd
          /\ \A j \in DOMAIN pollfd : pollfd'[j] = IF j = n THEN e ELSE IF j = a THEN pollfd[n] ELSE pollfd[j]
      BY <3>1, <3>2 DEF Types, IsTable, Size
    <3>4. e \in [fd : Nat \cup {-1}, revents : SUBSET {"in", "hup"}]
      OBVIOUS
    <3> HIDE DEF e
    <3>5. \A j \in DOMAIN pollfd' : pollfd'[j] \in [fd : Nat \cup {-1}, revents : SUBSET {"in", "hup"}]
      BY <3>1, <3>3, <3>4 DEF Types
    <3>6. numfd' \in 1 .. Size(pollfd')
      BY <3>1, <3>2, <3>3
    <3>7. Types'
      BY <1>0, <2>3, <2>4, <2>7, <3>2, <3>3, <3>5, <3>6 DEF Types, Spcs
    <3>8. PICK p \in Nat : p = n
      BY <3>1
    <3>9. /\ p = numfd - 1 /\ numfd' - 1 = p - 1 /\ a \in 1 .. p
          /\ \A j \in 1 .. p - 1 : pollfd'[j] = IF j = a THEN pollfd[p] ELSE pollfd[j]
          /\ p \in 1 .. p /\ 1 .. p - 1 \subseteq 1 .. p /\ p \notin 1 .. p - 1
      BY <3>1, <3>2, <3>3, <3>8
    <3> HIDE DEF n
    <3>10. ASSUME NEW j \in 1 .. p - 1
           PROVE  \E x \in 1 .. p : x # a /\ pollfd'[j].fd = pollfd[x].fd /\ x = IF j = a THEN p ELSE j
      BY <3>9, <3>10
    <3>11. ASSUME NEW x \in 1 .. p, x # a
           PROVE  \E j \in 1 .. p - 1 : pollfd'[j].fd = pollfd[x].fd
      <4>1. CASE x = p
        BY <3>9, <3>11, <4>1
      <4>2. CASE x # p
        <5>1. x \in 1 .. p - 1
          BY <3>8, <4>2
        <5> QED  BY <3>9, <3>11, <5>1
      <4> QED  BY <4>1, <4>2
    <3>12. \A x \in 1 .. p : \E c \in Clients : Connected(c) /\ pollfd[x].fd = sfd[c]
      BY <2>12, <3>9 DEF Polled
    <3>13. \A x, y \in 1 .. p : pollfd[x].fd = pollfd[y].fd => x = y
      BY <2>12, <3>9 DEF Polled
    <3>14. \A c \in Clients : Connected(c) => \E x \in 1 .. p : pollfd[x].fd = sfd[c]
      BY <2>12, <3>9 DEF Polled
    <3>15. ASSUME NEW j \in 1 .. p - 1 PROVE \E c \in Clients : Connected(c)' /\ pollfd'[j].fd = sfd'[c]
      <4>1. PICK x \in 1 .. p : x # a /\ pollfd'[j].fd = pollfd[x].fd
        BY <3>10
      <4>2. PICK c \in Clients : Connected(c) /\ pollfd[x].fd = sfd[c]
        BY <3>12
      <4>3. c # o
        BY <3>1, <3>9, <3>13, <4>1, <4>2
      <4> QED  BY <2>8, <4>1, <4>2, <4>3
    <3>16. ASSUME NEW j \in 1 .. p - 1, NEW l \in 1 .. p - 1, pollfd'[j].fd = pollfd'[l].fd PROVE j = l
      <4>1. PICK x \in 1 .. p : pollfd'[j].fd = pollfd[x].fd /\ x = IF j = a THEN p ELSE j
        BY <3>10
      <4>2. PICK y \in 1 .. p : pollfd'[l].fd = pollfd[y].fd /\ y = IF l = a THEN p ELSE l
        BY <3>10
      <4>3. x = y
        BY <3>13, <3>16, <4>1, <4>2
      <4> QED  BY <3>9, <4>1, <4>2, <4>3
    <3>17. ASSUME NEW c \in Clients, Connected(c)' PROVE \E j \in 1 .. p - 1 : pollfd'[j].fd = sfd'[c]
      <4>1. Connected(c) /\ sfd'[c] = sfd[c] /\ sfd[c] # sfd[o]
        BY <2>8, <3>17
      <4>2. PICK x \in 1 .. p : pollfd[x].fd = sfd[c]
        BY <3>14, <4>1
      <4>3. x # a
        BY <3>1, <4>1, <4>2
      <4> QED  BY <3>11, <4>1, <4>2, <4>3
    <3>18. i' >= 1
      BY <2>3, <2>12, <3>9
    <3>19. Polled'
      BY <3>9, <3>15, <3>16, <3>17, <3>18 DEF Polled
    <3>20. Selected'
      BY <1>0, <2>12 DEF Selected
    <3> QED  BY <2>9, <2>10, <2>11, <3>7, <3>19, <3>20
  <2>13. CASE loop # "poll"
    <3>1. loop = "select" /\ loop' = "select" /\ allset' = allset \ {sfd[o]} /\ UNCHANGED <<pollfd, numfd>>
      BY <1>0, <2>3, <2>13 DEF Types
    <3>2. Types'
      BY <1>0, <2>3, <2>4, <2>7, <3>1 DEF Types, Spcs
    <3>3. Polled'
      BY <3>1 DEF Polled
    <3>4. allset' = {sfd'[c] : c \in {d \in Clients : Connected(d)'}} \cup {listenfd}
      <4>1. allset = {sfd[c] : c \in {d \in Clients : Connected(d)}} \cup {listenfd}
        BY <3>1 DEF Selected
      <4>2. sfd[o] # listenfd
        BY DEF Apart
      <4>3. {sfd'[c] : c \in {d \in Clients : Connected(d)'}} = {sfd[c] : c \in {d \in Clients : Connected(d)}} \ {sfd[o]}
        BY <2>8
      <4> QED  BY <3>1, <4>1, <4>2, <4>3
    <3>5. /\ \A j \in Entries' : j <= maxi'
          /\ spc' \in {"scan", "request", "status"} => listenfd \notin rset'
      BY <1>0, <2>6, <3>1 DEF Selected
    <3>6. Selected'
      BY <3>4, <3>5 DEF Selected
    <3> QED  BY <2>9, <2>10, <2>11, <3>2, <3>3, <3>6
  <2> QED  BY <2>12, <2>13
<1> QED  BY <1>1, <1>2 DEF HangUp

\* The server starts with listenfd only, and without clients.
LEMMA InitTables ==
  ASSUME Init
  PROVE  TablesInv
<1> DEFINE n == NALLOC
<1>1. n \in Nat \ {0} /\ n - 1 \in Nat /\ Cardinality(0 .. n - 1) = n /\ 0 \in 0 .. n - 1
  BY ConstantsTyped, FS_Interval
<1>2. DOMAIN client = 0 .. n - 1 /\ DOMAIN pollfd = 0 .. n - 1
  BY DEF Init
<1>3. IsTable(client) /\ IsTable(pollfd) /\ Size(client) = n /\ Size(pollfd) = n
  BY <1>1, <1>2 DEF IsTable, Size
<1>4. \A k \in 0 .. n - 1 : /\ client[k] = IF k = 0 /\ loop = "poll" THEN [fd |-> listenfd, uid |-> None] ELSE Free
                            /\ pollfd[k] = [fd |-> IF k = 0 THEN listenfd ELSE -1, revents |-> {}]
  BY DEF Init
<1>5. \A k \in 0 .. n - 1 : client[k] \in [fd : Nat \cup {-1}, uid : Clients \cup {None}]
  <2> SUFFICES ASSUME NEW k \in 0 .. n - 1
               PROVE  client[k] \in [fd : Nat \cup {-1}, uid : Clients \cup {None}]
    OBVIOUS
  <2>1. /\ [fd |-> listenfd, uid |-> None] \in [fd : Nat \cup {-1}, uid : Clients \cup {None}]
        /\ Free \in [fd : Nat \cup {-1}, uid : Clients \cup {None}]
    BY DEF Free, listenfd
  <2>2. client[k] = [fd |-> listenfd, uid |-> None] \/ client[k] = Free
    BY <1>4
  <2> QED  BY <2>1, <2>2
<1>6. \A k \in 0 .. n - 1 : pollfd[k] \in [fd : Nat \cup {-1}, revents : SUBSET {"in", "hup"}]
  <2> SUFFICES ASSUME NEW k \in 0 .. n - 1
               PROVE  pollfd[k] \in [fd : Nat \cup {-1}, revents : SUBSET {"in", "hup"}]
    OBVIOUS
  <2>1. /\ [fd |-> listenfd, revents |-> {}] \in [fd : Nat \cup {-1}, revents : SUBSET {"in", "hup"}]
        /\ [fd |-> -1, revents |-> {}] \in [fd : Nat \cup {-1}, revents : SUBSET {"in", "hup"}]
    BY DEF listenfd
  <2>2. pollfd[k] = [fd |-> listenfd, revents |-> {}] \/ pollfd[k] = [fd |-> -1, revents |-> {}]
    BY <1>4
  <2> QED  BY <2>1, <2>2
<1>7. /\ loop \in {"poll", "select"} /\ numfd = 1 /\ maxi = -1 /\ allset = {0} /\ rset = {}
      /\ spc = "wait" /\ i = 0 /\ backlog = << >>
      /\ sfd = [c \in Clients |-> -1] /\ cpc = [c \in Clients |-> "new"]
  BY ConstantsTyped DEF Init, listenfd
<1> HIDE DEF n
<1>8. Types
  <2>1. numfd \in 1 .. Size(pollfd) /\ maxi \in -1 .. Size(client) - 1
    BY <1>1, <1>3, <1>7
  <2>2. backlog \in Seq(Clients)
    BY <1>7
  <2> QED  BY <1>2, <1>3, <1>5, <1>6, <1>7, <2>1, <2>2 DEF Types, Spcs
<1>9. \A c \in Clients : ~Connected(c) /\ sfd[c] = -1
  BY <1>7 DEF Connected
<1>10. Apart
  BY <1>9 DEF Apart, listenfd
<1>11. AcceptedOnce
  <2>1. DOMAIN backlog = {} /\ Waiting = {}
    BY <1>7 DEF Waiting
  <2> QED  BY <1>7, <1>9, <2>1 DEF AcceptedOnce
<1>12. \A k \in Entries : loop = "poll" /\ k = 0
  BY <1>2, <1>4 DEF Entries, Free
<1>13. Entered
  <2>1. loop = "poll" => client[0].fd = listenfd
    <3>1. ASSUME loop = "poll" PROVE client[0] = [fd |-> listenfd, uid |-> None]
      BY <1>1, <1>4, <3>1
    <3> QED  BY <3>1
  <2> QED  BY <1>9, <1>12, <2>1 DEF Entered
<1>14. Polled
  <2>1. 1 .. numfd - 1 = {}
    BY <1>7
  <2> QED  BY <1>7, <1>9, <2>1 DEF Polled
<1>15. Selected
  <2>1. {sfd[c] : c \in {d \in Clients : Connected(d)}} = {}
    BY <1>9
  <2> QED  BY <1>7, <1>12, <2>1 DEF Selected, listenfd
<1> QED  BY <1>8, <1>10, <1>11, <1>13, <1>14, <1>15 DEF TablesInv

\* The tables are kept through every step.
LEMMA TablesStep ==
  ASSUME TablesInv, [Next]_vars
  PROVE  TablesInv'
<1>1. CASE \E c \in Clients : cli_conn(c) \/ csopen(c) \/ recv_fd(c) \/ RecvEof(c) \/ Leave(c)
  BY <1>1, ClientTables
<1>2. CASE Poll \/ Select \/ ScanDone
  BY <1>2, WaitTables
<1>3. CASE Read \/ SendFd \/ SendText \/ SendStatus \/ AcceptStale \/ Ended
  BY <1>3, RequestTables
<1>4. CASE Accept
  BY <1>4, AcceptTables
<1>5. CASE HangUp
  BY <1>5, HangUpTables
<1>6. CASE UNCHANGED vars
  <2> USE DEF vars, tables, server, net, streams, clients
  <2>1. Types' /\ Apart' /\ AcceptedOnce' /\ Entered'
    BY <1>6 DEF TablesInv, Types, Apart, AcceptedOnce, Entered, Entries, Connected, Waiting
  <2>2. Polled' /\ Selected'
    BY <1>6 DEF TablesInv, Polled, Selected, Entries, Connected
  <2> QED  BY <2>1, <2>2 DEF TablesInv
<1> QED  BY <1>1, <1>2, <1>3, <1>4, <1>5, <1>6 DEF Next, Serve

LEMMA TablesKept == Spec => []TablesInv
<1>1. Init => TablesInv
  BY InitTables
<1>2. TablesInv /\ [Next]_vars => TablesInv'
  BY TablesStep
<1> QED  BY <1>1, <1>2, PTL DEF Spec

\* Sets in one-to-one correspondence, one of them finite, have the same size.
LEMMA SameSize ==
  ASSUME NEW S, IsFiniteSet(S), NEW T, NEW f \in [S -> T],
         \A x, y \in S : f[x] = f[y] => x = y, \A t \in T : \E x \in S : f[x] = t
  PROVE  IsFiniteSet(T) /\ Cardinality(T) = Cardinality(S)
<1>1. f \in Bijection(S, T)
  BY DEF Bijection, Injection, Surjection, IsInjective
<1>2. ExistsBijection(S, T)
  BY <1>1 DEF ExistsBijection
<1> QED  BY <1>2, FS_Bijection

\* client[], and the poll array or the set of select, hold the descriptors of
\* exactly the open connections, each once: no connection is without an entry and
\* no entry is left behind, for both event loops (client_alloc, client_add,
\* client_del, and the way loop.c packs its array).
THEOREM EntriesAgree == Spec => []TablesAgree
<1>1. ASSUME TablesInv PROVE TablesAgree
  <2> USE <1>1 DEF TablesInv
  <2>1. IsFiniteSet(Clients) /\ Served \subseteq Clients /\ IsFiniteSet(Served)
    BY ConstantsTyped, FS_Subset DEF Served
  <2>2. \A c \in Clients : c \in Served <=> Connected(c)
    BY DEF Served, Connected
  <2>3. IsFiniteSet(Fds) /\ Cardinality(Fds) = Cardinality(Served)
    <3> DEFINE f == [c \in Served |-> sfd[c]]
    <3>1. f \in [Served -> Fds] /\ \A t \in Fds : \E x \in Served : f[x] = t
      BY DEF Fds
    <3>2. \A x, y \in Served : f[x] = f[y] => x = y
      BY <2>1, <2>2 DEF Apart
    <3> HIDE DEF f
    <3> QED  BY <2>1, <3>1, <3>2, SameSize
  <2>4. InTable = Entries
    BY DEF InTable, Entries
  <2>5. listenfd \notin Fds /\ Fds = {sfd[c] : c \in {d \in Clients : Connected(d)}}
    BY <2>1, <2>2 DEF Apart, Fds, Served, Connected
  <2>6. 0 \in DOMAIN client /\ \A k \in Entries : k \in DOMAIN client /\ client[k].fd # -1
    BY DEF Types, IsTable, Entries
  <2>7. \A k \in Entries : (loop = "poll" /\ k = 0) \/ client[k].fd \in Fds
    <3> SUFFICES ASSUME NEW k \in Entries, ~(loop = "poll" /\ k = 0) PROVE client[k].fd \in Fds
      OBVIOUS
    <3>1. client[k].uid \in Clients /\ sfd[client[k].uid] = client[k].fd
      BY DEF Entered
    <3>2. client[k].uid \in Served
      BY <2>6, <3>1 DEF Served
    <3> QED  BY <3>1, <3>2 DEF Fds
  <2>8. \A d \in Fds : \E k \in Entries : client[k].fd = d
    BY <2>5 DEF Entered
  <2>9. loop = "poll" => 0 \in Entries /\ client[0].fd = listenfd
    BY <2>6 DEF Entered, Entries, listenfd
  <2>10. {client[k].fd : k \in InTable} \ {listenfd} = Fds
    BY <2>4, <2>5, <2>7, <2>8, <2>9
  <2>11. Cardinality(Fds) \in Nat
    BY <2>3, FS_CardinalityType
  <2>12. Cardinality(InTable) = Cardinality(Fds) + (IF loop = "poll" THEN 1 ELSE 0)
    <3> DEFINE T == {client[k].fd : k \in Entries}
               f == [k \in Entries |-> client[k].fd]
    <3>1. T = IF loop = "poll" THEN Fds \cup {listenfd} ELSE Fds
      BY <2>7, <2>8, <2>9
    <3>2. IsFiniteSet(T) /\ Cardinality(T) = Cardinality(Fds) + (IF loop = "poll" THEN 1 ELSE 0)
      <4>1. CASE loop = "poll"
        <5>1. IsFiniteSet(Fds \cup {listenfd}) /\ Cardinality(Fds \cup {listenfd}) = Cardinality(Fds) + 1
          BY <2>3, <2>5, FS_AddElement
        <5> QED  BY <3>1, <4>1, <5>1
      <4>2. CASE loop # "poll"
        BY <2>3, <2>11, <3>1, <4>2
      <4> QED  BY <4>1, <4>2
    <3>3. f \in [Entries -> T] /\ \A t \in T : \E x \in Entries : f[x] = t
      OBVIOUS
    <3>4. \A x, y \in Entries : f[x] = f[y] => x = y
      BY DEF Entered
    <3>5. IsFiniteSet(Entries)
      <4>1. Entries \subseteq 0 .. Size(client) - 1 /\ Size(client) - 1 \in Int /\ 0 \in Int
        BY DEF Types, IsTable, Entries
      <4> QED  BY <4>1, FS_Interval, FS_Subset
    <3> HIDE DEF f, T
    <3>6. Cardinality(T) = Cardinality(Entries)
      BY <3>3, <3>4, <3>5, SameSize
    <3> QED  BY <2>4, <3>2, <3>6
  <2>13. loop = "poll" => numfd = Cardinality(Fds) + 1 /\ {pollfd[k].fd : k \in 1 .. numfd - 1} = Fds
    <3> SUFFICES ASSUME loop = "poll" PROVE numfd = Cardinality(Fds) + 1 /\ {pollfd[k].fd : k \in 1 .. numfd - 1} = Fds
      OBVIOUS
    <3>1. numfd \in Nat /\ numfd - 1 \in Nat
      BY DEF Types, IsTable
    <3> DEFINE S == 1 .. numfd - 1
               T == {pollfd[k].fd : k \in S}
               f == [k \in S |-> pollfd[k].fd]
    <3>2. IsFiniteSet(S) /\ Cardinality(S) = numfd - 1
      BY <3>1, FS_Interval
    <3>3. T = Fds
      BY <2>5 DEF Polled
    <3>4. f \in [S -> T] /\ (\A t \in T : \E x \in S : f[x] = t) /\ \A x, y \in S : f[x] = f[y] => x = y
      BY DEF Polled
    <3> HIDE DEF f, T, S
    <3>5. Cardinality(T) = Cardinality(S)
      BY <3>2, <3>4, SameSize
    <3>6. numfd = Cardinality(Fds) + 1
      BY <3>1, <3>2, <3>3, <3>5
    <3> QED  BY <3>3, <3>6 DEF T, S
  <2>14. loop = "select" => allset = Fds \cup {listenfd} /\ \A k \in InTable : k <= maxi
    BY <2>4, <2>5 DEF Selected
  <2> QED  BY <2>3, <2>10, <2>12, <2>13, <2>14 DEF TablesAgree
<1> QED  BY <1>1, TablesKept, PTL

-----------------------------------------------------------------------------
(* The user ID of a request.                                                *)

\* What a client has sent is its own.
FromClient(c) == [cl : {c}, call : Nat, kind : Kinds, pos : Nat]
Bytes ==
  /\ calls \in [Clients -> Nat]
  /\ DOMAIN c2s = Clients /\ \A c \in Clients : c2s[c] \in Seq(FromClient(c))

\* The scan has still to look at the entry k; an entry that is being served is behind it.
Ahead(k) == IF spc \in {"request", "status"} THEN k > i ELSE k >= i

\* What poll or select reported still holds when the scan comes to it: there are
\* bytes to read, unless the client is gone.  poll has noted that too.
PollReady ==
  loop = "poll" /\ spc \in {"accept", "scan", "request", "status"} =>
    \A k \in 1 .. numfd - 1 : \A c \in Clients :
      Ahead(k) /\ pollfd[k].fd = sfd[c] /\ pollfd[k].revents # {} =>
        c2s[c] # << >> \/ "hup" \in pollfd[k].revents
SelectReady ==
  loop = "select" /\ spc \in {"scan", "request", "status"} =>
    \A k \in Entries :
      Ahead(k) /\ client[k].fd \in rset => c2s[client[k].uid] # << >> \/ Gone(client[k].uid)

ReadyInv == TablesInv /\ Bytes /\ PollReady /\ SelectReady

\* A request is bytes of its client.
LEMMA RequestBytes ==
  ASSUME Bytes, NEW c \in Clients, NEW kind \in Kinds
  PROVE  Request(c, kind) \in Seq(FromClient(c)) /\ Len(Request(c, kind)) > 0
<1> DEFINE m == ReqLen(kind)
           e(n) == [cl |-> c, call |-> calls[c] + 1, kind |-> kind, pos |-> n]
<1>1. m \in Nat \ {0}
  BY ConstantsTyped DEF ReqLen
<1>2. \A n \in 1 .. m : e(n) \in FromClient(c)
  BY <1>1 DEF Bytes, FromClient
<1>3. Request(c, kind) = [n \in 1 .. m |-> e(n)]
  BY DEF Request
<1> HIDE DEF m, e
<1>4. Request(c, kind) \in [1 .. m -> FromClient(c)]
  BY <1>2, <1>3
<1> QED  BY <1>1, <1>4

\* A read takes bytes off the front.
LEMMA RestOf ==
  ASSUME NEW S, NEW s \in Seq(S), NEW n \in Nat, n <= Len(s)
  PROVE  SubSeq(s, n + 1, Len(s)) \in Seq(S) /\ SubSeq(s, 1, n) \in Seq(S) /\ Len(SubSeq(s, 1, n)) = n
BY SubSeqProperties

\* How much a read takes: something, if there is something.
LEMMA ReadSize ==
  ASSUME NEW l \in Nat
  PROVE  /\ Min({l, MAXLINE}) \in Nat /\ Min({l, MAXLINE}) <= l
         /\ l # 0 => Min({l, MAXLINE}) >= 1
         /\ l <= MAXLINE => Min({l, MAXLINE}) = l
<1>1. MAXLINE \in Nat /\ MAXLINE > 2
  BY ConstantsTyped
<1>2. {l, MAXLINE} \in SUBSET Nat /\ {l, MAXLINE} # {}
  BY <1>1
<1>3. Min({l, MAXLINE}) \in {l, MAXLINE} /\ \A y \in {l, MAXLINE} : Min({l, MAXLINE}) <= y
  BY <1>2, Least
<1> QED  BY <1>1, <1>3

\* What is in the streams to the server stays the clients' own: csopen appends to
\* its stream, Read takes off the front of one, no other step touches them.
LEMMA BytesStep ==
  ASSUME ReadyInv, [Next]_vars
  PROVE  Bytes'
<1> USE DEF ReadyInv
<1>1. ASSUME NEW c \in Clients, csopen(c) PROVE Bytes'
  <2>1. calls' = [calls EXCEPT ![c] = @ + 1] /\ calls[c] \in Nat
    BY <1>1 DEF csopen, Bytes
  <2>2. calls' \in [Clients -> Nat]
    BY <2>1 DEF Bytes
  <2>3. CASE c2s' = c2s
    BY <2>2, <2>3 DEF Bytes, FromClient
  <2>4. CASE \E kind \in Menu[c][calls[c] + 1] : c2s' = [c2s EXCEPT ![c] = @ \o Request(c, kind)]
    <3>1. PICK kind \in Menu[c][calls[c] + 1] : c2s' = [c2s EXCEPT ![c] = @ \o Request(c, kind)]
      BY <2>4
    <3>2. kind \in Kinds
      <4>1. Menu[c] \in Seq(SUBSET Kinds) /\ calls[c] + 1 \in 1 .. Len(Menu[c])
        BY <1>1, <2>1, ConstantsTyped DEF csopen
      <4>2. Menu[c][calls[c] + 1] \in SUBSET Kinds
        BY <4>1, ElementOfSeq
      <4> QED  BY <4>2
    <3>3. c2s[c] \o Request(c, kind) \in Seq(FromClient(c))
      BY <3>2, RequestBytes, ConcatProperties DEF Bytes
    <3>4. DOMAIN c2s' = Clients /\ \A d \in Clients : c2s'[d] \in Seq(FromClient(d))
      BY <3>1, <3>3 DEF Bytes
    <3> QED  BY <2>2, <3>4 DEF Bytes, FromClient
  <2> QED  BY <1>1, <2>3, <2>4 DEF csopen
<1>2. CASE Read
  <2> DEFINE o == Owner(Fd)
             n == Min({Len(c2s[o]), MAXLINE})
  <2>1. o \in Clients
    BY <1>2, ScanAt DEF Read
  <2>2. c2s[o] \in Seq(FromClient(o))
    BY <2>1 DEF Bytes
  <2>3. Len(c2s[o]) \in Nat
    BY <2>2, LenProperties
  <2>4. n \in Nat /\ n <= Len(c2s[o])
    BY <2>3, ReadSize
  <2>5. c2s' = [c2s EXCEPT ![o] = SubSeq(c2s[o], n + 1, Len(c2s[o]))]
    BY <1>2 DEF Read
  <2>6. UNCHANGED calls
    BY <1>2 DEF Read, clients
  <2> HIDE DEF o, n
  <2>7. SubSeq(c2s[o], n + 1, Len(c2s[o])) \in Seq(FromClient(o))
    BY <2>2, <2>4, RestOf
  <2>8. DOMAIN c2s' = Clients /\ \A d \in Clients : c2s'[d] \in Seq(FromClient(d))
    BY <2>5, <2>7 DEF Bytes
  <2> QED  BY <2>6, <2>8 DEF Bytes, FromClient
<1>3. CASE UNCHANGED <<c2s, calls>>
  BY <1>3 DEF Bytes, FromClient
<1>4. ASSUME NEW c \in Clients, cli_conn(c) \/ recv_fd(c) \/ RecvEof(c) \/ Leave(c) PROVE UNCHANGED <<c2s, calls>>
  BY <1>4 DEF cli_conn, recv_fd, RecvEof, Leave, net, streams
<1>5. CASE Poll \/ Select \/ Accept \/ ScanDone \/ HangUp
  BY <1>3, <1>5 DEF Poll, Select, Accept, ScanDone, HangUp, net, streams, clients
<1>6. CASE SendFd \/ SendText \/ SendStatus \/ AcceptStale \/ Ended \/ UNCHANGED vars
  BY <1>3, <1>6 DEF SendFd, SendText, SendStatus, AcceptStale, Ended, vars, net, streams, clients
<1> QED  BY <1>1, <1>2, <1>3, <1>4, <1>5, <1>6 DEF Next, Serve

\* Clients only add bytes and leave, so what was reported stays true.
LEMMA ClientReady ==
  ASSUME ReadyInv, NEW c \in Clients, cli_conn(c) \/ csopen(c) \/ recv_fd(c) \/ RecvEof(c) \/ Leave(c)
  PROVE  PollReady' /\ SelectReady'
<1> USE DEF ReadyInv, tables, server, net, streams
<1>1. UNCHANGED <<loop, client, pollfd, numfd, rset, spc, i, sfd>>
  BY DEF cli_conn, csopen, recv_fd, RecvEof, Leave
<1>2. \A d \in Clients : Gone(d) => Gone(d)'
  <2>1. PICK to : cpc' = cpc \/ (~Gone(c) /\ cpc' = [cpc EXCEPT ![c] = to])
    BY DEF cli_conn, csopen, recv_fd, RecvEof, Leave, Gone
  <2>2. \A d \in Clients : d # c \/ cpc' = cpc => cpc'[d] = cpc[d]
    BY <2>1 DEF TablesInv, Types
  <2> QED  BY <2>1, <2>2 DEF Gone
<1>3. \A d \in Clients : c2s[d] # << >> => c2s'[d] # << >>
  <2>1. CASE c2s' = c2s
    BY <2>1
  <2>2. CASE csopen(c) /\ c2s' # c2s
    <3>1. PICK kind \in Menu[c][calls[c] + 1] : c2s' = [c2s EXCEPT ![c] = @ \o Request(c, kind)]
      BY <2>2 DEF csopen
    <3>2. calls[c] \in Nat /\ c2s[c] \in Seq(FromClient(c))
      BY DEF Bytes
    <3>3. kind \in Kinds
      <4>1. Menu[c] \in Seq(SUBSET Kinds) /\ calls[c] + 1 \in 1 .. Len(Menu[c])
        BY <2>2, <3>2, ConstantsTyped DEF csopen
      <4>2. Menu[c][calls[c] + 1] \in SUBSET Kinds
        BY <4>1, ElementOfSeq
      <4> QED  BY <4>2
    <3>4. Request(c, kind) \in Seq(FromClient(c)) /\ Len(Request(c, kind)) > 0
      BY <3>3, RequestBytes
    <3>5. c2s[c] \o Request(c, kind) # << >>
      BY <3>2, <3>4, ConcatProperties, EmptySeq
    <3> QED  BY <3>1, <3>5 DEF Bytes
  <2> QED  BY <2>1, <2>2 DEF cli_conn, recv_fd, RecvEof, Leave
<1>4. \A k : Ahead(k)' <=> Ahead(k)
  BY <1>1 DEF Ahead
<1>5. PollReady'
  BY <1>1, <1>3, <1>4 DEF PollReady
<1>6. SelectReady'
  <2>1. loop = "select" => \A k \in Entries : client[k].uid \in Clients
    BY DEF TablesInv, Entered
  <2> QED  BY <1>1, <1>2, <1>3, <1>4, <2>1 DEF SelectReady, Entries
<1> QED  BY <1>5, <1>6

\* poll and select report what is so.
LEMMA WaitReady ==
  ASSUME ReadyInv, Poll \/ Select \/ ScanDone
  PROVE  PollReady' /\ SelectReady'
<1> USE DEF ReadyInv, TablesInv, tables, server, net, streams, clients
<1>1. CASE ScanDone
  BY <1>1 DEF ScanDone, PollReady, SelectReady
<1>2. CASE Poll
  <2>1. /\ loop' = "poll" /\ UNCHANGED <<numfd, sfd, c2s>> /\ loop = "poll"
        /\ \A k \in DOMAIN pollfd : pollfd'[k] = [pollfd[k] EXCEPT !.revents =
             IF k = 0 THEN IF backlog # << >> THEN {"in"} ELSE {}
             ELSE IF k < numfd THEN Revents(Owner(pollfd[k].fd)) ELSE {}]
    BY <1>2 DEF Poll
  <2>2. SelectReady'
    BY <2>1 DEF SelectReady
  <2>3. ASSUME NEW k \in 1 .. numfd - 1, NEW c \in Clients, pollfd'[k].fd = sfd[c], pollfd'[k].revents # {}
        PROVE  c2s[c] # << >> \/ "hup" \in pollfd'[k].revents
    <3>1. k \in DOMAIN pollfd /\ k # 0 /\ k < numfd
      BY DEF Types, IsTable
    <3>2. pollfd[k] \in [fd : Nat \cup {-1}, revents : SUBSET {"in", "hup"}]
      BY <3>1 DEF Types
    <3>3. pollfd'[k] = [pollfd[k] EXCEPT !.revents = Revents(Owner(pollfd[k].fd))]
      BY <2>1, <3>1
    <3>4. pollfd'[k].fd = pollfd[k].fd /\ pollfd'[k].revents = Revents(Owner(pollfd[k].fd))
      BY <3>2, <3>3
    <3>5. Connected(c)
      BY <2>1, <2>3, <3>4 DEF Polled, Connected
    <3>6. Owner(pollfd[k].fd) = c
      BY <2>3, <3>4, <3>5, OwnerOf
    <3> QED  BY <2>3, <3>4, <3>6 DEF Revents
  <2>4. PollReady'
    BY <2>1, <2>3 DEF PollReady
  <2> QED  BY <2>2, <2>4
<1>3. CASE Select
  <2>1. /\ loop' = "select" /\ UNCHANGED <<client, sfd, c2s, cpc>> /\ loop = "select"
        /\ rset' = {fd \in allset : IF fd = listenfd THEN backlog # << >> ELSE Revents(Owner(fd)) # {}}
    BY <1>3 DEF Select
  <2>2. PollReady'
    BY <2>1 DEF PollReady
  <2>3. ASSUME NEW k \in Entries, client[k].fd \in rset'
        PROVE  c2s[client[k].uid] # << >> \/ Gone(client[k].uid)
    <3>1. client[k].uid \in Clients /\ sfd[client[k].uid] = client[k].fd /\ client[k].fd # -1
      BY <2>1 DEF Entered, Entries
    <3>2. client[k].fd # listenfd /\ Owner(client[k].fd) = client[k].uid
      BY <3>1, OwnerOf DEF Apart, Connected
    <3> QED  BY <2>1, <2>3, <3>2 DEF Revents
  <2>4. SelectReady'
    BY <2>1, <2>3 DEF SelectReady, Entries, Gone
  <2> QED  BY <2>2, <2>4
<1> QED  BY <1>1, <1>2, <1>3

\* serv_accept adds an entry that has nothing to report yet; select waits anew.
LEMMA AcceptReady ==
  ASSUME ReadyInv, Accept
  PROVE  PollReady' /\ SelectReady'
<1> USE DEF ReadyInv, TablesInv, tables, server, net, streams, clients
<1>1. PICK fd \in Nat \ {0} : /\ fd = Min((1 .. Cardinality(Clients) + 1) \ {sfd[c] : c \in Clients})
                              /\ \A c \in Clients : sfd[c] # fd
  BY FreeDescriptor
<1> PICK h : h = Head(backlog)
  OBVIOUS
<1>2. /\ ListenPoll(fd) \/ ListenSelect(fd)
      /\ sfd' = [sfd EXCEPT ![h] = fd] /\ UNCHANGED <<loop, i, c2s>> /\ spc = "accept"
  BY <1>1 DEF Accept
<1>3. CASE ListenSelect(fd)
  BY <1>2, <1>3 DEF ListenSelect, PollReady, SelectReady
<1>4. CASE ListenPoll(fd)
  <2> DEFINE n == Size(pollfd)
             g == Grown(pollfd, [fd |-> -1, revents |-> {}])
             b == IF numfd = n THEN g ELSE pollfd
             e == [fd |-> fd, revents |-> {}]
  <2>1. loop = "poll" /\ loop' = "poll" /\ numfd' = numfd + 1 /\ spc' = "scan" /\ pollfd' = [b EXCEPT ![numfd] = e]
    BY <1>2, <1>4 DEF ListenPoll, Size
  <2>2. IsTable(pollfd) /\ n \in Nat \ {0} /\ DOMAIN pollfd = 0 .. n - 1 /\ numfd \in 1 .. n /\ NALLOC \in Nat \ {0}
    BY ConstantsTyped DEF Types, IsTable
  <2>3. /\ \A j \in 0 .. numfd - 1 : j \in DOMAIN b /\ j # numfd /\ b[j] = pollfd[j]
        /\ numfd \in DOMAIN b
    <3>1. CASE numfd = n
      <4>1. /\ IsTable(g) /\ Size(g) = n + NALLOC
            /\ \A j \in 0 .. n + NALLOC - 1 : g[j] = IF j < n THEN pollfd[j] ELSE [fd |-> -1, revents |-> {}]
        BY <2>2, GrownTable
      <4>2. b = g
        BY <3>1
      <4> HIDE DEF g, b, n
      <4>3. DOMAIN g = 0 .. n + NALLOC - 1
        <5>1. DOMAIN g = 0 .. Size(g) - 1 /\ Size(g) - 1 = n + NALLOC - 1
          BY <2>2, <4>1 DEF IsTable
        <5> QED  BY <5>1
      <4> QED  BY <2>2, <3>1, <4>1, <4>2, <4>3
    <3>2. CASE numfd # n
      BY <2>2, <3>2
    <3> QED  BY <3>1, <3>2
  <2> HIDE DEF b, n, g, e
  <2>4. pollfd'[numfd] = e /\ \A j \in 0 .. numfd - 1 : pollfd'[j] = pollfd[j]
    BY <2>1, <2>3
  <2>5. SelectReady'
    BY <2>1 DEF SelectReady
  <2>6. ASSUME NEW k \in 1 .. numfd' - 1, NEW c \in Clients,
               Ahead(k)', pollfd'[k].fd = sfd'[c], pollfd'[k].revents # {}
        PROVE  c2s'[c] # << >> \/ "hup" \in pollfd'[k].revents
    <3>1. k # numfd
      BY <2>4, <2>6 DEF e
    <3>2. k \in 1 .. numfd - 1 /\ k \in 0 .. numfd - 1
      BY <2>1, <2>2, <3>1
    <3>3. pollfd'[k] = pollfd[k]
      BY <2>4, <3>2
    <3>4. pollfd[k].fd # fd
      <4>1. PICK d \in Clients : pollfd[k].fd = sfd[d]
        BY <2>1, <3>2 DEF Polled
      <4> QED  BY <1>1, <4>1
    <3>5. sfd'[c] = sfd[c]
      BY <1>2, <2>6, <3>3, <3>4 DEF Types
    <3>6. Ahead(k)
      BY <1>2, <2>1, <2>6 DEF Ahead
    <3> QED  BY <1>2, <2>1, <2>6, <3>2, <3>3, <3>5, <3>6 DEF PollReady
  <2>7. PollReady'
    BY <2>6 DEF PollReady
  <2> QED  BY <2>5, <2>7
<1> QED  BY <1>2, <1>3, <1>4

\* The entries that are still ahead after one hung up were ahead before; the last
\* of the poll array may have moved, and the scan looks at the same place again.
LEMMA HangUpReady ==
  ASSUME ReadyInv, HangUp
  PROVE  PollReady' /\ SelectReady'
<1> USE DEF ReadyInv, TablesInv, tables, server, net, streams, clients
<1>0. spc = "scan" /\ Pending # {} /\ UNCHANGED <<loop, rset, c2s, cpc>>
  BY DEF HangUp
<1>1. CASE spc' = "down"
  BY <1>1 DEF PollReady, SelectReady
<1>2. CASE /\ client_del(Fd) /\ sfd' = [sfd EXCEPT ![Owner(Fd)] = -1]
           /\ IF loop = "poll" THEN Pack(At) /\ i' = At /\ UNCHANGED allset
              ELSE allset' = allset \ {Fd} /\ i' = At + 1 /\ UNCHANGED <<pollfd, numfd>>
  <2>1. PICK o \in Clients : o = Owner(Fd) /\ Connected(o) /\ Fd = sfd[o]
    BY <1>0, ScanAt
  <2>2. PICK a \in Nat : /\ a = At /\ i <= a /\ i \in Nat
                         /\ loop = "poll" => a \in 1 .. numfd - 1 /\ pollfd[a].fd = sfd[o]
    BY <1>0, <2>1, ScanAt DEF Types
  <2>3. /\ client_del(sfd[o]) /\ sfd' = [sfd EXCEPT ![o] = -1]
        /\ loop = "poll" => Pack(a) /\ i' = a
        /\ loop # "poll" => i' = a + 1
    BY <1>2, <2>1, <2>2
  <2>4. /\ spc' = "scan" /\ DOMAIN client' = DOMAIN client
        /\ \E k \in Entries : /\ client[k].fd = sfd[o] /\ client'[k].fd = -1
                              /\ \A j \in DOMAIN client \ {k} : client'[j] = client[j]
    BY <2>1, <2>3, Deleted
  <2>5. PICK k \in Entries : /\ client[k].fd = sfd[o] /\ client'[k].fd = -1
                             /\ \A j \in DOMAIN client \ {k} : client'[j] = client[j]
    BY <2>4
  <2>6. \A j \in Entries' : j \in Entries /\ j \in Nat /\ client'[j] = client[j]
    BY <2>4, <2>5 DEF Entries, Types, IsTable
  <2>7. CASE loop = "poll"
    <3>1. SelectReady'
      BY <1>0, <2>7 DEF SelectReady
    <3>2. /\ numfd \in Nat /\ numfd' = numfd - 1 /\ a \in 1 .. numfd - 1
          /\ DOMAIN pollfd = 0 .. Size(pollfd) - 1 /\ numfd <= Size(pollfd) /\ Size(pollfd) \in Nat
          /\ pollfd' = [[pollfd EXCEPT ![a] = pollfd[numfd - 1]] EXCEPT ![numfd - 1] = [fd |-> -1, revents |-> {}]]
      BY <2>2, <2>3, <2>7 DEF Pack, Types, IsTable
    <3>3. ASSUME NEW j \in 1 .. numfd' - 1, NEW c \in Clients,
                 Ahead(j)', pollfd'[j].fd = sfd'[c], pollfd'[j].revents # {}
          PROVE  c2s'[c] # << >> \/ "hup" \in pollfd'[j].revents
      <4>1. j \in 1 .. numfd - 1 /\ j # numfd - 1 /\ j \in DOMAIN pollfd /\ j >= a
        BY <2>3, <2>4, <2>7, <3>2, <3>3 DEF Ahead
      <4>2. PICK x \in 1 .. numfd - 1 : x >= i /\ pollfd'[j] = pollfd[x]
        BY <2>2, <3>2, <4>1
      <4>3. PICK d \in Clients : Connected(d) /\ pollfd[x].fd = sfd[d]
        BY <2>7 DEF Polled
      <4>4. c # o
        BY <2>3, <3>3, <4>2, <4>3 DEF Connected, Types
      <4>5. sfd'[c] = sfd[c]
        BY <2>3, <4>4 DEF Types
      <4>6. Ahead(x)
        BY <1>0, <4>2 DEF Ahead
      <4> QED  BY <1>0, <2>7, <3>3, <4>2, <4>5, <4>6 DEF PollReady
    <3>4. PollReady'
      BY <3>3 DEF PollReady
    <3> QED  BY <3>1, <3>4
  <2>8. CASE loop # "poll"
    <3>1. loop' = "select" /\ loop = "select"
      BY <1>0, <2>8 DEF Types
    <3>2. PollReady'
      BY <3>1 DEF PollReady
    <3>3. ASSUME NEW j \in Entries', Ahead(j)', client'[j].fd \in rset'
          PROVE  (c2s[client[j].uid] # << >> \/ Gone(client[j].uid))'
      <4>1. j >= a + 1 /\ j \in Nat /\ j \in Entries /\ client'[j] = client[j]
        BY <2>3, <2>4, <2>6, <2>8, <3>3 DEF Ahead
      <4>2. Ahead(j)
        BY <1>0, <2>2, <4>1 DEF Ahead
      <4>3. c2s[client[j].uid] # << >> \/ Gone(client[j].uid)
        BY <1>0, <3>1, <3>3, <4>1, <4>2 DEF SelectReady
      <4> QED  BY <1>0, <4>1, <4>3 DEF Gone
    <3>4. SelectReady'
      BY <3>3 DEF SelectReady
    <3> QED  BY <3>2, <3>4
  <2> QED  BY <2>7, <2>8
<1> QED  BY <1>1, <1>2 DEF HangUp

\* What Read takes from the stream: something of the client whose entry the scan is at.
LEMMA ReadBytes ==
  ASSUME ReadyInv, Read
  PROVE  LET o == Owner(Fd) IN
         /\ o \in Clients /\ Connected(o) /\ c2s[o] # << >>
         /\ Min({Len(c2s[o]), MAXLINE}) \in 1 .. Len(c2s[o])
         /\ buf' = SubSeq(c2s[o], 1, Min({Len(c2s[o]), MAXLINE})) /\ buf'[1] = c2s[o][1]
         /\ \A c \in Clients \ {o} : c2s'[c] = c2s[c]
<1> USE DEF ReadyInv, TablesInv
<1> DEFINE o == Owner(Fd)
           s == c2s[o]
           n == Min({Len(s), MAXLINE})
<1>1. /\ spc = "scan" /\ Pending # {} /\ ~HungUp
      /\ buf' = SubSeq(s, 1, n) /\ c2s' = [c2s EXCEPT ![o] = SubSeq(@, n + 1, Len(@))]
  BY DEF Read
<1>2. /\ At \in Pending /\ At \in Nat /\ i <= At /\ o \in Clients /\ Connected(o) /\ Fd = sfd[o]
      /\ loop = "poll" => At \in 1 .. numfd - 1 /\ Fd = pollfd[At].fd
      /\ loop = "select" => At \in Entries /\ At <= maxi /\ Fd = client[At].fd /\ client[At].uid = o
  BY <1>1, ScanAt
<1>3. Ahead(At)
  BY <1>1, <1>2 DEF Ahead
<1>4. s # << >>
  <2>1. CASE loop = "poll"
    <3>1. pollfd[At].revents # {} /\ "hup" \notin pollfd[At].revents
      BY <1>1, <1>2, <2>1 DEF Pending, HungUp
    <3> QED  BY <1>1, <1>2, <1>3, <2>1, <3>1 DEF PollReady
  <2>2. CASE loop = "select"
    <3>1. client[At].fd \in rset /\ ~(s = << >> /\ Gone(o))
      BY <1>1, <1>2, <2>2 DEF Pending, HungUp
    <3> QED  BY <1>1, <1>2, <1>3, <2>2, <3>1 DEF SelectReady
  <2> QED  BY <2>1, <2>2 DEF Types
<1>5. s \in Seq(FromClient(o))
  BY <1>2 DEF Bytes
<1>6. Len(s) \in Nat /\ Len(s) # 0
  BY <1>4, <1>5, EmptySeq, LenProperties
<1>7. n \in 1 .. Len(s)
  BY <1>6, ReadSize
<1>8. \A c \in Clients \ {o} : c2s'[c] = c2s[c]
  BY <1>1 DEF Bytes
<1> HIDE DEF n, s
<1>9. SubSeq(s, 1, n)[1] = s[1]
  BY <1>5, <1>6, <1>7
<1> QED  BY <1>1, <1>2, <1>4, <1>7, <1>8, <1>9 DEF n, s

\* Reading and answering one request leaves what was reported of the others.
LEMMA ServeReady ==
  ASSUME ReadyInv, Read \/ SendFd \/ SendText \/ SendStatus \/ AcceptStale \/ Ended
  PROVE  PollReady' /\ SelectReady'
<1> USE DEF ReadyInv, TablesInv, tables, server, net, streams, clients
<1>1. CASE Read
  <2>1. PICK o \in Clients : /\ o = Owner(Fd) /\ Connected(o) /\ Fd = sfd[o]
                             /\ \A c \in Clients \ {o} : c2s'[c] = c2s[c]
    BY <1>1, ReadBytes, ScanAt DEF Read
  <2>2. PICK a \in Nat : /\ a = At /\ i <= a /\ i \in Nat
                         /\ loop = "poll" => a \in 1 .. numfd - 1 /\ pollfd[a].fd = sfd[o]
                         /\ loop = "select" => a \in Entries /\ client[a].fd = sfd[o] /\ client[a].uid = o
    BY <1>1, <2>1, ScanAt DEF Read, Types
  <2>3. /\ UNCHANGED <<loop, client, pollfd, numfd, rset, sfd, cpc>>
        /\ i' = a /\ spc' = "request" /\ spc = "scan"
    BY <1>1, <2>2 DEF Read
  <2>4. PollReady'
    <3> SUFFICES ASSUME loop = "poll", NEW k \in 1 .. numfd - 1, NEW c \in Clients,
                        k > a, pollfd[k].fd = sfd[c], pollfd[k].revents # {}
                 PROVE  c2s'[c] # << >> \/ "hup" \in pollfd[k].revents
      BY <2>3 DEF PollReady, Ahead
    <3>1. k # a /\ k >= i
      BY <2>2, <2>3 DEF Types, IsTable
    <3>2. c # o
      BY <2>2, <3>1 DEF Polled
    <3> QED  BY <2>1, <2>3, <3>1, <3>2 DEF PollReady, Ahead
  <2>5. SelectReady'
    <3> SUFFICES ASSUME loop = "select", NEW k \in Entries, k > a, client[k].fd \in rset
                 PROVE  c2s'[client[k].uid] # << >> \/ Gone(client[k].uid)
      BY <2>3 DEF SelectReady, Ahead, Entries, Gone
    <3>1. k # a /\ k >= i /\ k \in Nat
      <4>1. k \in Nat
        BY DEF Entries, Types, IsTable
      <4> QED  BY <2>2, <4>1
    <3>2. client[k].uid \in Clients /\ client[k].uid # o
      BY <2>2, <3>1 DEF Entered
    <3> QED  BY <2>1, <2>3, <3>1, <3>2 DEF SelectReady, Ahead
  <2> QED  BY <2>4, <2>5
<1>2. CASE SendFd \/ SendText \/ SendStatus \/ AcceptStale \/ Ended
  <2>1. UNCHANGED <<loop, client, pollfd, numfd, rset, sfd, cpc, c2s>>
    BY <1>2 DEF SendFd, SendText, SendStatus, AcceptStale, Ended, vars
  <2>2. \/ spc' = "down"
        \/ spc \in {"request", "status"} /\ spc' = "scan" /\ i' = i + 1
        \/ spc = "request" /\ spc' = "status" /\ i' = i
        \/ spc' = spc /\ i' = i
    BY <1>2 DEF SendFd, SendText, SendStatus, AcceptStale, Ended, vars, Write
  <2>3. i \in Nat /\ \A k \in Entries : k \in Nat
    BY DEF Types, Entries, IsTable
  <2>4. \A k \in Nat : spc' # "down" /\ Ahead(k)' => Ahead(k)
    BY <2>2, <2>3 DEF Ahead
  <2>5. spc' \in {"accept", "scan", "request", "status"} => spc \in {"accept", "scan", "request", "status"}
    BY <2>2
  <2>6. spc' \in {"scan", "request", "status"} => spc \in {"scan", "request", "status"}
    BY <2>2
  <2>7. PollReady'
    <3>1. 1 .. numfd - 1 \subseteq Nat
      BY DEF Types, IsTable
    <3> QED  BY <2>1, <2>4, <2>5, <3>1 DEF PollReady
  <2>8. SelectReady'
    BY <2>1, <2>3, <2>4, <2>6 DEF SelectReady, Entries, Gone
  <2> QED  BY <2>7, <2>8
<1> QED  BY <1>1, <1>2

\* Bytes, tables and reports are kept through every step.
LEMMA ReadyStep ==
  ASSUME ReadyInv, [Next]_vars
  PROVE  ReadyInv'
<1>1. TablesInv' /\ Bytes'
  BY TablesStep, BytesStep DEF ReadyInv
<1>2. CASE \E c \in Clients : cli_conn(c) \/ csopen(c) \/ recv_fd(c) \/ RecvEof(c) \/ Leave(c)
  BY <1>1, <1>2, ClientReady DEF ReadyInv
<1>3. CASE Poll \/ Select \/ ScanDone
  BY <1>1, <1>3, WaitReady DEF ReadyInv
<1>4. CASE Accept
  BY <1>1, <1>4, AcceptReady DEF ReadyInv
<1>5. CASE HangUp
  BY <1>1, <1>5, HangUpReady DEF ReadyInv
<1>6. CASE Read \/ SendFd \/ SendText \/ SendStatus \/ AcceptStale \/ Ended
  BY <1>1, <1>6, ServeReady DEF ReadyInv
<1>7. CASE UNCHANGED vars
  BY <1>1, <1>7 DEF ReadyInv, PollReady, SelectReady, Ahead, Entries, Gone,
                    vars, tables, server, net, streams, clients
<1> QED  BY <1>2, <1>3, <1>4, <1>5, <1>6, <1>7 DEF Next, Serve

LEMMA ReadyKept == Spec => []ReadyInv
<1>1. Init => ReadyInv
  <2> SUFFICES ASSUME Init PROVE ReadyInv
    OBVIOUS
  <2>1. TablesInv
    BY InitTables
  <2>2. c2s = [c \in Clients |-> << >>] /\ calls = [c \in Clients |-> 0] /\ spc = "wait"
    BY DEF Init
  <2>3. Bytes
    <3>1. \A c \in Clients : c2s[c] = << >> /\ << >> \in Seq(FromClient(c))
      BY <2>2
    <3> QED  BY <2>2, <3>1 DEF Bytes
  <2> QED  BY <2>1, <2>2, <2>3 DEF ReadyInv, PollReady, SelectReady
<1>2. ReadyInv /\ [Next]_vars => ReadyInv'
  BY ReadyStep
<1> QED  BY <1>1, <1>2, PTL DEF Spec

\* loop.select.c passes the uid of the entry it found the descriptor in to
\* handle_request: that is the user ID of the client whose request was read, also
\* when the entry or the descriptor had belonged to others before.
THEOREM UidIsTheClients == Spec => []RequestUid
<1>1. Init => RequestUid
  BY DEF Init, RequestUid
<1>2. ASSUME ReadyInv, RequestUid, [Next]_vars PROVE RequestUid'
  <2> USE <1>2
  <2>1. CASE Read
    <3> SUFFICES ASSUME loop' = "select" PROVE who' = buf'[1].cl
      BY DEF RequestUid
    <3>1. loop = "select" /\ who' = client[At].uid /\ spc = "scan" /\ Pending # {}
      BY <2>1 DEF Read
    <3>2. PICK o \in Clients : o = Owner(Fd) /\ c2s[o] # << >> /\ buf'[1] = c2s[o][1]
      BY <2>1, ReadBytes
    <3>3. who' = o
      BY <3>1, <3>2, ScanAt DEF ReadyInv
    <3>4. c2s[o][1] \in FromClient(o)
      <4>1. c2s[o] \in Seq(FromClient(o))
        BY DEF ReadyInv, Bytes
      <4> QED  BY <3>2, <4>1, EmptySeq, ElementOfSeq
    <3> QED  BY <3>2, <3>3, <3>4 DEF FromClient
  <2>2. CASE UNCHANGED <<loop, spc, buf, who>>
    BY <2>2 DEF RequestUid
  <2>3. CASE spc' \notin {"request", "status"}
    BY <2>3 DEF RequestUid
  <2>4. ASSUME NEW c \in Clients, cli_conn(c) \/ csopen(c) \/ recv_fd(c) \/ RecvEof(c) \/ Leave(c)
        PROVE  UNCHANGED <<loop, spc, buf, who>>
    BY <2>4 DEF cli_conn, csopen, recv_fd, RecvEof, Leave, server
  <2>5. ASSUME Poll \/ Select \/ Accept \/ ScanDone \/ SendFd \/ SendStatus \/ AcceptStale PROVE spc' \notin {"request", "status"}
    BY <2>5 DEF Poll, Select, Accept, ListenPoll, ListenSelect, ScanDone, SendFd, SendStatus, AcceptStale, Write
  <2>6. CASE HangUp
    <3>1. spc' \in {"scan", "down"}
      BY <2>6 DEF HangUp, client_del
    <3> QED  BY <2>3, <3>1
  <2>7. CASE SendText
    BY <2>7 DEF SendText, RequestUid
  <2>8. CASE Ended \/ UNCHANGED vars
    BY <2>2, <2>8 DEF Ended, vars, server
  <2> QED  BY <2>1, <2>2, <2>3, <2>4, <2>5, <2>6, <2>7, <2>8 DEF Next, Serve
<1> QED  BY <1>1, <1>2, ReadyKept, PTL DEF Spec

-----------------------------------------------------------------------------
(* Answers, when no request is too long or has too many words.              *)

ShortKinds == {"file", "nofile", "usage"}
ShortMenu == \A c \in Clients : \A n \in DOMAIN Menu[c] : Menu[c][n] \subseteq ShortKinds

Own(c) == [cl |-> c, call |-> calls[c]]
Asked(c, kind) == <<[cl |-> c, call |-> calls[c], kind |-> kind, pos |-> 1]>>
Texts(c) == Text(Own(c))
End(status, c) == <<Byte("nul", Own(c)), Byte(status, Own(c))>>
Answers(c) == {Texts(c), Texts(c) \o End("err", c), End("err", c), End("fd", c)}

\* The connection handle_request is serving.
InService(c) == spc \in {"request", "status"} /\ Connected(c) /\ AnswerFd = sfd[c]

\* What the client of a call is waiting for is on its way: the request is unread,
\* in service, or answered, and nothing else is in the two streams.
Requests(c) ==
  /\ c2s[c] = << >> \/ \E kind \in ShortKinds : c2s[c] = Asked(c, kind)
  /\ cpc[c] \in {"new", "idle"} => c2s[c] = << >> /\ ~InService(c)
  /\ c2s[c] # << >> => s2c[c] = << >> /\ ~InService(c)
Service(c) ==
  /\ \E kind \in ShortKinds : buf = Asked(c, kind) /\ (spc = "status" => kind # "file")
  /\ spc = "request" => s2c[c] = << >>
  /\ spc = "status" /\ ~Gone(c) => s2c[c] \in {<< >>, Texts(c)}
Replies(c) ==
  /\ cpc[c] # "dumped"
  /\ cpc[c] \in {"new", "idle"} => s2c[c] = << >>
  /\ cpc[c] = "recv" => s2c[c] \in Answers(c) \cup {<< >>}
  /\ said[c] \subseteq {Own(c)}
  /\ answer[c] \in {None, Byte("fd", Own(c)), Byte("err", Own(c))}
Protocol ==
  /\ \A c \in Clients : Replies(c) /\ (Up => Requests(c)) /\ (InService(c) => Service(c))
  /\ spc \in {"request", "status"} => \E c \in Clients : InService(c)
  /\ DOMAIN said = Clients /\ DOMAIN answer = Clients /\ DOMAIN s2c = Clients

ProtocolInv == ReadyInv /\ Protocol

\* What is about a call depends on its number only.
LEMMA SameCall ==
  ASSUME NEW c \in Clients, calls'[c] = calls[c]
  PROVE  /\ Own(c)' = Own(c) /\ Texts(c)' = Texts(c) /\ Answers(c)' = Answers(c)
         /\ \A kind \in ShortKinds : Asked(c, kind)' = Asked(c, kind)
<1>1. Own(c)' = Own(c)
  BY DEF Own
<1>2. Texts(c)' = Texts(c)
  BY DEF Own, Texts, Text, Byte
<1>3. End("err", c)' = End("err", c) /\ End("fd", c)' = End("fd", c)
  BY DEF Own, End, Byte
<1>4. Answers(c)' = Answers(c)
  BY <1>2, <1>3 DEF Answers
<1>5. \A kind \in ShortKinds : Asked(c, kind)' = Asked(c, kind)
  BY DEF Asked
<1> QED  BY <1>1, <1>2, <1>4, <1>5

\* A client for which nothing changed.
LEMMA Untouched ==
  ASSUME NEW c \in Clients, calls'[c] = calls[c],
         c2s'[c] = c2s[c], s2c'[c] = s2c[c], cpc'[c] = cpc[c], said'[c] = said[c], answer'[c] = answer[c]
  PROVE  /\ Replies(c) => Replies(c)'
         /\ Requests(c) /\ (InService(c)' => InService(c)) => Requests(c)'
         /\ UNCHANGED <<buf, spc>> /\ Service(c) => Service(c)'
<1>1. /\ Own(c)' = Own(c) /\ Texts(c)' = Texts(c) /\ Answers(c)' = Answers(c)
      /\ \A kind \in ShortKinds : Asked(c, kind)' = Asked(c, kind)
  BY SameCall
<1>2. Byte("fd", Own(c))' = Byte("fd", Own(c)) /\ Byte("err", Own(c))' = Byte("err", Own(c))
  BY <1>1 DEF Byte
<1>3. Replies(c) => Replies(c)'
  BY <1>1, <1>2 DEF Replies
<1>4. Requests(c) /\ (InService(c)' => InService(c)) => Requests(c)'
  BY <1>1 DEF Requests
<1>5. UNCHANGED <<buf, spc>> /\ Service(c) => Service(c)'
  BY <1>1 DEF Service, Gone
<1> QED  BY <1>3, <1>4, <1>5

\* An answer is a message, or a null and a status behind it, or these alone.
LEMMA AnswerShape ==
  ASSUME NEW c \in Clients, NEW s \in Answers(c)
  PROVE  LET B == {Byte(what, Own(c)) : what \in {"text", "nul", "fd", "err"}} IN
         /\ s \in Seq(B)
         /\ \E m \in 0 .. MAXLINE - 2 :
              /\ Len(s) \in {m, m + 2} /\ Len(s) # 0
              /\ \A n \in 1 .. m : s[n] = Byte("text", Own(c))
              /\ Len(s) = m + 2 => /\ s[m + 1] = Byte("nul", Own(c))
                                   /\ s[m + 2] \in {Byte("fd", Own(c)), Byte("err", Own(c))}
<1> DEFINE B == {Byte(what, Own(c)) : what \in {"text", "nul", "fd", "err"}}
           Shape(t, m) ==
             /\ Len(t) \in {m, m + 2} /\ Len(t) # 0
             /\ \A n \in 1 .. m : t[n] = Byte("text", Own(c))
             /\ Len(t) = m + 2 => /\ t[m + 1] = Byte("nul", Own(c))
                                  /\ t[m + 2] \in {Byte("fd", Own(c)), Byte("err", Own(c))}
<1>1. PICK l \in Nat : l = MAXLINE - 2 /\ l # 0 /\ 0 \in 0 .. l /\ l \in 0 .. l
  BY ConstantsTyped
<1>2. /\ Texts(c) \in Seq(B) /\ Len(Texts(c)) = l
      /\ \A n \in 1 .. l : Texts(c)[n] = Byte("text", Own(c))
  <2>1. Texts(c) = [n \in 1 .. l |-> Byte("text", Own(c))]
    BY <1>1 DEF Texts, Text
  <2> HIDE DEF B
  <2>2. Byte("text", Own(c)) \in B
    BY DEF B
  <2> QED  BY <1>1, <2>1, <2>2
<1>3. ASSUME NEW st \in {"fd", "err"}
      PROVE  /\ End(st, c) \in Seq(B) /\ Len(End(st, c)) = 2
             /\ End(st, c)[1] = Byte("nul", Own(c)) /\ End(st, c)[2] = Byte(st, Own(c))
  <2>1. Byte("nul", Own(c)) \in B /\ Byte(st, Own(c)) \in B
    OBVIOUS
  <2> HIDE DEF B
  <2> QED  BY <2>1 DEF End
<1> HIDE DEF B
<1>4. CASE s = Texts(c)
  <2>1. Len(s) = l /\ l # l + 2 /\ \A n \in 1 .. l : s[n] = Byte("text", Own(c))
    BY <1>1, <1>2, <1>4
  <2>2. Shape(s, l)
    BY <1>1, <2>1
  <2> QED  BY <1>1, <1>2, <1>4, <2>2 DEF B
<1>5. ASSUME NEW st \in {"fd", "err"}, s = End(st, c) PROVE s \in Seq(B) /\ \E m \in 0 .. MAXLINE - 2 : Shape(s, m)
  <2>1. Shape(s, 0)
    BY <1>3, <1>5
  <2> QED  BY <1>1, <1>3, <1>5, <2>1
<1>6. CASE s = Texts(c) \o End("err", c)
  <2>0. PICK e \in Seq(B) : e = End("err", c) /\ Len(e) = 2
    BY <1>3
  <2>1. /\ s \in Seq(B) /\ Len(s) = l + 2
        /\ \A n \in 1 .. l : s[n] = Texts(c)[n]
        /\ s[l + 1] = End("err", c)[1] /\ s[l + 2] = End("err", c)[2]
    <3>1. PICK t \in Seq(B) : t = Texts(c) /\ Len(t) = l
      BY <1>2
    <3>2. s = t \o e
      BY <1>6, <2>0, <3>1
    <3>3. /\ t \o e \in Seq(B) /\ Len(t \o e) = Len(t) + Len(e)
          /\ \A n \in 1 .. Len(t) + Len(e) : (t \o e)[n] = IF n <= Len(t) THEN t[n] ELSE e[n - Len(t)]
      BY <3>1, <2>0, ConcatProperties
    <3>4. s \in Seq(B) /\ Len(s) = l + 2 /\ \A n \in 1 .. l + 2 : s[n] = IF n <= l THEN t[n] ELSE e[n - l]
      BY <2>0, <3>1, <3>2, <3>3
    <3>5. s[l + 1] = e[1] /\ s[l + 2] = e[2]
      <4>1. l + 1 \in 1 .. l + 2 /\ l + 2 \in 1 .. l + 2 /\ ~(l + 1 <= l) /\ ~(l + 2 <= l) /\ l + 1 - l = 1 /\ l + 2 - l = 2
        BY <1>1
      <4> QED  BY <3>4, <4>1
    <3>6. \A n \in 1 .. l : s[n] = t[n]
      BY <1>1, <3>4
    <3> QED  BY <2>0, <3>1, <3>4, <3>5, <3>6
  <2>2. Shape(s, l)
    BY <1>1, <1>2, <1>3, <2>1
  <2> QED  BY <1>1, <2>1, <2>2 DEF B
<1> QED  BY <1>4, <1>5, <1>6 DEF Answers, B

\* One recvmsg takes a whole answer, as it never exceeds the buffer; a null in it
\* is the next to last byte and the status the last.
LEMMA ReceivesAll ==
  ASSUME NEW c \in Clients, NEW s \in Answers(c)
  PROVE  /\ Received(s) = s /\ Len(s) \in Nat \ {0} /\ SubSeq(s, Len(s) + 1, Len(s)) = << >>
         /\ \A n \in 1 .. Len(s) : s[n].what = "text" => [cl |-> s[n].cl, call |-> s[n].call] = Own(c)
         /\ LET nuls == {n \in 1 .. Len(s) : s[n].what = "nul"} IN
            nuls # {} => /\ Min(nuls) = Len(s) - 1
                         /\ s[Len(s)] \in {Byte("fd", Own(c)), Byte("err", Own(c))}
<1> DEFINE B == {Byte(what, Own(c)) : what \in {"text", "nul", "fd", "err"}}
           nuls == {n \in 1 .. Len(s) : s[n].what = "nul"}
           fds == {n \in DOMAIN s : s[n].what = "fd"}
           ends == {Len(s), MAXLINE} \cup fds
<1>1. s \in Seq(B)
  BY AnswerShape
<1>2. PICK m \in 0 .. MAXLINE - 2 :
              /\ Len(s) \in {m, m + 2} /\ Len(s) # 0
              /\ \A n \in 1 .. m : s[n] = Byte("text", Own(c))
              /\ Len(s) = m + 2 => /\ s[m + 1] = Byte("nul", Own(c))
                                   /\ s[m + 2] \in {Byte("fd", Own(c)), Byte("err", Own(c))}
  BY AnswerShape
<1>3. /\ m \in Nat /\ m <= MAXLINE - 2 /\ MAXLINE \in Nat /\ Len(s) \in Nat \ {0} /\ Len(s) <= MAXLINE
      /\ DOMAIN s = 1 .. Len(s)
  BY <1>1, <1>2, ConstantsTyped, LenProperties
<1>4. /\ \A n \in 1 .. m : s[n].what = "text"
      /\ Len(s) = m + 2 => s[m + 1].what = "nul" /\ s[m + 2].what \in {"fd", "err"}
  BY <1>2 DEF Byte
<1>5. \A n \in 1 .. Len(s) : n \in 1 .. m \/ (Len(s) = m + 2 /\ n \in {m + 1, m + 2})
  <2>1. PICK k \in Nat : k = Len(s)
    BY <1>3
  <2>2. (k = m \/ k = m + 2) /\ m \in Nat
    BY <1>2, <1>3, <2>1
  <2>3. \A n \in 1 .. k : n \in 1 .. m \/ (k = m + 2 /\ n \in {m + 1, m + 2})
    BY <2>2
  <2> QED  BY <2>1, <2>3
<1>6. fds \subseteq {Len(s)}
  BY <1>3, <1>4, <1>5
<1>7. nuls = IF Len(s) = m + 2 THEN {m + 1} ELSE {}
  <2>1. CASE Len(s) = m + 2
    <3>1. m + 1 \in nuls
      BY <1>3, <1>4, <2>1
    <3>2. \A n \in nuls : n = m + 1
      BY <1>4, <1>5, <2>1
    <3> QED  BY <2>1, <3>1, <3>2
  <2>2. CASE Len(s) # m + 2
    BY <1>4, <1>5, <2>2
  <2> QED  BY <2>1, <2>2
<1>8. Min(ends) = Len(s)
  <2>1. ends \in SUBSET Nat /\ ends # {} /\ Len(s) \in ends
    BY <1>3, <1>6
  <2>2. ends \subseteq {Len(s), MAXLINE}
    BY <1>6
  <2> HIDE DEF ends
  <2>3. Min(ends) \in ends /\ Min(ends) <= Len(s)
    BY <2>1, Least
  <2> QED  BY <1>3, <2>2, <2>3
<1>9. Received(s) = SubSeq(s, 1, Len(s))
  BY <1>8 DEF Received
<1>10. SubSeq(s, 1, Len(s)) = s /\ SubSeq(s, Len(s) + 1, Len(s)) = << >>
  BY <1>1, <1>3
<1>11. \A n \in 1 .. Len(s) : s[n].what = "text" => [cl |-> s[n].cl, call |-> s[n].call] = Own(c)
  BY <1>2, <1>4, <1>5 DEF Byte, Own
<1>12. nuls # {} => Min(nuls) = Len(s) - 1 /\ s[Len(s)] \in {Byte("fd", Own(c)), Byte("err", Own(c))}
  <2> SUFFICES ASSUME nuls # {} PROVE Min(nuls) = Len(s) - 1 /\ s[Len(s)] \in {Byte("fd", Own(c)), Byte("err", Own(c))}
    OBVIOUS
  <2>1. nuls = {m + 1} /\ Len(s) = m + 2 /\ {m + 1} \in SUBSET Nat /\ {m + 1} # {}
    BY <1>3, <1>7
  <2>2. Min({m + 1}) = m + 1
    BY <2>1, Least
  <2>3. Min(nuls) = m + 1
    BY <2>1, <2>2, Zenon
  <2> HIDE DEF nuls
  <2> QED  BY <1>2, <1>3, <2>1, <2>3
<1> QED  BY <1>3, <1>9, <1>10, <1>11, <1>12

\* A request of these kinds is one byte.
LEMMA ShortRequest ==
  ASSUME NEW c \in Clients, NEW kind \in ShortKinds, calls[c] \in Nat, calls'[c] = calls[c] + 1
  PROVE  << >> \o Request(c, kind) = Asked(c, kind)'
<1> DEFINE r == [cl |-> c, call |-> calls[c] + 1, kind |-> kind, pos |-> 1]
<1>1. ReqLen(kind) = 1
  BY DEF ShortKinds, ReqLen
<1>2. Request(c, kind) = [n \in 1 .. 1 |-> [cl |-> c, call |-> calls[c] + 1, kind |-> kind, pos |-> n]]
  BY <1>1 DEF Request
<1>3. Request(c, kind) = [n \in 1 .. 1 |-> r]
  BY <1>2
<1>4. Asked(c, kind)' = <<r>>
  BY DEF Asked
<1> HIDE DEF r
<1>5. [n \in 1 .. 1 |-> r] = <<r>>
  OBVIOUS
<1>6. << >> \o <<r>> = <<r>>
  OBVIOUS
<1> QED  BY <1>3, <1>4, <1>5, <1>6

\* csopen puts one request into an empty stream.
LEMMA AskProtocol ==
  ASSUME ProtocolInv, ShortMenu, NEW c \in Clients, csopen(c)
  PROVE  Protocol'
<1> USE DEF ProtocolInv, ReadyInv, tables, server, net, streams
<1>1. /\ UNCHANGED <<loop, client, pollfd, spc, i, sfd, buf, s2c>>
      /\ cpc[c] = "idle" /\ calls[c] < Len(Menu[c])
      /\ calls' = [calls EXCEPT ![c] = @ + 1]
      /\ said' = [said EXCEPT ![c] = {}] /\ answer' = [answer EXCEPT ![c] = None]
  BY DEF csopen
<1>2. /\ calls \in [Clients -> Nat] /\ cpc \in [Clients -> {"new", "idle", "recv", "gone", "dumped"}]
      /\ DOMAIN c2s = Clients /\ DOMAIN said = Clients /\ DOMAIN answer = Clients /\ DOMAIN s2c = Clients
  BY DEF Bytes, TablesInv, Types, Protocol
<1>3. \A d \in Clients : InService(d)' <=> InService(d)
  BY <1>1 DEF InService, Connected, AnswerFd
<1>4. /\ Up => /\ cpc' = [cpc EXCEPT ![c] = "recv"]
               /\ \E kind \in Menu[c][calls[c] + 1] : c2s' = [c2s EXCEPT ![c] = @ \o Request(c, kind)]
      /\ ~Up => cpc' = [cpc EXCEPT ![c] = "gone"] /\ c2s' = c2s
      /\ Up' <=> Up
  BY <1>1 DEF csopen, Up
<1>5. ASSUME NEW d \in Clients \ {c}
      PROVE  Replies(d)' /\ (Up' => Requests(d)') /\ (InService(d)' => Service(d)')
  <2>1. /\ calls'[d] = calls[d] /\ c2s'[d] = c2s[d] /\ s2c'[d] = s2c[d] /\ cpc'[d] = cpc[d]
        /\ said'[d] = said[d] /\ answer'[d] = answer[d]
    BY <1>1, <1>2, <1>4
  <2>2. Replies(d) /\ (Up => Requests(d)) /\ (InService(d) => Service(d))
    BY DEF Protocol
  <2> QED  BY <1>1, <1>3, <1>4, <2>1, <2>2, Untouched
<1>6. Replies(c)' /\ (Up' => Requests(c)') /\ (InService(c)' => Service(c)')
  <2>1. s2c'[c] = << >> /\ said'[c] = {} /\ answer'[c] = None /\ cpc'[c] \in {"recv", "gone"}
    BY <1>1, <1>2, <1>4 DEF Protocol, Replies
  <2>2. Replies(c)'
    BY <2>1 DEF Replies
  <2>3. CASE Up
    <3>1. c2s[c] = << >> /\ ~InService(c)
      BY <1>1, <2>3 DEF Protocol, Requests
    <3>2. PICK kind \in Menu[c][calls[c] + 1] : c2s' = [c2s EXCEPT ![c] = @ \o Request(c, kind)]
      BY <1>4, <2>3
    <3>3. kind \in ShortKinds
      <4>1. Menu[c] \in Seq(SUBSET Kinds) /\ calls[c] \in Nat
        BY <1>2, ConstantsTyped
      <4>2. calls[c] + 1 \in DOMAIN Menu[c]
        BY <1>1, <4>1
      <4> QED  BY <4>2 DEF ShortMenu
    <3>4. c2s'[c] = Asked(c, kind)'
      <4>1. calls[c] \in Nat /\ calls'[c] = calls[c] + 1
        BY <1>1, <1>2
      <4>2. c2s'[c] = << >> \o Request(c, kind)
        BY <1>2, <3>1, <3>2
      <4> QED  BY <3>3, <4>1, <4>2, ShortRequest
    <3>5. cpc'[c] = "recv"
      BY <1>2, <1>4, <2>3
    <3>6. Requests(c)'
      BY <1>3, <2>1, <3>1, <3>3, <3>4, <3>5 DEF Requests
    <3> QED  BY <1>3, <2>2, <3>1, <3>6
  <2>4. CASE ~Up
    BY <1>3, <1>4, <2>2, <2>4 DEF InService, Up
  <2> QED  BY <2>3, <2>4
<1>7. spc' \in {"request", "status"} => \E d \in Clients : InService(d)'
  BY <1>1, <1>3 DEF Protocol
<1>8. DOMAIN said' = Clients /\ DOMAIN answer' = Clients /\ DOMAIN s2c' = Clients
  BY <1>1, <1>2
<1> QED  BY <1>5, <1>6, <1>7, <1>8 DEF Protocol

\* recv_fd takes all that has been sent: a message, or the end of the answer.
LEMMA ReceiveProtocol ==
  ASSUME ProtocolInv, NEW c \in Clients, recv_fd(c)
  PROVE  Protocol'
<1> USE DEF ProtocolInv, ReadyInv, tables, server, net, streams
<1> DEFINE s == s2c[c]
           nuls == {n \in 1 .. Len(s) : s[n].what = "nul"}
<1>1. /\ UNCHANGED <<loop, client, pollfd, spc, i, sfd, buf, c2s, calls>>
      /\ cpc[c] = "recv" /\ s # << >>
  BY DEF recv_fd
<1>2. /\ cpc \in [Clients -> {"new", "idle", "recv", "gone", "dumped"}]
      /\ DOMAIN said = Clients /\ DOMAIN answer = Clients /\ DOMAIN s2c = Clients
  BY DEF TablesInv, Types, Protocol
<1>3. \A d \in Clients : InService(d)' <=> InService(d)
  BY <1>1 DEF InService, Connected, AnswerFd
<1>4. s \in Answers(c) /\ said[c] \subseteq {Own(c)} /\ answer[c] \in {None, Byte("fd", Own(c)), Byte("err", Own(c))}
  BY <1>1 DEF Protocol, Replies
<1>5. /\ Received(s) = s /\ Len(s) \in Nat \ {0} /\ SubSeq(s, Len(s) + 1, Len(s)) = << >>
      /\ \A n \in 1 .. Len(s) : s[n].what = "text" => [cl |-> s[n].cl, call |-> s[n].call] = Own(c)
      /\ nuls # {} => /\ Min(nuls) = Len(s) - 1
                      /\ s[Len(s)] \in {Byte("fd", Own(c)), Byte("err", Own(c))}
  BY <1>4, ReceivesAll
<1>6. /\ s2c' = [s2c EXCEPT ![c] = SubSeq(s, Len(s) + 1, Len(s))]
      /\ said' = [said EXCEPT ![c] = @ \cup {[cl |-> s[n].cl, call |-> s[n].call] :
                                             n \in {n \in 1 .. Len(s) : s[n].what = "text"}}]
      /\ \/ nuls = {} /\ UNCHANGED <<cpc, answer>>
         \/ nuls # {} /\ Min(nuls) = Len(s) - 1 /\ cpc' = [cpc EXCEPT ![c] = "idle"] /\ answer' = [answer EXCEPT ![c] = s[Len(s)]]
         \/ nuls # {} /\ Min(nuls) # Len(s) - 1
  BY <1>5 DEF recv_fd
<1> HIDE DEF nuls
<1>7. ASSUME NEW d \in Clients \ {c}
      PROVE  Replies(d)' /\ (Up' => Requests(d)') /\ (InService(d)' => Service(d)')
  <2>1. /\ calls'[d] = calls[d] /\ c2s'[d] = c2s[d] /\ s2c'[d] = s2c[d] /\ cpc'[d] = cpc[d]
        /\ said'[d] = said[d] /\ answer'[d] = answer[d]
    BY <1>1, <1>2, <1>5, <1>6
  <2>2. Replies(d) /\ (Up => Requests(d)) /\ (InService(d) => Service(d))
    BY DEF Protocol
  <2> QED  BY <1>1, <1>3, <2>1, <2>2, Untouched DEF Up
<1>8. /\ s2c'[c] = << >> /\ said'[c] \subseteq {Own(c)}
      /\ \/ cpc'[c] = "recv" /\ answer'[c] = answer[c]
         \/ cpc'[c] = "idle" /\ answer'[c] \in {Byte("fd", Own(c)), Byte("err", Own(c))}
  <2>1. s2c'[c] = << >>
    BY <1>2, <1>5, <1>6
  <2>2. said'[c] \subseteq {Own(c)}
    BY <1>2, <1>4, <1>5, <1>6
  <2>3. \/ cpc'[c] = "recv" /\ answer'[c] = answer[c]
        \/ cpc'[c] = "idle" /\ answer'[c] \in {Byte("fd", Own(c)), Byte("err", Own(c))}
    BY <1>1, <1>2, <1>5, <1>6
  <2> QED  BY <2>1, <2>2, <2>3
<1>9. /\ Own(c)' = Own(c) /\ \A kind \in ShortKinds : Asked(c, kind)' = Asked(c, kind)
  BY <1>1, SameCall
<1>10. Replies(c)'
  <2>1. Byte("fd", Own(c))' = Byte("fd", Own(c)) /\ Byte("err", Own(c))' = Byte("err", Own(c))
    BY <1>9 DEF Byte
  <2> QED  BY <1>4, <1>8, <1>9, <2>1 DEF Replies
<1>11. Up' => Requests(c)'
  <2> SUFFICES ASSUME Up PROVE Requests(c)'
    BY <1>1 DEF Up
  <2>1. c2s[c] = << >> /\ (cpc'[c] = "idle" => ~InService(c))
    <3>1. c2s[c] = << >>
      BY <1>1 DEF Protocol, Requests
    <3>2. ASSUME cpc'[c] = "idle" PROVE ~InService(c)
      <4> SUFFICES ASSUME InService(c) PROVE FALSE
        OBVIOUS
      <4>1. nuls # {}
        BY <1>1, <1>6, <3>2
      <4>2. s \in {<< >>, Texts(c)}
        BY <1>1 DEF Protocol, Service, InService, Gone
      <4>3. s = Texts(c)
        BY <1>1, <4>2
      <4>4. \A n \in 1 .. Len(s) : s[n].what = "text"
        BY <4>3, ConstantsTyped DEF Texts, Text, Byte
      <4> QED  BY <4>1, <4>4 DEF nuls
    <3> QED  BY <3>1, <3>2
  <2> QED  BY <1>1, <1>3, <1>8, <2>1 DEF Requests
<1>12. InService(c)' => Service(c)'
  <2> SUFFICES ASSUME InService(c) PROVE Service(c)'
    BY <1>3
  <2>1. Service(c)
    BY DEF Protocol
  <2> QED  BY <1>1, <1>8, <1>9, <2>1 DEF Service
<1>13. spc' \in {"request", "status"} => \E d \in Clients : InService(d)'
  BY <1>1, <1>3 DEF Protocol
<1>14. DOMAIN said' = Clients /\ DOMAIN answer' = Clients /\ DOMAIN s2c' = Clients
  BY <1>2, <1>5, <1>6
<1> QED  BY <1>7, <1>10, <1>11, <1>12, <1>13, <1>14 DEF Protocol

\* A client that connects, is told that the server is gone, or leaves.
LEMMA ComeAndGoProtocol ==
  ASSUME ProtocolInv, NEW c \in Clients, cli_conn(c) \/ RecvEof(c) \/ Leave(c)
  PROVE  Protocol'
<1> USE DEF ProtocolInv, ReadyInv, tables, server, net, streams
<1>1. UNCHANGED <<loop, client, pollfd, spc, i, sfd, buf, c2s, s2c, calls>>
  BY DEF cli_conn, RecvEof, Leave
<1>2. /\ cpc \in [Clients -> {"new", "idle", "recv", "gone", "dumped"}]
      /\ DOMAIN said = Clients /\ DOMAIN answer = Clients /\ DOMAIN s2c = Clients
  BY DEF TablesInv, Types, Protocol
<1>3. \A d \in Clients : InService(d)' <=> InService(d)
  BY <1>1 DEF InService, Connected, AnswerFd
<1>4. /\ \/ cpc' = [cpc EXCEPT ![c] = "gone"]
         \/ cpc' = [cpc EXCEPT ![c] = "idle"] /\ (cpc[c] = "new" \/ (cpc[c] = "recv" /\ s2c[c] = << >> /\ ~Up))
      /\ said' = said \/ said' = [said EXCEPT ![c] = {}]
      /\ answer' = answer \/ answer' = [answer EXCEPT ![c] = None]
  BY DEF cli_conn, RecvEof, Leave
<1>5. ASSUME NEW d \in Clients \ {c}
      PROVE  Replies(d)' /\ (Up' => Requests(d)') /\ (InService(d)' => Service(d)')
  <2>1. /\ calls'[d] = calls[d] /\ c2s'[d] = c2s[d] /\ s2c'[d] = s2c[d] /\ cpc'[d] = cpc[d]
        /\ said'[d] = said[d] /\ answer'[d] = answer[d]
    BY <1>1, <1>2, <1>4
  <2>2. Replies(d) /\ (Up => Requests(d)) /\ (InService(d) => Service(d))
    BY DEF Protocol
  <2> QED  BY <1>1, <1>3, <2>1, <2>2, Untouched DEF Up
<1>6. /\ \/ cpc'[c] = "gone"
         \/ cpc'[c] = "idle" /\ s2c[c] = << >> /\ (cpc[c] = "new" \/ ~Up)
      /\ said'[c] \subseteq {Own(c)} /\ answer'[c] \in {None, Byte("fd", Own(c)), Byte("err", Own(c))}
  BY <1>2, <1>4 DEF Protocol, Replies
<1>7. /\ Own(c)' = Own(c) /\ Texts(c)' = Texts(c) /\ \A kind \in ShortKinds : Asked(c, kind)' = Asked(c, kind)
  BY <1>1, SameCall
<1>8. Replies(c)'
  <2>1. Byte("fd", Own(c))' = Byte("fd", Own(c)) /\ Byte("err", Own(c))' = Byte("err", Own(c))
    BY <1>7 DEF Byte
  <2> QED  BY <1>1, <1>6, <1>7, <2>1 DEF Replies
<1>9. Up' => Requests(c)'
  <2> SUFFICES ASSUME Up PROVE Requests(c)'
    BY <1>1 DEF Up
  <2>1. Requests(c)
    BY DEF Protocol
  <2> QED  BY <1>1, <1>3, <1>6, <1>7, <2>1 DEF Requests
<1>10. InService(c)' => Service(c)'
  <2> SUFFICES ASSUME InService(c) PROVE Service(c)'
    BY <1>3
  <2>1. Service(c) /\ Requests(c)
    BY DEF Protocol, InService, Up
  <2>2. cpc[c] # "new" /\ Up
    BY <2>1 DEF Requests, InService, Up
  <2>3. cpc'[c] = "gone"
    BY <1>6, <2>2
  <2> QED  BY <1>1, <1>7, <2>1, <2>3 DEF Service, Gone
<1>11. spc' \in {"request", "status"} => \E d \in Clients : InService(d)'
  BY <1>1, <1>3 DEF Protocol
<1>12. DOMAIN said' = Clients /\ DOMAIN answer' = Clients /\ DOMAIN s2c' = Clients
  BY <1>1, <1>2, <1>4
<1> QED  BY <1>5, <1>8, <1>9, <1>10, <1>11, <1>12 DEF Protocol

\* Steps of the server between requests.
LEMMA QuietProtocol ==
  ASSUME ProtocolInv, Poll \/ Select \/ Accept \/ ScanDone \/ HangUp \/ AcceptStale
  PROVE  Protocol'
<1> USE DEF ProtocolInv, ReadyInv, tables, server, net, streams, clients
<1>1. UNCHANGED <<c2s, s2c, cpc, calls, said, answer>>
  BY DEF Poll, Select, Accept, ScanDone, HangUp, AcceptStale
<1>2. spc' \notin {"request", "status"} /\ Up
  <2>1. CASE HangUp
    BY <2>1 DEF HangUp, client_del, Up
  <2> QED  BY <2>1 DEF Poll, Select, Accept, ListenPoll, ListenSelect, ScanDone, AcceptStale, Up
<1>3. \A d \in Clients : ~InService(d)'
  BY <1>2 DEF InService
<1>4. ASSUME NEW d \in Clients PROVE Replies(d)' /\ Requests(d)'
  <2>1. Replies(d) /\ Requests(d)
    BY <1>2 DEF Protocol
  <2> QED  BY <1>1, <1>3, <2>1, Untouched
<1> QED  BY <1>1, <1>2, <1>3, <1>4 DEF Protocol

\* Read takes a request into service.
LEMMA ReadProtocol ==
  ASSUME ProtocolInv, Read
  PROVE  Protocol'
<1> USE DEF ProtocolInv, ReadyInv, tables, server, net, streams, clients
<1>1. PICK o \in Clients :
         /\ o = Owner(Fd) /\ Connected(o) /\ c2s[o] # << >>
         /\ Min({Len(c2s[o]), MAXLINE}) \in 1 .. Len(c2s[o])
         /\ buf' = SubSeq(c2s[o], 1, Min({Len(c2s[o]), MAXLINE}))
         /\ \A c \in Clients \ {o} : c2s'[c] = c2s[c]
  BY ReadBytes
<1>2. PICK n : n = Min({Len(c2s[o]), MAXLINE})
  OBVIOUS
<1>3. /\ UNCHANGED <<loop, client, pollfd, sfd, s2c, cpc, calls, said, answer>>
      /\ spc = "scan" /\ spc' = "request" /\ Pending # {} /\ i' = At
      /\ c2s' = [c2s EXCEPT ![o] = SubSeq(c2s[o], n + 1, Len(c2s[o]))]
  BY <1>1, <1>2 DEF Read
<1>4. /\ loop = "poll" => pollfd[At].fd = sfd[o]
      /\ loop = "select" => client[At].fd = sfd[o]
      /\ loop \in {"poll", "select"}
  BY <1>1, <1>3, ScanAt DEF TablesInv, Types
<1>5. AnswerFd' = sfd[o]
  BY <1>3, <1>4 DEF AnswerFd
<1>6. \A c \in Clients : InService(c)' <=> c = o
  BY <1>1, <1>3, <1>5 DEF InService, Connected, TablesInv, Apart
<1>7. Up /\ \A c \in Clients : Replies(c) /\ Requests(c) /\ ~InService(c)
  BY <1>3 DEF Protocol, Up, InService
<1>8. ASSUME NEW c \in Clients \ {o} PROVE Replies(c)' /\ Requests(c)' /\ ~InService(c)'
  BY <1>1, <1>3, <1>6, <1>7, Untouched
<1>9. PICK kind \in ShortKinds : c2s[o] = Asked(o, kind)
  BY <1>1, <1>7 DEF Requests
<1>10. /\ Own(o)' = Own(o) /\ Texts(o)' = Texts(o) /\ Answers(o)' = Answers(o)
       /\ \A k \in ShortKinds : Asked(o, k)' = Asked(o, k)
  BY <1>3, SameCall
<1>11. buf' = Asked(o, kind) /\ c2s'[o] = << >>
  <2>1. PICK r : c2s[o] = <<r>> /\ Asked(o, kind) = <<r>>
    BY <1>9 DEF Asked
  <2>2. n = 1 /\ Len(<<r>>) = 1
    BY <1>1, <1>2, <2>1
  <2>3. SubSeq(<<r>>, 1, 1) = <<r>> /\ SubSeq(<<r>>, 1 + 1, 1) = << >>
    <3>1. PICK s \in Seq({r}) : s = <<r>> /\ Len(s) = 1
      <4>1. <<r>> \in Seq({r}) /\ Len(<<r>>) = 1
        OBVIOUS
      <4> QED  BY <4>1
    <3>2. SubSeq(s, 1, Len(s)) = s
      BY SubSeqFull
    <3>3. SubSeq(s, 1 + 1, 1) = << >>
      BY <3>1, SubSeqEmpty
    <3> QED  BY <3>1, <3>2, <3>3
  <2>4. buf' = <<r>>
    BY <1>1, <1>2, <2>1, <2>2, <2>3
  <2>5. c2s'[o] = << >>
    BY <1>3, <2>1, <2>2, <2>3 DEF Bytes
  <2> QED  BY <2>1, <2>4, <2>5
<1>12. Replies(o)'
  <2>1. Byte("fd", Own(o))' = Byte("fd", Own(o)) /\ Byte("err", Own(o))' = Byte("err", Own(o))
    BY <1>10 DEF Byte
  <2> QED  BY <1>3, <1>7, <1>10, <2>1 DEF Replies
<1>13. Requests(o)' /\ Service(o)'
  <2>1. s2c[o] = << >> /\ cpc[o] \notin {"new", "idle"}
    BY <1>1, <1>7 DEF Requests
  <2>2. Requests(o)'
    BY <1>3, <1>11, <2>1 DEF Requests
  <2>3. Service(o)'
    BY <1>3, <1>10, <1>11, <2>1 DEF Service
  <2> QED  BY <2>2, <2>3
<1> QED  BY <1>3, <1>6, <1>8, <1>12, <1>13 DEF Protocol

\* What handle_request makes of such a request.
LEMMA HandleRequest ==
  ASSUME NEW c \in Clients, NEW kind \in ShortKinds, buf = Asked(c, kind)
  PROVE  Outcome = kind /\ Ask = Own(c)
<1>1. /\ buf[1] = [cl |-> c, call |-> calls[c], kind |-> kind, pos |-> 1]
      /\ Len(buf) = 1
  BY DEF Asked
<1>2. ReqLen(kind) = 1
  BY DEF ShortKinds, ReqLen
<1>3. buf[Len(buf)] = buf[1]
  BY <1>1, Zenon
<1>4. Nul(buf[1])
  BY <1>1, <1>2 DEF Nul
<1>5. Outcome = kind
  BY <1>1, <1>3, <1>4 DEF Outcome
<1> QED  BY <1>1, <1>5 DEF Ask, Own

\* send_fd and send_err write to the client in service, whose stream is empty or
\* has the message; the write fails if that client is gone.
LEMMA SendProtocol ==
  ASSUME ProtocolInv, SendFd \/ SendText \/ SendStatus
  PROVE  Protocol'
<1> USE DEF ProtocolInv, ReadyInv, tables, server, net, streams, clients
<1>1. /\ UNCHANGED <<loop, client, pollfd, sfd, c2s, cpc, calls, said, answer>>
      /\ spc \in {"request", "status"} /\ Up
  BY DEF SendFd, SendText, SendStatus, Up
<1>2. PICK c \in Clients : InService(c)
  BY <1>1 DEF Protocol
<1>3. Owner(AnswerFd) = c /\ \A d \in Clients \ {c} : ~InService(d)
  BY <1>2, OwnerOf DEF InService, TablesInv, Apart
<1>4. /\ \A d \in Clients : Replies(d) /\ Requests(d)
      /\ Service(c) /\ c2s[c] = << >>
  BY <1>1, <1>2 DEF Protocol, Requests
<1>5. PICK kind \in ShortKinds : buf = Asked(c, kind) /\ (spc = "status" => kind # "file")
  BY <1>4 DEF Service
<1>6. Outcome = kind /\ Ask = Own(c)
  BY <1>5, HandleRequest
<1>7. /\ cpc \in [Clients -> {"new", "idle", "recv", "gone", "dumped"}]
      /\ DOMAIN said = Clients /\ DOMAIN answer = Clients /\ DOMAIN s2c = Clients
  BY DEF TablesInv, Types, Protocol
<1>8. ~Gone(c) => cpc[c] = "recv"
  BY <1>2, <1>4, <1>7 DEF Requests, Gone
<1>9. /\ Own(c)' = Own(c) /\ Texts(c)' = Texts(c) /\ Answers(c)' = Answers(c)
      /\ \A k \in ShortKinds : Asked(c, k)' = Asked(c, k)
      /\ End("fd", c) = <<Byte("nul", Ask), Byte("fd", Ask)>>
      /\ End("err", c) = <<Byte("nul", Ask), Byte("err", Ask)>>
  BY <1>1, <1>6, SameCall DEF End
<1>10. CASE spc' = "down" /\ UNCHANGED s2c
  <2>1. \A d \in Clients : Replies(d)'
    BY <1>1, <1>4, <1>10, Untouched
  <2>2. ~Up' /\ \A d \in Clients : ~InService(d)'
    BY <1>10 DEF Up, InService
  <2> QED  BY <1>1, <1>7, <1>10, <2>1, <2>2 DEF Protocol
<1>11. ASSUME NEW bytes, ~Gone(c), s2c' = [s2c EXCEPT ![c] = @ \o bytes], s2c[c] \o bytes \in Answers(c), spc' = "scan"
       PROVE  Protocol'
  <2>1. \A d \in Clients : ~InService(d)'
    BY <1>11 DEF InService
  <2>2. \A d \in Clients \ {c} : Replies(d)' /\ Requests(d)'
    BY <1>1, <1>4, <1>11, <2>1, Untouched
  <2>3. s2c'[c] \in Answers(c)
    BY <1>7, <1>11
  <2>4. Byte("fd", Own(c))' = Byte("fd", Own(c)) /\ Byte("err", Own(c))' = Byte("err", Own(c))
    BY <1>9 DEF Byte
  <2>5. Replies(c)'
    BY <1>1, <1>4, <1>8, <1>9, <1>11, <2>3, <2>4 DEF Replies
  <2>6. Requests(c)'
    BY <1>1, <1>4, <1>8, <1>11, <2>1 DEF Requests
  <2> QED  BY <1>1, <1>7, <1>11, <2>1, <2>2, <2>5, <2>6 DEF Protocol
<1>12. ASSUME ~Gone(c), s2c' = s2c \/ s2c' = [s2c EXCEPT ![c] = @ \o Texts(c)], spc' = "status",
              spc = "request", kind # "file", UNCHANGED <<i, buf>>
       PROVE  Protocol'
  <2>1. \A d \in Clients : InService(d)' <=> InService(d)
    BY <1>1, <1>12 DEF InService, Connected, AnswerFd
  <2>2. \A d \in Clients \ {c} : Replies(d)' /\ Requests(d)' /\ ~InService(d)'
    BY <1>1, <1>3, <1>4, <1>7, <1>12, <2>1, Untouched
  <2>3. s2c[c] = << >>
    BY <1>4, <1>12 DEF Service
  <2>4. << >> \o Texts(c) = Texts(c)
    <3>1. Texts(c) \in Answers(c)
      BY DEF Answers
    <3> QED  BY <3>1, AnswerShape, ConcatEmptySeq
  <2>5. s2c'[c] \in {<< >>, Texts(c)}
    BY <1>7, <1>12, <2>3, <2>4
  <2>6. Byte("fd", Own(c))' = Byte("fd", Own(c)) /\ Byte("err", Own(c))' = Byte("err", Own(c))
    BY <1>9 DEF Byte
  <2>7. Replies(c)'
    BY <1>1, <1>4, <1>8, <1>9, <1>12, <2>5, <2>6 DEF Replies, Answers
  <2>8. Requests(c)'
    BY <1>1, <1>4, <1>8, <1>12, <2>1 DEF Requests
  <2>9. Service(c)'
    BY <1>5, <1>9, <1>12, <2>5 DEF Service
  <2> QED  BY <1>1, <1>2, <1>7, <1>12, <2>1, <2>2, <2>7, <2>8, <2>9 DEF Protocol
<1>13. CASE SendFd
  <2>1. /\ spc = "request"
        /\ IF Gone(c) THEN spc' = "down" /\ UNCHANGED s2c
           ELSE spc' = "scan" /\ s2c' = [s2c EXCEPT ![c] = @ \o End("fd", c)]
    BY <1>3, <1>9, <1>13 DEF SendFd, Write
  <2>2. s2c[c] = << >> /\ << >> \o End("fd", c) = End("fd", c)
    BY <1>4, <2>1 DEF Service, End
  <2> QED  BY <1>10, <1>11, <2>1, <2>2 DEF Answers
<1>14. CASE SendText
  <2>1. /\ spc = "request" /\ kind # "file" /\ errmsg' = Own(c) /\ UNCHANGED <<i, buf>>
    BY <1>6, <1>14 DEF SendText, Message, ShortKinds
  <2>2. \/ spc' = "status" /\ UNCHANGED s2c
        \/ Gone(c) /\ spc' = "down" /\ UNCHANGED s2c
        \/ ~Gone(c) /\ spc' = "status" /\ s2c' = [s2c EXCEPT ![c] = @ \o Texts(c)]
    BY <1>3, <1>14, <2>1 DEF SendText, Write, Texts
  <2>3. CASE Gone(c) /\ spc' = "status" /\ UNCHANGED s2c
    <3>1. \A d \in Clients : InService(d)' <=> InService(d)
      BY <1>1, <2>1, <2>3 DEF InService, Connected, AnswerFd
    <3>2. \A d \in Clients : Replies(d)' /\ Requests(d)'
      BY <1>1, <1>4, <2>3, <3>1, Untouched
    <3>3. Service(c)'
      BY <1>1, <1>5, <1>9, <2>1, <2>3 DEF Service, Gone
    <3> QED  BY <1>1, <1>2, <1>3, <1>7, <2>3, <3>1, <3>2, <3>3 DEF Protocol
  <2> QED  BY <1>10, <1>12, <2>1, <2>2, <2>3
<1>15. CASE SendStatus
  <2>1. /\ spc = "status"
        /\ IF Gone(c) THEN spc' = "down" /\ UNCHANGED s2c
           ELSE spc' = "scan" /\ s2c' = [s2c EXCEPT ![c] = @ \o End("err", c)]
    BY <1>3, <1>9, <1>15 DEF SendStatus, Write
  <2>2. CASE Gone(c)
    BY <1>10, <2>1, <2>2
  <2>3. CASE ~Gone(c)
    <3>1. s2c[c] \in {<< >>, Texts(c)}
      BY <1>4, <2>1, <2>3 DEF Service
    <3>2. << >> \o End("err", c) = End("err", c)
      BY DEF End
    <3>3. s2c[c] \o End("err", c) \in Answers(c)
      BY <3>1, <3>2 DEF Answers
    <3> QED  BY <1>11, <2>1, <2>3, <3>3
  <2> QED  BY <2>2, <2>3
<1> QED  BY <1>13, <1>14, <1>15

LEMMA ProtocolStep ==
  ASSUME ProtocolInv, ShortMenu, [Next]_vars
  PROVE  ProtocolInv'
<1>1. ReadyInv'
  BY ReadyStep DEF ProtocolInv
<1>2. CASE \E c \in Clients : csopen(c)
  BY <1>1, <1>2, AskProtocol DEF ProtocolInv
<1>3. CASE \E c \in Clients : recv_fd(c)
  BY <1>1, <1>3, ReceiveProtocol DEF ProtocolInv
<1>4. CASE \E c \in Clients : cli_conn(c) \/ RecvEof(c) \/ Leave(c)
  BY <1>1, <1>4, ComeAndGoProtocol DEF ProtocolInv
<1>5. CASE Poll \/ Select \/ Accept \/ ScanDone \/ HangUp \/ AcceptStale
  BY <1>1, <1>5, QuietProtocol DEF ProtocolInv
<1>6. CASE Read
  BY <1>1, <1>6, ReadProtocol DEF ProtocolInv
<1>7. CASE SendFd \/ SendText \/ SendStatus
  BY <1>1, <1>7, SendProtocol DEF ProtocolInv
<1>8. CASE Ended \/ UNCHANGED vars
  <2>1. UNCHANGED vars
    BY <1>8 DEF Ended
  <2>2. UNCHANGED <<loop, client, pollfd, spc, i, sfd, buf, c2s, s2c, cpc, calls, said, answer>>
    BY <2>1 DEF vars, tables, server, net, streams, clients
  <2>3. \A c \in Clients : InService(c)' <=> InService(c)
    BY <2>2 DEF InService, Connected, AnswerFd
  <2>4. ASSUME NEW c \in Clients PROVE Replies(c)' /\ (Up' => Requests(c)') /\ (InService(c)' => Service(c)')
    BY <2>2, <2>3, Untouched DEF ProtocolInv, Protocol, Up
  <2> QED  BY <1>1, <2>2, <2>3, <2>4 DEF ProtocolInv, Protocol
<1> QED  BY <1>2, <1>3, <1>4, <1>5, <1>6, <1>7, <1>8 DEF Next, Serve

LEMMA ProtocolKept == ShortMenu /\ Spec => []ProtocolInv
<1> SUFFICES ASSUME ShortMenu PROVE Spec => []ProtocolInv
  OBVIOUS
<1>1. Init /\ ReadyInv => ProtocolInv
  <2> SUFFICES ASSUME Init, ReadyInv PROVE Protocol
    BY DEF ProtocolInv
  <2>1. /\ spc = "wait"
        /\ c2s = [c \in Clients |-> << >>] /\ s2c = [c \in Clients |-> << >>]
        /\ cpc = [c \in Clients |-> "new"]
        /\ said = [c \in Clients |-> {}] /\ answer = [c \in Clients |-> None]
    BY DEF Init
  <2>2. \A c \in Clients : ~InService(c)
    BY <2>1 DEF InService
  <2>3. \A c \in Clients : Replies(c) /\ Requests(c)
    BY <2>1, <2>2 DEF Replies, Requests
  <2> QED  BY <2>1, <2>2, <2>3 DEF Protocol
<1>2. ProtocolInv /\ [Next]_vars => ProtocolInv'
  BY ProtocolStep
<1> QED  BY <1>1, <1>2, ReadyKept, PTL DEF Spec

\* csopen returns the answer to its own request and writes the message about it,
\* however the requests of the clients follow each other in the server, as long as
\* they fit the buffer and can be parsed.
THEOREM AnswersAreOwn == ShortMenu /\ Spec => []OwnAnswer
<1>1. ProtocolInv => OwnAnswer
  BY DEF ProtocolInv, Protocol, Replies, OwnAnswer, Own
<1> QED  BY <1>1, ProtocolKept, PTL

\* recv_fd never finds the null of an answer anywhere but before its last byte: the
\* longest message and the two bytes of send_fd fit one buffer of recv_fd.
THEOREM NullsInPlace == ShortMenu /\ Spec => []NoFormatError
<1>1. ProtocolInv => NoFormatError
  BY DEF ProtocolInv, Protocol, Replies, NoFormatError
<1> QED  BY <1>1, ProtocolKept, PTL
=============================================================================
