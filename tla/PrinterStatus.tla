--------------------------- MODULE PrinterStatus ---------------------------
(***************************************************************************)
(* printer_status of apue.3e/printer/printd.c with readmore, and tread of  *)
(* printer/util.c: the printer's answers come from the network in pieces.  *)
(* An answer is a sequence of tokens that stand for its bytes; a token     *)
(* behind what was read may be anything.  Offsets count from 0.            *)
(***************************************************************************)
EXTENDS Integers, Sequences, SequencesExt

CONSTANTS IOBUFSZ   \* of the read buffer, in tokens

VARIABLES
  final, net,          \* the printer's last answer; answers that are not read yet
  data, bufsz,         \* what was read into the buffer, and its size
  datsz, pos,          \* the program's count of the data, and its index i
  lpc, success,
  whole, gaveUp        \* history: each read gave exactly one answer; a read failed

vars == <<final, net, data, bufsz, datsz, pos, lpc, success, whole, gaveUp>>

(* Status line, header lines with and without a "c", the empty line, and in  *)
(* the IPP header the status and the request id.                             *)
Codes == {"info", "ok", "error", "garbled"}
Body == {"status+", "status-", "id+", "id-"}
Tokens == Codes \cup Body \cup {"h", "c", "length", "nl", "cr"}
Reply(code, st, id) == <<code, "h", "c", "length", "nl", "cr", "nl", st, id>>
len == 2

Finals == {Reply(code, st, id) : code \in Codes \ {"info"}, st \in {"status+", "status-"}, id \in {"id+", "id-"}}
First == {<<>>, << <<"info", "nl">> >>}

Init ==
  /\ final \in Finals /\ \E f \in First : net = Append(f, final)
  /\ data = <<>> /\ bufsz = IOBUFSZ /\ datsz = 0 /\ pos = 0
  /\ lpc = "tread" /\ success = FALSE /\ whole = TRUE /\ gaveUp = FALSE

(* What index p of the buffer may hold. *)
At(p) == IF p < Len(data) /\ data[p + 1] \in Tokens THEN {data[p + 1]} ELSE Tokens

(* tread: up to n tokens go to the buffer at off.                            *)
tread(off, n, k) ==
  LET all == FlattenSeq(net) IN
  /\ k <= n /\ k <= Len(all)
  /\ data' = [p \in 1 .. (IF off = 0 \/ off + k > Len(data) THEN off + k ELSE Len(data)) |->
                IF p > off /\ p <= off + k THEN all[p - off]
                ELSE IF p <= Len(data) THEN data[p] ELSE "junk"]
  /\ whole' = (whole /\ off = 0 /\ k = Len(Head(net)))
  /\ net' = IF whole' THEN Tail(net) ELSE <<SubSeq(all, k + 1, Len(all))>>

(* ... or 0 at the end, or -1 after the timeout or an error. *)
GiveUp == lpc' = "done" /\ gaveUp' = TRUE /\ UNCHANGED <<net, data, bufsz, datsz, pos, success, whole>>

ReadFirst ==
  /\ lpc = "tread"
  /\ \/ GiveUp
     \/ \E k \in 1 .. bufsz :
          /\ tread(0, bufsz, k) /\ datsz' = k /\ pos' = 1 /\ lpc' = "code"
          /\ UNCHANGED <<bufsz, success, gaveUp>>

(* The offset that readmore returns is added as if it were a length. *)
readmore(to) ==
  LET bsz == IF pos >= bufsz THEN bufsz + IOBUFSZ ELSE bufsz IN
  \/ GiveUp
  \/ \E k \in 1 .. bsz :
       /\ tread(pos, bsz - pos, k) /\ bufsz' = bsz /\ datsz' = datsz + (pos + k)
       /\ lpc' = to /\ UNCHANGED <<pos, success, gaveUp>>

Goto(to) == lpc' = to /\ UNCHANGED <<net, data, bufsz, datsz, success, whole, gaveUp>>

(* Mutation: an informational answer is the last. *)
InfoEnds == lpc = "code" /\ Goto(IF data[1] = "ok" THEN "search" ELSE "done") /\ UNCHANGED pos

(* The status line: read on after an informational or a garbled one. *)
StatusLine ==
  /\ lpc = "code" /\ UNCHANGED pos
  /\ Goto(CASE data[1] = "ok" -> "search" [] data[1] = "error" -> "done" [] OTHER -> "tread")

(* Look for Content-Length, from every "c" on. *)
Search ==
  /\ lpc = "search"
  /\ IF pos >= datsz THEN readmore("search")
     ELSE \E t \in At(pos) : pos' = pos + 1 /\ Goto(IF t = "length" THEN "after" ELSE "search")

After == lpc = "after" /\ IF pos >= datsz THEN readmore("find") ELSE Goto("find") /\ UNCHANGED pos

(* Look for the empty line; the loop asks for more only at datsz, and goes   *)
(* on for ever when it has stopped at datsz - 2.                             *)
FindEnd ==
  /\ lpc = "find"
  /\ IF pos < datsz - 2
     THEN \E t \in At(pos) \X At(pos + 1) \X At(pos + 2) :
            IF t = <<"nl", "cr", "nl">> THEN pos' = pos + 3 /\ Goto("found")
                                        ELSE pos' = pos + 1 /\ Goto("find")
     ELSE IF pos >= datsz THEN readmore("find") ELSE Goto("find") /\ UNCHANGED pos

Found == lpc = "found" /\ IF pos >= datsz THEN readmore("body") ELSE Goto("body") /\ UNCHANGED pos

(* At most one more read for the rest, to where the IPP header begins. *)
GetBody == lpc = "body" /\ IF datsz - pos < len THEN readmore("ipp") ELSE Goto("ipp") /\ UNCHANGED pos

IppStatus ==
  /\ lpc = "ipp" /\ lpc' = "done"
  /\ \E t \in At(pos) \X At(pos + 1) : success' = (t = <<"status+", "id+">>)
  /\ UNCHANGED <<net, data, bufsz, datsz, pos, whole, gaveUp>>

printer_status ==
  /\ ReadFirst \/ StatusLine \/ Search \/ After \/ FindEnd \/ Found \/ GetBody \/ IppStatus
  /\ UNCHANGED final

Next == printer_status

(* printer_status always goes on while it can. *)
FairSpec == Init /\ [][Next]_vars /\ WF_vars(Next)

-----------------------------------------------------------------------------
Said == final = Reply("ok", "status+", "id+")

(* A job counts as printed only if the printer said so, and does if it said  *)
(* so, as long as every answer comes in one read of its own, an              *)
(* informational answer before it or not.                                    *)
AnswerUnderstood == lpc = "done" /\ whole => success = (Said /\ ~gaveUp)

(* ... and then the program does not look for the end for ever.              *)
StatusEnds == <>(lpc = "done" \/ ~whole)

(* The comment in printer_status: header and response "can be returned in    *)
(* multiple read attempts".                                                  *)
AnyPieces == <>(lpc = "done") /\ [](lpc = "done" => success = (Said /\ ~gaveUp))
=============================================================================
