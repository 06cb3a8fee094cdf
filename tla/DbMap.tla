------------------------------- MODULE DbMap -------------------------------
(***************************************************************************)
(* What apue.3e/db/apue_db.h promises its callers: every call takes effect *)
(* at one instant between its invocation and its return, on one map from   *)
(* keys to data shared by all processes.                                   *)
(*                                                                         *)
(* Two promises are weaker than that, and on purpose.  db_nextrec may also *)
(* return a record whose db_store has not taken effect (it is in the files *)
(* but not on its hash chain).  And a process may end inside a call; a     *)
(* db_store that ends at the size limit of the index file may take the     *)
(* record it was replacing with it.                                        *)
(***************************************************************************)
CONSTANTS Procs, Keys, Values, Blank, Requests

VARIABLES
  map,    \* map[k]: the data of key k, Blank if there is none
  call    \* call[p]: [st, req, rc] of the call process p is in

vars == <<map, call>>

States == {"idle", "called", "done", "ended"}
Stores == {"insert", "replace", "store"}
None == [st |-> "none", key |-> Blank, val |-> Blank]
Answer(st) == [None EXCEPT !.st = st]

Init ==
  /\ map \in [Keys -> Values \cup {Blank}]
  /\ call = [p \in Procs |-> [st |-> "idle"]]

Invoke(p) ==
  /\ call[p].st = "idle"
  /\ \E r \in Requests : call' = [call EXCEPT ![p] = [st |-> "called", req |-> r]]
  /\ UNCHANGED map

\* The call of p takes effect with answer rc and leaves the map as new.
Effect(p, rc, new) ==
  /\ call' = [call EXCEPT ![p] = [st |-> "done", req |-> call[p].req, rc |-> rc]]
  /\ map' = new

Present(p) == map[call[p].req.key] # Blank
Put(p, v) == [map EXCEPT ![call[p].req.key] = v]

Fetch(p) ==
  /\ call[p].req.op = "fetch"
  /\ Effect(p, IF Present(p)
               THEN [st |-> "ok", key |-> call[p].req.key, val |-> map[call[p].req.key]]
               ELSE None, map)

Delete(p) ==
  /\ call[p].req.op = "delete"
  /\ IF Present(p) THEN Effect(p, Answer("ok"), Put(p, Blank)) ELSE Effect(p, None, map)

Store(p) ==
  /\ call[p].req.op \in Stores
  /\ CASE call[p].req.op = "insert" /\ Present(p)   -> Effect(p, Answer("exists"), map)
       [] call[p].req.op = "replace" /\ ~Present(p) -> Effect(p, Answer("enoent"), map)
       [] OTHER -> Effect(p, Answer("ok"), Put(p, call[p].req.val))

\* Some process is storing v under k, or ended while it was.
InFlight(k, v) ==
  \E q \in Procs : /\ call[q].st \in {"called", "ended"}
                   /\ call[q].req.op \in Stores
                   /\ call[q].req.key = k /\ call[q].req.val = v

NextRec(p) ==
  /\ call[p].req.op = "nextrec"
  /\ \/ Effect(p, None, map)
     \/ \E k \in Keys, v \in Values :
          /\ map[k] = v \/ InFlight(k, v)
          /\ Effect(p, [st |-> "ok", key |-> k, val |-> v], map)

Take(p) == call[p].st = "called" /\ (Fetch(p) \/ Delete(p) \/ Store(p) \/ NextRec(p))

Return(p) ==
  /\ call[p].st = "done"
  /\ call' = [call EXCEPT ![p] = [st |-> "idle"]]
  /\ UNCHANGED map

\* The process ends, outside a call or inside one.
End(p) ==
  /\ call[p].st # "ended"
  /\ call' = [call EXCEPT ![p] =
       [st |-> "ended", req |-> IF call[p].st = "called" THEN call[p].req
                                ELSE [op |-> "fetch", key |-> Blank, val |-> Blank]]]
  /\ \/ UNCHANGED map
     \/ call[p].st = "called" /\ call[p].req.op \in {"replace", "store"} /\ map' = Put(p, Blank)

Next == \E p \in Procs : Invoke(p) \/ Take(p) \/ Return(p) \/ End(p)

Spec == Init /\ [][Next]_vars
=============================================================================
