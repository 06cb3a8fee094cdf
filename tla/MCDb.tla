-------------------------------- MODULE MCDb --------------------------------
(* Small instances of Db.  Keys a and b share a hash chain, key c has its    *)
(* own; a and c have the same length, b another.  Data x and y have the same *)
(* length, z another.                                                        *)
EXTENDS Db, TLC

CONSTANTS p1, p2, p3, a, b, c, x, y, z, C1, C2

MCHash == a :> C1 @@ b :> C1 @@ c :> C2
MCKeyLen == a :> 1 @@ b :> 2 @@ c :> 1
MCDatLen == x :> 2 @@ y :> 2 @@ z :> 3

Req(op, k, v) == [op |-> op, key |-> k, val |-> v]
Rec(k, v) == [key |-> k, val |-> v]

Fetches(K) == {Req("fetch", k, Blank) : k \in K}
Deletes(K) == {Req("delete", k, Blank) : k \in K}
Stores(O, K, V) == {Req(o, k, v) : o \in O, k \in K, v \in V}
Scans == {Req("nextrec", Blank, Blank)}

\* The first process updates; the second does as well, or scans beside it.
OpsPreload == <<Rec(b, x), Rec(a, x)>>
Updates1 == Deletes({a, b}) \cup Stores({"store"}, {a}, {z}) \cup Stores({"store"}, {c}, {x})
Updates2 == Stores({"store"}, {a}, {y, z}) \cup Stores({"insert", "replace"}, {b}, {y}) \cup Fetches({a})
OpsMenu ==
  p1 :> <<Updates1, Updates1>> @@
  p2 :> <<Updates2 \cup Scans, Updates2 \cup Scans, Scans, Scans, Scans>>

\* Three processes on two chains that meet only in the free list and at the
\* ends of the files.
CrossPreload == <<Rec(a, x), Rec(c, y)>>
CrossMenu ==
  LET m1 == Deletes({a}) \cup Stores({"store"}, {a}, {x, z})
      m2 == Deletes({c}) \cup Stores({"store"}, {c}, {y, z})
  IN p1 :> <<m1, m1>> @@ p2 :> <<m2, Stores({"store"}, {c}, {y})>> @@ p3 :> <<Stores({"insert"}, {b}, {z})>>
=============================================================================
