---------------------------- MODULE MCOpenServer ----------------------------
(* Small instances of OpenServer.                                            *)
EXTENDS OpenServer, TLC

CONSTANTS c1, c2, c3

\* Two clients that ask, one of them twice, and one that comes and goes.
ServeMenu == c1 :> <<{"file", "usage"}, {"file"}>> @@ c2 :> <<{"nofile"}>> @@ c3 :> << >>

\* One client whose first name is too long.
LongMenu == c1 :> <<{"long"}, {"file"}>>
=============================================================================
