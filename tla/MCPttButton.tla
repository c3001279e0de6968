---------------------------- MODULE MCPttButton ----------------------------
(* Instances of PttButton for TLC: the properties speak of one page at a   *)
(* time, so one page is modelled in full, with two connections, and every  *)
(* other client of the server is Other.                                    *)
EXTENDS PttButton

CONSTANTS p1

MCPages == {p1}
MCConns == {<<p1, 1>>, <<p1, 2>>}
=============================================================================
