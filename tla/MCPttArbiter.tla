---------------------------- MODULE MCPttArbiter ----------------------------
(* Instances of PttArbiter for TLC.                                        *)
EXTENDS PttArbiter, TLC

CONSTANTS c1, c2

MCClients == {c1, c2}
Symmetry  == Permutations(MCClients)

O(r, x) == [reply |-> r, exec |-> x]

(* The link answers truthfully; E may lose its reply but not its effect.   *)
HonestB == {O("ok", TRUE), O("nak", FALSE), O("err", FALSE)}
HonestE == {O("ok", TRUE), O("err", TRUE)}

(* Commands and replies are lost as a serial cable and a timeout lose them *)
LossyB == HonestB \cup {O("err", TRUE)}
LossyE == HonestE \cup {O("err", FALSE), O("nak", FALSE)}
=============================================================================
