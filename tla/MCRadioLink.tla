---------------------------- MODULE MCRadioLink ----------------------------
(* Instances of RadioLink for TLC.                                         *)
EXTENDS RadioLink

CONSTANTS a, b, t1, t2, t3

MCCallers == {a, b}
MCTickets == {t1, t2, t3}
=============================================================================
