---------------------------- MODULE MCScanBoard ----------------------------
(* Instances of ScanBoard for TLC.                                         *)
EXTENDS ScanBoard, TLC

CONSTANTS b1, b2

MCBrowsers == {b1, b2}
Symmetry   == Permutations(MCBrowsers)
=============================================================================
