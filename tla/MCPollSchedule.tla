--------------------------- MODULE MCPollSchedule ---------------------------
(* Three inquiries, all alike.                                             *)
EXTENDS PollSchedule

CONSTANTS rssi, mode, preset

MCInquiries == {rssi, mode, preset}
=============================================================================
