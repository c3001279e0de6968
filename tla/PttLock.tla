------------------------------ MODULE PttLock ------------------------------
(***************************************************************************)
(* What the PTT arbiter of urc200-server promises its clients, without its *)
(* queue, its watchdog or its radio: one owner at a time, every request    *)
(* gets one answer, and the answer says the truth about the lock at the    *)
(* moment it is given.                                                     *)
(***************************************************************************)
CONSTANTS Clients,   \* control-WebSocket connections
          NoOne      \* the value of holder when the lock is free

VARIABLES holder,    \* who owns PTT
          asking,    \* the clients whose request has not been answered
          answer,    \* the last answer each client was given
          closed     \* the arbiter has stopped

lockVars == <<holder, asking, answer, closed>>

Answers == {"none", "granted", "locked", "radio_error", "down"}

LockTypeOK == /\ holder \in Clients \cup {NoOne}
              /\ asking \subseteq Clients
              /\ answer \in [Clients -> Answers]
              /\ closed \in BOOLEAN

LockInit == /\ holder = NoOne
            /\ asking = {}
            /\ answer = [c \in Clients |-> "none"]
            /\ closed = FALSE

Ask(c) == /\ c \notin asking
          /\ asking' = asking \cup {c}
          /\ UNCHANGED <<holder, answer, closed>>

(* One answer to a pending request.                                        *)
Reply(c, a) == /\ c \in asking
               /\ asking' = asking \ {c}
               /\ answer' = [answer EXCEPT ![c] = a]

Grant(c) == /\ Reply(c, "granted")
            /\ ~closed
            /\ holder = NoOne
            /\ holder' = c
            /\ UNCHANGED closed

DenyLocked(c) == /\ Reply(c, "locked")
                 /\ ~closed
                 /\ holder # NoOne
                 /\ UNCHANGED <<holder, closed>>

DenyRadio(c) == /\ Reply(c, "radio_error")
                /\ ~closed
                /\ holder = NoOne
                /\ UNCHANGED <<holder, closed>>

DenyDown(c) == /\ Reply(c, "down")
               /\ closed
               /\ UNCHANGED <<holder, closed>>

Answer(c) == Grant(c) \/ DenyLocked(c) \/ DenyRadio(c) \/ DenyDown(c)

(* A request made of a stopped arbiter is answered on the spot.            *)
AskClosed(c) == /\ closed
                /\ c \notin asking
                /\ answer' = [answer EXCEPT ![c] = "down"]
                /\ UNCHANGED <<holder, asking, closed>>

Release == /\ holder # NoOne
           /\ holder' = NoOne
           /\ UNCHANGED <<asking, answer, closed>>

(* The arbiter stops only with the lock free.                              *)
Close == /\ holder = NoOne
         /\ ~closed
         /\ closed' = TRUE
         /\ UNCHANGED <<holder, asking, answer>>

LockNext == \/ \E c \in Clients : Ask(c) \/ Answer(c) \/ AskClosed(c)
            \/ Release
            \/ Close

LockSafety == LockInit /\ [][LockNext]_lockVars

(* Every pending request is answered.                                      *)
LockSpec == LockSafety /\ \A c \in Clients : WF_lockVars(Answer(c))
=============================================================================
