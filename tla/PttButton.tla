----------------------------- MODULE PttButton -----------------------------
(***************************************************************************)
(* The push-to-talk button from the operator's finger to the lock: the     *)
(* page of static/index.html (lock toggle, pad and spacebar, pttIsMine,    *)
(* heartbeats, reconnect), the control-WebSocket handler of control_ws.rs  *)
(* that serves each of its connections, and the arbiter, of which the      *)
(* model keeps what PttLock says it promises: a free lock may be granted,  *)
(* any request may be denied (locked, radio error, arbiter down), the      *)
(* owner's stop or the watchdog frees it.                                  *)
(*                                                                         *)
(* Heartbeats are not messages of the model: a page that believes it is    *)
(* keyed beats, and the watchdog may find any owner silent (a slow line, a *)
(* frozen tab). That it does find one that is silent is PttArbiter's.      *)
(***************************************************************************)
EXTENDS Naturals, Sequences, FiniteSets

CONSTANTS Pages,     \* browser pages
          NoOne,     \* the value of holder when nobody owns PTT
          Other,     \* its value when some other client than Pages does
          Conns,     \* <<page, i>>: its i-th connection, the first included
          EventCap,  \* Released events a handler has not forwarded (64)
          UpCap,     \* messages on their way from a page
          DnCap      \* messages on their way to a page

ASSUME ButtonAssumption == /\ Conns \subseteq Pages \X (Nat \ {0})
                           /\ \A p \in Pages : <<p, 1>> \in Conns
                           /\ EventCap \in Nat \ {0}
                           /\ UpCap \in Nat \ {0}
                           /\ DnCap \in Nat \ {0}
                           /\ NoOne \notin Conns /\ Other \notin Conns
                           /\ Other # NoOne

VARIABLES armed,   \* pttArmed: the lock toggle is off
          down,    \* pad or spacebar is held
          mine,    \* pttIsMine
          tapped,  \* history: the last press ended before its ptt_start was
                   \* answered, and told the server nothing
          n,       \* which of its connections a page uses
          online,  \* its WebSocket is open (readyState 1)
          up,      \* messages from the page to the handler
          dn,      \* messages from the handler to the page
          at,      \* what the handler of a connection does
          events,  \* Released events queued for it
          stops,   \* its Stop or ClientGone is in the arbiter's queue
          holder   \* who owns PTT

pageVars == <<armed, down, mine, tapped>>
sockVars == <<n, online>>
lineVars == <<up, dn>>
vars == <<pageVars, sockVars, lineVars, at, events, stops, holder>>

Answered == {"granted", "denied"}
Served   == {"open", "asking"} \cup Answered

Mine(p)    == <<p, n[p]>>
Holds(p)   == holder = Mine(p)
Beats(p)   == mine[p] /\ online[p]

Init == /\ armed  = [p \in Pages |-> FALSE]
        /\ down   = [p \in Pages |-> FALSE]
        /\ mine   = [p \in Pages |-> FALSE]
        /\ tapped = [p \in Pages |-> FALSE]
        /\ n      = [p \in Pages |-> 1]
        /\ online = [p \in Pages |-> TRUE]
        /\ up     = [s \in Conns |-> <<>>]
        /\ dn     = [s \in Conns |-> <<>>]
        /\ at     = [s \in Conns |-> IF s[2] = 1 THEN "open" ELSE "none"]
        /\ events = [s \in Conns |-> 0]
        /\ stops  = [s \in Conns |-> FALSE]
        /\ holder = NoOne

-----------------------------------------------------------------------------
(* The page.                                                               *)

(* control.send: nothing goes out unless the socket is open.               *)
Send(p, m) == IF online[p]
              THEN /\ Len(up[Mine(p)]) < UpCap
                   /\ up' = [up EXCEPT ![Mine(p)] = Append(@, m)]
              ELSE UNCHANGED up

(* A ptt_start is out that the page has seen no answer to.                 *)
Unanswered(s) == \/ \E i \in DOMAIN up[s] : up[s][i] = "start"
                 \/ at[s] \in {"asking"} \cup Answered
                 \/ \E i \in DOMAIN dn[s] : dn[s][i] \in Answered

(* A press ends without a word to the server.                              *)
Tapped(p) == [tapped EXCEPT ![p] = @ \/ (~mine[p] /\ Unanswered(Mine(p)))]

(* stopPtt.                                                                *)
StopPtt(p) == IF mine[p]
              THEN Send(p, "stop") /\ tapped' = [tapped EXCEPT ![p] = FALSE]
              ELSE UNCHANGED up /\ tapped' = Tapped(p)

(* startPtt, from pointerdown or the spacebar.                             *)
StartPtt(p) == IF mine[p] THEN UNCHANGED up ELSE Send(p, "start")

Press(p) == /\ armed[p]
            /\ ~down[p]
            /\ down' = [down EXCEPT ![p] = TRUE]
            /\ StartPtt(p)
            /\ tapped' = [tapped EXCEPT ![p] = FALSE]
            /\ UNCHANGED <<armed, mine, sockVars, dn, at, events, stops, holder>>

(* Mutant: the end of a press is not told to the server.                   *)
ReleaseSilently(p) == /\ down[p]
                      /\ down' = [down EXCEPT ![p] = FALSE]
                      /\ UNCHANGED <<armed, mine, tapped, sockVars, lineVars, at, events, stops, holder>>

(* pointerup does nothing on a locked pad; pointercancel, pointerleave and *)
(* the spacebar stop whatever the lock says.                               *)
Release(p) == /\ down[p]
              /\ down' = [down EXCEPT ![p] = FALSE]
              /\ \/ StopPtt(p)
                 \/ ~armed[p] /\ UNCHANGED up /\ tapped' = Tapped(p)
              /\ UNCHANGED <<armed, mine, sockVars, dn, at, events, stops, holder>>

EngageLock(p) == /\ armed[p]
                 /\ armed' = [armed EXCEPT ![p] = FALSE]
                 /\ StopPtt(p)
                 /\ UNCHANGED <<down, mine, sockVars, dn, at, events, stops, holder>>

Unlock(p) == /\ ~armed[p]
             /\ armed' = [armed EXCEPT ![p] = TRUE]
             /\ UNCHANGED <<down, mine, tapped, sockVars, lineVars, at, events, stops, holder>>

(* Mutant: a page that takes ptt_released for a note about others.         *)
BelievesKeyed(m, before) == before \/ m = "granted"

(* ws.onmessage. ptt_released clears pttIsMine whoever was released.       *)
Believes(m, before) == CASE m = "granted"  -> TRUE
                         [] m = "released" -> FALSE
                         [] m = "denied"   -> before

Receive(p) == /\ online[p]
              /\ dn[Mine(p)] # <<>>
              /\ mine' = [mine EXCEPT ![p] = Believes(Head(dn[Mine(p)]), @)]
              /\ dn' = [dn EXCEPT ![Mine(p)] = Tail(@)]
              /\ UNCHANGED <<armed, down, tapped, sockVars, up, at, events, stops, holder>>

(* ws.onclose. What the page had sent may still reach the handler.         *)
Drop(p) == /\ online[p]
           /\ <<p, n[p] + 1>> \in Conns
           /\ online' = [online EXCEPT ![p] = FALSE]
           /\ dn'     = [dn EXCEPT ![Mine(p)] = <<>>]
           /\ UNCHANGED <<pageVars, n, up, at, events, stops, holder>>

(* open() again after a second: pttIsMine stays as it was.                 *)
Reconnect(p) == /\ ~online[p]
                /\ n'      = [n EXCEPT ![p] = @ + 1]
                /\ online' = [online EXCEPT ![p] = TRUE]
                /\ at'     = [at EXCEPT ![<<p, n[p] + 1>>] = "open"]
                /\ UNCHANGED <<pageVars, lineVars, events, stops, holder>>

-----------------------------------------------------------------------------
(* The handler of one connection; a message to a page that has gone is     *)
(* lost.                                                                   *)

Reached(s)   == s = Mine(s[1]) /\ online[s[1]]
Deliver(s, m) == IF Reached(s)
                 THEN /\ Len(dn[s]) < DnCap
                      /\ dn' = [dn EXCEPT ![s] = Append(@, m)]
                 ELSE UNCHANGED dn

(* The select is biased: events before the socket.                         *)
Forward(s) == /\ at[s] = "open"
              /\ events[s] > 0
              /\ events' = [events EXCEPT ![s] = @ - 1]
              /\ Deliver(s, "released")
              /\ UNCHANGED <<pageVars, sockVars, up, at, stops, holder>>

ReadStart(s) == /\ Head(up[s]) = "start"
                /\ at' = [at EXCEPT ![s] = "asking"]
                /\ UNCHANGED stops

ReadStop(s) == /\ Head(up[s]) = "stop"
               /\ stops' = [stops EXCEPT ![s] = TRUE]
               /\ UNCHANGED at

Read(s) == /\ at[s] = "open"
           /\ events[s] = 0
           /\ up[s] # <<>>
           /\ up' = [up EXCEPT ![s] = Tail(@)]
           /\ ReadStart(s) \/ ReadStop(s)
           /\ UNCHANGED <<pageVars, sockVars, dn, events, holder>>

(* ptt.start() has returned: its answer goes out before any event that was *)
(* queued meanwhile.                                                       *)
Reply(s) == /\ at[s] \in Answered
            /\ at' = [at EXCEPT ![s] = "open"]
            /\ Deliver(s, at[s])
            /\ UNCHANGED <<pageVars, sockVars, up, events, stops, holder>>

(* The end of the socket is noticed, at once or late: client_gone.         *)
Leave(s) == /\ at[s] = "open"
            /\ ~Reached(s)
            /\ at'    = [at EXCEPT ![s] = "gone"]
            /\ stops' = [stops EXCEPT ![s] = TRUE]
            /\ up'    = [up EXCEPT ![s] = <<>>]
            /\ events' = [events EXCEPT ![s] = 0]
            /\ UNCHANGED <<pageVars, sockVars, dn, holder>>

-----------------------------------------------------------------------------
(* The arbiter.                                                            *)

(* Mutant: an event channel without a bound.                               *)
BroadcastUncapped == events' = [s \in Conns |->
                         IF at[s] \in Served THEN events[s] + 1 ELSE events[s]]

(* Every subscriber gets the event; a handler that lags loses old ones.    *)
Broadcast == events' = [s \in Conns |->
                 IF at[s] \in Served /\ events[s] < EventCap
                 THEN events[s] + 1 ELSE events[s]]

(* A start is queued behind the stop its connection sent before.           *)
Grant(s) == /\ at[s] = "asking"
            /\ ~stops[s]
            /\ holder = NoOne
            /\ holder' = s
            /\ at' = [at EXCEPT ![s] = "granted"]
            /\ UNCHANGED <<pageVars, sockVars, lineVars, events, stops>>

Deny(s) == /\ at[s] = "asking"
           /\ ~stops[s]
           /\ at' = [at EXCEPT ![s] = "denied"]
           /\ UNCHANGED <<pageVars, sockVars, lineVars, events, stops, holder>>

TakeStop(s) == /\ stops[s]
               /\ stops' = [stops EXCEPT ![s] = FALSE]
               /\ IF holder = s
                  THEN holder' = NoOne /\ Broadcast
                  ELSE UNCHANGED <<events, holder>>
               /\ UNCHANGED <<pageVars, sockVars, lineVars, at>>

(* A client that is none of Pages gets PTT; how its hold came about and how *)
(* it ends is its own affair.                                              *)
GrantOther == /\ holder = NoOne
              /\ holder' = Other
              /\ UNCHANGED <<pageVars, sockVars, lineVars, at, events, stops>>

(* The watchdog, or the end of the other client's hold.                    *)
Expire == /\ holder # NoOne
          /\ holder' = NoOne
          /\ Broadcast
          /\ UNCHANGED <<pageVars, sockVars, lineVars, at, stops>>

-----------------------------------------------------------------------------
Handler(s) == Forward(s) \/ Read(s) \/ Reply(s)

Next == \/ \E p \in Pages : \/ Press(p) \/ Release(p) \/ EngageLock(p) \/ Unlock(p)
                            \/ Receive(p) \/ Drop(p) \/ Reconnect(p)
        \/ \E s \in Conns : Handler(s) \/ Leave(s) \/ Grant(s) \/ Deny(s) \/ TakeStop(s)
        \/ GrantOther
        \/ Expire

Spec == Init /\ [][Next]_vars

-----------------------------------------------------------------------------
Upward   == {"start", "stop"}
Downward == {"granted", "denied", "released"}

TypeOK == /\ armed \in [Pages -> BOOLEAN]
          /\ down \in [Pages -> BOOLEAN]
          /\ mine \in [Pages -> BOOLEAN]
          /\ tapped \in [Pages -> BOOLEAN]
          /\ \A p \in Pages : Mine(p) \in Conns
          /\ online \in [Pages -> BOOLEAN]
          /\ \A s \in Conns : /\ up[s] \in Seq(Upward) /\ Len(up[s]) <= UpCap
                              /\ dn[s] \in Seq(Downward) /\ Len(dn[s]) <= DnCap
          /\ at \in [Conns -> {"none", "gone"} \cup Served]
          /\ events \in [Conns -> 0..EventCap]
          /\ stops \in [Conns -> BOOLEAN]
          /\ holder \in Conns \cup {NoOne, Other}

(* The carrier follows the finger: a connection of a page that beats holds *)
(* PTT only while the page is unlocked with its pad or spacebar down, while *)
(* a stop of it is on its way, or after a tap: a press that ended before its *)
(* start was answered (index.html stopPtt, lockBtn.onclick, control_ws.rs  *)
(* PttStop). An owner that does not beat is the watchdog's.                *)
StopOnItsWay(s) == stops[s] \/ \E i \in DOMAIN up[s] : up[s][i] = "stop"

CarrierIsAttended ==
  \A p \in Pages : Holds(p) /\ Beats(p) => \/ armed[p] /\ down[p]
                                           \/ StopOnItsWay(Mine(p))
                                           \/ tapped[p]

(* What index.html:873 tells the operator, "press-and-hold to transmit": a *)
(* page keeps the carrier up only while its pad or spacebar is held, or    *)
(* until the stop of its release has arrived.                              *)
HoldToTransmit ==
  \A p \in Pages : Holds(p) /\ Beats(p) => down[p] \/ StopOnItsWay(Mine(p))

(* A page on its first connection that shows YOU ARE KEYED owns PTT, or    *)
(* the event that tells it otherwise is on its way (control_ws.rs event    *)
(* forwarding, index.html ptt_released).                                   *)
NewsOnItsWay(s) == events[s] > 0 \/ \E i \in DOMAIN dn[s] : dn[s][i] = "released"

KeyedPageIsOwner ==
  \A p \in Pages : Beats(p) /\ n[p] = 1 => Holds(p) \/ NewsOnItsWay(Mine(p))
=============================================================================
