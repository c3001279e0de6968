----------------------------- MODULE ServerLife -----------------------------
(***************************************************************************)
(* The life of the server process (main.rs): the unkey at startup, the     *)
(* telemetry poller (urc200-serial/src/poller.rs) and the task that pauses *)
(* it while PTT is held, and the sequence that stops everything.           *)
(*                                                                         *)
(* All tasks send through the one radio dispatcher, whose queue is `line`: *)
(* its head is the command on the wire.  RadioLink models the dispatcher   *)
(* and PttArbiter the arbiter in full; here the arbiter is what the others *)
(* see of it: its commands and its events.                                 *)
(***************************************************************************)
EXTENDS Integers, Sequences

CONSTANTS EventCap,     \* capacity of the PttEvent broadcast channel (64)
          ControlCap,   \* CONTROL_CAPACITY (16)
          StartCap      \* starts queued for the arbiter ahead of Msg::Shutdown (63)

ASSUME LifeAssumption == /\ EventCap \in Nat \ {0}
                         /\ ControlCap \in Nat \ {0}
                         /\ StartCap \in Nat

VARIABLES
  line,      \* commands in the dispatcher: the poller's inquiry, Z, B and E
  keyed,     \* the transmitter is on
  arb,       \* what the PTT arbiter is doing
  events,    \* PttEvents the pause task has not received
  gate,      \* where the pause task is
  control,   \* the poller's control channel
  backoff,   \* the poller's BackoffMode
  poll,      \* where poll_loop is
  conn,      \* some control connection still holds a clone of the PTT handle
  main,      \* how far main is
  ahead,     \* starts the arbiter receives before Msg::Shutdown
  lastE,     \* what became of main's E of the shutdown
  stray      \* history: since an E was last carried out, or a B acknowledged,
             \* an E was not carried out or a B took effect unacknowledged

vars == <<line, keyed, arb, events, gate, control, backoff, poll, conn, main,
          ahead, lastE, stray>>
ending == <<ahead, lastE>>

Modes    == {"Normal", "Paused"}
Events   == {"acquired", "released"}
Commands == {"inquiry", "Z", "B", "zapE", "E", "mainE"}
Holding  == {"held", "relZap", "relE"}

TypeOK ==
  /\ line \in Seq(Commands)
  /\ keyed \in BOOLEAN
  /\ arb \in {"none", "free", "zap", "key", "down"} \cup Holding
  /\ events \in Seq(Events) /\ Len(events) <= EventCap
  /\ gate \in {"recv", "pausing", "resuming"}
  /\ control \in Seq(Modes) /\ Len(control) <= ControlCap
  /\ backoff \in Modes
  /\ poll \in {"none", "choose", "inquiry"}
  /\ conn \in BOOLEAN
  /\ main \in {"boot", "serving", "scanner", "ptt", "unkey", "poller", "failed"}
  /\ ahead \in 0..StartCap
  /\ lastE \in {"unsent", "sent", "done", "undone"}
  /\ stray \in BOOLEAN

(* The port is open; a previous instance may have died keyed.              *)
Init ==
  /\ line = <<"mainE">>
  /\ keyed \in BOOLEAN
  /\ arb = "none"
  /\ events = <<>>
  /\ gate = "recv"
  /\ control = <<>>
  /\ backoff = "Normal"
  /\ poll = "none"
  /\ conn = FALSE
  /\ main = "boot"
  /\ ahead = 0
  /\ lastE = "unsent"
  /\ stray = FALSE

Alive == main # "failed"

-----------------------------------------------------------------------------
(* The arbiter, its events, and the commands on the wire.                  *)

BroadcastAll(e) == events' = Append(events, e)   \* mutant: nothing is overwritten

(* A broadcast channel overwrites the oldest event of a slow receiver.     *)
Broadcast(e) == LET s == Append(events, e)
                IN  events' = IF Len(s) > EventCap THEN Tail(s) ELSE s

(* Msg::Start, of a connection or queued ahead of Msg::Shutdown.           *)
Start == \/ main \in {"serving", "scanner"} /\ conn /\ UNCHANGED ahead
         \/ main = "ptt" /\ ahead > 0 /\ ahead' = ahead - 1

Press ==
  /\ Start
  /\ arb = "free"
  /\ arb' = "zap"
  /\ line' = Append(line, "Z")
  /\ UNCHANGED <<keyed, events, gate, control, backoff, poll, conn, main, lastE, stray>>

(* PTT is held: DeniedLockedBy.                                            *)
Deny ==
  /\ Start
  /\ arb = "held"
  /\ UNCHANGED <<line, keyed, arb, events, gate, control, backoff, poll, conn,
                 main, lastE, stray>>

(* A stop, a disconnect, an expired heartbeat, or Msg::Shutdown.           *)
Release ==
  /\ Alive
  /\ arb = "held"
  /\ arb' = "relZap"
  /\ line' = Append(line, "zapE")
  /\ UNCHANGED <<keyed, events, gate, control, backoff, poll, conn, main, ending, stray>>

(* The dispatcher finishes a command; whoever sent it goes on.             *)
Finished(c) == /\ line # <<>>
               /\ Head(line) = c

InquiryDone ==
  /\ Finished("inquiry")
  /\ line' = Tail(line)
  /\ poll' = "choose"
  /\ UNCHANGED <<keyed, arb, events, gate, control, backoff, conn, main, ending, stray>>

ZapDone ==
  /\ \/ /\ Finished("Z")
        /\ arb' = "key"
        /\ line' = Append(Tail(line), "B")
     \/ /\ Finished("zapE")
        /\ arb' = "relE"
        /\ line' = Append(Tail(line), "E")
  /\ UNCHANGED <<keyed, events, gate, control, backoff, poll, conn, main, ending, stray>>

(* B is acknowledged; refused, or lost; or it takes effect and its answer  *)
(* is lost: the caller is denied, and the carrier is nobody's.             *)
KeyDone ==
  /\ Finished("B")
  /\ line' = Tail(line)
  /\ \/ /\ keyed' = TRUE
        /\ stray' = FALSE
        /\ arb' = "held"
        /\ Broadcast("acquired")
     \/ /\ arb' = "free"
        /\ UNCHANGED <<keyed, events, stray>>
     \/ /\ keyed' = TRUE
        /\ stray' = TRUE
        /\ arb' = "free"
        /\ UNCHANGED events
  /\ UNCHANGED <<gate, control, backoff, poll, conn, main, ending>>

(* What an E does: it is carried out, or refused or lost.                  *)
Unkeys(done) == /\ keyed' = (keyed /\ ~done)
                /\ stray' = ~done

(* The owner is dropped and Released is sent whatever became of E.         *)
UnkeyDone ==
  /\ Finished("E")
  /\ line' = Tail(line)
  /\ \E done \in BOOLEAN : Unkeys(done)
  /\ arb' = "free"
  /\ Broadcast("released")
  /\ UNCHANGED <<gate, control, backoff, poll, conn, main, ending>>

-----------------------------------------------------------------------------
(* The pause task.                                                         *)

GateReceives ==
  /\ Alive
  /\ gate = "recv"
  /\ events # <<>>
  /\ gate' = IF Head(events) = "acquired" THEN "pausing" ELSE "resuming"
  /\ events' = Tail(events)
  /\ UNCHANGED <<line, keyed, arb, control, backoff, poll, conn, main, ending, stray>>

Wanted == IF gate = "pausing" THEN "Paused" ELSE "Normal"

(* Mutant: try_send instead of send.                                       *)
GateTriesToSend ==
  /\ Alive
  /\ gate \in {"pausing", "resuming"}
  /\ control' = IF Len(control) < ControlCap THEN Append(control, Wanted) ELSE control
  /\ gate' = "recv"
  /\ UNCHANGED <<line, keyed, arb, events, backoff, poll, conn, main, ending, stray>>

GateSends ==
  /\ Alive
  /\ gate \in {"pausing", "resuming"}
  /\ Len(control) < ControlCap
  /\ control' = Append(control, Wanted)
  /\ gate' = "recv"
  /\ UNCHANGED <<line, keyed, arb, events, backoff, poll, conn, main, ending, stray>>

-----------------------------------------------------------------------------
(* poll_loop: control first, then the inquiry that is due.  It has no end: *)
(* control.recv() yields None once the poller's own sender and the pause   *)
(* task's clone are gone, and that task keeps its clone until main drops   *)
(* ptt_handle, which it does when it returns.                              *)

TakeControl ==
  /\ Alive
  /\ poll = "choose"
  /\ control # <<>>
  /\ backoff' = Head(control)
  /\ control' = Tail(control)
  /\ UNCHANGED <<line, keyed, arb, events, gate, poll, conn, main, ending, stray>>

Fire ==
  /\ Alive
  /\ poll = "choose"
  /\ backoff = "Normal"
  /\ control = <<>>
  /\ poll' = "inquiry"
  /\ line' = Append(line, "inquiry")
  /\ UNCHANGED <<keyed, arb, events, gate, control, backoff, conn, main, ending, stray>>

-----------------------------------------------------------------------------
(* main                                                                    *)

(* Mutant: the server does not wait for the E of the startup.              *)
StartupAtOnce ==
  /\ main = "boot"
  /\ main' = "serving"
  /\ arb' = "free"
  /\ poll' = "choose"
  /\ UNCHANGED <<line, keyed, events, gate, control, backoff, conn, ending, stray>>

(* "Best-effort": the server goes on whatever became of its E.             *)
Startup ==
  /\ main = "boot"
  /\ Finished("mainE")
  /\ line' = Tail(line)
  /\ \E done \in BOOLEAN : Unkeys(done)
  /\ main' = "serving"
  /\ arb' = "free"
  /\ poll' = "choose"
  /\ UNCHANGED <<events, gate, control, backoff, conn, ending>>

(* Control connections come while main serves; they outlive axum::serve.   *)
ConnectionsChange ==
  /\ main \in {"serving", "scanner", "ptt", "unkey", "poller"}
  /\ ~conn => main = "serving"
  /\ conn' = ~conn
  /\ UNCHANGED <<line, keyed, arb, events, gate, control, backoff, poll, main, ending, stray>>

(* SIGTERM; the listener closes, main waits for the scanner.               *)
Signal ==
  /\ main = "serving"
  /\ main' = "scanner"
  /\ UNCHANGED <<line, keyed, arb, events, gate, control, backoff, poll, conn, ending, stray>>

(* The scanner has stopped; Msg::Shutdown queues behind what is there.     *)
ScannerStops ==
  /\ main = "scanner"
  /\ main' = "ptt"
  /\ ahead' \in 0..StartCap
  /\ UNCHANGED <<line, keyed, arb, events, gate, control, backoff, poll, conn, lastE, stray>>

(* axum::serve fails: main returns by `?`, and the process is gone.        *)
ServeFails ==
  /\ main = "serving"
  /\ main' = "failed"
  /\ UNCHANGED <<line, keyed, arb, events, gate, control, backoff, poll, conn, ending, stray>>

(* main goes on to its E of the shutdown.                                  *)
SendLastE == /\ main' = "unkey"
             /\ lastE' = "sent"
             /\ line' = Append(line, "mainE")

(* Mutant: ptt.shutdown is not waited for.                                 *)
ArbiterAbandoned ==
  /\ main = "ptt"
  /\ SendLastE
  /\ UNCHANGED <<keyed, arb, events, gate, control, backoff, poll, conn, ahead, stray>>

(* Mutant: the connections are waited for first.                           *)
ArbiterStopsLast ==
  /\ main = "ptt"
  /\ arb = "free" /\ ahead = 0
  /\ ~conn
  /\ arb' = "down"
  /\ SendLastE
  /\ UNCHANGED <<keyed, events, gate, control, backoff, poll, conn, ahead, stray>>

(* Msg::Shutdown reaches an idle arbiter, which ends.                      *)
ArbiterStops ==
  /\ main = "ptt"
  /\ arb = "free" /\ ahead = 0
  /\ arb' = "down"
  /\ SendLastE
  /\ UNCHANGED <<keyed, events, gate, control, backoff, poll, conn, ahead, stray>>

(* main's E is answered, refused or lost: main goes on, if it has not.     *)
(* What follows, poller.shutdown(), waits for a poll_loop that has no end. *)
LastUnkeyDone ==
  /\ main \in {"unkey", "poller"}
  /\ Finished("mainE")
  /\ line' = Tail(line)
  /\ \E done \in BOOLEAN :
       Unkeys(done) /\ lastE' = (IF done THEN "done" ELSE "undone")
  /\ main' = "poller"
  /\ UNCHANGED <<arb, events, gate, control, backoff, poll, conn, ahead>>

(* After 500 ms main waits no longer; its E stays queued.                  *)
LastUnkeyTimesOut ==
  /\ main = "unkey"
  /\ main' = "poller"
  /\ UNCHANGED <<line, keyed, arb, events, gate, control, backoff, poll, conn, ending, stray>>

-----------------------------------------------------------------------------
Dispatcher == Alive /\ (InquiryDone \/ ZapDone \/ KeyDone \/ UnkeyDone
                        \/ Startup \/ LastUnkeyDone)
Gate       == GateReceives \/ GateSends
Poller     == TakeControl \/ Fire

(* The arbiter's next message while main waits for it.                     *)
Arbiter    == main = "ptt" /\ (Press \/ Deny \/ (ahead = 0 /\ Release) \/ ArbiterStops)

Next == \/ Press \/ Deny \/ Release
        \/ Dispatcher
        \/ Gate
        \/ Poller
        \/ ConnectionsChange \/ Signal \/ ServeFails
        \/ ScannerStops \/ ArbiterStops \/ LastUnkeyTimesOut

Spec == Init /\ [][Next]_vars

(* Tasks run and take their messages, and commands end (RadioLink).  No    *)
(* user is assumed to do anything: nobody need press or let go.            *)
FairSpec == /\ Spec
            /\ WF_vars(Dispatcher)
            /\ WF_vars(Gate)
            /\ WF_vars(Poller)
            /\ WF_vars(ScannerStops)
            /\ WF_vars(Arbiter)

-----------------------------------------------------------------------------
(* Safety.                                                                 *)

(* main.rs, startup unkey, and ptt.rs, the only place that issues B: after *)
(* the startup the carrier is up only in a hold of this instance's         *)
(* arbiter, unless since the last E that was carried out an E was refused  *)
(* or lost, or a B took effect without being acknowledged.                 *)
CarrierIsArbiters == main # "boot" /\ keyed => arb \in Holding \/ stray

(* main.rs, shutdown unkey: from main's own E on nothing in the            *)
(* dispatcher's queue can raise the carrier, so the carrier is down for    *)
(* good once that E has been carried out, whatever holds, starts and lost  *)
(* commands came before it.                                                *)
UnkeyedAtClose ==
  /\ lastE # "unsent" => \A i \in 1..Len(line) : line[i] \in {"inquiry", "mainE"}
  /\ lastE = "done" => ~keyed

(* Once every event and control message has been taken the poller is       *)
(* paused exactly during a hold, even if the pause task lost events to the *)
(* broadcast channel: the last event of a burst is never the one lost.     *)
GateSettled ==
  events = <<>> /\ gate = "recv" /\ control = <<>>
    => (backoff = "Paused" <=> arb \in Holding)

(* Liveness.                                                               *)

(* A signal leads to main's E being given to the radio, and carried out,   *)
(* refused or lost there, whoever holds PTT, however many starts are       *)
(* queued and however many connections stay open.                          *)
SignalUnkeys == main = "scanner" ~> lastE \in {"done", "undone"}
=============================================================================
