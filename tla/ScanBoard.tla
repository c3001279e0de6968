----------------------------- MODULE ScanBoard -----------------------------
(***************************************************************************)
(* What browsers see of the scanner: the events its actor broadcasts, the  *)
(* snapshot it keeps for those who join later (ScannerHandle::current),    *)
(* the scan WebSocket of main.rs (handle_scan) and the scan panel of       *)
(* static/index.html with its Start/Stop button.                           *)
(*                                                                         *)
(* Of the scan itself (module Scanner) only what is told about it is left. *)
(* The actor sends an event first and brings the snapshot up to date       *)
(* after it; handlers on other threads may read it in between.             *)
(***************************************************************************)
EXTENDS Naturals, Sequences

CONSTANTS Browsers,
          Channels,     \* the channels a scan may tune, numbers from 1
          QueueCap,     \* events a handler has not forwarded: it keeps up (64)
          NetCap,       \* messages on their way to a browser
          CmdCap        \* the actor's command queue (32)

ASSUME BoardAssumption == /\ {"no", "nobody"} \intersect Browsers = {}
                          /\ Channels \subseteq Nat \ {0}
                          /\ QueueCap \in Nat \ {0}
                          /\ NetCap \in Nat \ {0, 1}
                          /\ CmdCap \in Nat \ {0}

VARIABLES running,  \* the actor's state is Some
          tuned,    \* the channel of this scan's last Tuned event, 0 if none
          posting,  \* whom to answer after the snapshot, "no" if it is right
          snapshot, \* the Option<ScanSnapshot>: {} or {last_tuned}
          cmds,     \* the actor's mpsc queue
          link,     \* where handle_scan is, per browser
          queue,    \* a handler's receiver of the events
          net,      \* messages on their way to a browser
          reply,    \* what scanner.start() has returned to a handler
          panel,    \* what a browser shows: active if its button says Stop
                    \* (scanActive), and the name of a channel, 0 if none
          hushed,   \* history: Stopped was told of an empty list, while the
                    \* present scan was running
          missed    \* history, per browser: what the event was about that it
                    \* subscribed too late for, while the snapshot it got was
                    \* from before it; nothing has told it since

actorVars == <<running, tuned, posting, snapshot>>
pageVars  == <<link, net, panel>>
history   == <<hushed, missed>>
vars == <<actorVars, cmds, queue, reply, pageVars, history>>

Names    == Channels \cup {0}
Event(k, c) == [kind |-> k, ch |-> c]
Events   == [kind : {"started", "stopped", "tuned"}, ch : Names]
Answers  == [kind : {"start_ack", "start_err"}, ch : {0}]
Messages == Events \cup Answers
Askers   == Browsers \cup {"nobody"}
Commands == [kind : {"start", "empty", "stop", "skip"}, from : Askers]
Panels   == [active : BOOLEAN, name : Names]
Idle     == [active |-> FALSE, name |-> 0]
Links    == {"off", "joining", "open", "starting"}
NoneHas  == [b \in Browsers |-> "none"]

Init == /\ running = FALSE
        /\ tuned = 0
        /\ posting = "no"
        /\ snapshot = {}
        /\ cmds = <<>>
        /\ queue = [b \in Browsers |-> <<>>]
        /\ link = [b \in Browsers |-> "off"]
        /\ net = [b \in Browsers |-> <<>>]
        /\ reply = [b \in Browsers |-> "none"]
        /\ panel = [b \in Browsers |-> Idle]
        /\ hushed = FALSE
        /\ missed = NoneHas

-----------------------------------------------------------------------------
(* The actor. Everybody who has subscribed gets each event.                *)
Broadcast(e) ==
  /\ \A b \in Browsers : Len(queue[b]) < QueueCap
  /\ queue' = [b \in Browsers |-> IF link[b] = "off" THEN queue[b]
                                                     ELSE Append(queue[b], e)]

Answer(to, a) == reply' = [b \in Browsers |-> IF b = to THEN a ELSE reply[b]]

Takes(k) == /\ posting = "no"
            /\ cmds # <<>>
            /\ Head(cmds).kind = k
            /\ cmds' = Tail(cmds)

TakeStart == /\ Takes("start")
             /\ Broadcast(Event("started", 0))
             /\ running' = TRUE
             /\ tuned' = 0
             /\ posting' = Head(cmds).from
             /\ hushed' = FALSE
             /\ missed' = NoneHas
             /\ UNCHANGED <<snapshot, reply, pageVars>>

(* No tunable channel, or no database: a scan that runs goes on, though    *)
(* everybody is told Stopped.                                              *)
TakeEmptyStart == /\ Takes("empty")
                  /\ Answer(Head(cmds).from, "start_err")
                  /\ Broadcast(Event("stopped", 0))
                  /\ hushed' = (hushed \/ running)
                  /\ missed' = NoneHas
                  /\ UNCHANGED <<actorVars, pageVars>>

Ends == /\ Broadcast(Event("stopped", 0))
        /\ running' = FALSE
        /\ tuned' = 0
        /\ posting' = "nobody"
        /\ missed' = NoneHas

TakeStop == /\ Takes("stop")
            /\ \/ running /\ Ends
               \/ ~running /\ UNCHANGED <<running, tuned, posting, queue, missed>>
            /\ UNCHANGED <<snapshot, reply, pageVars, hushed>>

TakeSkip == /\ Takes("skip")
            /\ UNCHANGED <<actorVars, queue, reply, pageVars, history>>

(* step(): a channel is tuned; a hit ends the scan if stop_on_hit is set.  *)
Tune(c) == /\ posting = "no"
           /\ running
           /\ Broadcast(Event("tuned", c))
           /\ tuned' = c
           /\ posting' = "nobody"
           /\ missed' = [b \in Browsers |-> IF missed[b] = "channel" THEN "none" ELSE missed[b]]
           /\ UNCHANGED <<running, snapshot, cmds, reply, pageVars, hushed>>

HitEndsScan == /\ posting = "no"
               /\ running
               /\ Ends
               /\ UNCHANGED <<snapshot, cmds, reply, pageVars, hushed>>

(* Mutant: the snapshot survives the scan.                                 *)
PostOfRunning == /\ posting # "no"
                 /\ snapshot' = IF running THEN {tuned} ELSE snapshot
                 /\ Answer(posting, "start_ack")
                 /\ posting' = "no"
                 /\ missed' = [b \in Browsers |-> IF link[b] = "joining" THEN "none" ELSE missed[b]]
                 /\ UNCHANGED <<running, tuned, cmds, queue, pageVars, hushed>>

(* set_snapshot or update_last_tuned, then the answer to a Start.          *)
Post == /\ posting # "no"
        /\ snapshot' = IF running THEN {tuned} ELSE {}
        /\ Answer(posting, "start_ack")
        /\ posting' = "no"
        /\ missed' = [b \in Browsers |-> IF link[b] = "joining" THEN "none" ELSE missed[b]]
        /\ UNCHANGED <<running, tuned, cmds, queue, pageVars, hushed>>

Actor == \/ TakeStart \/ TakeEmptyStart \/ TakeStop \/ TakeSkip
         \/ \E c \in Channels : Tune(c)
         \/ HitEndsScan \/ Post

-----------------------------------------------------------------------------
(* handle_scan subscribes before it reads the snapshot. It may do so, on   *)
(* another thread, after an event and before its snapshot.                 *)
Pending == CASE posting = "no"                              -> "none"
             [] posting # "no" /\ running /\ tuned # 0      -> "channel"
             [] posting # "no" /\ ~(running /\ tuned # 0)   -> "button"

Join(b) == /\ link[b] = "off"
           /\ link' = [link EXCEPT ![b] = "joining"]
           /\ missed' = [missed EXCEPT ![b] = Pending]
           /\ UNCHANGED <<actorVars, cmds, queue, net, reply, panel, hushed>>

Sends(b, ms) == /\ Len(net[b] \o ms) <= NetCap
                /\ net' = [net EXCEPT ![b] = @ \o ms]

(* Mutant: the newcomer is told of the scan but not of its channel.        *)
CatchUpStarted(b) == /\ link[b] = "joining"
                     /\ link' = [link EXCEPT ![b] = "open"]
                     /\ Sends(b, IF snapshot = {} THEN <<>> ELSE <<Event("started", 0)>>)
                     /\ UNCHANGED <<actorVars, cmds, queue, reply, panel, history>>

(* The synthetic started and tuned.                                        *)
CatchUp(b) ==
  /\ link[b] = "joining"
  /\ link' = [link EXCEPT ![b] = "open"]
  /\ \/ snapshot = {} /\ Sends(b, <<>>)
     \/ snapshot = {0} /\ Sends(b, <<Event("started", 0)>>)
     \/ \E c \in Channels : /\ snapshot = {c}
                            /\ Sends(b, <<Event("started", 0), Event("tuned", c)>>)
  /\ UNCHANGED <<actorVars, cmds, queue, reply, panel, history>>

Forward(b) == /\ link[b] = "open"
              /\ queue[b] # <<>>
              /\ Sends(b, <<Head(queue[b])>>)
              /\ queue' = [queue EXCEPT ![b] = Tail(@)]
              /\ UNCHANGED <<actorVars, cmds, link, reply, panel, history>>

(* Mutant: the channel has no bound.                                       *)
ToActorUnbounded(m) == cmds' = Append(cmds, m)

ToActor(m) == /\ Len(cmds) < CmdCap
              /\ cmds' = Append(cmds, m)

(* The handler reads a click, once it has forwarded the events (its select *)
(* is biased); what the button said then is what the browser had shown.    *)
Reads(b) == link[b] = "open" /\ queue[b] = <<>>

(* The button says Start: the handler awaits the answer.                   *)
ClickStart(b) == /\ Reads(b)
                 /\ ~panel[b].active
                 /\ \E k \in {"start", "empty"} : ToActor([kind |-> k, from |-> b])
                 /\ link' = [link EXCEPT ![b] = "starting"]
                 /\ UNCHANGED <<actorVars, queue, net, reply, panel, history>>

ClickStopOrSkip(b) == /\ Reads(b)
                      /\ panel[b].active
                      /\ \E k \in {"stop", "skip"} : ToActor([kind |-> k, from |-> "nobody"])
                      /\ UNCHANGED <<actorVars, queue, reply, pageVars, history>>

(* start_ack or start_err, before the events queued meanwhile.             *)
Answered(b) == /\ link[b] = "starting"
               /\ reply[b] # "none"
               /\ Sends(b, <<Event(reply[b], 0)>>)
               /\ link' = [link EXCEPT ![b] = "open"]
               /\ reply' = [reply EXCEPT ![b] = "none"]
               /\ UNCHANGED <<actorVars, cmds, queue, panel, history>>

(* What a message does to the panel: without a scan it names no channel.   *)
Shown(p, e) ==
  CASE e.kind \in {"started", "start_ack"} -> [p EXCEPT !.active = TRUE]
    [] e.kind \in {"stopped", "start_err"} -> Idle
    [] e.kind = "tuned"                    -> [p EXCEPT !.name = e.ch]

Show(b) == /\ net[b] # <<>>
           /\ panel' = [panel EXCEPT ![b] = Shown(@, Head(net[b]))]
           /\ net' = [net EXCEPT ![b] = Tail(@)]
           /\ UNCHANGED <<actorVars, cmds, queue, link, reply, history>>

(* The socket closes and the page will open another one; a Start that is   *)
(* under way has nobody to answer to.                                      *)
Leave(b) == /\ link[b] # "off"
            /\ link' = [link EXCEPT ![b] = "off"]
            /\ panel' = [panel EXCEPT ![b] = Idle]
            /\ queue' = [queue EXCEPT ![b] = <<>>]
            /\ net' = [net EXCEPT ![b] = <<>>]
            /\ reply' = [reply EXCEPT ![b] = "none"]
            /\ cmds' = [i \in DOMAIN cmds |->
                          IF cmds[i].from = b THEN [cmds[i] EXCEPT !.from = "nobody"] ELSE cmds[i]]
            /\ posting' = IF posting = b THEN "nobody" ELSE posting
            /\ missed' = [missed EXCEPT ![b] = "none"]
            /\ UNCHANGED <<running, tuned, snapshot, hushed>>

Browser(b) == \/ Join(b) \/ CatchUp(b) \/ Forward(b) \/ Show(b) \/ Answered(b)
              \/ ClickStart(b) \/ ClickStopOrSkip(b) \/ Leave(b)

Next == Actor \/ \E b \in Browsers : Browser(b)

Spec == Init /\ [][Next]_vars

-----------------------------------------------------------------------------
TypeOK == /\ running \in BOOLEAN
          /\ tuned \in Names
          /\ posting \in Askers \cup {"no"}
          /\ \E c \in Names : snapshot \subseteq {c}
          /\ cmds \in Seq(Commands) /\ Len(cmds) <= CmdCap
          /\ \A b \in Browsers :
               /\ queue[b] \in Seq(Events) /\ Len(queue[b]) <= QueueCap
               /\ net[b] \in Seq(Messages) /\ Len(net[b]) <= NetCap
          /\ link \in [Browsers -> Links]
          /\ reply \in [Browsers -> {"none", "start_ack", "start_err"}]
          /\ panel \in [Browsers -> Panels]
          /\ missed \in [Browsers -> {"none", "button", "channel"}]

(* What the messages in q make of something that is `now` so: the last one *)
(* that matters decides, and makes it so if it is among those in yes.      *)
Becomes(q, matters, yes, now) ==
  \/ \E i \in DOMAIN q : q[i] \in yes /\ \A j \in DOMAIN q : j > i => q[j] \notin matters
  \/ now /\ \A i \in DOMAIN q : q[i] \notin matters

OfKind(kinds) == {e \in Messages : e.kind \in kinds}
Switching     == OfKind({"started", "start_ack", "stopped", "start_err"})
SwitchingOn   == OfKind({"started", "start_ack"})
Naming        == OfKind({"tuned", "stopped", "start_err"})
NamingIt(c)   == {e \in OfKind({"tuned"}) : e.ch = c}

(* What the panel will show when it has shown everything.                  *)
Coming(b)       == net[b] \o queue[b]
WillBeActive(b) == Becomes(Coming(b), Switching, SwitchingOn, panel[b].active)
WillName(b, c)  == Becomes(Coming(b), Naming, NamingIt(c), panel[b].name = c)

Settled(b) == posting = "no" /\ link[b] = "open"

(* However a browser joins, leaves, starts and stops among others, its     *)
(* button is about to say Stop exactly when a scan runs: no phantom scan,  *)
(* and no hidden one but for the Stopped that an empty list causes. Only   *)
(* if it subscribed after a Started or Stopped and read the snapshot of    *)
(* before it, it shows that one, and no longer than to the next of them    *)
(* (main.rs handle_scan, scan.rs actor).                                   *)
ButtonIsRight ==
  \A b \in Browsers : Settled(b) /\ missed[b] # "button"
                         => /\ WillBeActive(b) => running
                            /\ running => WillBeActive(b) \/ hushed

(* And it is about to show the channel the scan is on, also if it joined   *)
(* when that channel had been tuned; if it read the snapshot of before, it *)
(* does from the next channel on (scan.rs update_last_tuned).              *)
ChannelIsRight ==
  \A b \in Browsers : Settled(b) /\ running /\ tuned # 0 /\ missed[b] # "channel"
                         => WillName(b, tuned) \/ hushed

(* Button and channel of every browser are about to be what the scanner    *)
(* does (scan.rs actor, main.rs handle_scan).                              *)
PanelIsRight == ButtonIsRight /\ ChannelIsRight
=============================================================================
