----------------------------- MODULE PttArbiter -----------------------------
(***************************************************************************)
(* The server-side PTT arbiter (urc200-server/src/ptt.rs) with the         *)
(* control-WebSocket connections that feed its queue (control_ws.rs), the  *)
(* part of main.rs that shuts it down, and the transmitter it keys.        *)
(*                                                                         *)
(* Time is counted in watchdog ticks (WATCHDOG_TICK, 50 ms).  A radio      *)
(* command is one step that begins (the arbiter's pc names it) and ends    *)
(* when `Radio::send` returns; any number of client steps and up to        *)
(* CmdTicks ticks happen in between.                                       *)
(***************************************************************************)
EXTENDS Integers, Sequences

CONSTANTS Clients,    \* control-WebSocket connections; ids are never reused
          NoOne,      \* "no client": a free lock, a message without sender
          InboxCap,   \* capacity of the arbiter's mpsc channel (64)
          HbTimeout,  \* HEARTBEAT_TIMEOUT in ticks (8)
          CmdTicks,   \* longest time one Radio::send takes, in ticks
          BOutcomes,  \* what may become of a B: [reply, exec] records
          EOutcomes,  \* what may become of an E
          Prompt      \* TRUE: the arbiter, when runnable, runs within a tick

Replies  == {"ok", "nak", "err"}
Outcomes == [reply : Replies, exec : BOOLEAN]

ASSUME ConstantsAssumption ==
  /\ NoOne \notin Clients
  /\ InboxCap \in Nat \ {0}
  /\ HbTimeout \in Nat
  /\ CmdTicks \in Nat
  /\ BOutcomes \subseteq Outcomes
  /\ EOutcomes \subseteq Outcomes
  /\ Prompt \in BOOLEAN

(* The link reports what the radio did: B keys exactly when it is answered *)
(* without a NAK, and E always unkeys, whatever its reply.                 *)
HonestLink == /\ \A o \in BOutcomes : o.exec = (o.reply = "ok")
              /\ \A o \in EOutcomes : o.exec

VARIABLES
  inbox,     \* the mpsc queue of Msg
  pc,        \* where arbiter_task is
  cur,       \* the client of the Start or release in progress
  exiting,   \* the release in progress was started by Msg::Shutdown
  owner,     \* State.owner
  age,       \* ticks since owner.last_heartbeat
  tickDue,   \* the watchdog interval has a tick ready
  cmdAge,    \* ticks the radio command in progress has taken
  keyed,     \* the transmitter is on
  ws,        \* per connection: where control_ws::handle is
  answer,    \* per connection: the last Grant it was given
  main,      \* where main is with ptt_handle
  stopping,  \* history: c has sent Stop or ClientGone since its last grant
  quiet      \* history: ticks since the owner last sent a heartbeat;
             \* once above HbTimeout it stays there until the next grant

arbVars    == <<pc, cur, exiting, owner>>
clientVars == <<ws, answer, main, stopping>>
timeVars   == <<age, tickDue, cmdAge, quiet>>
vars       == <<inbox, pc, cur, exiting, owner, age, tickDue, cmdAge, keyed,
                ws, answer, main, stopping, quiet>>

ClientOrNone == Clients \cup {NoOne}
MsgKinds     == {"start", "heartbeat", "stop", "gone", "shutdown"}
Messages     == [kind : MsgKinds, client : ClientOrNone]
Msg(k, c)    == [kind |-> k, client |-> c]

OnAir  == {"startZap", "startB", "relZap", "relE"}   \* awaiting Radio::send
AgeCap == HbTimeout + 2 * CmdTicks + 2               \* where the clocks stop

TypeOK ==
  /\ inbox \in Seq(Messages)
  /\ Len(inbox) <= InboxCap
  /\ pc \in OnAir \cup {"recv", "exitE", "stopped"}
  /\ cur \in ClientOrNone
  /\ exiting \in BOOLEAN
  /\ owner \in ClientOrNone
  /\ age \in 0..AgeCap
  /\ tickDue \in BOOLEAN
  /\ cmdAge \in 0..CmdTicks
  /\ keyed \in BOOLEAN
  /\ ws \in [Clients -> {"open", "waiting", "gone"}]
  /\ answer \in [Clients -> {"none", "granted", "locked", "radio_error", "down"}]
  /\ main \in {"running", "waiting", "down", "dropped"}
  /\ stopping \in [Clients -> BOOLEAN]
  /\ quiet \in 0..AgeCap

(* The interval's first tick completes at once.                            *)
Init ==
  /\ inbox = <<>>
  /\ pc = "recv"
  /\ cur = NoOne
  /\ exiting = FALSE
  /\ owner = NoOne
  /\ age = 0
  /\ tickDue = TRUE
  /\ cmdAge = 0
  /\ keyed = FALSE
  /\ ws = [c \in Clients |-> "open"]
  /\ answer = [c \in Clients |-> "none"]
  /\ main = "running"
  /\ stopping = [c \in Clients |-> FALSE]
  /\ quiet = 0

-----------------------------------------------------------------------------
(* The connections.  handle() is sequential: it awaits the answer to a     *)
(* Start before it reads the socket again, and a send to a full channel    *)
(* waits.  After the receiver is dropped, sends fail and change nothing.   *)

Up == pc # "stopped"

PostUnbounded(m) == Up /\ inbox' = Append(inbox, m)   \* mutant: no back-pressure

Post(m) == /\ Up
           /\ Len(inbox) < InboxCap
           /\ inbox' = Append(inbox, m)

SendStart(c) ==
  /\ ws[c] = "open"
  /\ Post(Msg("start", c))
  /\ ws' = [ws EXCEPT ![c] = "waiting"]
  /\ UNCHANGED <<arbVars, timeVars, keyed, answer, main, stopping>>

StartRefused(c) ==
  /\ ws[c] = "open"
  /\ ~Up
  /\ answer' = [answer EXCEPT ![c] = "down"]
  /\ UNCHANGED <<inbox, arbVars, timeVars, keyed, ws, main, stopping>>

SendHeartbeat(c) ==
  /\ ws[c] = "open"
  /\ Post(Msg("heartbeat", c))
  /\ quiet' = IF owner = c /\ quiet <= HbTimeout THEN 0 ELSE quiet
  /\ UNCHANGED <<arbVars, age, tickDue, cmdAge, keyed, clientVars>>

(* Mutant: the socket is read while a start is being answered.             *)
SendStopAnytime(c) ==
  /\ ws[c] # "gone"
  /\ Post(Msg("stop", c))
  /\ stopping' = [stopping EXCEPT ![c] = TRUE]
  /\ UNCHANGED <<arbVars, timeVars, keyed, ws, answer, main>>

SendStop(c) ==
  /\ ws[c] = "open"
  /\ Post(Msg("stop", c))
  /\ stopping' = [stopping EXCEPT ![c] = TRUE]
  /\ UNCHANGED <<arbVars, timeVars, keyed, ws, answer, main>>

(* The socket ends, for whatever reason; the last thing the task does is   *)
(* ptt.client_gone.                                                        *)
Disconnect(c) ==
  /\ ws[c] = "open"
  /\ \/ Post(Msg("gone", c))
     \/ ~Up /\ UNCHANGED inbox
  /\ ws' = [ws EXCEPT ![c] = "gone"]
  /\ stopping' = [stopping EXCEPT ![c] = TRUE]
  /\ UNCHANGED <<arbVars, timeVars, keyed, answer, main>>

(* The arbiter's exit drops the queued Starts and, with them, the reply    *)
(* channels: the waiting start() returns DeniedArbiterDown.                *)
StartDropped(c) ==
  /\ ws[c] = "waiting"
  /\ ~Up
  /\ ws' = [ws EXCEPT ![c] = "open"]
  /\ answer' = [answer EXCEPT ![c] = "down"]
  /\ UNCHANGED <<inbox, arbVars, timeVars, keyed, main, stopping>>

(* main calls ptt.shutdown() once, after axum::serve has returned ...      *)
SendShutdown ==
  /\ main = "running"
  /\ Post(Msg("shutdown", NoOne))
  /\ main' = "waiting"
  /\ UNCHANGED <<arbVars, timeVars, keyed, ws, answer, stopping>>

(* ... or leaves by `?` when serve fails, and drops its handle.            *)
DropHandle ==
  /\ main = "running"
  /\ main' = "dropped"
  /\ UNCHANGED <<inbox, arbVars, timeVars, keyed, ws, answer, stopping>>

-----------------------------------------------------------------------------
(* The arbiter task.                                                       *)

(* release(), up to its first await: the owner is taken before the radio   *)
(* is told anything.                                                       *)
ReleaseKeepingOwner == pc' = "relZap" /\ cur' = owner /\ UNCHANGED owner   \* mutant

BeginRelease == /\ pc' = "relZap"
                /\ cur' = owner
                /\ owner' = NoOne

ExpiredLate  == owner # NoOne /\ age > 2 * HbTimeout   \* mutants: the wrong unit,
ExpiredEarly == owner # NoOne /\ age >= HbTimeout      \* the wrong comparison

Expired == owner # NoOne /\ age > HbTimeout

(* A tick that the biased select! takes first.                             *)
Sweep ==
  /\ pc = "recv"
  /\ tickDue
  /\ tickDue' = FALSE
  /\ IF Expired THEN BeginRelease ELSE UNCHANGED <<pc, cur, owner>>
  /\ UNCHANGED <<inbox, exiting, age, cmdAge, keyed, clientVars, quiet>>

Take(kind) ==
  /\ pc = "recv"
  /\ ~tickDue
  /\ inbox # <<>>
  /\ Head(inbox).kind = kind
  /\ inbox' = Tail(inbox)

Sender == Head(inbox).client

Respond(c, a) == /\ ws' = [ws EXCEPT ![c] = "open"]
                 /\ answer' = [answer EXCEPT ![c] = a]

StartDenied ==
  /\ Take("start")
  /\ owner # NoOne
  /\ Respond(Sender, "locked")
  /\ UNCHANGED <<arbVars, timeVars, keyed, main, stopping>>

(* Mutant: a second start is not refused.                                  *)
StartSteals ==
  /\ Take("start")
  /\ pc' = "startZap"
  /\ cur' = Sender
  /\ UNCHANGED <<exiting, owner, timeVars, keyed, clientVars>>

StartBegins ==
  /\ Take("start")
  /\ owner = NoOne
  /\ pc' = "startZap"
  /\ cur' = Sender
  /\ UNCHANGED <<exiting, owner, timeVars, keyed, clientVars>>

TakeHeartbeat ==
  /\ Take("heartbeat")
  /\ age' = IF owner = Sender THEN 0 ELSE age
  /\ UNCHANGED <<arbVars, tickDue, cmdAge, quiet, keyed, clientVars>>

TakeStop ==
  /\ Take("stop") \/ Take("gone")
  /\ IF owner = Sender THEN BeginRelease ELSE UNCHANGED <<pc, cur, owner>>
  /\ UNCHANGED <<exiting, timeVars, keyed, clientVars>>

(* The code after the loop would send one more E for an owner still set;   *)
(* no exit finds one (LeftUnkeyed), so "exitE" has no step.           *)
ExitLoop == pc' = IF owner = NoOne THEN "stopped" ELSE "exitE"

(* Mutant: the release does not end the loop.                              *)
ShutdownGoesOn ==
  /\ Take("shutdown")
  /\ IF owner # NoOne
       THEN BeginRelease /\ UNCHANGED main
       ELSE ExitLoop /\ main' = "down" /\ UNCHANGED <<cur, owner>>
  /\ UNCHANGED <<exiting, timeVars, keyed, ws, answer, stopping>>

TakeShutdown ==
  /\ Take("shutdown")
  /\ IF owner # NoOne
       THEN /\ BeginRelease
            /\ exiting' = TRUE
            /\ UNCHANGED main
       ELSE /\ ExitLoop
            /\ main' = "down"
            /\ UNCHANGED <<cur, owner, exiting>>
  /\ UNCHANGED <<timeVars, keyed, ws, answer, stopping>>

(* recv() yields None once every handle is dropped and the queue is empty. *)
AllHandlesDropped ==
  /\ pc = "recv"
  /\ ~tickDue
  /\ inbox = <<>>
  /\ main = "dropped"
  /\ \A c \in Clients : ws[c] = "gone"
  /\ ExitLoop
  /\ UNCHANGED <<inbox, cur, exiting, owner, timeVars, keyed, clientVars>>

(* Z returns; its result is ignored.                                       *)
ZapDone ==
  /\ \/ pc = "startZap" /\ pc' = "startB"
     \/ pc = "relZap"   /\ pc' = "relE"
  /\ cmdAge' = 0
  /\ UNCHANGED <<inbox, cur, exiting, owner, age, tickDue, quiet, keyed,
                 clientVars>>

AcceptedUnlessError(o) == o.reply # "err"   \* mutant: the NAK is not looked at

Accepted(o) == o.reply = "ok"

(* B returns.  Only a reply that is not a NAK makes cur the owner; an      *)
(* error is reported to the client and nothing is sent to undo the B.      *)
BDone ==
  /\ pc = "startB"
  /\ \E o \in BOutcomes :
       /\ keyed' = (keyed \/ o.exec)
       /\ \/ /\ Accepted(o)
             /\ owner' = cur
             /\ age' = 0
             /\ quiet' = 0
             /\ Respond(cur, "granted")
             /\ stopping' = [stopping EXCEPT ![cur] = FALSE]
          \/ /\ ~Accepted(o)
             /\ Respond(cur, "radio_error")
             /\ UNCHANGED <<owner, age, quiet, stopping>>
  /\ pc' = "recv"
  /\ cur' = NoOne
  /\ cmdAge' = 0
  /\ UNCHANGED <<inbox, exiting, tickDue, main>>

(* E returns, well or not; then Released is broadcast, and a shutdown in   *)
(* progress is acknowledged and ends the loop.                             *)
EDone ==
  /\ pc = "relE"
  /\ \E o \in EOutcomes : keyed' = (keyed /\ ~o.exec)
  /\ IF exiting THEN ExitLoop /\ main' = "down"
                ELSE pc' = "recv" /\ UNCHANGED main
  /\ cur' = NoOne
  /\ cmdAge' = 0
  /\ UNCHANGED <<inbox, exiting, owner, age, tickDue, quiet, ws, answer,
                 stopping>>

-----------------------------------------------------------------------------
(* 50 ms pass.  A radio command is bounded by its timeout; under Prompt a  *)
(* runnable arbiter runs first.                                            *)
Runnable == pc = "recv" /\ (tickDue \/ inbox # <<>>)

Older(n) == IF n < AgeCap THEN n + 1 ELSE n

Tick ==
  /\ Up
  /\ Prompt => ~Runnable
  /\ pc \in OnAir => cmdAge < CmdTicks
  /\ tickDue' = TRUE
  /\ age' = Older(age)
  /\ quiet' = Older(quiet)
  /\ cmdAge' = IF pc \in OnAir THEN cmdAge + 1 ELSE cmdAge
  /\ UNCHANGED <<inbox, arbVars, keyed, clientVars>>

-----------------------------------------------------------------------------
Client(c) == \/ SendStart(c) \/ StartRefused(c) \/ SendHeartbeat(c)
             \/ SendStop(c) \/ Disconnect(c) \/ StartDropped(c)

Arbiter == \/ Sweep \/ StartDenied \/ StartBegins \/ TakeHeartbeat \/ TakeStop
           \/ TakeShutdown \/ AllHandlesDropped \/ ZapDone \/ BDone \/ EDone

Next == \/ \E c \in Clients : Client(c)
        \/ SendShutdown
        \/ DropHandle
        \/ Arbiter
        \/ Tick

Spec == Init /\ [][Next]_vars

(* tokio polls a runnable task, every Radio::send returns (the dispatcher  *)
(* times a command out), the timer fires and a oneshot whose sender is     *)
(* dropped wakes its receiver.  Clients promise nothing.                   *)
FairSpec == /\ Spec
            /\ WF_vars(Arbiter)
            /\ WF_vars(Tick)
            /\ \A c \in Clients : WF_vars(StartDropped(c))

-----------------------------------------------------------------------------
(* Safety.                                                                 *)

(* Between radio commands the transmitter is on exactly when somebody owns *)
(* PTT, provided the link reports what the radio did: no interleaving of   *)
(* starts, stops, disconnects, expiry and shutdown leaves the radio keyed  *)
(* without an owner or an owner with a silent radio.                       *)
KeyedIsOwned == pc = "recv" => keyed = (owner # NoOne)

(* A stop never outlives the hold it was meant for: a Stop or ClientGone   *)
(* still in the queue was sent after its sender's latest grant, so no      *)
(* queued leftover of an earlier hold can end a later one.                 *)
NoLeftoverStop ==
  \A i \in 1..Len(inbox) :
    inbox[i].kind \in {"stop", "gone"} => stopping[inbox[i].client]

(* When the loop has been left, nothing is keyed and no owner remains for  *)
(* the E after the loop: main may close the port.                          *)
LeftUnkeyed == pc \in {"exitE", "stopped"} => owner = NoOne /\ ~keyed

(* ptt.rs:5 and README.md:26: the carrier of an owner that has gone silent *)
(* drops.  Over a link that reports what the radio did, and with an arbiter *)
(* that runs when it can, the transmitter is off at the latest one watchdog *)
(* tick and the two radio commands of the release after the timeout, counted *)
(* from the last heartbeat the arbiter took and from the last its owner sent. *)
LeaseBound == keyed => /\ age <= HbTimeout + 1 + 2 * CmdTicks
                       /\ quiet <= HbTimeout + 1 + 2 * CmdTicks

(* A client loses PTT only through its own stop or disconnect, the server's *)
(* shutdown, or silence: one that heartbeats at least every HbTimeout ticks *)
(* keeps it, whatever other clients do and whatever is still queued.       *)
SteadyOwnerKeepsPtt ==
  [][\A c \in Clients :
       owner = c /\ owner' # c =>
         /\ owner' = NoOne
         /\ stopping[c] \/ main = "waiting" \/ quiet > HbTimeout]_vars

(* Liveness.                                                               *)

(* A connection that is gone does not stay the owner.                      *)
GoneClientReleased == \A c \in Clients : ws[c] = "gone" ~> owner # c

(* ptt.shutdown() returns.                                                 *)
ShutdownReturns == main = "waiting" ~> main = "down"

-----------------------------------------------------------------------------
(* The arbiter implements the abstract lock.                               *)
Lock == INSTANCE PttLock
          WITH holder <- owner,
               asking <- {c \in Clients : ws[c] = "waiting"},
               answer <- answer,
               closed <- (pc = "stopped")

LockSpec == Lock!LockSpec
=============================================================================
