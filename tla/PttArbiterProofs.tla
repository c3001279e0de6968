-------------------------- MODULE PttArbiterProofs --------------------------
(* Proofs about the PTT arbiter, for any set of clients, queue capacity,   *)
(* timeout and link.                                                       *)
EXTENDS PttArbiter, TLAPS

(* What Append and Tail do to a queue of messages.                         *)
LEMMA AppendFacts ==
  ASSUME NEW q \in Seq(Messages), NEW m \in Messages
  PROVE  /\ Append(q, m) \in Seq(Messages)
         /\ Len(Append(q, m)) = Len(q) + 1
         /\ \A i \in 1..Len(q) : Append(q, m)[i] = q[i]
         /\ Append(q, m)[Len(q) + 1] = m
OBVIOUS

LEMMA TailFacts ==
  ASSUME NEW q \in Seq(Messages), q # <<>>
  PROVE  /\ Tail(q) \in Seq(Messages)
         /\ Len(q) \in Nat \ {0}
         /\ Len(Tail(q)) = Len(q) - 1
         /\ \A i \in 1..Len(Tail(q)) : Tail(q)[i] = q[i + 1]
         /\ Head(q) = q[1]
         /\ Head(q) \in Messages
OBVIOUS

LEMMA MsgType == ASSUME NEW k \in MsgKinds, NEW c \in ClientOrNone
                 PROVE  Msg(k, c) \in Messages
BY DEF Msg, Messages

(* Posting and taking keep the queue a bounded queue of messages.          *)
LEMMA PostType ==
  ASSUME TypeOK, NEW k \in MsgKinds, NEW c \in ClientOrNone, Post(Msg(k, c))
  PROVE  inbox' \in Seq(Messages) /\ Len(inbox') <= InboxCap
BY MsgType, AppendFacts, ConstantsAssumption DEF TypeOK, Post

LEMMA TakeType ==
  ASSUME TypeOK, NEW k, Take(k)
  PROVE  /\ inbox' \in Seq(Messages) /\ Len(inbox') <= InboxCap
         /\ Sender \in ClientOrNone
<1>1. inbox \in Seq(Messages) /\ inbox # <<>> /\ inbox' = Tail(inbox) /\ Len(inbox) <= InboxCap
  BY DEF TypeOK, Take
<1>2. Head(inbox) \in Messages /\ inbox' \in Seq(Messages) /\ Len(inbox') <= Len(inbox)
  BY <1>1, TailFacts
<1>3. Sender \in ClientOrNone
  BY <1>2 DEF Sender, Messages
<1> QED
  BY <1>1, <1>2, <1>3, ConstantsAssumption

(* TypeOK is inductive.                                                    *)
LEMMA TypeInductive == TypeOK /\ [Next]_vars => TypeOK'
<1> SUFFICES ASSUME TypeOK, [Next]_vars PROVE TypeOK'
  OBVIOUS
<1> USE ConstantsAssumption
<1>a. ASSUME NEW c \in Clients, SendStart(c) PROVE TypeOK'
  BY <1>a, PostType DEF SendStart, TypeOK, arbVars, timeVars, MsgKinds, ClientOrNone
<1>b. ASSUME NEW c \in Clients, StartRefused(c) PROVE TypeOK'
  BY <1>b DEF StartRefused, TypeOK, arbVars, timeVars
<1>c. ASSUME NEW c \in Clients, SendHeartbeat(c) PROVE TypeOK'
  BY <1>c, PostType DEF SendHeartbeat, TypeOK, arbVars, clientVars, MsgKinds, ClientOrNone, AgeCap
<1>d. ASSUME NEW c \in Clients, SendStop(c) PROVE TypeOK'
  BY <1>d, PostType DEF SendStop, TypeOK, arbVars, timeVars, MsgKinds, ClientOrNone
<1>e. ASSUME NEW c \in Clients, Disconnect(c) PROVE TypeOK'
  BY <1>e, PostType DEF Disconnect, TypeOK, arbVars, timeVars, MsgKinds, ClientOrNone
<1>f. ASSUME NEW c \in Clients, StartDropped(c) PROVE TypeOK'
  BY <1>f DEF StartDropped, TypeOK, arbVars, timeVars
<1>g. CASE SendShutdown
  BY <1>g, PostType DEF SendShutdown, TypeOK, arbVars, timeVars, MsgKinds, ClientOrNone
<1>h. CASE DropHandle
  BY <1>h DEF DropHandle, TypeOK, arbVars, timeVars
<1>i. CASE Sweep
  BY <1>i DEF Sweep, Expired, BeginRelease, TypeOK, OnAir, ClientOrNone, clientVars
<1>j. CASE StartDenied
  <2>1. Take("start") BY <1>j DEF StartDenied
  <2> QED BY <1>j, <2>1, TakeType DEF StartDenied, Respond, TypeOK, arbVars, timeVars
<1>k. CASE StartBegins
  <2>1. Take("start") BY <1>k DEF StartBegins
  <2> QED BY <1>k, <2>1, TakeType DEF StartBegins, TypeOK, OnAir, timeVars, clientVars
<1>l. CASE TakeHeartbeat
  <2>1. Take("heartbeat") BY <1>l DEF TakeHeartbeat
  <2> QED BY <1>l, <2>1, TakeType DEF TakeHeartbeat, TypeOK, arbVars, clientVars, AgeCap
<1>m. CASE TakeStop
  <2>1. Take("stop") \/ Take("gone") BY <1>m DEF TakeStop
  <2> QED BY <1>m, <2>1, TakeType
          DEF TakeStop, BeginRelease, TypeOK, OnAir, ClientOrNone, timeVars, clientVars
<1>n. CASE TakeShutdown
  <2>1. Take("shutdown") BY <1>n DEF TakeShutdown
  <2> QED BY <1>n, <2>1, TakeType
          DEF TakeShutdown, BeginRelease, ExitLoop, TypeOK, OnAir, ClientOrNone, timeVars
<1>o. CASE AllHandlesDropped
  BY <1>o DEF AllHandlesDropped, ExitLoop, TypeOK, timeVars, clientVars
<1>p. CASE ZapDone
  BY <1>p DEF ZapDone, TypeOK, OnAir, clientVars
<1>q. CASE BDone
  <2>1. PICK o \in BOutcomes :
          /\ keyed' = (keyed \/ o.exec)
          /\ \/ /\ owner' = cur
                /\ age' = 0
                /\ quiet' = 0
                /\ Respond(cur, "granted")
                /\ stopping' = [stopping EXCEPT ![cur] = FALSE]
             \/ /\ Respond(cur, "radio_error")
                /\ UNCHANGED <<owner, age, quiet, stopping>>
    BY <1>q DEF BDone
  <2>2. keyed' \in BOOLEAN
    BY <2>1, Zenon
  <2>3. owner' \in ClientOrNone /\ age' \in 0..AgeCap /\ quiet' \in 0..AgeCap
    <3>1. 0 \in 0..AgeCap
      BY DEF AgeCap
    <3> QED
      BY <2>1, <3>1 DEF TypeOK
  <2>4. ws' \in [Clients -> {"open", "waiting", "gone"}]
    BY <2>1 DEF Respond, TypeOK
  <2>5. answer' \in [Clients -> {"none", "granted", "locked", "radio_error", "down"}]
    BY <2>1 DEF Respond, TypeOK
  <2>6. stopping' \in [Clients -> BOOLEAN]
    BY <2>1 DEF TypeOK
  <2> QED
    BY <1>q, <2>2, <2>3, <2>4, <2>5, <2>6 DEF BDone, TypeOK, ClientOrNone
<1>r. CASE EDone
  <2>1. keyed' \in BOOLEAN
    BY <1>r, Zenon DEF EDone
  <2> QED
    BY <1>r, <2>1 DEF EDone, ExitLoop, TypeOK, OnAir, ClientOrNone
<1>s. CASE Tick
  BY <1>s DEF Tick, Older, AgeCap, TypeOK, arbVars, clientVars
<1>t. CASE UNCHANGED vars
  BY <1>t DEF vars, TypeOK
<1> QED
  BY <1>a, <1>b, <1>c, <1>d, <1>e, <1>f, <1>g, <1>h, <1>i, <1>j, <1>k, <1>l,
     <1>m, <1>n, <1>o, <1>p, <1>q, <1>r, <1>s, <1>t DEF Next, Client, Arbiter

LEMMA InitType == Init => TypeOK
<1>1. <<>> \in Seq(Messages) /\ Len(<<>>) = 0
  OBVIOUS
<1>2. 0 \in 0..AgeCap /\ 0 \in 0..CmdTicks /\ 0 <= InboxCap
  BY ConstantsAssumption DEF AgeCap
<1> QED
  BY <1>1, <1>2 DEF Init, TypeOK, ClientOrNone, OnAir

(* Type correctness: no run of the arbiter overfills its queue or loses    *)
(* track of its own state.                                                 *)
THEOREM TypeCorrect == Spec => []TypeOK
BY InitType, TypeInductive, PTL DEF Spec

-----------------------------------------------------------------------------
(* The inductive invariant behind the safety properties.                   *)

Keying    == pc \in {"startZap", "startB"}
Releasing == pc \in {"relZap", "relE"}

(* What each phase of the arbiter says about the owner and the asker.      *)
PhaseInv ==
  /\ Keying => cur \in Clients /\ ws[cur] = "waiting" /\ owner = NoOne
  /\ Releasing => owner = NoOne
  /\ pc # "exitE"
  /\ pc = "stopped" => owner = NoOne
  /\ exiting => Releasing \/ pc = "stopped"
  /\ main = "down" => pc = "stopped"

(* A Start is the last message of its sender, which waits for the answer;  *)
(* while the answer is worked on, nothing of that client is queued.        *)
QueueInv ==
  \A i \in 1..Len(inbox) :
    /\ inbox[i].kind # "shutdown" => inbox[i].client \in Clients
    /\ Up /\ inbox[i].kind = "start"
         => /\ ws[inbox[i].client] = "waiting"
            /\ \A j \in i+1..Len(inbox) : inbox[j].client # inbox[i].client
    /\ Keying => inbox[i].client # cur

(* The disconnect of an owner that is gone is on its way.                  *)
GoneInv ==
  Up /\ owner \in Clients /\ ws[owner] = "gone"
    => \E i \in 1..Len(inbox) : inbox[i] = Msg("gone", owner)

SafeInv == TypeOK /\ PhaseInv /\ QueueInv /\ GoneInv /\ NoLeftoverStop

(* The carrier, phase by phase, over an honest link.                       *)
CarrierInv ==
  /\ pc \in {"recv", "stopped"} => keyed = (owner # NoOne)
  /\ Keying => ~keyed

(* The phases keep their promises; one step per group of actions that      *)
(* touches the same phases.                                                *)
LEMMA PhaseStep == SafeInv /\ [Next]_vars => PhaseInv'
<1> SUFFICES ASSUME SafeInv, [Next]_vars PROVE PhaseInv'
  OBVIOUS
<1> USE ConstantsAssumption DEF SafeInv, PhaseInv, Keying, Releasing, Up
<1>a. ASSUME NEW c \in Clients, Client(c) PROVE PhaseInv'
  <2>1. UNCHANGED arbVars /\ (Keying => ws'[cur] = ws[cur]) /\ UNCHANGED main
    BY <1>a DEF Client, SendStart, StartRefused, SendHeartbeat, SendStop,
                Disconnect, StartDropped, arbVars, clientVars, TypeOK
  <2> QED
    BY <2>1 DEF arbVars
<1>b. CASE SendShutdown \/ DropHandle
  BY <1>b DEF SendShutdown, DropHandle, arbVars, Post
<1>c. CASE Sweep
  BY <1>c DEF Sweep, Expired, BeginRelease, clientVars
<1>d. CASE StartDenied
  BY <1>d DEF StartDenied, Take, Respond, arbVars
<1>e. CASE StartBegins
  <2>1. Sender = inbox[1].client /\ inbox[1].kind = "start" /\ 1 \in 1..Len(inbox)
    BY <1>e, TailFacts DEF StartBegins, Take, Sender, TypeOK
  <2>2. Sender \in Clients /\ ws[Sender] = "waiting"
    BY <1>e, <2>1 DEF QueueInv, StartBegins, Take
  <2> QED
    BY <1>e, <2>2 DEF StartBegins, Take, clientVars
<1>f. CASE TakeHeartbeat
  BY <1>f DEF TakeHeartbeat, Take, arbVars, clientVars
<1>g. CASE TakeStop
  BY <1>g DEF TakeStop, Take, BeginRelease, clientVars
<1>h. CASE TakeShutdown
  BY <1>h DEF TakeShutdown, Take, BeginRelease, ExitLoop
<1>i. CASE AllHandlesDropped
  <2>1. owner = NoOne
    BY <1>i DEF AllHandlesDropped, GoneInv, TypeOK, ClientOrNone
  <2> QED
    BY <1>i, <2>1 DEF AllHandlesDropped, ExitLoop, clientVars
<1>j. CASE ZapDone
  BY <1>j DEF ZapDone, clientVars
<1>k. CASE BDone
  BY <1>k DEF BDone
<1>l. CASE EDone
  BY <1>l DEF EDone, ExitLoop
<1>m. CASE Tick \/ UNCHANGED vars
  BY <1>m DEF Tick, arbVars, clientVars, vars
<1> QED
  BY <1>a, <1>b, <1>c, <1>d, <1>e, <1>f, <1>g, <1>h, <1>i, <1>j, <1>k, <1>l,
     <1>m DEF Next, Arbiter

(* A step that posts m on behalf of a client whose socket is being read    *)
(* keeps the queue's invariants.                                           *)
LEMMA PostQueue ==
  ASSUME SafeInv, NEW k \in MsgKinds, NEW c \in ClientOrNone, Post(Msg(k, c)),
         UNCHANGED arbVars,
         \/ k = "shutdown" /\ c = NoOne /\ UNCHANGED <<ws, stopping>>
         \/ /\ k # "shutdown" /\ c \in Clients /\ ws[c] = "open"
            /\ \E a \in {"open", "waiting", "gone"} : ws' = [ws EXCEPT ![c] = a]
            /\ \E b \in BOOLEAN : stopping' = [stopping EXCEPT ![c] = b]
            /\ ws'[c] = "waiting" <=> k = "start"
            /\ ws'[c] = "gone" <=> k = "gone"
            /\ k \in {"stop", "gone"} => stopping'[c]
            /\ stopping[c] => stopping'[c]
  PROVE  QueueInv' /\ GoneInv' /\ NoLeftoverStop'
<1> DEFINE m == Msg(k, c)
           n == Len(inbox)
<1>1. m \in Messages /\ m.kind = k /\ m.client = c
  BY MsgType DEF Msg
<1>2. /\ inbox \in Seq(Messages) /\ n \in Nat
      /\ Len(inbox') = n + 1
      /\ \A i \in 1..n : inbox'[i] = inbox[i]
      /\ inbox'[n + 1] = m
  BY <1>1, AppendFacts DEF Post, SafeInv, TypeOK
<1>3. Up /\ Up'
  BY DEF Post, Up, arbVars
<1>4. ASSUME NEW i \in 1..n, inbox[i].kind # "shutdown"
      PROVE  /\ inbox[i].client \in Clients
             /\ inbox[i].kind \in {"stop", "gone"} => stopping'[inbox[i].client]
             /\ inbox[i].kind = "start"
                  => ws'[inbox[i].client] = "waiting" /\ c # inbox[i].client
  <2>1. inbox[i].client \in Clients
    BY <1>4 DEF SafeInv, QueueInv
  <2>2. inbox[i].kind \in {"stop", "gone"} => stopping[inbox[i].client]
    BY <1>2 DEF SafeInv, NoLeftoverStop
  <2>3. inbox[i].kind = "start" => ws[inbox[i].client] = "waiting"
    BY <1>2, <1>3 DEF SafeInv, QueueInv
  <2> QED
    BY <2>1, <2>2, <2>3, ConstantsAssumption DEF SafeInv, TypeOK
<1>5. NoLeftoverStop'
  <2> SUFFICES ASSUME NEW i \in 1..n+1, inbox'[i].kind \in {"stop", "gone"}
               PROVE  stopping'[inbox'[i].client]
    BY <1>2 DEF NoLeftoverStop
  <2>1. CASE i \in 1..n
    BY <2>1, <1>2, <1>4
  <2>2. CASE i = n + 1
    BY <2>2, <1>1, <1>2
  <2> QED
    BY <2>1, <2>2, <1>2
<1>6. QueueInv'
  <2> SUFFICES ASSUME NEW i \in 1..n+1
               PROVE  /\ inbox'[i].kind # "shutdown" => inbox'[i].client \in Clients
                      /\ inbox'[i].kind = "start"
                           => /\ ws'[inbox'[i].client] = "waiting"
                              /\ \A j \in i+1..n+1 : inbox'[j].client # inbox'[i].client
                      /\ Keying' => inbox'[i].client # cur'
    BY <1>2 DEF QueueInv
  <2>1. Keying' = Keying /\ cur' = cur
    BY DEF arbVars, Keying
  <2>2. Keying => c # cur
    BY ConstantsAssumption DEF SafeInv, PhaseInv
  <2>3. CASE i \in 1..n
    <3>1. Keying => inbox[i].client # cur
      BY <2>3 DEF SafeInv, QueueInv
    <3>2. inbox[i].kind = "start" => \A j \in i+1..n : inbox[j].client # inbox[i].client
      BY <2>3, <1>3 DEF SafeInv, QueueInv
    <3>3. inbox'[i] = inbox[i]
      BY <2>3, <1>2
    <3>4. inbox[i].kind = "start" => \A j \in i+1..n+1 : inbox'[j].client # inbox[i].client
      <4> SUFFICES ASSUME inbox[i].kind = "start", NEW j \in i+1..n+1
                   PROVE  inbox'[j].client # inbox[i].client
        OBVIOUS
      <4>1. CASE j \in 1..n
        BY <4>1, <3>2, <1>2
      <4>2. CASE j = n + 1
        BY <4>2, <1>1, <1>2, <1>4, <2>3
      <4> QED
        BY <4>1, <4>2, <1>2
    <3> QED
      BY <3>1, <3>3, <3>4, <2>1, <2>3, <1>4
  <2>4. CASE i = n + 1
    BY <2>1, <2>2, <2>4, <1>1, <1>2
  <2> QED
    BY <2>3, <2>4, <1>2
<1>7. GoneInv'
  <2> SUFFICES ASSUME owner \in Clients, ws'[owner] = "gone"
               PROVE  \E i \in 1..n+1 : inbox'[i] = Msg("gone", owner)
    BY <1>2, <1>3 DEF GoneInv, arbVars
  <2>1. CASE owner = c /\ k = "gone"
    BY <2>1, <1>2
  <2>2. CASE ~(owner = c /\ k = "gone")
    <3>1. ws[owner] = "gone"
      BY <2>2, ConstantsAssumption DEF SafeInv, TypeOK
    <3>2. PICK i \in 1..n : inbox[i] = Msg("gone", owner)
      BY <3>1, <1>3 DEF SafeInv, GoneInv
    <3> QED
      BY <3>2, <1>2
  <2> QED
    BY <2>1, <2>2
<1> QED
  BY <1>5, <1>6, <1>7

(* A step that takes the head keeps them too: what it answers is the       *)
(* sender's Start, what it works on is the sender's.                       *)
LEMMA TakeQueue ==
  ASSUME SafeInv, NEW k \in MsgKinds, Take(k),
         UNCHANGED stopping,
         \/ UNCHANGED ws
         \/ k = "start" /\ ws' = [ws EXCEPT ![Sender] = "open"],
         Keying' => k = "start" /\ cur' = Sender,
         owner' = owner \/ owner' = NoOne,
         k = "gone" /\ owner = Sender => owner' = NoOne
  PROVE  QueueInv' /\ GoneInv' /\ NoLeftoverStop'
<1> DEFINE n == Len(inbox)
<1>1. /\ n \in Nat \ {0}
      /\ Len(inbox') = n - 1
      /\ \A i \in 1..n-1 : inbox'[i] = inbox[i + 1]
      /\ Sender = inbox[1].client
      /\ inbox[1].kind = k
      /\ inbox[1] \in Messages
  BY TailFacts DEF Take, SafeInv, TypeOK, Sender
<1>2. Up
  BY DEF Take, Up
<1>3. k = "start" => /\ Sender \in Clients
                     /\ \A j \in 2..n : inbox[j].client # Sender
  BY <1>1, <1>2 DEF SafeInv, QueueInv
<1>4. NoLeftoverStop'
  BY <1>1 DEF SafeInv, NoLeftoverStop
<1>5. QueueInv'
  <2> SUFFICES ASSUME NEW i \in 1..n-1
               PROVE  /\ inbox'[i].kind # "shutdown" => inbox'[i].client \in Clients
                      /\ inbox'[i].kind = "start"
                           => /\ ws'[inbox'[i].client] = "waiting"
                              /\ \A j \in i+1..n-1 : inbox'[j].client # inbox'[i].client
                      /\ Keying' => inbox'[i].client # cur'
    BY <1>1 DEF QueueInv
  <2>1. inbox'[i] = inbox[i + 1] /\ i + 1 \in 2..n
    BY <1>1
  <2>2. inbox[i + 1].kind # "shutdown" => inbox[i + 1].client \in Clients
    BY <2>1 DEF SafeInv, QueueInv
  <2>3. inbox[i + 1].kind = "start"
          => /\ ws[inbox[i + 1].client] = "waiting"
             /\ \A j \in i+2..n : inbox[j].client # inbox[i + 1].client
    BY <2>1, <1>2 DEF SafeInv, QueueInv
  <2>4. inbox[i + 1].kind = "start" => ws'[inbox[i + 1].client] = "waiting"
    BY <2>1, <2>2, <2>3, <1>3 DEF SafeInv, TypeOK
  <2>5. inbox[i + 1].kind = "start"
          => \A j \in i+1..n-1 : inbox'[j].client # inbox[i + 1].client
    <3> SUFFICES ASSUME inbox[i + 1].kind = "start", NEW j \in i+1..n-1
                 PROVE  inbox'[j].client # inbox[i + 1].client
      OBVIOUS
    <3>1. j + 1 \in i+2..n /\ inbox'[j] = inbox[j + 1]
      BY <1>1
    <3> QED
      BY <2>3, <3>1
  <2>6. Keying' => inbox[i + 1].client # cur'
    BY <2>1, <1>3
  <2> QED
    BY <2>1, <2>2, <2>4, <2>5, <2>6
<1>6. GoneInv'
  <2> SUFFICES ASSUME owner' \in Clients, ws'[owner'] = "gone"
               PROVE  \E i \in 1..n-1 : inbox'[i] = Msg("gone", owner')
    BY <1>1 DEF GoneInv
  <2>1. owner' = owner /\ ws[owner] = "gone"
    BY ConstantsAssumption, <1>3 DEF SafeInv, TypeOK
  <2>2. PICK i \in 1..n : inbox[i] = Msg("gone", owner)
    BY <2>1, <1>2 DEF SafeInv, GoneInv
  <2>3. i # 1
    BY <2>1, <2>2, <1>1, ConstantsAssumption DEF Msg
  <2>4. i - 1 \in 1..n-1 /\ inbox'[i - 1] = inbox[i]
    BY <2>3, <1>1
  <2> QED
    BY <2>1, <2>2, <2>4
<1> QED
  BY <1>4, <1>5, <1>6

(* A step that leaves the queue alone.                                     *)
LEMMA IdleQueue ==
  ASSUME SafeInv, UNCHANGED <<inbox, stopping>>, Up' => Up,
         Up' => UNCHANGED ws,
         Keying' => Keying /\ cur' = cur,
         owner' = owner \/ owner' = NoOne
  PROVE  QueueInv' /\ GoneInv' /\ NoLeftoverStop'
BY ConstantsAssumption DEF SafeInv, QueueInv, GoneInv, NoLeftoverStop

LEMMA QueueStep == SafeInv /\ [Next]_vars => QueueInv' /\ GoneInv' /\ NoLeftoverStop'
<1> SUFFICES ASSUME SafeInv, [Next]_vars
             PROVE  QueueInv' /\ GoneInv' /\ NoLeftoverStop'
  OBVIOUS
<1> USE ConstantsAssumption
<1>1. TypeOK
  BY DEF SafeInv
<1>2. ASSUME NEW k \in MsgKinds, Take(k) PROVE Sender \in ClientOrNone /\ Up
  BY <1>1, <1>2, TakeType DEF Take, Up
<1>a. ASSUME NEW c \in Clients, SendStart(c) PROVE QueueInv' /\ GoneInv' /\ NoLeftoverStop'
  <2>1. stopping' = [stopping EXCEPT ![c] = stopping[c]] /\ ws'[c] = "waiting"
    BY <1>1, <1>a DEF SendStart, TypeOK
  <2> QED
    BY <1>1, <1>a, <2>1, PostQueue DEF SendStart, MsgKinds, ClientOrNone, TypeOK
<1>b. ASSUME NEW c \in Clients, SendHeartbeat(c) PROVE QueueInv' /\ GoneInv' /\ NoLeftoverStop'
  <2>1. stopping' = [stopping EXCEPT ![c] = stopping[c]] /\ ws' = [ws EXCEPT ![c] = "open"]
    BY <1>1, <1>b DEF SendHeartbeat, TypeOK, clientVars
  <2> QED
    BY <1>1, <1>b, <2>1, PostQueue DEF SendHeartbeat, MsgKinds, ClientOrNone, TypeOK
<1>c. ASSUME NEW c \in Clients, SendStop(c) PROVE QueueInv' /\ GoneInv' /\ NoLeftoverStop'
  <2>1. stopping'[c] /\ ws' = [ws EXCEPT ![c] = "open"]
    BY <1>1, <1>c DEF SendStop, TypeOK
  <2> QED
    BY <1>1, <1>c, <2>1, PostQueue DEF SendStop, MsgKinds, ClientOrNone, TypeOK
<1>d. ASSUME NEW c \in Clients, Disconnect(c) PROVE QueueInv' /\ GoneInv' /\ NoLeftoverStop'
  <2>1. stopping'[c] /\ ws'[c] = "gone"
    BY <1>1, <1>d DEF Disconnect, TypeOK
  <2>2. CASE Post(Msg("gone", c))
    BY <1>1, <1>d, <2>1, <2>2, PostQueue DEF Disconnect, MsgKinds, ClientOrNone, TypeOK
  <2>3. CASE ~Up /\ UNCHANGED inbox
    <3>1. ~Up' /\ ~Keying /\ ~Keying'
      BY <1>d, <2>3 DEF Disconnect, Up, Keying, arbVars
    <3>2. \A e \in Clients : stopping[e] => stopping'[e]
      BY <1>1, <1>d DEF Disconnect, TypeOK
    <3>3. \A i \in 1..Len(inbox) : inbox[i].kind # "shutdown" => inbox[i].client \in Clients
      BY DEF SafeInv, QueueInv
    <3> QED
      BY <2>3, <3>1, <3>2, <3>3 DEF SafeInv, QueueInv, GoneInv, NoLeftoverStop
  <2> QED
    BY <1>d, <2>2, <2>3 DEF Disconnect
<1>e. ASSUME NEW c \in Clients, StartRefused(c) \/ StartDropped(c)
      PROVE  QueueInv' /\ GoneInv' /\ NoLeftoverStop'
  BY <1>e, IdleQueue DEF StartRefused, StartDropped, Up, Keying, arbVars
<1>f. CASE SendShutdown
  BY <1>f, PostQueue DEF SendShutdown, MsgKinds, ClientOrNone
<1>g. CASE DropHandle
  BY <1>g, IdleQueue DEF DropHandle, Up, Keying, arbVars
<1>h. CASE Sweep
  BY <1>h, IdleQueue DEF Sweep, Expired, BeginRelease, Up, Keying, clientVars
<1>i. CASE StartDenied
  <2>1. Take("start")
    BY <1>i DEF StartDenied
  <2>2. ~Keying'
    BY <1>i, <2>1 DEF StartDenied, Take, Keying, arbVars
  <2> QED
    BY <1>i, <2>1, <2>2, TakeQueue DEF StartDenied, Respond, MsgKinds, arbVars
<1>j. CASE StartBegins
  <2>1. Take("start")
    BY <1>j DEF StartBegins
  <2> QED
    BY <1>j, <2>1, TakeQueue DEF StartBegins, MsgKinds, clientVars
<1>k. CASE TakeHeartbeat
  <2>1. Take("heartbeat")
    BY <1>k DEF TakeHeartbeat
  <2>2. ~Keying'
    BY <1>k, <2>1 DEF TakeHeartbeat, Take, Keying, arbVars
  <2> QED
    BY <1>k, <2>1, <2>2, TakeQueue DEF TakeHeartbeat, MsgKinds, clientVars, arbVars
<1>l. CASE TakeStop
  <2>1. PICK k \in {"stop", "gone"} : Take(k)
    BY <1>l DEF TakeStop
  <2>2. ~Keying'
    BY <1>l, <2>1 DEF TakeStop, BeginRelease, Take, Keying
  <2> QED
    BY <1>l, <2>1, <2>2, TakeQueue DEF TakeStop, BeginRelease, MsgKinds, clientVars
<1>m. CASE TakeShutdown
  <2>1. Take("shutdown")
    BY <1>m DEF TakeShutdown
  <2>2. ~Keying'
    BY <1>m, <2>1 DEF TakeShutdown, BeginRelease, ExitLoop, Keying
  <2> QED
    BY <1>m, <2>1, <2>2, TakeQueue DEF TakeShutdown, BeginRelease, MsgKinds
<1>n. CASE AllHandlesDropped
  BY <1>n, IdleQueue DEF AllHandlesDropped, ExitLoop, Up, Keying, clientVars
<1>o. CASE ZapDone
  BY <1>o, IdleQueue DEF ZapDone, Up, Keying, clientVars
<1>p. CASE BDone
  <2>1. /\ UNCHANGED inbox /\ ~Keying' /\ Up /\ Up'
        /\ cur \in Clients /\ ws[cur] = "waiting"
        /\ \A i \in 1..Len(inbox) : inbox[i].client # cur
    BY <1>p DEF BDone, Keying, Up, SafeInv, PhaseInv, QueueInv
  <2>2. /\ ws' = [ws EXCEPT ![cur] = "open"]
        /\ owner' = cur \/ owner' = owner
        /\ \A e \in Clients : e # cur => stopping'[e] = stopping[e]
    BY <1>1, <1>p, <2>1 DEF BDone, Respond, TypeOK
  <2>3. NoLeftoverStop'
    BY <2>1, <2>2 DEF SafeInv, QueueInv, NoLeftoverStop
  <2>4. QueueInv'
    BY <1>1, <2>1, <2>2 DEF SafeInv, QueueInv, TypeOK
  <2>5. GoneInv'
    BY <1>1, <2>1, <2>2 DEF SafeInv, GoneInv, TypeOK
  <2> QED
    BY <2>3, <2>4, <2>5
<1>q. CASE EDone
  BY <1>q, IdleQueue DEF EDone, ExitLoop, Up, Keying
<1>r. CASE Tick
  BY <1>r, IdleQueue DEF Tick, Up, Keying, arbVars, clientVars
<1>s. CASE UNCHANGED vars
  BY <1>s, IdleQueue DEF vars, Up, Keying
<1> QED
  BY <1>a, <1>b, <1>c, <1>d, <1>e, <1>f, <1>g, <1>h, <1>i, <1>j, <1>k, <1>l,
     <1>m, <1>n, <1>o, <1>p, <1>q, <1>r, <1>s DEF Next, Client, Arbiter

LEMMA SafeInit == Init => SafeInv
<1>1. Init => PhaseInv /\ QueueInv /\ GoneInv /\ NoLeftoverStop
  BY ConstantsAssumption
     DEF Init, PhaseInv, QueueInv, GoneInv, NoLeftoverStop, Keying, Releasing
<1> QED
  BY <1>1, InitType DEF SafeInv

LEMMA SafeStep == SafeInv /\ [Next]_vars => SafeInv'
BY TypeInductive, PhaseStep, QueueStep DEF SafeInv

LEMMA SafeInvariant == Spec => []SafeInv
BY SafeInit, SafeStep, PTL DEF Spec

(* A stop never outlives the hold it was meant for.                        *)
THEOREM StopsAreFresh == Spec => []NoLeftoverStop
BY SafeInvariant, PTL DEF SafeInv

LEMMA CarrierStep ==
  ASSUME HonestLink
  PROVE  SafeInv /\ CarrierInv /\ [Next]_vars => CarrierInv'
<1> SUFFICES ASSUME SafeInv, CarrierInv, [Next]_vars PROVE CarrierInv'
  OBVIOUS
<1> USE ConstantsAssumption DEF CarrierInv, Keying
<1>0. TypeOK /\ PhaseInv
  BY DEF SafeInv
<1>a. ASSUME NEW c \in Clients, Client(c) PROVE CarrierInv'
  BY <1>a DEF Client, SendStart, StartRefused, SendHeartbeat, SendStop,
              Disconnect, StartDropped, arbVars
<1>b. CASE SendShutdown \/ DropHandle \/ Tick \/ UNCHANGED vars
  BY <1>b DEF SendShutdown, DropHandle, Tick, vars, arbVars
<1>c. CASE Sweep
  BY <1>c DEF Sweep, Expired, BeginRelease
<1>d. CASE StartDenied \/ TakeHeartbeat
  BY <1>d DEF StartDenied, TakeHeartbeat, arbVars
<1>e. CASE StartBegins
  BY <1>e, <1>0 DEF StartBegins, Take, TypeOK
<1>f. CASE TakeStop
  BY <1>f DEF TakeStop, BeginRelease, Take
<1>g. CASE TakeShutdown
  BY <1>g DEF TakeShutdown, BeginRelease, ExitLoop, Take
<1>h. CASE AllHandlesDropped
  BY <1>h DEF AllHandlesDropped, ExitLoop
<1>i. CASE ZapDone
  BY <1>i DEF ZapDone
<1>j. CASE BDone
  <2>1. ~keyed /\ owner = NoOne /\ cur \in Clients
    BY <1>0, <1>j DEF BDone, PhaseInv
  <2>2. PICK o \in BOutcomes :
          /\ keyed' = (keyed \/ o.exec)
          /\ \/ o.reply = "ok" /\ owner' = cur
             \/ o.reply # "ok" /\ owner' = owner
    BY <1>j DEF BDone, Accepted
  <2>3. o.exec = (o.reply = "ok")
    BY DEF HonestLink
  <2>4. keyed' = (owner' # NoOne)
    BY <2>1, <2>2, <2>3
  <2> QED
    BY <1>j, <2>4 DEF BDone
<1>k. CASE EDone
  <2>1. owner' = NoOne /\ ~keyed'
    BY <1>0, <1>k DEF EDone, PhaseInv, Releasing, HonestLink
  <2> QED
    BY <1>k, <2>1 DEF EDone, ExitLoop
<1> QED
  BY <1>a, <1>b, <1>c, <1>d, <1>e, <1>f, <1>g, <1>h, <1>i, <1>j, <1>k
     DEF Next, Arbiter

(* Over an honest link the carrier is up exactly when somebody owns PTT,   *)
(* between any two radio commands.                                         *)
THEOREM CarrierIsOwned ==
  ASSUME HonestLink
  PROVE  Spec => []KeyedIsOwned
<1>1. Init => CarrierInv
  BY DEF Init, CarrierInv, Keying
<1>2. SafeInv /\ CarrierInv /\ [Next]_vars => CarrierInv'
  BY CarrierStep
<1>3. CarrierInv => KeyedIsOwned
  BY DEF CarrierInv, KeyedIsOwned
<1> QED
  BY <1>1, <1>2, <1>3, SafeInvariant, PTL DEF Spec

(* However the loop ends, the transmitter is off and nobody owns it.       *)
THEOREM ExitUnkeyed ==
  ASSUME HonestLink
  PROVE  Spec => []LeftUnkeyed
<1>1. Init => CarrierInv
  BY DEF Init, CarrierInv, Keying
<1>2. SafeInv /\ CarrierInv /\ [Next]_vars => CarrierInv'
  BY CarrierStep
<1>3. SafeInv /\ CarrierInv => LeftUnkeyed
  BY DEF SafeInv, PhaseInv, CarrierInv, LeftUnkeyed
<1> QED
  BY <1>1, <1>2, <1>3, SafeInvariant, PTL DEF Spec

-----------------------------------------------------------------------------
(* The lease of the arbiter, for one that runs within a tick of being      *)
(* runnable, and the lock it implements.                                   *)

(* An owner that has not been quiet has a fresh lease, or the heartbeat    *)
(* that will refresh it is queued.                                         *)
SteadyInv ==
  owner \in Clients /\ quiet <= HbTimeout
    => /\ age <= HbTimeout
       /\ \/ age <= quiet
          \/ \E i \in 1..Len(inbox) : inbox[i] = Msg("heartbeat", owner)

(* A queued Shutdown is one that main waits for.                           *)
ShutdownInv ==
  Up => \A i \in 1..Len(inbox) : inbox[i].kind = "shutdown" => main = "waiting"

(* The lease runs out at the first sweep after the timeout, and the release *)
(* takes two radio commands.                                               *)
LeaseInv ==
  /\ owner # NoOne => age <= HbTimeout \/ (age = HbTimeout + 1 /\ tickDue)
  /\ pc = "relZap" => age <= HbTimeout + 1 + cmdAge
  /\ pc = "relE" => age <= HbTimeout + 1 + CmdTicks + cmdAge

(* What a posting step does to membership in the queue.                    *)
LEMMA PostMembers ==
  ASSUME TypeOK, NEW k \in MsgKinds, NEW c \in ClientOrNone, Post(Msg(k, c))
  PROVE  /\ \A i \in 1..Len(inbox) : i \in 1..Len(inbox') /\ inbox'[i] = inbox[i]
         /\ \A i \in 1..Len(inbox') : i \in 1..Len(inbox) \/ inbox'[i] = Msg(k, c)
         /\ Len(inbox') \in 1..Len(inbox')
         /\ inbox'[Len(inbox')] = Msg(k, c)
<1>1. inbox \in Seq(Messages) /\ inbox' = Append(inbox, Msg(k, c)) /\ Len(inbox) \in Nat
  BY DEF TypeOK, Post
<1> QED
  BY <1>1, MsgType, AppendFacts

(* ... and a taking step.                                                  *)
LEMMA TakeMembers ==
  ASSUME TypeOK, NEW k, Take(k)
  PROVE  /\ Head(inbox) = inbox[1] /\ 1 \in 1..Len(inbox) /\ Head(inbox) \in Messages
         /\ \A i \in 1..Len(inbox') : i + 1 \in 1..Len(inbox) /\ inbox'[i] = inbox[i + 1]
         /\ \A i \in 1..Len(inbox) :
              i = 1 \/ (i - 1 \in 1..Len(inbox') /\ inbox'[i - 1] = inbox[i])
<1>1. inbox \in Seq(Messages) /\ inbox # <<>> /\ inbox' = Tail(inbox)
  BY DEF TypeOK, Take
<1> QED
  BY <1>1, TailFacts

LEMMA ShutdownStep == SafeInv /\ ShutdownInv /\ [Next]_vars => ShutdownInv'
<1> SUFFICES ASSUME SafeInv, ShutdownInv, [Next]_vars, Up',
                    NEW i \in 1..Len(inbox'), inbox'[i].kind = "shutdown"
             PROVE  main' = "waiting"
  BY DEF ShutdownInv
<1> USE ConstantsAssumption
<1>1. TypeOK /\ PhaseInv
  BY DEF SafeInv
<1>2. Up
  BY <1>1 DEF Next, Client, Arbiter, SendStart, StartRefused, SendHeartbeat, SendStop,
     Disconnect, StartDropped, SendShutdown, DropHandle, Sweep, BeginRelease, StartDenied, StartBegins,
     TakeHeartbeat, TakeStop, TakeShutdown, AllHandlesDropped, ZapDone, BDone, EDone,
     Take, Tick, Up, arbVars, vars
<1>a. ASSUME NEW c \in Clients, NEW k \in MsgKinds \ {"shutdown"}, Post(Msg(k, c)), UNCHANGED main
      PROVE  main' = "waiting"
  <2>1. i \in 1..Len(inbox) /\ inbox[i].kind = "shutdown"
    BY <1>1, <1>a, PostMembers DEF ClientOrNone, Msg
  <2> QED
    BY <1>2, <1>a, <2>1 DEF ShutdownInv
<1>b. ASSUME NEW k, Take(k), UNCHANGED main
      PROVE  main' = "waiting"
  <2>1. i + 1 \in 1..Len(inbox) /\ inbox[i + 1].kind = "shutdown"
    BY <1>1, <1>b, TakeMembers
  <2> QED
    BY <1>2, <1>b, <2>1 DEF ShutdownInv
<1>c. ASSUME UNCHANGED <<inbox, main>> PROVE main' = "waiting"
  BY <1>2, <1>c DEF ShutdownInv
<1>d. ASSUME NEW c \in Clients, Client(c) PROVE main' = "waiting"
  BY <1>a, <1>c, <1>d, <1>2 DEF Client, SendStart, StartRefused, SendHeartbeat, SendStop,
     Disconnect, StartDropped, MsgKinds, clientVars
<1>e. CASE SendShutdown
  BY <1>e DEF SendShutdown
<1>f. CASE DropHandle
  BY <1>2, <1>f DEF DropHandle, ShutdownInv
<1>g. CASE StartDenied \/ StartBegins \/ TakeHeartbeat \/ TakeStop
  BY <1>b, <1>g DEF StartDenied, StartBegins, TakeHeartbeat, TakeStop, clientVars
<1>h. CASE TakeShutdown
  BY <1>b, <1>h DEF TakeShutdown, ExitLoop, Up
<1>i. CASE Sweep \/ AllHandlesDropped \/ ZapDone \/ BDone \/ Tick \/ UNCHANGED vars
  BY <1>c, <1>i DEF Sweep, Expired, BeginRelease, AllHandlesDropped, ZapDone, BDone, Tick, vars, clientVars
<1>j. CASE EDone
  BY <1>c, <1>j, <1>1 DEF EDone, ExitLoop, Up, PhaseInv, Releasing
<1> QED
  BY <1>d, <1>e, <1>f, <1>g, <1>h, <1>i, <1>j DEF Next, Arbiter

LEMMA SteadyStep ==
  ASSUME Prompt
  PROVE  SafeInv /\ SteadyInv /\ [Next]_vars => SteadyInv'
<1> DEFINE Fresh == \/ age <= quiet
                    \/ \E i \in 1..Len(inbox) : inbox[i] = Msg("heartbeat", owner)
<1> SUFFICES ASSUME SafeInv, SteadyInv, [Next]_vars,
                    owner' \in Clients, quiet' <= HbTimeout
             PROVE  age' <= HbTimeout /\ Fresh'
  BY DEF SteadyInv
<1> USE ConstantsAssumption
<1>1. TypeOK /\ PhaseInv
  BY DEF SafeInv
<1>2. owner \in Clients /\ quiet <= HbTimeout => age <= HbTimeout /\ Fresh
  BY DEF SteadyInv
<1> HIDE DEF Fresh
<1>a. ASSUME NEW k \in MsgKinds, NEW c \in ClientOrNone, Post(Msg(k, c)),
             UNCHANGED <<owner, age, quiet>>
      PROVE  age' <= HbTimeout /\ Fresh'
  BY <1>1, <1>2, <1>a, PostMembers DEF Fresh
<1>b. ASSUME UNCHANGED <<owner, age, quiet, inbox>>
      PROVE  age' <= HbTimeout /\ Fresh'
  BY <1>2, <1>b DEF Fresh
<1>c. ASSUME NEW k, Take(k), k # "heartbeat", UNCHANGED <<owner, age, quiet>>
      PROVE  age' <= HbTimeout /\ Fresh'
  <2>1. age <= HbTimeout /\ Fresh
    BY <1>2, <1>c
  <2>2. CASE age <= quiet
    BY <1>c, <2>1, <2>2 DEF Fresh
  <2>3. ASSUME NEW i \in 1..Len(inbox), inbox[i] = Msg("heartbeat", owner)
        PROVE  Fresh'
    <3>1. i # 1
      BY <1>1, <1>c, <2>3, TakeMembers DEF Take, Msg
    <3> QED
      BY <1>1, <1>c, <2>3, <3>1, TakeMembers DEF Fresh
  <2> QED
    BY <1>c, <2>1, <2>2, <2>3 DEF Fresh
<1>d. ASSUME NEW c \in Clients, Client(c) PROVE age' <= HbTimeout /\ Fresh'
  <2>1. CASE SendHeartbeat(c)
    <3>1. Post(Msg("heartbeat", c)) /\ UNCHANGED <<owner, age>>
      BY <2>1 DEF SendHeartbeat, arbVars
    <3>2. CASE owner = c /\ quiet <= HbTimeout
      BY <1>1, <1>2, <3>1, <3>2, PostMembers DEF Fresh, MsgKinds, ClientOrNone
    <3>3. CASE ~(owner = c /\ quiet <= HbTimeout)
      <4>1. quiet' = quiet
        BY <2>1, <3>3 DEF SendHeartbeat
      <4> QED
        BY <1>a, <3>1, <4>1 DEF MsgKinds, ClientOrNone
    <3> QED
      BY <3>2, <3>3
  <2>2. CASE ~SendHeartbeat(c)
    BY <1>a, <1>b, <1>d, <2>2 DEF Client, SendStart, StartRefused, SendStop,
       Disconnect, StartDropped, MsgKinds, ClientOrNone, arbVars, timeVars
  <2> QED
    BY <2>1, <2>2
<1>e. CASE SendShutdown
  BY <1>a, <1>e DEF SendShutdown, MsgKinds, ClientOrNone, arbVars, timeVars
<1>f. CASE DropHandle \/ AllHandlesDropped \/ ZapDone \/ UNCHANGED vars
  BY <1>b, <1>f DEF DropHandle, AllHandlesDropped, ZapDone, vars, arbVars, timeVars
<1>g. CASE Sweep
  <2>1. UNCHANGED <<age, quiet, inbox>> /\ owner' = owner
    BY <1>g DEF Sweep, Expired, BeginRelease
  <2> QED
    BY <1>b, <2>1
<1>h. CASE StartDenied \/ StartBegins
  BY <1>c, <1>h DEF StartDenied, StartBegins, arbVars, timeVars
<1>i. CASE TakeHeartbeat
  <2>1. CASE owner = Sender
    <3>1. age' = 0 /\ quiet' = quiet
      BY <1>i, <2>1 DEF TakeHeartbeat
    <3> QED
      BY <1>1, <3>1 DEF Fresh, TypeOK
  <2>2. CASE owner # Sender
    <3>1. Take("heartbeat") /\ UNCHANGED <<owner, age, quiet>>
      BY <1>i, <2>2 DEF TakeHeartbeat, arbVars
    <3>2. age <= HbTimeout /\ Fresh
      BY <1>2, <3>1
    <3>3. CASE age <= quiet
      BY <3>1, <3>2, <3>3 DEF Fresh
    <3>4. ASSUME NEW i \in 1..Len(inbox), inbox[i] = Msg("heartbeat", owner)
          PROVE  Fresh'
      <4>1. i # 1
        BY <1>1, <2>2, <3>1, <3>4, TakeMembers DEF Sender, Msg
      <4> QED
        BY <1>1, <3>1, <3>4, <4>1, TakeMembers DEF Fresh
    <3> QED
      BY <3>1, <3>2, <3>3, <3>4 DEF Fresh
  <2> QED
    BY <2>1, <2>2
<1>j. CASE TakeStop
  <2>1. PICK k \in {"stop", "gone"} : Take(k)
    BY <1>j DEF TakeStop
  <2>2. UNCHANGED <<owner, age, quiet>>
    BY <1>j DEF TakeStop, BeginRelease, timeVars
  <2> QED
    BY <1>c, <2>1, <2>2
<1>k. CASE TakeShutdown
  <2>1. Take("shutdown") /\ UNCHANGED <<owner, age, quiet>>
    BY <1>k DEF TakeShutdown, BeginRelease, timeVars
  <2> QED
    BY <1>c, <2>1
<1>l. CASE BDone
  <2>1. CASE age' = 0 /\ quiet' = 0
    BY <2>1 DEF Fresh
  <2>2. CASE UNCHANGED <<owner, age, quiet>>
    BY <1>b, <1>l, <2>2 DEF BDone
  <2> QED
    BY <1>l, <2>1, <2>2 DEF BDone
<1>m. CASE EDone
  BY <1>b, <1>m DEF EDone
<1>n. CASE Tick
  <2>1. owner' = owner /\ inbox' = inbox /\ pc = "recv" /\ inbox = <<>>
    BY <1>1, <1>n DEF Tick, Up, Runnable, arbVars, PhaseInv, Keying, Releasing, TypeOK, OnAir
  <2>2. age \in Nat /\ quiet \in Nat /\ AgeCap \in Nat /\ HbTimeout < AgeCap
    BY <1>1 DEF TypeOK, AgeCap
  <2>3. age' = Older(age) /\ quiet' = Older(quiet)
    BY <1>n DEF Tick
  <2>4. quiet <= HbTimeout /\ quiet' = quiet + 1
    BY <2>2, <2>3 DEF Older
  <2>5. age <= quiet
    BY <1>2, <2>1, <2>4 DEF Fresh
  <2>6. age' <= age + 1
    BY <2>2, <2>3 DEF Older
  <2>7. age' <= quiet' /\ age' \in Nat
    BY <2>2, <2>3, <2>4, <2>5, <2>6 DEF Older
  <2> QED
    BY <2>2, <2>4, <2>7 DEF Fresh
<1> QED
  BY <1>d, <1>e, <1>f, <1>g, <1>h, <1>i, <1>j, <1>k, <1>l, <1>m, <1>n DEF Next, Arbiter

(* A client that heartbeats in time, does not stop and stays connected     *)
(* keeps PTT, however the other clients, the radio and the queue behave.   *)
THEOREM SteadyOwner ==
  ASSUME Prompt
  PROVE  Spec => SteadyOwnerKeepsPtt
<1>1. Init => SafeInv /\ SteadyInv /\ ShutdownInv
  <2>1. Init => SteadyInv /\ ShutdownInv
    BY ConstantsAssumption DEF Init, SteadyInv, ShutdownInv
  <2> QED
    BY <2>1, SafeInit
<1>2. SafeInv /\ SteadyInv /\ ShutdownInv /\ [Next]_vars
        => SafeInv' /\ SteadyInv' /\ ShutdownInv'
  BY SafeStep, SteadyStep, ShutdownStep
<1>3. SafeInv /\ SteadyInv /\ ShutdownInv /\ [Next]_vars
        => [\A c \in Clients :
              owner = c /\ owner' # c =>
                /\ owner' = NoOne
                /\ stopping[c] \/ main = "waiting" \/ quiet > HbTimeout]_vars
  <2> SUFFICES ASSUME SafeInv, SteadyInv, ShutdownInv, Next,
                      NEW c \in Clients, owner = c, owner' # c
               PROVE  /\ owner' = NoOne
                      /\ stopping[c] \/ main = "waiting" \/ quiet > HbTimeout
    OBVIOUS
  <2> USE ConstantsAssumption
  <2>1. TypeOK /\ PhaseInv
    BY DEF SafeInv
  <2>2. CASE Sweep
    <3>1. age > HbTimeout /\ owner' = NoOne
      BY <2>2 DEF Sweep, Expired, BeginRelease
    <3>2. ~(quiet <= HbTimeout)
      BY <2>1, <3>1 DEF SteadyInv, TypeOK
    <3> QED
      BY <2>1, <3>1, <3>2 DEF TypeOK
  <2>3. CASE TakeStop
    <3>1. PICK k \in {"stop", "gone"} : Take(k)
      BY <2>3 DEF TakeStop
    <3>2. owner' = NoOne /\ Sender = c
      BY <2>3 DEF TakeStop, BeginRelease
    <3>3. stopping[c]
      BY <2>1, <3>1, <3>2, TakeMembers DEF SafeInv, NoLeftoverStop, Take, Sender
    <3> QED
      BY <3>2, <3>3
  <2>4. CASE TakeShutdown
    <3>1. Take("shutdown") /\ owner' = NoOne
      BY <2>4 DEF TakeShutdown, BeginRelease
    <3>2. main = "waiting"
      BY <2>1, <3>1, TakeMembers DEF ShutdownInv, Take, Up
    <3> QED
      BY <3>1, <3>2
  <2>5. CASE BDone
    BY <2>1, <2>5 DEF BDone, PhaseInv, Keying
  <2>6. CASE \/ \E e \in Clients : Client(e)
             \/ SendShutdown \/ DropHandle \/ StartDenied \/ StartBegins \/ TakeHeartbeat
             \/ AllHandlesDropped \/ ZapDone \/ EDone \/ Tick
    <3>1. owner' = owner
      BY <2>6 DEF Client, SendStart, StartRefused, SendHeartbeat, SendStop, Disconnect,
         StartDropped, SendShutdown, DropHandle, StartDenied, StartBegins, TakeHeartbeat,
         AllHandlesDropped, ZapDone, EDone, Tick, arbVars
    <3> QED
      BY <3>1
  <2> QED
    BY <2>2, <2>3, <2>4, <2>5, <2>6 DEF Next, Arbiter
<1> QED
  BY <1>1, <1>2, <1>3, PTL DEF Spec, SteadyOwnerKeepsPtt

LEMMA LeaseStep ==
  ASSUME Prompt
  PROVE  SafeInv /\ LeaseInv /\ [Next]_vars => LeaseInv'
<1> SUFFICES ASSUME SafeInv, LeaseInv, [Next]_vars PROVE LeaseInv'
  OBVIOUS
<1> USE ConstantsAssumption
<1>1. TypeOK /\ PhaseInv
  BY DEF SafeInv
<1>2. age \in Nat /\ cmdAge \in Nat /\ cmdAge <= CmdTicks /\ AgeCap \in Nat
  BY <1>1 DEF TypeOK, AgeCap
<1>a. ASSUME UNCHANGED <<pc, owner, age, tickDue, cmdAge>> PROVE LeaseInv'
  BY <1>a DEF LeaseInv
<1>b. CASE \/ \E c \in Clients : Client(c)
           \/ SendShutdown \/ DropHandle \/ StartDenied \/ UNCHANGED vars
  BY <1>a, <1>b DEF Client, SendStart, StartRefused, SendHeartbeat, SendStop, Disconnect,
     StartDropped, SendShutdown, DropHandle, StartDenied, arbVars, timeVars, vars
<1>c. CASE Sweep
  <2>1. pc = "recv" /\ tickDue /\ age' = age /\ cmdAge' = cmdAge
    BY <1>c DEF Sweep, Expired, BeginRelease
  <2>2. owner # NoOne => age <= HbTimeout + 1
    BY <1>2, <2>1 DEF LeaseInv
  <2>3. CASE owner # NoOne /\ age > HbTimeout
    BY <1>2, <1>c, <2>1, <2>2, <2>3 DEF Sweep, Expired, BeginRelease, LeaseInv
  <2>4. CASE ~(owner # NoOne /\ age > HbTimeout)
    <3>1. pc' = pc /\ owner' = owner
      BY <1>c, <2>4 DEF Sweep, Expired, BeginRelease
    <3> QED
      BY <1>2, <2>1, <2>4, <3>1 DEF LeaseInv
  <2> QED
    BY <2>3, <2>4
<1>d. CASE StartBegins
  BY <1>d DEF StartBegins, LeaseInv, timeVars
<1>e. CASE TakeHeartbeat
  <2>1. pc' = "recv" /\ owner' = owner /\ tickDue' = tickDue /\ age' \in {0, age}
    BY <1>e DEF TakeHeartbeat, Take, arbVars
  <2> QED
    BY <1>2, <2>1 DEF LeaseInv
<1>f. CASE TakeStop
  <2>1. pc = "recv" /\ ~tickDue /\ UNCHANGED <<age, tickDue, cmdAge>>
    BY <1>f DEF TakeStop, Take, timeVars
  <2>2. \/ UNCHANGED <<pc, owner>>
        \/ owner # NoOne /\ owner' = NoOne /\ pc' = "relZap"
        \/ owner = NoOne /\ owner' = NoOne /\ Sender = NoOne /\ pc' = "relZap"
    BY <1>f DEF TakeStop, BeginRelease
  <2>3. Sender # NoOne
    BY <1>1, <1>f, TakeMembers DEF TakeStop, Take, Sender, SafeInv, QueueInv
  <2> QED
    BY <1>2, <2>1, <2>2, <2>3 DEF LeaseInv
<1>g. CASE TakeShutdown
  BY <1>2, <1>g DEF TakeShutdown, BeginRelease, ExitLoop, Take, LeaseInv, timeVars
<1>h. CASE AllHandlesDropped
  BY <1>h DEF AllHandlesDropped, ExitLoop, LeaseInv, timeVars
<1>i. CASE ZapDone
  BY <1>2, <1>i DEF ZapDone, LeaseInv
<1>j. CASE BDone
  BY <1>1, <1>2, <1>j DEF BDone, LeaseInv, PhaseInv, Keying
<1>k. CASE EDone
  BY <1>1, <1>k DEF EDone, ExitLoop, LeaseInv, PhaseInv, Releasing
<1>l. CASE Tick
  <2>1. /\ owner' = owner /\ pc' = pc /\ tickDue' = TRUE
        /\ age' <= age + 1 /\ age' \in Nat
        /\ pc \in OnAir => cmdAge' = cmdAge + 1
    BY <1>2, <1>l DEF Tick, Older, arbVars
  <2>2. pc = "recv" => ~tickDue
    BY <1>l DEF Tick, Runnable
  <2>3. pc # "recv" => owner = NoOne
    BY <1>1 DEF PhaseInv, Keying, Releasing, TypeOK, OnAir
  <2>4. owner' # NoOne => age' <= HbTimeout + 1
    BY <1>2, <2>1, <2>2, <2>3 DEF LeaseInv
  <2>5. pc' = "relZap" => age' <= HbTimeout + 1 + cmdAge'
    BY <1>2, <2>1 DEF LeaseInv, OnAir
  <2>6. pc' = "relE" => age' <= HbTimeout + 1 + CmdTicks + cmdAge'
    BY <1>2, <2>1 DEF LeaseInv, OnAir
  <2> QED
    BY <2>1, <2>4, <2>5, <2>6 DEF LeaseInv
<1> QED
  BY <1>b, <1>c, <1>d, <1>e, <1>f, <1>g, <1>h, <1>i, <1>j, <1>k, <1>l DEF Next, Arbiter

(* The silence of the client: since its last heartbeat was sent no more time *)
(* has passed than the arbiter counts, and a heartbeat of a live lease waits *)
(* in the queue for less than a tick.                                      *)
QuietInv ==
  /\ owner # NoOne => \/ quiet <= HbTimeout /\ quiet <= age
                      \/ quiet = HbTimeout + 1 /\ age = HbTimeout + 1 /\ tickDue
  /\ owner # NoOne /\ quiet <= HbTimeout
       => \A i \in 1..Len(inbox) : inbox[i] = Msg("heartbeat", owner) => quiet = 0
  /\ pc = "relZap" => quiet <= HbTimeout + 1 + cmdAge
  /\ pc = "relE" => quiet <= HbTimeout + 1 + CmdTicks + cmdAge

LEMMA QuietStep ==
  ASSUME Prompt
  PROVE  SafeInv /\ LeaseInv /\ QuietInv /\ [Next]_vars => QuietInv'
<1> SUFFICES ASSUME SafeInv, LeaseInv, QuietInv, [Next]_vars PROVE QuietInv'
  OBVIOUS
<1> USE ConstantsAssumption
<1> DEFINE Waits == owner # NoOne /\ quiet <= HbTimeout
                      => \A i \in 1..Len(inbox) : inbox[i] = Msg("heartbeat", owner)
                           => quiet = 0
<1>1. TypeOK /\ PhaseInv
  BY DEF SafeInv
<1>2. /\ age \in Nat /\ quiet \in Nat /\ cmdAge \in Nat /\ cmdAge <= CmdTicks
      /\ AgeCap \in Nat /\ HbTimeout + 1 < AgeCap
  BY <1>1 DEF TypeOK, AgeCap
<1>3. Waits
  BY DEF QuietInv
<1> HIDE DEF Waits
<1>a. ASSUME Waits', UNCHANGED <<pc, owner, age, quiet, tickDue, cmdAge>>
      PROVE  QuietInv'
  BY <1>a DEF QuietInv, Waits
<1>b. ASSUME NEW k \in MsgKinds, k # "heartbeat", NEW c \in ClientOrNone,
             Post(Msg(k, c)), UNCHANGED <<owner, quiet>>
      PROVE  Waits'
  BY <1>1, <1>3, <1>b, PostMembers DEF Waits, Msg
<1>c. ASSUME UNCHANGED <<owner, quiet, inbox>> PROVE Waits'
  BY <1>3, <1>c DEF Waits
<1>d. ASSUME NEW k, Take(k), UNCHANGED <<owner, quiet>> PROVE Waits'
  BY <1>1, <1>3, <1>d, TakeMembers DEF Waits
<1>e. ASSUME NEW c \in Clients, Client(c) PROVE QuietInv'
  <2>1. CASE SendHeartbeat(c)
    <3>1. /\ Post(Msg("heartbeat", c))
          /\ UNCHANGED <<pc, owner, age, tickDue, cmdAge>>
      BY <2>1 DEF SendHeartbeat, arbVars
    <3>2. CASE owner = c /\ quiet <= HbTimeout
      <4>1. quiet' = 0
        BY <2>1, <3>2 DEF SendHeartbeat
      <4>2. pc \notin {"relZap", "relE"}
        BY <1>1, <3>2 DEF PhaseInv, Releasing
      <4> QED
        BY <1>2, <3>1, <4>1, <4>2 DEF QuietInv
    <3>3. CASE ~(owner = c /\ quiet <= HbTimeout)
      <4>1. quiet' = quiet
        BY <2>1, <3>3 DEF SendHeartbeat
      <4>2. Waits'
        <5> SUFFICES ASSUME owner # NoOne, quiet <= HbTimeout,
                            NEW i \in 1..Len(inbox'), inbox'[i] = Msg("heartbeat", owner)
                     PROVE  quiet = 0
          BY <3>1, <4>1 DEF Waits
        <5>1. owner # c
          BY <3>3
        <5>2. i \in 1..Len(inbox) /\ inbox[i] = Msg("heartbeat", owner)
          BY <1>1, <3>1, <5>1, PostMembers DEF Msg, MsgKinds, ClientOrNone
        <5> QED
          BY <1>3, <5>2 DEF Waits
      <4> QED
        BY <1>a, <3>1, <4>1, <4>2
    <3> QED
      BY <3>2, <3>3
  <2>2. CASE ~SendHeartbeat(c)
    <3>1. UNCHANGED <<pc, owner, age, quiet, tickDue, cmdAge>>
      BY <1>e, <2>2 DEF Client, SendStart, StartRefused, SendStop, Disconnect,
         StartDropped, arbVars, timeVars
    <3>2. \/ UNCHANGED inbox
          \/ \E k \in {"start", "stop", "gone"} : Post(Msg(k, c))
      BY <1>e, <2>2 DEF Client, SendStart, StartRefused, SendStop, Disconnect,
         StartDropped
    <3>3. Waits'
      BY <1>b, <1>c, <3>1, <3>2 DEF MsgKinds, ClientOrNone
    <3> QED
      BY <1>a, <3>1, <3>3
  <2> QED
    BY <2>1, <2>2
<1>f. CASE SendShutdown \/ DropHandle \/ StartDenied \/ UNCHANGED vars
  <2>1. UNCHANGED <<pc, owner, age, quiet, tickDue, cmdAge>>
    BY <1>f DEF SendShutdown, DropHandle, StartDenied, arbVars, timeVars, vars
  <2>2. Waits'
    BY <1>b, <1>c, <1>d, <1>f, <2>1 DEF SendShutdown, DropHandle, StartDenied, vars,
       MsgKinds, ClientOrNone
  <2> QED
    BY <1>a, <2>1, <2>2
<1>g. CASE Sweep
  <2>1. /\ pc = "recv" /\ tickDue /\ UNCHANGED <<age, quiet, cmdAge, inbox>>
    BY <1>g DEF Sweep, Expired, BeginRelease
  <2>2. CASE owner # NoOne /\ age > HbTimeout
    <3>1. owner' = NoOne /\ pc' = "relZap"
      BY <1>g, <2>2 DEF Sweep, Expired, BeginRelease
    <3>2. quiet <= HbTimeout + 1
      BY <1>2, <2>2 DEF QuietInv
    <3> QED
      BY <1>2, <2>1, <3>1, <3>2 DEF QuietInv
  <2>3. CASE ~(owner # NoOne /\ age > HbTimeout)
    <3>1. UNCHANGED <<pc, owner>>
      BY <1>g, <2>3 DEF Sweep, Expired, BeginRelease
    <3>2. owner # NoOne => quiet <= HbTimeout /\ quiet <= age
      BY <1>2, <2>3 DEF QuietInv
    <3>3. Waits'
      BY <1>c, <2>1, <3>1
    <3> QED
      BY <2>1, <3>1, <3>2, <3>3 DEF QuietInv, Waits
  <2> QED
    BY <2>2, <2>3
<1>h. CASE StartBegins
  <2>1. owner' = NoOne /\ pc' = "startZap"
    BY <1>h DEF StartBegins
  <2> QED
    BY <2>1 DEF QuietInv
<1>i. CASE TakeHeartbeat
  <2>1. /\ pc = "recv" /\ ~tickDue /\ Take("heartbeat")
        /\ UNCHANGED <<pc, owner, quiet, tickDue, cmdAge>>
        /\ age' = IF owner = Sender THEN 0 ELSE age
    BY <1>i DEF TakeHeartbeat, Take, arbVars
  <2>2. owner # NoOne => quiet <= HbTimeout /\ quiet <= age
    BY <2>1 DEF QuietInv
  <2>3. owner # NoOne => quiet <= age'
    <3>1. CASE owner # NoOne /\ owner = Sender
      <4>1. 1 \in 1..Len(inbox) /\ inbox[1] = Msg("heartbeat", owner)
        <5>1. Head(inbox) = inbox[1] /\ 1 \in 1..Len(inbox) /\ Head(inbox) \in Messages
          BY <1>1, <2>1, TakeMembers
        <5>2. Head(inbox).kind = "heartbeat" /\ Head(inbox).client = owner
          BY <2>1, <3>1 DEF Take, Sender
        <5> QED
          BY <5>1, <5>2 DEF Messages, Msg
      <4>2. quiet = 0
        BY <1>3, <2>2, <3>1, <4>1 DEF Waits
      <4> QED
        BY <1>2, <2>1, <4>2
    <3>2. CASE owner # Sender
      BY <2>1, <2>2, <3>2
    <3> QED
      BY <3>1, <3>2
  <2>4. Waits'
    BY <1>d, <2>1
  <2> QED
    BY <2>1, <2>2, <2>3, <2>4 DEF QuietInv, Waits
<1>j. CASE TakeStop \/ TakeShutdown
  <2>1. /\ pc = "recv" /\ ~tickDue /\ UNCHANGED <<age, quiet, tickDue, cmdAge>>
        /\ \E k \in {"stop", "gone", "shutdown"} : Take(k)
    BY <1>j DEF TakeStop, TakeShutdown, Take, timeVars
  <2>2. CASE UNCHANGED <<pc, owner>>
    <3>1. Waits'
      BY <1>d, <2>1, <2>2
    <3> QED
      BY <1>a, <2>1, <2>2, <3>1
  <2>3. CASE pc' = "stopped" /\ owner' = NoOne
    BY <2>3 DEF QuietInv
  <2>4. CASE pc' = "relZap" /\ owner' = NoOne /\ owner # NoOne
    <3>1. quiet <= HbTimeout + 1
      BY <1>2, <2>1, <2>4 DEF QuietInv
    <3> QED
      BY <1>2, <2>1, <2>4, <3>1 DEF QuietInv
  <2>5. TakeStop => Sender # NoOne
    BY <1>1, TakeMembers DEF TakeStop, Take, Sender, SafeInv, QueueInv
  <2> QED
    BY <1>j, <2>2, <2>3, <2>4, <2>5 DEF TakeStop, TakeShutdown, BeginRelease, ExitLoop
<1>k. CASE AllHandlesDropped
  <2>1. /\ pc' \notin {"relZap", "relE"}
        /\ UNCHANGED <<inbox, owner, age, quiet, tickDue>>
    BY <1>k DEF AllHandlesDropped, ExitLoop, timeVars
  <2>2. Waits'
    BY <1>c, <2>1
  <2> QED
    BY <2>1, <2>2 DEF QuietInv, Waits
<1>o. CASE EDone
  <2>1. owner' = NoOne /\ pc' \notin {"relZap", "relE"}
    BY <1>1, <1>o DEF EDone, ExitLoop, PhaseInv, Releasing
  <2> QED
    BY <2>1 DEF QuietInv
<1>l. CASE ZapDone
  <2>1. owner = NoOne /\ owner' = NoOne /\ quiet' = quiet /\ cmdAge' = 0
    BY <1>1, <1>l DEF ZapDone, PhaseInv, Keying, Releasing
  <2> QED
    BY <1>2, <1>l, <2>1 DEF ZapDone, QuietInv
<1>m. CASE BDone
  <2>1. /\ pc' = "recv"
        /\ \/ owner' = NoOne
           \/ age' = 0 /\ quiet' = 0
    BY <1>1, <1>m DEF BDone, PhaseInv, Keying
  <2> QED
    BY <1>2, <2>1 DEF QuietInv
<1>n. CASE Tick
  <2>1. /\ UNCHANGED <<pc, owner, inbox>> /\ tickDue' = TRUE
        /\ age' = Older(age) /\ quiet' = Older(quiet)
        /\ pc \in OnAir => cmdAge' = cmdAge + 1
    BY <1>n DEF Tick, arbVars
  <2>2. owner # NoOne => pc = "recv" /\ inbox = <<>> /\ ~tickDue
    BY <1>1, <1>n DEF Tick, Up, Runnable, PhaseInv, Keying, Releasing, TypeOK, OnAir
  <2>3. quiet' <= quiet + 1 /\ quiet' \in Nat
    BY <1>2, <2>1 DEF Older
  <2>4. owner' # NoOne => \/ quiet' <= HbTimeout /\ quiet' <= age'
                          \/ quiet' = HbTimeout + 1 /\ age' = HbTimeout + 1 /\ tickDue'
    <3> SUFFICES ASSUME owner # NoOne
                 PROVE  \/ quiet' <= HbTimeout /\ quiet' <= age'
                        \/ quiet' = HbTimeout + 1 /\ age' = HbTimeout + 1
      BY <2>1
    <3>1. quiet <= age /\ quiet <= HbTimeout /\ age <= HbTimeout
      BY <1>2, <2>2 DEF QuietInv, LeaseInv
    <3>2. quiet' = quiet + 1 /\ age' = age + 1
      BY <1>2, <2>1, <3>1 DEF Older
    <3> QED
      BY <1>2, <3>1, <3>2
  <2>5. Waits'
    BY <2>1, <2>2 DEF Waits
  <2>6. pc' = "relZap" => quiet' <= HbTimeout + 1 + cmdAge'
    BY <1>2, <2>1, <2>3 DEF QuietInv, OnAir
  <2>7. pc' = "relE" => quiet' <= HbTimeout + 1 + CmdTicks + cmdAge'
    BY <1>2, <2>1, <2>3 DEF QuietInv, OnAir
  <2> QED
    BY <2>4, <2>5, <2>6, <2>7 DEF QuietInv, Waits
<1> QED
  BY <1>e, <1>f, <1>g, <1>h, <1>i, <1>j, <1>k, <1>l, <1>m, <1>n, <1>o
     DEF Next, Arbiter

(* Over a link that reports what the radio did, the carrier itself is gone *)
(* one watchdog tick and the two radio commands of the release after the   *)
(* timeout, for every timeout and every duration of a command.             *)
THEOREM BoundedLease ==
  ASSUME Prompt, HonestLink
  PROVE  Spec => []LeaseBound
<1>1. Init => LeaseInv /\ QuietInv /\ CarrierInv
  BY DEF Init, LeaseInv, QuietInv, CarrierInv, Keying
<1>2. SafeInv /\ LeaseInv /\ [Next]_vars => LeaseInv'
  BY LeaseStep
<1>3. SafeInv /\ LeaseInv /\ QuietInv /\ [Next]_vars => QuietInv'
  BY QuietStep
<1>4. SafeInv /\ CarrierInv /\ [Next]_vars => CarrierInv'
  BY CarrierStep
<1>5. SafeInv /\ LeaseInv /\ QuietInv /\ CarrierInv => LeaseBound
  <2> SUFFICES ASSUME SafeInv, LeaseInv, QuietInv, CarrierInv, keyed
               PROVE  /\ age <= HbTimeout + 1 + 2 * CmdTicks
                      /\ quiet <= HbTimeout + 1 + 2 * CmdTicks
    BY DEF LeaseBound
  <2>1. /\ age \in Nat /\ quiet \in Nat /\ cmdAge \in Nat /\ cmdAge <= CmdTicks
        /\ HbTimeout \in Nat /\ CmdTicks \in Nat
    BY ConstantsAssumption DEF SafeInv, TypeOK, AgeCap
  <2>2. owner # NoOne \/ pc \in {"relZap", "relE"}
    BY DEF SafeInv, TypeOK, OnAir, PhaseInv, CarrierInv, Keying
  <2>3. CASE owner # NoOne
    BY <2>1, <2>3 DEF LeaseInv, QuietInv
  <2>4. CASE pc = "relZap"
    BY <2>1, <2>4 DEF LeaseInv, QuietInv
  <2>5. CASE pc = "relE"
    BY <2>1, <2>5 DEF LeaseInv, QuietInv
  <2> QED
    BY <2>2, <2>3, <2>4, <2>5
<1> QED
  BY <1>1, <1>2, <1>3, <1>4, <1>5, SafeInvariant, PTL DEF Spec

-----------------------------------------------------------------------------
(* The arbiter's steps are steps of the abstract lock.                     *)

LEMMA LockInitially == Init => Lock!LockInit
BY DEF Init, Lock!LockInit

LEMMA LockStep == SafeInv /\ [Next]_vars => [Lock!LockNext]_(Lock!lockVars)
<1> SUFFICES ASSUME SafeInv, [Next]_vars PROVE [Lock!LockNext]_(Lock!lockVars)
  OBVIOUS
<1> DEFINE Asking == {c \in Clients : ws[c] = "waiting"}
           Closed == pc = "stopped"
<1> USE ConstantsAssumption
<1>1. TypeOK /\ PhaseInv
  BY DEF SafeInv
<1>a. ASSUME UNCHANGED <<owner, Asking, answer, Closed>>
      PROVE  UNCHANGED Lock!lockVars
  BY <1>a DEF Lock!lockVars
<1>b. ASSUME NEW c \in Clients, SendStart(c) PROVE Lock!Ask(c)
  <2>1. Asking' = Asking \cup {c} /\ c \notin Asking
    BY <1>1, <1>b DEF SendStart, TypeOK
  <2> QED
    BY <1>b, <2>1 DEF SendStart, Lock!Ask, arbVars
<1>c. ASSUME NEW c \in Clients, StartRefused(c) PROVE Lock!AskClosed(c)
  BY <1>c DEF StartRefused, Up, Lock!AskClosed, arbVars
<1>d. ASSUME NEW c \in Clients, SendHeartbeat(c) \/ SendStop(c) \/ Disconnect(c)
      PROVE  UNCHANGED Lock!lockVars
  <2>1. Asking' = Asking
    BY <1>1, <1>d DEF SendHeartbeat, SendStop, Disconnect, TypeOK, clientVars
  <2> QED
    BY <1>a, <1>d, <2>1 DEF SendHeartbeat, SendStop, Disconnect, arbVars, clientVars
<1>e. ASSUME NEW c \in Clients, StartDropped(c) PROVE Lock!DenyDown(c)
  <2>1. Asking' = Asking \ {c} /\ c \in Asking
    BY <1>1, <1>e DEF StartDropped, TypeOK
  <2> QED
    BY <1>e, <2>1 DEF StartDropped, Up, Lock!DenyDown, Lock!Reply, arbVars
<1>f. CASE SendShutdown \/ DropHandle \/ TakeHeartbeat \/ ZapDone \/ Tick \/ UNCHANGED vars
  BY <1>a, <1>f DEF SendShutdown, DropHandle, TakeHeartbeat, ZapDone, Tick, Take, vars,
     arbVars, clientVars
<1>g. CASE Sweep \/ TakeStop
  <2>1. Asking' = Asking /\ answer' = answer /\ ~Closed /\ ~Closed'
    BY <1>g DEF Sweep, Expired, BeginRelease, TakeStop, Take, clientVars
  <2>2. owner' = owner \/ (owner # NoOne /\ owner' = NoOne)
    BY <1>g DEF Sweep, Expired, BeginRelease, TakeStop
  <2>3. Lock!Release \/ UNCHANGED Lock!lockVars
    BY <1>a, <2>1, <2>2 DEF Lock!Release
  <2> QED
    BY <2>3 DEF Lock!LockNext
<1>h. CASE StartDenied
  <2>1. Take("start")
    BY <1>h DEF StartDenied
  <2>2. Sender \in Clients /\ ws[Sender] = "waiting"
    BY <1>1, <2>1, TakeMembers DEF SafeInv, QueueInv, Take, Sender, Up
  <2>3. PICK c \in Clients : c = Sender
    BY <2>2
  <2>4. Asking' = Asking \ {c} /\ c \in Asking
    BY <1>1, <1>h, <2>2, <2>3 DEF StartDenied, Respond, TypeOK
  <2>5. Lock!DenyLocked(c)
    BY <1>h, <2>1, <2>3, <2>4 DEF StartDenied, Respond, Take, Lock!DenyLocked, Lock!Reply, arbVars
  <2> QED
    BY <2>5 DEF Lock!LockNext, Lock!Answer
<1>j. CASE StartBegins
  BY <1>a, <1>j DEF StartBegins, Take, clientVars
<1>k. CASE TakeShutdown
  <2>1. Asking' = Asking /\ answer' = answer /\ ~Closed
    BY <1>k DEF TakeShutdown, Take
  <2>2. \/ owner # NoOne /\ owner' = NoOne /\ ~Closed'
        \/ owner = NoOne /\ owner' = NoOne /\ Closed'
    BY <1>k DEF TakeShutdown, BeginRelease, ExitLoop
  <2>3. Lock!Release \/ Lock!Close
    BY <2>1, <2>2 DEF Lock!Release, Lock!Close
  <2> QED
    BY <2>3 DEF Lock!LockNext
<1>l. CASE AllHandlesDropped \/ EDone
  <2>1. /\ Asking' = Asking /\ answer' = answer /\ ~Closed
        /\ owner' = owner /\ Closed' \in BOOLEAN
    BY <1>l DEF AllHandlesDropped, EDone, clientVars
  <2>2. Closed' => owner = NoOne
    BY <1>l DEF AllHandlesDropped, EDone, ExitLoop
  <2>3. Lock!Close \/ UNCHANGED Lock!lockVars
    BY <1>a, <2>1, <2>2 DEF Lock!Close
  <2> QED
    BY <2>3 DEF Lock!LockNext
<1>m. CASE BDone
  <2>1. cur \in Clients /\ ws[cur] = "waiting" /\ owner = NoOne /\ ~Closed /\ ~Closed'
    BY <1>1, <1>m DEF BDone, PhaseInv, Keying
  <2>2. ws' = [ws EXCEPT ![cur] = "open"]
    BY <1>m DEF BDone, Respond
  <2>3. Asking' = Asking \ {cur} /\ cur \in Asking
    BY <1>1, <2>1, <2>2 DEF TypeOK
  <2>4. \/ owner' = cur /\ answer' = [answer EXCEPT ![cur] = "granted"]
        \/ owner' = owner /\ answer' = [answer EXCEPT ![cur] = "radio_error"]
    BY <1>m DEF BDone, Respond
  <2>5. PICK c \in Clients : c = cur
    BY <2>1
  <2>6. Lock!Grant(c) \/ Lock!DenyRadio(c)
    BY <2>1, <2>3, <2>4, <2>5 DEF Lock!Grant, Lock!DenyRadio, Lock!Reply
  <2> QED
    BY <2>6 DEF Lock!LockNext, Lock!Answer
<1> QED
  BY <1>b, <1>c, <1>d, <1>e, <1>f, <1>g, <1>h, <1>j, <1>k, <1>l, <1>m
     DEF Next, Client, Arbiter, Lock!LockNext, Lock!Answer

(* Every run of the arbiter is a run of the abstract lock: one owner at a  *)
(* time, truthful answers, a stop only with the lock free.                 *)
THEOREM ArbiterImplementsLock == Spec => Lock!LockSafety
BY LockInitially, LockStep, SafeInvariant, PTL DEF Spec, Lock!LockSafety
=============================================================================
