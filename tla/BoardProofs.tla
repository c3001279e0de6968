---------------------------- MODULE BoardProofs ----------------------------
(***************************************************************************)
(* Proofs about what browsers see of the scanner: the module stays         *)
(* well-typed, and every button and channel is about to be right.          *)
(***************************************************************************)
EXTENDS ScanBoard, TLAPS

LEMMA Appended ==
  ASSUME NEW S, NEW q \in Seq(S), NEW e \in S
  PROVE  /\ Append(q, e) \in Seq(S)
         /\ Len(q) \in Nat
         /\ Len(Append(q, e)) = Len(q) + 1
         /\ \A i \in 1..Len(q) : Append(q, e)[i] = q[i]
         /\ Append(q, e)[Len(q) + 1] = e
         /\ DOMAIN Append(q, e) = 1..(Len(q) + 1) /\ DOMAIN q = 1..Len(q)
OBVIOUS

LEMMA Popped ==
  ASSUME NEW S, NEW q \in Seq(S), q # <<>>
  PROVE  /\ Tail(q) \in Seq(S)
         /\ Len(q) \in Nat \ {0}
         /\ Len(Tail(q)) = Len(q) - 1
         /\ \A i \in 1..Len(Tail(q)) : Tail(q)[i] = q[i + 1]
         /\ Head(q) = q[1] /\ Head(q) \in S
         /\ DOMAIN Tail(q) = 1..(Len(q) - 1) /\ DOMAIN q = 1..Len(q)
OBVIOUS

-----------------------------------------------------------------------------
(* What messages make of a fact: none, one more at the end, one at the     *)
(* beginning, two backlogs one after the other.                            *)

LEMMA BecomesNothing ==
  ASSUME NEW S, NEW T, NEW now \in BOOLEAN
  PROVE  Becomes(<<>>, S, T, now) <=> now
BY DEF Becomes

LEMMA BecomesMore ==
  ASSUME NEW M, NEW q \in Seq(M), NEW e \in M, NEW S, NEW T, T \subseteq S,
         NEW now \in BOOLEAN
  PROVE  /\ e \in S => (Becomes(Append(q, e), S, T, now) <=> e \in T)
         /\ e \notin S => (Becomes(Append(q, e), S, T, now) <=> Becomes(q, S, T, now))
<1> PICK r : r = Append(q, e)
  OBVIOUS
<1>1. /\ Len(q) \in Nat
      /\ DOMAIN r = 1..(Len(q) + 1) /\ DOMAIN q = 1..Len(q)
      /\ \A i \in 1..Len(q) : r[i] = q[i]
      /\ r[Len(q) + 1] = e
  BY Appended
<1>2. CASE e \in S
  BY <1>1, <1>2 DEF Becomes
<1>3. CASE e \notin S
  <2>1. ASSUME Becomes(r, S, T, now) PROVE Becomes(q, S, T, now)
    BY <1>1, <1>3, <2>1 DEF Becomes
  <2>2. ASSUME Becomes(q, S, T, now) PROVE Becomes(r, S, T, now)
    BY <1>1, <1>3, <2>2 DEF Becomes
  <2> QED BY <1>3, <2>1, <2>2
<1> QED BY <1>2, <1>3

LEMMA BecomesFirst ==
  ASSUME NEW M, NEW q \in Seq(M), q # <<>>, NEW S, NEW T, T \subseteq S,
         NEW now \in BOOLEAN, NEW next \in BOOLEAN,
         Head(q) \in S => (next <=> Head(q) \in T),
         Head(q) \notin S => (next <=> now)
  PROVE  Becomes(q, S, T, now) <=> Becomes(Tail(q), S, T, next)
<1> PICK r : r = Tail(q)
  OBVIOUS
<1>1. /\ Len(q) \in Nat \ {0}
      /\ DOMAIN r = 1..(Len(q) - 1) /\ DOMAIN q = 1..Len(q)
      /\ \A i \in 1..(Len(q) - 1) : r[i] = q[i + 1]
      /\ Head(q) = q[1]
  BY Popped
<1>2. ASSUME Becomes(q, S, T, now) PROVE Becomes(r, S, T, next)
  <2>1. ASSUME NEW i \in DOMAIN q, q[i] \in T, \A j \in DOMAIN q : j > i => q[j] \notin S
        PROVE  Becomes(r, S, T, next)
    <3>1. CASE i = 1
      <4>1. \A j \in DOMAIN r : r[j] \notin S
        BY <1>1, <2>1, <3>1
      <4>2. next
        BY <1>1, <2>1, <3>1
      <4> QED BY <4>1, <4>2 DEF Becomes
    <3>2. CASE i # 1
      <4>1. i - 1 \in DOMAIN r /\ r[i - 1] \in T
        BY <1>1, <2>1, <3>2
      <4>2. \A j \in DOMAIN r : j > i - 1 => r[j] \notin S
        BY <1>1, <2>1
      <4> QED BY <4>1, <4>2 DEF Becomes
    <3> QED BY <3>1, <3>2
  <2>2. ASSUME now, \A i \in DOMAIN q : q[i] \notin S PROVE Becomes(r, S, T, next)
    <3>1. next
      BY <1>1, <2>2
    <3>2. \A i \in DOMAIN r : r[i] \notin S
      BY <1>1, <2>2
    <3> QED BY <3>1, <3>2 DEF Becomes
  <2> QED BY <1>2, <2>1, <2>2 DEF Becomes
<1>3. ASSUME Becomes(r, S, T, next) PROVE Becomes(q, S, T, now)
  <2>1. ASSUME NEW i \in DOMAIN r, r[i] \in T, \A j \in DOMAIN r : j > i => r[j] \notin S
        PROVE  Becomes(q, S, T, now)
    <3>1. i + 1 \in DOMAIN q /\ q[i + 1] \in T
      BY <1>1, <2>1
    <3>2. ASSUME NEW j \in DOMAIN q, j > i + 1 PROVE q[j] \notin S
      <4>1. j - 1 \in DOMAIN r /\ j - 1 > i /\ r[j - 1] = q[j]
        BY <1>1, <2>1, <3>2
      <4> QED BY <2>1, <4>1
    <3> QED BY <3>1, <3>2 DEF Becomes
  <2>2. ASSUME next, \A i \in DOMAIN r : r[i] \notin S PROVE Becomes(q, S, T, now)
    <3>1. ASSUME NEW j \in DOMAIN q, j > 1 PROVE q[j] \notin S
      <4>1. j - 1 \in DOMAIN r /\ r[j - 1] = q[j]
        BY <1>1, <3>1
      <4> QED BY <2>2, <4>1
    <3>2. CASE Head(q) \in S
      <4>1. 1 \in DOMAIN q /\ q[1] \in T
        BY <1>1, <2>2, <3>2
      <4> QED BY <3>1, <4>1 DEF Becomes
    <3>3. CASE Head(q) \notin S
      <4>1. now /\ \A j \in DOMAIN q : q[j] \notin S
        BY <1>1, <2>2, <3>1, <3>3
      <4> QED BY <4>1 DEF Becomes
    <3> QED BY <3>2, <3>3
  <2> QED BY <1>3, <2>1, <2>2 DEF Becomes
<1> QED BY <1>2, <1>3

LEMMA BecomesThen ==
  ASSUME NEW M, NEW p \in Seq(M), NEW q \in Seq(M), NEW S, NEW T, T \subseteq S,
         NEW now \in BOOLEAN
  PROVE  Becomes(p \o q, S, T, now) <=> Becomes(q, S, T, Becomes(p, S, T, now))
<1> PICK r : r = p \o q
  OBVIOUS
<1>1. /\ Len(p) \in Nat /\ Len(q) \in Nat
      /\ DOMAIN r = 1..(Len(p) + Len(q)) /\ DOMAIN p = 1..Len(p) /\ DOMAIN q = 1..Len(q)
      /\ \A i \in 1..Len(p) : r[i] = p[i]
      /\ \A i \in 1..Len(q) : r[Len(p) + i] = q[i]
  OBVIOUS
<1>2. \A i \in DOMAIN r : i \notin 1..Len(p)
                             => i - Len(p) \in 1..Len(q) /\ r[i] = q[i - Len(p)]
  <2> SUFFICES ASSUME NEW i \in DOMAIN r, i \notin 1..Len(p)
               PROVE  i - Len(p) \in 1..Len(q) /\ r[i] = q[i - Len(p)]
    OBVIOUS
  <2>1. i - Len(p) \in 1..Len(q) /\ Len(p) + (i - Len(p)) = i
    BY <1>1
  <2> QED BY <1>1, <2>1
<1>3. \A j \in DOMAIN q : /\ j \in Nat /\ Len(p) + j \in DOMAIN r
                         /\ Len(p) + j > Len(p) /\ r[Len(p) + j] = q[j]
  BY <1>1
<1>4. ASSUME Becomes(r, S, T, now) PROVE Becomes(q, S, T, Becomes(p, S, T, now))
  <2>1. ASSUME NEW i \in DOMAIN r, r[i] \in T, \A j \in DOMAIN r : j > i => r[j] \notin S
        PROVE  Becomes(q, S, T, Becomes(p, S, T, now))
    <3>1. CASE i \in 1..Len(p)
      <4>1. ASSUME NEW j \in DOMAIN q PROVE q[j] \notin S
        <5>1. Len(p) + j \in DOMAIN r /\ Len(p) + j > i /\ r[Len(p) + j] = q[j]
          BY <1>1, <1>3, <3>1
        <5> QED BY <2>1, <5>1
      <4>2. i \in DOMAIN p /\ p[i] \in T /\ \A j \in DOMAIN p : j > i => p[j] \notin S
        BY <1>1, <2>1, <3>1
      <4> QED BY <4>1, <4>2 DEF Becomes
    <3>2. CASE i \notin 1..Len(p)
      <4>1. i - Len(p) \in DOMAIN q /\ q[i - Len(p)] \in T
        BY <1>1, <1>2, <2>1, <3>2
      <4>2. ASSUME NEW j \in DOMAIN q, j > i - Len(p) PROVE q[j] \notin S
        <5>1. Len(p) + j \in DOMAIN r /\ Len(p) + j > i /\ r[Len(p) + j] = q[j]
          BY <1>1, <1>3, <2>1, <4>2
        <5> QED BY <2>1, <5>1
      <4> QED BY <4>1, <4>2 DEF Becomes
    <3> QED BY <3>1, <3>2
  <2>2. ASSUME now, \A i \in DOMAIN r : r[i] \notin S
        PROVE  Becomes(q, S, T, Becomes(p, S, T, now))
    <3>1. \A i \in DOMAIN p : p[i] \notin S
      BY <1>1, <2>2
    <3>2. \A i \in DOMAIN q : q[i] \notin S
      BY <1>3, <2>2
    <3> QED BY <2>2, <3>1, <3>2 DEF Becomes
  <2> QED BY <1>4, <2>1, <2>2 DEF Becomes
<1>5. ASSUME Becomes(q, S, T, Becomes(p, S, T, now)) PROVE Becomes(r, S, T, now)
  <2>1. ASSUME NEW i \in DOMAIN q, q[i] \in T, \A j \in DOMAIN q : j > i => q[j] \notin S
        PROVE  Becomes(r, S, T, now)
    <3>1. Len(p) + i \in DOMAIN r /\ r[Len(p) + i] \in T
      BY <1>1, <2>1
    <3>2. ASSUME NEW j \in DOMAIN r, j > Len(p) + i PROVE r[j] \notin S
      <4>1. j - Len(p) \in DOMAIN q /\ j - Len(p) > i /\ r[j] = q[j - Len(p)]
        BY <1>1, <1>2, <2>1, <3>2
      <4> QED BY <2>1, <4>1
    <3> QED BY <3>1, <3>2 DEF Becomes
  <2>2. ASSUME Becomes(p, S, T, now), \A i \in DOMAIN q : q[i] \notin S
        PROVE  Becomes(r, S, T, now)
    <3>1. \A j \in DOMAIN r : j \notin 1..Len(p) => r[j] \notin S
      BY <1>1, <1>2, <2>2
    <3>2. ASSUME NEW i \in DOMAIN p, p[i] \in T, \A j \in DOMAIN p : j > i => p[j] \notin S
          PROVE  Becomes(r, S, T, now)
      <4>1. i \in DOMAIN r /\ r[i] \in T /\ \A j \in DOMAIN r : j > i => r[j] \notin S
        BY <1>1, <3>1, <3>2
      <4> QED BY <4>1 DEF Becomes
    <3>3. ASSUME now, \A i \in DOMAIN p : p[i] \notin S PROVE Becomes(r, S, T, now)
      BY <1>1, <3>1, <3>3 DEF Becomes
    <3> QED BY <2>2, <3>2, <3>3 DEF Becomes
  <2> QED BY <1>5, <2>1, <2>2 DEF Becomes
<1> QED BY <1>4, <1>5

-----------------------------------------------------------------------------
(* The type invariant. TypeOK does not say that queue and net are          *)
(* functions on Browsers, which its own preservation needs.                *)

QueueOK == queue \in [Browsers -> Seq(Events)] /\ \A b \in Browsers : Len(queue[b]) <= QueueCap
NetOK   == net \in [Browsers -> Seq(Messages)] /\ \A b \in Browsers : Len(net[b]) <= NetCap
CmdsOK  == cmds \in Seq(Commands) /\ Len(cmds) <= CmdCap

StateOK == /\ running \in BOOLEAN
           /\ tuned \in Names
           /\ posting \in Askers \cup {"no"}
           /\ \E c \in Names : snapshot \subseteq {c}
           /\ link \in [Browsers -> Links]
           /\ reply \in [Browsers -> {"none", "start_ack", "start_err"}]
           /\ panel \in [Browsers -> Panels]
           /\ missed \in [Browsers -> {"none", "button", "channel"}]

Typed == QueueOK /\ NetOK /\ CmdsOK /\ StateOK

LEMMA TypedIsTypeOK == Typed => TypeOK
BY DEF Typed, QueueOK, NetOK, CmdsOK, StateOK, TypeOK

LEMMA NamesFacts == Channels \subseteq Names /\ 0 \in Names /\ 0 \notin Channels
BY BoardAssumption DEF Names

LEMMA EventTypes ==
  /\ Event("started", 0) \in Events /\ Event("stopped", 0) \in Events
  /\ \A c \in Names : Event("tuned", c) \in Events
  /\ Event("start_ack", 0) \in Answers /\ Event("start_err", 0) \in Answers
  /\ Events \subseteq Messages /\ Answers \subseteq Messages
BY NamesFacts DEF Event, Events, Answers, Messages

LEMMA BroadcastOK ==
  ASSUME QueueOK, NEW e \in Events, Broadcast(e)
  PROVE  /\ QueueOK'
         /\ \A b \in Browsers : queue'[b] = IF link[b] = "off" THEN queue[b]
                                                               ELSE Append(queue[b], e)
<1>1. ASSUME NEW b \in Browsers
      PROVE  /\ queue[b] \in Seq(Events) /\ Len(queue[b]) <= QueueCap
             /\ Append(queue[b], e) \in Seq(Events) /\ Len(Append(queue[b], e)) <= QueueCap
  <2>1. queue[b] \in Seq(Events) /\ Len(queue[b]) < QueueCap /\ QueueCap \in Nat
    BY BoardAssumption DEF QueueOK, Broadcast
  <2>2. Append(queue[b], e) \in Seq(Events) /\ Len(Append(queue[b], e)) = Len(queue[b]) + 1
        /\ Len(queue[b]) \in Nat
    BY <2>1, Appended
  <2> QED BY <2>1, <2>2
<1> QED BY <1>1 DEF QueueOK, Broadcast

LEMMA AnswerOK ==
  ASSUME StateOK, NEW to, NEW a \in {"start_ack", "start_err"}, Answer(to, a)
  PROVE  reply' \in [Browsers -> {"none", "start_ack", "start_err"}]
BY DEF StateOK, Answer

LEMMA TakesOK ==
  ASSUME CmdsOK, NEW k, Takes(k)
  PROVE  CmdsOK' /\ Head(cmds).from \in Askers
<1>1. Tail(cmds) \in Seq(Commands) /\ Head(cmds) \in Commands
      /\ Len(Tail(cmds)) = Len(cmds) - 1 /\ Len(cmds) \in Nat
  BY Popped DEF CmdsOK, Takes
<1>2. Len(Tail(cmds)) <= CmdCap
  BY <1>1, BoardAssumption DEF CmdsOK
<1> QED BY <1>1, <1>2 DEF CmdsOK, Takes, Commands

LEMMA SendsOK ==
  ASSUME NetOK, NEW b \in Browsers, NEW ms \in Seq(Messages), Sends(b, ms)
  PROVE  NetOK' /\ net' = [net EXCEPT ![b] = net[b] \o ms]
<1>1. net[b] \o ms \in Seq(Messages) /\ Len(net[b] \o ms) <= NetCap
  BY DEF NetOK, Sends
<1> QED BY <1>1 DEF NetOK, Sends

LEMMA ToActorOK ==
  ASSUME CmdsOK, NEW m \in Commands, ToActor(m)
  PROVE  CmdsOK'
<1>1. Append(cmds, m) \in Seq(Commands) /\ Len(Append(cmds, m)) = Len(cmds) + 1
      /\ Len(cmds) \in Nat
  BY Appended DEF CmdsOK
<1>2. Len(Append(cmds, m)) <= CmdCap
  BY <1>1, BoardAssumption DEF ToActor
<1> QED BY <1>1, <1>2 DEF CmdsOK, ToActor

LEMMA ShownOK ==
  ASSUME NEW p \in Panels, NEW e \in Messages
  PROVE  Shown(p, e) \in Panels
BY NamesFacts DEF Shown, Panels, Messages, Events, Answers, Idle

LEMMA ActorTyped == Typed /\ Actor => Typed'
<1> SUFFICES ASSUME Typed, Actor PROVE Typed'
  OBVIOUS
<1> USE DEF Typed
<1>1. ASSUME TakeStart PROVE Typed'
  BY <1>1, TakesOK, BroadcastOK, EventTypes, NamesFacts DEF TakeStart, NoneHas, StateOK, NetOK, pageVars
<1>2. ASSUME TakeEmptyStart PROVE Typed'
  BY <1>2, TakesOK, BroadcastOK, AnswerOK, EventTypes
     DEF TakeEmptyStart, NoneHas, StateOK, NetOK, pageVars, actorVars
<1>3. ASSUME TakeStop PROVE Typed'
  BY <1>3, TakesOK, BroadcastOK, EventTypes, NamesFacts
     DEF TakeStop, Ends, NoneHas, StateOK, QueueOK, NetOK, pageVars, Askers
<1>4. ASSUME TakeSkip PROVE Typed'
  BY <1>4, TakesOK DEF TakeSkip, history, StateOK, QueueOK, NetOK, pageVars, actorVars
<1>5. ASSUME NEW c \in Channels, Tune(c) PROVE Typed'
  BY <1>5, BroadcastOK, EventTypes, NamesFacts DEF Tune, StateOK, NetOK, CmdsOK, pageVars, Askers
<1>6. ASSUME HitEndsScan PROVE Typed'
  BY <1>6, BroadcastOK, EventTypes, NamesFacts
     DEF HitEndsScan, Ends, NoneHas, StateOK, NetOK, CmdsOK, pageVars, Askers
<1>7. ASSUME Post PROVE Typed'
  BY <1>7, AnswerOK DEF Post, StateOK, QueueOK, NetOK, CmdsOK, pageVars
<1> QED BY <1>1, <1>2, <1>3, <1>4, <1>5, <1>6, <1>7 DEF Actor

LEMMA BrowserTyped ==
  ASSUME Typed, NEW b \in Browsers, Browser(b)
  PROVE  Typed'
<1> USE DEF Typed
<1>1. ASSUME Join(b) PROVE Typed'
  BY <1>1 DEF Join, Pending, StateOK, QueueOK, NetOK, CmdsOK, actorVars, Links
<1>2. ASSUME CatchUp(b) PROVE Typed'
  <2>1. ASSUME NEW c \in Channels
        PROVE  /\ <<>> \in Seq(Messages)
               /\ <<Event("started", 0)>> \in Seq(Messages)
               /\ <<Event("started", 0), Event("tuned", c)>> \in Seq(Messages)
    BY EventTypes, NamesFacts
  <2>2. <<>> \in Seq(Messages) /\ <<Event("started", 0)>> \in Seq(Messages)
    BY EventTypes
  <2>3. NetOK'
    BY <1>2, <2>1, <2>2, SendsOK DEF CatchUp
  <2> QED BY <1>2, <2>3 DEF CatchUp, history, StateOK, QueueOK, CmdsOK, actorVars, Links
<1>3. ASSUME Forward(b) PROVE Typed'
  <2>1. queue[b] \in Seq(Events) /\ Len(queue[b]) <= QueueCap /\ QueueCap \in Nat
    BY BoardAssumption DEF QueueOK
  <2>2. /\ Tail(queue[b]) \in Seq(Events) /\ Head(queue[b]) \in Events
        /\ Len(Tail(queue[b])) = Len(queue[b]) - 1 /\ Len(queue[b]) \in Nat
    BY <1>3, <2>1, Popped DEF Forward
  <2>3. <<Head(queue[b])>> \in Seq(Messages)
    BY <2>2, EventTypes
  <2>4. NetOK'
    BY <1>3, <2>3, SendsOK DEF Forward
  <2>5. Len(Tail(queue[b])) <= QueueCap
    BY <2>1, <2>2
  <2>6. QueueOK'
    BY <1>3, <2>2, <2>5 DEF Forward, QueueOK
  <2> QED BY <1>3, <2>4, <2>6 DEF Forward, history, StateOK, CmdsOK, actorVars
<1>4. ASSUME Show(b) PROVE Typed'
  <2>1. net[b] \in Seq(Messages) /\ Len(net[b]) <= NetCap /\ NetCap \in Nat
    BY BoardAssumption DEF NetOK
  <2>2. /\ Tail(net[b]) \in Seq(Messages) /\ Head(net[b]) \in Messages
        /\ Len(Tail(net[b])) = Len(net[b]) - 1 /\ Len(net[b]) \in Nat
    BY <1>4, <2>1, Popped DEF Show
  <2>3. Len(Tail(net[b])) <= NetCap
    BY <2>1, <2>2
  <2>4. NetOK'
    BY <1>4, <2>2, <2>3 DEF Show, NetOK
  <2>5. panel[b] \in Panels
    BY DEF StateOK
  <2>6. Shown(panel[b], Head(net[b])) \in Panels
    BY <2>2, <2>5, ShownOK
  <2> QED BY <1>4, <2>4, <2>6 DEF Show, history, StateOK, QueueOK, CmdsOK, actorVars
<1>5. ASSUME Answered(b) PROVE Typed'
  <2>1. <<Event(reply[b], 0)>> \in Seq(Messages)
    BY <1>5, EventTypes DEF Answered, StateOK
  <2>2. NetOK'
    BY <1>5, <2>1, SendsOK DEF Answered
  <2> QED BY <1>5, <2>2 DEF Answered, history, StateOK, QueueOK, CmdsOK, actorVars, Links
<1>6. ASSUME ClickStart(b) PROVE Typed'
  <2>1. CmdsOK'
    BY <1>6, ToActorOK DEF ClickStart, Commands, Askers
  <2> QED BY <1>6, <2>1 DEF ClickStart, history, StateOK, QueueOK, NetOK, actorVars, Links
<1>7. ASSUME ClickStopOrSkip(b) PROVE Typed'
  <2>1. CmdsOK'
    BY <1>7, ToActorOK DEF ClickStopOrSkip, Commands, Askers
  <2> QED BY <1>7, <2>1 DEF ClickStopOrSkip, history, StateOK, QueueOK, NetOK, actorVars, pageVars
<1>8. ASSUME Leave(b) PROVE Typed'
  <2>1. <<>> \in Seq(Events) /\ <<>> \in Seq(Messages) /\ Len(<<>>) = 0
    OBVIOUS
  <2>2. QueueOK' /\ NetOK'
    BY <1>8, <2>1, BoardAssumption DEF Leave, QueueOK, NetOK
  <2>3. CmdsOK'
    <3>1. \A i \in 1..Len(cmds) :
             (IF cmds[i].from = b THEN [cmds[i] EXCEPT !.from = "nobody"] ELSE cmds[i]) \in Commands
      <4>1. \A i \in 1..Len(cmds) : cmds[i] \in Commands
        BY DEF CmdsOK
      <4>2. \A c \in Commands : [c EXCEPT !.from = "nobody"] \in Commands
        BY DEF Commands, Askers
      <4> QED BY <4>1, <4>2
    <3>2. DOMAIN cmds = 1..Len(cmds) /\ Len(cmds) \in Nat
      BY DEF CmdsOK
    <3>3. cmds' \in Seq(Commands) /\ Len(cmds') = Len(cmds)
      BY <1>8, <3>1, <3>2 DEF Leave
    <3> QED BY <3>3 DEF CmdsOK
  <2>4. Idle \in Panels
    BY NamesFacts DEF Idle, Panels
  <2> QED BY <1>8, <2>2, <2>3, <2>4 DEF Leave, StateOK, Askers, Links
<1> QED BY <1>1, <1>2, <1>3, <1>4, <1>5, <1>6, <1>7, <1>8 DEF Browser

LEMMA InitTyped == Init => Typed
<1>1. Idle \in Panels
  BY NamesFacts DEF Idle, Panels
<1>2. /\ <<>> \in Seq(Events) /\ <<>> \in Seq(Messages) /\ <<>> \in Seq(Commands)
      /\ Len(<<>>) = 0
  OBVIOUS
<1>3. \E c \in Names : {} \subseteq {c}
  BY NamesFacts
<1>4. 0 <= QueueCap /\ 0 <= NetCap /\ 0 <= CmdCap
  BY BoardAssumption
<1> SUFFICES ASSUME Init PROVE Typed
  OBVIOUS
<1>5. QueueOK /\ NetOK /\ CmdsOK
  BY <1>2, <1>4 DEF Init, QueueOK, NetOK, CmdsOK
<1>6. missed \in [Browsers -> {"none", "button", "channel"}]
  BY DEF Init, NoneHas
<1>7. StateOK
  BY <1>1, <1>3, <1>6, NamesFacts DEF Init, StateOK, Links
<1> QED BY <1>5, <1>7 DEF Typed

LEMMA TypedStep == Typed /\ [Next]_vars => Typed'
<1>1. ASSUME Typed, UNCHANGED vars PROVE Typed'
  BY <1>1 DEF Typed, QueueOK, NetOK, CmdsOK, StateOK, vars, history, actorVars, pageVars
<1> QED BY <1>1, ActorTyped, BrowserTyped DEF Next

(* What the scanner tells browsers, and what they make of it, stays        *)
(* well-typed and within its bounds (scan.rs actor, main.rs handle_scan).  *)
THEOREM BoardTypeCorrect == Spec => []TypeOK
<1> QED BY InitTyped, TypedStep, TypedIsTypeOK, PTL DEF Spec

-----------------------------------------------------------------------------
(* The snapshot is right when nobody has to bring it up to date; a browser *)
(* that has not got its snapshot shows nothing.                            *)

Posted == /\ posting = "no" => snapshot = IF running THEN {tuned} ELSE {}
          /\ posting # "no" /\ running /\ tuned # 0 => snapshot # {}

(* Who subscribed too late for an event has nothing queued as long as it   *)
(* has not got its snapshot.                                               *)
LateFor(b) == link[b] = "joining" /\ missed[b] # "none"
                => posting # "no" /\ queue[b] = <<>>

Late == \A b \in Browsers : LateFor(b)

FreshFor(b) == /\ link[b] \in {"off", "joining"} => net[b] = <<>> /\ panel[b] = Idle
               /\ link[b] = "off" => queue[b] = <<>>

Fresh == \A b \in Browsers : FreshFor(b)

LEMMA PostedStep == Typed /\ Posted /\ [Next]_vars => Posted'
<1> SUFFICES ASSUME Typed, Posted, [Next]_vars PROVE Posted'
  OBVIOUS
<1>0. \A a \in Askers : a # "no"
  BY BoardAssumption DEF Askers
<1>1. ASSUME TakeStart PROVE Posted'
  BY <1>0, <1>1, TakesOK DEF TakeStart, Typed, Posted
<1>2. ASSUME NEW c \in Channels, Tune(c) PROVE Posted'
  <2>1. posting' # "no" /\ posting = "no" /\ running /\ snapshot' = snapshot
    BY <1>2 DEF Tune
  <2>2. snapshot' # {}
    BY <2>1 DEF Posted
  <2> QED BY <2>1, <2>2 DEF Posted
<1>5. ASSUME TakeEmptyStart \/ TakeSkip \/ (TakeStop /\ ~running) PROVE Posted'
  BY <1>5 DEF TakeEmptyStart, TakeSkip, TakeStop, actorVars, Posted
<1>6. ASSUME Ends PROVE Posted'
  BY <1>6 DEF Ends, Posted
<1>7. ASSUME Post PROVE Posted'
  BY <1>7 DEF Post, Posted
<1>8. ASSUME Actor, ~TakeStart PROVE Posted'
  BY <1>2, <1>5, <1>6, <1>7, <1>8 DEF Actor, TakeStop, HitEndsScan
<1>3. ASSUME NEW b \in Browsers, Browser(b) PROVE Posted'
  <2>1. /\ UNCHANGED <<running, tuned, snapshot>>
        /\ posting' = posting \/ (posting = b /\ posting' = "nobody")
    <3>1. CASE Leave(b)
      BY <3>1 DEF Leave
    <3>2. CASE UNCHANGED actorVars
      BY <3>2 DEF actorVars
    <3> QED
      BY <1>3, <3>1, <3>2
         DEF Browser, Join, CatchUp, Forward, Show, Answered, ClickStart, ClickStopOrSkip
  <2>2. b # "no"
    BY <1>0 DEF Askers
  <2> QED BY <2>1, <2>2 DEF Posted
<1>4. ASSUME UNCHANGED vars PROVE Posted'
  BY <1>4 DEF vars, actorVars, Posted
<1> QED BY <1>1, <1>3, <1>4, <1>8 DEF Next

LEMMA FreshStep == Typed /\ Fresh /\ [Next]_vars => Fresh'
<1> SUFFICES ASSUME Typed, Fresh, [Next]_vars, NEW b \in Browsers PROVE FreshFor(b)'
  BY DEF Fresh
<1> USE DEF FreshFor
<1>0. FreshFor(b)
  BY DEF Fresh
<1>1. ASSUME UNCHANGED pageVars, link[b] # "off" \/ queue'[b] = queue[b] PROVE FreshFor(b)'
  BY <1>0, <1>1 DEF pageVars
<1>2. ASSUME NEW e \in Events, Broadcast(e) PROVE link[b] # "off" \/ queue'[b] = queue[b]
  BY <1>2, BroadcastOK DEF Typed
<1>3. ASSUME Actor PROVE FreshFor(b)'
  BY <1>1, <1>2, <1>3, EventTypes, NamesFacts
     DEF Actor, TakeStart, TakeEmptyStart, TakeStop, TakeSkip, Tune, HitEndsScan, Ends, Post
<1>4. ASSUME NEW c \in Browsers, Browser(c), b # c PROVE FreshFor(b)'
  BY <1>0, <1>4 DEF Typed, StateOK, QueueOK, NetOK, Browser, Join, CatchUp, Sends, Forward, Show,
                    Answered, ClickStart, ClickStopOrSkip, Leave, pageVars
<1>5. ASSUME Browser(b) PROVE FreshFor(b)'
  BY <1>0, <1>5 DEF Typed, StateOK, QueueOK, NetOK, Browser, Join, CatchUp, Sends, Forward, Show,
                    Answered, ClickStart, ClickStopOrSkip, Leave, pageVars
<1>6. ASSUME UNCHANGED vars PROVE FreshFor(b)'
  BY <1>0, <1>6 DEF vars, pageVars
<1> QED BY <1>3, <1>4, <1>5, <1>6 DEF Next

LEMMA LateStep == Typed /\ Fresh /\ Late /\ [Next]_vars => Late'
<1> SUFFICES ASSUME Typed, Fresh, Late, [Next]_vars, NEW b \in Browsers PROVE LateFor(b)'
  BY DEF Late
<1> USE DEF LateFor
<1>0. LateFor(b) /\ FreshFor(b)
  BY DEF Late, Fresh
<1>t. /\ link \in [Browsers -> Links] /\ queue \in [Browsers -> Seq(Events)]
      /\ missed \in [Browsers -> {"none", "button", "channel"}]
  BY DEF Typed, StateOK, QueueOK
<1>1. ASSUME TakeStart \/ TakeEmptyStart \/ Ends PROVE LateFor(b)'
  <2>1. missed'[b] = "none"
    BY <1>1 DEF TakeStart, TakeEmptyStart, Ends, NoneHas
  <2> QED BY <2>1
<1>2. ASSUME TakeStop, ~Ends PROVE LateFor(b)'
  BY <1>0, <1>2 DEF TakeStop, pageVars
<1>3. ASSUME TakeSkip PROVE LateFor(b)'
  BY <1>0, <1>3 DEF TakeSkip, actorVars, pageVars, history
<1>4. ASSUME NEW c \in Channels, Tune(c) PROVE LateFor(b)'
  <2>1. /\ link' = link /\ posting = "no"
        /\ missed'[b] = IF missed[b] = "channel" THEN "none" ELSE missed[b]
    BY <1>4 DEF Tune, pageVars
  <2> QED BY <1>0, <2>1
<1>5. ASSUME Post PROVE LateFor(b)'
  <2>1. link' = link /\ missed'[b] = IF link[b] = "joining" THEN "none" ELSE missed[b]
    BY <1>5 DEF Post, pageVars
  <2> QED BY <2>1
<1>6. ASSUME Actor PROVE LateFor(b)'
  BY <1>1, <1>2, <1>3, <1>4, <1>5, <1>6 DEF Actor, HitEndsScan
<1>7. ASSUME NEW c \in Browsers, Browser(c) PROVE LateFor(b)'
  <2>1. ASSUME Join(c) PROVE LateFor(b)'
    <3>1. /\ posting' = posting /\ queue' = queue
          /\ b # c => link'[b] = link[b] /\ missed'[b] = missed[b]
          /\ link[c] = "off"
          /\ b = c => missed'[b] = Pending
      BY <1>t, <2>1 DEF Join, actorVars
    <3>2. b = c => queue[b] = <<>>
      BY <1>0, <3>1 DEF FreshFor
    <3>3. posting = "no" => Pending = "none"
      BY DEF Pending
    <3> QED BY <1>0, <3>1, <3>2, <3>3
  <2>2. ASSUME Leave(c) PROVE LateFor(b)'
    <3>1. /\ posting # "no" => posting' # "no"
          /\ b # c => link'[b] = link[b] /\ missed'[b] = missed[b] /\ queue'[b] = queue[b]
          /\ b = c => link'[b] = "off"
      BY <1>t, <2>2 DEF Leave
    <3> QED BY <1>0, <3>1
  <2>3. ASSUME Forward(c) PROVE LateFor(b)'
    <3>1. /\ link' = link /\ posting' = posting /\ missed' = missed /\ link[c] = "open"
          /\ b # c => queue'[b] = queue[b]
      BY <1>t, <2>3 DEF Forward, actorVars, history
    <3> QED BY <1>0, <3>1
  <2>4. ASSUME CatchUp(c) \/ Show(c) \/ Answered(c) \/ ClickStart(c) \/ ClickStopOrSkip(c)
        PROVE  LateFor(b)'
    <3>1. /\ posting' = posting /\ missed' = missed /\ queue' = queue
          /\ link'[b] = "joining" => link[b] = "joining"
      BY <1>t, <2>4 DEF CatchUp, Show, Answered, ClickStart, ClickStopOrSkip, actorVars, pageVars,
                        history
    <3> QED BY <1>0, <3>1
  <2> QED BY <1>7, <2>1, <2>2, <2>3, <2>4 DEF Browser
<1>8. ASSUME UNCHANGED vars PROVE LateFor(b)'
  BY <1>0, <1>8 DEF vars, actorVars, pageVars, history
<1> QED BY <1>6, <1>7, <1>8 DEF Next

-----------------------------------------------------------------------------
(* A browser has at most one Start out, and awaits its answer; from the    *)
(* moment the actor has taken it, its backlog holds what came of it.       *)

Tells(b, k) == \E i \in DOMAIN queue[b] : queue[b][i].kind = k

WaitsFor(b) ==
  /\ \A i, j \in DOMAIN cmds : cmds[i].from = b /\ cmds[j].from = b => i = j
  /\ \A i \in DOMAIN cmds : cmds[i].from = b
        => link[b] = "starting" /\ posting # b /\ reply[b] = "none"
  /\ posting = b => link[b] = "starting" /\ reply[b] = "none" /\ Tells(b, "started")
  /\ reply[b] # "none" => link[b] = "starting"
  /\ reply[b] = "start_ack" => Tells(b, "started")
  /\ reply[b] = "start_err" => Tells(b, "stopped")

Waits == \A b \in Browsers : WaitsFor(b)

LEMMA TellsMore ==
  ASSUME QueueOK, NEW e \in Events, Broadcast(e), NEW b \in Browsers, link[b] # "off"
  PROVE  /\ \A k : Tells(b, k) => Tells(b, k)'
         /\ Tells(b, e.kind)'
<1>1. queue'[b] = Append(queue[b], e) /\ queue[b] \in Seq(Events)
  BY BroadcastOK DEF QueueOK
<1>2. /\ Len(queue[b]) \in Nat
      /\ \A i \in 1..Len(queue[b]) : queue'[b][i] = queue[b][i]
      /\ queue'[b][Len(queue[b]) + 1] = e
      /\ DOMAIN queue'[b] = 1..(Len(queue[b]) + 1) /\ DOMAIN queue[b] = 1..Len(queue[b])
  BY <1>1, Appended
<1> QED BY <1>2 DEF Tells

LEMMA TakesShift ==
  ASSUME CmdsOK, NEW k, Takes(k)
  PROVE  /\ 1 \in DOMAIN cmds /\ Head(cmds) = cmds[1]
         /\ \A i \in DOMAIN cmds' : i \in Nat \ {0} /\ i + 1 \in DOMAIN cmds /\ cmds'[i] = cmds[i + 1]
<1>1. /\ Len(cmds) \in Nat \ {0}
      /\ Len(cmds') = Len(cmds) - 1
      /\ \A i \in 1..Len(cmds') : cmds'[i] = cmds[i + 1]
      /\ Head(cmds) = cmds[1]
      /\ DOMAIN cmds' = 1..(Len(cmds) - 1) /\ DOMAIN cmds = 1..Len(cmds)
  BY Popped DEF CmdsOK, Takes
<1> QED BY <1>1

(* A command is taken: no second Start of its sender is left, and its      *)
(* sender awaits the answer.                                               *)
LEMMA WaitsTaken ==
  ASSUME Typed, NEW b \in Browsers, WaitsFor(b), NEW k, Takes(k)
  PROVE  /\ \A i, j \in DOMAIN cmds' : cmds'[i].from = b /\ cmds'[j].from = b => i = j
         /\ \A i \in DOMAIN cmds' : cmds'[i].from = b
               => Head(cmds).from # b /\ link[b] = "starting" /\ reply[b] = "none"
         /\ Head(cmds).from = b => link[b] = "starting" /\ posting # b /\ reply[b] = "none"
<1>1. /\ 1 \in DOMAIN cmds /\ Head(cmds) = cmds[1]
      /\ \A i \in DOMAIN cmds' : i \in Nat \ {0} /\ i + 1 \in DOMAIN cmds /\ cmds'[i] = cmds[i + 1]
  BY TakesShift DEF Typed
<1>2. ASSUME NEW i \in DOMAIN cmds', NEW j \in DOMAIN cmds', cmds'[i].from = b, cmds'[j].from = b
      PROVE  i = j
  <2>1. i + 1 = j + 1 /\ i \in Nat /\ j \in Nat
    BY <1>1, <1>2 DEF WaitsFor
  <2> QED BY <2>1
<1>3. ASSUME NEW i \in DOMAIN cmds', cmds'[i].from = b
      PROVE  Head(cmds).from # b /\ link[b] = "starting" /\ reply[b] = "none"
  <2>1. i + 1 \in DOMAIN cmds /\ cmds[i + 1].from = b /\ i + 1 # 1
    BY <1>1, <1>3
  <2> QED BY <1>1, <2>1 DEF WaitsFor
<1> QED BY <1>1, <1>2, <1>3 DEF WaitsFor

LEMMA WaitsActor ==
  ASSUME Typed, NEW b \in Browsers, WaitsFor(b), Actor
  PROVE  WaitsFor(b)'
<1> USE DEF WaitsFor
<1>0. b # "no" /\ b # "nobody"
  BY BoardAssumption
<1>1. ASSUME TakeStart PROVE WaitsFor(b)'
  <2> DEFINE e == Event("started", 0)
  <2>1. e \in Events /\ e.kind = "started"
    BY EventTypes DEF Event
  <2>2. link[b] # "off" => (\A k : Tells(b, k) => Tells(b, k)') /\ Tells(b, "started")'
    BY <1>1, <2>1, TellsMore DEF TakeStart, Typed
  <2>3. /\ link' = link /\ reply' = reply /\ posting = "no" /\ posting' = Head(cmds).from
        /\ Takes("start")
    BY <1>1 DEF TakeStart, Takes, pageVars
  <2> HIDE DEF e
  <2> QED BY <1>0, <2>2, <2>3, WaitsTaken
<1>2. ASSUME TakeEmptyStart PROVE WaitsFor(b)'
  <2> DEFINE e == Event("stopped", 0)
  <2>1. e \in Events /\ e.kind = "stopped"
    BY EventTypes DEF Event
  <2>2. link[b] # "off" => (\A k : Tells(b, k) => Tells(b, k)') /\ Tells(b, "stopped")'
    BY <1>2, <2>1, TellsMore DEF TakeEmptyStart, Typed
  <2>3. /\ link' = link /\ posting = "no" /\ posting' = posting /\ Takes("empty")
        /\ reply'[b] = IF b = Head(cmds).from THEN "start_err" ELSE reply[b]
    BY <1>2 DEF TakeEmptyStart, Takes, pageVars, actorVars, Answer
  <2> HIDE DEF e
  <2> QED BY <1>0, <2>2, <2>3, WaitsTaken
<1>3. ASSUME TakeStop PROVE WaitsFor(b)'
  <2>1. link[b] # "off" => \A k : Tells(b, k) => Tells(b, k)'
    <3>1. CASE running
      BY <1>3, <3>1, TellsMore, EventTypes DEF TakeStop, Ends, Typed
    <3>2. CASE ~running
      BY <1>3, <3>2 DEF TakeStop, Tells
    <3> QED BY <3>1, <3>2
  <2>2. /\ link' = link /\ posting = "no" /\ posting' # b /\ Takes("stop") /\ reply' = reply
    BY <1>0, <1>3 DEF TakeStop, Ends, Takes, pageVars
  <2> QED BY <1>0, <2>1, <2>2, WaitsTaken
<1>4. ASSUME TakeSkip PROVE WaitsFor(b)'
  <2>1. \A k : Tells(b, k)' = Tells(b, k)
    BY <1>4 DEF TakeSkip, Tells
  <2>2. /\ link' = link /\ posting = "no" /\ posting' = posting /\ Takes("skip") /\ reply' = reply
    BY <1>4 DEF TakeSkip, Takes, pageVars, actorVars
  <2> QED BY <1>0, <2>1, <2>2, WaitsTaken
<1>5. ASSUME \/ \E c \in Channels : Tune(c)
             \/ HitEndsScan
      PROVE  WaitsFor(b)'
  <2>1. link[b] # "off" => \A k : Tells(b, k) => Tells(b, k)'
    BY <1>5, TellsMore, EventTypes, NamesFacts DEF Tune, HitEndsScan, Ends, Typed
  <2>2. link' = link /\ posting' # b /\ cmds' = cmds /\ reply' = reply /\ posting = "no"
    BY <1>0, <1>5 DEF Tune, HitEndsScan, Ends, pageVars
  <2> QED BY <1>0, <2>1, <2>2
<1>6. ASSUME Post PROVE WaitsFor(b)'
  <2>1. /\ link' = link /\ posting' = "no" /\ cmds' = cmds
        /\ reply'[b] = IF b = posting THEN "start_ack" ELSE reply[b]
    BY <1>6 DEF Post, Answer, pageVars
  <2>2. \A k : Tells(b, k)' = Tells(b, k)
    BY <1>6 DEF Post, Tells
  <2> QED BY <1>0, <2>1, <2>2
<1> QED BY <1>1, <1>2, <1>3, <1>4, <1>5, <1>6 DEF Actor

LEMMA WaitsBrowser ==
  ASSUME Typed, NEW b \in Browsers, WaitsFor(b), NEW c \in Browsers, Browser(c)
  PROVE  WaitsFor(b)'
<1> USE DEF WaitsFor
<1>0. b # "no" /\ b # "nobody"
  BY BoardAssumption
<1>t. /\ link \in [Browsers -> Links] /\ queue \in [Browsers -> Seq(Events)]
      /\ reply \in [Browsers -> {"none", "start_ack", "start_err"}]
      /\ cmds \in Seq(Commands)
  BY DEF Typed, StateOK, QueueOK, CmdsOK
<1>k. ASSUME queue'[b] = queue[b] PROVE \A k : Tells(b, k)' = Tells(b, k)
  BY <1>k DEF Tells
<1>1. ASSUME Join(c) \/ CatchUp(c) \/ Show(c) PROVE WaitsFor(b)'
  <2>1. /\ cmds' = cmds /\ posting' = posting /\ queue' = queue /\ reply' = reply
        /\ link[b] = "starting" => link'[b] = "starting"
    BY <1>t, <1>1 DEF Join, CatchUp, Show, actorVars
  <2> QED BY <1>k, <2>1
<1>2. ASSUME Forward(c) PROVE WaitsFor(b)'
  <2>1. /\ cmds' = cmds /\ posting' = posting /\ reply' = reply /\ link' = link /\ link[c] = "open"
        /\ b # c => queue'[b] = queue[b]
    BY <1>t, <1>2 DEF Forward, actorVars
  <2> QED BY <1>k, <2>1
<1>3. ASSUME Answered(c) PROVE WaitsFor(b)'
  <2>1. /\ cmds' = cmds /\ posting' = posting /\ queue' = queue
        /\ b # c => reply'[b] = reply[b] /\ link'[b] = link[b]
        /\ b = c => reply[b] # "none" /\ reply'[b] = "none"
    BY <1>t, <1>3 DEF Answered, actorVars
  <2> QED BY <1>k, <2>1
<1>4. ASSUME ClickStart(c) PROVE WaitsFor(b)'
  <2>1. PICK k \in {"start", "empty"} : ToActor([kind |-> k, from |-> c])
    BY <1>4 DEF ClickStart
  <2>2. PICK m \in Commands : m.from = c /\ cmds' = Append(cmds, m)
    BY <2>1 DEF ToActor, Commands, Askers
  <2>3. /\ Len(cmds) \in Nat /\ DOMAIN cmds = 1..Len(cmds)
        /\ DOMAIN cmds' = 1..(Len(cmds) + 1)
        /\ \A i \in 1..Len(cmds) : cmds'[i] = cmds[i]
        /\ cmds'[Len(cmds) + 1] = m
    BY <1>t, <2>2, Appended
  <2>4. /\ posting' = posting /\ queue' = queue /\ reply' = reply
        /\ b # c => link'[b] = link[b]
        /\ link[c] = "open" /\ link'[c] = "starting"
    BY <1>t, <1>4 DEF ClickStart, Reads, actorVars
  <2>5. CASE b = c
    <3>1. \A i \in DOMAIN cmds : cmds[i].from # b
      BY <2>4, <2>5
    <3> QED BY <1>k, <2>2, <2>3, <2>4, <2>5, <3>1
  <2>6. CASE b # c
    <3>1. \A i \in DOMAIN cmds' : cmds'[i].from = b => i \in DOMAIN cmds /\ cmds[i].from = b
      BY <2>2, <2>3, <2>6
    <3> QED BY <1>k, <2>4, <2>6, <3>1
  <2> QED BY <2>5, <2>6
<1>5. ASSUME ClickStopOrSkip(c) PROVE WaitsFor(b)'
  <2>1. PICK k \in {"stop", "skip"} : ToActor([kind |-> k, from |-> "nobody"])
    BY <1>5 DEF ClickStopOrSkip
  <2>2. PICK m \in Commands : m.from = "nobody" /\ cmds' = Append(cmds, m)
    BY <2>1 DEF ToActor, Commands, Askers
  <2>3. /\ Len(cmds) \in Nat /\ DOMAIN cmds = 1..Len(cmds)
        /\ DOMAIN cmds' = 1..(Len(cmds) + 1)
        /\ \A i \in 1..Len(cmds) : cmds'[i] = cmds[i]
        /\ cmds'[Len(cmds) + 1] = m
    BY <1>t, <2>2, Appended
  <2>4. posting' = posting /\ queue' = queue /\ reply' = reply /\ link' = link
    BY <1>5 DEF ClickStopOrSkip, actorVars, pageVars
  <2>5. \A i \in DOMAIN cmds' : cmds'[i].from = b => i \in DOMAIN cmds /\ cmds[i].from = b
    BY <1>0, <2>2, <2>3
  <2> QED BY <1>k, <2>4, <2>5
<1>6. ASSUME Leave(c) PROVE WaitsFor(b)'
  <2>1. /\ DOMAIN cmds' = DOMAIN cmds
        /\ \A i \in DOMAIN cmds :
              cmds'[i] = IF cmds[i].from = c THEN [cmds[i] EXCEPT !.from = "nobody"] ELSE cmds[i]
        /\ posting' = IF posting = c THEN "nobody" ELSE posting
        /\ b = c => reply'[b] = "none"
        /\ b # c => reply'[b] = reply[b] /\ link'[b] = link[b] /\ queue'[b] = queue[b]
    BY <1>t, <1>6 DEF Leave
  <2>2. \A i \in DOMAIN cmds : cmds[i] \in Commands
    BY <1>t
  <2>3. \A i \in DOMAIN cmds' : cmds'[i].from = b => b # c /\ cmds[i].from = b
    BY <1>0, <2>1, <2>2 DEF Commands
  <2>4. CASE b = c
    BY <1>0, <2>1, <2>3, <2>4
  <2>5. CASE b # c
    BY <1>0, <1>k, <2>1, <2>3, <2>5
  <2> QED BY <2>4, <2>5
<1> QED BY <1>1, <1>2, <1>3, <1>4, <1>5, <1>6 DEF Browser

LEMMA WaitsStep == Typed /\ Waits /\ [Next]_vars => Waits'
<1>1. ASSUME Typed, Waits, UNCHANGED vars PROVE Waits'
  BY <1>1 DEF Waits, WaitsFor, Tells, vars, actorVars, pageVars
<1> QED BY <1>1, WaitsActor, WaitsBrowser DEF Next, Waits

-----------------------------------------------------------------------------
(* PanelIsRight. What a browser knows now is what its panel will show when *)
(* it has shown what its handler has sent; a newcomer knows the snapshot   *)
(* it will read. The events still queued for it correct that.              *)

ActiveNow(b) ==
  \/ link[b] = "joining" /\ snapshot # {}
  \/ link[b] # "joining" /\ Becomes(net[b], Switching, SwitchingOn, panel[b].active)

NamedNow(b, c) ==
  \/ link[b] = "joining" /\ snapshot = {c}
  \/ link[b] # "joining" /\ Becomes(net[b], Naming, NamingIt(c), panel[b].name = c)

ActiveSoon(b)   == Becomes(queue[b], Switching, SwitchingOn, ActiveNow(b))
NamedSoon(b, c) == Becomes(queue[b], Naming, NamingIt(c), NamedNow(b, c))

TruthFor(b) ==
  link[b] # "off" =>
    /\ missed[b] # "button" => /\ ActiveSoon(b) => running
                               /\ running => ActiveSoon(b) \/ hushed
    /\ missed[b] # "channel" /\ running /\ tuned # 0 => NamedSoon(b, tuned) \/ hushed

Truth == \A b \in Browsers : TruthFor(b)

LEMMA EventKinds ==
  /\ SwitchingOn \subseteq Switching
  /\ \A c : NamingIt(c) \subseteq Naming
  /\ Event("started", 0) \in SwitchingOn /\ Event("started", 0) \notin Naming
  /\ Event("stopped", 0) \in Switching \ SwitchingOn
  /\ Event("stopped", 0) \in Naming /\ \A c : Event("stopped", 0) \notin NamingIt(c)
  /\ \A c \in Channels : /\ Event("tuned", c) \notin Switching
                         /\ Event("tuned", c) \in Naming
                         /\ \A d : Event("tuned", c) \in NamingIt(d) <=> c = d
  /\ Event("start_ack", 0) \notin Naming
<1>1. \A K : \A e \in Messages : e \in OfKind(K) <=> e.kind \in K
  BY DEF OfKind
<1>2. /\ Event("started", 0) \in Messages /\ Event("stopped", 0) \in Messages
      /\ \A c \in Channels : Event("tuned", c) \in Messages
  BY EventTypes, NamesFacts
<1>3. \A k, c : Event(k, c).kind = k /\ Event(k, c).ch = c
  BY DEF Event
<1>4. SwitchingOn \subseteq Switching /\ \A c : NamingIt(c) \subseteq Naming
  BY DEF SwitchingOn, Switching, NamingIt, Naming, OfKind
<1> QED
  BY <1>1, <1>2, <1>3, <1>4 DEF SwitchingOn, Switching, NamingIt, Naming, OfKind

LEMMA NowBoolean ==
  ASSUME NEW b \in Browsers, NEW c
  PROVE  ActiveNow(b) \in BOOLEAN /\ NamedNow(b, c) \in BOOLEAN
BY DEF ActiveNow, NamedNow

(* An event reaches everybody's backlog.                                   *)
LEMMA SoonMore ==
  ASSUME Typed, NEW b \in Browsers, link[b] # "off", NEW e \in Events, Broadcast(e),
         UNCHANGED <<pageVars, snapshot>>
  PROVE  /\ e \in Switching => (ActiveSoon(b)' <=> e \in SwitchingOn)
         /\ e \notin Switching => (ActiveSoon(b)' <=> ActiveSoon(b))
         /\ \A c : e \in Naming => (NamedSoon(b, c)' <=> e \in NamingIt(c))
         /\ \A c : e \notin Naming => (NamedSoon(b, c)' <=> NamedSoon(b, c))
<1>1. queue'[b] = Append(queue[b], e) /\ queue[b] \in Seq(Events)
  BY BroadcastOK DEF Typed, QueueOK
<1>2. (ActiveNow(b)' <=> ActiveNow(b)) /\ \A c : NamedNow(b, c)' <=> NamedNow(b, c)
  BY DEF ActiveNow, NamedNow, pageVars
<1>3. ActiveSoon(b)' <=> Becomes(Append(queue[b], e), Switching, SwitchingOn, ActiveNow(b))
  BY <1>1, <1>2 DEF ActiveSoon, Becomes
<1>4. \A c : NamedSoon(b, c)' <=> Becomes(Append(queue[b], e), Naming, NamingIt(c), NamedNow(b, c))
  BY <1>1, <1>2 DEF NamedSoon, Becomes
<1>5. SwitchingOn \subseteq Switching /\ \A c : NamingIt(c) \subseteq Naming
  BY EventKinds
<1>6. /\ e \in Switching => (ActiveSoon(b)' <=> e \in SwitchingOn)
      /\ e \notin Switching => (ActiveSoon(b)' <=> ActiveSoon(b))
  BY <1>1, <1>3, <1>5, NowBoolean, BecomesMore DEF ActiveSoon
<1>7. ASSUME NEW c
      PROVE  /\ e \in Naming => (NamedSoon(b, c)' <=> e \in NamingIt(c))
             /\ e \notin Naming => (NamedSoon(b, c)' <=> NamedSoon(b, c))
  BY <1>1, <1>4, <1>5, NowBoolean, BecomesMore DEF NamedSoon
<1> QED BY <1>6, <1>7

LEMMA TruthSame ==
  ASSUME NEW b \in Browsers, TruthFor(b), link[b] # "off",
         queue'[b] = queue[b], UNCHANGED <<running, tuned, hushed>>, missed'[b] = missed[b],
         ActiveNow(b)' <=> ActiveNow(b),
         tuned # 0 => (NamedNow(b, tuned)' <=> NamedNow(b, tuned))
  PROVE  TruthFor(b)'
<1>1. ActiveSoon(b)' <=> ActiveSoon(b)
  BY DEF ActiveSoon, Becomes
<1>2. tuned # 0 => (NamedSoon(b, tuned)' <=> NamedSoon(b, tuned))
  BY DEF NamedSoon, Becomes
<1> QED BY <1>1, <1>2 DEF TruthFor

LEMMA TruthActor ==
  ASSUME Typed, Posted, NEW b \in Browsers, LateFor(b), TruthFor(b), Actor
  PROVE  TruthFor(b)'
<1> SUFFICES ASSUME link'[b] # "off" PROVE TruthFor(b)'
  BY DEF TruthFor
<1>0. link' = link /\ link[b] # "off"
  BY DEF Actor, TakeStart, TakeEmptyStart, TakeStop, TakeSkip, Tune, HitEndsScan, Post, pageVars
<1>1. ASSUME TakeStart PROVE TruthFor(b)'
  <2>1. ActiveSoon(b)'
    BY <1>0, <1>1, SoonMore, EventTypes, EventKinds DEF TakeStart
  <2>2. running' /\ tuned' = 0
    BY <1>1 DEF TakeStart
  <2> QED BY <2>1, <2>2 DEF TruthFor
<1>2. ASSUME TakeEmptyStart PROVE TruthFor(b)'
  <2>1. ~ActiveSoon(b)'
    BY <1>0, <1>2, SoonMore, EventTypes, EventKinds DEF TakeEmptyStart, actorVars
  <2>2. running' => hushed'
    BY <1>2 DEF TakeEmptyStart, actorVars
  <2> QED BY <2>1, <2>2 DEF TruthFor
<1>3. ASSUME Ends, UNCHANGED <<pageVars, snapshot>> PROVE TruthFor(b)'
  <2>1. ~ActiveSoon(b)'
    BY <1>0, <1>3, SoonMore, EventTypes, EventKinds DEF Ends
  <2>2. ~running'
    BY <1>3 DEF Ends
  <2> QED BY <2>1, <2>2 DEF TruthFor
<1>4. ASSUME UNCHANGED <<pageVars, snapshot, queue, running, tuned, hushed, missed>>
      PROVE  TruthFor(b)'
  BY <1>4 DEF TruthFor, ActiveSoon, NamedSoon, ActiveNow, NamedNow, Becomes, pageVars
<1>5. ASSUME NEW c \in Channels, Tune(c) PROVE TruthFor(b)'
  <2>1. /\ ActiveSoon(b)' <=> ActiveSoon(b)
        /\ NamedSoon(b, c)'
    BY <1>0, <1>5, SoonMore, EventTypes, EventKinds, NamesFacts DEF Tune
  <2>2. /\ running' = running /\ running /\ tuned' = c /\ hushed' = hushed
        /\ missed'[b] = "button" <=> missed[b] = "button"
    BY <1>5 DEF Tune
  <2>3. NamedSoon(b, tuned)'
    BY <2>1, <2>2 DEF NamedSoon, Becomes, NamedNow
  <2> QED BY <1>0, <2>1, <2>2, <2>3 DEF TruthFor
<1>6. ASSUME Post PROVE TruthFor(b)'
  <2>1. /\ snapshot' = IF running THEN {tuned} ELSE {}
        /\ UNCHANGED <<running, tuned, queue, net, link, panel, hushed>>
    BY <1>6 DEF Post, pageVars
  <2>2. CASE link[b] = "joining"
    <3>1. /\ ActiveNow(b)' <=> running
          /\ running => NamedNow(b, tuned)'
      BY <2>1, <2>2 DEF ActiveNow, NamedNow
    <3>2. CASE missed[b] # "none"
      <4>1. queue'[b] = <<>>
        BY <2>1, <2>2, <3>2 DEF LateFor
      <4>2. (ActiveSoon(b)' <=> running) /\ (running => NamedSoon(b, tuned)')
        BY <3>1, <4>1 DEF ActiveSoon, NamedSoon, Becomes
      <4> QED BY <2>1, <4>2 DEF TruthFor
    <3>3. CASE missed[b] = "none"
      <4>1. /\ ActiveSoon(b) => running
            /\ running => ActiveSoon(b) \/ hushed
            /\ running /\ tuned # 0 => NamedSoon(b, tuned) \/ hushed
        BY <1>0, <3>3 DEF TruthFor
      <4>2. ActiveSoon(b)' => running'
        <5>1. ActiveSoon(b)' => ActiveSoon(b) \/ ActiveNow(b)'
          BY <2>1 DEF ActiveSoon, Becomes
        <5> QED BY <2>1, <3>1, <4>1, <5>1
      <4>3. running' => ActiveSoon(b)' \/ hushed'
        <5>1. ActiveSoon(b) /\ ActiveNow(b)' => ActiveSoon(b)'
          BY <2>1 DEF ActiveSoon, Becomes
        <5> QED BY <2>1, <3>1, <4>1, <5>1
      <4>4. running' /\ tuned' # 0 => NamedSoon(b, tuned)' \/ hushed'
        <5>1. NamedSoon(b, tuned) /\ NamedNow(b, tuned)' => NamedSoon(b, tuned)'
          BY <2>1 DEF NamedSoon, Becomes
        <5> QED BY <2>1, <3>1, <4>1, <5>1
      <4> QED BY <4>2, <4>3, <4>4 DEF TruthFor
    <3> QED BY <3>2, <3>3
  <2>3. CASE link[b] # "joining"
    <3>1. ActiveNow(b)' <=> ActiveNow(b)
      BY <2>1, <2>3 DEF ActiveNow, Becomes
    <3>2. NamedNow(b, tuned)' <=> NamedNow(b, tuned)
      BY <2>1, <2>3 DEF NamedNow, Becomes
    <3>3. missed'[b] = missed[b]
      BY <1>6, <2>3 DEF Post, Typed, StateOK
    <3> QED BY <1>0, <2>1, <3>1, <3>2, <3>3, TruthSame
  <2> QED BY <2>2, <2>3
<1> QED
  BY <1>1, <1>2, <1>3, <1>4, <1>5, <1>6
     DEF Actor, TakeStop, TakeSkip, HitEndsScan, actorVars, history

(* What a message does to a panel, is what it makes of the two facts.      *)
LEMMA ShownSays ==
  ASSUME NEW p \in Panels, NEW e \in Messages, NEW c, c # 0
  PROVE  /\ e \in Switching => (Shown(p, e).active <=> e \in SwitchingOn)
         /\ e \notin Switching => (Shown(p, e).active <=> p.active)
         /\ e \in Naming => (Shown(p, e).name = c <=> e \in NamingIt(c))
         /\ e \notin Naming => (Shown(p, e).name = c <=> p.name = c)
<1>1. /\ e \in Switching <=> e.kind \in {"started", "start_ack", "stopped", "start_err"}
      /\ e \in SwitchingOn <=> e.kind \in {"started", "start_ack"}
      /\ e \in Naming <=> e.kind \in {"tuned", "stopped", "start_err"}
      /\ e \in NamingIt(c) <=> e.kind = "tuned" /\ e.ch = c
  BY DEF Switching, SwitchingOn, Naming, NamingIt, OfKind
<1>2. e.kind \in {"started", "stopped", "tuned", "start_ack", "start_err"}
  BY DEF Messages, Events, Answers
<1>3. CASE e.kind \in {"started", "start_ack"}
  BY <1>1, <1>3 DEF Shown, Panels
<1>4. CASE e.kind \in {"stopped", "start_err"}
  BY <1>1, <1>4 DEF Shown, Panels, Idle
<1>5. CASE e.kind = "tuned"
  BY <1>1, <1>5 DEF Shown, Panels
<1> QED BY <1>2, <1>3, <1>4, <1>5

(* The Started and Tuned a newcomer gets say what the snapshot says.       *)
LEMMA CatchUpSays ==
  ASSUME NEW b \in Browsers, Typed, Fresh, CatchUp(b)
  PROVE  /\ ActiveNow(b)' <=> ActiveNow(b)
         /\ tuned # 0 => (NamedNow(b, tuned)' <=> NamedNow(b, tuned))
<1>1. /\ link[b] = "joining" /\ link'[b] = "open" /\ panel' = panel /\ snapshot' = snapshot
      /\ tuned' = tuned /\ net[b] = <<>> /\ panel[b] = Idle
  BY DEF CatchUp, actorVars, Fresh, FreshFor, Typed, StateOK
<1>2. ASSUME NEW ms \in Seq(Messages), Sends(b, ms) PROVE net'[b] = ms
  <2>1. net' = [net EXCEPT ![b] = net[b] \o ms] /\ net \in [Browsers -> Seq(Messages)]
    BY <1>2, SendsOK DEF Typed, NetOK
  <2>2. <<>> \o ms = ms
    OBVIOUS
  <2> QED BY <1>1, <2>1, <2>2
<1>3. ~panel[b].active /\ (tuned # 0 => panel[b].name # tuned)
  BY <1>1 DEF Idle
<1>4. /\ ActiveNow(b)' <=> Becomes(net'[b], Switching, SwitchingOn, FALSE)
      /\ tuned # 0 => (NamedNow(b, tuned)' <=> Becomes(net'[b], Naming, NamingIt(tuned), FALSE))
  BY <1>1, <1>3 DEF ActiveNow, NamedNow, Becomes
<1>5. ActiveNow(b) <=> snapshot # {}
  BY <1>1 DEF ActiveNow
<1>6. NamedNow(b, tuned) <=> snapshot = {tuned}
  BY <1>1 DEF NamedNow
<1>7. CASE snapshot = {} /\ Sends(b, <<>>)
  <2>1. <<>> \in Seq(Messages)
    OBVIOUS
  <2>2. net'[b] = <<>>
    BY <1>2, <1>7, <2>1
  <2> QED BY <1>4, <1>5, <1>6, <1>7, <2>2 DEF Becomes
<1>8. ASSUME NEW s, s = Event("started", 0)
      PROVE  /\ s \in Messages /\ s \in SwitchingOn /\ s \notin Naming
             /\ <<s>> \in Seq(Messages)
  BY <1>8, EventTypes, EventKinds
<1>9. CASE snapshot = {0} /\ Sends(b, <<Event("started", 0)>>)
  <2>1. PICK s : s = Event("started", 0)
    OBVIOUS
  <2>2. net'[b] = <<s>> /\ s \in SwitchingOn /\ s \notin Naming
    <3>1. Sends(b, <<s>>) /\ <<s>> \in Seq(Messages) /\ s \in SwitchingOn /\ s \notin Naming
      BY <1>8, <1>9, <2>1
    <3> QED BY <1>2, <3>1
  <2>3. Becomes(net'[b], Switching, SwitchingOn, FALSE)
    BY <2>2 DEF Becomes
  <2>4. ~Becomes(net'[b], Naming, NamingIt(tuned), FALSE)
    BY <2>2, EventKinds DEF Becomes
  <2>5. snapshot # {} /\ (tuned # 0 => snapshot # {tuned})
    BY <1>9
  <2> QED BY <1>4, <1>5, <1>6, <2>3, <2>4, <2>5
<1>10. ASSUME NEW c \in Channels, snapshot = {c},
              Sends(b, <<Event("started", 0), Event("tuned", c)>>)
       PROVE  /\ ActiveNow(b)' <=> ActiveNow(b)
              /\ tuned # 0 => (NamedNow(b, tuned)' <=> NamedNow(b, tuned))
  <2>1. PICK s : s = Event("started", 0)
    OBVIOUS
  <2>2. PICK t : t = Event("tuned", c)
    OBVIOUS
  <2>3. /\ t \in Messages /\ t \notin Switching /\ t \in Naming
        /\ t \in NamingIt(tuned) <=> c = tuned
    BY <2>2, EventTypes, EventKinds, NamesFacts
  <2>4. s \in Messages /\ s \in SwitchingOn /\ s \notin Naming
    BY <1>8, <2>1
  <2>5. net'[b] = <<s, t>>
    <3>1. Sends(b, <<s, t>>) /\ <<s, t>> \in Seq(Messages)
      BY <1>10, <2>1, <2>2, <2>3, <2>4
    <3> QED BY <1>2, <3>1
  <2>6. Becomes(<<s, t>>, Switching, SwitchingOn, FALSE)
    BY <2>3, <2>4 DEF Becomes
  <2>7. Becomes(<<s, t>>, Naming, NamingIt(tuned), FALSE) <=> c = tuned
    BY <2>3, <2>4, EventKinds DEF Becomes
  <2>8. snapshot # {} /\ (snapshot = {tuned} <=> c = tuned)
    BY <1>10
  <2> QED BY <1>4, <1>5, <1>6, <2>5, <2>6, <2>7, <2>8
<1> QED BY <1>7, <1>9, <1>10 DEF CatchUp

(* Forwarding an event, or showing a message, changes nothing of what will *)
(* be shown.                                                               *)
LEMMA ForwardSays ==
  ASSUME NEW b \in Browsers, Typed, TruthFor(b), Forward(b)
  PROVE  TruthFor(b)'
<1>1. /\ link[b] = "open" /\ link'[b] = "open" /\ panel' = panel
      /\ UNCHANGED <<running, tuned, hushed, missed>>
      /\ queue[b] # <<>> /\ queue[b] \in Seq(Events) /\ net[b] \in Seq(Messages)
      /\ queue'[b] = Tail(queue[b])
  BY DEF Forward, actorVars, history, Typed, StateOK, QueueOK, NetOK
<1>2. PICK e \in Messages : e = Head(queue[b])
  BY <1>1, Popped, EventTypes
<1>3. net'[b] = Append(net[b], e)
  <2>1. <<e>> \in Seq(Messages) /\ Sends(b, <<e>>)
    BY <1>2 DEF Forward
  <2>2. net'[b] = net[b] \o <<e>>
    BY <2>1, SendsOK DEF Typed, NetOK
  <2> QED BY <1>1, <2>2
<1>4. SwitchingOn \subseteq Switching /\ NamingIt(tuned) \subseteq Naming
  BY EventKinds
<1>5. ActiveSoon(b)' <=> ActiveSoon(b)
  <2>1. /\ ActiveNow(b) <=> Becomes(net[b], Switching, SwitchingOn, panel[b].active)
        /\ ActiveNow(b)' <=> Becomes(Append(net[b], e), Switching, SwitchingOn, panel[b].active)
    BY <1>1, <1>3 DEF ActiveNow, Becomes
  <2>2. panel[b].active \in BOOLEAN
    BY DEF Typed, StateOK, Panels
  <2>3. /\ e \in Switching => (ActiveNow(b)' <=> e \in SwitchingOn)
        /\ e \notin Switching => (ActiveNow(b)' <=> ActiveNow(b))
    BY <1>1, <1>4, <2>1, <2>2, BecomesMore
  <2>4. PICK now \in BOOLEAN : now <=> ActiveNow(b)'
    OBVIOUS
  <2>5. PICK before \in BOOLEAN : before <=> ActiveNow(b)
    OBVIOUS
  <2>6. Becomes(queue[b], Switching, SwitchingOn, before)
          <=> Becomes(Tail(queue[b]), Switching, SwitchingOn, now)
    <3>1. /\ Head(queue[b]) \in Switching => (now <=> Head(queue[b]) \in SwitchingOn)
          /\ Head(queue[b]) \notin Switching => (now <=> before)
      BY <1>2, <2>3, <2>4, <2>5
    <3>2. queue[b] \in Seq(Events) /\ queue[b] # <<>> /\ SwitchingOn \subseteq Switching
      BY <1>1, <1>4
    <3>3. now \in BOOLEAN /\ before \in BOOLEAN
      BY <2>4, <2>5
    <3> PICK q \in Seq(Events) : q = queue[b]
      BY <3>2
    <3>4. Becomes(q, Switching, SwitchingOn, before) <=> Becomes(Tail(q), Switching, SwitchingOn, now)
      BY <3>1, <3>2, <3>3, BecomesFirst
    <3> QED BY <3>4
  <2> QED BY <1>1, <2>4, <2>5, <2>6 DEF ActiveSoon, Becomes
<1>6. NamedSoon(b, tuned)' <=> NamedSoon(b, tuned)
  <2>1. PICK shown \in BOOLEAN : shown <=> panel[b].name = tuned
    OBVIOUS
  <2>2. /\ NamedNow(b, tuned) <=> Becomes(net[b], Naming, NamingIt(tuned), shown)
        /\ NamedNow(b, tuned)' <=> Becomes(Append(net[b], e), Naming, NamingIt(tuned), shown)
    BY <1>1, <1>3, <2>1 DEF NamedNow, Becomes
  <2>3. /\ e \in Naming => (NamedNow(b, tuned)' <=> e \in NamingIt(tuned))
        /\ e \notin Naming => (NamedNow(b, tuned)' <=> NamedNow(b, tuned))
    BY <1>1, <1>4, <2>2, BecomesMore
  <2>4. PICK now \in BOOLEAN : now <=> NamedNow(b, tuned)'
    OBVIOUS
  <2>5. PICK before \in BOOLEAN : before <=> NamedNow(b, tuned)
    OBVIOUS
  <2>6. Becomes(queue[b], Naming, NamingIt(tuned), before)
          <=> Becomes(Tail(queue[b]), Naming, NamingIt(tuned), now)
    <3>1. /\ Head(queue[b]) \in Naming => (now <=> Head(queue[b]) \in NamingIt(tuned))
          /\ Head(queue[b]) \notin Naming => (now <=> before)
      BY <1>2, <2>3, <2>4, <2>5
    <3>2. queue[b] \in Seq(Events) /\ queue[b] # <<>> /\ NamingIt(tuned) \subseteq Naming
      BY <1>1, <1>4
    <3>3. now \in BOOLEAN /\ before \in BOOLEAN
      BY <2>4, <2>5
    <3> QED BY <3>1, <3>2, <3>3, BecomesFirst
  <2> QED BY <1>1, <2>4, <2>5, <2>6 DEF NamedSoon, Becomes
<1> QED BY <1>1, <1>5, <1>6 DEF TruthFor

LEMMA ShowSays ==
  ASSUME NEW b \in Browsers, Typed, Fresh, TruthFor(b), Show(b)
  PROVE  TruthFor(b)'
<1>1. /\ link' = link /\ UNCHANGED <<running, tuned, hushed, missed, queue>>
      /\ net[b] # <<>> /\ net[b] \in Seq(Messages)
      /\ net'[b] = Tail(net[b]) /\ panel'[b] = Shown(panel[b], Head(net[b]))
      /\ panel[b] \in Panels
  BY DEF Show, actorVars, history, Typed, StateOK, NetOK
<1>2. link[b] # "off" /\ link[b] # "joining"
  BY <1>1 DEF Fresh, FreshFor
<1>3. PICK e \in Messages : e = Head(net[b])
  BY <1>1, Popped
<1>4. SwitchingOn \subseteq Switching /\ NamingIt(tuned) \subseteq Naming
  BY EventKinds
<1>5. ActiveNow(b)' <=> ActiveNow(b)
  <2>1. panel[b].active \in BOOLEAN /\ panel'[b].active \in BOOLEAN
    BY <1>1, <1>3, ShownOK DEF Panels
  <2>2. /\ e \in Switching => (panel'[b].active <=> e \in SwitchingOn)
        /\ e \notin Switching => (panel'[b].active <=> panel[b].active)
    <3>1. /\ e \in Switching => (Shown(panel[b], e).active <=> e \in SwitchingOn)
          /\ e \notin Switching => (Shown(panel[b], e).active <=> panel[b].active)
      <4>1. 1 # 0 /\ panel[b] \in Panels
        BY <1>1
      <4> QED BY <1>3, <4>1, ShownSays
    <3>2. panel'[b] = Shown(panel[b], e)
      BY <1>1, <1>3
    <3> QED BY <3>1, <3>2
  <2>3. Becomes(net[b], Switching, SwitchingOn, panel[b].active)
          <=> Becomes(Tail(net[b]), Switching, SwitchingOn, panel'[b].active)
    BY <1>1, <1>3, <1>4, <2>1, <2>2, BecomesFirst
  <2> QED BY <1>1, <1>2, <2>3 DEF ActiveNow, Becomes
<1>6. ASSUME tuned # 0 PROVE NamedNow(b, tuned)' <=> NamedNow(b, tuned)
  <2>1. /\ e \in Naming => (panel'[b].name = tuned <=> e \in NamingIt(tuned))
        /\ e \notin Naming => (panel'[b].name = tuned <=> panel[b].name = tuned)
    BY <1>1, <1>3, <1>6, ShownSays
  <2>2. (panel[b].name = tuned) \in BOOLEAN /\ (panel'[b].name = tuned) \in BOOLEAN
    OBVIOUS
  <2>3. Becomes(net[b], Naming, NamingIt(tuned), panel[b].name = tuned)
          <=> Becomes(Tail(net[b]), Naming, NamingIt(tuned), panel'[b].name = tuned)
    BY <1>1, <1>3, <1>4, <2>1, <2>2, BecomesFirst
  <2> QED BY <1>1, <1>2, <2>3 DEF NamedNow, Becomes
<1> QED BY <1>1, <1>2, <1>5, <1>6, TruthSame

(* The answer to a Start overtakes the events queued meanwhile; they have  *)
(* the last word, as one of them is what it answers to.                    *)
LEMMA AnsweredSays ==
  ASSUME NEW b \in Browsers, Typed, WaitsFor(b), TruthFor(b), Answered(b)
  PROVE  TruthFor(b)'
<1>1. /\ link[b] = "starting" /\ link'[b] = "open" /\ panel' = panel /\ queue' = queue
      /\ UNCHANGED <<running, tuned, hushed, missed>>
      /\ reply[b] \in {"start_ack", "start_err"}
      /\ net[b] \in Seq(Messages) /\ queue[b] \in Seq(Events)
  BY DEF Answered, actorVars, history, Typed, StateOK, QueueOK, NetOK
<1>2. PICK e \in Messages : e = Event(reply[b], 0)
  BY <1>1, EventTypes
<1>3. net'[b] = Append(net[b], e)
  <2>1. <<e>> \in Seq(Messages) /\ Sends(b, <<e>>)
    BY <1>2 DEF Answered
  <2>2. net'[b] = net[b] \o <<e>>
    BY <2>1, SendsOK DEF Typed, NetOK
  <2> QED BY <1>1, <2>2
<1>4. \A i \in DOMAIN queue[b] : queue[b][i] \in Events
  BY <1>1
<1>5. \E i \in DOMAIN queue[b] : queue[b][i] \in Switching
  <2>1. PICK i \in DOMAIN queue[b] : queue[b][i].kind \in {"started", "stopped"}
    BY <1>1 DEF WaitsFor, Tells
  <2> QED BY <1>4, <2>1, EventTypes DEF Switching, OfKind
<1>6. ActiveSoon(b)' <=> ActiveSoon(b)
  BY <1>1, <1>5 DEF ActiveSoon, Becomes
<1>7. NamedSoon(b, tuned)' <=> NamedSoon(b, tuned)
  <2>1. CASE reply[b] = "start_ack"
    <3>1. e \notin Naming /\ NamingIt(tuned) \subseteq Naming
      BY <1>2, <2>1, EventKinds
    <3>2. PICK shown \in BOOLEAN : shown <=> panel[b].name = tuned
      OBVIOUS
    <3>3. Becomes(Append(net[b], e), Naming, NamingIt(tuned), shown)
            <=> Becomes(net[b], Naming, NamingIt(tuned), shown)
      BY <1>1, <3>1, BecomesMore
    <3>4. NamedNow(b, tuned)' <=> NamedNow(b, tuned)
      BY <1>1, <1>3, <3>2, <3>3 DEF NamedNow, Becomes
    <3> QED BY <1>1, <3>4 DEF NamedSoon, Becomes
  <2>2. CASE reply[b] = "start_err"
    <3>1. PICK i \in DOMAIN queue[b] : queue[b][i].kind = "stopped"
      BY <2>2 DEF WaitsFor, Tells
    <3>2. queue[b][i] \in Naming
      BY <1>4, <3>1, EventTypes DEF Naming, OfKind
    <3> QED BY <1>1, <3>2 DEF NamedSoon, Becomes
  <2> QED BY <1>1, <2>1, <2>2
<1> QED BY <1>1, <1>6, <1>7 DEF TruthFor

LEMMA TruthBrowser ==
  ASSUME Typed, Posted, Fresh, NEW b \in Browsers, WaitsFor(b), TruthFor(b),
         NEW c \in Browsers, Browser(c)
  PROVE  TruthFor(b)'
<1>1. /\ link \in [Browsers -> Links] /\ queue \in [Browsers -> Seq(Events)]
      /\ net \in [Browsers -> Seq(Messages)] /\ panel \in [Browsers -> Panels]
      /\ missed \in [Browsers -> {"none", "button", "channel"}]
  BY DEF Typed, StateOK, QueueOK, NetOK
<1>2. UNCHANGED <<running, tuned, hushed, snapshot>>
  BY DEF Browser, Join, CatchUp, Forward, Show, Answered, ClickStart, ClickStopOrSkip, Leave,
         actorVars, history
<1>3. ASSUME link'[b] = link[b] \/ {link[b], link'[b]} = {"open", "starting"},
             net'[b] = net[b], queue'[b] = queue[b], panel'[b] = panel[b],
             missed'[b] = missed[b]
      PROVE  TruthFor(b)'
  <2>1. link'[b] # "off" => link[b] # "off" /\ (link'[b] = "joining" <=> link[b] = "joining")
    BY <1>3
  <2>2. CASE link'[b] = "off"
    BY <2>2 DEF TruthFor
  <2>3. CASE link'[b] # "off"
    <3>1. ActiveNow(b)' <=> ActiveNow(b)
      BY <1>2, <1>3, <2>1, <2>3 DEF ActiveNow, Becomes
    <3>2. NamedNow(b, tuned)' <=> NamedNow(b, tuned)
      BY <1>2, <1>3, <2>1, <2>3 DEF NamedNow, Becomes
    <3> QED BY <1>2, <1>3, <2>1, <2>3, <3>1, <3>2, TruthSame
  <2> QED BY <2>2, <2>3
<1>4. CASE b # c
  <2>1. /\ link'[b] = link[b] /\ net'[b] = net[b] /\ queue'[b] = queue[b] /\ panel'[b] = panel[b]
        /\ missed'[b] = missed[b]
    BY <1>1, <1>4 DEF Browser, Join, CatchUp, Sends, Forward, Show, Answered, ClickStart,
                      ClickStopOrSkip, Leave, pageVars, history
  <2> QED BY <1>3, <2>1
<1>5. CASE b = c
  <2>1. ASSUME Join(b) PROVE TruthFor(b)'
    <3>1. /\ queue'[b] = <<>> /\ link'[b] = "joining" /\ missed'[b] = Pending
      BY <1>1, <2>1 DEF Join, Fresh, FreshFor
    <3>2. ActiveSoon(b)' <=> snapshot # {}
      BY <1>2, <3>1 DEF ActiveSoon, ActiveNow, Becomes
    <3>3. NamedSoon(b, tuned)' <=> snapshot = {tuned}
      BY <1>2, <3>1 DEF NamedSoon, NamedNow, Becomes
    <3>4. missed'[b] # "button" => (snapshot # {} <=> running)
      BY <3>1 DEF Pending, Posted
    <3>5. missed'[b] # "channel" /\ running /\ tuned # 0 => snapshot = {tuned}
      BY <3>1 DEF Pending, Posted
    <3> QED BY <1>2, <3>2, <3>3, <3>4, <3>5 DEF TruthFor
  <2>2. ASSUME CatchUp(b) PROVE TruthFor(b)'
    <3>1. link[b] # "off" /\ queue' = queue /\ missed' = missed
      BY <2>2 DEF CatchUp, history
    <3> QED BY <1>2, <2>2, <3>1, CatchUpSays, TruthSame
  <2>3. ASSUME ClickStart(b) PROVE TruthFor(b)'
    <3>1. link[b] = "open" /\ link'[b] = "starting" /\ net' = net /\ queue' = queue /\ panel' = panel
          /\ missed' = missed
      BY <1>1, <2>3 DEF ClickStart, Reads, history
    <3> QED BY <1>3, <3>1
  <2>4. ASSUME ClickStopOrSkip(b) PROVE TruthFor(b)'
    BY <1>3, <2>4 DEF ClickStopOrSkip, pageVars, history
  <2>5. ASSUME Leave(b) PROVE TruthFor(b)'
    BY <1>1, <2>5 DEF Leave, TruthFor
  <2> QED
    BY <1>5, <2>1, <2>2, <2>3, <2>4, <2>5, ForwardSays, ShowSays, AnsweredSays DEF Browser
<1> QED BY <1>4, <1>5

BoardInv == Typed /\ Posted /\ Fresh /\ Late /\ Waits /\ Truth

LEMMA BoardStep == BoardInv /\ [Next]_vars => BoardInv'
<1> SUFFICES ASSUME BoardInv, [Next]_vars PROVE BoardInv'
  OBVIOUS
<1> USE DEF BoardInv
<1>1. Typed' /\ Posted' /\ Fresh' /\ Late' /\ Waits'
  BY TypedStep, PostedStep, FreshStep, LateStep, WaitsStep
<1>2. ASSUME NEW b \in Browsers PROVE TruthFor(b)'
  <2>1. TruthFor(b) /\ WaitsFor(b) /\ LateFor(b)
    BY DEF Truth, Waits, Late
  <2>2. ASSUME UNCHANGED vars PROVE TruthFor(b)'
    BY <2>1, <2>2 DEF TruthFor, ActiveSoon, NamedSoon, ActiveNow, NamedNow, Becomes, vars,
                      actorVars, pageVars, history
  <2> QED BY <2>1, <2>2, TruthActor, TruthBrowser DEF Next
<1> QED BY <1>1, <1>2 DEF Truth

LEMMA BoardInit == Init => BoardInv
<1> SUFFICES ASSUME Init PROVE BoardInv
  OBVIOUS
<1>1. Typed
  BY InitTyped
<1>2. Posted /\ Fresh /\ Late /\ Truth
  BY DEF Init, Posted, Fresh, FreshFor, Late, LateFor, Truth, TruthFor
<1>3. Waits
  <2>1. posting = "no" /\ cmds = <<>> /\ \A b \in Browsers : reply[b] = "none" /\ b # "no"
    BY BoardAssumption DEF Init
  <2>2. DOMAIN cmds = {}
    BY <2>1
  <2> QED BY <2>1, <2>2 DEF Waits, WaitsFor
<1> QED BY <1>1, <1>2, <1>3 DEF BoardInv

LEMMA BoardRight == BoardInv => PanelIsRight
<1> SUFFICES ASSUME BoardInv PROVE PanelIsRight
  OBVIOUS
<1>1. ASSUME NEW b \in Browsers, Settled(b)
      PROVE  /\ WillBeActive(b) <=> ActiveSoon(b)
             /\ WillName(b, tuned) <=> NamedSoon(b, tuned)
  <2>1. net[b] \in Seq(Messages) /\ queue[b] \in Seq(Messages)
    <3>1. net[b] \in Seq(Messages) /\ queue[b] \in Seq(Events)
      BY DEF BoardInv, Typed, NetOK, QueueOK
    <3> QED BY <3>1, EventTypes
  <2>2. SwitchingOn \subseteq Switching /\ NamingIt(tuned) \subseteq Naming
    BY EventKinds
  <2>3. link[b] # "joining"
    BY <1>1 DEF Settled
  <2>4. PICK shown \in BOOLEAN : shown <=> panel[b].active
    OBVIOUS
  <2>5. Becomes(Coming(b), Switching, SwitchingOn, shown)
          <=> Becomes(queue[b], Switching, SwitchingOn,
                      Becomes(net[b], Switching, SwitchingOn, shown))
    BY <2>1, <2>2, <2>4, BecomesThen DEF Coming
  <2>6. WillBeActive(b) <=> ActiveSoon(b)
    BY <2>3, <2>4, <2>5 DEF WillBeActive, ActiveSoon, ActiveNow, Becomes
  <2>7. PICK named \in BOOLEAN : named <=> panel[b].name = tuned
    OBVIOUS
  <2>8. Becomes(Coming(b), Naming, NamingIt(tuned), named)
          <=> Becomes(queue[b], Naming, NamingIt(tuned),
                      Becomes(net[b], Naming, NamingIt(tuned), named))
    BY <2>1, <2>2, <2>7, BecomesThen DEF Coming
  <2>9. WillName(b, tuned) <=> NamedSoon(b, tuned)
    BY <2>3, <2>7, <2>8 DEF WillName, NamedSoon, NamedNow, Becomes
  <2> QED BY <2>6, <2>9
<1>2. \A b \in Browsers : Settled(b) => TruthFor(b) /\ link[b] # "off"
  BY DEF BoardInv, Truth, Settled
<1>3. ButtonIsRight
  BY <1>1, <1>2 DEF ButtonIsRight, TruthFor
<1>4. ChannelIsRight
  BY <1>1, <1>2 DEF ChannelIsRight, TruthFor
<1> QED BY <1>3, <1>4 DEF PanelIsRight

(* However many browsers join, leave, start, skip and stop among each      *)
(* other, and however long their backlogs: the button of each is about to  *)
(* say Stop exactly when a scan runs, and its panel to name the channel    *)
(* the scan is on, but for one that subscribed after an event and read the *)
(* snapshot of before, until the next event of that kind (scan.rs actor,   *)
(* main.rs handle_scan).                                                   *)
THEOREM PanelsAreRight == Spec => []PanelIsRight
<1> QED BY BoardStep, BoardInit, BoardRight, PTL DEF Spec
=============================================================================
