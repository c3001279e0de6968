----------------------------- MODULE LifeProofs -----------------------------
(***************************************************************************)
(* Proofs about the life of the server, for any capacity of the event and  *)
(* control channels: who may have raised the carrier, what is left on the  *)
(* line at the end, and that the pause task ends up right after any burst. *)
(***************************************************************************)
EXTENDS ServerLife, TLAPS

(* What Append and Tail do to a queue.                                     *)
LEMMA Appended ==
  ASSUME NEW S, NEW q \in Seq(S), NEW e \in S
  PROVE  /\ Append(q, e) \in Seq(S)
         /\ Len(q) \in Nat
         /\ Len(Append(q, e)) = Len(q) + 1
         /\ \A i \in 1..Len(q) : Append(q, e)[i] = q[i]
         /\ Append(q, e)[Len(q) + 1] = e
OBVIOUS

LEMMA Popped ==
  ASSUME NEW S, NEW q \in Seq(S), q # <<>>
  PROVE  /\ Tail(q) \in Seq(S)
         /\ Len(q) \in Nat \ {0}
         /\ Len(Tail(q)) = Len(q) - 1
         /\ \A i \in 1..Len(Tail(q)) : Tail(q)[i] = q[i + 1]
         /\ Head(q) = q[1] /\ Head(q) \in S
OBVIOUS

LEMMA EmptyIffZero ==
  ASSUME NEW S, NEW q \in Seq(S)
  PROVE  q = <<>> <=> Len(q) = 0
OBVIOUS

-----------------------------------------------------------------------------
(* The type invariant.                                                     *)

LEMMA BroadcastType ==
  ASSUME TypeOK, NEW e \in Events, Broadcast(e)
  PROVE  /\ events' \in Seq(Events) /\ Len(events') <= EventCap
         /\ events' # <<>> /\ events'[Len(events')] = e
<1> DEFINE s == Append(events, e)
<1>1. /\ s \in Seq(Events) /\ s # <<>> /\ Len(s) = Len(events) + 1
      /\ s[Len(s)] = e /\ Len(events) \in Nat /\ Len(events) <= EventCap
  BY Appended, EmptyIffZero DEF TypeOK
<1>2. CASE Len(s) > EventCap
  <2>1. events' = Tail(s)
    BY <1>2 DEF Broadcast
  <2>2. /\ Tail(s) \in Seq(Events) /\ Len(Tail(s)) = Len(s) - 1
        /\ \A i \in 1..Len(Tail(s)) : Tail(s)[i] = s[i + 1]
    BY <1>1, Popped
  <2>3. Len(s) - 1 \in 1..EventCap
    BY <1>1, <1>2, LifeAssumption
  <2>4. Tail(s) # <<>>
    BY <2>2, <2>3, EmptyIffZero
  <2>5. Tail(s)[Len(s) - 1] = s[(Len(s) - 1) + 1]
    BY <2>2, <2>3, <1>1
  <2>a. (Len(s) - 1) + 1 = Len(s)
    BY <1>1
  <2>6. Tail(s)[Len(s) - 1] = e
    BY <2>5, <2>a, <1>1
  <2>7. events' \in Seq(Events) /\ events' # <<>> /\ Len(events') = Len(s) - 1
    BY <2>1, <2>2, <2>4
  <2>8. Len(s) - 1 <= EventCap
    BY <2>3
  <2>9. events'[Len(events')] = e
    BY <2>1, <2>6, <2>7
  <2>10. Len(events') <= EventCap
    BY <2>7, <2>8
  <2> QED BY ONLY <2>7, <2>9, <2>10
<1>3. CASE ~(Len(s) > EventCap)
  BY <1>1, <1>3, LifeAssumption DEF Broadcast
<1> QED BY <1>2, <1>3

LEMMA Popping ==
  ASSUME TypeOK, NEW c, Finished(c)
  PROVE  /\ Tail(line) \in Seq(Commands)
         /\ c \in Commands
         /\ line \in Seq(Commands) /\ line # <<>> /\ Head(line) = c
BY Popped DEF TypeOK, Finished

LEMMA Pushing ==
  ASSUME NEW q \in Seq(Commands), NEW c \in Commands
  PROVE  Append(q, c) \in Seq(Commands)
OBVIOUS

LEMMA StartType ==
  ASSUME TypeOK, Start
  PROVE  ahead' \in 0..StartCap
BY LifeAssumption DEF TypeOK, Start

LEMMA UnkeysType ==
  ASSUME TypeOK, NEW done \in BOOLEAN, Unkeys(done)
  PROVE  keyed' \in BOOLEAN /\ stray' \in BOOLEAN
BY DEF TypeOK, Unkeys

LEMMA LifeTypeInit == Init => TypeOK
<1>1. <<"mainE">> \in Seq(Commands) /\ <<>> \in Seq(Events) /\ <<>> \in Seq(Modes)
  BY DEF Commands
<1>2. Len(<<>>) <= EventCap /\ Len(<<>>) <= ControlCap
  BY LifeAssumption
<1>3. 0 \in 0..StartCap
  BY LifeAssumption
<1> QED BY <1>1, <1>2, <1>3 DEF Init, TypeOK, Commands, Modes

LEMMA LifeTypeNext == TypeOK /\ [Next]_vars => TypeOK'
<1> SUFFICES ASSUME TypeOK, [Next]_vars PROVE TypeOK'
  OBVIOUS
<1>a. CASE Press
  <2>1. ahead' \in 0..StartCap
    BY <1>a, StartType DEF Press
  <2> QED BY <1>a, <2>1, Pushing DEF Press, TypeOK, Commands
<1>s. CASE Deny
  BY <1>s, StartType DEF Deny, TypeOK
<1>b. CASE Release
  BY <1>b, Pushing DEF Release, TypeOK, Holding, Commands, ending
<1>c. CASE InquiryDone
  BY <1>c, Popping DEF InquiryDone, TypeOK, ending
<1>d. CASE ZapDone
  <2>1. CASE Finished("Z") /\ arb' = "key" /\ line' = Append(Tail(line), "B")
    <3>1. Tail(line) \in Seq(Commands)
      BY <2>1, Popping
    <3>2. line' \in Seq(Commands)
      BY <2>1, <3>1, Pushing DEF Commands
    <3> QED BY <1>d, <2>1, <3>1, <3>2 DEF ZapDone, TypeOK, ending
  <2>2. CASE Finished("zapE") /\ arb' = "relE" /\ line' = Append(Tail(line), "E")
    <3>1. Tail(line) \in Seq(Commands)
      BY <2>2, Popping
    <3>2. line' \in Seq(Commands)
      BY <2>2, <3>1, Pushing DEF Commands
    <3> QED BY <1>d, <2>2, <3>1, <3>2 DEF ZapDone, TypeOK, Holding, ending
  <2> QED BY <1>d, <2>1, <2>2 DEF ZapDone
<1>e. CASE KeyDone
  <2>1. Tail(line) \in Seq(Commands)
    BY <1>e, Popping DEF KeyDone
  <2>2. events' \in Seq(Events) /\ Len(events') <= EventCap
    BY <1>e, BroadcastType DEF KeyDone, TypeOK, Events
  <2>3. keyed' \in BOOLEAN /\ stray' \in BOOLEAN
    BY <1>e DEF KeyDone, TypeOK
  <2>4. arb' \in {"free", "held"}
    BY <1>e DEF KeyDone
  <2> QED BY <1>e, <2>1, <2>2, <2>3, <2>4 DEF KeyDone, TypeOK, Holding, ending
<1>f. CASE UnkeyDone
  <2>1. Tail(line) \in Seq(Commands)
    BY <1>f, Popping DEF UnkeyDone
  <2>2. events' \in Seq(Events) /\ Len(events') <= EventCap
    BY <1>f, BroadcastType DEF UnkeyDone, Events
  <2>3. keyed' \in BOOLEAN /\ stray' \in BOOLEAN
    BY <1>f, UnkeysType DEF UnkeyDone
  <2> QED BY <1>f, <2>1, <2>2, <2>3 DEF UnkeyDone, TypeOK, ending
<1>g. CASE GateReceives
  <2>1. Tail(events) \in Seq(Events) /\ Len(Tail(events)) <= Len(events)
    BY <1>g, Popped DEF GateReceives, TypeOK
  <2>2. Len(Tail(events)) \in Nat /\ Len(events) \in Nat /\ EventCap \in Nat
    BY <2>1, LifeAssumption DEF TypeOK
  <2> QED BY <1>g, <2>1, <2>2 DEF GateReceives, TypeOK, ending
<1>h. CASE GateSends
  <2>1. Wanted \in Modes
    BY DEF Wanted, Modes
  <2>2. Append(control, Wanted) \in Seq(Modes) /\ Len(Append(control, Wanted)) = Len(control) + 1
    BY <2>1, Appended DEF TypeOK
  <2>3. Len(control) \in Nat /\ ControlCap \in Nat
    BY LifeAssumption DEF TypeOK
  <2> QED BY <1>h, <2>2, <2>3 DEF GateSends, TypeOK, ending
<1>j. CASE TakeControl
  <2>1. /\ Tail(control) \in Seq(Modes) /\ Len(Tail(control)) <= Len(control)
        /\ Head(control) \in Modes
    BY <1>j, Popped DEF TakeControl, TypeOK
  <2>2. Len(Tail(control)) \in Nat /\ Len(control) \in Nat /\ ControlCap \in Nat
    BY <2>1, LifeAssumption DEF TypeOK
  <2> QED BY <1>j, <2>1, <2>2 DEF TakeControl, TypeOK, ending
<1>k. CASE Fire
  BY <1>k, Pushing DEF Fire, TypeOK, Commands, ending
<1>m. CASE Startup
  BY <1>m, Popping, UnkeysType DEF Startup, TypeOK, ending
<1>n. CASE ConnectionsChange
  BY <1>n DEF ConnectionsChange, TypeOK, ending
<1>o. CASE Signal \/ ServeFails \/ LastUnkeyTimesOut \/ ScannerStops
  BY <1>o DEF Signal, ServeFails, LastUnkeyTimesOut, ScannerStops, TypeOK, ending
<1>p. CASE ArbiterStops
  BY <1>p, Pushing DEF ArbiterStops, SendLastE, TypeOK, Commands
<1>q. CASE LastUnkeyDone
  <2>1. keyed' \in BOOLEAN /\ stray' \in BOOLEAN /\ lastE' \in {"done", "undone"}
    BY <1>q, UnkeysType DEF LastUnkeyDone
  <2> QED BY <1>q, <2>1, Popping DEF LastUnkeyDone, TypeOK
<1>r. CASE UNCHANGED vars
  BY <1>r DEF vars, ending, TypeOK
<1> QED
  BY <1>a, <1>b, <1>c, <1>d, <1>e, <1>f, <1>g, <1>h, <1>j, <1>k, <1>m,
     <1>n, <1>o, <1>p, <1>q, <1>r, <1>s DEF Next, Dispatcher, Gate, Poller

(* The channels stay within their capacities and every task in its states. *)
THEOREM LifeTypeCorrect == Spec => []TypeOK
<1> QED BY LifeTypeInit, LifeTypeNext, PTL DEF Spec

-----------------------------------------------------------------------------
(* The arbiter has at most one command in the dispatcher, the one its      *)
(* phase says.                                                             *)
ArbCommands == {"Z", "B", "zapE", "E"}

PhaseOf(c) == CASE c = "Z" -> "zap"
                [] c = "B" -> "key"
                [] c = "zapE" -> "relZap"
                [] c = "E" -> "relE"

NoArb(q) == \A i \in 1..Len(q) : q[i] \notin ArbCommands

LineOK(q, a) ==
  /\ \A i \in 1..Len(q) : q[i] \in ArbCommands => a = PhaseOf(q[i])
  /\ \A i, j \in 1..Len(q) : q[i] \in ArbCommands /\ q[j] \in ArbCommands => i = j

LEMMA ArbIdle ==
  ASSUME NEW q, NEW a \in {"none", "free", "held", "down"}, LineOK(q, a)
  PROVE  NoArb(q)
BY DEF LineOK, NoArb, ArbCommands, PhaseOf

LEMMA NoArbFits ==
  ASSUME NEW q, NEW a, NoArb(q)
  PROVE  LineOK(q, a)
BY DEF LineOK, NoArb

LEMMA PushOwn ==
  ASSUME NEW q \in Seq(Commands), NoArb(q), NEW c \in ArbCommands
  PROVE  LineOK(Append(q, c), PhaseOf(c))
<1>1. c \in Commands
  BY DEF ArbCommands, Commands
<1>2. /\ Len(q) \in Nat /\ Len(Append(q, c)) = Len(q) + 1
      /\ \A i \in 1..Len(q) : Append(q, c)[i] = q[i]
      /\ Append(q, c)[Len(q) + 1] = c
  BY <1>1, Appended
<1>3. \A i \in 1..Len(q) + 1 : Append(q, c)[i] \in ArbCommands => i = Len(q) + 1
  BY <1>2 DEF NoArb
<1> QED BY <1>2, <1>3 DEF LineOK

LEMMA PushOther ==
  ASSUME NEW q \in Seq(Commands), NEW a, LineOK(q, a), NEW c \in Commands \ ArbCommands
  PROVE  LineOK(Append(q, c), a)
<1>1. /\ Len(q) \in Nat /\ Len(Append(q, c)) = Len(q) + 1
      /\ \A i \in 1..Len(q) : Append(q, c)[i] = q[i]
      /\ Append(q, c)[Len(q) + 1] = c
  BY Appended
<1>2. \A i \in 1..Len(q) + 1 :
        Append(q, c)[i] \in ArbCommands => i \in 1..Len(q) /\ Append(q, c)[i] = q[i]
  BY <1>1
<1> QED BY <1>1, <1>2 DEF LineOK

LEMMA PopOwn ==
  ASSUME NEW q \in Seq(Commands), q # <<>>, NEW a, LineOK(q, a), Head(q) \in ArbCommands
  PROVE  NoArb(Tail(q)) /\ a = PhaseOf(Head(q))
<1>1. /\ Len(q) \in Nat \ {0} /\ Len(Tail(q)) = Len(q) - 1
      /\ \A i \in 1..Len(Tail(q)) : Tail(q)[i] = q[i + 1]
      /\ Head(q) = q[1]
  BY Popped
<1>2. 1 \in 1..Len(q)
  BY <1>1
<1>3. ASSUME NEW i \in 1..Len(Tail(q)) PROVE Tail(q)[i] \notin ArbCommands
  <2>1. i + 1 \in 1..Len(q) /\ i + 1 # 1 /\ Tail(q)[i] = q[i + 1]
    BY <1>1
  <2> QED BY <1>1, <1>2, <2>1 DEF LineOK
<1> QED BY <1>1, <1>2, <1>3 DEF LineOK, NoArb

LEMMA PopOther ==
  ASSUME NEW q \in Seq(Commands), q # <<>>, NEW a, LineOK(q, a)
  PROVE  LineOK(Tail(q), a)
<1>1. /\ Len(q) \in Nat \ {0} /\ Len(Tail(q)) = Len(q) - 1
      /\ \A i \in 1..Len(Tail(q)) : Tail(q)[i] = q[i + 1]
  BY Popped
<1>2. \A i \in 1..Len(Tail(q)) : i + 1 \in 1..Len(q)
  BY <1>1
<1>3. ASSUME NEW i \in 1..Len(Tail(q)), NEW j \in 1..Len(Tail(q)),
             Tail(q)[i] \in ArbCommands, Tail(q)[j] \in ArbCommands
      PROVE  i = j
  <2>1. i + 1 = j + 1
    BY <1>1, <1>2, <1>3 DEF LineOK
  <2> QED BY <2>1, <1>1
<1> QED BY <1>1, <1>2, <1>3 DEF LineOK

-----------------------------------------------------------------------------
(* Everything at once: the carrier, the end, and the mode the poller will  *)
(* have when all that is under way has arrived.                            *)
ModeOf(e) == IF e = "acquired" THEN "Paused" ELSE "Normal"

LastWord ==
  IF events # <<>> THEN ModeOf(events[Len(events)])
  ELSE IF gate \in {"pausing", "resuming"} THEN Wanted
  ELSE IF control # <<>> THEN control[Len(control)]
  ELSE backoff

ShouldBe == IF arb \in Holding THEN "Paused" ELSE "Normal"

Booting == main = "boot" => arb = "none"
Closing == main \in {"unkey", "poller"} \/ lastE # "unsent" => arb = "down"
Ended   == lastE = "done" => ~keyed

LifeInv == /\ TypeOK
           /\ LineOK(line, arb)
           /\ Booting /\ Closing /\ Ended
           /\ CarrierIsArbiters
           /\ LastWord = ShouldBe

LEMMA LifeInit == Init => LifeInv
<1> SUFFICES ASSUME Init PROVE LifeInv
  OBVIOUS
<1>1. LineOK(line, arb)
  BY DEF Init, LineOK, ArbCommands
<1>2. LastWord = ShouldBe
  BY DEF Init, LastWord, ShouldBe, Holding
<1> QED BY <1>1, <1>2, LifeTypeInit DEF Init, LifeInv, Booting, Closing, Ended, CarrierIsArbiters

(* Steps that touch neither the messages nor the arbiter's phase.          *)
LEMMA SameWord ==
  ASSUME UNCHANGED <<events, gate, control, backoff>>
  PROVE  LastWord' = LastWord
BY DEF LastWord, Wanted

(* The line and the arbiter's phase fit after every step.                  *)
LEMMA LineNext ==
  ASSUME LifeInv, [Next]_vars
  PROVE  LineOK(line, arb)'
<1>0. /\ TypeOK /\ LineOK(line, arb) /\ line \in Seq(Commands)
  BY DEF LifeInv, TypeOK
<1>a. CASE Press
  <2>1. NoArb(line) /\ line' = Append(line, "Z") /\ arb' = PhaseOf("Z")
    BY <1>a, <1>0, ArbIdle DEF Press, PhaseOf
  <2> QED BY <2>1, <1>0, PushOwn DEF ArbCommands
<1>b. CASE Release
  <2>1. NoArb(line) /\ line' = Append(line, "zapE") /\ arb' = PhaseOf("zapE")
    BY <1>b, <1>0, ArbIdle DEF Release, PhaseOf
  <2> QED BY <2>1, <1>0, PushOwn DEF ArbCommands
<1>c. CASE InquiryDone \/ Startup \/ LastUnkeyDone
  <2>1. line # <<>> /\ line' = Tail(line)
    BY <1>c DEF InquiryDone, Startup, LastUnkeyDone, Finished
  <2>2. CASE Startup
    <3>1. NoArb(line)
      BY <2>2, <1>0, ArbIdle DEF Startup, LifeInv, Booting
    <3>2. NoArb(Tail(line))
      BY <3>1, <2>1, <1>0, NoArbFits, PopOther, Popped DEF NoArb
    <3> QED BY <2>1, <3>2, NoArbFits
  <2>3. CASE InquiryDone \/ LastUnkeyDone
    BY <2>1, <2>3, <1>0, PopOther DEF InquiryDone, LastUnkeyDone
  <2> QED BY <1>c, <2>2, <2>3
<1>d. CASE ZapDone
  <2>1. Head(line) \in ArbCommands /\ line # <<>>
    BY <1>d DEF ZapDone, Finished, ArbCommands
  <2>2. NoArb(Tail(line)) /\ Tail(line) \in Seq(Commands)
    BY <2>1, <1>0, PopOwn, Popped
  <2>3. \/ line' = Append(Tail(line), "B") /\ arb' = PhaseOf("B")
        \/ line' = Append(Tail(line), "E") /\ arb' = PhaseOf("E")
    BY <1>d DEF ZapDone, PhaseOf
  <2> QED BY <2>2, <2>3, PushOwn DEF ArbCommands
<1>e. CASE KeyDone \/ UnkeyDone
  <2>1. Head(line) \in ArbCommands /\ line # <<>> /\ line' = Tail(line)
    BY <1>e DEF KeyDone, UnkeyDone, Finished, ArbCommands
  <2>2. NoArb(Tail(line))
    BY <2>1, <1>0, PopOwn
  <2> QED BY <2>1, <2>2, NoArbFits
<1>f. CASE Fire
  <2>1. line' = Append(line, "inquiry") /\ arb' = arb
    BY <1>f DEF Fire
  <2> QED BY <2>1, <1>0, PushOther DEF Commands, ArbCommands
<1>g. CASE ArbiterStops
  <2>1. NoArb(line) /\ line' = Append(line, "mainE")
    BY <1>g, <1>0, ArbIdle DEF ArbiterStops, SendLastE
  <2>2. LineOK(line, arb')
    BY <2>1, NoArbFits
  <2> QED BY <2>1, <2>2, <1>0, PushOther DEF Commands, ArbCommands
<1>h. CASE UNCHANGED <<line, arb>>
  BY <1>h, <1>0 DEF LineOK
<1> QED
  BY <1>a, <1>b, <1>c, <1>d, <1>e, <1>f, <1>g, <1>h
  DEF Next, Dispatcher, Gate, Poller, GateReceives, GateSends, TakeControl,
      ConnectionsChange, Signal, ServeFails, ScannerStops, LastUnkeyTimesOut, Deny, vars

(* The phase in which a command of the arbiter finishes.                   *)
LEMMA FinishPhase ==
  ASSUME LifeInv, NEW c \in ArbCommands, Finished(c)
  PROVE  arb = PhaseOf(c)
BY PopOwn DEF LifeInv, TypeOK, Finished

LEMMA CarrierNext ==
  ASSUME LifeInv, [Next]_vars
  PROVE  Booting' /\ Closing' /\ Ended' /\ CarrierIsArbiters'
<1> USE DEF LifeInv, Booting, Closing, Ended, CarrierIsArbiters, Holding
<1>a. CASE Press \/ Deny \/ Release
  BY <1>a DEF Press, Deny, Release, Start, ending, Alive
<1>b. CASE ZapDone
  <2>1. arb \in {"zap", "relZap"}
    BY <1>b, FinishPhase DEF ZapDone, ArbCommands, PhaseOf
  <2>2. arb = "zap" => arb' = "key"
    <3>1. Finished("zapE") => arb = "relZap"
      BY FinishPhase DEF ArbCommands, PhaseOf
    <3> QED BY <1>b, <3>1 DEF ZapDone
  <2>3. arb = "relZap" => arb' = "relE"
    <3>1. Finished("Z") => arb = "zap"
      BY FinishPhase DEF ArbCommands, PhaseOf
    <3> QED BY <1>b, <3>1 DEF ZapDone
  <2> QED BY <1>b, <2>1, <2>2, <2>3 DEF ZapDone, ending
<1>c. CASE KeyDone
  <2>1. arb = "key" /\ lastE = "unsent" /\ main \notin {"boot", "unkey", "poller"}
    BY <1>c, FinishPhase DEF KeyDone, ArbCommands, PhaseOf
  <2>2. keyed => stray
    BY <2>1
  <2>4. keyed' => arb' = "held" \/ stray'
    <3>1. CASE arb' = "held"
      BY <3>1
    <3>2. CASE stray' = TRUE
      BY <3>2
    <3>3. CASE keyed' = keyed /\ stray' = stray
      BY <3>3, <2>2
    <3> QED BY <1>c, <3>1, <3>2, <3>3 DEF KeyDone
  <2>3. UNCHANGED <<main, lastE>>
    BY <1>c DEF KeyDone, ending
  <2> QED BY <2>1, <2>3, <2>4
<1>d. CASE UnkeyDone
  <2>1. arb = "relE" /\ lastE = "unsent" /\ main \notin {"boot", "unkey", "poller"}
    BY <1>d, FinishPhase DEF UnkeyDone, ArbCommands, PhaseOf
  <2>2. keyed' => stray'
    BY <1>d DEF UnkeyDone, Unkeys
  <2>3. UNCHANGED <<main, lastE>>
    BY <1>d DEF UnkeyDone, ending
  <2> QED BY <2>1, <2>2, <2>3
<1>e. CASE Startup
  <2>1. keyed' => stray'
    BY <1>e DEF Startup, Unkeys
  <2>2. arb = "none" /\ lastE = "unsent" /\ lastE' = "unsent" /\ main' = "serving"
    BY <1>e DEF Startup, ending
  <2> QED BY <2>1, <2>2
<1>f. CASE LastUnkeyDone
  <2>1. PICK done \in BOOLEAN : Unkeys(done) /\ lastE' = (IF done THEN "done" ELSE "undone")
    BY <1>f DEF LastUnkeyDone
  <2>2. (keyed' => stray') /\ (lastE' = "done" => ~keyed')
    BY <2>1 DEF Unkeys
  <2>3. arb = "down" /\ arb' = "down" /\ main' = "poller"
    BY <1>f DEF LastUnkeyDone
  <2> QED BY <2>2, <2>3
<1>g. CASE Signal \/ ServeFails \/ LastUnkeyTimesOut \/ ScannerStops
  BY <1>g DEF Signal, ServeFails, LastUnkeyTimesOut, ScannerStops, ending
<1>h. CASE ArbiterStops
  BY <1>h DEF ArbiterStops, SendLastE
<1>i. CASE UNCHANGED <<keyed, arb, main, lastE, stray>>
  BY <1>i
<1> QED
  BY <1>a, <1>b, <1>c, <1>d, <1>e, <1>f, <1>g, <1>h, <1>i
  DEF Next, Dispatcher, Gate, Poller, InquiryDone, GateReceives, GateSends,
      TakeControl, Fire, ConnectionsChange, ending, vars

LEMMA WordNext ==
  ASSUME LifeInv, [Next]_vars
  PROVE  (LastWord = ShouldBe)'
<1>0. TypeOK /\ LastWord = ShouldBe
  BY DEF LifeInv
<1>a. CASE Press \/ Deny \/ Release \/ ArbiterStops
  <2>1. LastWord' = LastWord
    BY <1>a, SameWord DEF Press, Deny, Release, ArbiterStops
  <2>2. ShouldBe' = ShouldBe
    BY <1>a DEF Press, Deny, Release, ArbiterStops, ShouldBe, Holding
  <2> QED BY <1>0, <2>1, <2>2
<1>b. CASE ZapDone
  <2>1. LastWord' = LastWord
    BY <1>b, SameWord DEF ZapDone
  <2>2. ShouldBe' = ShouldBe
    <3>1. CASE Finished("Z") /\ arb' = "key"
      <4>1. arb = "zap"
        BY <3>1, FinishPhase DEF ArbCommands, PhaseOf
      <4> QED BY <3>1, <4>1 DEF ShouldBe, Holding
    <3>2. CASE Finished("zapE") /\ arb' = "relE"
      <4>1. arb = "relZap"
        BY <3>2, FinishPhase DEF ArbCommands, PhaseOf
      <4> QED BY <3>2, <4>1 DEF ShouldBe, Holding
    <3> QED BY <1>b, <3>1, <3>2 DEF ZapDone
  <2> QED BY <1>0, <2>1, <2>2
<1>c. CASE KeyDone
  <2>1. CASE arb' = "held" /\ Broadcast("acquired")
    <3>1. events' # <<>> /\ events'[Len(events')] = "acquired"
      BY <2>1, <1>0, BroadcastType DEF Events
    <3> QED BY <2>1, <3>1 DEF LastWord, ModeOf, ShouldBe, Holding
  <2>2. CASE arb' = "free" /\ UNCHANGED events
    <3>1. arb = "key"
      BY <1>c, FinishPhase DEF KeyDone, ArbCommands, PhaseOf
    <3>2. LastWord' = LastWord
      BY <1>c, <2>2, SameWord DEF KeyDone
    <3> QED BY <1>0, <2>2, <3>1, <3>2 DEF ShouldBe, Holding
  <2> QED BY <1>c, <2>1, <2>2 DEF KeyDone
<1>d. CASE UnkeyDone
  <2>1. events' # <<>> /\ events'[Len(events')] = "released"
    BY <1>d, <1>0, BroadcastType DEF UnkeyDone, Events
  <2> QED BY <1>d, <2>1 DEF UnkeyDone, LastWord, ModeOf, ShouldBe, Holding
<1>e. CASE Startup
  <2>1. LastWord' = LastWord
    BY <1>e, SameWord DEF Startup
  <2>2. arb = "none" /\ arb' = "free"
    BY <1>e DEF Startup, LifeInv, Booting
  <2> QED BY <1>0, <2>1, <2>2 DEF ShouldBe, Holding
<1>f. CASE GateReceives
  <2>1. /\ events \in Seq(Events) /\ events # <<>> /\ events' = Tail(events)
        /\ gate' = IF Head(events) = "acquired" THEN "pausing" ELSE "resuming"
        /\ arb' = arb
    BY <1>f, <1>0 DEF GateReceives, TypeOK
  <2>2. /\ Tail(events) \in Seq(Events) /\ Len(events) \in Nat \ {0}
        /\ Len(Tail(events)) = Len(events) - 1
        /\ \A i \in 1..Len(Tail(events)) : Tail(events)[i] = events[i + 1]
        /\ Head(events) = events[1]
    BY <2>1, Popped
  <2>3. LastWord = ModeOf(events[Len(events)])
    BY <2>1 DEF LastWord
  <2>4. CASE Len(events) = 1
    <3>1. events' = <<>>
      BY <2>1, <2>2, <2>4, EmptyIffZero
    <3>2. LastWord' = ModeOf(Head(events))
      BY <3>1, <2>1 DEF LastWord, Wanted, ModeOf
    <3> QED BY <3>2, <2>1, <2>2, <2>3, <2>4, <1>0 DEF ShouldBe
  <2>5. CASE Len(events) # 1
    <3>1. Len(events') = Len(events) - 1 /\ Len(events') \in 1..Len(Tail(events))
      BY <2>1, <2>2, <2>5
    <3>2. events' # <<>>
      BY <3>1, <2>1, <2>2, EmptyIffZero
    <3>3. events'[Len(events')] = events[(Len(events) - 1) + 1]
      BY <3>1, <2>1, <2>2
    <3>4. events'[Len(events')] = events[Len(events)]
      BY <3>3, <2>2
    <3>5. LastWord' = LastWord
      BY <3>2, <3>4, <2>3 DEF LastWord, ModeOf
    <3> QED BY <3>5, <2>1, <1>0 DEF ShouldBe
  <2> QED BY <2>4, <2>5
<1>g. CASE GateSends
  <2>1. /\ control' = Append(control, Wanted) /\ Wanted \in Modes
        /\ control \in Seq(Modes) /\ gate' = "recv" /\ events' = events /\ arb' = arb
        /\ gate \in {"pausing", "resuming"}
    BY <1>g, <1>0 DEF GateSends, TypeOK, Wanted, Modes
  <2>2. /\ control' \in Seq(Modes) /\ Len(control') = Len(control) + 1
        /\ Len(control) \in Nat /\ control'[Len(control) + 1] = Wanted
    BY <2>1, Appended
  <2>3. control' # <<>> /\ control'[Len(control')] = Wanted
    BY <2>2, EmptyIffZero
  <2>4. LastWord' = LastWord
    BY <2>1, <2>3 DEF LastWord, ModeOf
  <2> QED BY <2>1, <2>4, <1>0 DEF ShouldBe
<1>i. CASE TakeControl
  <2>1. /\ control \in Seq(Modes) /\ control # <<>> /\ control' = Tail(control)
        /\ backoff' = Head(control) /\ UNCHANGED <<events, gate, arb>>
    BY <1>i, <1>0 DEF TakeControl, TypeOK
  <2>2. /\ Tail(control) \in Seq(Modes) /\ Len(control) \in Nat \ {0}
        /\ Len(Tail(control)) = Len(control) - 1
        /\ \A j \in 1..Len(Tail(control)) : Tail(control)[j] = control[j + 1]
        /\ Head(control) = control[1]
    BY <2>1, Popped
  <2>3. LastWord' = LastWord
    <3>1. CASE Len(control) = 1
      <4>1. control' = <<>>
        BY <3>1, <2>1, <2>2, EmptyIffZero
      <4>2. backoff' = control[Len(control)]
        BY <3>1, <2>1, <2>2
      <4> QED BY <4>1, <4>2, <2>1 DEF LastWord, Wanted
    <3>2. CASE Len(control) # 1
      <4>1. Len(control') = Len(control) - 1 /\ Len(control') \in 1..Len(Tail(control))
        BY <3>2, <2>1, <2>2
      <4>2. control' # <<>>
        <5>1. control' \in Seq(Modes) /\ Len(control') # 0
          BY <4>1, <2>1, <2>2
        <5> QED BY <5>1, EmptyIffZero
      <4>3. control'[Len(control')] = control[(Len(control) - 1) + 1]
        BY <4>1, <2>1, <2>2
      <4>4. control'[Len(control')] = control[Len(control)]
        BY <4>3, <2>2
      <4> QED BY <4>2, <4>4, <2>1 DEF LastWord, Wanted
    <3> QED BY <3>1, <3>2
  <2> QED BY <2>1, <2>3, <1>0 DEF ShouldBe
<1>j. CASE UNCHANGED <<events, gate, control, backoff, arb>>
  BY <1>j, <1>0, SameWord DEF ShouldBe
<1> QED
  BY <1>a, <1>b, <1>c, <1>d, <1>e, <1>f, <1>g, <1>i, <1>j
  DEF Next, Dispatcher, Gate, Poller, InquiryDone, Fire, ConnectionsChange,
      Signal, ServeFails, ScannerStops, LastUnkeyDone, LastUnkeyTimesOut, vars

LEMMA LifeInvariant == Spec => []LifeInv
<1>1. Init => LifeInv
  BY LifeInit
<1>2. LifeInv /\ [Next]_vars => LifeInv'
  <2> SUFFICES ASSUME LifeInv, [Next]_vars PROVE LifeInv'
    OBVIOUS
  <2>1. TypeOK'
    BY LifeTypeNext DEF LifeInv
  <2>2. LineOK(line, arb)'
    BY LineNext
  <2>3. Booting' /\ Closing' /\ Ended' /\ CarrierIsArbiters'
    BY CarrierNext
  <2>4. (LastWord = ShouldBe)'
    BY WordNext
  <2> QED BY <2>1, <2>2, <2>3, <2>4 DEF LifeInv
<1> QED BY <1>1, <1>2, PTL DEF Spec

(* Startup unkey and one source of B: after the startup the carrier is up  *)
(* only during a hold of the arbiter, or for want of an E that was carried *)
(* out.                                                                    *)
THEOREM CarrierHasAHolder == Spec => []CarrierIsArbiters
<1>1. LifeInv => CarrierIsArbiters
  BY DEF LifeInv
<1> QED BY <1>1, LifeInvariant, PTL

(* Shutdown unkey: nothing follows main's E that could raise the carrier,  *)
(* so it is down for good once that E has been carried out.                *)
THEOREM ClosesUnkeyed == Spec => []UnkeyedAtClose
<1>1. LifeInv => UnkeyedAtClose
  <2>1. ASSUME LifeInv, lastE # "unsent"
        PROVE  \A i \in 1..Len(line) : line[i] \in {"inquiry", "mainE"}
    <3>1. arb = "down"
      BY <2>1 DEF LifeInv, Closing
    <3>2. NoArb(line)
      BY <2>1, <3>1, ArbIdle DEF LifeInv
    <3>3. \A i \in 1..Len(line) : line[i] \in Commands
      BY <2>1 DEF LifeInv, TypeOK
    <3> QED BY <3>2, <3>3 DEF NoArb, Commands, ArbCommands
  <2> QED BY <2>1 DEF LifeInv, Ended, UnkeyedAtClose
<1> QED BY <1>1, LifeInvariant, PTL

(* Whatever the capacities, and however many events were overwritten, a    *)
(* drained pipeline leaves the poller paused exactly during a hold.        *)
THEOREM GateSettles == Spec => []GateSettled
<1>1. LifeInv => GateSettled
  BY DEF LifeInv, GateSettled, LastWord, ShouldBe, TypeOK, Modes
<1> QED BY <1>1, LifeInvariant, PTL
=============================================================================
