--------------------------- MODULE ScannerProofs ---------------------------
(***************************************************************************)
(* Proofs about the library scanner, and about the schedule of the poller  *)
(* whose readings it decides by.                                           *)
(***************************************************************************)
EXTENDS Scanner, PollSchedule, TLAPS

LEMMA Times == /\ N \in Nat \ {0}
               /\ Settle \in Nat /\ Dwell \in Nat
               /\ TuneTicks \in Nat
               /\ AgeCap \in Nat
               /\ AgeCap > TuneTicks
BY ScannerAssumption DEF AgeCap

LEMMA Aging == \A t \in 0..AgeCap : Aged(t) \in 0..AgeCap /\ Aged(t) <= t + 1
BY Times DEF Aged

LEMMA Staling == \A r \in Readings : /\ Stale(r) \in Readings
                                     /\ ~Stale(r).fresh
BY DEF Stale, Readings

(* Every state of the scanner is well typed, for any list, times and       *)
(* untunable channels (scan.rs ScanState).                                 *)
THEOREM ScannerTypeCorrect == Spec => []TypeOK
<1>1. Init => TypeOK
  <2> SUFFICES ASSUME Init PROVE TypeOK
    OBVIOUS
  <2>1. len \in 1..N /\ idx \in 1..len /\ since \in 0..AgeCap
    BY Times DEF Init
  <2>2. latest \in Readings
    BY DEF Init, Readings
  <2>3. \E r \in Readings : inflight \subseteq {r}
    BY <2>2 DEF Init
  <2>4. tuneAge \in 0..TuneTicks /\ gap \in 0..AgeCap
    BY Times DEF Init
  <2> QED
    BY <2>1, <2>2, <2>3, <2>4 DEF Init, TypeOK, Phases
<1>2. TypeOK /\ [Next]_vars => TypeOK'
  <2> SUFFICES ASSUME TypeOK, [Next]_vars PROVE TypeOK'
    OBVIOUS
  <2> USE Times DEF TypeOK, Phases
  <2>1. CASE \E n \in 1..N, stop \in BOOLEAN : Start(n, stop)
    BY <2>1 DEF Start
  <2>2. CASE Stop
    <3>1. len' \in 1..N /\ idx' \in 1..len' /\ since' \in 0..AgeCap
      BY <2>2 DEF Stop, End
    <3>2. tuneAge' \in 0..TuneTicks /\ gap' \in 0..AgeCap
      BY <2>2 DEF Stop, End
    <3> QED
      BY <2>2, <3>1, <3>2 DEF Stop, End
  <2>3. CASE Skip
    <3>1. len' \in 1..N /\ idx' \in 1..len' /\ since' \in 0..AgeCap
      BY <2>3 DEF Skip, GoOn
    <3>2. tuneAge' \in 0..TuneTicks /\ gap' \in 0..AgeCap
      BY <2>3 DEF Skip, GoOn
    <3> QED
      BY <2>3, <3>1, <3>2 DEF Skip, GoOn
  <2>4. CASE BeginTune
    <3>1. len' \in 1..N /\ idx' \in 1..len' /\ since' \in 0..AgeCap
      BY <2>4 DEF BeginTune, Ticks, scanVars
    <3>2. tuneAge' \in 0..TuneTicks /\ gap' \in 0..AgeCap
      BY <2>4 DEF BeginTune, Ticks, scanVars
    <3> QED
      BY <2>4, <3>1, <3>2 DEF BeginTune, Ticks, scanVars
  <2>5. CASE Miss
    <3>1. len' \in 1..N /\ idx' \in 1..len' /\ since' \in 0..AgeCap
      BY <2>5 DEF Miss, Ticks, GoOn
    <3>2. tuneAge' \in 0..TuneTicks /\ gap' \in 0..AgeCap
      BY <2>5 DEF Miss, Ticks, GoOn
    <3> QED
      BY <2>5, <3>1, <3>2 DEF Miss, Ticks, GoOn
  <2>6. CASE Hit
    <3>1. len' \in 1..N /\ idx' \in 1..len' /\ since' \in 0..AgeCap
      BY <2>6 DEF Hit, Ticks, End
    <3>2. tuneAge' \in 0..TuneTicks /\ gap' \in 0..AgeCap
      BY <2>6 DEF Hit, Ticks, End
    <3> QED
      BY <2>6, <3>1, <3>2 DEF Hit, Ticks, End
  <2>7. CASE DwellOn
    <3>1. len' \in 1..N /\ idx' \in 1..len' /\ since' \in 0..AgeCap
      BY <2>7 DEF DwellOn, Ticks, scanVars
    <3>2. tuneAge' \in 0..TuneTicks /\ gap' \in 0..AgeCap
      BY <2>7 DEF DwellOn, Ticks, scanVars
    <3> QED
      BY <2>7, <3>1, <3>2 DEF DwellOn, Ticks, scanVars
  <2>8. CASE DwellOver
    <3>1. len' \in 1..N /\ idx' \in 1..len' /\ since' \in 0..AgeCap
      BY <2>8 DEF DwellOver, Ticks, GoOn
    <3>2. tuneAge' \in 0..TuneTicks /\ gap' \in 0..AgeCap
      BY <2>8 DEF DwellOver, Ticks, GoOn
    <3> QED
      BY <2>8, <3>1, <3>2 DEF DwellOver, Ticks, GoOn
  <2>9. CASE TickIdle
    BY <2>9 DEF TickIdle, Ticks, scanVars
  <2>10. CASE Tuned
    <3>1. latest' \in Readings
      BY <2>10, Staling DEF Tuned
    <3>2. PICK r \in Readings : inflight \subseteq {r}
      OBVIOUS
    <3>3. Stale(r) \in Readings /\ inflight' \subseteq {Stale(r)}
      BY <2>10, <3>2, Staling DEF Tuned
    <3>4. since' \in 0..AgeCap /\ tuneAge' \in 0..TuneTicks
      BY <2>10 DEF Tuned
    <3>5. \E q \in Readings : inflight' \subseteq {q}
      BY <3>3
    <3> QED
      BY <2>10, <3>1, <3>4, <3>5 DEF Tuned
  <2>11. CASE TuneFails
    <3>1. len' \in 1..N /\ idx' \in 1..len' /\ since' \in 0..AgeCap
      BY <2>11 DEF TuneFails, GoOn
    <3>2. tuneAge' \in 0..TuneTicks
      BY <2>11 DEF TuneFails
    <3> QED
      BY <2>11, <3>1, <3>2 DEF TuneFails, GoOn
  <2>12. CASE Hear
    <3>1. len' \in 1..N /\ idx' \in 1..len' /\ since' \in 0..AgeCap
      BY <2>12 DEF Hear, scanVars, timeVars
    <3>2. tuneAge' \in 0..TuneTicks /\ gap' \in 0..AgeCap
      BY <2>12 DEF Hear, scanVars, timeVars
    <3> QED
      BY <2>12, <3>1, <3>2 DEF Hear, scanVars, timeVars
  <2>13. CASE \E open \in BOOLEAN : Inquire(open)
    <3>1. PICK open \in BOOLEAN : Inquire(open)
      BY <2>13
    <3>2. [open |-> open, fresh |-> onAir] \in Readings
      BY DEF Readings
    <3>3. \E r \in Readings : inflight' \subseteq {r}
      BY <3>1, <3>2 DEF Inquire
    <3>4. gap' \in 0..AgeCap
      BY <3>1 DEF Inquire
    <3> QED
      BY <3>1, <3>3, <3>4 DEF Inquire, scanVars
  <2>14. CASE Clock
    <3>1. len' \in 1..N /\ idx' \in 1..len' /\ since' \in 0..AgeCap
      BY <2>14, Aging DEF Clock, scanVars
    <3>2. tuneAge' \in 0..TuneTicks /\ gap' \in 0..AgeCap
      BY <2>14, Aging DEF Clock, scanVars
    <3> QED
      BY <2>14, <3>1, <3>2 DEF Clock, scanVars
  <2>15. CASE TunedAway
    BY <2>15 DEF TunedAway, scanVars, timeVars
  <2>16. CASE UNCHANGED vars
    BY <2>16 DEF vars
  <2> QED
    BY <2>1, <2>2, <2>3, <2>4, <2>5, <2>6, <2>7, <2>8, <2>9, <2>10, <2>11,
       <2>12, <2>13, <2>14, <2>15, <2>16 DEF Next, Command, Step
<1> QED
  BY <1>1, <1>2, PTL DEF Spec

-----------------------------------------------------------------------------
(* Readings arrive in order: what is on its way is not older than what has *)
(* arrived.                                                                *)
InOrder == onAir /\ latest.fresh => \A r \in inflight : r.fresh

(* The clock of a tune is the clock of its phase.                          *)
TuneClock == tuning => running /\ phase = "NeedsTune" /\ since = tuneAge

(* As long as no reading of the channel has come, little time has passed.  *)
NoNews == /\ onAir /\ running /\ phase = "Settling"
          /\ \A r \in {latest} \cup inflight : ~r.fresh

NoNewsSoon == NoNews => Unread

FreshInv == InOrder /\ TuneClock /\ NoNewsSoon

(* Whatever the settle time, the time a tune takes and the pauses of the   *)
(* poller: a hit or a miss is decided by a reading of the channel it is    *)
(* about, unless the radio is not on it or no reading has been taken since *)
(* the tune (scan.rs step, Settling).                                      *)
THEOREM DecidesFresh == Spec => DecisionIsFresh
<1>1. Init => FreshInv
  <2> SUFFICES ASSUME Init PROVE FreshInv
    OBVIOUS
  <2>1. InOrder
    BY DEF Init, InOrder
  <2>2. TuneClock
    BY DEF Init, TuneClock
  <2>3. NoNewsSoon
    BY DEF Init, NoNewsSoon, NoNews
  <2> QED
    BY <2>1, <2>2, <2>3 DEF FreshInv
<1>2. TypeOK /\ TypeOK' /\ FreshInv /\ [Next]_vars => FreshInv'
  <2> SUFFICES ASSUME TypeOK, TypeOK', FreshInv, [Next]_vars PROVE FreshInv'
    OBVIOUS
  <2>1. CASE \E n \in 1..N, stop \in BOOLEAN : Start(n, stop)
    <3>1. InOrder'
      BY <2>1 DEF Start, FreshInv, InOrder
    <3>2. TuneClock'
      BY <2>1 DEF Start, FreshInv, TuneClock
    <3>3. phase' # "Settling"
      BY <2>1 DEF Start
    <3>4. NoNewsSoon'
      BY <3>3 DEF NoNewsSoon, NoNews, Unread
    <3> QED
      BY <3>1, <3>2, <3>4 DEF FreshInv
  <2>2. CASE Stop
    <3>1. InOrder'
      BY <2>2 DEF Stop, End, FreshInv, InOrder
    <3>2. TuneClock'
      BY <2>2 DEF Stop, End, FreshInv, TuneClock
    <3>3. phase' # "Settling"
      BY <2>2 DEF Stop, End
    <3>4. NoNewsSoon'
      BY <3>3 DEF NoNewsSoon, NoNews, Unread
    <3> QED
      BY <3>1, <3>2, <3>4 DEF FreshInv
  <2>3. CASE Skip
    <3>1. InOrder'
      BY <2>3 DEF Skip, GoOn, FreshInv, InOrder
    <3>2. TuneClock'
      BY <2>3 DEF Skip, GoOn, FreshInv, TuneClock
    <3>3. phase' # "Settling"
      BY <2>3 DEF Skip, GoOn
    <3>4. NoNewsSoon'
      BY <3>3 DEF NoNewsSoon, NoNews, Unread
    <3> QED
      BY <3>1, <3>2, <3>4 DEF FreshInv
  <2>4. CASE BeginTune
    <3>1. InOrder'
      BY <2>4 DEF BeginTune, Ticks, scanVars, FreshInv, InOrder
    <3>2. TuneClock'
      BY <2>4 DEF BeginTune, Ticks, scanVars, FreshInv, TuneClock
    <3>4. NoNewsSoon'
      BY <2>4 DEF BeginTune, Ticks, scanVars, FreshInv, NoNewsSoon, NoNews, Unread
    <3> QED
      BY <3>1, <3>2, <3>4 DEF FreshInv
  <2>5. CASE Miss
    <3>1. InOrder'
      BY <2>5 DEF Miss, Ticks, GoOn, FreshInv, InOrder
    <3>2. TuneClock'
      BY <2>5 DEF Miss, Ticks, GoOn, FreshInv, TuneClock
    <3>3. phase' # "Settling"
      BY <2>5 DEF Miss, Ticks, GoOn
    <3>4. NoNewsSoon'
      BY <3>3 DEF NoNewsSoon, NoNews, Unread
    <3> QED
      BY <3>1, <3>2, <3>4 DEF FreshInv
  <2>6. CASE Hit
    <3>1. InOrder'
      BY <2>6 DEF Hit, Ticks, End, FreshInv, InOrder
    <3>2. TuneClock'
      BY <2>6 DEF Hit, Ticks, End, FreshInv, TuneClock
    <3>3. phase' # "Settling"
      BY <2>6 DEF Hit, Ticks, End
    <3>4. NoNewsSoon'
      BY <3>3 DEF NoNewsSoon, NoNews, Unread
    <3> QED
      BY <3>1, <3>2, <3>4 DEF FreshInv
  <2>7. CASE DwellOn
    <3>1. InOrder'
      BY <2>7 DEF DwellOn, Ticks, scanVars, FreshInv, InOrder
    <3>2. TuneClock'
      BY <2>7 DEF DwellOn, Ticks, scanVars, FreshInv, TuneClock
    <3>4. NoNewsSoon'
      BY <2>7 DEF DwellOn, Ticks, scanVars, FreshInv, NoNewsSoon, NoNews, Unread
    <3> QED
      BY <3>1, <3>2, <3>4 DEF FreshInv
  <2>8. CASE DwellOver
    <3>1. InOrder'
      BY <2>8 DEF DwellOver, Ticks, GoOn, FreshInv, InOrder
    <3>2. TuneClock'
      BY <2>8 DEF DwellOver, Ticks, GoOn, FreshInv, TuneClock
    <3>3. phase' # "Settling"
      BY <2>8 DEF DwellOver, Ticks, GoOn
    <3>4. NoNewsSoon'
      BY <3>3 DEF NoNewsSoon, NoNews, Unread
    <3> QED
      BY <3>1, <3>2, <3>4 DEF FreshInv
  <2>9. CASE TickIdle
    <3>1. InOrder'
      BY <2>9 DEF TickIdle, Ticks, scanVars, FreshInv, InOrder
    <3>2. TuneClock'
      BY <2>9 DEF TickIdle, Ticks, scanVars, FreshInv, TuneClock
    <3>4. NoNewsSoon'
      BY <2>9 DEF TickIdle, Ticks, scanVars, FreshInv, NoNewsSoon, NoNews, Unread
    <3> QED
      BY <3>1, <3>2, <3>4 DEF FreshInv
  <2>10. CASE Tuned
    <3>1. ~latest'.fresh
      BY <2>10, Staling DEF Tuned, TypeOK
    <3>2. InOrder'
      BY <3>1 DEF InOrder
    <3>3. TuneClock'
      BY <2>10 DEF Tuned, TuneClock
    <3>4. Unread'
      BY <2>10, Times DEF Unread, Tuned, TypeOK, FreshInv, TuneClock
    <3>5. NoNewsSoon'
      BY <3>4 DEF NoNewsSoon
    <3> QED
      BY <3>2, <3>3, <3>5 DEF FreshInv
  <2>11. CASE TuneFails
    <3>1. InOrder'
      BY <2>11 DEF TuneFails, GoOn, FreshInv, InOrder
    <3>2. TuneClock'
      BY <2>11 DEF TuneFails, GoOn, FreshInv, TuneClock
    <3>3. phase' # "Settling"
      BY <2>11 DEF TuneFails, GoOn
    <3>4. NoNewsSoon'
      BY <3>3 DEF NoNewsSoon, NoNews, Unread
    <3> QED
      BY <3>1, <3>2, <3>4 DEF FreshInv
  <2>12. CASE Hear
    <3>1. InOrder'
      BY <2>12 DEF Hear, scanVars, timeVars, FreshInv, InOrder
    <3>2. TuneClock'
      BY <2>12 DEF Hear, scanVars, timeVars, FreshInv, TuneClock
    <3>4. NoNewsSoon'
      <4>1. SUFFICES ASSUME NoNews' PROVE Unread'
        BY DEF NoNewsSoon
      <4>2. inflight = {latest'} /\ ~latest'.fresh
        BY <2>12, <4>1 DEF Hear, NoNews, TypeOK
      <4>3. ~latest.fresh
        BY <2>12, <4>1, <4>2 DEF Hear, NoNews, FreshInv, InOrder
      <4>4. NoNews
        BY <2>12, <4>1, <4>2, <4>3 DEF Hear, scanVars, NoNews
      <4> QED
        BY <2>12, <4>4 DEF Hear, timeVars, FreshInv, NoNewsSoon, Unread
    <3> QED
      BY <3>1, <3>2, <3>4 DEF FreshInv
  <2>13. CASE \E open \in BOOLEAN : Inquire(open)
    <3>1. InOrder'
      BY <2>13 DEF Inquire, scanVars, FreshInv, InOrder
    <3>2. TuneClock'
      BY <2>13 DEF Inquire, scanVars, FreshInv, TuneClock
    <3>4. NoNewsSoon'
      BY <2>13 DEF Inquire, scanVars, FreshInv, NoNewsSoon, NoNews, Unread
    <3> QED
      BY <3>1, <3>2, <3>4 DEF FreshInv
  <2>14. CASE Clock
    <3>1. InOrder'
      BY <2>14 DEF Clock, FreshInv, InOrder
    <3>2. TuneClock'
      BY <2>14, Times DEF Clock, scanVars, Aged, TypeOK, FreshInv, TuneClock
    <3>3. Unread => Unread'
      <4>1. since' <= since + 1 /\ since' \in 0..AgeCap
        BY <2>14, Aging, Times DEF Clock, TypeOK
      <4>2. gap' = gap + 1 \/ gap' = AgeCap
        BY <2>14, Times DEF Clock, TypeOK, Aged
      <4>3. gap \in Nat /\ since \in Nat /\ AgeCap \in Nat /\ TuneTicks \in Nat
        BY Times DEF TypeOK
      <4>4. CASE gap' = gap + 1
        BY <4>1, <4>3, <4>4 DEF Unread
      <4>5. CASE gap' = AgeCap
        BY <4>1, <4>3, <4>5 DEF Unread
      <4> QED
        BY <4>2, <4>4, <4>5
    <3>4. NoNewsSoon'
      BY <2>14, <3>3 DEF Clock, scanVars, FreshInv, NoNewsSoon, NoNews, Unread
    <3> QED
      BY <3>1, <3>2, <3>4 DEF FreshInv
  <2>15. CASE TunedAway
    <3>1. InOrder'
      BY <2>15 DEF TunedAway, scanVars, timeVars, FreshInv, InOrder
    <3>2. TuneClock'
      BY <2>15 DEF TunedAway, scanVars, timeVars, FreshInv, TuneClock
    <3>4. NoNewsSoon'
      BY <2>15 DEF TunedAway, scanVars, timeVars, FreshInv, NoNewsSoon, NoNews, Unread
    <3> QED
      BY <3>1, <3>2, <3>4 DEF FreshInv
  <2>16. CASE UNCHANGED vars
    <3>1. InOrder'
      BY <2>16 DEF vars, FreshInv, InOrder
    <3>2. TuneClock'
      BY <2>16 DEF vars, FreshInv, TuneClock
    <3>4. NoNewsSoon'
      BY <2>16 DEF vars, FreshInv, NoNewsSoon, NoNews, Unread
    <3> QED
      BY <3>1, <3>2, <3>4 DEF FreshInv
  <2> QED
    BY <2>1, <2>2, <2>3, <2>4, <2>5, <2>6, <2>7, <2>8, <2>9, <2>10, <2>11,
       <2>12, <2>13, <2>14, <2>15, <2>16 DEF Next, Command, Step
<1>3. TypeOK /\ FreshInv /\ [Next]_vars
        => [Miss \/ Hit => latest.fresh \/ ~onAir \/ Unread]_vars
  BY DEF TypeOK, FreshInv, NoNewsSoon, NoNews, Miss, Hit, Ticks, Decides
<1> QED
  BY <1>1, <1>2, <1>3, ScannerTypeCorrect, PTL DEF Spec, DecisionIsFresh

-----------------------------------------------------------------------------
(* The poller's schedule stays well-typed, and no inquiry is overtaken     *)
(* twice by the same one while it is due.                                  *)

LEMMA PeriodsPositive == \A p \in Periods : p \in Int /\ p > 0
BY PollAssumption

(* The schedule stays well-typed: an inquiry without a cadence has no      *)
(* clock (poller.rs, apply_control).                                       *)
THEOREM PollTypeCorrect == PollSpec => []PollTypeOK
<1>1. PollInit => PollTypeOK
  <2> SUFFICES ASSUME PollInit PROVE PollTypeOK
    OBVIOUS
  <2>1. \A i \in Inquiries : schedules[i] # Off
    BY PollAssumption DEF PollInit, Off
  <2>2. 0 \in 0..AgeBound /\ controls \in 0..MaxControls
    BY PollAssumption DEF PollInit
  <2>3. age \in [Inquiries -> 0..AgeBound]
    BY <2>2 DEF PollInit
  <2>4. schedules \in [Inquiries -> Periods \union {Off}]
    BY DEF PollInit
  <2> QED
    BY <2>1, <2>2, <2>3, <2>4 DEF PollInit, PollTypeOK
<1>2. PollTypeOK /\ [PollNext]_pollVars => PollTypeOK'
  <2> SUFFICES ASSUME PollTypeOK, [PollNext]_pollVars PROVE PollTypeOK'
    OBVIOUS
  <2> USE DEF PollTypeOK
  <2>1. ASSUME NEW i \in Inquiries, Fire(i) PROVE PollTypeOK'
    BY <2>1, PollAssumption DEF Fire
  <2>2. ASSUME Answered PROVE PollTypeOK'
    BY <2>2 DEF Answered
  <2>3. ASSUME NEW i \in Inquiries, NEW period \in Periods, SetCadence(i, period) PROVE PollTypeOK'
    BY <2>3, PollAssumption DEF SetCadence, Control, Off
  <2>4. ASSUME NEW i \in Inquiries, Disable(i) PROVE PollTypeOK'
    BY <2>4, PollAssumption DEF Disable, Control, Off
  <2>5. ASSUME NEW mode \in {"Normal", "Idle", "Paused"}, SetBackoff(mode) PROVE PollTypeOK'
    BY <2>5, PollAssumption DEF SetBackoff, Control
  <2>6. ASSUME Shutdown PROVE PollTypeOK'
    BY <2>6 DEF Shutdown
  <2>7. ASSUME Tick PROVE PollTypeOK'
    BY <2>7, PollAssumption DEF Tick, Scheduled
  <2>8. ASSUME UNCHANGED pollVars PROVE PollTypeOK'
    BY <2>8 DEF pollVars
  <2> QED
    BY <2>1, <2>2, <2>3, <2>4, <2>5, <2>6, <2>7, <2>8 DEF PollNext
<1> QED
  BY <1>1, <1>2, PTL DEF PollSpec

-----------------------------------------------------------------------------
(* Whoever has overtaken an inquiry has more time left than it.            *)
PassedInv ==
    \A k \in Inquiries : \A j \in passed[k] :
        j # k /\ {j, k} \subseteq Scheduled /\ Slack(k) < Slack(j)

(* A scheduled inquiry that has just run is not due.                       *)
LEMMA EffectivePositive ==
    ASSUME PollTypeOK, NEW i \in Scheduled
    PROVE  Effective(i) \in Int /\ Effective(i) > 0
<1>1. schedules[i] \in Int /\ schedules[i] > 0
  <2>1. i \in Inquiries /\ schedules[i] # 0 /\ schedules \in [Inquiries -> Periods \union {0}]
    BY DEF PollTypeOK, Scheduled, Off
  <2>2. schedules[i] \in Periods
    BY <2>1
  <2> QED
    BY <2>2, PeriodsPositive
<1>2. Mult \in Int /\ Mult > 0
  BY PollAssumption DEF Mult
<1>3. \A a, b \in Int : a > 0 /\ b > 0 => a * b \in Int /\ a * b > 0
  <2> SUFFICES ASSUME NEW a \in Int, NEW b \in Int, a > 0, b > 0
               PROVE  a * b \in Int /\ a * b > 0
    OBVIOUS
  <2> QED
    BY Z3
<1> QED
  BY <1>1, <1>2, <1>3 DEF Effective

LEMMA PassedStep == PollTypeOK /\ PassedInv /\ [PollNext]_pollVars => PassedInv'
<1> SUFFICES ASSUME PollTypeOK, PassedInv, [PollNext]_pollVars PROVE PassedInv'
  OBVIOUS
<1>1. ASSUME NEW i \in Inquiries, Fire(i) PROVE PassedInv'
  <2> SUFFICES ASSUME NEW k \in Inquiries, NEW j \in passed'[k]
               PROVE  /\ j # k
                      /\ {j, k} \subseteq Scheduled'
                      /\ Slack(k)' < Slack(j)'
    BY DEF PassedInv
  <2>1. k # i /\ Due(k) /\ (j \in passed[k] \/ j = i) /\ j \in Inquiries
    BY <1>1 DEF Fire, PollTypeOK
  <2>2. Scheduled' = Scheduled /\ i \in Scheduled /\ k \in Scheduled
    BY <1>1, <2>1 DEF Fire, Scheduled, NextDue, Due
  <2>3. \A m \in Inquiries : Effective(m)' = Effective(m)
    BY <1>1 DEF Fire, Effective, Mult
  <2>4. Slack(i)' = Effective(i)
    BY <1>1, <2>2, <2>3, EffectivePositive DEF Fire, Slack, PollTypeOK
  <2>5. \A m \in Inquiries \ {i} : Slack(m)' = Slack(m)
    BY <1>1, <2>3 DEF Fire, Slack, PollTypeOK
  <2>6. CASE j = i
    BY <2>6, <2>1, <2>2, <2>4, <2>5, EffectivePositive DEF Due, Slack, PollTypeOK
  <2>7. CASE j # i
    BY <2>7, <2>1, <2>2, <2>5 DEF PassedInv
  <2> QED
    BY <2>6, <2>7
<1>2. ASSUME Tick PROVE PassedInv'
  <2>1. Scheduled' = Scheduled /\ passed' = passed
    BY <1>2 DEF Tick, Scheduled
  <2>2. \A m \in Scheduled : Slack(m) \in Int /\ Slack(m)' = Slack(m) - 1
    <3> SUFFICES ASSUME NEW m \in Scheduled PROVE Slack(m) \in Int /\ Slack(m)' = Slack(m) - 1
      OBVIOUS
    <3>1. Effective(m)' = Effective(m)
      BY <1>2 DEF Tick, Effective, Mult
    <3>2. age'[m] = age[m] + 1 /\ age[m] \in Int
      BY <1>2 DEF Tick, Scheduled, PollTypeOK
    <3> QED
      BY <3>1, <3>2, EffectivePositive DEF Slack
  <2> QED
    BY <2>1, <2>2 DEF PassedInv
<1>3. ASSUME Answered \/ Shutdown \/ UNCHANGED pollVars PROVE PassedInv'
  BY <1>3 DEF Answered, Shutdown, pollVars, PassedInv, Scheduled, Slack, Effective, Mult
<1>4. ASSUME Control PROVE PassedInv'
  BY <1>4 DEF Control, PassedInv
<1> QED
  BY <1>1, <1>2, <1>3, <1>4 DEF PollNext, SetCadence, Disable, SetBackoff

(* An inquiry that is due is overtaken at most once by each other          *)
(* (poller.rs, next_due_inquiry), for any cadences and any number of them. *)
THEOREM FairTurns == PollSpec => NoOvertaking
<1>1. PollInit => PassedInv
  BY DEF PollInit, PassedInv
<1>2. PollTypeOK /\ PassedInv /\ [PollNext]_pollVars =>
        [\A j, k \in Inquiries :
          (Waiting /\ querying' = j /\ j # k /\ Due(k)) => j \notin passed[k]]_pollVars
  <2> SUFFICES ASSUME PollTypeOK, PassedInv, PollNext,
                      NEW j \in Inquiries, NEW k \in Inquiries,
                      Waiting, querying' = j, j # k, Due(k), j \in passed[k]
               PROVE  FALSE
    BY DEF pollVars
  <2>1. Fire(j)
    BY PollAssumption DEF PollNext, Fire, Answered, SetCadence, Disable, SetBackoff, Control,
                          Shutdown, Tick, Waiting
  <2>2. Slack(j) <= Slack(k)
    BY <2>1 DEF Fire, NextDue, Due
  <2>3. Slack(k) < Slack(j) /\ Slack(j) \in Int /\ Slack(k) \in Int
    BY EffectivePositive DEF PassedInv, Slack, PollTypeOK
  <2> QED
    BY <2>2, <2>3
<1> QED
  BY <1>1, <1>2, PassedStep, PollTypeCorrect, PTL DEF PollSpec, NoOvertaking
=============================================================================
