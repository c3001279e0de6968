------------------------------ MODULE Scanner ------------------------------
(***************************************************************************)
(* The library scanner of scan.rs: its actor with the select over commands,*)
(* squelch telemetry and a 50 ms ticker, the phases of step(), and the     *)
(* radio commands of a tune, during which the actor looks at nothing else. *)
(* The poller is there only as the source of squelch readings, whenever    *)
(* they come: it is slow at times, and paused while somebody transmits.    *)
(* The other handlers are there as those who may tune the radio away.      *)
(*                                                                         *)
(* Time is counted in ticks.  A reading is fresh if it was taken after the *)
(* tune of the channel the scanner is on, of a radio that was on it.       *)
(***************************************************************************)
EXTENDS Naturals

CONSTANTS N,          \* length of the longest channel list
          Untunable,  \* channels that Freq::new refuses
          Settle,     \* settle_ms
          Dwell,      \* dwell_ms
          TuneTicks   \* how long the commands of a tune may take

ASSUME ScannerAssumption == /\ N \in Nat \ {0}
                            /\ Untunable \subseteq 1..N
                            /\ {Settle, Dwell, TuneTicks} \subseteq Nat

VARIABLES running,    \* state is Some(ScanState)
          stopOnHit,  \* config.stop_on_hit
          len,        \* channels.len()
          idx,        \* the channel of the list, from 1
          phase,      \* Phase
          since,      \* ticks since phase_started, or since step() took `now`
          tuning,     \* step() awaits the radio
          tuneAge,    \* ticks the tune has taken
          due,        \* the ticker has a tick ready
          latest,     \* latest_squelch, and whether it is fresh
          inflight,   \* the last reading, if it has not reached the actor
          gap,        \* ticks since a squelch reading was taken
          onAir       \* the radio is on the channel the scanner believes it on

scanVars == <<running, stopOnHit, len, idx, phase>>
timeVars == <<since, tuneAge, due, gap>>
vars == <<running, stopOnHit, len, idx, phase, since, tuning, tuneAge, due,
          latest, inflight, gap, onAir>>

Phases   == {"NeedsTune", "Settling", "Dwelling"}
Readings == [open : BOOLEAN, fresh : BOOLEAN]
AgeCap   == Settle + Dwell + TuneTicks + 1

Aged(t)  == IF t < AgeCap THEN t + 1 ELSE t
Stale(r) == [r EXCEPT !.fresh = FALSE]

Init == /\ running = FALSE
        /\ stopOnHit = FALSE
        /\ len = 1
        /\ idx = 1
        /\ phase = "NeedsTune"
        /\ since = 0
        /\ tuning = FALSE
        /\ tuneAge = 0
        /\ due = FALSE
        /\ latest = [open |-> FALSE, fresh |-> FALSE]
        /\ inflight = {}
        /\ gap = 0
        /\ onAir = FALSE

-----------------------------------------------------------------------------
(* Commands. A Start of a list without tunable channels answers an error   *)
(* and leaves the scan that is running alone.                              *)
Start(n, stop) == /\ ~tuning
                  /\ running' = TRUE
                  /\ stopOnHit' = stop
                  /\ len' = n
                  /\ idx' = 1
                  /\ phase' = "NeedsTune"
                  /\ since' = 0
                  /\ UNCHANGED <<tuning, tuneAge, due, latest, inflight, gap, onAir>>

(* state = None: what it held does not matter any more.                    *)
End == /\ running' = FALSE
       /\ stopOnHit' = FALSE
       /\ len' = 1
       /\ idx' = 1
       /\ phase' = "NeedsTune"
       /\ since' = 0

Stop == /\ ~tuning
        /\ running
        /\ End
        /\ UNCHANGED <<tuning, tuneAge, due, latest, inflight, gap, onAir>>

(* Mutant: the end of the list is forgotten.                               *)
GoOnStraight(age) == /\ idx' = idx + 1
                     /\ phase' = "NeedsTune"
                     /\ since' = age
                     /\ UNCHANGED <<running, stopOnHit, len>>

(* On to the next channel, round the list.                                 *)
GoOn(age) == /\ idx' = (idx % len) + 1
             /\ phase' = "NeedsTune"
             /\ since' = age
             /\ UNCHANGED <<running, stopOnHit, len>>

Skip == /\ ~tuning
        /\ running
        /\ GoOn(0)
        /\ UNCHANGED <<tuning, tuneAge, due, latest, inflight, gap, onAir>>

-----------------------------------------------------------------------------
(* step(): one tick of a scan. The select is biased: a reading that has    *)
(* arrived is taken first.                                                 *)
(* Mutant: the ticker comes first, a reading that has arrived waits.       *)
TicksFirst == /\ ~tuning
              /\ due
              /\ due' = FALSE
              /\ UNCHANGED <<latest, inflight, gap, onAir>>

Ticks == /\ ~tuning
         /\ due
         /\ inflight = {}
         /\ due' = FALSE
         /\ UNCHANGED <<latest, inflight, gap, onAir>>

(* Mutant: the settle time counts from the phase before.                   *)
BeginTuneKeepsClock == /\ Ticks
                       /\ running
                       /\ phase = "NeedsTune"
                       /\ tuning' = TRUE
                       /\ tuneAge' = 0
                       /\ since' = since
                       /\ UNCHANGED scanVars

BeginTune == /\ Ticks
             /\ running
             /\ phase = "NeedsTune"
             /\ tuning' = TRUE
             /\ tuneAge' = 0
             /\ since' = 0
             /\ UNCHANGED scanVars

(* phase_started becomes the `now` of before the commands: since goes on.  *)
(* A command that the radio refused counts as sent: the radio may still be *)
(* where it was before.                                                    *)
Tuned == /\ tuning
         /\ idx \notin Untunable
         /\ tuning' = FALSE
         /\ tuneAge' = 0
         /\ phase' = "Settling"
         /\ latest' = Stale(latest)
         /\ inflight' = {Stale(r) : r \in inflight}
         /\ onAir' \in BOOLEAN
         /\ UNCHANGED <<running, stopOnHit, len, idx, since, due, gap>>

(* Mutant: the channel that cannot be tuned is tried again.                *)
TuneFailsStays == /\ tuning
                  /\ tuning' = FALSE
                  /\ tuneAge' = 0
                  /\ UNCHANGED <<scanVars, since, due, latest, inflight, gap,
                                  onAir>>

(* A channel that cannot be tuned, or a radio that does not answer.        *)
TuneFails == /\ tuning
             /\ tuning' = FALSE
             /\ tuneAge' = 0
             /\ GoOn(since)
             /\ UNCHANGED <<due, latest, inflight, gap, onAir>>

(* The decision about a channel.                                           *)
Decides == running /\ phase = "Settling" /\ since >= Settle

Miss == /\ Ticks
        /\ Decides
        /\ ~latest.open
        /\ GoOn(0)
        /\ UNCHANGED <<tuning, tuneAge>>

Hit == /\ Ticks
       /\ Decides
       /\ latest.open
       /\ \/ /\ stopOnHit
             /\ End
          \/ /\ ~stopOnHit
             /\ phase' = "Dwelling"
             /\ since' = 0
             /\ UNCHANGED <<running, stopOnHit, len, idx>>
       /\ UNCHANGED <<tuning, tuneAge>>

DwellOn == /\ Ticks
           /\ running
           /\ phase = "Dwelling"
           /\ latest.open
           /\ since' = 0
           /\ UNCHANGED <<scanVars, tuning, tuneAge>>

DwellOver == /\ Ticks
             /\ running
             /\ phase = "Dwelling"
             /\ ~latest.open
             /\ since >= Dwell
             /\ GoOn(0)
             /\ UNCHANGED <<tuning, tuneAge>>

Waits == \/ ~running
         \/ phase = "Settling" /\ since < Settle
         \/ phase = "Dwelling" /\ ~latest.open /\ since < Dwell

TickIdle == /\ Ticks
            /\ Waits
            /\ UNCHANGED <<scanVars, since, tuning, tuneAge>>

Step == BeginTune \/ Miss \/ Hit \/ DwellOn \/ DwellOver \/ TickIdle

-----------------------------------------------------------------------------
(* The poller reads the squelch, not twice in a tick; the reading then     *)
(* reaches the actor, unless a later one does.                             *)
Inquire(open) == /\ gap > 0
                 /\ inflight' = {[open |-> open, fresh |-> onAir]}
                 /\ gap' = 0
                 /\ UNCHANGED <<scanVars, since, tuning, tuneAge, due, latest,
                                onAir>>

(* A handler tunes the radio or recalls a preset, and the scanner does not *)
(* know.                                                                   *)
TunedAway == /\ onAir
             /\ onAir' = FALSE
             /\ UNCHANGED <<scanVars, timeVars, tuning, latest, inflight>>

Hear == /\ ~tuning
        /\ latest' \in inflight
        /\ inflight' = {}
        /\ UNCHANGED <<scanVars, timeVars, tuning, onAir>>

(* 50 ms pass. The actor runs between two ticks, a tune keeps its time.    *)
Clock == /\ tuning => tuneAge < TuneTicks
         /\ ~tuning => ~due /\ inflight = {}
         /\ since' = IF running THEN Aged(since) ELSE since
         /\ tuneAge' = IF tuning THEN tuneAge + 1 ELSE tuneAge
         /\ due' = TRUE
         /\ gap' = Aged(gap)
         /\ UNCHANGED <<scanVars, tuning, latest, inflight, onAir>>

-----------------------------------------------------------------------------
Command == \/ \E n \in 1..N, stop \in BOOLEAN : Start(n, stop)
           \/ Stop
           \/ Skip

Next == \/ Command
        \/ Step \/ Tuned \/ TuneFails \/ Hear
        \/ \E open \in BOOLEAN : Inquire(open)
        \/ TunedAway
        \/ Clock

Spec == Init /\ [][Next]_vars

(* The actor runs, time passes, and no channel of the tunable ones fails   *)
(* for ever. Readings need not come.                                       *)
Fairness == /\ WF_vars(Step)
            /\ WF_vars(Tuned \/ TuneFails)
            /\ \A c \in 1..N : SF_vars(Tuned /\ idx = c)
            /\ WF_vars(Hear)
            /\ WF_vars(Clock)

FairSpec == Spec /\ Fairness

-----------------------------------------------------------------------------
TypeOK == /\ running \in BOOLEAN
          /\ stopOnHit \in BOOLEAN
          /\ len \in 1..N
          /\ idx \in 1..len
          /\ phase \in Phases
          /\ since \in 0..AgeCap
          /\ tuning \in BOOLEAN
          /\ tuneAge \in 0..TuneTicks
          /\ due \in BOOLEAN
          /\ latest \in Readings
          /\ \E r \in Readings : inflight \subseteq {r}
          /\ gap \in 0..AgeCap
          /\ onAir \in BOOLEAN

(* The poller has not read the squelch since the tune was done, for all    *)
(* the clocks say: the tune takes TuneTicks of the time since the phase    *)
(* began, and the last reading is as old as the rest.                      *)
Unread == since <= TuneTicks + gap

(* A hit or a miss is decided by a reading of the channel it is about, not *)
(* of the one before, unless the radio is not on that channel at all (it   *)
(* refused the tune, or an operator tuned it away) or the settle time ends *)
(* before a reading of it was taken (scan.rs step, Settling, and the order *)
(* of the actor's select).                                                 *)
DecisionIsFresh ==
  [][Miss \/ Hit => latest.fresh \/ ~onAir \/ Unread]_vars

(* A scan goes round: once nobody gives commands any more, every channel   *)
(* of the list that can be tuned is tuned again and again, past those that *)
(* cannot, unless an open squelch holds the scan (scan.rs step).           *)
CommandsEnd == <>[][~Command]_vars

ScanGoesRound ==
  \A c \in (1..N) \ Untunable :
    CommandsEnd /\ <>[](running /\ c <= len)
      => []<>(phase = "Settling" /\ idx = c) \/ []<>(latest.open)
=============================================================================
