---------------------------- MODULE PollSchedule ----------------------------
(***************************************************************************)
(* The poller's schedule (poller.rs): which inquiry poll_loop sends next,  *)
(* while cadences are changed and polling is throttled, paused, resumed.   *)
(* ServerLife shows when it is paused; this is what it does in between.    *)
(*                                                                         *)
(* Time is counted in ticks.  The loop awaits either its control channel   *)
(* and the next due time, or the radio.                                    *)
(***************************************************************************)
EXTENDS Integers

CONSTANTS Inquiries,   \* the inquiries there are
          Periods,     \* cadences, in ticks
          IdleFactor,  \* what BackoffMode::Idle multiplies them by: 10
          AgeBound,    \* bound: the clock stops when an inquiry is as old
          MaxControls  \* bound: control messages

Off == 0
None == "none"

ASSUME PollAssumption == /\ None \notin Inquiries
                         /\ Periods \subseteq Nat \ {0}
                         /\ IdleFactor \in Nat \ {0}
                         /\ AgeBound \in Nat /\ MaxControls \in Nat

VARIABLES schedules,  \* the cadence of each inquiry, Off if it is not in the map
          age,        \* ticks since last_fired
          backoff,    \* BackoffMode
          querying,   \* the inquiry the loop awaits the radio for, or None
          stopped,    \* the task has ended
          controls,   \* control messages so far
          passed      \* history: who has run while an inquiry has been due, since the last control

pollVars == <<schedules, age, backoff, querying, stopped, controls, passed>>

PollInit ==
    /\ schedules \in [Inquiries -> Periods]
    /\ age = [i \in Inquiries |-> 0]
    /\ backoff = "Normal"
    /\ querying = None
    /\ stopped = FALSE
    /\ controls = 0
    /\ passed = [i \in Inquiries |-> {}]

Scheduled == {i \in Inquiries : schedules[i] # Off}

Mult == IF backoff = "Idle" THEN IdleFactor ELSE 1

Effective(i) == schedules[i] * Mult

\* Time until an inquiry is due; negative if it is overdue.
Slack(i) == Effective(i) - age[i]

Due(i) == i \in Scheduled /\ Slack(i) <= 0

\* The loop is at its select.
Waiting == querying = None /\ ~stopped

\* Mutant: of those whose time has come, the one that is due most often.
NextDueBusiest(i) == i \in Scheduled /\ \A j \in Scheduled : Due(j) => schedules[i] <= schedules[j]

\* next_due_inquiry: an earliest one; ties go by the order of a hash map, which is arbitrary.
NextDue(i) == i \in Scheduled /\ \A j \in Scheduled : Slack(i) <= Slack(j)

\* Mutant: last_fired is not brought up to date.
FireKeepsClock(i) ==
    /\ Waiting
    /\ backoff # "Paused"
    /\ NextDue(i) /\ Due(i)
    /\ querying' = i
    /\ passed' = [k \in Inquiries |-> IF k # i /\ Due(k) THEN passed[k] \union {i} ELSE {}]
    /\ UNCHANGED <<schedules, age, backoff, stopped, controls>>

Fire(i) ==
    /\ Waiting
    /\ backoff # "Paused"
    /\ NextDue(i) /\ Due(i)
    /\ age' = [age EXCEPT ![i] = 0]
    /\ querying' = i
    /\ passed' = [k \in Inquiries |-> IF k # i /\ Due(k) THEN passed[k] \union {i} ELSE {}]
    /\ UNCHANGED <<schedules, backoff, stopped, controls>>

\* run_inquiry returns, with an answer or an error; either is broadcast.
Answered ==
    /\ querying # None
    /\ querying' = None
    /\ UNCHANGED <<schedules, age, backoff, stopped, controls, passed>>

\* The control channel comes first in the select, so a message may overtake a due inquiry.
Control ==
    /\ Waiting
    /\ controls < MaxControls /\ controls' = controls + 1
    /\ passed' = [i \in Inquiries |-> {}]
    /\ UNCHANGED <<querying, stopped>>

\* Known inquiries keep their last_fired.
SetCadence(i, period) ==
    /\ Control
    /\ schedules' = [schedules EXCEPT ![i] = period]
    /\ UNCHANGED <<age, backoff>>

\* Mutant: last_fired survives its schedule.
DisableKeepsClock(i) ==
    /\ Control
    /\ schedules' = [schedules EXCEPT ![i] = Off]
    /\ UNCHANGED <<age, backoff>>

Disable(i) ==
    /\ Control
    /\ schedules' = [schedules EXCEPT ![i] = Off]
    /\ age' = [age EXCEPT ![i] = 0]
    /\ UNCHANGED backoff

SetBackoff(mode) ==
    /\ Control
    /\ backoff' = mode
    /\ UNCHANGED <<schedules, age>>

\* The control handle is dropped.
Shutdown ==
    /\ Waiting
    /\ stopped' = TRUE
    /\ UNCHANGED <<schedules, age, backoff, querying, controls, passed>>

Tick ==
    /\ \A i \in Inquiries : age[i] < AgeBound
    /\ age' = [i \in Inquiries |-> IF i \in Scheduled THEN age[i] + 1 ELSE 0]
    /\ UNCHANGED <<schedules, backoff, querying, stopped, controls, passed>>

PollNext ==
    \/ \E i \in Inquiries : Fire(i)
    \/ Answered
    \/ \E i \in Inquiries, period \in Periods : SetCadence(i, period)
    \/ \E i \in Inquiries : Disable(i)
    \/ \E mode \in {"Normal", "Idle", "Paused"} : SetBackoff(mode)
    \/ Shutdown
    \/ Tick

PollSpec == PollInit /\ [][PollNext]_pollVars

PollFairness == /\ WF_pollVars(\E i \in Inquiries : Fire(i))
                /\ WF_pollVars(Answered)
                /\ WF_pollVars(Tick)

FairPollSpec == PollSpec /\ PollFairness

-----------------------------------------------------------------------------
(* An inquiry has a clock exactly as long as it has a cadence: `schedules` *)
(* and `last_fired` have the same keys.                                    *)
PollTypeOK ==
    /\ schedules \in [Inquiries -> Periods \union {Off}]
    /\ age \in [Inquiries -> 0..AgeBound]
    /\ \A i \in Inquiries : schedules[i] = Off => age[i] = 0
    /\ backoff \in {"Normal", "Idle", "Paused"}
    /\ querying \in Inquiries \union {None}
    /\ stopped \in BOOLEAN
    /\ controls \in 0..MaxControls
    /\ passed \in [Inquiries -> SUBSET Inquiries]

(* However long the radio takes, and however short a cadence is, an        *)
(* inquiry that is due is overtaken at most once by each other, until it   *)
(* runs or somebody changes the schedule: no inquiry is pushed aside by a  *)
(* busier one.                                                             *)
NoOvertaking ==
    [][\A j, k \in Inquiries :
          (Waiting /\ querying' = j /\ j # k /\ Due(k)) => j \notin passed[k]]_pollVars

(* Each inquiry runs again and again, unless it is disabled or polling is  *)
(* paused for good: the loop always comes back from the radio, a pause or  *)
(* an empty schedule.  (The clock stops at AgeBound, so how long one may   *)
(* be pushed aside is for NoOvertaking to say.)                            *)
EveryInquiryRuns ==
    \A i \in Inquiries :
        []<>(querying = i \/ i \notin Scheduled \/ backoff = "Paused" \/ stopped)
=============================================================================
