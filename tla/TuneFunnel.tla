----------------------------- MODULE TuneFunnel -----------------------------
(***************************************************************************)
(* Who writes the radio's presets: the HTTP handlers of commands.rs and    *)
(* channels.rs, each a task of its own, the funnel tune_via_scratch they   *)
(* tune through (tune.rs), the scanner's tune_for_scan (scan.rs), and PTT. *)
(*                                                                         *)
(* Every command is one Radio::send, which the dispatcher serialises; two  *)
(* tasks interleave between their commands.  The radio is modelled after   *)
(* tune.rs: a preset recall loads a slot's EEPROM into RAM, R, T and M     *)
(* change RAM, Q stores RAM in the active slot, and every transmission     *)
(* begins with a recall of the active slot.                                *)
(***************************************************************************)
EXTENDS Integers

CONSTANTS Handlers,      \* HTTP requests in progress at the same time
          Scanner,       \* the scanner's task
          Slots,         \* preset slots, 0..9
          Scratch,       \* scratch_preset
          Channels,      \* a channel: a receive and a transmit frequency, a mode
          Library,       \* the channels that are tuned to
          Split,         \* channels whose TX lies outside the band of their RX
          NoMode,        \* channels that leave the modulation alone
          Factory        \* what the slots hold at first

Tasks    == Handlers \cup {Scanner}
Kinds == {"tune", "save", "preset", "store", "mod"}
Stages   == {"P", "R", "T", "M", "Q"}

(* What a slot, or RAM, holds: which channel each part was taken from.     *)
Tuned    == [rx : Channels, tx : Channels, mode : Channels]
Jobs     == [kind : Kinds \cup {"scan"}, slot : Slots, ch : Channels]

(* What may become of a command: the radio takes it and says so, refuses   *)
(* it, or the answer is lost, with or without the command.                 *)
Outcomes == {[reply |-> "ok",  exec |-> TRUE],  [reply |-> "nak", exec |-> FALSE],
             [reply |-> "err", exec |-> TRUE],  [reply |-> "err", exec |-> FALSE]}

(* What may come between the commands of a handler: its recall is refused; *)
(* another's recall parks the radio on another slot; RAM is changed by     *)
(* another's command, or by PTT.                                           *)
Events   == {"refused", "moved", "disturbed"}

ASSUME FunnelAssumption ==
  /\ Scanner \notin Handlers
  /\ Slots \subseteq 0..9 /\ Scratch \in Slots
  /\ Library \subseteq Channels
  /\ Split \subseteq Channels /\ NoMode \subseteq Channels
  /\ Factory \in [Slots -> Tuned]

VARIABLES
  active,   \* the slot the radio is parked on
  ram,      \* what it is tuned to
  eeprom,   \* what its slots hold
  job,      \* per task: the request it serves
  at,       \* per task: the command it sends next, or "idle"
  clean,    \* per handler: every command of its request was accepted, so far
            \* or at the end
  met       \* history, per handler: the events since its recall, or since its
            \* request ended

vars  == <<active, ram, eeprom, job, at, clean, met>>
radio == <<active, ram, eeprom>>

TypeOK ==
  /\ active \in Slots
  /\ ram \in Tuned
  /\ eeprom \in [Slots -> Tuned]
  /\ job \in [Tasks -> Jobs]
  /\ at \in [Tasks -> Stages \cup {"idle"}]
  /\ clean \in [Handlers -> BOOLEAN]
  /\ met \in [Handlers -> SUBSET Events]

(* A task that serves no request.                                          *)
Filler == Factory[Scratch].rx
NoJob  == [kind |-> "scan", slot |-> Scratch, ch |-> Filler]

Init ==
  /\ active \in Slots
  /\ ram = Factory[active]
  /\ eeprom = Factory
  /\ job = [t \in Tasks |-> NoJob]
  /\ at = [t \in Tasks |-> "idle"]
  /\ clean = [h \in Handlers |-> FALSE]
  /\ met = [h \in Handlers |-> {}]

-----------------------------------------------------------------------------
(* The commands of a request, in order.                                    *)

First(k) == CASE k \in {"tune", "save", "preset"} -> "P"
              [] k = "scan"                       -> "R"
              [] k = "mod"                        -> "M"
              [] k = "store"                      -> "Q"

Sequence(k) == k \in {"tune", "save"}

(* Mutant: the tune is not stored.                                         *)
AfterUnstored(j, s) ==
  CASE Sequence(j.kind) /\ s = "P" -> "R"
    [] Sequence(j.kind) /\ s = "R" -> "T"
    [] Sequence(j.kind) /\ s = "T" /\ j.ch \notin NoMode -> "M"
    [] OTHER -> "idle"

After(j, s) ==
  CASE Sequence(j.kind) /\ s = "P" -> "R"
    [] Sequence(j.kind) /\ s = "R" -> "T"
    [] j.kind = "scan" /\ s = "R" -> "T"
    [] (Sequence(j.kind) \/ j.kind = "scan") /\ s = "T" /\ j.ch \notin NoMode -> "M"
    [] Sequence(j.kind) /\ s = "T" /\ j.ch \in NoMode -> "Q"
    [] Sequence(j.kind) /\ s = "M" -> "Q"
    [] OTHER -> "idle"

(* What is asked for: a tune goes to the scratch slot, a save to another that   *)
(* the operator names, a store to whatever slot is active.  A channel      *)
(* Freq::new rejects for one of its frequencies sends nothing.             *)
Orders ==
       [kind : {"tune"}, slot : {Scratch}, ch : Library \ Split]
  \cup [kind : {"save"}, slot : Slots \ {Scratch}, ch : Library \ Split]
  \cup [kind : {"preset"}, slot : Slots, ch : {Filler}]
  \cup [kind : {"store"}, slot : {Scratch}, ch : {Filler}]
  \cup [kind : {"mod"}, slot : {Scratch}, ch : Library \ NoMode]

(* Mutant: target_preset is not validated.                                 *)
RequestAnySlot(h) ==
  /\ at[h] = "idle"
  /\ \E r \in Orders, s \in 0..10 :
       /\ job' = [job EXCEPT ![h] = [r EXCEPT !.slot = s]]
       /\ at' = [at EXCEPT ![h] = First(r.kind)]
  /\ clean' = [clean EXCEPT ![h] = TRUE]
  /\ met' = [met EXCEPT ![h] = {}]
  /\ UNCHANGED radio

(* post_tune, tune_channel, post_preset, post_store and post_mod.          *)
Request(h) ==
  /\ at[h] = "idle"
  /\ \E r \in Orders :
       /\ job' = [job EXCEPT ![h] = r]
       /\ at' = [at EXCEPT ![h] = First(r.kind)]
  /\ clean' = [clean EXCEPT ![h] = TRUE]
  /\ met' = [met EXCEPT ![h] = {}]
  /\ UNCHANGED radio

(* One NeedsTune step of the scanner; it validates TX only after R.        *)
ScanStep ==
  /\ at[Scanner] = "idle"
  /\ \E c \in Library :
       job' = [job EXCEPT ![Scanner] = [kind |-> "scan", slot |-> Scratch, ch |-> c]]
  /\ at' = [at EXCEPT ![Scanner] = "R"]
  /\ UNCHANGED <<radio, clean, met>>

-----------------------------------------------------------------------------
(* What the radio does with a command it accepts.                          *)
Execute(s, j) ==
  /\ active' = IF s = "P" THEN j.slot ELSE active
  /\ ram' = CASE s = "P" -> eeprom[j.slot]
              [] s = "R" -> [ram EXCEPT !.rx = j.ch]
              [] s = "T" -> [ram EXCEPT !.tx = j.ch]
              [] s = "M" -> [ram EXCEPT !.mode = j.ch]
              [] OTHER   -> ram
  /\ eeprom' = IF s = "Q" THEN [eeprom EXCEPT ![active] = ram] ELSE eeprom

(* A reply, NAK or not, moves on; an error ends the sequence, and so does  *)
(* a TX frequency the scanner finds out of band.                           *)
Fails(t, o) == \/ o.reply = "err"
               \/ job[t].kind = "scan" /\ at[t] = "R" /\ job[t].ch \in Split

(* Mutant: an error does not end the sequence.                             *)
NextAnyway(t, o) == After(job[t], at[t])

(* What a task does after a command.                                       *)
Continue(t, o) == IF Fails(t, o) THEN "idle" ELSE After(job[t], at[t])

(* Mutant: a NAK is not reported.                                          *)
CleanUnreported(h, o) == clean[h] /\ ~Fails(h, o)

(* Whether a handler can still report that every stage was accepted.       *)
Clean(h, o) == clean[h] /\ ~Fails(h, o) /\ o.reply # "nak"

(* History.  A handler's own recall is refused, or gives it the slot.  What*)
(* another task's command does matters to it between its P and its Q, and  *)
(* once it has answered; so does the change of a bare M, its own too.      *)
Within(h)  == Sequence(job[h].kind) /\ at[h] \in {"R", "T", "M", "Q"}
Retunes(t) == at[t] \in {"R", "T", "M"}

Effect(h, t) == {e \in Events :
  \/ e = "moved" /\ Within(h) /\ at[t] = "P" /\ job[t].slot # active
  \/ e = "disturbed" /\ Within(h) /\ (Retunes(t) \/ at[t] = "P")
  \/ e = "disturbed" /\ at[h] = "idle" /\ Retunes(t)}

Notice(t, o) ==
  met' = [h \in Handlers |->
            CASE h # t -> IF o.exec THEN met[h] \cup Effect(h, t) ELSE met[h]
              [] h = t /\ at'[h] = "idle" ->
                   IF job[h].kind = "mod" THEN {"disturbed"} ELSE {}
              [] h = t /\ at'[h] # "idle" ->
                   IF at[h] = "P" /\ o.reply = "nak" THEN {"refused"} ELSE met[h]]

Command(t) ==
  /\ at[t] # "idle"
  /\ \E o \in Outcomes :
       /\ IF o.exec THEN Execute(at[t], job[t]) ELSE UNCHANGED radio
       /\ at' = [at EXCEPT ![t] = Continue(t, o)]
       /\ job' = IF at'[t] = "idle" THEN [job EXCEPT ![t] = NoJob] ELSE job
       /\ clean' = [h \in Handlers |-> IF h = t THEN Clean(h, o) ELSE clean[h]]
       /\ Notice(t, o)

(* The arbiter's B: every transmission begins with a recall of the active  *)
(* slot.                                                                   *)
Key ==
  /\ ram' = eeprom[active]
  /\ met' = [h \in Handlers |->
               IF Within(h) THEN met[h] \cup {"disturbed"} ELSE met[h]]
  /\ UNCHANGED <<active, eeprom, job, at, clean>>

Next == \/ \E h \in Handlers : Request(h)
        \/ ScanStep
        \/ \E t \in Tasks : Command(t)
        \/ Key

Spec == Init /\ [][Next]_vars

-----------------------------------------------------------------------------
(* tune.rs: "the emergency presets [...] are never touched".  Whatever     *)
(* tasks, keying and errors interleave, a slot other than the scratch slot *)
(* is written only by a request that was asked to: a store, which writes   *)
(* the active slot, or a save to that slot; or by a tune whose recall the  *)
(* radio refused, or between whose P and Q another task's recall moved the *)
(* radio.                                                                  *)
EmergencyUntouched ==
  [][\A s \in Slots \ {Scratch} :
       eeprom'[s] # eeprom[s] =>
         \E t \in Handlers :
           /\ at[t] = "Q" /\ at'[t] = "idle"
           /\ \/ job[t].kind = "store"
              \/ job[t].kind = "save" /\ job[t].slot = s
              \/ met[t] \cap {"refused", "moved"} # {}]_vars

(* tune.rs: "the scratch slot's EEPROM mirrors the operator's intended     *)
(* tune": when a tune reports that every stage was accepted, its slot is   *)
(* active and holds the channel that was asked for, whatever failed        *)
(* earlier and whatever is stored meanwhile, unless a recall, PTT or       *)
(* another request changed RAM between its P and its Q.                    *)
Holds(tuned, c) == /\ tuned.rx = c
                   /\ tuned.tx = c
                   /\ c \notin NoMode => tuned.mode = c

AckedTuneIsStored ==
  [][\A t \in Handlers :
       /\ Sequence(job[t].kind)
       /\ at[t] # "idle" /\ at'[t] = "idle"
       /\ clean'[t] /\ met[t] = {}
       => active' = job[t].slot /\ Holds(eeprom'[active'], job[t].ch)]_vars

(* tune.rs: "the radio's TX-time preset-recall is a no-op".  After a       *)
(* request that succeeded keying does not change what the radio is tuned   *)
(* to, whatever failed before it and whatever ran or keyed beside it, until*)
(* RAM is changed by a bare M, by the scanner or by another request.       *)
RecallIsNoOp ==
  \A h \in Handlers :
    at[h] = "idle" /\ clean[h] /\ met[h] = {} => ram = eeprom[active]
=============================================================================
