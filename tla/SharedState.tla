---------------------------- MODULE SharedState ----------------------------
(***************************************************************************)
(* What all browsers share besides the transmitter: the CTCSS tone and the *)
(* radio's text mode that goes with it, the filters of both audio          *)
(* directions, the channel library.  HTTP handlers on several threads      *)
(* change them, a broadcast tells the telemetry connections, and each page *)
(* keeps its own copy of the library, whose ids it sends back.             *)
(*                                                                         *)
(* Frequencies are tenths of a hertz.  One value stands for the six filter *)
(* parameters of a side.  The radio, the HTTP library's dropping of a      *)
(* handler whose client has gone, and the network are external.            *)
(***************************************************************************)
EXTENDS Integers, Sequences, FiniteSets, SequencesExt

CONSTANTS Handlers,     \* HTTP requests served at a time
          Tabs,         \* pages
          Tones,        \* what a request may ask for, NoTone among it
          Sides,        \* receive and transmit audio, which the code treats alike
          Filters,      \* filter settings
          DefaultFilter,
          Groups, Names,
          ToneOf,       \* the tone of each channel name
          Files,        \* what may be imported: sequences of names
          Capacity,     \* of the broadcast channel: 64 in the code
          MaxRequests,  \* bound: requests
          MaxRestarts   \* bound: restarts of the server

NoTone == 0

ASSUME SharedAssumption ==
    /\ Capacity \in Nat \ {0}
    /\ {"ctcss", "library"} \intersect Sides = {}
    /\ DefaultFilter \in Filters
    /\ Tones \subseteq Nat /\ NoTone \in Tones
    /\ ToneOf \in [Names -> Nat]
    /\ Files \subseteq Seq(Names)

VARIABLES lib,       \* table channels: rows [id, group, name]
          next,      \* AUTOINCREMENT: the id of the next row
          ctcss,     \* CtcssMixer
          filters,   \* FilterConfig of each side
          text,      \* the radio's text mode
          line,      \* commands X on their way to the radio
          jobs,      \* what each handler is at
          conn,      \* each page's telemetry connection
          queue,     \* events it has not yet forwarded
          told,      \* what the page was last told of each kind
          list,      \* the library as the page shows it
          asks,      \* its requests for the list: asked, read, not yet arrived
          missed,    \* history: kinds of events that passed the page by
          crossed,   \* history: a list arrived ahead of one asked for earlier
          loose,     \* history: kinds whose last event was not sent, or not sent in order
          torn,      \* history: the last two changes of the tone ran in parallel
          edge,      \* history: the tone was set by a channel whose tone the mixer refuses
          coupling,  \* history: whether the last X was the server's own, and reached the radio
          requests, restarts

libVars == <<lib, next>>
pageVars == <<list, asks, crossed>>
stateVars == <<ctcss, filters>>
radioVars == <<text, line, coupling>>
eventVars == <<conn, queue, told, missed>>
toneHistory == <<torn, edge>>
vars == <<libVars, pageVars, stateVars, radioVars, eventVars, toneHistory,
          jobs, loose, requests, restarts>>

Soft == {"ctcss"} \union Sides
Kinds == Soft \union {"library"}
Idle == [pc |-> "idle"]
Unread == [read |-> FALSE, rows |-> {}]

MixerOff == [enabled |-> FALSE, freq |-> 0]
TextFor(enabled) == IF enabled THEN "CT" ELSE "PT"

\* *_snapshot
Current(kind) == IF kind = "ctcss" THEN ctcss ELSE filters[kind]

Init ==
    /\ lib = {} /\ next = 1
    /\ ctcss = MixerOff
    /\ filters = [side \in Sides |-> DefaultFilter]
    /\ text \in {"PT", "CT"} /\ line = <<>> /\ coupling = FALSE
    /\ jobs = [h \in Handlers |-> Idle]
    /\ conn = [t \in Tabs |-> "off"]
    /\ queue = [t \in Tabs |-> <<>>]
    /\ told = [t \in Tabs |-> [k \in Soft |-> Current(k)]]
    /\ list = [t \in Tabs |-> {}]
    /\ asks = [t \in Tabs |-> <<Unread>>]
    /\ missed = [t \in Tabs |-> {}]
    /\ crossed = [t \in Tabs |-> FALSE]
    /\ loose = [k \in Kinds |-> FALSE]
    /\ torn = FALSE /\ edge = FALSE
    /\ requests = 0 /\ restarts = 0

Request(h) ==
    /\ jobs[h] = Idle
    /\ requests < MaxRequests /\ requests' = requests + 1
    /\ UNCHANGED restarts

Becomes(h, job) == jobs' = [jobs EXCEPT ![h] = job]
At(h, pc) == jobs[h].pc = pc
Others(h) == Handlers \ {h}

-----------------------------------------------------------------------------
(* The tone, and the text mode it needs *)

\* Mutant: whatever is asked for is mixed.
MixesAny(tone) == tone # NoTone

\* Both ends are excluded here; a CSV file may have 30.0 Hz.
Mixes(tone) == 300 < tone /\ tone < 3000

\* CtcssMixer::set.  A handler that sets while another one has set and not yet sent its X
\* runs on a second thread: no task gives way in between.
MixerSet(h, tone) ==
    /\ ctcss' = IF Mixes(tone) THEN [enabled |-> TRUE, freq |-> tone]
                ELSE [ctcss EXCEPT !.enabled = FALSE]
    /\ torn' = \E g \in Others(h) : jobs[g].pc \in {"get", "couple"}

SetCtcss(h, tone) ==
    /\ Request(h)
    /\ MixerSet(h, tone)
    /\ edge' = FALSE
    /\ Becomes(h, [pc |-> "get"])
    /\ UNCHANGED <<libVars, pageVars, filters, radioVars, eventVars, loose>>

\* It couples by what the mixer holds, its own tone or a later one.
GetCtcss(h) ==
    /\ At(h, "get")
    /\ Becomes(h, [pc |-> "couple", text |-> TextFor(ctcss.enabled)])
    /\ UNCHANGED <<libVars, pageVars, stateVars, radioVars, eventVars, toneHistory,
                   loose, requests, restarts>>

Couple(h) ==
    /\ At(h, "couple")
    /\ line' = Append(line, [text |-> jobs[h].text, by |-> {h}, own |-> TRUE])
    /\ Becomes(h, [pc |-> "await"])
    /\ UNCHANGED <<libVars, pageVars, stateVars, text, coupling, eventVars, toneHistory,
                   loose, requests, restarts>>

\* The operator's override, by the button.
PostText(mode) ==
    /\ requests < MaxRequests /\ requests' = requests + 1
    /\ line' = Append(line, [text |-> mode, by |-> {}, own |-> FALSE])
    /\ UNCHANGED <<libVars, pageVars, stateVars, text, coupling, eventVars, toneHistory,
                   jobs, loose, restarts>>

\* Mutant: a handler whose X fails returns at once.
RadioReadsOrFails ==
    /\ line # <<>>
    /\ \E done \in BOOLEAN :
          /\ text' = IF done THEN Head(line).text ELSE text
          /\ coupling' = (done /\ Head(line).own)
          /\ jobs' = [h \in Handlers |-> IF h \notin Head(line).by THEN jobs[h]
                                         ELSE IF done THEN [pc |-> "load", kind |-> "ctcss"] ELSE Idle]
    /\ line' = Tail(line)
    /\ UNCHANGED <<libVars, pageVars, stateVars, eventVars, toneHistory,
                   loose, requests, restarts>>

\* An X is carried out, or refused or lost; the handler goes on in any case.
RadioReads ==
    /\ line # <<>>
    /\ \E done \in BOOLEAN :
          /\ text' = IF done THEN Head(line).text ELSE text
          /\ coupling' = (done /\ Head(line).own)
    /\ line' = Tail(line)
    /\ jobs' = [h \in Handlers |-> IF h \in Head(line).by THEN [pc |-> "load", kind |-> "ctcss"]
                                   ELSE jobs[h]]
    /\ UNCHANGED <<libVars, pageVars, stateVars, eventVars, toneHistory,
                   loose, requests, restarts>>

-----------------------------------------------------------------------------
(* Tuning a channel *)

\* The request carries the id alone; the row that the page meant is history.
PostTune(h, row) ==
    /\ Request(h)
    /\ Becomes(h, [pc |-> "lookup", clicked |-> row])
    /\ UNCHANGED <<libVars, pageVars, stateVars, radioVars, eventVars, toneHistory, loose>>

\* get_channel
Lookup(h) ==
    /\ At(h, "lookup")
    /\ \/ \E row \in lib : /\ row.id = jobs[h].clicked.id
                           /\ Becomes(h, [pc |-> "funnel", channel |-> row])
       \/ Becomes(h, Idle)   \* 404, or 500
    /\ UNCHANGED <<libVars, pageVars, stateVars, radioVars, eventVars, toneHistory,
                   loose, requests, restarts>>

\* Mutant: a channel without a tone leaves the text mode alone.
TunedOnlyUp(h) ==
    LET tone == ToneOf[jobs[h].channel.name] IN
    /\ At(h, "funnel")
    /\ MixerSet(h, tone)
    /\ edge' = (tone # NoTone /\ ~Mixes(tone))
    /\ Becomes(h, IF tone = NoTone THEN [pc |-> "load", kind |-> "ctcss"]
                  ELSE [pc |-> "couple", text |-> "CT"])
    /\ UNCHANGED <<libVars, pageVars, filters, radioVars, eventVars,
                   loose, requests, restarts>>

\* tune_via_scratch has returned; by the channel's tone, not by the mixer's.
Tuned(h) ==
    LET tone == ToneOf[jobs[h].channel.name] IN
    /\ At(h, "funnel")
    /\ MixerSet(h, tone)
    /\ edge' = (tone # NoTone /\ ~Mixes(tone))
    /\ Becomes(h, [pc |-> "couple", text |-> TextFor(tone # NoTone)])
    /\ UNCHANGED <<libVars, pageVars, filters, radioVars, eventVars,
                   loose, requests, restarts>>

\* 400 or 503: the tone stays as it was.
NotTuned(h) ==
    /\ At(h, "funnel")
    /\ Becomes(h, Idle)
    /\ UNCHANGED <<libVars, pageVars, stateVars, radioVars, eventVars, toneHistory,
                   loose, requests, restarts>>

-----------------------------------------------------------------------------
(* Filters *)

SetFilters(h, side, f) ==
    /\ Request(h)
    /\ filters' = [filters EXCEPT ![side] = f]
    /\ Becomes(h, [pc |-> "load", kind |-> side])
    /\ UNCHANGED <<libVars, pageVars, ctcss, radioVars, eventVars, toneHistory, loose>>

-----------------------------------------------------------------------------
(* The library *)

Import(h, group, file) ==
    /\ Request(h)
    /\ Becomes(h, [pc |-> "db", op |-> "import", group |-> group, file |-> file, gone |-> FALSE])
    /\ UNCHANGED <<libVars, pageVars, stateVars, radioVars, eventVars, toneHistory, loose>>

DeleteGroup(h, group) ==
    /\ Request(h)
    /\ Becomes(h, [pc |-> "db", op |-> "group", group |-> group, gone |-> FALSE])
    /\ UNCHANGED <<libVars, pageVars, stateVars, radioVars, eventVars, toneHistory, loose>>

DeleteChannel(h, row) ==
    /\ Request(h)
    /\ Becomes(h, [pc |-> "db", op |-> "channel", clicked |-> row, gone |-> FALSE])
    /\ UNCHANGED <<libVars, pageVars, stateVars, radioVars, eventVars, toneHistory, loose>>

Kept(group) == {row \in lib : row.group # group}

\* Mutant: INTEGER PRIMARY KEY without AUTOINCREMENT: one more than the largest id in use.
ImportedAnew(group, file) ==
    LET largest == Max({row.id : row \in Kept(group)} \union {0}) IN
    /\ lib' = Kept(group) \union {[id |-> largest + i, group |-> group, name |-> file[i]]
                                    : i \in DOMAIN file}
    /\ next' = next + Len(file)

\* insert_many: the group's rows are replaced, in one transaction.
Imported(group, file) ==
    /\ lib' = Kept(group) \union {[id |-> next + i - 1, group |-> group, name |-> file[i]]
                                    : i \in DOMAIN file}
    /\ next' = next + Len(file)

GroupDeleted(group) ==
    /\ lib' = Kept(group)
    /\ UNCHANGED next

ChannelDeleted(id) ==
    /\ lib' = {row \in lib : row.id # id}
    /\ UNCHANGED next

\* Mutant: a page that deletes a channel reloads by itself; nobody else is told.
DoneQuietly(h) ==
    /\ Becomes(h, IF jobs[h].gone \/ jobs[h].op = "channel" THEN Idle
                  ELSE [pc |-> "send", event |-> [kind |-> "library"]])
    /\ loose' = [loose EXCEPT !["library"] = @ \/ jobs[h].gone]

\* A handler whose client has gone is no longer there to announce what it did.
Done(h) ==
    /\ Becomes(h, IF jobs[h].gone THEN Idle ELSE [pc |-> "send", event |-> [kind |-> "library"]])
    /\ loose' = [loose EXCEPT !["library"] = @ \/ jobs[h].gone]

\* The blocking thread, under the connection's lock.
Commit(h) ==
    /\ At(h, "db")
    /\ \/ jobs[h].op = "import" /\ Imported(jobs[h].group, jobs[h].file) /\ Done(h)
       \/ jobs[h].op = "group" /\ GroupDeleted(jobs[h].group) /\ Done(h)
       \/ /\ jobs[h].op = "channel"
          /\ \E row \in lib : row.id = jobs[h].clicked.id
          /\ ChannelDeleted(jobs[h].clicked.id)
          /\ Done(h)
       \/ Becomes(h, Idle) /\ UNCHANGED <<libVars, loose>>   \* 404, or 500
    /\ UNCHANGED <<pageVars, stateVars, radioVars, eventVars, toneHistory, requests, restarts>>

-----------------------------------------------------------------------------
(* Announcing *)

\* Two events of a kind between their snapshot and their sending, on two threads, may change places.
Load(h) ==
    LET kind == jobs[h].kind IN
    /\ At(h, "load")
    /\ Becomes(h, [pc |-> "send", event |-> [kind |-> kind, value |-> Current(kind)]])
    /\ loose' = [loose EXCEPT ![kind] = \E g \in Others(h) : At(g, "send") /\ jobs[g].event.kind = kind]
    /\ UNCHANGED <<libVars, pageVars, stateVars, radioVars, eventVars, toneHistory,
                   requests, restarts>>

Full(t) == Len(queue[t]) = Capacity

\* broadcast: a receiver that lags loses its oldest event; nobody else is listened to.
Emit(h) ==
    LET event == jobs[h].event IN
    /\ At(h, "send")
    /\ queue' = [t \in Tabs |-> IF conn[t] = "off" THEN <<>>
                                ELSE Append(IF Full(t) THEN Tail(queue[t]) ELSE queue[t], event)]
    /\ missed' = [t \in Tabs |-> missed[t] \union
                     IF conn[t] = "off" THEN {event.kind}
                     ELSE IF Full(t) THEN {Head(queue[t]).kind} ELSE {}]
    /\ loose' = IF event.kind = "library" THEN [loose EXCEPT !["library"] = FALSE] ELSE loose
    /\ Becomes(h, Idle)
    /\ UNCHANGED <<libVars, pageVars, stateVars, radioVars, conn, told, toneHistory,
                   requests, restarts>>

\* The client closes its connection: a handler ends where it awaits.  What it has asked the
\* radio or the database for goes on.
Abandon(h) ==
    /\ \/ /\ jobs[h].pc \in {"lookup", "funnel"}
          /\ Becomes(h, Idle)
          /\ UNCHANGED <<line, loose>>
       \/ /\ At(h, "await")
          /\ Becomes(h, Idle)
          /\ line' = [i \in DOMAIN line |-> [line[i] EXCEPT !.by = @ \ {h}]]
          /\ loose' = [loose EXCEPT !["ctcss"] = TRUE]
       \/ /\ At(h, "db") /\ ~jobs[h].gone
          /\ Becomes(h, [jobs[h] EXCEPT !.gone = TRUE])
          /\ UNCHANGED <<line, loose>>
    /\ UNCHANGED <<libVars, pageVars, stateVars, text, coupling, eventVars, toneHistory,
                   requests, restarts>>

-----------------------------------------------------------------------------
(* A page: handle_ws_telemetry and its other end *)

Subscribe(t) ==
    /\ conn[t] = "off"
    /\ conn' = [conn EXCEPT ![t] = "subscribed"]
    /\ UNCHANGED <<libVars, pageVars, stateVars, radioVars, queue, told, missed, toneHistory,
                   jobs, loose, requests, restarts>>

\* There is none of the library.
Snapshot(t) ==
    /\ conn[t] = "subscribed"
    /\ conn' = [conn EXCEPT ![t] = "on"]
    /\ told' = [told EXCEPT ![t] = [k \in Soft |-> Current(k)]]
    /\ missed' = [missed EXCEPT ![t] = @ \intersect {"library"}]
    /\ UNCHANGED <<libVars, pageVars, stateVars, radioVars, queue, toneHistory,
                   jobs, loose, requests, restarts>>

\* loadChannels asks; `crossed` is forgotten when nothing else is on its way.
Ask(t) ==
    /\ asks' = [asks EXCEPT ![t] = Append(@, Unread)]
    /\ crossed' = [crossed EXCEPT ![t] = @ /\ asks[t] # <<>>]
    /\ UNCHANGED list

Deliver(t) ==
    LET event == Head(queue[t]) IN
    /\ conn[t] = "on" /\ queue[t] # <<>>
    /\ queue' = [queue EXCEPT ![t] = Tail(@)]
    /\ missed' = [missed EXCEPT ![t] = @ \ {event.kind}]
    /\ IF event.kind = "library" THEN Ask(t) /\ UNCHANGED told
       ELSE told' = [told EXCEPT ![t][event.kind] = event.value] /\ UNCHANGED pageVars
    /\ UNCHANGED <<libVars, stateVars, radioVars, conn, toneHistory,
                   jobs, loose, requests, restarts>>

\* The socket closes, on either side.
Disconnect(t) ==
    /\ conn[t] # "off"
    /\ conn' = [conn EXCEPT ![t] = "off"]
    /\ queue' = [queue EXCEPT ![t] = <<>>]
    /\ missed' = [missed EXCEPT ![t] = @ \union {queue[t][i].kind : i \in DOMAIN queue[t]}]
    /\ UNCHANGED <<libVars, pageVars, stateVars, radioVars, told, toneHistory,
                   jobs, loose, requests, restarts>>

\* list_channels
ReadList(t, i) ==
    /\ ~asks[t][i].read
    /\ asks' = [asks EXCEPT ![t][i] = [read |-> TRUE, rows |-> lib]]
    /\ UNCHANGED <<libVars, list, crossed, stateVars, radioVars, eventVars, toneHistory,
                   jobs, loose, requests, restarts>>

\* The answers come over several connections, in any order.
Arrive(t, i) ==
    /\ asks[t][i].read
    /\ list' = [list EXCEPT ![t] = asks[t][i].rows]
    /\ asks' = [asks EXCEPT ![t] = RemoveAt(@, i)]
    /\ crossed' = [crossed EXCEPT ![t] = @ \/ i > 1]
    /\ UNCHANGED <<libVars, stateVars, radioVars, eventVars, toneHistory,
                   jobs, loose, requests, restarts>>

-----------------------------------------------------------------------------
(* The database outlives the server; the rest does not. *)

Restart ==
    /\ restarts < MaxRestarts /\ restarts' = restarts + 1
    /\ ctcss' = MixerOff
    /\ filters' = [side \in Sides |-> DefaultFilter]
    /\ line' = <<>> /\ coupling' = FALSE
    /\ jobs' = [h \in Handlers |-> Idle]
    /\ conn' = [t \in Tabs |-> "off"]
    /\ queue' = [t \in Tabs |-> <<>>]
    /\ asks' = [t \in Tabs |-> <<>>]
    /\ missed' = [t \in Tabs |-> Kinds]
    /\ crossed' = [t \in Tabs |-> FALSE]
    /\ loose' = [k \in Kinds |-> FALSE]
    /\ torn' = FALSE /\ edge' = FALSE
    /\ UNCHANGED <<libVars, list, text, told, requests>>

ServerStep(h) ==
    \/ GetCtcss(h) \/ Couple(h)
    \/ Lookup(h) \/ Tuned(h) \/ NotTuned(h)
    \/ Commit(h)
    \/ Load(h) \/ Emit(h)
    \/ Abandon(h)

Asked(h) ==
    \/ \E tone \in Tones : SetCtcss(h, tone)
    \/ \E t \in Tabs : \E row \in list[t] : PostTune(h, row) \/ DeleteChannel(h, row)
    \/ \E side \in Sides, f \in Filters : SetFilters(h, side, f)
    \/ \E group \in Groups : DeleteGroup(h, group) \/ \E file \in Files : Import(h, group, file)

PageStep(t) ==
    \/ Subscribe(t) \/ Snapshot(t) \/ Deliver(t) \/ Disconnect(t)
    \/ \E i \in DOMAIN asks[t] : ReadList(t, i) \/ Arrive(t, i)

Next ==
    \/ \E h \in Handlers : ServerStep(h) \/ Asked(h)
    \/ \E t \in Tabs : PageStep(t)
    \/ \E mode \in {"PT", "CT"} : PostText(mode)
    \/ RadioReads
    \/ Restart

Spec == Init /\ [][Next]_vars

-----------------------------------------------------------------------------
(* Properties *)

Row == [id : 1..(next - 1), group : Groups, name : Names]
Mixer == [enabled : BOOLEAN, freq : {0} \union 301..2999]

\* The shared state stays in its range: the mixer only ever holds a tone that it can make, a
\* receiver's backlog never exceeds the broadcast channel, every row a page shows was once given its id.
TypeOK ==
    /\ lib \subseteq Row /\ next \in Nat
    /\ ctcss \in Mixer /\ filters \in [Sides -> Filters]
    /\ text \in {"PT", "CT"}
    /\ \A i \in DOMAIN line : line[i].text \in {"PT", "CT"} /\ line[i].by \subseteq Handlers
    /\ \A h \in Handlers :
          jobs[h].pc \in {"idle", "get", "couple", "await", "lookup", "funnel", "db", "load", "send"}
    /\ \A t \in Tabs :
          /\ conn[t] \in {"off", "subscribed", "on"}
          /\ Len(queue[t]) <= Capacity
          /\ told[t]["ctcss"] \in Mixer /\ \A side \in Sides : told[t][side] \in Filters
          /\ list[t] \subseteq Row
          /\ \A i \in DOMAIN asks[t] : asks[t][i].rows \subseteq Row
          /\ missed[t] \subseteq Kinds

\* A page sends an id, from a list that may be long out of date: groups are imported anew and
\* deleted behind its back.  The id finds the channel that the page shows under it, or none:
\* what is tuned or deleted is never another channel (db.rs AUTOINCREMENT; channels.rs
\* tune_channel, delete_channel).
IdsAreForever ==
    [][\A h \in Handlers :
          /\ At(h, "lookup") /\ jobs'[h].pc = "funnel" => jobs'[h].channel = jobs[h].clicked
          /\ At(h, "db") /\ jobs[h].op = "channel" /\ jobs'[h] # jobs[h]
                => lib \ lib' \subseteq {jobs[h].clicked}]_vars

\* Nothing is in progress that would change what the page shows.
Settled(t) ==
    /\ \A h \in Handlers : At(h, "idle")
    /\ line = <<>>
    /\ conn[t] = "on" /\ queue[t] = <<>> /\ asks[t] = <<>>

\* main.rs, handle_ws_telemetry: a connected page was last told of the tone and of the filters
\* what they are, whenever it connected and however requests and connections interleaved, if it
\* did not lag, no client abandoned its request and no two events changed places.
ToldIsTrue ==
    \A t \in Tabs, k \in Soft :
        Settled(t) /\ k \notin missed[t] /\ ~loose[k] => told[t][k] = Current(k)

\* channels_changed: under the same conditions, and if its lists arrived in the order they were
\* asked for, a page shows the library as it is.
ListIsCurrent ==
    \A t \in Tabs :
        Settled(t) /\ "library" \notin missed[t] /\ ~loose["library"] /\ ~crossed[t] => list[t] = lib

\* What a page that has heard everything shows is what the server has: tone, filters and library
\* (main.rs AppState::emit_state, handle_ws_telemetry).
PagesAreRight == ToldIsTrue /\ ListIsCurrent

\* couple_text_mode_to_ctcss: once every X has been carried out and nobody overrode it, a tone is
\* never mixed into a radio in PT, which would filter it out, nor is the radio left in CT
\* without one (but for a channel's 30.0 Hz), whatever requests raced.
Coupled ==
    (/\ line = <<>> /\ coupling /\ ~torn
     /\ \A h \in Handlers : jobs[h].pc \notin {"get", "couple"})
    => /\ ctcss.enabled => text = "CT"
       /\ ~ctcss.enabled /\ ~edge => text = "PT"
=============================================================================
