-------------------------------- MODULE Desk --------------------------------
(***************************************************************************)
(* An operator's desk, end to end: a request (a button, a tune, a channel  *)
(* of an imported file) becomes commands, the commands become bytes, the   *)
(* radio does what it reads; the poller's inquiries are answered in bytes, *)
(* of which one may be lost, and what can be decoded reaches the page.     *)
(* Codec has the functions; here are their callers.                        *)
(*                                                                         *)
(* The radio is external.  It reads bytes, never commands, by the meanings *)
(* that command.rs and inquiry.rs quote from its manual (Tables 11 and 13).*)
(* One handler at a time: TuneFunnel is about several.                     *)
(***************************************************************************)
EXTENDS Codec

CONSTANTS Requests,    \* what may be asked
          Files,       \* CSV files
          Meant,       \* for each name in a file, what its author says of the channel
          Scratch,     \* the scratch slot
          Ambients,    \* what the radio may report of its surroundings
          MaxRequests  \* bound: requests and imports

-----------------------------------------------------------------------------
(* What a request means, in an operator's words                            *)

Levels == [off |-> "off", lo |-> "lo", low |-> "lo", med |-> "med", medium |-> "med", hi |-> "hi", high |-> "hi"]
Voices == [pt |-> "pt", voice |-> "pt", plain |-> "pt", ct |-> "ct", data |-> "ct", cipher |-> "ct"]

Sense(route, word) ==
    CASE route = "lamp"  -> (CASE word = "1" -> "lo" [] word = "2" -> "med" [] word = "3" -> "hi"
                               [] OTHER -> Levels[word])
      [] route = "power" -> (CASE word = "0" -> "lo" [] word = "1" -> "med" [] word = "2" -> "hi"
                               [] OTHER -> Levels[word])
      [] route = "text"  -> Voices[word]
      [] route \in {"mod", "mod_tx_only"} -> word
      [] OTHER -> word \in {"on", "true", "1"}

\* The field that each of these routes sets.
Field == [lamp |-> "lamp", power |-> "power", text |-> "text_mode", speaker |-> "speaker_on",
          scan |-> "scan", scan_list_member |-> "on_scan_list", mod |-> "mod_tx_rx",
          mod_tx_only |-> "mod_tx_only"]
WordRoutes == DOMAIN Field

Without(f, fields) == [x \in DOMAIN f \ fields |-> f[x]]

Tuned(rx, tx, slot, mode) ==
    Without([rx |-> rx, tx |-> tx, preset |-> slot, mod_tx_rx |-> mode],
            IF mode = "" THEN {"mod_tx_rx"} ELSE {})

Means(req) ==
    CASE req.route \in {"preset", "squelch"} -> [f \in {req.route} |-> req.n]
      [] req.route = "store" -> <<>>
      [] req.route = "tune"  ->
            Tuned(req.rx, req.tx, IF req.target = <<>> THEN Scratch ELSE req.target[1], req.mode)
      [] OTHER -> [f \in {Field[req.route]} |-> Sense(req.route, req.word)]

\* What the library says of a channel, besides its tone.
MeansChannel(ch) == Tuned(ch.rx, ch.tx, Scratch, Or(ch.mode, <<"">>)[1])

ASSUME DeskAssumption == Scratch \in 0..9 /\ MaxRequests \in Nat

\* What the routes are sent; a target is a sequence of at most one slot.
ASSUME RequestAssumption ==
    Requests \subseteq [route : {"preset", "squelch"}, n : Nat]
                 \union [route : WordRoutes, word : STRING]
                 \union [route : {"store"}]
                 \union [route : {"tune"}, rx : Nat, tx : Nat, step : STRING, mode : STRING,
                        target : Seq(Nat)]

\* A row is a function to cells, which are numbers or words.
ASSUME FileAssumption ==
    \A file \in Files : \A i \in DOMAIN file.rows : \A c \in DOMAIN file.rows[i] :
       file.rows[i][c] \in [v : Int] \union [w : STRING]

\* What there may be around a radio; the rest of its general status are digits.
ASSUME AmbientAssumption ==
    \A a \in Ambients :
       /\ a \in [mode : {"receive", "transmit", "beacon"}, rssi : 0..255, broken : BOOLEAN,
                locked : BOOLEAN, hot : 0..1, options : 0..9, extra : Seq(ToSet(Digits))]
       /\ Len(a.extra) <= 200

VARIABLES radio,   \* the radio
          lib,     \* the channel library
          job,     \* the request a handler is working on, or Idle
          left,    \* the commands it has still to send
          mixer,   \* the CTCSS tone that is mixed into what is sent, if any
          nak,     \* one of them was refused
          asked,   \* requests so far
          page,    \* a telemetry event that a page shows
          want,    \* history: per field, what the acknowledged requests leave the radio with
          truth    \* history: the radio's values when it answered for `page`

vars == <<radio, lib, job, left, mixer, nak, asked, page, want, truth>>

Idle == [route |-> "none"]

-----------------------------------------------------------------------------
(* The radio *)

\* Width of the argument after each letter.
Letters == {"R", "T", "P", "M", "N", "X", "L", "J", "C", "S", "Q", "B", "$", "#", "*"}
Width == [p \in Letters |-> CASE p \in {"R", "T"} -> 6 [] p = "$" -> 3 [] p \in {"Q", "B"} -> 0 [] OTHER -> 1]

\* The seventh digit, of which the radio knows that 12.5 kHz steps need one.
Heard(khz) == 10 * khz + IF khz % 25 = 12 THEN 5 ELSE 0

OnScanList(r) == {s \in 0..9 : r.slots[s].member = 1}

\* What the letter with the argument n makes of the radio.
Effect(r, letter, n) ==
    CASE letter = "P" -> [r EXCEPT !.preset = n, !.ram = r.slots[n]]
      [] letter = "Q" -> [r EXCEPT !.slots[r.preset] = r.ram]
      [] letter = "R" -> [r EXCEPT !.ram.rx = Heard(n)]
      [] letter = "T" -> [r EXCEPT !.ram.tx = Heard(n)]
      [] letter = "M" -> [r EXCEPT !.ram.mod = n, !.ram.modTx = n]
      [] letter = "N" -> [r EXCEPT !.ram.modTx = n]
      [] letter = "C" -> [r EXCEPT !.ram.member = n]
      [] letter = "#" -> [r EXCEPT !.ram.power = n]
      [] letter = "X" -> [r EXCEPT !.text = n]
      [] letter = "L" -> [r EXCEPT !.lamp = n]
      [] letter = "J" -> [r EXCEPT !.speaker = n]
      [] letter = "S" -> [r EXCEPT !.scan = n]
      [] letter = "$" -> [r EXCEPT !.squelch = n]
      [] letter = "B" -> [r EXCEPT !.mode = "transmit"]
      [] letter = "*" -> [r EXCEPT !.mode = IF n = 1 THEN "beacon" ELSE "receive"]

\* The arguments the radio knows.
Known(r, letter, n) ==
    CASE letter \in {"R", "T"} -> BandFor(10 * n) # <<>>
      [] letter = "$" -> n <= 255
      [] letter = "L" -> n <= 3
      [] letter = "#" -> n <= 2
      [] letter = "S" -> n = 0 \/ (n = 1 /\ Cardinality(OnScanList(r)) >= 2)
      [] letter \in {"M", "N", "C", "X", "J", "*"} -> n <= 1
      [] OTHER -> TRUE

Obeys(r, bytes) ==
    /\ bytes[1] \in DOMAIN Width
    /\ Len(bytes) = 1 + Width[bytes[1]]
    /\ \A k \in 2..Len(bytes) : IsDigit(bytes[k])
    /\ Known(r, bytes[1], Number(Tail(bytes)))

After(r, bytes) == Effect(r, bytes[1], Number(Tail(bytes)))

\* The radio in an operator's words.
View(r) ==
    [text_mode |-> <<"pt", "ct">>[r.text + 1], speaker_on |-> r.speaker = 1,
     lamp |-> <<"off", "lo", "med", "hi">>[r.lamp + 1], scan |-> r.scan = 1, squelch |-> r.squelch,
     preset |-> r.preset, rx |-> r.ram.rx, tx |-> r.ram.tx,
     mod_tx_rx |-> <<"am", "fm">>[r.ram.mod + 1], mod_tx_only |-> <<"am", "fm">>[r.ram.modTx + 1],
     on_scan_list |-> r.ram.member = 1, power |-> <<"lo", "med", "hi">>[r.ram.power + 1],
     slots |-> r.slots, mode |-> r.mode, rssi |-> r.rssi, broken |-> r.broken,
     locked |-> r.locked, overtemp |-> r.hot = 1,
     ebn30 |-> r.options \in {2, 6}, ebn400 |-> r.options \in {4, 6}]

\* The answers, by Table 13.
Answer(r, inquiry) ==
    CASE inquiry = <<"?", "0", "1">> -> <<"A", IF r.locked THEN "1" ELSE "0">>
      [] inquiry = <<"?", "0", "3">> -> <<"N">> \o Decimal(r.rssi, 3)
      [] inquiry = <<"?", "1", "0">> ->
            <<"T">> \o Decimal(r.ram.tx, 7) \o <<"R">> \o Decimal(r.ram.rx, 7)
            \o <<"M", Byte(r.ram.mod), "N", Byte(r.ram.modTx), "C", Byte(r.ram.member),
                 "P", Byte(r.preset), "#", Byte(r.ram.power)>>
      [] inquiry = <<"?", "1", "1">> ->
            <<"X", Byte(r.text), "J", Byte(r.speaker), "L", Byte(r.lamp), "d", Byte(r.options),
              "F", Byte(r.hot)>> \o r.extra
      [] inquiry = <<"?", "1", "2">> ->
            IF r.mode = "beacon" THEN <<"*", "1">> ELSE <<"U", IF r.mode = "transmit" THEN "1" ELSE "0">>
      [] inquiry = <<"?", "1", "3">> -> <<"[", IF r.broken THEN "1" ELSE "0">>

-----------------------------------------------------------------------------
Factory == [rx |-> 2430000, tx |-> 2430000, mod |-> 0, modTx |-> 0, member |-> 1, power |-> 2]

Init ==
    /\ radio \in {[preset |-> 0, slots |-> [s \in 0..9 |-> Factory], ram |-> Factory, text |-> 0,
                   lamp |-> 0, speaker |-> 0, scan |-> 0, squelch |-> 0, mode |-> a.mode,
                   rssi |-> a.rssi, broken |-> a.broken, locked |-> a.locked, hot |-> a.hot,
                   options |-> a.options, extra |-> a.extra] : a \in Ambients}
    /\ lib = <<>> /\ page = <<>> /\ truth = <<>>
    /\ job = Idle /\ left = <<>> /\ mixer = <<>> /\ nak = FALSE /\ asked = 0
    /\ want = View(radio)

\* Fields that a request may change, whether or not it says so; what a channel's tone changes
\* after its tune is under "couple".
Touches(route) ==
    CASE route \in {"tune", "channel"} ->
            {"preset", "rx", "tx", "mod_tx_rx", "mod_tx_only", "on_scan_list", "power", "slots"}
      [] route = "preset" ->
            {"preset", "rx", "tx", "mod_tx_rx", "mod_tx_only", "on_scan_list", "power"}
      [] route = "mod"         -> {"mod_tx_rx", "mod_tx_only"}
      [] route = "lamp"        -> {"lamp"}
      [] route = "speaker"     -> {"speaker_on"}
      [] route = "squelch"     -> {"squelch"}
      [] route = "mod_tx_only" -> {"mod_tx_only"}
      [] route \in {"text", "couple"} -> {"text_mode"}
      [] route = "power"       -> {"power"}
      [] route = "scan"        -> {"scan"}
      [] route = "scan_list_member" -> {"on_scan_list"}
      [] route = "store"       -> {"slots"}

\* What f says, and g of the rest.
Over(f, g) == [x \in DOMAIN f \union DOMAIN g |-> IF x \in DOMAIN f THEN f[x] ELSE g[x]]

\* A handler that starts on some commands; a request that makes none is answered 400.
Begin(route, commands, means, tone) ==
    IF commands = <<>> THEN UNCHANGED <<job, left, nak, want, page, truth>>
    ELSE /\ page' = <<>> /\ truth' = <<>>
         /\ job' = [route |-> route, means |-> means, slots |-> radio.slots, tone |-> tone]
         /\ left' = commands
         /\ nak' = FALSE
         /\ want' = Without(want, Touches(route))

Ready == job = Idle /\ asked < MaxRequests /\ asked' = asked + 1

Ask == \E req \in Requests :
    /\ Ready
    /\ Begin(req.route, IF req.route = "tune" THEN PostTune(Scratch, req) ELSE Route(req), Means(req), <<>>)
    /\ UNCHANGED <<radio, lib, mixer>>

AskChannel == \E i \in DOMAIN lib :
    /\ Ready
    /\ Begin("channel", TuneChannel(Scratch, lib[i]), MeansChannel(lib[i]), lib[i].ctcss)
    /\ UNCHANGED <<radio, lib, mixer>>

\* A file whose columns fit no profile is a 400; the others replace their group.
Import == \E file \in Files :
    /\ Ready
    /\ lib' = IF ProfileOf(file.columns) = <<>> THEN lib ELSE ParseCsv(file.columns, file.rows)
    /\ UNCHANGED <<radio, job, left, mixer, nak, page, want, truth>>

\* The next command is answered.
Obeyed ==
    /\ left # <<>>
    /\ Obeys(radio, Encode(Head(left)))
    /\ radio' = After(radio, Encode(Head(left)))
    /\ left' = Tail(left)
    /\ UNCHANGED <<lib, job, mixer, nak, asked, page, want, truth>>

\* A NAK, which the radio gives to what it does not know and may give to anything, does not
\* end a sequence.
Refused ==
    /\ left # <<>>
    /\ nak' = TRUE
    /\ left' = Tail(left)
    /\ UNCHANGED <<radio, lib, job, mixer, asked, page, want, truth>>

\* Mutant: the handler goes on after an error, having answered.
UnansweredGoesOn ==
    /\ left # <<>>
    /\ left' = Tail(left) /\ job' = Idle
    /\ UNCHANGED <<radio, lib, mixer, nak, asked, page, want, truth>>

\* No answer, a fault, a closed handle: the handler gives up with a 503, or if it was coupling
\* the text mode, which is best effort, acknowledges the channel all the same.
Unanswered ==
    /\ left # <<>>
    /\ radio' \in {radio} \union
           (IF Obeys(radio, Encode(Head(left))) THEN {After(radio, Encode(Head(left)))} ELSE {})
    /\ left' = <<>> /\ job' = Idle
    /\ UNCHANGED <<lib, mixer, nak, asked, page, want, truth>>

\* What a stored job leaves in the slots.
Stored == IF job.route \in {"tune", "channel", "store"}
          THEN [slots |-> [job.slots EXCEPT ![radio.preset] = radio.ram]] ELSE <<>>

\* With its stages not refused, a job leaves the radio with what it means.
Kept == IF nak THEN want ELSE Over(job.means, Over(Stored, want))

\* The mixer takes tones above 30 and below 300 Hz, others switch it off.
Mixed(tone) == IF tone # <<>> /\ 300 < tone[1] /\ tone[1] < 3000 THEN <<tone[1]>> ELSE <<>>

\* After the stages of a channel's tune, refused or not, its tone goes to the mixer, and the
\* radio is told the text mode that lets it pass.
Couple ==
    /\ job.route = "channel" /\ left = <<>>
    /\ mixer' = Mixed(job.tone)
    /\ left' = CoupleTextMode(job.tone)
    /\ job' = [route |-> "couple", means |-> [text_mode |-> TextFor(job.tone)],
               slots |-> radio.slots, tone |-> job.tone]
    /\ nak' = FALSE
    /\ want' = Without(Kept, Touches("couple"))
    /\ UNCHANGED <<radio, lib, asked, page, truth>>

Finish ==
    /\ job # Idle /\ job.route # "channel" /\ left = <<>>
    /\ job' = Idle
    /\ want' = Kept
    /\ UNCHANGED <<radio, lib, left, mixer, nak, asked, page, truth>>

\* What arrives of an answer: all of it, or all but one byte, or only a NAK.
Arrivals(answer) ==
    {answer, <<"NAK">>} \union {RemoveAt(answer, i) : i \in DOMAIN answer}

\* run_inquiry: an answer without its end is a timeout; an answer that cannot be decoded,
\* a NAK and a timeout are error events, which change nothing that the page shows.  The first
\* answer after the keypad ends in HT.
Inquire(inq) ==
    \E end \in {"ACK"} \union IF asked = 0 THEN {"HT"} ELSE {} :
       \E bytes \in Arrivals(Append(Answer(radio, InquiryEncode(inq)), end)) :
          LET resp == FirstResponse(bytes)
              ev   == IF resp = <<>> THEN <<>> ELSE Telemetry(inq, resp[1])
          IN  /\ ev # <<>>
              /\ page' = ev[1]
              /\ truth' = [f \in DOMAIN ev[1] |-> View(radio)[f]]

\* Between two requests, and one event each: what an answer tells is the radio's state at that
\* moment, so answers during a request would add nothing but states.
Poll ==
    /\ job = Idle /\ page = <<>>
    /\ \E inq \in {"Rssi", "SquelchStatus", "GeneralStatus", "Mode", "PresetSnapshot", "SynthLock"} :
          Inquire(inq)
    /\ UNCHANGED <<radio, lib, job, left, mixer, nak, asked, want>>

Next == Ask \/ AskChannel \/ Import \/ Obeyed \/ Refused \/ Unanswered \/ Couple \/ Finish
        \/ Poll

Spec == Init /\ [][Next]_vars

-----------------------------------------------------------------------------
(* What an acknowledged request promises: the radio has what was asked for *)
(* (a lamp by its name, a frequency to the 100 Hz, a channel as the        *)
(* library has it, in the text mode its tone needs if the radio took it),  *)
(* in the slot it was asked for, and nothing else of it has changed; in    *)
(* particular no request keys the transmitter (commands.rs: "no transmit   *)
(* from code").                                                            *)
AckedIsDone == \A f \in DOMAIN want : View(radio)[f] = want[f]


(* What a page shows was the radio's value when it answered, even if a     *)
(* byte of the answer was lost.  Not so for `overtemp`: the last field but *)
(* the options, whose first digit is taken for the lost one.               *)
ShownIsTrue == \A f \in DOMAIN page \ {"overtemp"} : page[f] = truth[f]

(* A handler has commands left only while it works, on a radio whose slots *)
(* hold what the radio can tune, and the mixer a tone that it can mix.     *)
TypeOK ==
    /\ left # <<>> => job # Idle
    /\ nak \in BOOLEAN /\ asked \in 0..MaxRequests
    /\ \A i \in DOMAIN mixer : 300 < mixer[i] /\ mixer[i] < 3000
    /\ radio.preset \in 0..9 /\ radio.squelch \in 0..255
    /\ \A s \in 0..9 : \A f \in {radio.slots[s].rx, radio.slots[s].tx} : Between(300000, f, 4200000)
    /\ \A i \in DOMAIN lib : \A f \in {lib[i].rx, lib[i].tx} : Between(0, f, MaxFreq)

=============================================================================
