------------------------------- MODULE Codec -------------------------------
(***************************************************************************)
(* The pure part of the programme: frequencies (freq.rs), the commands on  *)
(* the wire (command.rs), inquiries and their decoders (inquiry.rs), the   *)
(* response parser (response.rs), the JSON the browsers get (main.rs), the *)
(* words of the command routes (commands.rs), the rows of a CSV import and *)
(* the conditions of a tune (channels.rs).                                 *)
(*                                                                         *)
(* A byte is a one-character string, a frequency a number of 100 Hz, a     *)
(* step and a tone likewise a number of tenths (of kHz, of Hz): the code's *)
(* Hz are all multiples of that, or are refused by every step.  A result   *)
(* that may be None is a sequence of at most one element.                  *)
(***************************************************************************)
EXTENDS Integers, Sequences, SequencesExt

Digits == <<"0", "1", "2", "3", "4", "5", "6", "7", "8", "9">>
Byte(d) == Digits[d + 1]
DigitValue == [b \in ToSet(Digits) |-> CHOOSE d \in 0..9 : Byte(d) = b]
IsDigit(b) == b \in DOMAIN DigitValue

\* What a digit is worth by its place from the end: no number on the wire has more than seven.
Worth == <<1, 10, 100, 1000, 10000, 100000, 1000000>>

\* The digit at place k from the end, 0 where the number is shorter.
Place(s, k) == IF k <= Len(s) THEN DigitValue[s[Len(s) - k + 1]] ELSE 0
Number(s) == Place(s, 1) + 10 * Place(s, 2) + 100 * Place(s, 3) + 1000 * Place(s, 4)
             + 10000 * Place(s, 5) + 100000 * Place(s, 6) + 1000000 * Place(s, 7)

\* n in decimal, w digits, the higher ones cut off.
Decimal(n, w) == [i \in 1..w |-> Byte((n \div Worth[w - i + 1]) % 10)]

\* One of S, if any.
Maybe(S) == IF S = {} THEN <<>> ELSE <<CHOOSE x \in S : TRUE>>

Or(a, b) == IF a # <<>> THEN a ELSE b

-----------------------------------------------------------------------------
(* Frequencies *)

\* The fourth step, 8.33 kHz, has no grid of its own.
Step == [k25 |-> 250, k12_5 |-> 125, k5 |-> 50]

Between(low, f, high) == low <= f /\ f <= high

InBand(f, band) ==
    CASE band = "Base"   -> Between(1150000, f, 1739950) \/ Between(2250000, f, 3999950)
      [] band = "Lvhf"   -> Between(300000, f, 900000)
      [] band = "Uhf400" -> Between(4000000, f, 4200000)

BandStepOk(band, step) == ~(band = "Lvhf" /\ step \in {"k5", "k8_33"})

Aligned(f, step) == step = "k8_33" \/ f % Step[step] = 0

FreqNew(f, band, step) == InBand(f, band) /\ BandStepOk(band, step) /\ Aligned(f, step)

\* The match of band_for; the bands do not overlap.
BandFor(f) ==
    CASE Between(1150000, f, 1739950) \/ Between(2250000, f, 3999950) -> <<"Base">>
      [] Between(300000, f, 900000)   -> <<"Lvhf">>
      [] Between(4000000, f, 4200000) -> <<"Uhf400">>
      [] OTHER -> <<>>

\* Mutant: whole kHz, to the nearest.
FreqEncodeRounded(f) == Decimal((f + 5) \div 10, 6)

\* R and T carry whole kHz.
FreqEncode(f) == Decimal(f \div 10, 6)

-----------------------------------------------------------------------------
(* Commands *)

LampLevel  == [off |-> 0, lo |-> 1, med |-> 2, hi |-> 3]
ModMode    == [am |-> 0, fm |-> 1]
TextMode   == [pt |-> 0, ct |-> 1]
PowerLevel == [lo |-> 0, med |-> 1, hi |-> 2]
Flag       == [off |-> 0, on |-> 1]
ToneSquelch == [off |-> 0, rx_only |-> 1, tx_only |-> 2, both |-> 3]

Prefix == [Zap |-> "Z", Squelch |-> "$", ChannelInit |-> "I", Lamp |-> "L", Speaker |-> "J",
           Calibrate |-> "K", Preset |-> "P", SetRx |-> "R", SetTx |-> "T", ModTxRx |-> "M",
           ModTxOnly |-> "N", Text |-> "X", StorePreset |-> "Q", ScanListMember |-> "C",
           Power |-> "#", Scan |-> "S", Beacon |-> "*", ReleaseKeypad |-> "+",
           Transmit |-> "B", Receive |-> "E", ToneSquelch |-> ">"]

Argument(op, arg) ==
    CASE op = "Lamp"    -> <<Byte(LampLevel[arg])>>
      [] op = "Text"    -> <<Byte(TextMode[arg])>>
      [] op = "Power"   -> <<Byte(PowerLevel[arg])>>
      [] op = "Preset"  -> <<Byte(arg)>>
      [] op = "ToneSquelch" -> <<Byte(ToneSquelch[arg])>>
      [] op = "Squelch" -> Decimal(arg, 3)
      [] op \in {"ModTxRx", "ModTxOnly"} -> <<Byte(ModMode[arg])>>
      [] op \in {"SetRx", "SetTx"}       -> FreqEncode(arg)
      [] op \in {"Speaker", "ScanListMember", "Scan", "Beacon"} -> <<Byte(Flag[arg])>>
      [] OTHER -> <<>>

Encode(c) == <<Prefix[c.op]>> \o Argument(c.op, c.arg)

-----------------------------------------------------------------------------
(* Command routes: what a request makes the server send; <<>> is a 400 *)

LampWords  == [off |-> {"off"}, lo |-> {"lo", "low", "1"},
               med |-> {"med", "medium", "2"}, hi |-> {"hi", "high", "3"}]
PowerWords == [lo |-> {"lo", "low", "0"}, med |-> {"med", "medium", "1"},
               hi |-> {"hi", "high", "2"}]
TextWords  == [pt |-> {"pt", "voice", "plain"}, ct |-> {"ct", "data", "cipher"}]
FlagWords  == [on |-> {"on", "1", "true"}, off |-> {"off", "0", "false"}]
ModWords   == [am |-> {"am"}, fm |-> {"fm"}]

\* What a word means by a table of synonyms, if anything.
Meaning(words, w) == Maybe({m \in DOMAIN words : w \in words[m]})

Command(op, arg) == <<[op |-> op, arg |-> arg]>>
WordCommand(op, words, w) == [i \in DOMAIN Meaning(words, w) |->
                                 [op |-> op, arg |-> Meaning(words, w)[i]]]

Route(req) ==
    CASE req.route = "preset"  -> IF req.n <= 9 THEN Command("Preset", req.n) ELSE <<>>
      [] req.route = "squelch" -> IF req.n <= 255 THEN Command("Squelch", req.n) ELSE <<>>
      [] req.route = "lamp"    -> WordCommand("Lamp", LampWords, req.word)
      [] req.route = "speaker" -> WordCommand("Speaker", FlagWords, req.word)
      [] req.route = "mod"     -> WordCommand("ModTxRx", ModWords, req.word)
      [] req.route = "mod_tx_only" -> WordCommand("ModTxOnly", ModWords, req.word)
      [] req.route = "text"    -> WordCommand("Text", TextWords, req.word)
      [] req.route = "power"   -> WordCommand("Power", PowerWords, req.word)
      [] req.route = "scan"    -> WordCommand("Scan", FlagWords, req.word)
      [] req.route = "scan_list_member" -> WordCommand("ScanListMember", FlagWords, req.word)
      [] req.route = "store"   -> Command("StorePreset", "")

\* tune_via_scratch; `mode` is <<>> or one of am, fm.
TuneCommands(slot, rx, tx, mode) ==
    Command("Preset", slot) \o Command("SetRx", rx) \o Command("SetTx", tx)
    \o (IF mode = <<>> THEN <<>> ELSE Command("ModTxRx", mode[1]))
    \o Command("StorePreset", "")

\* The band of the receive frequency, or else of the other, has to hold both.
Tune(slot, rx, tx, step, mode) ==
    LET band == Or(BandFor(rx), BandFor(tx)) IN
    IF band # <<>> /\ FreqNew(rx, band[1], step) /\ FreqNew(tx, band[1], step)
    THEN TuneCommands(slot, rx, tx, mode) ELSE <<>>

StepNames == [k25 |-> {"25k"}, k12_5 |-> {"12.5k", "12_5k"}, k5 |-> {"5k", ""}]

\* "" and <<>> are an option left out; a target is then the scratch slot.
PostTune(scratch, req) ==
    LET step == Meaning(StepNames, req.step)
        mode == Meaning(ModWords, req.mode)
        slot == IF req.target = <<>> THEN scratch ELSE req.target[1]
    IN  IF step = <<>> \/ (req.mode # "" /\ mode = <<>>) \/ slot > 9 THEN <<>>
        ELSE Tune(slot, req.rx, req.tx, step[1], mode)

\* The step of a channel: one the radio has, or else the finest.
ChannelStep(ch) ==
    IF \E s \in DOMAIN Step : ch.step = <<Step[s]>>
    THEN CHOOSE s \in DOMAIN Step : ch.step = <<Step[s]>> ELSE "k5"

\* A channel's tone follows its tune: CoupleTextMode.
TuneChannel(scratch, ch) == Tune(scratch, ch.rx, ch.tx, ChannelStep(ch), ch.mode)

\* couple_text_mode_to_ctcss: only CT lets a tone pass.
TextFor(tone) == IF tone = <<>> THEN "pt" ELSE "ct"
CoupleTextMode(tone) == Command("Text", TextFor(tone))

-----------------------------------------------------------------------------
(* CSV import: a row is a function from column names to cells; a cell is   *)
(* [v |-> number] in the units above, [w |-> word], or Blank.              *)

Blank == [w |-> ""]
IsNumber(cell) == "v" \in DOMAIN cell
Value(cell) == IF IsNumber(cell) THEN <<cell.v>> ELSE <<>>

\* The alternatives for each column, in the order they are looked for.
Profiles == <<
    [profile |-> "satcom", rx |-> <<"downlink">>, tx |-> <<"uplink">>, name |-> <<"name">>,
     mode |-> <<>>, step |-> <<"bandwidth khz", "step">>, ctcss |-> <<"ctcss", "tone">>],
    [profile |-> "ham_full", rx |-> <<"receive frequency", "rx frequency">>,
     tx |-> <<"transmit frequency", "tx frequency">>, name |-> <<"name">>,
     mode |-> <<"operating mode", "mode">>, step |-> <<"step">>, ctcss |-> <<"ctcss", "tone">>],
    [profile |-> "chirp", rx |-> <<"frequency">>, tx |-> <<"duplex">>, offset |-> <<"offset">>,
     name |-> <<"name">>, mode |-> <<"mode">>, step |-> <<"tstep", "step">>,
     ctcss |-> <<"rtonefreq", "ctcss">>],
    [profile |-> "canonical", rx |-> <<"rx_mhz", "rx">>, tx |-> <<"tx_mhz", "tx">>,
     name |-> <<"name">>, mode |-> <<"mode">>, step |-> <<"step_khz", "step">>,
     ctcss |-> <<"ctcss_hz", "ctcss", "tone">>]>>

Required(p) == {"rx", "tx", "name"} \union ({"offset"} \intersect DOMAIN p)

\* The place of the first of some names that is a column, 0 if none is.
Column(names, columns) == SelectInSeq(names, LAMBDA n : n \in columns)

Detects(p, columns) == \A c \in Required(p) : Column(p[c], columns) # 0

\* The first profile whose columns are all there; None is a 400.
ProfileOf(columns) == SelectSeq(Profiles, LAMBDA p : Detects(p, columns))

\* A row has a cell for each of the file's columns.
Cell(row, names) ==
    LET i == Column(names, DOMAIN row) IN IF i = 0 THEN Blank ELSE row[names[i]]

\* The largest u32, in 100 Hz.
MaxFreq == 42949672
AtMost(max, f) == IF f > max THEN max ELSE f

\* MHz from 0 to 10 GHz; the Hz saturate.
ParseMhz(cell) ==
    IF IsNumber(cell) /\ Between(0, cell.v, 100000000) THEN <<AtMost(MaxFreq, cell.v)>> ELSE <<>>

ParseCtcss(cell) ==
    IF IsNumber(cell) /\ Between(300, cell.v, 2999) THEN <<cell.v>> ELSE <<>>

\* The words of a mode column, by what normalize_mode finds in them.
NormalizeMode(cell) ==
    CASE IsNumber(cell) -> <<>>
      [] cell.w \in {"FM", "NFM", "FM/AM"} -> <<"fm">>
      [] cell.w \in {"AM", "NAM"} -> <<"am">>
      [] OTHER -> <<>>

\* An offset becomes a u32 by its last 32 bits: a negative one wraps around.
AsUnsigned(off) == off % (MaxFreq + 1)


\* "off" and "split" are read as simplex.
Shifted(rx, duplex, off) ==
    CASE duplex = "+" -> AtMost(MaxFreq, rx + AsUnsigned(off))
      [] duplex = "-" -> IF rx < AsUnsigned(off) THEN 0 ELSE rx - AsUnsigned(off)
      [] OTHER -> rx

\* In the profile with an offset, TX is computed from it.
TxOf(p, row, rx) ==
    IF "offset" \notin DOMAIN p THEN ParseMhz(Cell(row, p.tx))
    ELSE LET dup == Cell(row, p.tx)
             off == Or(Value(Cell(row, p.offset)), <<0>>)[1]
         IN  <<Shifted(rx, IF IsNumber(dup) THEN "" ELSE dup.w, off)>>

\* The channels of one row: none if it has no name, no RX or no TX.
ParseRow(p, row) ==
    LET rx == ParseMhz(Cell(row, p.rx))
        tx == IF rx = <<>> THEN <<>> ELSE TxOf(p, row, rx[1])
    IN  IF Cell(row, p.name) = Blank \/ rx = <<>> \/ tx = <<>> THEN <<>>
        ELSE <<[name |-> Cell(row, p.name).w, rx |-> rx[1], tx |-> tx[1],
                mode |-> NormalizeMode(Cell(row, p.mode)), step |-> Value(Cell(row, p.step)),
                ctcss |-> ParseCtcss(Cell(row, p.ctcss))]>>

\* The channels of a file, by row.
ParseCsv(columns, rows) ==
    IF ProfileOf(columns) = <<>> THEN <<>>
    ELSE LET p == ProfileOf(columns)[1] IN
         [i \in {j \in DOMAIN rows : ParseRow(p, rows[j]) # <<>>} |-> ParseRow(p, rows[i])[1]]

-----------------------------------------------------------------------------
(* Responses *)

MaxDataLen == 256
Terminator == [ACK |-> "ack", NAK |-> "nak", HT |-> "ht"]

\* The first response in a stream of bytes, if any.  The data is what came before its
\* terminator; a buffer that is full is emptied, and the byte that found it full dropped.
FirstResponse(bytes) ==
    LET i == SelectInSeq(bytes, LAMBDA b : b \in DOMAIN Terminator) IN
    IF i = 0 THEN <<>>
    ELSE <<[kind |-> Terminator[bytes[i]],
            data |-> SubSeq(bytes, i - ((i - 1) % (MaxDataLen + 1)), i - 1)]>>

-----------------------------------------------------------------------------
(* Inquiries and their decoders *)

Inquiry == [SynthLock |-> 1, ScanDetect |-> 2, Rssi |-> 3, CalStatus |-> 4, PowerRails |-> 5,
            VFwd |-> 6, VRfd |-> 7, SwVersion |-> 8, SquelchLevel |-> 9, PresetSnapshot |-> 10,
            GeneralStatus |-> 11, Mode |-> 12, SquelchStatus |-> 13, WarpValue |-> 14,
            PowerTable |-> 16, TuningFilter |-> 17, Tone3090 |-> 19, AviationMode |-> 89,
            RxFilterBw |-> 90, Debug |-> 99]

InquiryEncode(inq) == <<"?">> \o Decimal(Inquiry[inq], 2)

\* The number in the n digits after the first byte p.
DigitsAfter(data, p, n) ==
    LET i == SelectInSeq(data, LAMBDA b : b = p) IN
    IF i > 0 /\ i + n <= Len(data) /\ \A k \in i + 1..i + n : IsDigit(data[k])
    THEN <<Number(SubSeq(data, i + 1, i + n))>> ELSE <<>>

\* All the fields of an answer, by prefix and width, or none.
Fields(data, widths) ==
    LET found == [p \in DOMAIN widths |-> DigitsAfter(data, p, widths[p])] IN
    IF \E p \in DOMAIN widths : found[p] = <<>> THEN <<>>
    ELSE <<[p \in DOMAIN widths |-> found[p][1]]>>

\* The name of a digit, or of an answer, in a table such as LampLevel.
Name(table, d) == Maybe({w \in DOMAIN table : table[w] = d})
Named(table, d) == Name(table, d) # <<>>

\* Mutant: any number of digits.
DecodeRssiLax(data) ==
    IF data # <<>> /\ data[1] = "N" /\ \A k \in 2..Len(data) : IsDigit(data[k])
    THEN <<[rssi |-> Number(Tail(data))]>> ELSE <<>>

DecodeRssi(data) ==
    IF Len(data) = 4 /\ data[1] = "N" /\ \A k \in 2..4 : IsDigit(data[k])
    THEN LET v == Number(Tail(data)) IN <<[rssi |-> IF v < 255 THEN v ELSE 255]>> ELSE <<>>

PresetFields == [p \in {"T", "R", "M", "N", "C", "P", "#"} |-> IF p \in {"T", "R"} THEN 7 ELSE 1]

DecodePreset(data) ==
    LET f == Fields(data, PresetFields) IN
    IF f = <<>> THEN <<>>
    ELSE LET v == f[1] IN
         IF ~(Named(ModMode, v.M) /\ Named(ModMode, v.N) /\ Named(PowerLevel, v["#"])) THEN <<>>
         ELSE <<[tx |-> v.T, rx |-> v.R, mod_tx_rx |-> Name(ModMode, v.M)[1],
                 mod_tx_only |-> Name(ModMode, v.N)[1], on_scan_list |-> v.C = 1,
                 preset |-> v.P, power |-> Name(PowerLevel, v["#"])[1]]>>

DecodeGeneral(data) ==
    LET f == Fields(data, [X |-> 1, J |-> 1, L |-> 1, d |-> 1, F |-> 1]) IN
    IF f = <<>> THEN <<>>
    ELSE LET v == f[1] IN
         IF ~(Named(TextMode, v.X) /\ Named(LampLevel, v.L)) THEN <<>>
         ELSE <<[text_mode |-> Name(TextMode, v.X)[1], speaker_on |-> v.J = 1,
                 lamp |-> Name(LampLevel, v.L)[1], overtemp |-> v.F = 1,
                 ebn30 |-> v.d \in {2, 6}, ebn400 |-> v.d \in {4, 6}]>>

\* Answers of two bytes.
SynthLock     == [b \in BOOLEAN |-> <<"A", IF b THEN "1" ELSE "0">>]
Mode          == [receive |-> <<"U", "0">>, transmit |-> <<"U", "1">>, beacon |-> <<"*", "1">>]
SquelchStatus == [b \in BOOLEAN |-> <<"[", IF b THEN "1" ELSE "0">>]

DecodeWord(data, key, table) ==
    IF Named(table, data) THEN <<[f \in {key} |-> Name(table, data)[1]]>> ELSE <<>>

\* What a browser is told, if the answer can be read.
Decode(inq, data) ==
    CASE inq = "Rssi"           -> DecodeRssi(data)
      [] inq = "PresetSnapshot" -> DecodePreset(data)
      [] inq = "GeneralStatus"  -> DecodeGeneral(data)
      [] inq = "SynthLock"      -> DecodeWord(data, "locked", SynthLock)
      [] inq = "SquelchStatus"  -> DecodeWord(data, "broken", SquelchStatus)
      [] inq = "Mode"           -> DecodeWord(data, "mode", Mode)
      [] OTHER -> <<>>

\* A NAK is never decoded.
Telemetry(inq, resp) == IF resp.kind = "nak" THEN <<>> ELSE Decode(inq, resp.data)
=============================================================================
