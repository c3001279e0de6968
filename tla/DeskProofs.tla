----------------------------- MODULE DeskProofs -----------------------------
(***************************************************************************)
(* Proofs about the desk, for any requests, files and surroundings of the  *)
(* radio: that the bytes of a command tell the radio what the command      *)
(* says, that an answer short of a byte is not read as another, and with   *)
(* these that what is acknowledged is done and what is shown is so.        *)
(*                                                                         *)
(* Frequencies are compared, never taken from an interval: the provers     *)
(* would list its members.  Leaves that hold such numbers cite SMT, which  *)
(* reads them as numbers.                                                  *)
(***************************************************************************)
EXTENDS Desk, TLAPS, WellFoundedInduction

Digit == ToSet(Digits)

-----------------------------------------------------------------------------
(* Digits and numbers.                                                     *)

LEMMA DigitSet == Digit = {"0", "1", "2", "3", "4", "5", "6", "7", "8", "9"}
  BY DEF Digit, ToSet, Digits

LEMMA DigitDomain == DOMAIN DigitValue = Digit /\ \A b : IsDigit(b) <=> b \in Digit
  BY DEF DigitValue, IsDigit, Digit

LEMMA Bytes ==
  /\ Byte(0) = "0" /\ Byte(1) = "1" /\ Byte(2) = "2" /\ Byte(3) = "3" /\ Byte(4) = "4"
  /\ Byte(5) = "5" /\ Byte(6) = "6" /\ Byte(7) = "7" /\ Byte(8) = "8" /\ Byte(9) = "9"
  BY DEF Byte, Digits

LEMMA ByteValue == \A d \in 0..9 : Byte(d) \in Digit /\ DigitValue[Byte(d)] = d
<1>1. \A d \in 0..9 : Byte(d) \in Digit /\ \A e \in 0..9 : Byte(e) = Byte(d) => e = d
  BY Bytes, DigitSet
<1>2. \A b \in Digit : DigitValue[b] = CHOOSE d \in 0..9 : Byte(d) = b
  BY DEF DigitValue, Digit
<1> QED
  BY <1>1, <1>2

(* Cutting a number into its decimals loses nothing.                       *)
LEMMA Split ==
  ASSUME NEW n \in Nat
  PROVE  /\ n \div 10 \in Nat
         /\ n = 10 * (n \div 10) + (n % 10)
         /\ n % 10 \in 0..9
         /\ (n \div 10) \div 10 = n \div 100
         /\ (n \div 100) \div 10 = n \div 1000
         /\ (n \div 1000) \div 10 = n \div 10000
         /\ (n \div 10000) \div 10 = n \div 100000
         /\ (n \div 100000) \div 10 = n \div 1000000
         /\ (n \div 1000000) \div 10 = n \div 10000000
  BY SMT

LEMMA Decimals ==
  ASSUME NEW n \in Nat, n <= 9999999
  PROVE  n = (n % 10) + 10 * ((n \div 10) % 10) + 100 * ((n \div 100) % 10)
             + 1000 * ((n \div 1000) % 10) + 10000 * ((n \div 10000) % 10)
             + 100000 * ((n \div 100000) % 10) + 1000000 * ((n \div 1000000) % 10)
<1>1. /\ n \div 10 \in Nat /\ n \div 100 \in Nat /\ n \div 1000 \in Nat /\ n \div 10000 \in Nat
      /\ n \div 100000 \in Nat /\ n \div 1000000 \in Nat
  BY SMT
<1>2. /\ n \div 10 = 10 * (n \div 100) + ((n \div 10) % 10)
      /\ n \div 100 = 10 * (n \div 1000) + ((n \div 100) % 10)
      /\ n \div 1000 = 10 * (n \div 10000) + ((n \div 1000) % 10)
      /\ n \div 10000 = 10 * (n \div 100000) + ((n \div 10000) % 10)
      /\ n \div 100000 = 10 * (n \div 1000000) + ((n \div 100000) % 10)
  BY SMT, <1>1, Split
<1>3. (n \div 1000000) % 10 = n \div 1000000
  <2>1. n \div 1000000 <= 9
    BY SMT
  <2> QED
    BY SMT, <1>1, <2>1
<1>4. /\ n % 10 \in Nat /\ (n \div 10) % 10 \in Nat /\ (n \div 100) % 10 \in Nat
      /\ (n \div 1000) % 10 \in Nat /\ (n \div 10000) % 10 \in Nat /\ (n \div 100000) % 10 \in Nat
  BY SMT, <1>1, Split
<1> QED
  BY SMT, <1>1, <1>2, <1>3, <1>4, Split

LEMMA WorthType == \A k \in 1..7 : Worth[k] \in Nat \ {0}
  BY SMT DEF Worth

LEMMA DecimalDigits ==
  ASSUME NEW n \in Nat, NEW w \in 1..7
  PROVE  /\ Decimal(n, w) \in Seq(Digit) /\ Len(Decimal(n, w)) = w
         /\ \A k \in 1..w : Place(Decimal(n, w), k) = (n \div Worth[k]) % 10
         /\ \A k \in 1..7 : k > w => Place(Decimal(n, w), k) = 0
<1>1. \A k \in 1..7 : (n \div Worth[k]) % 10 \in 0..9
  <2>1. TAKE k \in 1..7
  <2>2. PICK x \in Nat : x = n \div Worth[k]
    BY WorthType
  <2> QED
    BY <2>2
<1>2. \A i \in 1..w : w - i + 1 \in 1..7 /\ w - i + 1 \in 1..w
  OBVIOUS
<1>3. \A i \in 1..w : /\ Decimal(n, w)[i] \in Digit
                      /\ DigitValue[Decimal(n, w)[i]] = (n \div Worth[w - i + 1]) % 10
  BY <1>1, <1>2, ByteValue DEF Decimal
<1>4. Decimal(n, w) = [i \in 1..w |-> Decimal(n, w)[i]]
  BY DEF Decimal
<1>5. Decimal(n, w) \in [1..w -> Digit]
  BY <1>3, <1>4
<1>6. Decimal(n, w) \in Seq(Digit) /\ Len(Decimal(n, w)) = w
  BY <1>5
<1>7. ASSUME NEW k \in 1..w
      PROVE  Place(Decimal(n, w), k) = (n \div Worth[k]) % 10
  <2>1. w - k + 1 \in 1..w /\ w - (w - k + 1) + 1 = k
    OBVIOUS
  <2>2. Len(Decimal(n, w)) - k + 1 = w - k + 1 /\ k <= Len(Decimal(n, w))
    BY <1>6
  <2>3. Place(Decimal(n, w), k) = DigitValue[Decimal(n, w)[w - k + 1]]
    BY <2>2 DEF Place
  <2> QED
    BY <2>1, <2>3, <1>3
<1> QED
  BY <1>6, <1>7 DEF Place

(* A number that fits is read back as it was written.                      *)
LEMMA WrittenAndRead ==
  ASSUME NEW n \in Nat, NEW w \in {3, 6, 7}, n < 10 * Worth[w]
  PROVE  /\ Decimal(n, w) \in Seq(Digit) /\ Len(Decimal(n, w)) = w
         /\ Number(Decimal(n, w)) = n
<1> DEFINE s == Decimal(n, w)
<1>1. /\ s \in Seq(Digit) /\ Len(s) = w
      /\ \A k \in 1..w : Place(s, k) = (n \div Worth[k]) % 10
      /\ \A k \in 1..7 : k > w => Place(s, k) = 0
  <2>1. w \in 1..7
    OBVIOUS
  <2> QED
    BY <2>1, DecimalDigits
<1>2. /\ Worth[1] = 1 /\ Worth[2] = 10 /\ Worth[3] = 100 /\ Worth[4] = 1000 /\ Worth[5] = 10000
      /\ Worth[6] = 100000 /\ Worth[7] = 1000000
  BY SMT DEF Worth
<1> HIDE DEF s
<1>3. n \div 1 = n
  BY SMT
<1>4. n <= 9999999
  BY SMT, <1>2
<1>5. \A k \in 1..7 : k > w => (n \div Worth[k]) % 10 = 0
  <2>1. CASE w = 3
    <3>1. n \div 1000 = 0 /\ n \div 10000 = 0 /\ n \div 100000 = 0 /\ n \div 1000000 = 0
      BY SMT, <2>1, <1>2
    <3> QED
      BY SMT, <2>1, <3>1, <1>2
  <2>2. CASE w = 6
    <3>1. n \div 1000000 = 0
      BY SMT, <2>2, <1>2
    <3> QED
      BY SMT, <2>2, <3>1, <1>2
  <2> QED
    BY <2>1, <2>2
<1>6. \A k \in 1..7 : Place(s, k) = (n \div Worth[k]) % 10
  BY <1>1, <1>5
<1>a. /\ Place(s, 1) = n % 10 /\ Place(s, 2) = (n \div 10) % 10 /\ Place(s, 3) = (n \div 100) % 10
      /\ Place(s, 4) = (n \div 1000) % 10 /\ Place(s, 5) = (n \div 10000) % 10
      /\ Place(s, 6) = (n \div 100000) % 10 /\ Place(s, 7) = (n \div 1000000) % 10
  BY SMT, <1>6, <1>2, <1>3
<1>7. Number(s) = (n % 10) + 10 * ((n \div 10) % 10) + 100 * ((n \div 100) % 10)
             + 1000 * ((n \div 1000) % 10) + 10000 * ((n \div 10000) % 10)
             + 100000 * ((n \div 100000) % 10) + 1000000 * ((n \div 1000000) % 10)
  BY SMT, <1>a DEF Number
<1>8. Number(s) = n
  BY SMT, <1>7, <1>4, Decimals
<1> QED
  BY <1>1, <1>8 DEF s

(* One digit is its value.                                                 *)
LEMMA OneDigit ==
  ASSUME NEW d \in 0..9
  PROVE  <<Byte(d)>> \in Seq(Digit) /\ Len(<<Byte(d)>>) = 1 /\ Number(<<Byte(d)>>) = d
<1> DEFINE s == <<Byte(d)>>
<1>1. s \in Seq(Digit) /\ Len(s) = 1 /\ s[1] = Byte(d)
  BY ByteValue
<1> HIDE DEF s
<1>2. Place(s, 1) = d
  BY <1>1, ByteValue DEF Place
<1>3. \A k \in 2..7 : Place(s, k) = 0
  BY <1>1 DEF Place
<1>4. Number(s) = d
  BY SMT, <1>2, <1>3 DEF Number
<1> QED
  BY <1>1, <1>4 DEF s

-----------------------------------------------------------------------------
(* Frequencies: what FreqNew accepts comes back from the whole kHz that R  *)
(* and T carry.                                                            *)

Tunable(f) == f \in Nat /\ BandFor(f) # <<>> /\ (f % 125 = 0 \/ f % 50 = 0)

LEMMA BandLimits ==
  ASSUME NEW f \in Int, BandFor(f) # <<>>
  PROVE  Between(300000, f, 4200000)
  BY SMT DEF BandFor, Between

LEMMA NewIsTunable ==
  ASSUME NEW f \in Nat, NEW band \in {"Base", "Lvhf", "Uhf400"}, NEW step \in {"k25", "k12_5", "k5"},
         FreqNew(f, band, step)
  PROVE  Tunable(f)
<1>1. BandFor(f) # <<>>
  <2>1. InBand(f, band)
    BY DEF FreqNew
  <2>2. \/ Between(1150000, f, 1739950) \/ Between(2250000, f, 3999950)
        \/ Between(300000, f, 900000) \/ Between(4000000, f, 4200000)
    <3>1. CASE band = "Base"
      BY <2>1, <3>1 DEF InBand, Between
    <3>2. CASE band = "Lvhf"
      BY <2>1, <3>2 DEF InBand
    <3>3. CASE band = "Uhf400"
      BY <2>1, <3>3 DEF InBand
    <3> QED
      BY <3>1, <3>2, <3>3
  <2> QED
    BY SMT, <2>2 DEF BandFor
<1>2. f % 250 = 0 \/ f % 125 = 0 \/ f % 50 = 0
  BY DEF FreqNew, Aligned, Step
<1>3. f % 250 = 0 => f % 125 = 0
  BY SMT
<1> QED
  BY <1>1, <1>2, <1>3 DEF Tunable

(* The seventh digit, which is not sent, is the one the radio puts there.  *)
LEMMA HeardAsMeant ==
  ASSUME NEW f, Tunable(f)
  PROVE  /\ f \div 10 \in Nat /\ f \div 10 < 1000000
         /\ Heard(f \div 10) = f
         /\ BandFor(10 * (f \div 10)) # <<>>
<1> DEFINE khz == f \div 10
<1>1. f \in Nat /\ Between(300000, f, 4200000)
  BY BandLimits DEF Tunable
<1>2. khz \in Nat /\ khz < 1000000
  BY SMT, <1>1 DEF Between
<1>3. Heard(khz) = f /\ (f = 10 * khz \/ f = 10 * khz + 5)
  <2>1. CASE f % 50 = 0
    <3>1. PICK m \in Nat : f = 50 * m
      <4>1. f = 50 * (f \div 50) + (f % 50) /\ f \div 50 \in Nat
        BY SMT, <1>1
      <4> QED
        BY <4>1, <2>1
    <3>2. khz = 5 * m
      BY SMT, <3>1
    <3>3. khz % 25 # 12
      BY SMT, <3>2
    <3> QED
      BY SMT, <3>1, <3>2, <3>3 DEF Heard
  <2>2. CASE f % 125 = 0
    <3>1. PICK m \in Nat : f = 125 * m
      <4>1. f = 125 * (f \div 125) + (f % 125) /\ f \div 125 \in Nat
        BY SMT, <1>1
      <4> QED
        BY <4>1, <2>2
    <3>2. PICK j \in Nat : m = 2 * j \/ m = 2 * j + 1
      <4>1. m = 2 * (m \div 2) + (m % 2) /\ m \div 2 \in Nat /\ m % 2 \in {0, 1}
        BY SMT
      <4> QED
        BY <4>1
    <3>3. CASE m = 2 * j
      <4>1. khz = 25 * j /\ f = 10 * khz
        BY SMT, <3>1, <3>3
      <4>2. khz % 25 = 0
        BY SMT, <4>1
      <4> QED
        BY SMT, <4>1, <4>2, <1>2 DEF Heard
    <3>4. CASE m = 2 * j + 1
      <4>1. khz = 25 * j + 12 /\ f = 10 * khz + 5
        BY SMT, <3>1, <3>4
      <4>2. khz % 25 = 12
        BY SMT, <4>1
      <4> QED
        BY SMT, <4>1, <4>2, <1>2 DEF Heard
    <3> QED
      BY <3>2, <3>3, <3>4
  <2> QED
    BY <2>1, <2>2 DEF Tunable
<1>4. BandFor(10 * khz) # <<>>
  BY SMT, <1>1, <1>2, <1>3 DEF Tunable, BandFor, Between
<1> QED
  BY <1>2, <1>3, <1>4

-----------------------------------------------------------------------------
(* Commands: what the radio reads is what the command says.                *)

Hz   == {f \in Nat : Between(300000, f, 4200000)}
Slot == [rx : Hz, tx : Hz, mod : 0..1, modTx : 0..1, member : 0..1, power : 0..2]

RadioFields == {"preset", "slots", "ram", "text", "lamp", "speaker", "scan", "squelch", "mode", "rssi",
                "broken", "locked", "hot", "options", "extra"}

Holds(x) ==
    CASE x \in {"preset", "options"} -> 0..9
      [] x = "slots" -> [0..9 -> Slot]
      [] x = "ram"   -> Slot
      [] x = "lamp"  -> 0..3
      [] x \in {"text", "speaker", "scan", "hot"} -> 0..1
      [] x \in {"squelch", "rssi"} -> 0..255
      [] x = "mode"  -> {"receive", "transmit", "beacon"}
      [] x \in {"broken", "locked"} -> BOOLEAN
      [] x = "extra" -> {e \in Seq(Digit) : Len(e) <= 200}

IsRadio(r) == r = [x \in RadioFields |-> r[x]] /\ \A x \in RadioFields : r[x] \in Holds(x)

(* The commands that handlers send.                                        *)
Commands == [op : {"Preset"}, arg : 0..9]
     \union [op : {"SetRx", "SetTx"}, arg : {f \in Nat : Tunable(f)}]
     \union [op : {"ModTxRx", "ModTxOnly"}, arg : {"am", "fm"}]
     \union [op : {"Lamp"}, arg : {"off", "lo", "med", "hi"}]
     \union [op : {"Power"}, arg : {"lo", "med", "hi"}]
     \union [op : {"Text"}, arg : {"pt", "ct"}]
     \union [op : {"Speaker", "Scan", "ScanListMember"}, arg : {"on", "off"}]
     \union [op : {"Squelch"}, arg : 0..255]
     \union [op : {"StorePreset"}, arg : {""}]

(* The number that a command carries.                                      *)
Carried(c) ==
    CASE c.op \in {"Preset", "Squelch"} -> c.arg
      [] c.op \in {"SetRx", "SetTx"} -> c.arg \div 10
      [] c.op \in {"ModTxRx", "ModTxOnly"} -> ModMode[c.arg]
      [] c.op = "Lamp" -> LampLevel[c.arg]
      [] c.op = "Power" -> PowerLevel[c.arg]
      [] c.op = "Text" -> TextMode[c.arg]
      [] c.op \in {"Speaker", "Scan", "ScanListMember"} -> Flag[c.arg]
      [] OTHER -> 0

LEMMA Widths ==
  /\ DOMAIN Width = Letters
  /\ {"R", "T", "P", "M", "N", "X", "L", "J", "C", "S", "Q", "$", "#"} \subseteq Letters
  /\ Width["R"] = 6 /\ Width["T"] = 6 /\ Width["P"] = 1 /\ Width["M"] = 1 /\ Width["N"] = 1
  /\ Width["X"] = 1 /\ Width["L"] = 1 /\ Width["J"] = 1 /\ Width["C"] = 1 /\ Width["S"] = 1
  /\ Width["Q"] = 0 /\ Width["$"] = 3 /\ Width["#"] = 1
  BY DEF Width, Letters

(* A letter and digits.                                                    *)
LEMMA Prefixed ==
  ASSUME NEW p, NEW a \in Seq(Digit)
  PROVE  /\ (<<p>> \o a)[1] = p /\ Len(<<p>> \o a) = 1 + Len(a)
         /\ Tail(<<p>> \o a) = a
         /\ \A k \in 2..Len(<<p>> \o a) : IsDigit((<<p>> \o a)[k])
<1> DEFINE s == <<p>> \o a
<1>1. /\ Len(s) = 1 + Len(a) /\ Len(a) \in Nat /\ s[1] = p
      /\ \A k \in 2..Len(s) : s[k] = a[k - 1]
  OBVIOUS
<1>2. Tail(s) = a
  OBVIOUS
<1>3. \A k \in 2..Len(s) : k - 1 \in 1..Len(a) /\ s[k] \in Digit
  BY <1>1
<1> QED
  BY <1>1, <1>2, <1>3, DigitDomain

LEMMA ArgumentRead ==
  ASSUME NEW c \in Commands
  PROVE  /\ Argument(c.op, c.arg) \in Seq(Digit)
         /\ Len(Argument(c.op, c.arg)) = Width[Prefix[c.op]]
         /\ Prefix[c.op] \in DOMAIN Width
         /\ Number(Argument(c.op, c.arg)) = Carried(c)
<1>1. CASE c \in [op : {"Preset"}, arg : 0..9]
  <2>1. Argument(c.op, c.arg) = <<Byte(c.arg)>> /\ Prefix[c.op] = "P" /\ Carried(c) = c.arg
    BY <1>1 DEF Argument, Prefix, Carried
  <2> QED
    BY <1>1, <2>1, OneDigit, Widths
<1>2. CASE c \in [op : {"SetRx", "SetTx"}, arg : {f \in Nat : Tunable(f)}]
  <2>1. /\ Argument(c.op, c.arg) = Decimal(c.arg \div 10, 6) /\ Prefix[c.op] \in {"R", "T"}
        /\ Carried(c) = c.arg \div 10
    BY <1>2 DEF Argument, Prefix, Carried, FreqEncode
  <2>2. c.arg \div 10 \in Nat /\ c.arg \div 10 < 1000000
    BY <1>2, HeardAsMeant
  <2>3. 10 * Worth[6] = 1000000
    BY SMT DEF Worth
  <2>4. /\ Decimal(c.arg \div 10, 6) \in Seq(Digit) /\ Len(Decimal(c.arg \div 10, 6)) = 6
        /\ Number(Decimal(c.arg \div 10, 6)) = c.arg \div 10
    BY SMT, <2>2, <2>3, WrittenAndRead
  <2> QED
    BY <2>1, <2>4, Widths
<1>3. CASE c \in [op : {"ModTxRx", "ModTxOnly"}, arg : {"am", "fm"}]
  <2>1. /\ Argument(c.op, c.arg) = <<Byte(ModMode[c.arg])>> /\ Prefix[c.op] \in {"M", "N"}
        /\ Carried(c) = ModMode[c.arg] /\ ModMode[c.arg] \in 0..9
    BY <1>3 DEF Argument, Prefix, Carried, ModMode
  <2> QED
    BY <2>1, OneDigit, Widths
<1>4. CASE c \in [op : {"Lamp"}, arg : {"off", "lo", "med", "hi"}]
  <2>1. /\ Argument(c.op, c.arg) = <<Byte(LampLevel[c.arg])>> /\ Prefix[c.op] = "L"
        /\ Carried(c) = LampLevel[c.arg] /\ LampLevel[c.arg] \in 0..9
    BY <1>4 DEF Argument, Prefix, Carried, LampLevel
  <2> QED
    BY <2>1, OneDigit, Widths
<1>5. CASE c \in [op : {"Power"}, arg : {"lo", "med", "hi"}]
  <2>1. /\ Argument(c.op, c.arg) = <<Byte(PowerLevel[c.arg])>> /\ Prefix[c.op] = "#"
        /\ Carried(c) = PowerLevel[c.arg] /\ PowerLevel[c.arg] \in 0..9
    BY <1>5 DEF Argument, Prefix, Carried, PowerLevel
  <2> QED
    BY <2>1, OneDigit, Widths
<1>6. CASE c \in [op : {"Text"}, arg : {"pt", "ct"}]
  <2>1. /\ Argument(c.op, c.arg) = <<Byte(TextMode[c.arg])>> /\ Prefix[c.op] = "X"
        /\ Carried(c) = TextMode[c.arg] /\ TextMode[c.arg] \in 0..9
    BY <1>6 DEF Argument, Prefix, Carried, TextMode
  <2> QED
    BY <2>1, OneDigit, Widths
<1>7. CASE c \in [op : {"Speaker", "Scan", "ScanListMember"}, arg : {"on", "off"}]
  <2>1. /\ Argument(c.op, c.arg) = <<Byte(Flag[c.arg])>> /\ Prefix[c.op] \in {"J", "S", "C"}
        /\ Carried(c) = Flag[c.arg] /\ Flag[c.arg] \in 0..9
    BY <1>7 DEF Argument, Prefix, Carried, Flag
  <2> QED
    BY <2>1, OneDigit, Widths
<1>8. CASE c \in [op : {"Squelch"}, arg : 0..255]
  <2>1. /\ Argument(c.op, c.arg) = Decimal(c.arg, 3) /\ Prefix[c.op] = "$" /\ Carried(c) = c.arg
    BY <1>8 DEF Argument, Prefix, Carried
  <2>2. c.arg \in Nat /\ c.arg < 10 * Worth[3]
    BY SMT, <1>8 DEF Worth
  <2> QED
    BY <2>1, <2>2, WrittenAndRead, Widths
<1>9. CASE c \in [op : {"StorePreset"}, arg : {""}]
  <2>1. Argument(c.op, c.arg) = <<>> /\ Prefix[c.op] = "Q" /\ Carried(c) = 0
    <3>1. c.op = "StorePreset"
      BY <1>9
    <3>2. Prefix[c.op] = "Q"
      BY <3>1 DEF Prefix
    <3>3. Argument(c.op, c.arg) = <<>>
      BY <3>1 DEF Argument
    <3> QED
      BY <3>1, <3>2, <3>3 DEF Carried
  <2>2. Number(<<>>) = 0
    <3>1. \A k \in 1..7 : Place(<<>>, k) = 0
      BY DEF Place
    <3> QED
      BY SMT, <3>1 DEF Number
  <2> QED
    BY <2>1, <2>2, Widths
<1> QED
  BY <1>1, <1>2, <1>3, <1>4, <1>5, <1>6, <1>7, <1>8, <1>9 DEF Commands

(* The letter and the number that a radio finds in a command's bytes.      *)
LEMMA CommandRead ==
  ASSUME NEW c \in Commands, NEW r
  PROVE  /\ Obeys(r, Encode(c)) <=> Known(r, Prefix[c.op], Carried(c))
         /\ After(r, Encode(c)) = Effect(r, Prefix[c.op], Carried(c))
<1> DEFINE a == Argument(c.op, c.arg)
<1>1. /\ a \in Seq(Digit) /\ Len(a) = Width[Prefix[c.op]] /\ Prefix[c.op] \in DOMAIN Width
      /\ Number(a) = Carried(c)
  BY ArgumentRead
<1>2. Encode(c) = <<Prefix[c.op]>> \o a
  BY DEF Encode
<1> HIDE DEF a
<1>3. /\ Encode(c)[1] = Prefix[c.op] /\ Len(Encode(c)) = 1 + Len(a) /\ Tail(Encode(c)) = a
      /\ \A k \in 2..Len(Encode(c)) : IsDigit(Encode(c)[k])
  BY <1>1, <1>2, Prefixed
<1> HIDE DEF Encode
<1> QED
  BY <1>1, <1>3 DEF Obeys, After

(* The fields that a command may change, and what it leaves a field at.    *)
Alters(c) ==
    CASE c.op = "Preset"    -> {"preset", "rx", "tx", "mod_tx_rx", "mod_tx_only", "on_scan_list", "power"}
      [] c.op = "SetRx"     -> {"rx"}
      [] c.op = "SetTx"     -> {"tx"}
      [] c.op = "ModTxRx"   -> {"mod_tx_rx", "mod_tx_only"}
      [] c.op = "ModTxOnly" -> {"mod_tx_only"}
      [] c.op = "Lamp"      -> {"lamp"}
      [] c.op = "Power"     -> {"power"}
      [] c.op = "Text"      -> {"text_mode"}
      [] c.op = "Speaker"   -> {"speaker_on"}
      [] c.op = "Scan"      -> {"scan"}
      [] c.op = "ScanListMember" -> {"on_scan_list"}
      [] c.op = "Squelch"   -> {"squelch"}
      [] c.op = "StorePreset" -> {"slots"}

Sets(c, f, v) ==
    \/ c.op = "Preset"    /\ f = "preset"      /\ v = c.arg
    \/ c.op = "SetRx"     /\ f = "rx"          /\ v = c.arg
    \/ c.op = "SetTx"     /\ f = "tx"          /\ v = c.arg
    \/ c.op = "ModTxRx"   /\ f = "mod_tx_rx"   /\ v = c.arg
    \/ c.op = "ModTxOnly" /\ f = "mod_tx_only" /\ v = c.arg
    \/ c.op = "Lamp"      /\ f = "lamp"        /\ v = c.arg
    \/ c.op = "Power"     /\ f = "power"       /\ v = c.arg
    \/ c.op = "Text"      /\ f = "text_mode"   /\ v = c.arg
    \/ c.op = "Squelch"   /\ f = "squelch"     /\ v = c.arg
    \/ c.op = "Speaker"   /\ f = "speaker_on"  /\ v = (c.arg = "on")
    \/ c.op = "Scan"      /\ f = "scan"        /\ v = (c.arg = "on")
    \/ c.op = "ScanListMember" /\ f = "on_scan_list" /\ v = (c.arg = "on")

LEMMA ViewFields ==
  ASSUME NEW r
  PROVE  DOMAIN View(r) = {"text_mode", "speaker_on", "lamp", "scan", "squelch", "preset", "rx", "tx",
            "mod_tx_rx", "mod_tx_only", "on_scan_list", "power", "slots", "mode", "rssi", "broken",
            "locked", "overtemp", "ebn30", "ebn400"}
  BY DEF View

(* A field of the view changes only with what it is a view of.             *)
LEMMA ViewSame ==
  ASSUME NEW r, NEW q
  PROVE  /\ q.text = r.text => View(q)["text_mode"] = View(r)["text_mode"]
         /\ q.speaker = r.speaker => View(q)["speaker_on"] = View(r)["speaker_on"]
         /\ q.lamp = r.lamp => View(q)["lamp"] = View(r)["lamp"]
         /\ q.scan = r.scan => View(q)["scan"] = View(r)["scan"]
         /\ q.squelch = r.squelch => View(q)["squelch"] = View(r)["squelch"]
         /\ q.preset = r.preset => View(q)["preset"] = View(r)["preset"]
         /\ q.ram.rx = r.ram.rx => View(q)["rx"] = View(r)["rx"]
         /\ q.ram.tx = r.ram.tx => View(q)["tx"] = View(r)["tx"]
         /\ q.ram.mod = r.ram.mod => View(q)["mod_tx_rx"] = View(r)["mod_tx_rx"]
         /\ q.ram.modTx = r.ram.modTx => View(q)["mod_tx_only"] = View(r)["mod_tx_only"]
         /\ q.ram.member = r.ram.member => View(q)["on_scan_list"] = View(r)["on_scan_list"]
         /\ q.ram.power = r.ram.power => View(q)["power"] = View(r)["power"]
         /\ q.slots = r.slots => View(q)["slots"] = View(r)["slots"]
         /\ q.mode = r.mode => View(q)["mode"] = View(r)["mode"]
         /\ q.rssi = r.rssi => View(q)["rssi"] = View(r)["rssi"]
         /\ q.broken = r.broken => View(q)["broken"] = View(r)["broken"]
         /\ q.locked = r.locked => View(q)["locked"] = View(r)["locked"]
         /\ q.hot = r.hot => View(q)["overtemp"] = View(r)["overtemp"]
         /\ q.options = r.options => /\ View(q)["ebn30"] = View(r)["ebn30"]
                                    /\ View(q)["ebn400"] = View(r)["ebn400"]
<1>1. /\ q.text = r.text => View(q)["text_mode"] = View(r)["text_mode"]
      /\ q.lamp = r.lamp => View(q)["lamp"] = View(r)["lamp"]
      /\ q.ram.power = r.ram.power => View(q)["power"] = View(r)["power"]
      /\ q.ram.mod = r.ram.mod => View(q)["mod_tx_rx"] = View(r)["mod_tx_rx"]
      /\ q.ram.modTx = r.ram.modTx => View(q)["mod_tx_only"] = View(r)["mod_tx_only"]
  BY Zenon DEF View
<1>2. /\ q.speaker = r.speaker => View(q)["speaker_on"] = View(r)["speaker_on"]
      /\ q.scan = r.scan => View(q)["scan"] = View(r)["scan"]
      /\ q.ram.member = r.ram.member => View(q)["on_scan_list"] = View(r)["on_scan_list"]
      /\ q.hot = r.hot => View(q)["overtemp"] = View(r)["overtemp"]
  BY Zenon DEF View
<1>3. q.options = r.options => /\ View(q)["ebn30"] = View(r)["ebn30"]
                               /\ View(q)["ebn400"] = View(r)["ebn400"]
  BY Zenon DEF View
<1>4. /\ q.squelch = r.squelch => View(q)["squelch"] = View(r)["squelch"]
      /\ q.preset = r.preset => View(q)["preset"] = View(r)["preset"]
      /\ q.ram.rx = r.ram.rx => View(q)["rx"] = View(r)["rx"]
      /\ q.ram.tx = r.ram.tx => View(q)["tx"] = View(r)["tx"]
      /\ q.slots = r.slots => View(q)["slots"] = View(r)["slots"]
      /\ q.mode = r.mode => View(q)["mode"] = View(r)["mode"]
      /\ q.rssi = r.rssi => View(q)["rssi"] = View(r)["rssi"]
      /\ q.broken = r.broken => View(q)["broken"] = View(r)["broken"]
      /\ q.locked = r.locked => View(q)["locked"] = View(r)["locked"]
  BY Zenon DEF View
<1> QED
  BY <1>1, <1>2, <1>3, <1>4

LEMMA ArgumentOf ==
  ASSUME NEW c \in Commands
  PROVE  /\ c.op \in {"Preset", "SetRx", "SetTx", "ModTxRx", "ModTxOnly", "Lamp", "Power", "Text",
                     "Speaker", "Scan", "ScanListMember", "Squelch", "StorePreset"}
         /\ c.op = "Preset" => c.arg \in 0..9
         /\ c.op \in {"SetRx", "SetTx"} => Tunable(c.arg)
         /\ c.op \in {"ModTxRx", "ModTxOnly"} => c.arg \in {"am", "fm"}
         /\ c.op = "Lamp" => c.arg \in {"off", "lo", "med", "hi"}
         /\ c.op = "Power" => c.arg \in {"lo", "med", "hi"}
         /\ c.op = "Text" => c.arg \in {"pt", "ct"}
         /\ c.op \in {"Speaker", "Scan", "ScanListMember"} => c.arg \in {"on", "off"}
         /\ c.op = "Squelch" => c.arg \in 0..255
  BY DEF Commands

(* q is r, but for the fields xs.                                          *)
Differs(q, r, xs) == q = [x \in RadioFields |-> q[x]] /\ \A x \in RadioFields \ xs : q[x] = r[x]

LEMMA StillRadio ==
  ASSUME NEW r, IsRadio(r), NEW q, NEW xs, Differs(q, r, xs), \A x \in xs : q[x] \in Holds(x)
  PROVE  IsRadio(q)
  BY DEF IsRadio, Differs

LEMMA HoldsOf ==
  /\ Holds("preset") = 0..9 /\ Holds("options") = 0..9
  /\ Holds("slots") = [0..9 -> Slot] /\ Holds("ram") = Slot /\ Holds("lamp") = 0..3
  /\ Holds("text") = 0..1 /\ Holds("speaker") = 0..1 /\ Holds("scan") = 0..1 /\ Holds("hot") = 0..1
  /\ Holds("squelch") = 0..255 /\ Holds("rssi") = 0..255
  /\ Holds("mode") = {"receive", "transmit", "beacon"}
  /\ Holds("broken") = BOOLEAN /\ Holds("locked") = BOOLEAN
  /\ Holds("extra") = {e \in Seq(Digit) : Len(e) <= 200}
  BY DEF Holds

LEMMA PartsOf ==
  ASSUME NEW r, IsRadio(r)
  PROVE  /\ r.preset \in 0..9 /\ r.options \in 0..9 /\ r.slots \in [0..9 -> Slot] /\ r.ram \in Slot
         /\ r.lamp \in 0..3 /\ r.text \in 0..1 /\ r.speaker \in 0..1 /\ r.scan \in 0..1 /\ r.hot \in 0..1
         /\ r.squelch \in 0..255 /\ r.rssi \in 0..255 /\ r.mode \in {"receive", "transmit", "beacon"}
         /\ r.broken \in BOOLEAN /\ r.locked \in BOOLEAN
         /\ r.extra \in {e \in Seq(Digit) : Len(e) <= 200}
  BY HoldsOf DEF IsRadio, RadioFields

LEMMA RecordOf ==
  ASSUME NEW r, IsRadio(r)
  PROVE  r = [x \in RadioFields |-> r[x]]
  BY DEF IsRadio

(* The end to end meaning of each command: what the radio makes of its     *)
(* bytes, in the words of the command.                                     *)
LEMMA EffectOf ==
  ASSUME NEW c \in Commands, NEW r, NEW q, q = After(r, Encode(c))
  PROVE  /\ c.op = "Preset" => q = [r EXCEPT !.preset = c.arg, !.ram = r.slots[c.arg]]
         /\ c.op = "SetRx" => q = [r EXCEPT !.ram = [r.ram EXCEPT !.rx = c.arg]]
         /\ c.op = "SetTx" => q = [r EXCEPT !.ram = [r.ram EXCEPT !.tx = c.arg]]
         /\ c.op = "ModTxRx" => q = [r EXCEPT !.ram = [r.ram EXCEPT !.mod = ModMode[c.arg],
                                                                    !.modTx = ModMode[c.arg]]]
         /\ c.op = "ModTxOnly" => q = [r EXCEPT !.ram = [r.ram EXCEPT !.modTx = ModMode[c.arg]]]
         /\ c.op = "Lamp" => q = [r EXCEPT !.lamp = LampLevel[c.arg]]
         /\ c.op = "Power" => q = [r EXCEPT !.ram = [r.ram EXCEPT !.power = PowerLevel[c.arg]]]
         /\ c.op = "Text" => q = [r EXCEPT !.text = TextMode[c.arg]]
         /\ c.op = "Speaker" => q = [r EXCEPT !.speaker = Flag[c.arg]]
         /\ c.op = "Scan" => q = [r EXCEPT !.scan = Flag[c.arg]]
         /\ c.op = "ScanListMember" => q = [r EXCEPT !.ram = [r.ram EXCEPT !.member = Flag[c.arg]]]
         /\ c.op = "Squelch" => q = [r EXCEPT !.squelch = c.arg]
         /\ c.op = "StorePreset" => q = [r EXCEPT !.slots = [r.slots EXCEPT ![r.preset] = r.ram]]
<1>1. q = Effect(r, Prefix[c.op], Carried(c))
  BY CommandRead
<1>2. /\ c.op = "Preset" => Prefix[c.op] = "P" /\ Carried(c) = c.arg
      /\ c.op = "SetRx" => Prefix[c.op] = "R" /\ Carried(c) = c.arg \div 10
      /\ c.op = "SetTx" => Prefix[c.op] = "T" /\ Carried(c) = c.arg \div 10
      /\ c.op = "ModTxRx" => Prefix[c.op] = "M" /\ Carried(c) = ModMode[c.arg]
      /\ c.op = "ModTxOnly" => Prefix[c.op] = "N" /\ Carried(c) = ModMode[c.arg]
      /\ c.op = "Lamp" => Prefix[c.op] = "L" /\ Carried(c) = LampLevel[c.arg]
      /\ c.op = "Power" => Prefix[c.op] = "#" /\ Carried(c) = PowerLevel[c.arg]
      /\ c.op = "Text" => Prefix[c.op] = "X" /\ Carried(c) = TextMode[c.arg]
      /\ c.op = "Speaker" => Prefix[c.op] = "J" /\ Carried(c) = Flag[c.arg]
      /\ c.op = "Scan" => Prefix[c.op] = "S" /\ Carried(c) = Flag[c.arg]
      /\ c.op = "ScanListMember" => Prefix[c.op] = "C" /\ Carried(c) = Flag[c.arg]
      /\ c.op = "Squelch" => Prefix[c.op] = "$" /\ Carried(c) = c.arg
      /\ c.op = "StorePreset" => Prefix[c.op] = "Q"
  BY DEF Prefix, Carried
<1>3. c.op \in {"SetRx", "SetTx"} => Heard(c.arg \div 10) = c.arg
  BY ArgumentOf, HeardAsMeant
<1>4. /\ c.op = "SetRx" => q = [r EXCEPT !.ram = [r.ram EXCEPT !.rx = c.arg]]
      /\ c.op = "SetTx" => q = [r EXCEPT !.ram = [r.ram EXCEPT !.tx = c.arg]]
  BY <1>1, <1>2, <1>3 DEF Effect
<1>5. /\ c.op = "Preset" => q = [r EXCEPT !.preset = c.arg, !.ram = r.slots[c.arg]]
      /\ c.op = "StorePreset" => q = [r EXCEPT !.slots = [r.slots EXCEPT ![r.preset] = r.ram]]
  BY <1>1, <1>2 DEF Effect
<1>6. /\ c.op = "ModTxRx" => q = [r EXCEPT !.ram = [r.ram EXCEPT !.mod = ModMode[c.arg],
                                                                 !.modTx = ModMode[c.arg]]]
      /\ c.op = "ModTxOnly" => q = [r EXCEPT !.ram = [r.ram EXCEPT !.modTx = ModMode[c.arg]]]
  BY <1>1, <1>2 DEF Effect
<1>7. /\ c.op = "Power" => q = [r EXCEPT !.ram = [r.ram EXCEPT !.power = PowerLevel[c.arg]]]
      /\ c.op = "ScanListMember" => q = [r EXCEPT !.ram = [r.ram EXCEPT !.member = Flag[c.arg]]]
  BY <1>1, <1>2 DEF Effect
<1>8. /\ c.op = "Lamp" => q = [r EXCEPT !.lamp = LampLevel[c.arg]]
      /\ c.op = "Text" => q = [r EXCEPT !.text = TextMode[c.arg]]
      /\ c.op = "Speaker" => q = [r EXCEPT !.speaker = Flag[c.arg]]
      /\ c.op = "Scan" => q = [r EXCEPT !.scan = Flag[c.arg]]
      /\ c.op = "Squelch" => q = [r EXCEPT !.squelch = c.arg]
  BY <1>1, <1>2 DEF Effect
<1> QED
  BY <1>4, <1>5, <1>6, <1>7, <1>8

(* A command that is obeyed leaves a radio that differs in what the        *)
(* command alters, and has what it sets.                                   *)
Done(c, r, q) ==
    /\ IsRadio(q)
    /\ \A f \in DOMAIN View(r) : f \notin Alters(c) => View(q)[f] = View(r)[f]
    /\ \A f, v : Sets(c, f, v) => View(q)[f] = v
    /\ q.slots = IF c.op = "StorePreset" THEN [r.slots EXCEPT ![r.preset] = r.ram] ELSE r.slots
    /\ c.op = "StorePreset" => q.preset = r.preset /\ q.ram = r.ram

LEMMA CommandDone ==
  ASSUME NEW c \in Commands, NEW r, IsRadio(r), NEW q, q = After(r, Encode(c))
  PROVE  Done(c, r, q)
<1>1. CASE c.op = "Preset"
  <2>1. /\ c.arg \in 0..9 /\ r.slots[c.arg] \in Slot
        /\ Differs(q, r, {"preset", "ram"}) /\ q.preset = c.arg /\ q.ram = r.slots[c.arg]
    <3>1. c.arg \in 0..9 /\ r.slots[c.arg] \in Slot
      BY <1>1, ArgumentOf, PartsOf
    <3>2. q = [r EXCEPT !.preset = c.arg, !.ram = r.slots[c.arg]]
      BY <1>1, EffectOf
    <3> QED
      BY <3>1, <3>2, RecordOf DEF Differs, RadioFields
  <2>2. IsRadio(q)
    BY <2>1, StillRadio, HoldsOf
  <2>3. Alters(c) = {"preset", "rx", "tx", "mod_tx_rx", "mod_tx_only", "on_scan_list", "power"}
    BY <1>1 DEF Alters
  <2>4. \A f \in DOMAIN View(r) : f \notin Alters(c) => View(q)[f] = View(r)[f]
    BY <2>1, <2>3, ViewFields, ViewSame DEF Differs, RadioFields
  <2>5. \A f, v : Sets(c, f, v) => View(q)[f] = v
    <3>1. View(q)["preset"] = q.preset
      BY DEF View
    <3> QED
      BY <1>1, <2>1, <3>1 DEF Sets
  <2> QED
    BY <1>1, <2>1, <2>2, <2>4, <2>5 DEF Done, Differs, RadioFields
<1>2. CASE c.op = "StorePreset"
  <2>1. /\ [r.slots EXCEPT ![r.preset] = r.ram] \in [0..9 -> Slot]
        /\ Differs(q, r, {"slots"}) /\ q.slots = [r.slots EXCEPT ![r.preset] = r.ram]
    <3>1. [r.slots EXCEPT ![r.preset] = r.ram] \in [0..9 -> Slot]
      BY PartsOf
    <3>2. q = [r EXCEPT !.slots = [r.slots EXCEPT ![r.preset] = r.ram]]
      BY <1>2, EffectOf
    <3> QED
      BY <3>1, <3>2, RecordOf DEF Differs, RadioFields
  <2>2. IsRadio(q)
    <3>1. \A x \in {"slots"} : q[x] \in Holds(x)
      BY <2>1, HoldsOf
    <3> QED
      BY <2>1, <3>1, StillRadio
  <2>3. Alters(c) = {"slots"}
    BY <1>2 DEF Alters
  <2>4. \A f \in DOMAIN View(r) : f \notin Alters(c) => View(q)[f] = View(r)[f]
    BY <2>1, <2>3, ViewFields, ViewSame DEF Differs, RadioFields
  <2>5. \A f, v : ~Sets(c, f, v)
    BY <1>2 DEF Sets
  <2> QED
    BY <1>2, <2>1, <2>2, <2>4, <2>5 DEF Done, Differs, RadioFields
<1>3. CASE c.op = "SetRx"
  <2>1. c.arg \in Hz
    BY <1>3, ArgumentOf, BandLimits DEF Tunable, Hz
  <2>2. PICK s : s = [r.ram EXCEPT !.rx = c.arg]
    OBVIOUS
  <2>3. /\ s \in Slot /\ s.rx = c.arg
        /\ s.tx = r.ram.tx /\ s.mod = r.ram.mod /\ s.modTx = r.ram.modTx
           /\ s.member = r.ram.member /\ s.power = r.ram.power
    <3>1. r.ram \in Slot
      BY PartsOf
    <3> QED
      BY <2>1, <2>2, <3>1 DEF Slot
  <2>4. Differs(q, r, {"ram"}) /\ q.ram = s
    <3>1. q = [r EXCEPT !.ram = s]
      BY <1>3, <2>2, EffectOf
    <3> QED
      BY <3>1, RecordOf DEF Differs, RadioFields
  <2>5. IsRadio(q)
    BY <2>3, <2>4, StillRadio, HoldsOf
  <2>6. Alters(c) = {"rx"}
    BY <1>3 DEF Alters
  <2>7. \A f \in DOMAIN View(r) : f \notin Alters(c) => View(q)[f] = View(r)[f]
    BY <2>3, <2>4, <2>6, ViewFields, ViewSame DEF Differs, RadioFields
  <2>8. \A f, v : Sets(c, f, v) => View(q)[f] = v
    <3>1. View(q)["rx"] = q.ram.rx
      BY DEF View
    <3> QED
      BY <1>3, <2>3, <2>4, <3>1, ArgumentOf DEF Sets
  <2> QED
    BY <1>3, <2>4, <2>5, <2>7, <2>8 DEF Done, Differs, RadioFields
<1>4. CASE c.op = "SetTx"
  <2>1. c.arg \in Hz
    BY <1>4, ArgumentOf, BandLimits DEF Tunable, Hz
  <2>2. PICK s : s = [r.ram EXCEPT !.tx = c.arg]
    OBVIOUS
  <2>3. /\ s \in Slot /\ s.tx = c.arg
        /\ s.rx = r.ram.rx /\ s.mod = r.ram.mod /\ s.modTx = r.ram.modTx
           /\ s.member = r.ram.member /\ s.power = r.ram.power
    <3>1. r.ram \in Slot
      BY PartsOf
    <3> QED
      BY <2>1, <2>2, <3>1 DEF Slot
  <2>4. Differs(q, r, {"ram"}) /\ q.ram = s
    <3>1. q = [r EXCEPT !.ram = s]
      BY <1>4, <2>2, EffectOf
    <3> QED
      BY <3>1, RecordOf DEF Differs, RadioFields
  <2>5. IsRadio(q)
    BY <2>3, <2>4, StillRadio, HoldsOf
  <2>6. Alters(c) = {"tx"}
    BY <1>4 DEF Alters
  <2>7. \A f \in DOMAIN View(r) : f \notin Alters(c) => View(q)[f] = View(r)[f]
    BY <2>3, <2>4, <2>6, ViewFields, ViewSame DEF Differs, RadioFields
  <2>8. \A f, v : Sets(c, f, v) => View(q)[f] = v
    <3>1. View(q)["tx"] = q.ram.tx
      BY DEF View
    <3> QED
      BY <1>4, <2>3, <2>4, <3>1, ArgumentOf DEF Sets
  <2> QED
    BY <1>4, <2>4, <2>5, <2>7, <2>8 DEF Done, Differs, RadioFields
<1>5. CASE c.op = "ModTxRx"
  <2>1. ModMode[c.arg] \in 0..1
    BY <1>5, ArgumentOf DEF ModMode
  <2>2. PICK s : s = [r.ram EXCEPT !.mod = ModMode[c.arg], !.modTx = ModMode[c.arg]]
    OBVIOUS
  <2>3. /\ s \in Slot /\ s.mod = ModMode[c.arg]
        /\ s.rx = r.ram.rx /\ s.tx = r.ram.tx /\ s.member = r.ram.member /\ s.power = r.ram.power
    <3>1. r.ram \in Slot
      BY PartsOf
    <3> QED
      BY <2>1, <2>2, <3>1 DEF Slot
  <2>4. Differs(q, r, {"ram"}) /\ q.ram = s
    <3>1. q = [r EXCEPT !.ram = s]
      BY <1>5, <2>2, EffectOf
    <3> QED
      BY <3>1, RecordOf DEF Differs, RadioFields
  <2>5. IsRadio(q)
    BY <2>3, <2>4, StillRadio, HoldsOf
  <2>6. Alters(c) = {"mod_tx_rx", "mod_tx_only"}
    BY <1>5 DEF Alters
  <2>7. \A f \in DOMAIN View(r) : f \notin Alters(c) => View(q)[f] = View(r)[f]
    BY <2>3, <2>4, <2>6, ViewFields, ViewSame DEF Differs, RadioFields
  <2>8. \A f, v : Sets(c, f, v) => View(q)[f] = v
    <3>1. View(q)["mod_tx_rx"] = <<"am", "fm">>[q.ram.mod + 1]
      BY DEF View
    <3> QED
      BY <1>5, <2>3, <2>4, <3>1, ArgumentOf DEF Sets, ModMode
  <2> QED
    BY <1>5, <2>4, <2>5, <2>7, <2>8 DEF Done, Differs, RadioFields
<1>6. CASE c.op = "ModTxOnly"
  <2>1. ModMode[c.arg] \in 0..1
    BY <1>6, ArgumentOf DEF ModMode
  <2>2. PICK s : s = [r.ram EXCEPT !.modTx = ModMode[c.arg]]
    OBVIOUS
  <2>3. /\ s \in Slot /\ s.modTx = ModMode[c.arg]
        /\ s.rx = r.ram.rx /\ s.tx = r.ram.tx /\ s.mod = r.ram.mod /\ s.member = r.ram.member
           /\ s.power = r.ram.power
    <3>1. r.ram \in Slot
      BY PartsOf
    <3> QED
      BY <2>1, <2>2, <3>1 DEF Slot
  <2>4. Differs(q, r, {"ram"}) /\ q.ram = s
    <3>1. q = [r EXCEPT !.ram = s]
      BY <1>6, <2>2, EffectOf
    <3> QED
      BY <3>1, RecordOf DEF Differs, RadioFields
  <2>5. IsRadio(q)
    BY <2>3, <2>4, StillRadio, HoldsOf
  <2>6. Alters(c) = {"mod_tx_only"}
    BY <1>6 DEF Alters
  <2>7. \A f \in DOMAIN View(r) : f \notin Alters(c) => View(q)[f] = View(r)[f]
    BY <2>3, <2>4, <2>6, ViewFields, ViewSame DEF Differs, RadioFields
  <2>8. \A f, v : Sets(c, f, v) => View(q)[f] = v
    <3>1. View(q)["mod_tx_only"] = <<"am", "fm">>[q.ram.modTx + 1]
      BY DEF View
    <3> QED
      BY <1>6, <2>3, <2>4, <3>1, ArgumentOf DEF Sets, ModMode
  <2> QED
    BY <1>6, <2>4, <2>5, <2>7, <2>8 DEF Done, Differs, RadioFields
<1>7. CASE c.op = "Power"
  <2>1. PowerLevel[c.arg] \in 0..2
    BY <1>7, ArgumentOf DEF PowerLevel
  <2>2. PICK s : s = [r.ram EXCEPT !.power = PowerLevel[c.arg]]
    OBVIOUS
  <2>3. /\ s \in Slot /\ s.power = PowerLevel[c.arg]
        /\ s.rx = r.ram.rx /\ s.tx = r.ram.tx /\ s.mod = r.ram.mod /\ s.modTx = r.ram.modTx
           /\ s.member = r.ram.member
    <3>1. r.ram \in Slot
      BY PartsOf
    <3> QED
      BY <2>1, <2>2, <3>1 DEF Slot
  <2>4. Differs(q, r, {"ram"}) /\ q.ram = s
    <3>1. q = [r EXCEPT !.ram = s]
      BY <1>7, <2>2, EffectOf
    <3> QED
      BY <3>1, RecordOf DEF Differs, RadioFields
  <2>5. IsRadio(q)
    BY <2>3, <2>4, StillRadio, HoldsOf
  <2>6. Alters(c) = {"power"}
    BY <1>7 DEF Alters
  <2>7. \A f \in DOMAIN View(r) : f \notin Alters(c) => View(q)[f] = View(r)[f]
    BY <2>3, <2>4, <2>6, ViewFields, ViewSame DEF Differs, RadioFields
  <2>8. \A f, v : Sets(c, f, v) => View(q)[f] = v
    <3>1. View(q)["power"] = <<"lo", "med", "hi">>[q.ram.power + 1]
      BY DEF View
    <3> QED
      BY <1>7, <2>3, <2>4, <3>1, ArgumentOf DEF Sets, PowerLevel
  <2> QED
    BY <1>7, <2>4, <2>5, <2>7, <2>8 DEF Done, Differs, RadioFields
<1>8. CASE c.op = "ScanListMember"
  <2>1. Flag[c.arg] \in 0..1
    BY <1>8, ArgumentOf DEF Flag
  <2>2. PICK s : s = [r.ram EXCEPT !.member = Flag[c.arg]]
    OBVIOUS
  <2>3. /\ s \in Slot /\ s.member = Flag[c.arg]
        /\ s.rx = r.ram.rx /\ s.tx = r.ram.tx /\ s.mod = r.ram.mod /\ s.modTx = r.ram.modTx
           /\ s.power = r.ram.power
    <3>1. r.ram \in Slot
      BY PartsOf
    <3> QED
      BY <2>1, <2>2, <3>1 DEF Slot
  <2>4. Differs(q, r, {"ram"}) /\ q.ram = s
    <3>1. q = [r EXCEPT !.ram = s]
      BY <1>8, <2>2, EffectOf
    <3> QED
      BY <3>1, RecordOf DEF Differs, RadioFields
  <2>5. IsRadio(q)
    BY <2>3, <2>4, StillRadio, HoldsOf
  <2>6. Alters(c) = {"on_scan_list"}
    BY <1>8 DEF Alters
  <2>7. \A f \in DOMAIN View(r) : f \notin Alters(c) => View(q)[f] = View(r)[f]
    BY <2>3, <2>4, <2>6, ViewFields, ViewSame DEF Differs, RadioFields
  <2>8. \A f, v : Sets(c, f, v) => View(q)[f] = v
    <3>1. (Flag[c.arg] = 1) <=> (c.arg = "on")
      BY <1>8, ArgumentOf DEF Flag
    <3>2. View(q)["on_scan_list"] = (c.arg = "on")
      <4>1. (q.ram.member = 1) = (c.arg = "on")
        BY <2>3, <2>4, <3>1
      <4> QED
        BY Zenon, <4>1 DEF View
    <3> QED
      BY <1>8, <3>2 DEF Sets
  <2> QED
    BY <1>8, <2>4, <2>5, <2>7, <2>8 DEF Done, Differs, RadioFields
<1>9. CASE c.op = "Lamp"
  <2>1. LampLevel[c.arg] \in 0..3
    BY <1>9, ArgumentOf DEF LampLevel
  <2>2. Differs(q, r, {"lamp"}) /\ q.lamp = LampLevel[c.arg]
    <3>1. q = [r EXCEPT !.lamp = LampLevel[c.arg]]
      BY <1>9, EffectOf
    <3> QED
      BY <3>1, RecordOf DEF Differs, RadioFields
  <2>3. IsRadio(q)
    BY <2>1, <2>2, StillRadio, HoldsOf
  <2>4. Alters(c) = {"lamp"}
    BY <1>9 DEF Alters
  <2>5. \A f \in DOMAIN View(r) : f \notin Alters(c) => View(q)[f] = View(r)[f]
    BY <2>2, <2>4, ViewFields, ViewSame DEF Differs, RadioFields
  <2>6. \A f, v : Sets(c, f, v) => View(q)[f] = v
    <3>1. View(q)["lamp"] = <<"off", "lo", "med", "hi">>[q.lamp + 1]
      BY DEF View
    <3> QED
      BY <1>9, <2>2, <3>1, ArgumentOf DEF Sets, LampLevel
  <2> QED
    BY <1>9, <2>2, <2>3, <2>5, <2>6 DEF Done, Differs, RadioFields
<1>10. CASE c.op = "Text"
  <2>1. TextMode[c.arg] \in 0..1
    BY <1>10, ArgumentOf DEF TextMode
  <2>2. Differs(q, r, {"text"}) /\ q.text = TextMode[c.arg]
    <3>1. q = [r EXCEPT !.text = TextMode[c.arg]]
      BY <1>10, EffectOf
    <3> QED
      BY <3>1, RecordOf DEF Differs, RadioFields
  <2>3. IsRadio(q)
    BY <2>1, <2>2, StillRadio, HoldsOf
  <2>4. Alters(c) = {"text_mode"}
    BY <1>10 DEF Alters
  <2>5. \A f \in DOMAIN View(r) : f \notin Alters(c) => View(q)[f] = View(r)[f]
    BY <2>2, <2>4, ViewFields, ViewSame DEF Differs, RadioFields
  <2>6. \A f, v : Sets(c, f, v) => View(q)[f] = v
    <3>1. View(q)["text_mode"] = <<"pt", "ct">>[q.text + 1]
      BY DEF View
    <3> QED
      BY <1>10, <2>2, <3>1, ArgumentOf DEF Sets, TextMode
  <2> QED
    BY <1>10, <2>2, <2>3, <2>5, <2>6 DEF Done, Differs, RadioFields
<1>11. CASE c.op = "Speaker"
  <2>1. Flag[c.arg] \in 0..1
    BY <1>11, ArgumentOf DEF Flag
  <2>2. Differs(q, r, {"speaker"}) /\ q.speaker = Flag[c.arg]
    <3>1. q = [r EXCEPT !.speaker = Flag[c.arg]]
      BY <1>11, EffectOf
    <3> QED
      BY <3>1, RecordOf DEF Differs, RadioFields
  <2>3. IsRadio(q)
    BY <2>1, <2>2, StillRadio, HoldsOf
  <2>4. Alters(c) = {"speaker_on"}
    BY <1>11 DEF Alters
  <2>5. \A f \in DOMAIN View(r) : f \notin Alters(c) => View(q)[f] = View(r)[f]
    BY <2>2, <2>4, ViewFields, ViewSame DEF Differs, RadioFields
  <2>6. \A f, v : Sets(c, f, v) => View(q)[f] = v
    <3>1. (Flag[c.arg] = 1) <=> (c.arg = "on")
      BY <1>11, ArgumentOf DEF Flag
    <3>2. View(q)["speaker_on"] = (c.arg = "on")
      <4>1. (q.speaker = 1) = (c.arg = "on")
        BY <2>2, <3>1
      <4> QED
        BY Zenon, <4>1 DEF View
    <3> QED
      BY <1>11, <3>2 DEF Sets
  <2> QED
    BY <1>11, <2>2, <2>3, <2>5, <2>6 DEF Done, Differs, RadioFields
<1>12. CASE c.op = "Scan"
  <2>1. Flag[c.arg] \in 0..1
    BY <1>12, ArgumentOf DEF Flag
  <2>2. Differs(q, r, {"scan"}) /\ q.scan = Flag[c.arg]
    <3>1. q = [r EXCEPT !.scan = Flag[c.arg]]
      BY <1>12, EffectOf
    <3> QED
      BY <3>1, RecordOf DEF Differs, RadioFields
  <2>3. IsRadio(q)
    BY <2>1, <2>2, StillRadio, HoldsOf
  <2>4. Alters(c) = {"scan"}
    BY <1>12 DEF Alters
  <2>5. \A f \in DOMAIN View(r) : f \notin Alters(c) => View(q)[f] = View(r)[f]
    BY <2>2, <2>4, ViewFields, ViewSame DEF Differs, RadioFields
  <2>6. \A f, v : Sets(c, f, v) => View(q)[f] = v
    <3>1. (Flag[c.arg] = 1) <=> (c.arg = "on")
      BY <1>12, ArgumentOf DEF Flag
    <3>2. View(q)["scan"] = (c.arg = "on")
      <4>1. (q.scan = 1) = (c.arg = "on")
        BY <2>2, <3>1
      <4> QED
        BY Zenon, <4>1 DEF View
    <3> QED
      BY <1>12, <3>2 DEF Sets
  <2> QED
    BY <1>12, <2>2, <2>3, <2>5, <2>6 DEF Done, Differs, RadioFields
<1>13. CASE c.op = "Squelch"
  <2>1. c.arg \in 0..255
    BY <1>13, ArgumentOf
  <2>2. Differs(q, r, {"squelch"}) /\ q.squelch = c.arg
    <3>1. q = [r EXCEPT !.squelch = c.arg]
      BY <1>13, EffectOf
    <3> QED
      BY <3>1, RecordOf DEF Differs, RadioFields
  <2>3. IsRadio(q)
    <3>1. \A x \in {"squelch"} : q[x] \in Holds(x)
      <4>1. c.arg \in Holds("squelch")
        BY <2>1 DEF Holds
      <4> QED
        BY <2>2, <4>1
    <3> QED
      BY <2>2, <3>1, StillRadio
  <2>4. Alters(c) = {"squelch"}
    BY <1>13 DEF Alters
  <2>5. \A f \in DOMAIN View(r) : f \notin Alters(c) => View(q)[f] = View(r)[f]
    BY <2>2, <2>4, ViewFields, ViewSame DEF Differs, RadioFields
  <2>6. \A f, v : Sets(c, f, v) => View(q)[f] = v
    <3>1. View(q)["squelch"] = q.squelch
      BY DEF View
    <3> QED
      BY <1>13, <2>2, <3>1, ArgumentOf DEF Sets
  <2> QED
    BY <1>13, <2>2, <2>3, <2>5, <2>6 DEF Done, Differs, RadioFields
<1> QED
  BY <1>1, <1>2, <1>3, <1>4, <1>5, <1>6, <1>7, <1>8, <1>9, <1>10, <1>11, <1>12, <1>13, ArgumentOf

-----------------------------------------------------------------------------
(* Handlers: the commands they are given do what their request means.      *)

(* Of the commands s, the last that alters the field f sets it to v.       *)
Lands(s, f, v) == \E i \in 1..Len(s) : /\ Sets(s[i], f, v)
                                       /\ \A j \in 1..Len(s) : j > i => f \notin Alters(s[j])
Spares(s, f) == \A j \in 1..Len(s) : f \notin Alters(s[j])

Storing == {"tune", "channel", "store"}

(* The commands s are ones that a route may send: they alter no more than  *)
(* it touches, and a route that stores does so last.                       *)
Fits(s, route) ==
    /\ s \in Seq(Commands)
    /\ \A i \in 1..Len(s) : Alters(s[i]) \subseteq Touches(route)
    /\ \A i \in 1..Len(s) : s[i].op = "StorePreset" <=> (i = Len(s) /\ route \in Storing)

Serves(s, means) == \A f \in DOMAIN means : Lands(s, f, means[f])

LEMMA MeaningOf ==
  ASSUME NEW words, NEW w
  PROVE  \/ Meaning(words, w) = <<>>
         \/ \E m \in DOMAIN words : w \in words[m] /\ Meaning(words, w) = <<m>>
<1>1. CASE {m \in DOMAIN words : w \in words[m]} = {}
  BY <1>1 DEF Meaning, Maybe
<1>2. CASE {m \in DOMAIN words : w \in words[m]} # {}
  <2>1. PICK m : /\ m \in {n \in DOMAIN words : w \in words[n]}
                 /\ m = CHOOSE x \in {n \in DOMAIN words : w \in words[n]} : TRUE
    BY <1>2
  <2>2. Meaning(words, w) = <<m>>
    BY <1>2, <2>1 DEF Meaning, Maybe
  <2> QED
    BY <2>1, <2>2
<1> QED
  BY <1>1, <1>2

LEMMA WordCommandOf ==
  ASSUME NEW op, NEW words, NEW w, WordCommand(op, words, w) # <<>>
  PROVE  \E m \in DOMAIN words : w \in words[m] /\ WordCommand(op, words, w) = <<[op |-> op, arg |-> m]>>
<1>1. CASE Meaning(words, w) = <<>>
  <2>1. DOMAIN Meaning(words, w) = {}
    BY <1>1
  <2>2. WordCommand(op, words, w) = <<>>
    BY <2>1 DEF WordCommand
  <2> QED
    BY <2>2
<1>2. ASSUME NEW m \in DOMAIN words, w \in words[m], Meaning(words, w) = <<m>>
      PROVE  WordCommand(op, words, w) = <<[op |-> op, arg |-> m]>>
  <2>1. DOMAIN Meaning(words, w) = 1..1 /\ \A i \in 1..1 : Meaning(words, w)[i] = m
    BY <1>2
  <2>2. WordCommand(op, words, w) = [i \in 1..1 |-> [op |-> op, arg |-> m]]
    BY <2>1 DEF WordCommand
  <2> QED
    BY <2>2
<1> QED
  BY <1>1, <1>2, MeaningOf

(* A route of a single command, that alters and sets the field it is for.  *)
LEMMA OneCommand ==
  ASSUME NEW c \in Commands, NEW route, Alters(c) \subseteq Touches(route), route \notin Storing,
         c.op # "StorePreset"
  PROVE  Fits(<<c>>, route) /\ \A f, v : Sets(c, f, v) => Lands(<<c>>, f, v)
<1>1. <<c>> \in Seq(Commands) /\ Len(<<c>>) = 1 /\ <<c>>[1] = c
  OBVIOUS
<1> QED
  BY <1>1 DEF Fits, Lands

(* Sequences are taken one command at a time, under a name.                *)
Then(s, e) == s \o <<e>>

LEMMA Grown ==
  ASSUME NEW s \in Seq(Commands), NEW e \in Commands, NEW t, t = Then(s, e)
  PROVE  /\ t \in Seq(Commands)
         /\ Len(s) = 1 => Len(t) = 2 /\ t[1] = s[1] /\ t[2] = e
         /\ Len(s) = 2 => Len(t) = 3 /\ t[1] = s[1] /\ t[2] = s[2] /\ t[3] = e
         /\ Len(s) = 3 => Len(t) = 4 /\ t[1] = s[1] /\ t[2] = s[2] /\ t[3] = s[3] /\ t[4] = e
         /\ Len(s) = 4 => Len(t) = 5 /\ t[1] = s[1] /\ t[2] = s[2] /\ t[3] = s[3] /\ t[4] = s[4]
            /\ t[5] = e
<1>1. PICK n \in Nat : Len(s) = n
  OBVIOUS
<1>2. t \in Seq(Commands) /\ Len(t) = n + 1 /\ (\A i \in 1..n : t[i] = s[i]) /\ t[n + 1] = e
  BY <1>1 DEF Then
<1> QED
  BY <1>1, <1>2

AreFour(s, a, b, c, e) ==
    s \in Seq(Commands) /\ Len(s) = 4 /\ s[1] = a /\ s[2] = b /\ s[3] = c /\ s[4] = e
AreFive(s, a, b, c, d, e) ==
    s \in Seq(Commands) /\ Len(s) = 5 /\ s[1] = a /\ s[2] = b /\ s[3] = c /\ s[4] = d /\ s[5] = e

Four(a, b, c, e) == <<a>> \o <<b>> \o <<c>> \o <<>> \o <<e>>
Five(a, b, c, d, e) == <<a>> \o <<b>> \o <<c>> \o <<d>> \o <<e>>

LEMMA FourSteps ==
  ASSUME NEW a \in Commands, NEW b \in Commands, NEW c \in Commands, NEW e \in Commands, NEW s, s = Four(a, b, c, e)
  PROVE  AreFour(s, a, b, c, e)
<1>1. PICK s1 : s1 = <<a>>
  OBVIOUS
<1>2. PICK s2 : s2 = Then(s1, b)
  OBVIOUS
<1>3. PICK s3 : s3 = Then(s2, c)
  OBVIOUS
<1>4. s1 \in Seq(Commands) /\ Len(s1) = 1 /\ s1[1] = a
  BY <1>1
<1>5. s2 \in Seq(Commands) /\ Len(s2) = 2 /\ s2[1] = a /\ s2[2] = b
  BY <1>2, <1>4, Grown
<1>6. s3 \in Seq(Commands) /\ Len(s3) = 3 /\ s3[1] = a /\ s3[2] = b /\ s3[3] = c
  BY <1>3, <1>5, Grown
<1>7. s3 \o <<>> = s3
  BY <1>6
<1>a. PICK t : t = Then(s3, e)
  OBVIOUS
<1>b. t \in Seq(Commands) /\ Len(t) = 4 /\ t[1] = a /\ t[2] = b /\ t[3] = c /\ t[4] = e
  BY <1>a, <1>6, Grown
<1>8. s = Then(s3, e)
  BY <1>1, <1>2, <1>3, <1>7 DEF Then, Four
<1> QED
  BY <1>a, <1>b, <1>8 DEF AreFour

LEMMA FiveSteps ==
  ASSUME NEW a \in Commands, NEW b \in Commands, NEW c \in Commands, NEW d \in Commands, NEW e \in Commands,
         NEW s, s = Five(a, b, c, d, e)
  PROVE  AreFive(s, a, b, c, d, e)
<1>1. PICK s1 : s1 = <<a>>
  OBVIOUS
<1>2. PICK s2 : s2 = Then(s1, b)
  OBVIOUS
<1>3. PICK s3 : s3 = Then(s2, c)
  OBVIOUS
<1>4. PICK s4 : s4 = Then(s3, d)
  OBVIOUS
<1>5. s1 \in Seq(Commands) /\ Len(s1) = 1 /\ s1[1] = a
  BY <1>1
<1>6. s2 \in Seq(Commands) /\ Len(s2) = 2 /\ s2[1] = a /\ s2[2] = b
  BY <1>2, <1>5, Grown
<1>7. s3 \in Seq(Commands) /\ Len(s3) = 3 /\ s3[1] = a /\ s3[2] = b /\ s3[3] = c
  BY <1>3, <1>6, Grown
<1>8. s4 \in Seq(Commands) /\ Len(s4) = 4 /\ s4[1] = a /\ s4[2] = b /\ s4[3] = c /\ s4[4] = d
  BY <1>4, <1>7, Grown
<1>a. PICK t : t = Then(s4, e)
  OBVIOUS
<1>b. t \in Seq(Commands) /\ Len(t) = 5 /\ t[1] = a /\ t[2] = b /\ t[3] = c /\ t[4] = d /\ t[5] = e
  BY <1>a, <1>8, Grown
<1>9. s = Then(s4, e)
  BY <1>1, <1>2, <1>3, <1>4 DEF Then, Five
<1> QED
  BY <1>a, <1>b, <1>9 DEF AreFive

LEMMA AreCommands ==
  ASSUME NEW slot \in 0..9, NEW rx, Tunable(rx), NEW tx, Tunable(tx), NEW m \in {"am", "fm"}
  PROVE  /\ [op |-> "Preset", arg |-> slot] \in Commands
         /\ [op |-> "SetRx", arg |-> rx] \in Commands
         /\ [op |-> "SetTx", arg |-> tx] \in Commands
         /\ [op |-> "ModTxRx", arg |-> m] \in Commands
         /\ [op |-> "StorePreset", arg |-> ""] \in Commands
<1>1. /\ [op |-> "Preset", arg |-> slot] \in [op : {"Preset"}, arg : 0..9]
      /\ [op |-> "StorePreset", arg |-> ""] \in [op : {"StorePreset"}, arg : {""}]
      /\ [op |-> "ModTxRx", arg |-> m] \in [op : {"ModTxRx", "ModTxOnly"}, arg : {"am", "fm"}]
  OBVIOUS
<1>2. /\ [op |-> "SetRx", arg |-> rx] \in [op : {"SetRx", "SetTx"}, arg : {f \in Nat : Tunable(f)}]
      /\ [op |-> "SetTx", arg |-> tx] \in [op : {"SetRx", "SetTx"}, arg : {f \in Nat : Tunable(f)}]
  BY DEF Tunable
<1> QED
  BY <1>1, <1>2 DEF Commands

LEMMA TouchedByTune ==
  ASSUME NEW route \in {"tune", "channel"}
  PROVE  /\ route \in Storing
         /\ Touches(route) =
                {"preset", "rx", "tx", "mod_tx_rx", "mod_tx_only", "on_scan_list", "power", "slots"}
  BY DEF Touches, Storing

LEMMA FourServe ==
  ASSUME NEW slot, NEW rx, NEW tx, NEW route \in {"tune", "channel"},
         NEW a, NEW b, NEW c, NEW e,
         a.op = "Preset", b.op = "SetRx", c.op = "SetTx", e.op = "StorePreset",
         a.arg = slot, b.arg = rx, c.arg = tx,
         NEW s, AreFour(s, a, b, c, e)
  PROVE  Fits(s, route) /\ Serves(s, Tuned(rx, tx, slot, ""))
<1>s. s \in Seq(Commands) /\ Len(s) = 4 /\ s[1] = a /\ s[2] = b /\ s[3] = c /\ s[4] = e
  BY DEF AreFour
<1>1. \A i \in 1..Len(s) : i \in {1, 2, 3, 4}
  BY <1>s
<1>2. /\ Alters(a) = {"preset", "rx", "tx", "mod_tx_rx", "mod_tx_only", "on_scan_list", "power"}
      /\ Alters(b) = {"rx"} /\ Alters(c) = {"tx"} /\ Alters(e) = {"slots"}
      /\ Sets(a, "preset", slot) /\ Sets(b, "rx", rx) /\ Sets(c, "tx", tx)
      /\ a.op # "StorePreset" /\ b.op # "StorePreset" /\ c.op # "StorePreset" /\ e.op = "StorePreset"
  BY DEF Alters, Sets
<1>3. Fits(s, route)
  <2>1. \A i \in 1..Len(s) : Alters(s[i]) \subseteq Touches(route)
    BY <1>s, <1>1, <1>2, TouchedByTune
  <2>2. \A i \in 1..Len(s) : s[i].op = "StorePreset" <=> (i = Len(s) /\ route \in Storing)
    BY <1>s, <1>1, <1>2, TouchedByTune
  <2> QED
    BY <1>s, <2>1, <2>2 DEF Fits
<1>4. Lands(s, "preset", slot) /\ Lands(s, "rx", rx) /\ Lands(s, "tx", tx)
  <2>1. Lands(s, "preset", slot)
    <3>1. \A j \in 1..Len(s) : j > 1 => "preset" \notin Alters(s[j])
      BY <1>s, <1>1, <1>2
    <3> QED
      BY <1>s, <1>2, <3>1 DEF Lands
  <2>2. Lands(s, "rx", rx)
    <3>1. \A j \in 1..Len(s) : j > 2 => "rx" \notin Alters(s[j])
      BY <1>s, <1>1, <1>2
    <3> QED
      BY <1>s, <1>2, <3>1 DEF Lands
  <2>3. Lands(s, "tx", tx)
    <3>1. \A j \in 1..Len(s) : j > 3 => "tx" \notin Alters(s[j])
      BY <1>s, <1>1, <1>2
    <3> QED
      BY <1>s, <1>2, <3>1 DEF Lands
  <2> QED
    BY <2>1, <2>2, <2>3
<1>5. Serves(s, Tuned(rx, tx, slot, ""))
  <2>1. PICK t : t = Tuned(rx, tx, slot, "")
    OBVIOUS
  <2>2. DOMAIN t = {"rx", "tx", "preset"} /\ t["rx"] = rx /\ t["tx"] = tx /\ t["preset"] = slot
    BY <2>1 DEF Tuned, Without
  <2> QED
    BY <1>4, <2>1, <2>2 DEF Serves
<1> QED
  BY <1>3, <1>5

LEMMA FiveServe ==
  ASSUME NEW slot, NEW rx, NEW tx, NEW m \in {"am", "fm"}, NEW route \in {"tune", "channel"},
         NEW a, NEW b, NEW c, NEW d, NEW e,
         a.op = "Preset", b.op = "SetRx", c.op = "SetTx", d.op = "ModTxRx", e.op = "StorePreset",
         a.arg = slot, b.arg = rx, c.arg = tx, d.arg = m,
         NEW s, AreFive(s, a, b, c, d, e)
  PROVE  Fits(s, route) /\ Serves(s, Tuned(rx, tx, slot, m))
<1>s. s \in Seq(Commands) /\ Len(s) = 5 /\ s[1] = a /\ s[2] = b /\ s[3] = c /\ s[4] = d /\ s[5] = e
  BY DEF AreFive
<1>1. \A i \in 1..Len(s) : i \in {1, 2, 3, 4, 5}
  BY <1>s
<1>2. /\ Alters(a) = {"preset", "rx", "tx", "mod_tx_rx", "mod_tx_only", "on_scan_list", "power"}
      /\ Alters(b) = {"rx"} /\ Alters(c) = {"tx"} /\ Alters(e) = {"slots"}
      /\ Sets(a, "preset", slot) /\ Sets(b, "rx", rx) /\ Sets(c, "tx", tx)
      /\ a.op # "StorePreset" /\ b.op # "StorePreset" /\ c.op # "StorePreset" /\ e.op = "StorePreset"
      /\ Alters(d) = {"mod_tx_rx", "mod_tx_only"} /\ Sets(d, "mod_tx_rx", m) /\ d.op # "StorePreset"
  BY DEF Alters, Sets
<1>3. Fits(s, route)
  <2>1. \A i \in 1..Len(s) : Alters(s[i]) \subseteq Touches(route)
    BY <1>s, <1>1, <1>2, TouchedByTune
  <2>2. \A i \in 1..Len(s) : s[i].op = "StorePreset" <=> (i = Len(s) /\ route \in Storing)
    BY <1>s, <1>1, <1>2, TouchedByTune
  <2> QED
    BY <1>s, <2>1, <2>2 DEF Fits
<1>4. /\ Lands(s, "preset", slot) /\ Lands(s, "rx", rx) /\ Lands(s, "tx", tx)
      /\ Lands(s, "mod_tx_rx", m)
  <2>1. Lands(s, "preset", slot)
    <3>1. \A j \in 1..Len(s) : j > 1 => "preset" \notin Alters(s[j])
      BY <1>s, <1>1, <1>2
    <3> QED
      BY <1>s, <1>2, <3>1 DEF Lands
  <2>2. Lands(s, "rx", rx)
    <3>1. \A j \in 1..Len(s) : j > 2 => "rx" \notin Alters(s[j])
      BY <1>s, <1>1, <1>2
    <3> QED
      BY <1>s, <1>2, <3>1 DEF Lands
  <2>3. Lands(s, "tx", tx)
    <3>1. \A j \in 1..Len(s) : j > 3 => "tx" \notin Alters(s[j])
      BY <1>s, <1>1, <1>2
    <3> QED
      BY <1>s, <1>2, <3>1 DEF Lands
  <2>4. Lands(s, "mod_tx_rx", m)
    <3>1. \A j \in 1..Len(s) : j > 4 => "mod_tx_rx" \notin Alters(s[j])
      BY <1>s, <1>1, <1>2
    <3> QED
      BY <1>s, <1>2, <3>1 DEF Lands
  <2> QED
    BY <2>1, <2>2, <2>3, <2>4
<1>5. Serves(s, Tuned(rx, tx, slot, m))
  <2>1. PICK t : t = Tuned(rx, tx, slot, m)
    OBVIOUS
  <2>2. DOMAIN t = {"rx", "tx", "preset", "mod_tx_rx"} /\ t["rx"] = rx /\ t["tx"] = tx
        /\ t["preset"] = slot /\ t["mod_tx_rx"] = m
    BY <2>1 DEF Tuned, Without
  <2> QED
    BY <1>4, <2>1, <2>2 DEF Serves
<1> QED
  BY <1>3, <1>5

LEMMA ServesWithout ==
  ASSUME NEW slot \in 0..9, NEW rx, Tunable(rx), NEW tx, Tunable(tx), NEW route \in {"tune", "channel"}
  PROVE  /\ Fits(TuneCommands(slot, rx, tx, <<>>), route)
         /\ Serves(TuneCommands(slot, rx, tx, <<>>), Tuned(rx, tx, slot, ""))
<1>a. PICK a : a = [op |-> "Preset", arg |-> slot]
  OBVIOUS
<1>b. PICK b : b = [op |-> "SetRx", arg |-> rx]
  OBVIOUS
<1>c. PICK c : c = [op |-> "SetTx", arg |-> tx]
  OBVIOUS
<1>e. PICK e : e = [op |-> "StorePreset", arg |-> ""]
  OBVIOUS
<1>1. a \in Commands /\ b \in Commands /\ c \in Commands /\ e \in Commands
  BY <1>a, <1>b, <1>c, <1>e, AreCommands
<1>2. TuneCommands(slot, rx, tx, <<>>) = Four(a, b, c, e)
  BY <1>a, <1>b, <1>c, <1>e DEF TuneCommands, Command, Four
<1>3. /\ a.op = "Preset" /\ a.arg = slot
      /\ b.op = "SetRx" /\ b.arg = rx
      /\ c.op = "SetTx" /\ c.arg = tx
      /\ e.op = "StorePreset" /\ e.arg = ""
  BY <1>a, <1>b, <1>c, <1>e
<1>4. PICK t : t = Four(a, b, c, e)
  OBVIOUS
<1>5. AreFour(t, a, b, c, e)
  BY <1>1, <1>4, FourSteps
<1>6. Fits(t, route) /\ Serves(t, Tuned(rx, tx, slot, ""))
  BY <1>3, <1>5, FourServe
<1> QED
  BY <1>2, <1>4, <1>6

LEMMA ServesWith ==
  ASSUME NEW slot \in 0..9, NEW rx, Tunable(rx), NEW tx, Tunable(tx), NEW route \in {"tune", "channel"},
         NEW m \in {"am", "fm"}
  PROVE  /\ Fits(TuneCommands(slot, rx, tx, <<m>>), route)
         /\ Serves(TuneCommands(slot, rx, tx, <<m>>), Tuned(rx, tx, slot, m))
<1>a. PICK a : a = [op |-> "Preset", arg |-> slot]
  OBVIOUS
<1>b. PICK b : b = [op |-> "SetRx", arg |-> rx]
  OBVIOUS
<1>c. PICK c : c = [op |-> "SetTx", arg |-> tx]
  OBVIOUS
<1>d. PICK d : d = [op |-> "ModTxRx", arg |-> m]
  OBVIOUS
<1>e. PICK e : e = [op |-> "StorePreset", arg |-> ""]
  OBVIOUS
<1>1. a \in Commands /\ b \in Commands /\ c \in Commands /\ d \in Commands /\ e \in Commands
  BY <1>a, <1>b, <1>c, <1>d, <1>e, AreCommands
<1>2. TuneCommands(slot, rx, tx, <<m>>) = Five(a, b, c, d, e)
  <2>1. <<m>> # <<>> /\ <<m>>[1] = m
    OBVIOUS
  <2> QED
    BY <1>a, <1>b, <1>c, <1>d, <1>e, <2>1 DEF TuneCommands, Command, Five
<1>3. /\ a.op = "Preset" /\ a.arg = slot
      /\ b.op = "SetRx" /\ b.arg = rx
      /\ c.op = "SetTx" /\ c.arg = tx
      /\ d.op = "ModTxRx" /\ d.arg = m
      /\ e.op = "StorePreset" /\ e.arg = ""
  BY <1>a, <1>b, <1>c, <1>d, <1>e
<1>4. PICK t : t = Five(a, b, c, d, e)
  OBVIOUS
<1>5. AreFive(t, a, b, c, d, e)
  BY <1>1, <1>4, FiveSteps
<1>6. Fits(t, route) /\ Serves(t, Tuned(rx, tx, slot, m))
  BY <1>3, <1>5, FiveServe
<1> QED
  BY <1>2, <1>4, <1>6

(* A tune fits every route that stores, and serves what is meant by it.    *)
LEMMA TuneServes ==
  ASSUME NEW slot \in 0..9, NEW rx \in Nat, NEW tx \in Nat, NEW step \in {"k25", "k12_5", "k5"},
         NEW mode, NEW s, s = Tune(slot, rx, tx, step, mode), s # <<>>,
         NEW route \in {"tune", "channel"}
  PROVE  /\ mode = <<>> => Fits(s, route) /\ Serves(s, Tuned(rx, tx, slot, ""))
         /\ \A m \in {"am", "fm"} : mode = <<m>> => Fits(s, route) /\ Serves(s, Tuned(rx, tx, slot, m))
<1>1. Tunable(rx) /\ Tunable(tx) /\ s = TuneCommands(slot, rx, tx, mode)
  <2>1. PICK band : band = Or(BandFor(rx), BandFor(tx))
    OBVIOUS
  <2>2. /\ band # <<>> /\ FreqNew(rx, band[1], step) /\ FreqNew(tx, band[1], step)
        /\ s = TuneCommands(slot, rx, tx, mode)
    BY <2>1 DEF Tune
  <2>3. band[1] \in {"Base", "Lvhf", "Uhf400"}
    <3>1. \/ band = <<>> \/ band = <<"Base">> \/ band = <<"Lvhf">> \/ band = <<"Uhf400">>
      BY <2>1 DEF Or, BandFor
    <3> QED
      BY <2>2, <3>1
  <2> QED
    BY <2>2, <2>3, NewIsTunable
<1> QED
  BY <1>1, ServesWithout, ServesWith

(* A route of words, given what its table makes of the word.               *)
LEMMA WordServes ==
  ASSUME NEW op, NEW words, NEW w, NEW route, NEW f, NEW v, NEW s,
         s = WordCommand(op, words, w), s # <<>>, route \notin Storing,
         ASSUME NEW m \in DOMAIN words, w \in words[m], NEW c, c = [op |-> op, arg |-> m]
         PROVE  /\ c \in Commands /\ c.op # "StorePreset" /\ Alters(c) \subseteq Touches(route)
                /\ Sets(c, f, v)
  PROVE  Fits(s, route) /\ Lands(s, f, v)
<1>1. PICK m \in DOMAIN words : w \in words[m] /\ s = <<[op |-> op, arg |-> m]>>
  BY WordCommandOf
<1>2. PICK c : c = [op |-> op, arg |-> m]
  OBVIOUS
<1>3. /\ c \in Commands /\ c.op # "StorePreset" /\ Alters(c) \subseteq Touches(route)
      /\ Sets(c, f, v)
  BY <1>1, <1>2
<1>4. Fits(<<c>>, route) /\ Lands(<<c>>, f, v)
  BY <1>3, OneCommand
<1> QED
  BY <1>1, <1>2, <1>4

(* The tables of words agree with what operators mean by them.             *)
LEMMA WordsMean ==
  ASSUME NEW word
  PROVE  /\ \A m \in DOMAIN LampWords : word \in LampWords[m] => Sense("lamp", word) = m
         /\ \A m \in DOMAIN PowerWords : word \in PowerWords[m] => Sense("power", word) = m
         /\ \A m \in DOMAIN TextWords : word \in TextWords[m] => Sense("text", word) = m
         /\ \A m \in DOMAIN FlagWords : word \in FlagWords[m] =>
               \A route \in {"speaker", "scan", "scan_list_member"} : Sense(route, word) = (m = "on")
         /\ \A m \in DOMAIN ModWords : word \in ModWords[m] =>
               \A route \in {"mod", "mod_tx_only"} : Sense(route, word) = m
<1>1. \A m \in DOMAIN LampWords : word \in LampWords[m] => Sense("lamp", word) = m
  BY DEF LampWords, Sense, Levels
<1>2. \A m \in DOMAIN PowerWords : word \in PowerWords[m] => Sense("power", word) = m
  BY DEF PowerWords, Sense, Levels
<1>3. \A m \in DOMAIN TextWords : word \in TextWords[m] => Sense("text", word) = m
  BY DEF TextWords, Sense, Voices
<1>4. ASSUME NEW m \in DOMAIN FlagWords, word \in FlagWords[m],
             NEW route \in {"speaker", "scan", "scan_list_member"}
      PROVE  Sense(route, word) = (m = "on")
  <2>1. (word \in {"on", "true", "1"}) = (m = "on")
    BY <1>4 DEF FlagWords
  <2>2. Sense(route, word) = (word \in {"on", "true", "1"})
    <3>1. CASE route = "speaker"
      BY Zenon, <3>1 DEF Sense
    <3>2. CASE route = "scan"
      BY Zenon, <3>2 DEF Sense
    <3>3. CASE route = "scan_list_member"
      BY Zenon, <3>3 DEF Sense
    <3> QED
      BY <3>1, <3>2, <3>3
  <2> QED
    BY <2>1, <2>2
<1>5. \A m \in DOMAIN ModWords : word \in ModWords[m] =>
         \A route \in {"mod", "mod_tx_only"} : Sense(route, word) = m
  BY DEF ModWords, Sense
<1> QED
  BY <1>1, <1>2, <1>3, <1>4, <1>5

(* Every route of words.                                                   *)
LEMMA RouteServes ==
  ASSUME NEW req, req.route \in WordRoutes, NEW s, s = Route(req), s # <<>>
  PROVE  Fits(s, req.route) /\ Lands(s, Field[req.route], Sense(req.route, req.word))
<1>0. \/ req.route = "lamp" \/ req.route = "power" \/ req.route = "text" \/ req.route = "speaker"
      \/ req.route = "scan" \/ req.route = "scan_list_member" \/ req.route = "mod"
      \/ req.route = "mod_tx_only"
  BY DEF WordRoutes, Field
<1>1. CASE req.route = "lamp"
  <2>1. s = WordCommand("Lamp", LampWords, req.word) /\ Field[req.route] = "lamp"
        /\ req.route \notin Storing
    BY <1>1 DEF Route, Field, Storing
  <2>2. ASSUME NEW m \in DOMAIN LampWords, req.word \in LampWords[m], NEW c, c = [op |-> "Lamp", arg |-> m]
        PROVE  /\ c \in Commands /\ c.op # "StorePreset" /\ Alters(c) \subseteq Touches(req.route)
               /\ Sets(c, Field[req.route], Sense(req.route, req.word))
    <3>1. c.op = "Lamp" /\ c.arg = m /\ c \in [op : {"Lamp"}, arg : {"off", "lo", "med", "hi"}]
      BY <2>2 DEF LampWords
    <3>2. c \in Commands
      BY <3>1 DEF Commands
    <3>3. Alters(c) \subseteq Touches(req.route)
      BY <1>1, <3>1 DEF Alters, Touches
    <3>4. Sense(req.route, req.word) = m
      BY <1>1, <2>2, WordsMean
    <3>5. Sets(c, "lamp", Sense(req.route, req.word))
      BY <3>1, <3>4 DEF Sets
    <3> QED
      BY <2>1, <3>1, <3>2, <3>3, <3>5
  <2> QED
    BY <2>1, <2>2, WordServes
<1>2. CASE req.route = "power"
  <2>1. s = WordCommand("Power", PowerWords, req.word) /\ Field[req.route] = "power"
        /\ req.route \notin Storing
    BY <1>2 DEF Route, Field, Storing
  <2>2. ASSUME NEW m \in DOMAIN PowerWords, req.word \in PowerWords[m], NEW c, c = [op |-> "Power", arg |-> m]
        PROVE  /\ c \in Commands /\ c.op # "StorePreset" /\ Alters(c) \subseteq Touches(req.route)
               /\ Sets(c, Field[req.route], Sense(req.route, req.word))
    <3>1. c.op = "Power" /\ c.arg = m /\ c \in [op : {"Power"}, arg : {"lo", "med", "hi"}]
      BY <2>2 DEF PowerWords
    <3>2. c \in Commands
      BY <3>1 DEF Commands
    <3>3. Alters(c) \subseteq Touches(req.route)
      BY <1>2, <3>1 DEF Alters, Touches
    <3>4. Sense(req.route, req.word) = m
      BY <1>2, <2>2, WordsMean
    <3>5. Sets(c, "power", Sense(req.route, req.word))
      BY <3>1, <3>4 DEF Sets
    <3> QED
      BY <2>1, <3>1, <3>2, <3>3, <3>5
  <2> QED
    BY <2>1, <2>2, WordServes
<1>3. CASE req.route = "text"
  <2>1. s = WordCommand("Text", TextWords, req.word) /\ Field[req.route] = "text_mode"
        /\ req.route \notin Storing
    BY <1>3 DEF Route, Field, Storing
  <2>2. ASSUME NEW m \in DOMAIN TextWords, req.word \in TextWords[m], NEW c, c = [op |-> "Text", arg |-> m]
        PROVE  /\ c \in Commands /\ c.op # "StorePreset" /\ Alters(c) \subseteq Touches(req.route)
               /\ Sets(c, Field[req.route], Sense(req.route, req.word))
    <3>1. c.op = "Text" /\ c.arg = m /\ c \in [op : {"Text"}, arg : {"pt", "ct"}]
      BY <2>2 DEF TextWords
    <3>2. c \in Commands
      BY <3>1 DEF Commands
    <3>3. Alters(c) \subseteq Touches(req.route)
      BY <1>3, <3>1 DEF Alters, Touches
    <3>4. Sense(req.route, req.word) = m
      BY <1>3, <2>2, WordsMean
    <3>5. Sets(c, "text_mode", Sense(req.route, req.word))
      BY <3>1, <3>4 DEF Sets
    <3> QED
      BY <2>1, <3>1, <3>2, <3>3, <3>5
  <2> QED
    BY <2>1, <2>2, WordServes
<1>4. CASE req.route = "speaker"
  <2>1. s = WordCommand("Speaker", FlagWords, req.word) /\ Field[req.route] = "speaker_on"
        /\ req.route \notin Storing
    BY <1>4 DEF Route, Field, Storing
  <2>2. ASSUME NEW m \in DOMAIN FlagWords, req.word \in FlagWords[m], NEW c, c = [op |-> "Speaker", arg |-> m]
        PROVE  /\ c \in Commands /\ c.op # "StorePreset" /\ Alters(c) \subseteq Touches(req.route)
               /\ Sets(c, Field[req.route], Sense(req.route, req.word))
    <3>1. c.op = "Speaker" /\ c.arg = m /\ c \in [op : {"Speaker", "Scan", "ScanListMember"}, arg : {"on", "off"}]
      BY <2>2 DEF FlagWords
    <3>2. c \in Commands
      BY <3>1 DEF Commands
    <3>3. Alters(c) \subseteq Touches(req.route)
      BY <1>4, <3>1 DEF Alters, Touches
    <3>4. Sense(req.route, req.word) = (m = "on")
      BY <1>4, <2>2, WordsMean
    <3>5. Sets(c, "speaker_on", Sense(req.route, req.word))
      BY <3>1, <3>4 DEF Sets
    <3> QED
      BY <2>1, <3>1, <3>2, <3>3, <3>5
  <2> QED
    BY <2>1, <2>2, WordServes
<1>5. CASE req.route = "scan"
  <2>1. s = WordCommand("Scan", FlagWords, req.word) /\ Field[req.route] = "scan"
        /\ req.route \notin Storing
    BY <1>5 DEF Route, Field, Storing
  <2>2. ASSUME NEW m \in DOMAIN FlagWords, req.word \in FlagWords[m], NEW c, c = [op |-> "Scan", arg |-> m]
        PROVE  /\ c \in Commands /\ c.op # "StorePreset" /\ Alters(c) \subseteq Touches(req.route)
               /\ Sets(c, Field[req.route], Sense(req.route, req.word))
    <3>1. c.op = "Scan" /\ c.arg = m /\ c \in [op : {"Speaker", "Scan", "ScanListMember"}, arg : {"on", "off"}]
      BY <2>2 DEF FlagWords
    <3>2. c \in Commands
      BY <3>1 DEF Commands
    <3>3. Alters(c) \subseteq Touches(req.route)
      BY <1>5, <3>1 DEF Alters, Touches
    <3>4. Sense(req.route, req.word) = (m = "on")
      BY <1>5, <2>2, WordsMean
    <3>5. Sets(c, "scan", Sense(req.route, req.word))
      BY <3>1, <3>4 DEF Sets
    <3> QED
      BY <2>1, <3>1, <3>2, <3>3, <3>5
  <2> QED
    BY <2>1, <2>2, WordServes
<1>6. CASE req.route = "scan_list_member"
  <2>1. s = WordCommand("ScanListMember", FlagWords, req.word)
        /\ Field[req.route] = "on_scan_list" /\ req.route \notin Storing
    BY <1>6 DEF Route, Field, Storing
  <2>2. ASSUME NEW m \in DOMAIN FlagWords, req.word \in FlagWords[m], NEW c, c = [op |-> "ScanListMember", arg |-> m]
        PROVE  /\ c \in Commands /\ c.op # "StorePreset" /\ Alters(c) \subseteq Touches(req.route)
               /\ Sets(c, Field[req.route], Sense(req.route, req.word))
    <3>1. c.op = "ScanListMember" /\ c.arg = m
          /\ c \in [op : {"Speaker", "Scan", "ScanListMember"}, arg : {"on", "off"}]
      BY <2>2 DEF FlagWords
    <3>2. c \in Commands
      BY <3>1 DEF Commands
    <3>3. Alters(c) \subseteq Touches(req.route)
      BY <1>6, <3>1 DEF Alters, Touches
    <3>4. Sense(req.route, req.word) = (m = "on")
      BY <1>6, <2>2, WordsMean
    <3>5. Sets(c, "on_scan_list", Sense(req.route, req.word))
      BY <3>1, <3>4 DEF Sets
    <3> QED
      BY <2>1, <3>1, <3>2, <3>3, <3>5
  <2> QED
    BY <2>1, <2>2, WordServes
<1>7. CASE req.route = "mod"
  <2>1. s = WordCommand("ModTxRx", ModWords, req.word) /\ Field[req.route] = "mod_tx_rx"
        /\ req.route \notin Storing
    BY <1>7 DEF Route, Field, Storing
  <2>2. ASSUME NEW m \in DOMAIN ModWords, req.word \in ModWords[m], NEW c, c = [op |-> "ModTxRx", arg |-> m]
        PROVE  /\ c \in Commands /\ c.op # "StorePreset" /\ Alters(c) \subseteq Touches(req.route)
               /\ Sets(c, Field[req.route], Sense(req.route, req.word))
    <3>1. c.op = "ModTxRx" /\ c.arg = m /\ c \in [op : {"ModTxRx", "ModTxOnly"}, arg : {"am", "fm"}]
      BY <2>2 DEF ModWords
    <3>2. c \in Commands
      BY <3>1 DEF Commands
    <3>3. Alters(c) \subseteq Touches(req.route)
      BY <1>7, <3>1 DEF Alters, Touches
    <3>4. Sense(req.route, req.word) = m
      BY <1>7, <2>2, WordsMean
    <3>5. Sets(c, "mod_tx_rx", Sense(req.route, req.word))
      BY <3>1, <3>4 DEF Sets
    <3> QED
      BY <2>1, <3>1, <3>2, <3>3, <3>5
  <2> QED
    BY <2>1, <2>2, WordServes
<1>8. CASE req.route = "mod_tx_only"
  <2>1. s = WordCommand("ModTxOnly", ModWords, req.word) /\ Field[req.route] = "mod_tx_only"
        /\ req.route \notin Storing
    BY <1>8 DEF Route, Field, Storing
  <2>2. ASSUME NEW m \in DOMAIN ModWords, req.word \in ModWords[m], NEW c, c = [op |-> "ModTxOnly", arg |-> m]
        PROVE  /\ c \in Commands /\ c.op # "StorePreset" /\ Alters(c) \subseteq Touches(req.route)
               /\ Sets(c, Field[req.route], Sense(req.route, req.word))
    <3>1. c.op = "ModTxOnly" /\ c.arg = m /\ c \in [op : {"ModTxRx", "ModTxOnly"}, arg : {"am", "fm"}]
      BY <2>2 DEF ModWords
    <3>2. c \in Commands
      BY <3>1 DEF Commands
    <3>3. Alters(c) \subseteq Touches(req.route)
      BY <1>8, <3>1 DEF Alters, Touches
    <3>4. Sense(req.route, req.word) = m
      BY <1>8, <2>2, WordsMean
    <3>5. Sets(c, "mod_tx_only", Sense(req.route, req.word))
      BY <3>1, <3>4 DEF Sets
    <3> QED
      BY <2>1, <3>1, <3>2, <3>3, <3>5
  <2> QED
    BY <2>1, <2>2, WordServes
<1> QED
  BY <1>0, <1>1, <1>2, <1>3, <1>4, <1>5, <1>6, <1>7, <1>8

LEMMA Ranges ==
  ASSUME NEW n \in Nat
  PROVE  (n <= 255 => n \in 0..255) /\ (~(n > 9) => n \in 0..9)
  BY SMT

LEMMA NumberServes ==
  ASSUME NEW req, req.route \in {"preset", "squelch"}, req.n \in Nat, NEW s, s = Route(req), s # <<>>
  PROVE  Fits(s, req.route) /\ Lands(s, req.route, req.n)
<1>1. CASE req.route = "preset"
  <2>1. req.n \in 0..9 /\ s = Command("Preset", req.n)
    BY <1>1 DEF Route
  <2>2. PICK c : c = [op |-> "Preset", arg |-> req.n]
    OBVIOUS
  <2>3. c.op = "Preset" /\ c.arg = req.n /\ c \in [op : {"Preset"}, arg : 0..9]
    BY <2>1, <2>2
  <2>4. c \in Commands
    BY <2>3 DEF Commands
  <2>5. Alters(c) \subseteq Touches("preset") /\ Sets(c, "preset", req.n) /\ "preset" \notin Storing
    BY <2>3 DEF Alters, Touches, Sets, Storing
  <2>6. Fits(<<c>>, "preset") /\ Lands(<<c>>, "preset", req.n)
    BY <2>3, <2>4, <2>5, OneCommand
  <2> QED
    BY <1>1, <2>1, <2>2, <2>6 DEF Command
<1>2. CASE req.route = "squelch"
  <2>1. req.n \in 0..255 /\ s = Command("Squelch", req.n)
    <3>1. req.n <= 255 /\ s = Command("Squelch", req.n)
      BY <1>2 DEF Route
    <3> QED
      BY <3>1, Ranges
  <2>2. PICK c : c = [op |-> "Squelch", arg |-> req.n]
    OBVIOUS
  <2>3. c.op = "Squelch" /\ c.arg = req.n /\ c \in [op : {"Squelch"}, arg : 0..255]
    BY <2>1, <2>2
  <2>4. c \in Commands
    BY <2>3 DEF Commands
  <2>5. Alters(c) \subseteq Touches("squelch") /\ Sets(c, "squelch", req.n) /\ "squelch" \notin Storing
    BY <2>3 DEF Alters, Touches, Sets, Storing
  <2>6. Fits(<<c>>, "squelch") /\ Lands(<<c>>, "squelch", req.n)
    BY <2>3, <2>4, <2>5, OneCommand
  <2> QED
    BY <1>2, <2>1, <2>2, <2>6 DEF Command
<1> QED
  BY <1>1, <1>2

LEMMA StoreServes ==
  ASSUME NEW req, req.route = "store", NEW s, s = Route(req)
  PROVE  Fits(s, "store")
<1>1. s = Command("StorePreset", "")
  BY DEF Route
<1>2. PICK c : c = [op |-> "StorePreset", arg |-> ""]
  OBVIOUS
<1>3. c.op = "StorePreset" /\ c \in [op : {"StorePreset"}, arg : {""}]
  BY <1>2
<1>4. c \in Commands
  BY <1>3 DEF Commands
<1>5. Alters(c) \subseteq Touches("store") /\ "store" \in Storing
  BY <1>3 DEF Alters, Touches, Storing
<1>6. PICK t : t = <<c>>
  OBVIOUS
<1>7. t \in Seq(Commands) /\ Len(t) = 1 /\ t[1] = c /\ \A i \in 1..Len(t) : i = 1
  BY <1>4, <1>6
<1>8. Fits(t, "store")
  BY <1>3, <1>5, <1>7 DEF Fits
<1> QED
  BY <1>1, <1>2, <1>6, <1>8 DEF Command

(* The words for a step name steps that have a grid.                       *)
LEMMA StepsMeant ==
  ASSUME NEW w, Meaning(StepNames, w) # <<>>
  PROVE  Meaning(StepNames, w)[1] \in {"k25", "k12_5", "k5"}
<1>1. PICK m \in DOMAIN StepNames : Meaning(StepNames, w) = <<m>>
  BY MeaningOf
<1>2. DOMAIN StepNames = {"k25", "k12_5", "k5"}
  BY DEF StepNames
<1> QED
  BY <1>1, <1>2

LEMMA ModesMeant ==
  ASSUME NEW w
  PROVE  /\ Meaning(ModWords, w) = <<>> \/ (w \in {"am", "fm"} /\ Meaning(ModWords, w) = <<w>>)
         /\ w = "" => Meaning(ModWords, w) = <<>>
<1>1. \A m \in DOMAIN ModWords : w \in ModWords[m] => w = m /\ m \in {"am", "fm"}
  BY DEF ModWords
<1>2. Meaning(ModWords, w) = <<>> \/ \E m \in DOMAIN ModWords : w \in ModWords[m]
      /\ Meaning(ModWords, w) = <<m>>
  BY MeaningOf
<1> QED
  BY <1>1, <1>2

LEMMA PostTuneServes ==
  ASSUME NEW req, req.route = "tune", req.rx \in Nat, req.tx \in Nat, req.target \in Seq(Nat),
         NEW s, s = PostTune(Scratch, req), s # <<>>
  PROVE  Fits(s, "tune") /\ Serves(s, Means(req))
<1>1. PICK slot : slot = IF req.target = <<>> THEN Scratch ELSE req.target[1]
  OBVIOUS
<1>2. PICK mode : mode = Meaning(ModWords, req.mode)
  OBVIOUS
<1>3. PICK step : step = Meaning(StepNames, req.step)
  OBVIOUS
<1>4. /\ step # <<>> /\ ~(req.mode # "" /\ mode = <<>>) /\ ~(slot > 9)
      /\ s = Tune(slot, req.rx, req.tx, step[1], mode)
  BY <1>1, <1>2, <1>3 DEF PostTune
<1>5. slot \in 0..9
  <2>1. CASE req.target = <<>>
    BY <1>1, <2>1, DeskAssumption
  <2>2. CASE req.target # <<>>
    <3>1. req.target[1] \in Nat
      BY <2>2
    <3>2. slot = req.target[1]
      BY <1>1, <2>2
    <3> QED
      BY <1>4, <3>1, <3>2, Ranges
  <2> QED
    BY <2>1, <2>2
<1>6. step[1] \in {"k25", "k12_5", "k5"}
  BY <1>3, <1>4, StepsMeant
<1>7. /\ mode = <<>> => Fits(s, "tune") /\ Serves(s, Tuned(req.rx, req.tx, slot, ""))
      /\ \A m \in {"am", "fm"} : mode = <<m>> => Fits(s, "tune")
         /\ Serves(s, Tuned(req.rx, req.tx, slot, m))
  <2>1. "tune" \in {"tune", "channel"}
    OBVIOUS
  <2> QED
    BY <1>4, <1>5, <1>6, <2>1, TuneServes
<1>8. Fits(s, "tune") /\ Serves(s, Tuned(req.rx, req.tx, slot, req.mode))
  <2>1. CASE mode = <<>>
    BY <1>4, <1>7, <2>1
  <2>2. CASE mode # <<>>
    <3>1. req.mode \in {"am", "fm"} /\ mode = <<req.mode>>
      BY <1>2, <2>2, ModesMeant
    <3> QED
      BY <1>7, <3>1
  <2> QED
    BY <2>1, <2>2
<1>9. Means(req) = Tuned(req.rx, req.tx, slot, req.mode)
  BY <1>1 DEF Means
<1> QED
  BY <1>8, <1>9

(* What a request makes the server send fits its route, and serves what    *)
(* the request means.                                                      *)
Asked(req) == IF req.route = "tune" THEN PostTune(Scratch, req) ELSE Route(req)

LEMMA AskServes ==
  ASSUME NEW req \in Requests, NEW s, s = Asked(req), s # <<>>
  PROVE  Fits(s, req.route) /\ Serves(s, Means(req))
<1>1. CASE req \in [route : {"preset", "squelch"}, n : Nat]
  <2>1. req.route \in {"preset", "squelch"} /\ req.n \in Nat
    BY <1>1
  <2>2. s = Route(req)
    BY <2>1 DEF Asked
  <2>3. Fits(s, req.route) /\ Lands(s, req.route, req.n)
    BY <2>1, <2>2, NumberServes
  <2>4. Means(req) = [f \in {req.route} |-> req.n]
    BY <2>1 DEF Means
  <2> QED
    BY <2>3, <2>4 DEF Serves
<1>2. CASE req \in [route : WordRoutes, word : STRING]
  <2>1. req.route \in WordRoutes
    BY <1>2
  <2>2. req.route \notin {"preset", "squelch", "store", "tune"}
    BY <2>1 DEF WordRoutes, Field
  <2>3. s = Route(req)
    BY <2>2 DEF Asked
  <2>4. Fits(s, req.route) /\ Lands(s, Field[req.route], Sense(req.route, req.word))
    BY <2>1, <2>3, RouteServes
  <2>5. Means(req) = [f \in {Field[req.route]} |-> Sense(req.route, req.word)]
    BY <2>2 DEF Means
  <2> QED
    BY <2>4, <2>5 DEF Serves
<1>3. CASE req \in [route : {"store"}]
  <2>1. req.route = "store"
    BY <1>3
  <2>2. s = Route(req)
    BY <2>1 DEF Asked
  <2>3. Means(req) = <<>>
    BY <2>1 DEF Means
  <2>4. Fits(s, req.route)
    BY <2>1, <2>2, StoreServes
  <2> QED
    BY <2>3, <2>4 DEF Serves
<1>4. CASE req \in [route : {"tune"}, rx : Nat, tx : Nat, step : STRING, mode : STRING, target : Seq(Nat)]
  <2>1. req.route = "tune" /\ req.rx \in Nat /\ req.tx \in Nat /\ req.target \in Seq(Nat)
    BY <1>4
  <2>2. s = PostTune(Scratch, req)
    BY <2>1 DEF Asked
  <2> QED
    BY <2>1, <2>2, PostTuneServes
<1> QED
  BY <1>1, <1>2, <1>3, <1>4, RequestAssumption

(* So do the commands of a channel.                                        *)
LEMMA ChannelServes ==
  ASSUME NEW ch, ch.rx \in Nat, ch.tx \in Nat, ch.mode \in {<<>>, <<"am">>, <<"fm">>},
         NEW s, s = TuneChannel(Scratch, ch), s # <<>>
  PROVE  Fits(s, "channel") /\ Serves(s, MeansChannel(ch))
<1>1. PICK step : step = ChannelStep(ch)
  OBVIOUS
<1>2. step \in {"k25", "k12_5", "k5"}
  <2>1. DOMAIN Step = {"k25", "k12_5", "k5"}
    BY DEF Step
  <2> QED
    BY <1>1, <2>1 DEF ChannelStep
<1>3. s = Tune(Scratch, ch.rx, ch.tx, step, ch.mode)
  BY <1>1 DEF TuneChannel
<1>4. /\ ch.mode = <<>> => Fits(s, "channel") /\ Serves(s, Tuned(ch.rx, ch.tx, Scratch, ""))
      /\ \A m \in {"am", "fm"} : ch.mode = <<m>> =>
            Fits(s, "channel") /\ Serves(s, Tuned(ch.rx, ch.tx, Scratch, m))
  <2>1. "channel" \in {"tune", "channel"} /\ Scratch \in 0..9
    BY DeskAssumption
  <2> QED
    BY <1>2, <1>3, <2>1, TuneServes
<1>5. PICK word : word = Or(ch.mode, <<"">>)[1]
  OBVIOUS
<1>6. \/ ch.mode = <<>> /\ word = ""
      \/ ch.mode = <<"am">> /\ word = "am"
      \/ ch.mode = <<"fm">> /\ word = "fm"
  <2>1. CASE ch.mode = <<>>
    BY <1>5, <2>1 DEF Or
  <2>2. CASE ch.mode = <<"am">>
    BY <1>5, <2>2 DEF Or
  <2>3. CASE ch.mode = <<"fm">>
    BY <1>5, <2>3 DEF Or
  <2> QED
    BY <2>1, <2>2, <2>3
<1>7. Fits(s, "channel") /\ Serves(s, Tuned(ch.rx, ch.tx, Scratch, word))
  BY <1>4, <1>6
<1>8. MeansChannel(ch) = Tuned(ch.rx, ch.tx, Scratch, word)
  BY <1>5 DEF MeansChannel
<1> QED
  BY <1>7, <1>8

(* And the command that lets its tone pass.                                *)
LEMMA CoupleServes ==
  ASSUME NEW tone
  PROVE  /\ Fits(CoupleTextMode(tone), "couple")
         /\ Lands(CoupleTextMode(tone), "text_mode", TextFor(tone))
<1>1. PICK mode : mode = TextFor(tone)
  OBVIOUS
<1>2. mode \in {"pt", "ct"}
  BY <1>1 DEF TextFor
<1>3. PICK c : c = [op |-> "Text", arg |-> mode]
  OBVIOUS
<1>4. c.op = "Text" /\ c.arg = mode /\ c \in [op : {"Text"}, arg : {"pt", "ct"}]
  BY <1>2, <1>3
<1>5. c \in Commands
  BY <1>4 DEF Commands
<1>6. Alters(c) \subseteq Touches("couple") /\ Sets(c, "text_mode", mode)
  BY <1>4 DEF Alters, Touches, Sets
<1>7. "couple" \notin Storing /\ c.op # "StorePreset"
  BY <1>4 DEF Storing
<1>8. Fits(<<c>>, "couple") /\ Lands(<<c>>, "text_mode", mode)
  BY <1>5, <1>6, <1>7, OneCommand
<1>9. CoupleTextMode(tone) = <<c>>
  BY <1>1, <1>3 DEF CoupleTextMode, Command
<1> QED
  BY <1>1, <1>8, <1>9

-----------------------------------------------------------------------------
(* Files: what is imported is a channel of whole 100 Hz, in reach of u32.  *)

LEMMA Least ==
  ASSUME NEW S, S \subseteq Nat, S # {}
  PROVE  \E m \in S : \A y \in S : m <= y
<1>1. PICK m \in S : \A y \in S : <<y, m>> \notin OpToRel(<, Nat)
  BY WFMin, NatLessThanWellFounded
<1>2. \A y \in S : ~(y < m)
  BY <1>1 DEF OpToRel
<1> QED
  BY <1>2

(* The place of the first member of a sequence that passes a test is one.  *)
LEMMA First ==
  ASSUME NEW S, S \subseteq Nat, S # {}
  PROVE  Min(S) \in S /\ \A y \in S : Min(S) <= y
<1>1. \E m \in S : \A y \in S : m <= y
  BY Least
<1> QED
  BY <1>1 DEF Min

LEMMA ColumnIs ==
  ASSUME NEW names, NEW columns, Column(names, columns) # 0
  PROVE  names[Column(names, columns)] \in columns
<1>1. PICK I : I = {i \in 1..Len(names) : names[i] \in columns}
  OBVIOUS
<1>2. Column(names, columns) = IF I # {} THEN Min(I) ELSE 0
  BY <1>1 DEF Column, SelectInSeq
<1>3. I \subseteq Nat
  BY <1>1
<1>4. I # {} /\ Column(names, columns) = Min(I)
  BY <1>2
<1>5. Min(I) \in I
  BY <1>3, <1>4, First
<1> QED
  BY <1>1, <1>4, <1>5

IsCell(cell) == IsNumber(cell) => cell.v \in Int
IsRow(row) == \A c \in DOMAIN row : IsCell(row[c])

LEMMA CellIs ==
  ASSUME NEW row, IsRow(row), NEW names
  PROVE  IsCell(Cell(row, names))
<1>1. CASE Column(names, DOMAIN row) = 0
  BY <1>1 DEF Cell, Blank, IsCell, IsNumber
<1>2. CASE Column(names, DOMAIN row) # 0
  <2>1. names[Column(names, DOMAIN row)] \in DOMAIN row
    BY <1>2, ColumnIs
  <2>2. Cell(row, names) = row[names[Column(names, DOMAIN row)]]
    BY <1>2 DEF Cell
  <2> QED
    BY <2>1, <2>2 DEF IsRow
<1> QED
  BY <1>1, <1>2

(* A frequency in a library.                                               *)
Heardable(f) == f \in Nat /\ Between(0, f, MaxFreq)

LEMMA Limits ==
  /\ \A f \in Nat : Heardable(AtMost(MaxFreq, f))
  /\ \A f \in Int : AsUnsigned(f) \in Nat
  /\ \A f, g \in Nat : f <= MaxFreq => Heardable(IF f < g THEN 0 ELSE f - g)
<1>1. \A f \in Nat : Heardable(AtMost(MaxFreq, f))
  BY SMT DEF Heardable, AtMost, MaxFreq, Between
<1>2. \A f \in Int : AsUnsigned(f) \in Nat
  BY SMT DEF AsUnsigned, MaxFreq
<1>3. \A f, g \in Nat : f <= MaxFreq => Heardable(IF f < g THEN 0 ELSE f - g)
  BY SMT DEF Heardable, MaxFreq, Between
<1> QED
  BY <1>1, <1>2, <1>3

LEMMA ParseMhzIs ==
  ASSUME NEW cell, IsCell(cell), ParseMhz(cell) # <<>>
  PROVE  Heardable(ParseMhz(cell)[1])
<1>1. /\ IsNumber(cell) /\ Between(0, cell.v, 100000000)
      /\ ParseMhz(cell) = <<AtMost(MaxFreq, cell.v)>>
  BY DEF ParseMhz
<1>2. cell.v \in Nat
  <2>1. cell.v \in Int
    BY <1>1 DEF IsCell
  <2> QED
    BY SMT, <1>1, <2>1 DEF Between
<1>3. Heardable(AtMost(MaxFreq, cell.v))
  BY <1>2, Limits
<1> QED
  BY <1>1, <1>3

LEMMA ShiftedIs ==
  ASSUME NEW rx, Heardable(rx), NEW duplex, NEW off \in Int
  PROVE  Heardable(Shifted(rx, duplex, off))
<1>1. rx \in Nat /\ rx <= MaxFreq
  BY DEF Heardable, Between
<1>2. PICK g \in Nat : g = AsUnsigned(off)
  BY Limits
<1>3. rx + g \in Nat
  BY <1>1
<1>4. CASE duplex = "+"
  BY <1>2, <1>3, <1>4, Limits DEF Shifted
<1>5. CASE duplex = "-"
  BY <1>1, <1>2, <1>5, Limits DEF Shifted
<1>6. CASE duplex \notin {"+", "-"}
  BY <1>6 DEF Shifted
<1> QED
  BY <1>4, <1>5, <1>6

LEMMA TxOfIs ==
  ASSUME NEW p, NEW row, IsRow(row), NEW rx, Heardable(rx), TxOf(p, row, rx) # <<>>
  PROVE  Heardable(TxOf(p, row, rx)[1])
<1>1. CASE "offset" \notin DOMAIN p
  <2>1. TxOf(p, row, rx) = ParseMhz(Cell(row, p.tx))
    BY <1>1 DEF TxOf
  <2> QED
    BY <2>1, CellIs, ParseMhzIs
<1>2. CASE "offset" \in DOMAIN p
  <2>1. PICK off : off = Or(Value(Cell(row, p.offset)), <<0>>)[1]
    OBVIOUS
  <2>2. PICK dup : dup = IF IsNumber(Cell(row, p.tx)) THEN "" ELSE Cell(row, p.tx).w
    OBVIOUS
  <2>3. TxOf(p, row, rx) = <<Shifted(rx, dup, off)>>
    BY <1>2, <2>1, <2>2 DEF TxOf
  <2>4. off \in Int
    <3>1. PICK cell : cell = Cell(row, p.offset) /\ IsCell(cell)
      BY CellIs
    <3>2. CASE IsNumber(cell)
      <4>1. Value(cell) = <<cell.v>> /\ cell.v \in Int
        BY <3>1, <3>2 DEF Value, IsCell
      <4> QED
        BY <2>1, <3>1, <4>1 DEF Or
    <3>3. CASE ~IsNumber(cell)
      <4>1. Value(cell) = <<>>
        BY <3>3 DEF Value
      <4> QED
        BY <2>1, <3>1, <4>1 DEF Or
    <3> QED
      BY <3>2, <3>3
  <2>5. Heardable(Shifted(rx, dup, off))
    BY <2>4, ShiftedIs
  <2> QED
    BY <2>3, <2>5
<1> QED
  BY <1>1, <1>2

IsChannel(ch) == Heardable(ch.rx) /\ Heardable(ch.tx) /\ ch.mode \in {<<>>, <<"am">>, <<"fm">>}

LEMMA ParseRowIs ==
  ASSUME NEW p, NEW row, IsRow(row), ParseRow(p, row) # <<>>
  PROVE  IsChannel(ParseRow(p, row)[1])
<1>1. PICK rx : rx = ParseMhz(Cell(row, p.rx))
  OBVIOUS
<1>2. PICK tx : tx = IF rx = <<>> THEN <<>> ELSE TxOf(p, row, rx[1])
  OBVIOUS
<1>3. PICK mode : mode = NormalizeMode(Cell(row, p.mode))
  OBVIOUS
<1>4. PICK ch : ch = [name |-> Cell(row, p.name).w, rx |-> rx[1], tx |-> tx[1],
                      mode |-> mode, step |-> Value(Cell(row, p.step)),
                      ctcss |-> ParseCtcss(Cell(row, p.ctcss))]
  OBVIOUS
<1>5. rx # <<>> /\ tx # <<>> /\ ParseRow(p, row) = <<ch>>
  BY <1>1, <1>2, <1>3, <1>4 DEF ParseRow
<1>6. ch.rx = rx[1] /\ ch.tx = tx[1] /\ ch.mode = mode
  BY <1>4
<1>7. Heardable(rx[1])
  BY <1>1, <1>5, CellIs, ParseMhzIs
<1>8. Heardable(tx[1])
  BY <1>2, <1>5, <1>7, TxOfIs
<1>9. mode \in {<<>>, <<"am">>, <<"fm">>}
  BY <1>3 DEF NormalizeMode
<1> QED
  BY <1>5, <1>6, <1>7, <1>8, <1>9 DEF IsChannel

LEMMA ParseCsvIs ==
  ASSUME NEW file \in Files, NEW i \in DOMAIN ParseCsv(file.columns, file.rows)
  PROVE  IsChannel(ParseCsv(file.columns, file.rows)[i])
<1>1. PICK p : p = ProfileOf(file.columns)[1]
  OBVIOUS
<1>2. PICK D : D = {j \in DOMAIN file.rows : ParseRow(p, file.rows[j]) # <<>>}
  OBVIOUS
<1>3. CASE ProfileOf(file.columns) = <<>>
  <2>1. ParseCsv(file.columns, file.rows) = <<>>
    BY <1>3 DEF ParseCsv
  <2>2. DOMAIN <<>> = {}
    OBVIOUS
  <2> QED
    BY <2>1, <2>2
<1>4. CASE ProfileOf(file.columns) # <<>>
  <2>1. ParseCsv(file.columns, file.rows) = [j \in D |-> ParseRow(p, file.rows[j])[1]]
    BY <1>1, <1>2, <1>4 DEF ParseCsv
  <2>2. i \in D
    BY <2>1
  <2>3. IsRow(file.rows[i]) /\ ParseRow(p, file.rows[i]) # <<>>
    <3>1. i \in DOMAIN file.rows /\ ParseRow(p, file.rows[i]) # <<>>
      BY <1>2, <2>2
    <3>2. ASSUME NEW c \in DOMAIN file.rows[i]
          PROVE  IsCell(file.rows[i][c])
      <4>1. file.rows[i][c] \in [v : Int] \union [w : STRING]
        BY <3>1, FileAssumption
      <4> QED
        BY <4>1 DEF IsCell, IsNumber
    <3> QED
      BY <3>1, <3>2 DEF IsRow
  <2>4. IsChannel(ParseRow(p, file.rows[i])[1])
    BY <2>3, ParseRowIs
  <2> QED
    BY <2>1, <2>2, <2>4
<1> QED
  BY <1>3, <1>4

-----------------------------------------------------------------------------
(* The inductive invariant.                                                *)

ViewSet == {"text_mode", "speaker_on", "lamp", "scan", "squelch", "preset", "rx", "tx", "mod_tx_rx",
            "mod_tx_only", "on_scan_list", "power", "slots", "mode", "rssi", "broken", "locked",
            "overtemp", "ebn30", "ebn400"}

LibraryOK == \A i \in DOMAIN lib : IsChannel(lib[i])

MixerOK == \A i \in DOMAIN mixer : 300 < mixer[i] /\ mixer[i] < 3000

(* What a job that met no NAK has still to do: every field it means is set *)
(* for good or will be by a command that is left, and the slots are stored *)
(* with the last one.                                                      *)
OnItsWay(f) == \/ Lands(left, f, job.means[f])
               \/ Spares(left, f) /\ View(radio)[f] = job.means[f]

SlotsAsLeft ==
    IF left # <<>> THEN radio.slots = job.slots
                   ELSE radio.slots = [job.slots EXCEPT ![radio.preset] = radio.ram]

Working ==
    /\ Fits(left, job.route)
    /\ DOMAIN want \intersect Touches(job.route) = {}
    /\ ~nak => /\ \A f \in DOMAIN job.means : f \in ViewSet /\ OnItsWay(f)
               /\ job.route \in Storing => SlotsAsLeft

Inv ==
    /\ IsRadio(radio)
    /\ nak \in BOOLEAN /\ asked \in 0..MaxRequests
    /\ LibraryOK /\ MixerOK
    /\ DOMAIN want \subseteq ViewSet /\ AckedIsDone
    /\ IF job = Idle THEN left = <<>> ELSE Working

LEMMA ViewDomain == \A r : DOMAIN View(r) = ViewSet
  BY ViewFields DEF ViewSet

LEMMA FieldOf ==
  ASSUME NEW c, NEW f, NEW v, Sets(c, f, v)
  PROVE  f \in ViewSet
  BY DEF Sets, ViewSet

(* What the first command leaves to the rest.                              *)
LEMMA Rest ==
  ASSUME NEW s \in Seq(Commands), s # <<>>
  PROVE  /\ Tail(s) \in Seq(Commands) /\ Len(Tail(s)) = Len(s) - 1 /\ Len(s) \in Nat \ {0}
         /\ Head(s) = s[1] /\ s[1] \in Commands
         /\ \A i \in 1..Len(Tail(s)) : Tail(s)[i] = s[i + 1] /\ i + 1 \in 1..Len(s)
         /\ \A i \in 1..Len(s) : i # 1 => i - 1 \in 1..Len(Tail(s)) /\ Tail(s)[i - 1] = s[i]
  OBVIOUS

LEMMA FitsRest ==
  ASSUME NEW s, NEW route, Fits(s, route), s # <<>>
  PROVE  /\ Fits(Tail(s), route) /\ Head(s) \in Commands /\ Alters(Head(s)) \subseteq Touches(route)
         /\ Head(s).op = "StorePreset" <=> (Tail(s) = <<>> /\ route \in Storing)
<1>1. s \in Seq(Commands)
  BY DEF Fits
<1>2. PICK t : t = Tail(s)
  OBVIOUS
<1>3. /\ t \in Seq(Commands) /\ Len(t) = Len(s) - 1 /\ Len(s) \in Nat \ {0}
      /\ Head(s) = s[1] /\ s[1] \in Commands
      /\ \A i \in 1..Len(t) : t[i] = s[i + 1] /\ i + 1 \in 1..Len(s)
  BY <1>1, <1>2, Rest
<1>4. \A i \in 1..Len(t) : Alters(t[i]) \subseteq Touches(route)
  BY <1>3 DEF Fits
<1>5. ASSUME NEW i \in 1..Len(t)
      PROVE  t[i].op = "StorePreset" <=> (i = Len(t) /\ route \in Storing)
  <2>1. t[i] = s[i + 1] /\ i + 1 \in 1..Len(s)
    BY <1>3
  <2>2. s[i + 1].op = "StorePreset" <=> (i + 1 = Len(s) /\ route \in Storing)
    BY <2>1 DEF Fits
  <2>3. i + 1 = Len(s) <=> i = Len(t)
    BY <1>3
  <2> QED
    BY <2>1, <2>2, <2>3
<1>6. s[1].op = "StorePreset" <=> (t = <<>> /\ route \in Storing)
  <2>1. 1 \in 1..Len(s) /\ (1 = Len(s) <=> Len(t) = 0)
    BY <1>3
  <2>2. Len(t) = 0 <=> t = <<>>
    BY <1>3
  <2>3. s[1].op = "StorePreset" <=> (1 = Len(s) /\ route \in Storing)
    BY <2>1 DEF Fits
  <2> QED
    BY <2>1, <2>2, <2>3
<1>7. Alters(s[1]) \subseteq Touches(route)
  BY <1>3 DEF Fits
<1>8. Fits(t, route)
  BY <1>3, <1>4, <1>5 DEF Fits
<1> QED
  BY <1>2, <1>3, <1>6, <1>7, <1>8

LEMMA LandsRest ==
  ASSUME NEW s \in Seq(Commands), s # <<>>, NEW f, NEW v
  PROVE  /\ Lands(s, f, v) => \/ Lands(Tail(s), f, v)
                              \/ Sets(Head(s), f, v) /\ Spares(Tail(s), f)
         /\ Spares(s, f) => f \notin Alters(Head(s)) /\ Spares(Tail(s), f)
<1>1. PICK t : t = Tail(s)
  OBVIOUS
<1>2. /\ t \in Seq(Commands) /\ Len(t) = Len(s) - 1 /\ Len(s) \in Nat \ {0}
      /\ Head(s) = s[1] /\ s[1] \in Commands
      /\ \A i \in 1..Len(t) : t[i] = s[i + 1] /\ i + 1 \in 1..Len(s)
      /\ \A i \in 1..Len(s) : i # 1 => i - 1 \in 1..Len(t) /\ t[i - 1] = s[i]
  BY <1>1, Rest
<1>3. ASSUME Lands(s, f, v)
      PROVE  Lands(t, f, v) \/ (Sets(s[1], f, v) /\ Spares(t, f))
  <2>1. PICK i \in 1..Len(s) : /\ Sets(s[i], f, v)
                               /\ \A j \in 1..Len(s) : j > i => f \notin Alters(s[j])
    BY <1>3 DEF Lands
  <2>2. CASE i = 1
    <3>1. \A j \in 1..Len(t) : f \notin Alters(t[j])
      <4>1. TAKE j \in 1..Len(t)
      <4>2. t[j] = s[j + 1] /\ j + 1 \in 1..Len(s) /\ j + 1 > i
        BY <1>2, <2>2
      <4> QED
        BY <2>1, <4>2
    <3> QED
      BY <2>1, <2>2, <3>1 DEF Spares
  <2>3. CASE i # 1
    <3>1. i - 1 \in 1..Len(t) /\ t[i - 1] = s[i]
      BY <1>2, <2>3
    <3>2. \A j \in 1..Len(t) : j > i - 1 => f \notin Alters(t[j])
      <4>1. TAKE j \in 1..Len(t)
      <4>2. t[j] = s[j + 1] /\ j + 1 \in 1..Len(s) /\ (j > i - 1 => j + 1 > i)
        BY <1>2
      <4> QED
        BY <2>1, <4>2
    <3> QED
      BY <2>1, <3>1, <3>2 DEF Lands
  <2> QED
    BY <2>2, <2>3
<1>4. ASSUME Spares(s, f)
      PROVE  f \notin Alters(s[1]) /\ Spares(t, f)
  <2>1. 1 \in 1..Len(s)
    BY <1>2
  <2> QED
    BY <1>2, <1>4, <2>1 DEF Spares
<1> QED
  BY <1>1, <1>2, <1>3, <1>4

LEMMA SlotsOf ==
  ASSUME NEW r
  PROVE  View(r)["slots"] = r.slots
  BY DEF View

(* The radio before anything was asked.                                    *)
LEMMA InitRadio ==
  ASSUME Init
  PROVE  IsRadio(radio)
<1>1. PICK a \in Ambients : radio =
        [preset |-> 0, slots |-> [s \in 0..9 |-> Factory], ram |-> Factory, text |-> 0,
         lamp |-> 0, speaker |-> 0, scan |-> 0, squelch |-> 0, mode |-> a.mode,
         rssi |-> a.rssi, broken |-> a.broken, locked |-> a.locked, hot |-> a.hot,
         options |-> a.options, extra |-> a.extra]
  BY DEF Init
<1>2. /\ a.mode \in Holds("mode") /\ a.rssi \in Holds("rssi") /\ a.broken \in Holds("broken")
      /\ a.locked \in Holds("locked") /\ a.hot \in Holds("hot") /\ a.options \in Holds("options")
      /\ a.extra \in Holds("extra")
  <2>1. /\ a \in [mode : {"receive", "transmit", "beacon"}, rssi : 0..255, broken : BOOLEAN,
                 locked : BOOLEAN, hot : 0..1, options : 0..9, extra : Seq(ToSet(Digits))]
        /\ Len(a.extra) <= 200
    BY AmbientAssumption
  <2>2. /\ a.mode \in {"receive", "transmit", "beacon"} /\ a.rssi \in 0..255 /\ a.broken \in BOOLEAN
        /\ a.locked \in BOOLEAN /\ a.hot \in 0..1 /\ a.options \in 0..9 /\ a.extra \in Seq(Digit)
    BY <2>1 DEF Digit
  <2> QED
    BY <2>1, <2>2, HoldsOf
<1>3. Factory \in Slot
  <2>1. 2430000 \in Hz
    BY SMT DEF Hz, Between
  <2> QED
    BY <2>1 DEF Factory, Slot
<1>4. [s \in 0..9 |-> Factory] \in Holds("slots") /\ Factory \in Holds("ram")
  BY <1>3, HoldsOf
<1>5. /\ 0 \in Holds("preset") /\ 0 \in Holds("text") /\ 0 \in Holds("lamp") /\ 0 \in Holds("speaker")
      /\ 0 \in Holds("scan") /\ 0 \in Holds("squelch")
  BY HoldsOf
<1>6. \A x \in RadioFields : radio[x] \in Holds(x)
  BY <1>1, <1>2, <1>4, <1>5 DEF RadioFields
<1>7. radio = [x \in RadioFields |-> radio[x]]
  BY <1>1 DEF RadioFields
<1> QED
  BY <1>6, <1>7 DEF IsRadio

LEMMA InitInv == Init => Inv
<1> SUFFICES ASSUME Init PROVE Inv
  OBVIOUS
<1>1. IsRadio(radio)
  BY InitRadio
<1>2. nak \in BOOLEAN /\ asked \in 0..MaxRequests
  <2>1. nak = FALSE /\ asked = 0
    BY DEF Init
  <2>2. 0 \in 0..MaxRequests
    BY DeskAssumption
  <2> QED
    BY <2>1, <2>2
<1>3. LibraryOK
  <2>1. DOMAIN lib = {}
    BY DEF Init
  <2> QED
    BY <2>1 DEF LibraryOK
<1>4. DOMAIN want \subseteq ViewSet /\ AckedIsDone
  BY ViewDomain DEF Init, AckedIsDone
<1>5. MixerOK
  <2>1. DOMAIN mixer = {}
    BY DEF Init
  <2> QED
    BY <2>1 DEF MixerOK
<1> QED
  BY <1>1, <1>2, <1>3, <1>4, <1>5 DEF Inv, Init

(* A handler that starts on commands which serve what it means.            *)
LEMMA BeginInv ==
  ASSUME Inv, job = Idle, NEW route, NEW s, NEW means, NEW tone,
         s # <<>> => Fits(s, route) /\ Serves(s, means),
         Ready, Begin(route, s, means, tone), UNCHANGED <<radio, lib, mixer>>
  PROVE  Inv'
<1>1. IsRadio(radio)' /\ LibraryOK' /\ MixerOK'
  BY DEF Inv, LibraryOK, MixerOK
<1>2. (asked \in 0..MaxRequests)'
  <2>1. asked \in 0..MaxRequests /\ MaxRequests \in Nat
    BY DeskAssumption DEF Inv
  <2> QED
    BY <2>1 DEF Ready
<1>3. CASE s = <<>>
  <2>1. UNCHANGED <<job, left, nak, want>>
    BY <1>3 DEF Begin
  <2>2. DOMAIN want \subseteq ViewSet /\ AckedIsDone /\ left = <<>> /\ nak \in BOOLEAN
    BY DEF Inv
  <2>3. AckedIsDone'
    BY <2>1, <2>2 DEF AckedIsDone
  <2>4. (job = Idle)' /\ (left = <<>>)'
    BY <2>1, <2>2
  <2> QED
    BY <1>1, <1>2, <2>1, <2>2, <2>3, <2>4 DEF Inv
<1>4. CASE s # <<>>
  <2>1. /\ job' = [route |-> route, means |-> means, slots |-> radio.slots, tone |-> tone]
        /\ left' = s /\ nak' = FALSE /\ want' = Without(want, Touches(route))
    BY <1>4 DEF Begin
  <2>2. job'.route = route /\ job'.means = means /\ job'.slots = radio.slots
    BY <2>1
  <2>3. job' # Idle
    <3>1. "means" \in DOMAIN job' /\ "means" \notin DOMAIN Idle
      BY <2>1 DEF Idle
    <3> QED
      BY <3>1
  <2>4. /\ DOMAIN want' \subseteq DOMAIN want /\ DOMAIN want' \intersect Touches(route) = {}
        /\ \A f \in DOMAIN want' : want'[f] = want[f]
    BY <2>1 DEF Without
  <2>5. (DOMAIN want \subseteq ViewSet)' /\ AckedIsDone'
    BY <2>4 DEF Inv, AckedIsDone
  <2>6. Fits(s, route) /\ Serves(s, means)
    BY <1>4
  <2>7. \A f \in DOMAIN means : Lands(s, f, means[f]) /\ f \in ViewSet
    <3>1. TAKE f \in DOMAIN means
    <3>2. Lands(s, f, means[f])
      BY <2>6 DEF Serves
    <3>3. \E i \in 1..Len(s) : Sets(s[i], f, means[f])
      BY <3>2 DEF Lands
    <3> QED
      BY <3>2, <3>3, FieldOf
  <2>8. (\A f \in DOMAIN job.means : f \in ViewSet /\ OnItsWay(f))'
    BY <2>1, <2>2, <2>7 DEF OnItsWay
  <2>9. SlotsAsLeft'
    BY <1>4, <2>1, <2>2 DEF SlotsAsLeft
  <2>10. Working'
    BY <2>1, <2>2, <2>4, <2>6, <2>8, <2>9 DEF Working
  <2> QED
    BY <1>1, <1>2, <2>1, <2>3, <2>5, <2>10 DEF Inv
<1> QED
  BY <1>3, <1>4

LEMMA AskInv ==
  ASSUME Inv, Ask
  PROVE  Inv'
<1>1. PICK req \in Requests :
        /\ Ready /\ UNCHANGED <<radio, lib, mixer>>
        /\ Begin(req.route, IF req.route = "tune" THEN PostTune(Scratch, req) ELSE Route(req), Means(req), <<>>)
  BY DEF Ask
<1>2. Begin(req.route, Asked(req), Means(req), <<>>) /\ job = Idle
  BY <1>1 DEF Asked, Ready
<1>3. Asked(req) # <<>> => Fits(Asked(req), req.route) /\ Serves(Asked(req), Means(req))
  BY AskServes
<1> QED
  BY <1>1, <1>2, <1>3, BeginInv

LEMMA AskChannelInv ==
  ASSUME Inv, AskChannel
  PROVE  Inv'
<1>1. PICK i \in DOMAIN lib :
        /\ Ready /\ UNCHANGED <<radio, lib, mixer>>
        /\ Begin("channel", TuneChannel(Scratch, lib[i]), MeansChannel(lib[i]), lib[i].ctcss)
  BY DEF AskChannel
<1>2. PICK s, means : s = TuneChannel(Scratch, lib[i]) /\ means = MeansChannel(lib[i])
  OBVIOUS
<1>3. IsChannel(lib[i])
  BY DEF Inv, LibraryOK
<1>4. s # <<>> => Fits(s, "channel") /\ Serves(s, means)
  BY <1>2, <1>3, ChannelServes DEF IsChannel, Heardable
<1>5. job = Idle /\ Begin("channel", s, means, lib[i].ctcss)
  BY <1>1, <1>2 DEF Ready
<1> QED
  BY <1>1, <1>4, <1>5, BeginInv

LEMMA ImportInv ==
  ASSUME Inv, Import
  PROVE  Inv'
<1>1. PICK file \in Files :
        /\ Ready /\ UNCHANGED <<radio, job, left, mixer, nak, page, want, truth>>
        /\ lib' = IF ProfileOf(file.columns) = <<>> THEN lib ELSE ParseCsv(file.columns, file.rows)
  BY DEF Import
<1>2. LibraryOK'
  <2>1. CASE lib' = lib
    BY <2>1 DEF Inv, LibraryOK
  <2>2. CASE lib' = ParseCsv(file.columns, file.rows)
    BY <2>2, ParseCsvIs DEF LibraryOK
  <2> QED
    BY <1>1, <2>1, <2>2
<1>3. (asked \in 0..MaxRequests)'
  <2>1. asked \in 0..MaxRequests /\ MaxRequests \in Nat
    BY DeskAssumption DEF Inv
  <2> QED
    BY <1>1, <2>1 DEF Ready
<1>4. (DOMAIN want \subseteq ViewSet)' /\ AckedIsDone' /\ (nak \in BOOLEAN)' /\ IsRadio(radio)'
      /\ MixerOK'
  BY <1>1 DEF Inv, AckedIsDone, MixerOK
<1>5. job' = Idle /\ left' = <<>>
  BY <1>1 DEF Inv, Ready
<1> QED
  BY <1>2, <1>3, <1>4, <1>5 DEF Inv

(* A command of a job that is obeyed leaves what is promised as it was.    *)
LEMMA CommandKeeps ==
  ASSUME Inv, left # <<>>, NEW q, q = After(radio, Encode(Head(left)))
  PROVE  /\ job # Idle /\ Working /\ left \in Seq(Commands) /\ Fits(Tail(left), job.route)
         /\ Done(Head(left), radio, q)
         /\ Head(left).op = "StorePreset" <=> (Tail(left) = <<>> /\ job.route \in Storing)
         /\ \A f \in DOMAIN want : View(q)[f] = want[f]
<1>1. job # Idle /\ Working /\ Fits(left, job.route) /\ left \in Seq(Commands)
  BY DEF Inv, Working, Fits
<1>2. /\ Fits(Tail(left), job.route) /\ Head(left) \in Commands
      /\ Alters(Head(left)) \subseteq Touches(job.route)
      /\ Head(left).op = "StorePreset" <=> (Tail(left) = <<>> /\ job.route \in Storing)
  BY <1>1, FitsRest
<1>3. Done(Head(left), radio, q)
  BY <1>2, CommandDone DEF Inv
<1>4. \A f \in DOMAIN want : View(q)[f] = want[f]
  <2>1. TAKE f \in DOMAIN want
  <2>2. f \in DOMAIN View(radio) /\ View(radio)[f] = want[f]
    BY ViewDomain DEF Inv, AckedIsDone
  <2>3. f \notin Alters(Head(left))
    BY <1>1, <1>2 DEF Working
  <2> QED
    BY <1>3, <2>2, <2>3 DEF Done
<1> QED
  BY <1>1, <1>2, <1>3, <1>4

LEMMA ObeyedInv ==
  ASSUME Inv, Obeyed
  PROVE  Inv'
<1>1. PICK c, t, q : c = Head(left) /\ t = Tail(left) /\ q = After(radio, Encode(Head(left)))
  OBVIOUS
<1>2. /\ left # <<>> /\ radio' = q /\ left' = t
      /\ UNCHANGED <<lib, job, mixer, nak, asked, page, want, truth>>
  BY <1>1 DEF Obeyed
<1>3. /\ job # Idle /\ Working /\ left \in Seq(Commands) /\ Fits(t, job.route) /\ Done(c, radio, q)
      /\ c.op = "StorePreset" <=> (t = <<>> /\ job.route \in Storing)
      /\ \A f \in DOMAIN want : View(q)[f] = want[f]
  BY <1>1, <1>2, CommandKeeps
<1>4. AckedIsDone' /\ (DOMAIN want \subseteq ViewSet)'
  BY <1>2, <1>3 DEF AckedIsDone, Inv
<1>5. ASSUME ~nak, NEW f \in DOMAIN job.means
      PROVE  f \in ViewSet /\ (Lands(t, f, job.means[f]) \/ (Spares(t, f) /\ View(q)[f] = job.means[f]))
  <2>1. f \in ViewSet /\ OnItsWay(f)
    BY <1>3, <1>5 DEF Working
  <2>2. CASE Lands(left, f, job.means[f])
    <3>1. Lands(t, f, job.means[f]) \/ (Sets(c, f, job.means[f]) /\ Spares(t, f))
      BY <1>1, <1>2, <1>3, <2>2, LandsRest
    <3>2. Sets(c, f, job.means[f]) => View(q)[f] = job.means[f]
      BY <1>3 DEF Done
    <3> QED
      BY <2>1, <3>1, <3>2
  <2>3. CASE Spares(left, f) /\ View(radio)[f] = job.means[f]
    <3>1. f \notin Alters(c) /\ Spares(t, f)
      BY <1>1, <1>2, <1>3, <2>3, LandsRest
    <3>2. View(q)[f] = View(radio)[f]
      BY <1>3, <2>1, <3>1, ViewDomain DEF Done
    <3> QED
      BY <2>1, <2>3, <3>1, <3>2
  <2> QED
    BY <2>1, <2>2, <2>3 DEF OnItsWay
<1>6. ASSUME ~nak
      PROVE  (\A f \in DOMAIN job.means : f \in ViewSet /\ OnItsWay(f))'
  BY <1>2, <1>5, <1>6 DEF OnItsWay
<1>7. ASSUME ~nak, job.route \in Storing
      PROVE  SlotsAsLeft'
  <2>1. radio.slots = job.slots
    BY <1>2, <1>3, <1>7 DEF Working, SlotsAsLeft
  <2>2. CASE t # <<>>
    <3>1. q.slots = radio.slots
      BY <1>3, <2>2 DEF Done
    <3> QED
      BY <1>2, <2>1, <2>2, <3>1 DEF SlotsAsLeft
  <2>3. CASE t = <<>>
    <3>1. c.op = "StorePreset"
      BY <1>3, <1>7, <2>3
    <3>2. q.slots = [radio.slots EXCEPT ![radio.preset] = radio.ram]
          /\ q.preset = radio.preset /\ q.ram = radio.ram
      BY <1>3, <3>1 DEF Done
    <3> QED
      BY <1>2, <2>1, <2>3, <3>2 DEF SlotsAsLeft
  <2> QED
    BY <2>2, <2>3
<1>8. Working'
  <2>1. Fits(left, job.route)' /\ (DOMAIN want \intersect Touches(job.route) = {})'
    BY <1>2, <1>3 DEF Working
  <2> QED
    BY <1>2, <1>6, <1>7, <2>1 DEF Working
<1>9. LibraryOK' /\ (nak \in BOOLEAN)' /\ (asked \in 0..MaxRequests)' /\ (job # Idle)' /\ IsRadio(radio)'
      /\ MixerOK'
  BY <1>2, <1>3 DEF Inv, LibraryOK, MixerOK, Done
<1> QED
  BY <1>4, <1>8, <1>9 DEF Inv

LEMMA RefusedInv ==
  ASSUME Inv, Refused
  PROVE  Inv'
<1>1. /\ left # <<>> /\ nak' = TRUE /\ left' = Tail(left)
      /\ UNCHANGED <<radio, lib, job, mixer, asked, page, want, truth>>
  BY DEF Refused
<1>2. job # Idle /\ Working /\ Fits(Tail(left), job.route)
  BY <1>1, CommandKeeps
<1>3. Working'
  <2>1. Fits(left, job.route)' /\ (DOMAIN want \intersect Touches(job.route) = {})'
    BY <1>1, <1>2 DEF Working
  <2> QED
    BY <1>1, <2>1 DEF Working
<1>4. LibraryOK' /\ AckedIsDone' /\ (DOMAIN want \subseteq ViewSet)' /\ (asked \in 0..MaxRequests)'
      /\ IsRadio(radio)' /\ MixerOK'
  BY <1>1 DEF Inv, LibraryOK, MixerOK, AckedIsDone
<1> QED
  BY <1>1, <1>2, <1>3, <1>4 DEF Inv

LEMMA UnansweredInv ==
  ASSUME Inv, Unanswered
  PROVE  Inv'
<1>1. PICK q : q = After(radio, Encode(Head(left)))
  OBVIOUS
<1>2. /\ left # <<>> /\ left' = <<>> /\ job' = Idle /\ radio' \in {radio, q}
      /\ UNCHANGED <<lib, mixer, nak, asked, page, want, truth>>
  BY <1>1 DEF Unanswered
<1>3. Done(Head(left), radio, q) /\ \A f \in DOMAIN want : View(q)[f] = want[f]
  BY <1>1, <1>2, CommandKeeps
<1>4. IsRadio(radio') /\ \A f \in DOMAIN want : View(radio')[f] = want[f]
  BY <1>2, <1>3 DEF Inv, Done, AckedIsDone
<1>5. AckedIsDone' /\ LibraryOK' /\ (DOMAIN want \subseteq ViewSet)' /\ (asked \in 0..MaxRequests)'
      /\ (nak \in BOOLEAN)' /\ MixerOK'
  BY <1>2, <1>4 DEF Inv, LibraryOK, MixerOK, AckedIsDone
<1> QED
  BY <1>2, <1>4, <1>5 DEF Inv

(* What a job whose commands are all answered has done.                    *)
LEMMA KeptHolds ==
  ASSUME Inv, job # Idle, left = <<>>
  PROVE  \A f \in DOMAIN Kept : f \in ViewSet /\ View(radio)[f] = Kept[f]
<1>1. \A f \in DOMAIN want : f \in ViewSet /\ View(radio)[f] = want[f]
  BY DEF Inv, AckedIsDone
<1>2. CASE nak
  BY <1>1, <1>2 DEF Kept
<1>3. CASE ~nak
  <2>1. \A f \in DOMAIN job.means : f \in ViewSet /\ View(radio)[f] = job.means[f]
    <3>1. TAKE f \in DOMAIN job.means
    <3>2. f \in ViewSet /\ OnItsWay(f)
      BY <1>3 DEF Inv, Working
    <3>3. ~Lands(left, f, job.means[f])
      <4>1. 1..Len(left) = {}
        OBVIOUS
      <4> QED
        BY <4>1 DEF Lands
    <3> QED
      BY <3>2, <3>3 DEF OnItsWay
  <2>2. \A f \in DOMAIN Stored : f \in ViewSet /\ View(radio)[f] = Stored[f]
    <3>1. CASE job.route \in Storing
      <4>1. Stored = [slots |-> [job.slots EXCEPT ![radio.preset] = radio.ram]]
        BY <3>1 DEF Stored, Storing
      <4>2. radio.slots = [job.slots EXCEPT ![radio.preset] = radio.ram]
        BY <1>3, <3>1 DEF Inv, Working, SlotsAsLeft
      <4> QED
        BY <4>1, <4>2, SlotsOf DEF ViewSet
    <3>2. CASE job.route \notin Storing
      <4>1. Stored = <<>>
        BY <3>2 DEF Stored, Storing
      <4> QED
        BY <4>1
    <3> QED
      BY <3>1, <3>2
  <2>3. PICK g : g = Over(Stored, want)
    OBVIOUS
  <2>4. \A f \in DOMAIN g : f \in ViewSet /\ View(radio)[f] = g[f]
    BY <1>1, <2>2, <2>3 DEF Over
  <2>5. PICK k : k = Over(job.means, g)
    OBVIOUS
  <2>6. \A f \in DOMAIN k : f \in ViewSet /\ View(radio)[f] = k[f]
    BY <2>1, <2>4, <2>5 DEF Over
  <2>7. Kept = k
    BY <1>3, <2>3, <2>5 DEF Kept
  <2> QED
    BY <2>6, <2>7
<1> QED
  BY <1>2, <1>3 DEF Inv

LEMMA FinishInv ==
  ASSUME Inv, Finish
  PROVE  Inv'
<1>1. PICK k : k = Kept
  OBVIOUS
<1>2. /\ job # Idle /\ left = <<>> /\ job' = Idle /\ want' = k
      /\ UNCHANGED <<radio, lib, left, mixer, nak, asked>>
  BY <1>1 DEF Finish
<1>3. LibraryOK' /\ MixerOK' /\ (asked \in 0..MaxRequests)' /\ (nak \in BOOLEAN)' /\ IsRadio(radio)'
  BY <1>2 DEF Inv, LibraryOK, MixerOK
<1>4. \A f \in DOMAIN k : f \in ViewSet /\ View(radio)[f] = k[f]
  BY <1>1, <1>2, KeptHolds
<1>5. (DOMAIN want \subseteq ViewSet)' /\ AckedIsDone'
  BY <1>2, <1>4 DEF AckedIsDone
<1> QED
  BY <1>2, <1>3, <1>5 DEF Inv

LEMMA CoupleInv ==
  ASSUME Inv, Couple
  PROVE  Inv'
<1>1. PICK k, s, mode : k = Kept /\ s = CoupleTextMode(job.tone) /\ mode = TextFor(job.tone)
  OBVIOUS
<1>2. /\ job.route = "channel" /\ left = <<>> /\ left' = s /\ nak' = FALSE
      /\ job' = [route |-> "couple", means |-> [text_mode |-> mode], slots |-> radio.slots,
                 tone |-> job.tone]
      /\ want' = Without(k, Touches("couple")) /\ mixer' = Mixed(job.tone)
      /\ UNCHANGED <<radio, lib, asked>>
  BY <1>1 DEF Couple
<1>3. job # Idle
  BY <1>2 DEF Idle
<1>4. \A f \in DOMAIN k : f \in ViewSet /\ View(radio)[f] = k[f]
  BY <1>1, <1>2, <1>3, KeptHolds
<1>5. /\ DOMAIN want' \subseteq DOMAIN k /\ DOMAIN want' \intersect Touches("couple") = {}
      /\ \A f \in DOMAIN want' : want'[f] = k[f]
  BY <1>2 DEF Without
<1>6. (DOMAIN want \subseteq ViewSet)' /\ AckedIsDone'
  BY <1>2, <1>4, <1>5 DEF AckedIsDone
<1>7. MixerOK'
  <2>1. PICK tone : tone = job.tone
    OBVIOUS
  <2>2. Mixed(tone) = <<>> \/ (Mixed(tone) = <<tone[1]>> /\ 300 < tone[1] /\ tone[1] < 3000)
    BY DEF Mixed
  <2>3. \A i \in DOMAIN Mixed(tone) : 300 < Mixed(tone)[i] /\ Mixed(tone)[i] < 3000
    BY <2>2
  <2> QED
    BY <1>2, <2>1, <2>3 DEF MixerOK
<1>8. /\ job'.route = "couple" /\ DOMAIN job'.means = {"text_mode"}
      /\ job'.means["text_mode"] = mode
  BY <1>2
<1>9. job' # Idle
  BY <1>8 DEF Idle
<1>10. Fits(s, "couple") /\ Lands(s, "text_mode", mode)
  BY <1>1, CoupleServes
<1>11. (\A f \in DOMAIN job.means : f \in ViewSet /\ OnItsWay(f))'
  BY <1>2, <1>8, <1>10 DEF OnItsWay, ViewSet
<1>12. Working'
  BY <1>2, <1>5, <1>8, <1>10, <1>11 DEF Working, Storing
<1>13. LibraryOK' /\ (asked \in 0..MaxRequests)' /\ (nak \in BOOLEAN)' /\ IsRadio(radio)'
  BY <1>2 DEF Inv, LibraryOK
<1> QED
  BY <1>6, <1>7, <1>9, <1>12, <1>13 DEF Inv

LEMMA KeptInv ==
  ASSUME Inv, UNCHANGED <<radio, lib, job, left, mixer, nak, asked, want>>
  PROVE  Inv'
<1>1. LibraryOK' /\ MixerOK' /\ AckedIsDone' /\ SlotsAsLeft' = SlotsAsLeft
  BY DEF Inv, LibraryOK, MixerOK, AckedIsDone, SlotsAsLeft
<1>2. \A f : OnItsWay(f)' <=> OnItsWay(f)
  BY DEF OnItsWay
<1>3. Working => Working'
  BY <1>1, <1>2 DEF Working
<1> QED
  BY <1>1, <1>3 DEF Inv

LEMMA NextInv == Inv /\ [Next]_vars => Inv'
<1> SUFFICES ASSUME Inv, [Next]_vars PROVE Inv'
  OBVIOUS
<1>1. CASE Poll
  BY <1>1, KeptInv DEF Poll
<1>2. CASE UNCHANGED vars
  BY <1>2, KeptInv DEF vars
<1> QED
  BY <1>1, <1>2, AskInv, AskChannelInv, ImportInv, ObeyedInv, RefusedInv, UnansweredInv, CoupleInv,
     FinishInv
     DEF Next

(* What an acknowledged request promises holds, whatever is asked and      *)
(* imported, in any order, and whether or not the radio answers: its bytes *)
(* say what was meant (of a channel, what the library has of it), and what *)
(* was not meant is as it was.                                             *)
THEOREM DeskAckedIsDone == Spec => []AckedIsDone
<1>1. Inv => AckedIsDone
  BY DEF Inv
<1> QED
  BY <1>1, InitInv, NextInv, PTL DEF Spec

(* A handler has commands left only while it works, on a radio whose slots *)
(* hold what the radio can tune; the library holds what u32 can, the mixer *)
(* a tone that it can mix.                                                 *)
THEOREM DeskTypeOK == Spec => []TypeOK
<1>1. ASSUME Inv PROVE TypeOK
  <2>1. left # <<>> => job # Idle
    BY <1>1 DEF Inv
  <2>2. radio.preset \in 0..9 /\ radio.squelch \in 0..255
    BY <1>1, PartsOf DEF Inv
  <2>3. \A s \in 0..9 : \A f \in {radio.slots[s].rx, radio.slots[s].tx} : Between(300000, f, 4200000)
    <3>1. TAKE s \in 0..9
    <3>2. radio.slots[s] \in Slot
      BY <1>1, PartsOf DEF Inv
    <3>3. \A f \in Hz : Between(300000, f, 4200000)
      BY DEF Hz
    <3>4. radio.slots[s].rx \in Hz /\ radio.slots[s].tx \in Hz
      BY <3>2 DEF Slot
    <3> QED
      BY <3>3, <3>4
  <2>4. \A i \in DOMAIN lib : \A f \in {lib[i].rx, lib[i].tx} : Between(0, f, MaxFreq)
    BY <1>1 DEF Inv, LibraryOK, IsChannel, Heardable
  <2>5. \A i \in DOMAIN mixer : 300 < mixer[i] /\ mixer[i] < 3000
    BY <1>1 DEF Inv, MixerOK
  <2> QED
    BY <1>1, <2>1, <2>2, <2>3, <2>4, <2>5 DEF Inv, TypeOK
<1> QED
  BY <1>1, InitInv, NextInv, PTL DEF Spec

-----------------------------------------------------------------------------
(* Answers.  What can arrive of one is all of it, or all but a byte.       *)

Plain == Digit \union {"A", "N", "T", "R", "M", "C", "P", "#", "X", "J", "L", "d", "F", "U", "*", "["}

LEMMA PlainBytes ==
  /\ \A b \in Plain : b \notin DOMAIN Terminator
  /\ DOMAIN Terminator = {"ACK", "NAK", "HT"} /\ Terminator["NAK"] = "nak"
<1>1. DOMAIN Terminator = {"ACK", "NAK", "HT"} /\ Terminator["NAK"] = "nak"
  BY DEF Terminator
<1> QED
  BY <1>1, DigitSet DEF Plain

LEMMA SameSequence ==
  ASSUME NEW S, NEW s \in Seq(S), NEW t \in Seq(S), Len(s) = Len(t), \A i \in 1..Len(s) : s[i] = t[i]
  PROVE  s = t
<1>1. s = [i \in 1..Len(s) |-> s[i]] /\ t = [i \in 1..Len(t) |-> t[i]]
  OBVIOUS
<1> QED
  BY <1>1

LEMMA Joined ==
  ASSUME NEW S, NEW a \in Seq(S), NEW b \in Seq(S)
  PROVE  /\ a \o b \in Seq(S) /\ Len(a \o b) = Len(a) + Len(b)
         /\ \A j \in 1..Len(a) : (a \o b)[j] = a[j]
         /\ \A j \in 1..Len(a) + Len(b) : j > Len(a) => (a \o b)[j] = b[j - Len(a)]
<1>1. a \o b \in Seq(S) /\ Len(a \o b) = Len(a) + Len(b)
  OBVIOUS
<1>2. \A j \in 1..Len(a) : (a \o b)[j] = a[j]
  OBVIOUS
<1>3. \A j \in 1..Len(a) + Len(b) : j > Len(a) => (a \o b)[j] = b[j - Len(a)]
  OBVIOUS
<1> QED
  BY <1>1, <1>2, <1>3

LEMMA Removed ==
  ASSUME NEW S, NEW s \in Seq(S), NEW i \in 1..Len(s)
  PROVE  /\ RemoveAt(s, i) \in Seq(S) /\ Len(RemoveAt(s, i)) = Len(s) - 1
         /\ \A j \in 1..Len(RemoveAt(s, i)) : RemoveAt(s, i)[j] = IF j < i THEN s[j] ELSE s[j + 1]
<1>1. PICK a, b : a = SubSeq(s, 1, i - 1) /\ b = SubSeq(s, i + 1, Len(s))
  OBVIOUS
<1>2. /\ Len(s) \in Nat /\ a \in Seq(S) /\ Len(a) = i - 1
      /\ \A j \in 1..Len(a) : a[j] = s[j]
  BY <1>1
<1>3. /\ b \in Seq(S) /\ Len(b) = Len(s) - i
      /\ \A j \in 1..Len(b) : b[j] = s[i + j]
  BY <1>1
<1>4. PICK t : t = a \o b
  OBVIOUS
<1>5. /\ t \in Seq(S) /\ Len(t) = Len(a) + Len(b)
      /\ \A j \in 1..Len(t) : t[j] = IF j <= Len(a) THEN a[j] ELSE b[j - Len(a)]
  <2>1. /\ t \in Seq(S) /\ Len(t) = Len(a) + Len(b)
        /\ \A j \in 1..Len(a) : t[j] = a[j]
        /\ \A j \in 1..Len(a) + Len(b) : j > Len(a) => t[j] = b[j - Len(a)]
    BY <1>2, <1>3, <1>4, Joined
  <2> QED
    BY <1>2, <1>3, <2>1
<1>6. ASSUME NEW j \in 1..Len(t)
      PROVE  t[j] = IF j < i THEN s[j] ELSE s[j + 1]
  <2>1. CASE j < i
    <3>1. j \in 1..Len(a) /\ j <= Len(a)
      BY <1>2, <1>5, <2>1
    <3> QED
      BY <1>2, <1>5, <2>1, <3>1
  <2>2. CASE ~(j < i)
    <3>1. ~(j <= Len(a)) /\ j - Len(a) \in 1..Len(b) /\ i + (j - Len(a)) = j + 1
      BY <1>2, <1>3, <1>5, <2>2
    <3> QED
      BY <1>3, <1>5, <2>2, <3>1
  <2> QED
    BY <2>1, <2>2
<1>7. RemoveAt(s, i) = t
  BY <1>1, <1>4 DEF RemoveAt
<1>8. Len(t) = Len(s) - 1
  BY <1>2, <1>3, <1>5
<1> QED
  BY <1>5, <1>6, <1>7, <1>8

Short(data, answer) == data = answer \/ \E i \in 1..Len(answer) : data = RemoveAt(answer, i)

(* A response is what came before its end.                                 *)
LEMMA Ended ==
  ASSUME NEW s \in Seq(Plain), Len(s) <= 256, NEW end \in {"ACK", "HT"}
  PROVE  FirstResponse(Append(s, end)) = <<[kind |-> Terminator[end], data |-> s]>>
<1>1. PICK b : b = Append(s, end)
  OBVIOUS
<1>2. /\ Len(s) \in Nat /\ Len(b) = Len(s) + 1 /\ b[Len(s) + 1] = end
      /\ \A i \in 1..Len(s) : b[i] = s[i] /\ s[i] \in Plain
  BY <1>1
<1>3. PICK I : I = {i \in 1..Len(b) : b[i] \in DOMAIN Terminator}
  OBVIOUS
<1>4. I = {Len(s) + 1}
  <2>1. Len(s) + 1 \in I
    BY <1>2, <1>3, PlainBytes
  <2>2. \A i \in I : i = Len(s) + 1
    BY <1>2, <1>3, PlainBytes
  <2> QED
    BY <2>1, <2>2
<1>5. Min(I) = Len(s) + 1
  BY <1>2, <1>4, First
<1>6. SelectInSeq(b, LAMBDA x : x \in DOMAIN Terminator) = Len(s) + 1
  BY <1>3, <1>4, <1>5 DEF SelectInSeq
<1>7. SubSeq(b, 1, Len(s)) = s
  BY <1>1
<1>8. Len(s) + 1 # 0 /\ (Len(s) + 1) - 1 = Len(s)
      /\ (Len(s) + 1) - (((Len(s) + 1) - 1) % (MaxDataLen + 1)) = 1
  BY SMT, <1>2 DEF MaxDataLen
<1>9. FirstResponse(b) = <<[kind |-> Terminator[end], data |-> SubSeq(b, 1, Len(s))]>>
  BY <1>2, <1>6, <1>8 DEF FirstResponse
<1> QED
  BY <1>1, <1>7, <1>9

LEMMA Unended ==
  ASSUME NEW s \in Seq(Plain)
  PROVE  FirstResponse(s) = <<>>
<1>1. {i \in 1..Len(s) : s[i] \in DOMAIN Terminator} = {}
  BY PlainBytes
<1>2. SelectInSeq(s, LAMBDA x : x \in DOMAIN Terminator) = 0
  BY <1>1 DEF SelectInSeq
<1> QED
  BY <1>2 DEF FirstResponse

LEMMA OnlyNak ==
  FirstResponse(<<"NAK">>) # <<>> => FirstResponse(<<"NAK">>)[1].kind = "nak"
<1>1. PICK b : b = <<"NAK">>
  OBVIOUS
<1>2. PICK I : I = {i \in 1..Len(b) : b[i] \in DOMAIN Terminator}
  OBVIOUS
<1>3. I = {1}
  BY <1>1, <1>2, PlainBytes
<1>4. Min(I) = 1
  BY <1>3, First
<1>5. PICK i : i = SelectInSeq(b, LAMBDA x : x \in DOMAIN Terminator)
  OBVIOUS
<1>6. i = 1
  BY <1>2, <1>3, <1>4, <1>5 DEF SelectInSeq
<1>7. i # 0
  BY <1>6
<1>8. FirstResponse(b) = <<[kind |-> Terminator[b[i]],
                            data |-> SubSeq(b, i - ((i - 1) % (MaxDataLen + 1)), i - 1)]>>
  BY <1>5, <1>7 DEF FirstResponse
<1>9. b[i] = "NAK" /\ Terminator[b[i]] = "nak"
  BY <1>1, <1>6, PlainBytes
<1> QED
  BY <1>1, <1>8, <1>9

LEMMA Arrived ==
  ASSUME NEW answer \in Seq(Plain), Len(answer) <= 256, NEW end \in {"ACK", "HT"},
         NEW bytes \in Arrivals(Append(answer, end)), NEW resp, resp = FirstResponse(bytes),
         resp # <<>>, resp[1].kind # "nak"
  PROVE  Short(resp[1].data, answer)
<1>1. PICK b : b = Append(answer, end)
  OBVIOUS
<1>2. /\ Len(answer) \in Nat /\ Len(b) = Len(answer) + 1 /\ b[Len(answer) + 1] = end
      /\ \A i \in 1..Len(answer) : b[i] = answer[i]
      /\ DOMAIN b = 1..Len(b) /\ b \in Seq(Plain \union {"ACK", "HT"})
  BY <1>1
<1>3. CASE bytes = b
  BY <1>1, <1>3, Ended DEF Short
<1>4. bytes # <<"NAK">>
  BY OnlyNak
<1>5. ASSUME NEW i \in DOMAIN b, bytes = RemoveAt(b, i)
      PROVE  Short(resp[1].data, answer)
  <2> DEFINE S == Plain \union {"ACK", "HT"}
  <2>1. /\ RemoveAt(b, i) \in Seq(S) /\ Len(RemoveAt(b, i)) = Len(answer)
        /\ \A j \in 1..Len(answer) : RemoveAt(b, i)[j] = IF j < i THEN b[j] ELSE b[j + 1]
    BY <1>2, Removed
  <2>2. answer \in Seq(S) /\ \A x \in Seq(Plain) : x \in Seq(S) /\ Append(x, end) \in Seq(S)
    OBVIOUS
  <2>3. CASE i = Len(answer) + 1
    <3>1. \A j \in 1..Len(answer) : RemoveAt(b, i)[j] = answer[j]
      BY <1>2, <2>1, <2>3
    <3>2. bytes = answer
      <4> HIDE DEF S
      <4> QED
        BY <1>5, <2>1, <2>2, <3>1, SameSequence
    <3> QED
      BY <3>2, Unended
  <2>4. CASE i # Len(answer) + 1
    <3>1. i \in 1..Len(answer)
      BY <1>2, <2>4
    <3>2. PICK t : t = RemoveAt(answer, i)
      OBVIOUS
    <3>3. /\ t \in Seq(Plain) /\ Len(t) = Len(answer) - 1
          /\ \A j \in 1..Len(t) : t[j] = IF j < i THEN answer[j] ELSE answer[j + 1]
      BY <3>1, <3>2, Removed
    <3>4. PICK u : u = Append(t, end)
      OBVIOUS
    <3>5. /\ u \in Seq(S) /\ Len(u) = Len(answer) /\ u[Len(answer)] = end
          /\ \A j \in 1..Len(t) : u[j] = t[j]
      BY <1>2, <3>3, <3>4
    <3>6. ASSUME NEW j \in 1..Len(answer)
          PROVE  RemoveAt(b, i)[j] = u[j]
      <4>1. CASE j = Len(answer)
        BY <1>2, <2>1, <3>1, <3>5, <4>1
      <4>2. CASE j # Len(answer)
        <5>1. j \in 1..Len(t) /\ j + 1 \in 1..Len(answer)
          BY <1>2, <3>3, <4>2
        <5> QED
          BY <1>2, <2>1, <3>3, <3>5, <5>1
      <4> QED
        BY <4>1, <4>2
    <3>7. bytes = u
      <4> HIDE DEF S
      <4> QED
        BY <1>5, <2>1, <3>5, <3>6, SameSequence
    <3>8. resp = <<[kind |-> Terminator[end], data |-> t]>>
      BY <1>2, <3>3, <3>4, <3>7, Ended
    <3> QED
      BY <3>1, <3>2, <3>8 DEF Short
  <2> QED
    BY <2>3, <2>4
<1> QED
  BY <1>1, <1>3, <1>4, <1>5 DEF Arrivals

(* The w members after place a.                                            *)
Part(s, a, w) == SubSeq(s, a + 1, a + w)

LEMMA PartOf ==
  ASSUME NEW S, NEW s \in Seq(S), NEW a \in Nat, NEW w \in Nat, a + w <= Len(s)
  PROVE  Part(s, a, w) \in Seq(S) /\ Len(Part(s, a, w)) = w
         /\ \A j \in 1..w : Part(s, a, w)[j] = s[a + j]
  BY DEF Part

(* A letter that occurs once is found; one that does not is not.           *)
LEMMA FoundAt ==
  ASSUME NEW data, Len(data) \in Nat, NEW m \in 1..Len(data), NEW p,
         \A j \in 1..Len(data) : data[j] = p <=> j = m,
         NEW w, DigitsAfter(data, p, w) # <<>>
  PROVE  /\ m + w <= Len(data) /\ \A j \in m + 1..m + w : IsDigit(data[j])
         /\ DigitsAfter(data, p, w) = <<Number(Part(data, m, w))>>
<1>1. PICK I : I = {j \in 1..Len(data) : data[j] = p}
  OBVIOUS
<1>2. I = {m}
  BY <1>1
<1>3. m \in Nat /\ Min(I) = m
  BY <1>2, First
<1>4. PICK i : i = SelectInSeq(data, LAMBDA b : b = p)
  OBVIOUS
<1>5. i = m
  BY <1>1, <1>2, <1>3, <1>4 DEF SelectInSeq
<1>6. DigitsAfter(data, p, w) =
        IF i > 0 /\ i + w <= Len(data) /\ \A k \in i + 1..i + w : IsDigit(data[k])
        THEN <<Number(SubSeq(data, i + 1, i + w))>> ELSE <<>>
  BY <1>4 DEF DigitsAfter
<1> QED
  BY <1>5, <1>6 DEF Part

LEMMA NotFound ==
  ASSUME NEW data, NEW p, NEW w, \A j \in 1..Len(data) : data[j] # p
  PROVE  DigitsAfter(data, p, w) = <<>>
<1>1. {j \in 1..Len(data) : data[j] = p} = {}
  OBVIOUS
<1>2. PICK i : i = SelectInSeq(data, LAMBDA b : b = p)
  OBVIOUS
<1>3. i = 0
  BY <1>1, <1>2 DEF SelectInSeq
<1>4. DigitsAfter(data, p, w) =
        IF i > 0 /\ i + w <= Len(data) /\ \A k \in i + 1..i + w : IsDigit(data[k])
        THEN <<Number(SubSeq(data, i + 1, i + w))>> ELSE <<>>
  BY <1>2 DEF DigitsAfter
<1> QED
  BY <1>3, <1>4

(* A field of an answer: a letter that occurs once, and its digits.        *)
FieldAt(answer, p, k, w) ==
    /\ k \in 1..Len(answer) /\ w \in 1..7 /\ k + w <= Len(answer)
    /\ \A j \in 1..Len(answer) : answer[j] = p <=> j = k
    /\ \A j \in k + 1..k + w : IsDigit(answer[j])

(* If no digit follows it, the loss of a byte leaves it as it is or makes  *)
(* it unreadable.                                                          *)
LEMMA FieldSurvives ==
  ASSUME NEW S, NEW answer \in Seq(S), NEW data, Short(data, answer), NEW p, NEW k, NEW w,
         FieldAt(answer, p, k, w), k + w = Len(answer) \/ ~IsDigit(answer[k + w + 1]),
         DigitsAfter(data, p, w) # <<>>
  PROVE  DigitsAfter(data, p, w) = <<Number(Part(answer, k, w))>>
<1>1. /\ k \in 1..Len(answer) /\ w \in 1..7 /\ k + w <= Len(answer) /\ Len(answer) \in Nat
      /\ \A j \in 1..Len(answer) : answer[j] = p <=> j = k
      /\ \A j \in k + 1..k + w : IsDigit(answer[j])
  BY DEF FieldAt
<1>2. CASE data = answer
  BY <1>1, <1>2, FoundAt
<1>3. ASSUME NEW i \in 1..Len(answer), data = RemoveAt(answer, i)
      PROVE  DigitsAfter(data, p, w) = <<Number(Part(answer, k, w))>>
  <2>1. /\ data \in Seq(S) /\ Len(data) = Len(answer) - 1
        /\ \A j \in 1..Len(data) : data[j] = IF j < i THEN answer[j] ELSE answer[j + 1]
    BY <1>3, Removed
  <2>2. ASSUME NEW j \in 1..Len(data)
        PROVE  /\ j \in 1..Len(answer) /\ j + 1 \in 1..Len(answer)
               /\ j < i => (data[j] = p <=> j = k)
               /\ ~(j < i) => (data[j] = p <=> j + 1 = k)
    <3>1. j \in 1..Len(answer) /\ j + 1 \in 1..Len(answer)
      BY <1>1, <2>1
    <3> QED
      BY <1>1, <2>1, <3>1
  <2>3. i # k
    <3>1. SUFFICES ASSUME i = k PROVE FALSE
      OBVIOUS
    <3>2. \A j \in 1..Len(data) : data[j] # p
      BY <1>1, <2>2, <3>1
    <3> QED
      BY <3>2, NotFound
  <2>4. CASE i < k
    <3>1. PICK m \in Nat : m + 1 = k /\ m \in 1..Len(data) /\ m + w <= Len(data)
      <4>1. k - 1 \in Nat /\ (k - 1) + 1 = k /\ k - 1 \in 1..Len(data) /\ (k - 1) + w <= Len(data)
        BY <1>1, <2>1, <2>4
      <4> QED
        BY <4>1
    <3>2. \A j \in 1..Len(data) : data[j] = p <=> j = m
      BY <1>1, <2>2, <2>4, <3>1
    <3>3. DigitsAfter(data, p, w) = <<Number(Part(data, m, w))>>
      <4>1. Len(data) \in Nat /\ m \in 1..Len(data)
        BY <1>1, <2>1, <3>1
      <4> QED
        BY <3>2, <4>1, FoundAt
    <3>4. \A j \in 1..w : data[m + j] = answer[k + j]
      <4>1. TAKE j \in 1..w
      <4>2. m + j \in 1..Len(data) /\ ~(m + j < i) /\ (m + j) + 1 = k + j
        BY <1>1, <2>1, <2>4, <3>1
      <4> QED
        BY <2>1, <4>2
    <3>5. Part(data, m, w) = Part(answer, k, w)
      <4>1. k \in Nat /\ w \in Nat /\ k + w <= Len(answer)
        BY <1>1
      <4>2. m \in Nat /\ m + w <= Len(data) /\ data \in Seq(S) /\ answer \in Seq(S)
        BY <2>1, <3>1
      <4>3. /\ Part(data, m, w) \in Seq(S) /\ Len(Part(data, m, w)) = w
            /\ \A j \in 1..w : Part(data, m, w)[j] = data[m + j]
        BY <4>1, <4>2, PartOf
      <4>4. /\ Part(answer, k, w) \in Seq(S) /\ Len(Part(answer, k, w)) = w
            /\ \A j \in 1..w : Part(answer, k, w)[j] = answer[k + j]
        BY <4>1, <4>2, PartOf
      <4> QED
        BY <3>4, <4>3, <4>4, SameSequence
    <3> QED
      BY <3>3, <3>5
  <2>5. CASE k < i
    <3>1. k \in 1..Len(data) /\ Len(data) \in Nat
      BY <1>1, <2>1, <2>5
    <3>2. \A j \in 1..Len(data) : data[j] = p <=> j = k
      BY <1>1, <2>2, <2>5
    <3>3. /\ k + w <= Len(data) /\ \A j \in k + 1..k + w : IsDigit(data[j])
          /\ DigitsAfter(data, p, w) = <<Number(Part(data, k, w))>>
      BY <3>1, <3>2, FoundAt
    <3>4. k + w < i
      <4>1. SUFFICES ASSUME ~(k + w < i) PROVE FALSE
        OBVIOUS
      <4>2. k + w \in 1..Len(data) /\ k + w \in k + 1..k + w /\ k + w # Len(answer)
        <5>1. k + w <= Len(data)
          BY <3>3
        <5> QED
          BY <1>1, <2>1, <5>1
      <4>3. data[k + w] = answer[k + w + 1]
        BY <1>1, <2>1, <4>1, <4>2
      <4> QED
        BY <3>3, <4>2, <4>3
    <3>5. \A j \in 1..w : data[k + j] = answer[k + j]
      <4>1. TAKE j \in 1..w
      <4>2. k + j \in 1..Len(data) /\ k + j < i
        BY <1>1, <3>3, <3>4
      <4> QED
        BY <2>1, <4>2
    <3>6. Part(data, k, w) = Part(answer, k, w)
      <4>1. k \in Nat /\ w \in Nat
        BY <1>1
      <4>2. /\ Part(data, k, w) \in Seq(S) /\ Len(Part(data, k, w)) = w
            /\ \A j \in 1..w : Part(data, k, w)[j] = data[k + j]
        <5>1. k + w <= Len(data) /\ data \in Seq(S)
          BY <2>1, <3>3
        <5> QED
          BY <4>1, <5>1, PartOf
      <4>3. /\ Part(answer, k, w) \in Seq(S) /\ Len(Part(answer, k, w)) = w
            /\ \A j \in 1..w : Part(answer, k, w)[j] = answer[k + j]
        BY <1>1, <4>1, PartOf
      <4> QED
        BY <3>5, <4>2, <4>3, SameSequence
    <3> QED
      BY <3>3, <3>6
  <2> QED
    BY <1>1, <2>3, <2>4, <2>5
<1> QED
  BY <1>2, <1>3 DEF Short

(* What an event shows of a radio, but for overtemp, which digits follow.  *)
Shows(event, r) == \A f \in DOMAIN event \ {"overtemp"} : event[f] = View(r)[f]

(* The name in a table of something that stands there once.                *)
LEMMA NameOf ==
  ASSUME NEW table, NEW w \in DOMAIN table, \A x \in DOMAIN table : table[x] = table[w] => x = w
  PROVE  Named(table, table[w]) /\ Name(table, table[w]) = <<w>>
<1>1. {x \in DOMAIN table : table[x] = table[w]} = {w}
  OBVIOUS
<1>2. (CHOOSE x \in {w} : TRUE) = w
  OBVIOUS
<1>3. Name(table, table[w]) = <<w>>
  BY <1>1, <1>2 DEF Name, Maybe
<1> QED
  BY <1>3 DEF Named

LEMMA NamedIn ==
  ASSUME NEW table, NEW d, Named(table, d)
  PROVE  \E w \in DOMAIN table : table[w] = d
<1>1. {x \in DOMAIN table : table[x] = d} # {}
  BY DEF Named, Name, Maybe
<1> QED
  BY <1>1

LEMMA Asking ==
  ASSUME NEW a, NEW b
  PROVE  <<"?">> \o <<a, b>> = <<"?", a, b>>
<1>1. PICK S : S = {"?", a, b}
  OBVIOUS
<1>2. <<"?">> \in Seq(S) /\ <<a, b>> \in Seq(S) /\ <<"?", a, b>> \in Seq(S)
  BY <1>1
<1>3. PICK t : t = <<"?">> \o <<a, b>>
  OBVIOUS
<1>4. /\ t \in Seq(S) /\ Len(t) = Len(<<"?">>) + Len(<<a, b>>)
      /\ \A j \in 1..Len(<<"?">>) : t[j] = <<"?">>[j]
      /\ \A j \in 1..Len(<<"?">>) + Len(<<a, b>>) : j > Len(<<"?">>) => t[j] = <<a, b>>[j - Len(<<"?">>)]
  BY <1>2, <1>3, Joined
<1>5. Len(<<"?">>) = 1 /\ Len(<<a, b>>) = 2
  OBVIOUS
<1>6. Len(t) = 3 /\ t[1] = "?" /\ t[2] = a /\ t[3] = b
  BY <1>4, <1>5
<1>7. t = <<"?", a, b>>
  BY <1>2, <1>4, <1>6, SameSequence
<1> QED
  BY <1>3, <1>7

LEMMA TwoDigits ==
  ASSUME NEW n \in 0..99, NEW h \in 0..9, NEW l \in 0..9, n = 10 * h + l
  PROVE  <<"?">> \o Decimal(n, 2) = <<"?", Byte(h), Byte(l)>>
<1>1. n \div 10 = h /\ n % 10 = l /\ (n \div 10) % 10 = h /\ n \div 1 = n
  OBVIOUS
<1>2. Worth[1] = 1 /\ Worth[2] = 10
  BY SMT DEF Worth
<1>3. \A i \in 1..2 : Decimal(n, 2)[i] = IF i = 1 THEN Byte(h) ELSE Byte(l)
  <2>1. TAKE i \in 1..2
  <2>2. CASE i = 1
    BY <1>1, <1>2, <2>2 DEF Decimal
  <2>3. CASE i = 2
    BY <1>1, <1>2, <2>3 DEF Decimal
  <2> QED
    BY <2>2, <2>3
<1>4. Decimal(n, 2) = [i \in 1..2 |-> Decimal(n, 2)[i]]
  BY DEF Decimal
<1>5. Decimal(n, 2) = <<Byte(h), Byte(l)>>
  BY <1>3, <1>4
<1> QED
  BY <1>5, Asking

LEMMA InquiriesAre ==
  /\ InquiryEncode("SynthLock") = <<"?", "0", "1">> /\ InquiryEncode("Rssi") = <<"?", "0", "3">>
  /\ InquiryEncode("PresetSnapshot") = <<"?", "1", "0">>
  /\ InquiryEncode("GeneralStatus") = <<"?", "1", "1">>
  /\ InquiryEncode("Mode") = <<"?", "1", "2">> /\ InquiryEncode("SquelchStatus") = <<"?", "1", "3">>
<1>1. /\ Inquiry["SynthLock"] = 10 * 0 + 1 /\ Inquiry["Rssi"] = 10 * 0 + 3
      /\ Inquiry["PresetSnapshot"] = 10 * 1 + 0 /\ Inquiry["GeneralStatus"] = 10 * 1 + 1
      /\ Inquiry["Mode"] = 10 * 1 + 2 /\ Inquiry["SquelchStatus"] = 10 * 1 + 3
  BY DEF Inquiry
<1>2. ASSUME NEW inq, NEW h \in 0..9, NEW l \in 0..9, Inquiry[inq] = 10 * h + l
      PROVE  InquiryEncode(inq) = <<"?", Byte(h), Byte(l)>>
  <2>1. Inquiry[inq] \in 0..99
    BY <1>2
  <2> QED
    BY <1>2, <2>1, TwoDigits DEF InquiryEncode
<1>3. InquiryEncode("SynthLock") = <<"?", Byte(0), Byte(1)>>
  BY <1>1, <1>2
<1>4. InquiryEncode("Rssi") = <<"?", Byte(0), Byte(3)>>
  BY <1>1, <1>2
<1>5. InquiryEncode("PresetSnapshot") = <<"?", Byte(1), Byte(0)>>
  BY <1>1, <1>2
<1>6. InquiryEncode("GeneralStatus") = <<"?", Byte(1), Byte(1)>>
  BY <1>1, <1>2
<1>7. InquiryEncode("Mode") = <<"?", Byte(1), Byte(2)>>
  BY <1>1, <1>2
<1>8. InquiryEncode("SquelchStatus") = <<"?", Byte(1), Byte(3)>>
  BY <1>1, <1>2
<1> QED
  BY <1>3, <1>4, <1>5, <1>6, <1>7, <1>8, Bytes

LEMMA AnswersAre ==
  ASSUME NEW r
  PROVE  /\ Answer(r, InquiryEncode("SynthLock")) = <<"A", IF r.locked THEN "1" ELSE "0">>
         /\ Answer(r, InquiryEncode("Rssi")) = <<"N">> \o Decimal(r.rssi, 3)
         /\ Answer(r, InquiryEncode("PresetSnapshot")) =
              <<"T">> \o Decimal(r.ram.tx, 7) \o <<"R">> \o Decimal(r.ram.rx, 7)
              \o <<"M", Byte(r.ram.mod), "N", Byte(r.ram.modTx), "C", Byte(r.ram.member),
                   "P", Byte(r.preset), "#", Byte(r.ram.power)>>
         /\ Answer(r, InquiryEncode("GeneralStatus")) =
              <<"X", Byte(r.text), "J", Byte(r.speaker), "L", Byte(r.lamp), "d", Byte(r.options),
                "F", Byte(r.hot)>> \o r.extra
         /\ Answer(r, InquiryEncode("Mode")) =
              IF r.mode = "beacon" THEN <<"*", "1">> ELSE <<"U", IF r.mode = "transmit" THEN "1" ELSE "0">>
         /\ Answer(r, InquiryEncode("SquelchStatus")) = <<"[", IF r.broken THEN "1" ELSE "0">>
<1>1. ASSUME NEW a, NEW b, NEW c, NEW d, <<"?", a, b>> = <<"?", c, d>>
      PROVE  a = c /\ b = d
  BY <1>1
<1>2. "0" # "1" /\ "1" # "3" /\ "0" # "3" /\ "0" # "2" /\ "1" # "2" /\ "2" # "3"
  OBVIOUS
<1>3. Answer(r, <<"?", "0", "1">>) = <<"A", IF r.locked THEN "1" ELSE "0">>
  BY <1>1, <1>2 DEF Answer
<1>4. Answer(r, <<"?", "0", "3">>) = <<"N">> \o Decimal(r.rssi, 3)
  BY <1>1, <1>2 DEF Answer
<1>5. Answer(r, <<"?", "1", "0">>) =
              <<"T">> \o Decimal(r.ram.tx, 7) \o <<"R">> \o Decimal(r.ram.rx, 7)
              \o <<"M", Byte(r.ram.mod), "N", Byte(r.ram.modTx), "C", Byte(r.ram.member),
                   "P", Byte(r.preset), "#", Byte(r.ram.power)>>
  BY <1>1, <1>2 DEF Answer
<1>6. Answer(r, <<"?", "1", "1">>) =
              <<"X", Byte(r.text), "J", Byte(r.speaker), "L", Byte(r.lamp), "d", Byte(r.options),
                "F", Byte(r.hot)>> \o r.extra
  BY <1>1, <1>2 DEF Answer
<1>7. Answer(r, <<"?", "1", "2">>) =
              IF r.mode = "beacon" THEN <<"*", "1">> ELSE <<"U", IF r.mode = "transmit" THEN "1" ELSE "0">>
  BY <1>1, <1>2 DEF Answer
<1>8. Answer(r, <<"?", "1", "3">>) = <<"[", IF r.broken THEN "1" ELSE "0">>
  BY <1>1, <1>2 DEF Answer
<1> QED
  BY <1>3, <1>4, <1>5, <1>6, <1>7, <1>8, InquiriesAre

LEMMA ShortLength ==
  ASSUME NEW S, NEW answer \in Seq(S), NEW data, Short(data, answer), data # answer
  PROVE  Len(data) = Len(answer) - 1
<1>1. PICK i \in 1..Len(answer) : data = RemoveAt(answer, i)
  BY DEF Short
<1> QED
  BY <1>1, Removed

(* An answer of two bytes, short of one, is not in its table.              *)
LEMMA WordShows ==
  ASSUME NEW table, NEW w \in DOMAIN table, \A x \in DOMAIN table : table[x] = table[w] => x = w,
         \A x \in DOMAIN table : Len(table[x]) = 2, table[w] \in Seq(Plain),
         NEW data, Short(data, table[w]), NEW key, DecodeWord(data, key, table) # <<>>,
         NEW r, View(r)[key] = w
  PROVE  Shows(DecodeWord(data, key, table)[1], r)
<1>1. Named(table, data)
  BY DEF DecodeWord
<1>2. Len(data) = 2
  BY <1>1, NamedIn
<1>3. data = table[w]
  BY <1>2, ShortLength
<1>4. Name(table, data) = <<w>>
  BY <1>3, NameOf
<1>5. PICK e : e = [f \in {key} |-> Name(table, data)[1]]
  OBVIOUS
<1>6. DecodeWord(data, key, table) = <<e>>
  BY <1>1, <1>5 DEF DecodeWord
<1>7. DOMAIN e = {key} /\ e[key] = w
  BY <1>4, <1>5
<1>8. Shows(e, r)
  BY <1>7 DEF Shows
<1> QED
  BY <1>6, <1>8

LEMMA PlainPairs ==
  /\ <<"A", "0">> \in Seq(Plain) /\ <<"A", "1">> \in Seq(Plain) /\ <<"[", "0">> \in Seq(Plain)
  /\ <<"[", "1">> \in Seq(Plain) /\ <<"U", "0">> \in Seq(Plain) /\ <<"U", "1">> \in Seq(Plain)
  /\ <<"*", "1">> \in Seq(Plain)
  BY DigitSet DEF Plain

LEMMA PairsDiffer ==
  /\ <<"A", "0">> # <<"A", "1">> /\ <<"[", "0">> # <<"[", "1">> /\ <<"U", "0">> # <<"U", "1">>
  /\ <<"U", "0">> # <<"*", "1">> /\ <<"U", "1">> # <<"*", "1">>
  /\ Len(<<"A", "0">>) = 2 /\ Len(<<"A", "1">>) = 2 /\ Len(<<"[", "0">>) = 2 /\ Len(<<"[", "1">>) = 2
  /\ Len(<<"U", "0">>) = 2 /\ Len(<<"U", "1">>) = 2 /\ Len(<<"*", "1">>) = 2
  OBVIOUS

LEMMA SynthLockShows ==
  ASSUME NEW r, IsRadio(r), NEW data, Short(data, Answer(r, InquiryEncode("SynthLock"))),
         Decode("SynthLock", data) # <<>>
  PROVE  Shows(Decode("SynthLock", data)[1], r)
<1>1. r.locked \in BOOLEAN /\ View(r)["locked"] = r.locked
  BY PartsOf DEF View
<1>2. Decode("SynthLock", data) = DecodeWord(data, "locked", SynthLock)
  BY DEF Decode
<1>3. /\ DOMAIN SynthLock = BOOLEAN
      /\ SynthLock[TRUE] = <<"A", "1">> /\ SynthLock[FALSE] = <<"A", "0">>
  BY DEF SynthLock
<1>4. SynthLock[r.locked] = Answer(r, InquiryEncode("SynthLock"))
  BY <1>1, <1>3, AnswersAre
<1>5. SynthLock[r.locked] \in Seq(Plain)
  BY <1>1, <1>3, PlainPairs
<1>6. \A x \in DOMAIN SynthLock : Len(SynthLock[x]) = 2
  BY <1>3, PairsDiffer
<1>7. \A x \in DOMAIN SynthLock : SynthLock[x] = SynthLock[r.locked] => x = r.locked
  BY <1>1, <1>3, PairsDiffer
<1>8. r.locked \in DOMAIN SynthLock /\ Short(data, SynthLock[r.locked])
      /\ DecodeWord(data, "locked", SynthLock) # <<>>
  BY <1>1, <1>2, <1>3, <1>4
<1>9. Shows(DecodeWord(data, "locked", SynthLock)[1], r)
  BY <1>1, <1>5, <1>6, <1>7, <1>8, WordShows
<1> QED
  BY <1>2, <1>9

LEMMA SquelchStatusShows ==
  ASSUME NEW r, IsRadio(r), NEW data, Short(data, Answer(r, InquiryEncode("SquelchStatus"))),
         Decode("SquelchStatus", data) # <<>>
  PROVE  Shows(Decode("SquelchStatus", data)[1], r)
<1>1. r.broken \in BOOLEAN /\ View(r)["broken"] = r.broken
  BY PartsOf DEF View
<1>2. Decode("SquelchStatus", data) = DecodeWord(data, "broken", SquelchStatus)
  BY DEF Decode
<1>3. /\ DOMAIN SquelchStatus = BOOLEAN
      /\ SquelchStatus[TRUE] = <<"[", "1">> /\ SquelchStatus[FALSE] = <<"[", "0">>
  BY DEF SquelchStatus
<1>4. SquelchStatus[r.broken] = Answer(r, InquiryEncode("SquelchStatus"))
  BY <1>1, <1>3, AnswersAre
<1>5. SquelchStatus[r.broken] \in Seq(Plain)
  BY <1>1, <1>3, PlainPairs
<1>6. \A x \in DOMAIN SquelchStatus : Len(SquelchStatus[x]) = 2
  BY <1>3, PairsDiffer
<1>7. \A x \in DOMAIN SquelchStatus : SquelchStatus[x] = SquelchStatus[r.broken] => x = r.broken
  BY <1>1, <1>3, PairsDiffer
<1>8. r.broken \in DOMAIN SquelchStatus /\ Short(data, SquelchStatus[r.broken])
      /\ DecodeWord(data, "broken", SquelchStatus) # <<>>
  BY <1>1, <1>2, <1>3, <1>4
<1>9. Shows(DecodeWord(data, "broken", SquelchStatus)[1], r)
  BY <1>1, <1>5, <1>6, <1>7, <1>8, WordShows
<1> QED
  BY <1>2, <1>9

LEMMA ModeShows ==
  ASSUME NEW r, IsRadio(r), NEW data, Short(data, Answer(r, InquiryEncode("Mode"))),
         Decode("Mode", data) # <<>>
  PROVE  Shows(Decode("Mode", data)[1], r)
<1>1. r.mode \in {"receive", "transmit", "beacon"} /\ View(r)["mode"] = r.mode
  BY PartsOf DEF View
<1>2. Decode("Mode", data) = DecodeWord(data, "mode", Mode)
  BY DEF Decode
<1>3. /\ DOMAIN Mode = {"receive", "transmit", "beacon"}
      /\ Mode["receive"] = <<"U", "0">> /\ Mode["transmit"] = <<"U", "1">>
         /\ Mode["beacon"] = <<"*", "1">>
  BY DEF Mode
<1>4. Mode[r.mode] = Answer(r, InquiryEncode("Mode"))
  <2>1. PICK a : a = Answer(r, InquiryEncode("Mode"))
    OBVIOUS
  <2>2. a = IF r.mode = "beacon" THEN <<"*", "1">> ELSE <<"U", IF r.mode = "transmit" THEN "1" ELSE "0">>
    BY <2>1, AnswersAre
  <2> QED
    BY <1>1, <1>3, <2>1, <2>2
<1>5. Mode[r.mode] \in Seq(Plain)
  BY <1>1, <1>3, PlainPairs
<1>6. \A x \in DOMAIN Mode : Len(Mode[x]) = 2
  BY <1>3, PairsDiffer
<1>7. \A x \in DOMAIN Mode : Mode[x] = Mode[r.mode] => x = r.mode
  BY <1>1, <1>3, PairsDiffer
<1>8. r.mode \in DOMAIN Mode /\ Short(data, Mode[r.mode]) /\ DecodeWord(data, "mode", Mode) # <<>>
  BY <1>1, <1>2, <1>3, <1>4
<1>9. Shows(DecodeWord(data, "mode", Mode)[1], r)
  BY <1>1, <1>5, <1>6, <1>7, <1>8, WordShows
<1> QED
  BY <1>2, <1>9

LEMMA ByteRange ==
  ASSUME NEW n \in 0..255
  PROVE  n \in Nat /\ n <= 255
  BY SMT

LEMMA RssiShows ==
  ASSUME NEW r, IsRadio(r), NEW data, Short(data, Answer(r, InquiryEncode("Rssi"))),
         Decode("Rssi", data) # <<>>
  PROVE  Shows(Decode("Rssi", data)[1], r)
<1>1. PICK n \in Nat : n = r.rssi /\ n <= 255
  <2>1. r.rssi \in 0..255
    BY PartsOf
  <2>2. r.rssi \in Nat /\ r.rssi <= 255
    BY <2>1, ByteRange
  <2> QED
    BY <2>2
<1>2. PICK a : a = Decimal(n, 3)
  OBVIOUS
<1>3. a \in Seq(Digit) /\ Len(a) = 3 /\ Number(a) = n
  <2>1. n \in Nat /\ n < 10 * Worth[3]
    BY SMT, <1>1 DEF Worth
  <2> QED
    BY <1>2, <2>1, WrittenAndRead
<1>4. PICK answer : answer = <<"N">> \o a
  OBVIOUS
<1>5. answer = Answer(r, InquiryEncode("Rssi"))
  BY <1>1, <1>2, <1>4, AnswersAre
<1>6. answer \in Seq(Digit \union {"N"}) /\ Len(answer) = 4 /\ Tail(answer) = a
  <2>1. a \in Seq(Digit \union {"N"}) /\ <<"N">> \in Seq(Digit \union {"N"})
    BY <1>3
  <2>2. answer \in Seq(Digit \union {"N"})
    BY <1>4, <2>1, Joined
  <2>3. Len(answer) = 1 + Len(a) /\ Tail(answer) = a
    BY <1>3, <1>4, Prefixed
  <2> QED
    BY <1>3, <2>2, <2>3
<1>7. Decode("Rssi", data) = DecodeRssi(data)
  BY DEF Decode
<1>8. Len(data) = 4
  BY <1>7 DEF DecodeRssi
<1>9. data = answer
  <2>1. Short(data, answer)
    BY <1>5
  <2> QED
    BY <1>6, <1>8, <2>1, ShortLength
<1>10. PICK v : v = Number(Tail(data))
  OBVIOUS
<1>11. v = n
  BY <1>3, <1>6, <1>9, <1>10
<1>12. DecodeRssi(data) = <<[rssi |-> IF v < 255 THEN v ELSE 255]>>
  BY <1>7, <1>10 DEF DecodeRssi
<1>13. (IF v < 255 THEN v ELSE 255) = n
  BY SMT, <1>1, <1>11
<1>14. PICK e : e = [rssi |-> n]
  OBVIOUS
<1>15. View(r)["rssi"] = n
  BY <1>1 DEF View
<1>16. Shows(e, r)
  BY <1>14, <1>15 DEF Shows
<1>17. Decode("Rssi", data) = <<e>>
  BY <1>7, <1>12, <1>13, <1>14
<1> QED
  BY <1>16, <1>17

(* Fields, where letters stand at known places and all else is digits.     *)
LEMMA FieldThere ==
  ASSUME NEW answer, Len(answer) \in Nat, NEW letters, letters \subseteq 1..Len(answer),
         \A j \in 1..Len(answer) : j \notin letters => answer[j] \in Digit,
         NEW k \in letters, NEW p, p \notin Digit, \A j \in letters : answer[j] = p <=> j = k,
         NEW w \in 1..7, k + w <= Len(answer), \A j \in k + 1..k + w : j \notin letters
  PROVE  FieldAt(answer, p, k, w)
<1>1. k \in 1..Len(answer)
  OBVIOUS
<1>2. \A j \in 1..Len(answer) : answer[j] = p <=> j = k
  OBVIOUS
<1>3. \A j \in k + 1..k + w : IsDigit(answer[j])
  <2>1. \A j \in k + 1..k + w : j \in 1..Len(answer)
    BY <1>1
  <2> QED
    BY <2>1, DigitDomain
<1> QED
  BY <1>1, <1>2, <1>3 DEF FieldAt

(* The length of a sequence under a name of its own.                       *)
Sized(s, n) == Len(s) = n

LEMMA PartIs ==
  ASSUME NEW S, NEW s \in Seq(S), NEW x \in Seq(S), NEW a \in Nat, NEW w \in Nat,
         Sized(x, w), a + w <= Len(s), \A j \in 1..w : s[a + j] = x[j]
  PROVE  Part(s, a, w) = x
<1>1. /\ Part(s, a, w) \in Seq(S) /\ Len(Part(s, a, w)) = w
      /\ \A j \in 1..w : Part(s, a, w)[j] = s[a + j]
  BY PartOf
<1> QED
  BY <1>1, SameSequence DEF Sized

LEMMA DigitPart ==
  ASSUME NEW S, NEW s \in Seq(S), NEW a \in Nat, a + 1 <= Len(s), NEW d \in 0..9, s[a + 1] = Byte(d)
  PROVE  Number(Part(s, a, 1)) = d
<1>1. /\ Part(s, a, 1) \in Seq(S) /\ Len(Part(s, a, 1)) = 1
      /\ \A j \in 1..1 : Part(s, a, 1)[j] = s[a + j]
  <2>1. 1 \in Nat
    OBVIOUS
  <2> QED
    BY <2>1, PartOf
<1>2. Part(s, a, 1) = <<Byte(d)>>
  BY <1>1
<1> QED
  BY <1>2, OneDigit

LEMMA FieldsAre ==
  ASSUME NEW data, NEW widths, Fields(data, widths) # <<>>, NEW p \in DOMAIN widths
  PROVE  /\ DigitsAfter(data, p, widths[p]) # <<>>
         /\ Fields(data, widths)[1][p] = DigitsAfter(data, p, widths[p])[1]
<1>1. PICK found : found = [q \in DOMAIN widths |-> DigitsAfter(data, q, widths[q])]
  OBVIOUS
<1>2. PICK e : e = [q \in DOMAIN widths |-> found[q][1]]
  OBVIOUS
<1>3. Fields(data, widths) = IF \E q \in DOMAIN widths : found[q] = <<>> THEN <<>> ELSE <<e>>
  BY <1>1, <1>2 DEF Fields
<1>4. \A q \in DOMAIN widths : found[q] # <<>>
  BY <1>3
<1> QED
  BY <1>1, <1>2, <1>3, <1>4

(* A field that no digit follows is read as it was sent, if it is read.    *)
LEMMA FieldRead ==
  ASSUME NEW S, NEW answer \in Seq(S), NEW data, Short(data, answer), NEW widths,
         Fields(data, widths) # <<>>, NEW p \in DOMAIN widths, NEW k, NEW w, widths[p] = w,
         FieldAt(answer, p, k, w), k + w = Len(answer) \/ ~IsDigit(answer[k + w + 1])
  PROVE  Fields(data, widths)[1][p] = Number(Part(answer, k, w))
<1>1. DigitsAfter(data, p, w) # <<>> /\ Fields(data, widths)[1][p] = DigitsAfter(data, p, w)[1]
  BY FieldsAre
<1>2. DigitsAfter(data, p, w) = <<Number(Part(answer, k, w))>>
  BY <1>1, FieldSurvives
<1> QED
  BY <1>1, <1>2

LEMMA LettersAre ==
  /\ "T" \notin Digit /\ "R" \notin Digit /\ "M" \notin Digit /\ "N" \notin Digit /\ "C" \notin Digit
  /\ "P" \notin Digit /\ "#" \notin Digit /\ "X" \notin Digit /\ "J" \notin Digit /\ "L" \notin Digit
  /\ "d" \notin Digit /\ "F" \notin Digit
  BY DigitSet

(* Joins under a name of their own.                                        *)
Join(a, b) == a \o b
Carries(t, a, m, b, n) == (\A j \in 1..m : t[j] = a[j]) /\ \A j \in 1..n : t[m + j] = b[j]

LEMMA JoinedAt ==
  ASSUME NEW S, NEW a \in Seq(S), NEW b \in Seq(S), NEW m \in Nat, Sized(a, m), NEW n \in Nat, Sized(b, n)
  PROVE  Join(a, b) \in Seq(S) /\ Sized(Join(a, b), m + n) /\ Carries(Join(a, b), a, m, b, n)
<1>1. PICK t : t = Join(a, b)
  OBVIOUS
<1>2. /\ t \in Seq(S) /\ Len(t) = Len(a) + Len(b)
      /\ \A j \in 1..Len(a) : t[j] = a[j]
      /\ \A j \in 1..Len(a) + Len(b) : j > Len(a) => t[j] = b[j - Len(a)]
  BY <1>1, Joined DEF Join
<1>3. Len(a) = m /\ Len(b) = n
  BY DEF Sized
<1>4. /\ t \in Seq(S) /\ Len(t) = m + n
      /\ \A j \in 1..m : t[j] = a[j]
      /\ \A j \in 1..m + n : j > m => t[j] = b[j - m]
  BY <1>2, <1>3
<1>5. \A j \in 1..n : t[m + j] = b[j]
  <2>1. TAKE j \in 1..n
  <2>2. m + j \in 1..m + n /\ m + j > m /\ (m + j) - m = j
    OBVIOUS
  <2> QED
    BY <1>4, <2>2
<1> QED
  BY <1>1, <1>4, <1>5 DEF Sized, Carries

(* The preset snapshot: 26 bytes.                                          *)
PresetAnswer(s, x, y, m, n, c, p, w) ==
    /\ s \in Seq(Plain) /\ Len(s) = 26
    /\ s[1] = "T" /\ \A j \in 1..7 : s[1 + j] = x[j]
    /\ s[9] = "R" /\ \A j \in 1..7 : s[9 + j] = y[j]
    /\ s[17] = "M" /\ s[18] = m /\ s[19] = "N" /\ s[20] = n /\ s[21] = "C" /\ s[22] = c
    /\ s[23] = "P" /\ s[24] = p /\ s[25] = "#" /\ s[26] = w

LEMMA PresetAnswerIs ==
  ASSUME NEW x \in Seq(Plain), Sized(x, 7), NEW y \in Seq(Plain), Sized(y, 7),
         NEW m \in Plain, NEW n \in Plain, NEW c \in Plain, NEW p \in Plain, NEW w \in Plain
  PROVE  PresetAnswer(<<"T">> \o x \o <<"R">> \o y \o <<"M", m, "N", n, "C", c, "P", p, "#", w>>,
                      x, y, m, n, c, p, w)
<1>1. PICK t : t = <<"M", m, "N", n, "C", c, "P", p, "#", w>>
  OBVIOUS
<1>2. /\ t \in Seq(Plain) /\ Sized(t, 10) /\ t[1] = "M" /\ t[2] = m /\ t[3] = "N" /\ t[4] = n
      /\ t[5] = "C" /\ t[6] = c /\ t[7] = "P" /\ t[8] = p /\ t[9] = "#" /\ t[10] = w
  BY <1>1 DEF Plain, Sized
<1>3. PICK T, R : T = <<"T">> /\ R = <<"R">>
  OBVIOUS
<1>4. /\ T \in Seq(Plain) /\ Sized(T, 1) /\ T[1] = "T"
      /\ R \in Seq(Plain) /\ Sized(R, 1) /\ R[1] = "R"
  BY <1>3 DEF Plain, Sized
<1>5. PICK a : a = Join(T, x)
  OBVIOUS
<1>6. a \in Seq(Plain) /\ Sized(a, 1 + 7) /\ Carries(a, T, 1, x, 7)
  BY <1>4, <1>5, JoinedAt
<1>7. PICK b : b = Join(a, R)
  OBVIOUS
<1>8. b \in Seq(Plain) /\ Sized(b, 8 + 1) /\ Carries(b, a, 8, R, 1)
  <2>1. Sized(a, 8)
    BY <1>6
  <2> QED
    BY <1>4, <1>6, <1>7, <2>1, JoinedAt
<1>9. PICK d : d = Join(b, y)
  OBVIOUS
<1>10. d \in Seq(Plain) /\ Sized(d, 9 + 7) /\ Carries(d, b, 9, y, 7)
  <2>1. Sized(b, 9)
    BY <1>8
  <2> QED
    BY <1>8, <1>9, <2>1, JoinedAt
<1>a. PICK s : s = Join(d, t)
  OBVIOUS
<1>11. s \in Seq(Plain) /\ Sized(s, 16 + 10) /\ Carries(s, d, 16, t, 10)
  <2>1. Sized(d, 16)
    BY <1>10
  <2> QED
    BY <1>2, <1>10, <1>a, <2>1, JoinedAt
<1>b. (\A j \in 1..1 : a[j] = T[j]) /\ \A j \in 1..7 : a[1 + j] = x[j]
  BY <1>6 DEF Carries
<1>c. (\A j \in 1..8 : b[j] = a[j]) /\ \A j \in 1..1 : b[8 + j] = R[j]
  BY <1>8 DEF Carries
<1>d. (\A j \in 1..9 : d[j] = b[j]) /\ \A j \in 1..7 : d[9 + j] = y[j]
  BY <1>10 DEF Carries
<1>e. (\A j \in 1..16 : s[j] = d[j]) /\ \A j \in 1..10 : s[16 + j] = t[j]
  BY <1>11 DEF Carries
<1>12. s[1] = "T" /\ s[9] = "R" /\ (\A j \in 1..7 : s[1 + j] = x[j]) /\ \A j \in 1..7 : s[9 + j] = y[j]
  <2>1. s[1] = "T" /\ s[9] = "R"
    <3>1. a[1] = "T" /\ b[8 + 1] = "R"
      BY <1>4, <1>b, <1>c
    <3>2. s[1] = a[1] /\ s[9] = b[9]
      <4>1. /\ 1 \in 1..8 /\ 1 \in 1..9 /\ 1 \in 1..16 /\ 9 \in 1..9 /\ 9 \in 1..16
        OBVIOUS
      <4>2. b[1] = a[1]
        BY <1>c, <4>1
      <4>3. d[1] = b[1] /\ d[9] = b[9]
        BY <1>d, <4>1
      <4>4. s[1] = d[1] /\ s[9] = d[9]
        BY <1>e, <4>1
      <4> QED
        BY <4>2, <4>3, <4>4
    <3> QED
      BY <3>1, <3>2
  <2>2. \A j \in 1..7 : s[1 + j] = x[j]
    <3>1. TAKE j \in 1..7
    <3>2. 1 + j \in 1..8 /\ 1 + j \in 1..9 /\ 1 + j \in 1..16
      OBVIOUS
    <3>3. a[1 + j] = x[j]
      BY <1>b
    <3>4. b[1 + j] = a[1 + j]
      BY <1>c, <3>2
    <3>5. d[1 + j] = b[1 + j]
      BY <1>d, <3>2
    <3>6. s[1 + j] = d[1 + j]
      BY <1>e, <3>2
    <3> QED
      BY <3>3, <3>4, <3>5, <3>6
  <2>3. \A j \in 1..7 : s[9 + j] = y[j]
    <3>1. TAKE j \in 1..7
    <3>2. 9 + j \in 1..16
      OBVIOUS
    <3> QED
      BY <1>d, <1>e, <3>2
  <2> QED
    BY <2>1, <2>2, <2>3
<1>13. /\ s[17] = "M" /\ s[18] = m /\ s[19] = "N" /\ s[20] = n /\ s[21] = "C" /\ s[22] = c
       /\ s[23] = "P" /\ s[24] = p /\ s[25] = "#" /\ s[26] = w
  <2>1. /\ s[16 + 1] = t[1] /\ s[16 + 2] = t[2] /\ s[16 + 3] = t[3] /\ s[16 + 4] = t[4]
        /\ s[16 + 5] = t[5] /\ s[16 + 6] = t[6] /\ s[16 + 7] = t[7] /\ s[16 + 8] = t[8]
        /\ s[16 + 9] = t[9] /\ s[16 + 10] = t[10]
    BY <1>e
  <2> QED
    BY <1>2, <2>1
<1>14. PresetAnswer(s, x, y, m, n, c, p, w)
  BY <1>11, <1>12, <1>13 DEF PresetAnswer, Sized
<1>15. s = <<"T">> \o x \o <<"R">> \o y \o <<"M", m, "N", n, "C", c, "P", p, "#", w>>
  BY <1>1, <1>3, <1>5, <1>7, <1>9, <1>a DEF Join
<1> QED
  BY <1>14, <1>15

LEMMA PresetFieldsAt ==
  ASSUME NEW s, NEW x, NEW y, \A j \in 1..7 : x[j] \in Digit /\ y[j] \in Digit,
         NEW m \in Digit, NEW n \in Digit, NEW c \in Digit, NEW p \in Digit, NEW w \in Digit,
         PresetAnswer(s, x, y, m, n, c, p, w)
  PROVE  /\ FieldAt(s, "T", 1, 7) /\ ~IsDigit(s[1 + 7 + 1])
         /\ FieldAt(s, "R", 9, 7) /\ ~IsDigit(s[9 + 7 + 1])
         /\ FieldAt(s, "M", 17, 1) /\ ~IsDigit(s[17 + 1 + 1])
         /\ FieldAt(s, "N", 19, 1) /\ ~IsDigit(s[19 + 1 + 1])
         /\ FieldAt(s, "C", 21, 1) /\ ~IsDigit(s[21 + 1 + 1])
         /\ FieldAt(s, "P", 23, 1) /\ ~IsDigit(s[23 + 1 + 1])
         /\ FieldAt(s, "#", 25, 1) /\ 25 + 1 = Len(s)
<1>1. PICK K : K = {1, 9, 17, 19, 21, 23, 25}
  OBVIOUS
<1>2. /\ Len(s) = 26 /\ s[1] = "T" /\ s[9] = "R" /\ s[17] = "M" /\ s[19] = "N" /\ s[21] = "C"
      /\ s[23] = "P" /\ s[25] = "#"
  BY DEF PresetAnswer
<1>3. K \subseteq 1..Len(s) /\ Len(s) \in Nat
  BY <1>1, <1>2
<1>4. \A j \in 1..Len(s) : j \notin K => s[j] \in Digit
  <2>1. TAKE j \in 1..Len(s)
  <2>2. HAVE j \notin K
  <2>3. \/ \E i \in 1..7 : j = 1 + i
        \/ \E i \in 1..7 : j = 9 + i
        \/ j \in {18, 20, 22, 24, 26}
    <3>1. j \in 1..26 /\ j \notin {1, 9, 17, 19, 21, 23, 25}
      BY <1>1, <1>2, <2>2
    <3>2. j \in 2..8 \/ j \in 10..16 \/ j \in {18, 20, 22, 24, 26}
      BY <3>1
    <3>3. j \in 2..8 => j - 1 \in 1..7 /\ j = 1 + (j - 1)
      OBVIOUS
    <3>4. j \in 10..16 => j - 9 \in 1..7 /\ j = 9 + (j - 9)
      OBVIOUS
    <3> QED
      BY <3>2, <3>3, <3>4
  <2>4. CASE \E i \in 1..7 : j = 1 + i
    BY <2>4 DEF PresetAnswer
  <2>5. CASE \E i \in 1..7 : j = 9 + i
    BY <2>5 DEF PresetAnswer
  <2>6. CASE j \in {18, 20, 22, 24, 26}
    BY <2>6 DEF PresetAnswer
  <2> QED
    BY <2>3, <2>4, <2>5, <2>6
<1>5. \A k \in K : \A j \in K : s[j] = s[k] <=> j = k
  BY <1>1, <1>2
<1>6. \A k \in K : s[k] \notin Digit
  BY <1>1, <1>2, LettersAre
<1>7. ASSUME NEW k \in K, NEW v \in 1..7, k + v <= 26, \A j \in k + 1..k + v : j \notin K
      PROVE  FieldAt(s, s[k], k, v)
  BY <1>2, <1>3, <1>4, <1>5, <1>6, <1>7, FieldThere
<1>8. FieldAt(s, "T", 1, 7)
  <2>1. \A j \in 1 + 1..1 + 7 : j \notin K
    BY <1>1
  <2>2. 1 \in K /\ 7 \in 1..7 /\ 1 + 7 <= 26
    BY <1>1
  <2> QED
    BY <1>2, <1>7, <2>1, <2>2
<1>9. FieldAt(s, "R", 9, 7)
  <2>1. \A j \in 9 + 1..9 + 7 : j \notin K
    BY <1>1
  <2>2. 9 \in K /\ 7 \in 1..7 /\ 9 + 7 <= 26
    BY <1>1
  <2> QED
    BY <1>2, <1>7, <2>1, <2>2
<1>10. ASSUME NEW k \in {17, 19, 21, 23, 25}
       PROVE  FieldAt(s, s[k], k, 1)
  <2>1. \A j \in k + 1..k + 1 : j \notin K
    BY <1>1
  <2>2. k \in K /\ 1 \in 1..7 /\ k + 1 <= 26
    BY <1>1
  <2> QED
    BY <1>7, <2>1, <2>2
<1>11. /\ FieldAt(s, "M", 17, 1) /\ FieldAt(s, "N", 19, 1) /\ FieldAt(s, "C", 21, 1)
       /\ FieldAt(s, "P", 23, 1) /\ FieldAt(s, "#", 25, 1)
  BY <1>2, <1>10
<1>12. /\ ~IsDigit(s[1 + 7 + 1]) /\ ~IsDigit(s[9 + 7 + 1]) /\ ~IsDigit(s[17 + 1 + 1])
       /\ ~IsDigit(s[19 + 1 + 1]) /\ ~IsDigit(s[21 + 1 + 1]) /\ ~IsDigit(s[23 + 1 + 1])
       /\ 25 + 1 = Len(s)
  BY <1>2, DigitDomain, LettersAre
<1> QED
  BY <1>8, <1>9, <1>11, <1>12

LEMMA PresetFieldsHave ==
  /\ DOMAIN PresetFields = {"T", "R", "M", "N", "C", "P", "#"}
  /\ PresetFields["T"] = 7 /\ PresetFields["R"] = 7 /\ PresetFields["M"] = 1 /\ PresetFields["N"] = 1
  /\ PresetFields["C"] = 1 /\ PresetFields["P"] = 1 /\ PresetFields["#"] = 1
  BY DEF PresetFields

LEMMA PresetFieldRead ==
  ASSUME NEW s \in Seq(Plain), NEW data, Short(data, s), Fields(data, PresetFields) # <<>>,
         NEW q \in DOMAIN PresetFields, NEW k, NEW u, PresetFields[q] = u, FieldAt(s, q, k, u),
         k + u = Len(s) \/ ~IsDigit(s[k + u + 1])
  PROVE  Fields(data, PresetFields)[1][q] = Number(Part(s, k, u))
  BY FieldRead

LEMMA PresetParts ==
  ASSUME NEW s \in Seq(Plain), NEW data, Short(data, s), Fields(data, PresetFields) # <<>>,
         FieldAt(s, "T", 1, 7), ~IsDigit(s[1 + 7 + 1]),
         FieldAt(s, "R", 9, 7), ~IsDigit(s[9 + 7 + 1]),
         FieldAt(s, "M", 17, 1), ~IsDigit(s[17 + 1 + 1]),
         FieldAt(s, "N", 19, 1), ~IsDigit(s[19 + 1 + 1]),
         FieldAt(s, "C", 21, 1), ~IsDigit(s[21 + 1 + 1]),
         FieldAt(s, "P", 23, 1), ~IsDigit(s[23 + 1 + 1]),
         FieldAt(s, "#", 25, 1), 25 + 1 = Len(s)
  PROVE  /\ Fields(data, PresetFields)[1]["T"] = Number(Part(s, 1, 7))
         /\ Fields(data, PresetFields)[1]["R"] = Number(Part(s, 9, 7))
         /\ Fields(data, PresetFields)[1]["M"] = Number(Part(s, 17, 1))
         /\ Fields(data, PresetFields)[1]["N"] = Number(Part(s, 19, 1))
         /\ Fields(data, PresetFields)[1]["C"] = Number(Part(s, 21, 1))
         /\ Fields(data, PresetFields)[1]["P"] = Number(Part(s, 23, 1))
         /\ Fields(data, PresetFields)[1]["#"] = Number(Part(s, 25, 1))
<1>1. Fields(data, PresetFields)[1]["T"] = Number(Part(s, 1, 7))
  BY PresetFieldsHave, PresetFieldRead
<1>2. Fields(data, PresetFields)[1]["R"] = Number(Part(s, 9, 7))
  BY PresetFieldsHave, PresetFieldRead
<1>3. Fields(data, PresetFields)[1]["M"] = Number(Part(s, 17, 1))
  BY PresetFieldsHave, PresetFieldRead
<1>4. Fields(data, PresetFields)[1]["N"] = Number(Part(s, 19, 1))
  BY PresetFieldsHave, PresetFieldRead
<1>5. Fields(data, PresetFields)[1]["C"] = Number(Part(s, 21, 1))
  BY PresetFieldsHave, PresetFieldRead
<1>6. Fields(data, PresetFields)[1]["P"] = Number(Part(s, 23, 1))
  BY PresetFieldsHave, PresetFieldRead
<1>7. Fields(data, PresetFields)[1]["#"] = Number(Part(s, 25, 1))
  <2>1. PICK k, u : k = 25 /\ u = 1
    OBVIOUS
  <2>2. "#" \in DOMAIN PresetFields /\ PresetFields["#"] = u /\ FieldAt(s, "#", k, u)
    BY <2>1, PresetFieldsHave
  <2>3. k + u = Len(s)
    BY <2>1
  <2>4. Fields(data, PresetFields)[1]["#"] = Number(Part(s, k, u))
    BY <2>2, <2>3, PresetFieldRead
  <2> QED
    BY <2>1, <2>4
<1> QED
  BY <1>1, <1>2, <1>3, <1>4, <1>5, <1>6, <1>7

(* What is read of a preset snapshot, all of it or all but a byte.         *)
PresetIs(v, t, r, m, n, c, p, w) ==
    /\ v["T"] = t /\ v["R"] = r /\ v["M"] = m /\ v["N"] = n /\ v["C"] = c /\ v["P"] = p /\ v["#"] = w

Written(x) == x \in Seq(Plain) /\ Sized(x, 7) /\ \A j \in 1..7 : x[j] \in Digit

LEMMA PresetRead ==
  ASSUME NEW s, NEW x, NEW y, Written(x), Written(y),
         NEW m \in 0..9, NEW n \in 0..9, NEW c \in 0..9, NEW p \in 0..9, NEW w \in 0..9,
         PresetAnswer(s, x, y, Byte(m), Byte(n), Byte(c), Byte(p), Byte(w)),
         NEW data, Short(data, s), Fields(data, PresetFields) # <<>>
  PROVE  PresetIs(Fields(data, PresetFields)[1], Number(x), Number(y), m, n, c, p, w)
<1>0. PICK v : v = Fields(data, PresetFields)[1]
  OBVIOUS
<1>a. x \in Seq(Plain) /\ y \in Seq(Plain) /\ Sized(x, 7) /\ Sized(y, 7)
  BY DEF Written
<1>b. \A j \in 1..7 : x[j] \in Digit /\ y[j] \in Digit
  BY DEF Written
<1>1. /\ FieldAt(s, "T", 1, 7) /\ ~IsDigit(s[1 + 7 + 1])
      /\ FieldAt(s, "R", 9, 7) /\ ~IsDigit(s[9 + 7 + 1])
      /\ FieldAt(s, "M", 17, 1) /\ ~IsDigit(s[17 + 1 + 1])
      /\ FieldAt(s, "N", 19, 1) /\ ~IsDigit(s[19 + 1 + 1])
      /\ FieldAt(s, "C", 21, 1) /\ ~IsDigit(s[21 + 1 + 1])
      /\ FieldAt(s, "P", 23, 1) /\ ~IsDigit(s[23 + 1 + 1])
      /\ FieldAt(s, "#", 25, 1) /\ 25 + 1 = Len(s)
  BY <1>b, ByteValue, PresetFieldsAt
<1>2. s \in Seq(Plain)
  BY DEF PresetAnswer
<1>3. /\ v["T"] = Number(Part(s, 1, 7)) /\ v["R"] = Number(Part(s, 9, 7))
      /\ v["M"] = Number(Part(s, 17, 1)) /\ v["N"] = Number(Part(s, 19, 1))
      /\ v["C"] = Number(Part(s, 21, 1)) /\ v["P"] = Number(Part(s, 23, 1))
      /\ v["#"] = Number(Part(s, 25, 1))
  BY <1>0, <1>1, <1>2, PresetParts
<1>4. Len(s) = 26
  BY DEF PresetAnswer
<1>5. (\A j \in 1..7 : s[1 + j] = x[j]) /\ \A j \in 1..7 : s[9 + j] = y[j]
  BY DEF PresetAnswer
<1>6. /\ s[17 + 1] = Byte(m) /\ s[19 + 1] = Byte(n) /\ s[21 + 1] = Byte(c) /\ s[23 + 1] = Byte(p)
      /\ s[25 + 1] = Byte(w)
  BY DEF PresetAnswer
<1>7. Part(s, 1, 7) = x
  <2>1. 1 \in Nat /\ 7 \in Nat /\ 1 + 7 <= Len(s)
    BY <1>4
  <2> QED
    BY <1>a, <1>2, <1>5, <2>1, PartIs
<1>8. Part(s, 9, 7) = y
  <2>1. 9 \in Nat /\ 7 \in Nat /\ 9 + 7 <= Len(s)
    BY <1>4
  <2> QED
    BY <1>a, <1>2, <1>5, <2>1, PartIs
<1>9. ASSUME NEW k \in {17, 19, 21, 23, 25}, NEW d \in 0..9, s[k + 1] = Byte(d)
       PROVE  Number(Part(s, k, 1)) = d
  <2>1. k \in Nat /\ k + 1 <= Len(s)
    BY <1>4
  <2> QED
    BY <1>2, <1>9, <2>1, DigitPart
<1>10. /\ Number(Part(s, 17, 1)) = m /\ Number(Part(s, 19, 1)) = n /\ Number(Part(s, 21, 1)) = c
       /\ Number(Part(s, 23, 1)) = p /\ Number(Part(s, 25, 1)) = w
  BY <1>6, <1>9
<1> QED
  BY <1>0, <1>3, <1>7, <1>8, <1>10 DEF PresetIs

(* The names of digits are those of the view.                              *)
LEMMA NamesAre ==
  /\ \A d \in 0..1 : Named(ModMode, d) /\ Name(ModMode, d)[1] = <<"am", "fm">>[d + 1]
  /\ \A d \in 0..1 : Named(TextMode, d) /\ Name(TextMode, d)[1] = <<"pt", "ct">>[d + 1]
  /\ \A d \in 0..2 : Named(PowerLevel, d) /\ Name(PowerLevel, d)[1] = <<"lo", "med", "hi">>[d + 1]
  /\ \A d \in 0..3 : Named(LampLevel, d) /\ Name(LampLevel, d)[1] = <<"off", "lo", "med", "hi">>[d + 1]
<1>1. /\ DOMAIN ModMode = {"am", "fm"} /\ ModMode["am"] = 0 /\ ModMode["fm"] = 1
      /\ DOMAIN TextMode = {"pt", "ct"} /\ TextMode["pt"] = 0 /\ TextMode["ct"] = 1
      /\ DOMAIN PowerLevel = {"lo", "med", "hi"} /\ PowerLevel["lo"] = 0 /\ PowerLevel["med"] = 1
      /\ PowerLevel["hi"] = 2
      /\ DOMAIN LampLevel = {"off", "lo", "med", "hi"} /\ LampLevel["off"] = 0 /\ LampLevel["lo"] = 1
      /\ LampLevel["med"] = 2 /\ LampLevel["hi"] = 3
  BY DEF ModMode, TextMode, PowerLevel, LampLevel
<1>2. \A d \in 0..1 : Named(ModMode, d) /\ Name(ModMode, d)[1] = <<"am", "fm">>[d + 1]
  <2>1. Named(ModMode, 0) /\ Name(ModMode, 0) = <<"am">>
    BY <1>1, NameOf
  <2>2. Named(ModMode, 1) /\ Name(ModMode, 1) = <<"fm">>
    BY <1>1, NameOf
  <2> QED
    BY <2>1, <2>2
<1>3. \A d \in 0..1 : Named(TextMode, d) /\ Name(TextMode, d)[1] = <<"pt", "ct">>[d + 1]
  <2>1. Named(TextMode, 0) /\ Name(TextMode, 0) = <<"pt">>
    BY <1>1, NameOf
  <2>2. Named(TextMode, 1) /\ Name(TextMode, 1) = <<"ct">>
    BY <1>1, NameOf
  <2> QED
    BY <2>1, <2>2
<1>4. \A d \in 0..2 : Named(PowerLevel, d) /\ Name(PowerLevel, d)[1] = <<"lo", "med", "hi">>[d + 1]
  <2>1. Named(PowerLevel, 0) /\ Name(PowerLevel, 0) = <<"lo">>
    BY <1>1, NameOf
  <2>2. Named(PowerLevel, 1) /\ Name(PowerLevel, 1) = <<"med">>
    BY <1>1, NameOf
  <2>3. Named(PowerLevel, 2) /\ Name(PowerLevel, 2) = <<"hi">>
    BY <1>1, NameOf
  <2> QED
    BY <2>1, <2>2, <2>3
<1>5. \A d \in 0..3 : Named(LampLevel, d) /\ Name(LampLevel, d)[1] = <<"off", "lo", "med", "hi">>[d + 1]
  <2>1. Named(LampLevel, 0) /\ Name(LampLevel, 0) = <<"off">>
    BY <1>1, NameOf
  <2>2. Named(LampLevel, 1) /\ Name(LampLevel, 1) = <<"lo">>
    BY <1>1, NameOf
  <2>3. Named(LampLevel, 2) /\ Name(LampLevel, 2) = <<"med">>
    BY <1>1, NameOf
  <2>4. Named(LampLevel, 3) /\ Name(LampLevel, 3) = <<"hi">>
    BY <1>1, NameOf
  <2> QED
    BY <2>1, <2>2, <2>3, <2>4
<1> QED
  BY <1>2, <1>3, <1>4, <1>5

LEMMA PlainDigits == \A x \in Seq(Digit) : x \in Seq(Plain)
  BY DEF Plain

LEMMA FrequencyWritten ==
  ASSUME NEW f \in Hz
  PROVE  /\ Decimal(f, 7) \in Seq(Plain) /\ Sized(Decimal(f, 7), 7) /\ Number(Decimal(f, 7)) = f
         /\ \A j \in 1..7 : Decimal(f, 7)[j] \in Digit
<1>1. f \in Nat /\ f < 10 * Worth[7]
  BY SMT DEF Hz, Between, Worth
<1>2. PICK x : x = Decimal(f, 7)
  OBVIOUS
<1>3. x \in Seq(Digit) /\ Len(x) = 7 /\ Number(x) = f
  BY <1>1, <1>2, WrittenAndRead
<1>a. \A j \in 1..Len(x) : x[j] \in Digit
  <2>1. x \in Seq(Digit)
    BY <1>3
  <2> QED
    BY <2>1
<1>4. \A j \in 1..7 : x[j] \in Digit
  <2>1. Len(x) = 7
    BY <1>3
  <2> QED
    BY <1>a, <2>1
<1>5. Sized(x, 7)
  BY <1>3 DEF Sized
<1> QED
  BY <1>2, <1>3, <1>4, <1>5, PlainDigits

LEMMA PresetShows ==
  ASSUME NEW r, IsRadio(r), NEW data, Short(data, Answer(r, InquiryEncode("PresetSnapshot"))),
         Decode("PresetSnapshot", data) # <<>>
  PROVE  Shows(Decode("PresetSnapshot", data)[1], r)
<1>1. PICK s, x, y : /\ s = Answer(r, InquiryEncode("PresetSnapshot"))
                     /\ x = Decimal(r.ram.tx, 7) /\ y = Decimal(r.ram.rx, 7)
  OBVIOUS
<1>2. /\ r.ram.tx \in Hz /\ r.ram.rx \in Hz /\ r.ram.mod \in 0..1 /\ r.ram.modTx \in 0..1
      /\ r.ram.member \in 0..1 /\ r.preset \in 0..9 /\ r.ram.power \in 0..2
  BY PartsOf DEF Slot
<1>3. /\ x \in Seq(Plain) /\ y \in Seq(Plain) /\ Sized(x, 7) /\ Sized(y, 7)
      /\ Number(x) = r.ram.tx /\ Number(y) = r.ram.rx
      /\ \A j \in 1..7 : x[j] \in Digit /\ y[j] \in Digit
  BY <1>1, <1>2, FrequencyWritten
<1>4. PICK m, n, c, p, w :
        m = r.ram.mod /\ n = r.ram.modTx /\ c = r.ram.member /\ p = r.preset /\ w = r.ram.power
  OBVIOUS
<1>5. m \in 0..9 /\ n \in 0..9 /\ c \in 0..9 /\ p \in 0..9 /\ w \in 0..9
  BY <1>2, <1>4
<1>6. s = <<"T">> \o x \o <<"R">> \o y
          \o <<"M", Byte(m), "N", Byte(n), "C", Byte(c), "P", Byte(p), "#", Byte(w)>>
  BY <1>1, <1>4, AnswersAre
<1>7. \A d \in 0..9 : Byte(d) \in Plain
  BY ByteValue DEF Plain
<1>8. PresetAnswer(s, x, y, Byte(m), Byte(n), Byte(c), Byte(p), Byte(w))
  BY <1>3, <1>5, <1>6, <1>7, PresetAnswerIs
<1>9. Decode("PresetSnapshot", data) = DecodePreset(data)
  BY DEF Decode
<1>10. Short(data, s) /\ Fields(data, PresetFields) # <<>>
  BY <1>1, <1>9 DEF DecodePreset
<1>11. PICK v : v = Fields(data, PresetFields)[1]
  OBVIOUS
<1>12. /\ v["T"] = r.ram.tx /\ v["R"] = r.ram.rx /\ v["M"] = m /\ v["N"] = n /\ v["C"] = c
       /\ v["P"] = p /\ v["#"] = w
  <2>1. Written(x) /\ Written(y)
    BY <1>3 DEF Written
  <2>2. PresetIs(Fields(data, PresetFields)[1], Number(x), Number(y), m, n, c, p, w)
    BY <1>5, <1>8, <1>10, <2>1, PresetRead
  <2> QED
    BY <1>3, <1>11, <2>2 DEF PresetIs
<1>13. PICK e : e = [tx |-> v.T, rx |-> v.R, mod_tx_rx |-> Name(ModMode, v.M)[1],
                 mod_tx_only |-> Name(ModMode, v.N)[1], on_scan_list |-> v.C = 1,
                 preset |-> v.P, power |-> Name(PowerLevel, v["#"])[1]]
  OBVIOUS
<1>14. DecodePreset(data) = <<e>>
  BY <1>9, <1>10, <1>11, <1>13 DEF DecodePreset
<1>15. Shows(e, r)
  <2>1. DOMAIN e = {"tx", "rx", "mod_tx_rx", "mod_tx_only", "on_scan_list", "preset", "power"}
    BY <1>13
  <2>2. e["tx"] = View(r)["tx"] /\ e["rx"] = View(r)["rx"] /\ e["preset"] = View(r)["preset"]
    BY <1>4, <1>12, <1>13 DEF View
  <2>3. e["on_scan_list"] = View(r)["on_scan_list"]
    <3>1. e["on_scan_list"] = (v["C"] = 1)
      BY Zenon, <1>13
    <3>2. View(r)["on_scan_list"] = (r.ram.member = 1)
      BY Zenon DEF View
    <3>3. v["C"] = r.ram.member
      BY <1>4, <1>12
    <3> QED
      BY Zenon, <3>1, <3>2, <3>3
  <2>4. e["mod_tx_rx"] = View(r)["mod_tx_rx"]
    <3>1. e["mod_tx_rx"] = Name(ModMode, r.ram.mod)[1]
      BY Zenon, <1>4, <1>12, <1>13
    <3>2. View(r)["mod_tx_rx"] = <<"am", "fm">>[r.ram.mod + 1]
      BY Zenon DEF View
    <3> QED
      BY <1>2, <3>1, <3>2, NamesAre
  <2>5. e["mod_tx_only"] = View(r)["mod_tx_only"]
    <3>1. e["mod_tx_only"] = Name(ModMode, r.ram.modTx)[1]
      BY Zenon, <1>4, <1>12, <1>13
    <3>2. View(r)["mod_tx_only"] = <<"am", "fm">>[r.ram.modTx + 1]
      BY Zenon DEF View
    <3> QED
      BY <1>2, <3>1, <3>2, NamesAre
  <2>6. e["power"] = View(r)["power"]
    <3>1. e["power"] = Name(PowerLevel, r.ram.power)[1]
      BY Zenon, <1>4, <1>12, <1>13
    <3>2. View(r)["power"] = <<"lo", "med", "hi">>[r.ram.power + 1]
      BY Zenon DEF View
    <3> QED
      BY <1>2, <3>1, <3>2, NamesAre
  <2> QED
    BY <2>1, <2>2, <2>3, <2>4, <2>5, <2>6 DEF Shows
<1> QED
  BY <1>9, <1>14, <1>15

-----------------------------------------------------------------------------
(* What ?11 is answered: five letters with a digit each, and more digits.  *)
GeneralAnswer(s, x, j, l, d, f) ==
    /\ s \in Seq(Plain) /\ Len(s) >= 10 /\ Len(s) <= 210
    /\ s[1] = "X" /\ s[2] = x /\ s[3] = "J" /\ s[4] = j /\ s[5] = "L" /\ s[6] = l
    /\ s[7] = "d" /\ s[8] = d /\ s[9] = "F" /\ s[10] = f
    /\ \A i \in 11..Len(s) : s[i] \in Digit

LEMMA GeneralAnswerIs ==
  ASSUME NEW x \in Plain, NEW j \in Plain, NEW l \in Plain, NEW d \in Plain, NEW f \in Plain,
         NEW more \in Seq(Digit), Len(more) <= 200
  PROVE  GeneralAnswer(<<"X", x, "J", j, "L", l, "d", d, "F", f>> \o more, x, j, l, d, f)
<1>1. PICK t : t = <<"X", x, "J", j, "L", l, "d", d, "F", f>>
  OBVIOUS
<1>2. /\ t \in Seq(Plain) /\ Sized(t, 10) /\ t[1] = "X" /\ t[2] = x /\ t[3] = "J" /\ t[4] = j
      /\ t[5] = "L" /\ t[6] = l /\ t[7] = "d" /\ t[8] = d /\ t[9] = "F" /\ t[10] = f
  BY <1>1 DEF Plain, Sized
<1>3. PICK n \in Nat : n = Len(more)
  OBVIOUS
<1>4. n \in Nat /\ n <= 200 /\ Sized(more, n) /\ more \in Seq(Plain)
  BY <1>3, PlainDigits DEF Sized
<1>5. PICK s : s = Join(t, more)
  OBVIOUS
<1>6. s \in Seq(Plain) /\ Sized(s, 10 + n) /\ Carries(s, t, 10, more, n)
  BY <1>2, <1>4, <1>5, JoinedAt
<1>7. Len(s) = 10 + n
  BY <1>6 DEF Sized
<1>8. (\A i \in 1..10 : s[i] = t[i]) /\ \A i \in 1..n : s[10 + i] = more[i]
  BY <1>6 DEF Carries
<1>9. \A i \in 1..n : more[i] \in Digit
  BY <1>3
<1>10. \A i \in 11..Len(s) : s[i] \in Digit
  <2>1. TAKE i \in 11..Len(s)
  <2>2. i - 10 \in 1..n /\ i = 10 + (i - 10)
    BY <1>4, <1>7
  <2> QED
    BY <1>8, <1>9, <2>2
<1>11. /\ s[1] = "X" /\ s[2] = x /\ s[3] = "J" /\ s[4] = j /\ s[5] = "L" /\ s[6] = l
       /\ s[7] = "d" /\ s[8] = d /\ s[9] = "F" /\ s[10] = f
  <2>1. /\ s[1] = t[1] /\ s[2] = t[2] /\ s[3] = t[3] /\ s[4] = t[4] /\ s[5] = t[5]
        /\ s[6] = t[6] /\ s[7] = t[7] /\ s[8] = t[8] /\ s[9] = t[9] /\ s[10] = t[10]
    BY <1>8
  <2> QED
    BY <1>2, <2>1
<1>12. Len(s) >= 10 /\ Len(s) <= 210
  BY <1>4, <1>7
<1>13. GeneralAnswer(s, x, j, l, d, f)
  BY <1>6, <1>10, <1>11, <1>12 DEF GeneralAnswer
<1>14. s = <<"X", x, "J", j, "L", l, "d", d, "F", f>> \o more
  BY <1>1, <1>5 DEF Join
<1> QED
  BY <1>13, <1>14

LEMMA GeneralFieldsAt ==
  ASSUME NEW s, NEW x \in Digit, NEW j \in Digit, NEW l \in Digit, NEW d \in Digit, NEW f \in Digit,
         GeneralAnswer(s, x, j, l, d, f)
  PROVE  /\ FieldAt(s, "X", 1, 1) /\ ~IsDigit(s[1 + 1 + 1])
         /\ FieldAt(s, "J", 3, 1) /\ ~IsDigit(s[3 + 1 + 1])
         /\ FieldAt(s, "L", 5, 1) /\ ~IsDigit(s[5 + 1 + 1])
         /\ FieldAt(s, "d", 7, 1) /\ ~IsDigit(s[7 + 1 + 1])
<1>1. PICK K : K = {1, 3, 5, 7, 9}
  OBVIOUS
<1>2. s[1] = "X" /\ s[3] = "J" /\ s[5] = "L" /\ s[7] = "d" /\ s[9] = "F"
  BY DEF GeneralAnswer
<1>3. Len(s) \in Nat /\ Len(s) >= 10
  BY DEF GeneralAnswer
<1>4. K \subseteq 1..Len(s)
  BY <1>1, <1>3
<1>5. \A i \in 1..Len(s) : i \notin K => s[i] \in Digit
  <2>1. TAKE i \in 1..Len(s)
  <2>2. HAVE i \notin K
  <2>3. i \in {2, 4, 6, 8, 10} \/ i \in 11..Len(s)
    BY <1>1, <1>3, <2>2
  <2>4. CASE i \in {2, 4, 6, 8, 10}
    BY <2>4 DEF GeneralAnswer
  <2>5. CASE i \in 11..Len(s)
    BY <2>5 DEF GeneralAnswer
  <2> QED
    BY <2>3, <2>4, <2>5
<1>6. \A k \in K : \A i \in K : s[i] = s[k] <=> i = k
  BY <1>1, <1>2
<1>7. \A k \in K : s[k] \notin Digit
  BY <1>1, <1>2, LettersAre
<1>8. ASSUME NEW k \in {1, 3, 5, 7}
      PROVE  FieldAt(s, s[k], k, 1)
  <2>1. \A i \in k + 1..k + 1 : i \notin K
    BY <1>1
  <2>2. k \in K /\ 1 \in 1..7 /\ k + 1 <= Len(s)
    BY <1>1, <1>3
  <2> QED
    BY <1>3, <1>4, <1>5, <1>6, <1>7, <2>1, <2>2, FieldThere
<1>9. /\ FieldAt(s, "X", 1, 1) /\ FieldAt(s, "J", 3, 1) /\ FieldAt(s, "L", 5, 1)
      /\ FieldAt(s, "d", 7, 1)
  BY <1>2, <1>8
<1>10. /\ ~IsDigit(s[1 + 1 + 1]) /\ ~IsDigit(s[3 + 1 + 1]) /\ ~IsDigit(s[5 + 1 + 1])
       /\ ~IsDigit(s[7 + 1 + 1])
  BY <1>2, DigitDomain, LettersAre
<1> QED
  BY <1>9, <1>10

GeneralFields == [X |-> 1, J |-> 1, L |-> 1, d |-> 1, F |-> 1]
GeneralIs(v, x, j, l, d) == v["X"] = x /\ v["J"] = j /\ v["L"] = l /\ v["d"] = d

FieldIs(s, q, k, n) ==
    /\ FieldAt(s, q, k, 1) /\ ~IsDigit(s[k + 1 + 1]) /\ s[k + 1] = Byte(n) /\ k + 1 <= Len(s)

LEMMA GeneralFieldRead ==
  ASSUME NEW s, s \in Seq(Plain), NEW data, Short(data, s), Fields(data, GeneralFields) # <<>>,
         NEW q, q \in {"X", "J", "L", "d"}, NEW k, k \in Nat, NEW n, n \in 0..9, FieldIs(s, q, k, n)
  PROVE  Fields(data, GeneralFields)[1][q] = n
<1>1. q \in DOMAIN GeneralFields /\ GeneralFields[q] = 1
  BY DEF GeneralFields
<1>2. FieldAt(s, q, k, 1) /\ ~IsDigit(s[k + 1 + 1])
  BY DEF FieldIs
<1>3. Fields(data, GeneralFields)[1][q] = Number(Part(s, k, 1))
  BY <1>1, <1>2, FieldRead
<1>4. k + 1 <= Len(s) /\ s[k + 1] = Byte(n)
  BY DEF FieldIs
<1>5. Number(Part(s, k, 1)) = n
  BY <1>4, DigitPart
<1> QED
  BY <1>3, <1>5

LEMMA GeneralRead ==
  ASSUME NEW s, NEW x \in 0..9, NEW j \in 0..9, NEW l \in 0..9, NEW d \in 0..9, NEW f \in 0..9,
         GeneralAnswer(s, Byte(x), Byte(j), Byte(l), Byte(d), Byte(f)),
         NEW data, Short(data, s), Fields(data, GeneralFields) # <<>>
  PROVE  GeneralIs(Fields(data, GeneralFields)[1], x, j, l, d)
<1>1. /\ FieldAt(s, "X", 1, 1) /\ ~IsDigit(s[1 + 1 + 1])
      /\ FieldAt(s, "J", 3, 1) /\ ~IsDigit(s[3 + 1 + 1])
      /\ FieldAt(s, "L", 5, 1) /\ ~IsDigit(s[5 + 1 + 1])
      /\ FieldAt(s, "d", 7, 1) /\ ~IsDigit(s[7 + 1 + 1])
  BY ByteValue, GeneralFieldsAt
<1>2. s \in Seq(Plain) /\ Len(s) >= 10 /\ Len(s) \in Nat
  BY DEF GeneralAnswer
<1>3. /\ s[1 + 1] = Byte(x) /\ s[3 + 1] = Byte(j) /\ s[5 + 1] = Byte(l) /\ s[7 + 1] = Byte(d)
  BY DEF GeneralAnswer
<1>4. PICK v : v = Fields(data, GeneralFields)[1]
  OBVIOUS
<1>6. v["X"] = x
  <2>1. FieldIs(s, "X", 1, x)
    BY <1>1, <1>2, <1>3 DEF FieldIs
  <2>2. 1 \in Nat
    OBVIOUS
  <2> QED
    BY <1>2, <1>4, <2>1, <2>2, GeneralFieldRead
<1>7. v["J"] = j
  <2>1. FieldIs(s, "J", 3, j)
    BY <1>1, <1>2, <1>3 DEF FieldIs
  <2>2. 3 \in Nat
    OBVIOUS
  <2> QED
    BY <1>2, <1>4, <2>1, <2>2, GeneralFieldRead
<1>8. v["L"] = l
  <2>1. FieldIs(s, "L", 5, l)
    BY <1>1, <1>2, <1>3 DEF FieldIs
  <2>2. 5 \in Nat
    OBVIOUS
  <2> QED
    BY <1>2, <1>4, <2>1, <2>2, GeneralFieldRead
<1>9. v["d"] = d
  <2>1. FieldIs(s, "d", 7, d)
    BY <1>1, <1>2, <1>3 DEF FieldIs
  <2>2. 7 \in Nat
    OBVIOUS
  <2> QED
    BY <1>2, <1>4, <2>1, <2>2, GeneralFieldRead
<1> QED
  BY <1>4, <1>6, <1>7, <1>8, <1>9 DEF GeneralIs

LEMMA GeneralShows ==
  ASSUME NEW r, IsRadio(r), NEW data, Short(data, Answer(r, InquiryEncode("GeneralStatus"))),
         Decode("GeneralStatus", data) # <<>>
  PROVE  Shows(Decode("GeneralStatus", data)[1], r)
<1>1. PICK s : s = Answer(r, InquiryEncode("GeneralStatus"))
  OBVIOUS
<1>2. /\ r.text \in 0..1 /\ r.speaker \in 0..1 /\ r.lamp \in 0..3 /\ r.options \in 0..9 /\ r.hot \in 0..1
      /\ r.extra \in Seq(Digit) /\ Len(r.extra) <= 200
  BY PartsOf
<1>3. PICK x, j, l, d, f :
        x = r.text /\ j = r.speaker /\ l = r.lamp /\ d = r.options /\ f = r.hot
  OBVIOUS
<1>4. x \in 0..9 /\ j \in 0..9 /\ l \in 0..9 /\ d \in 0..9 /\ f \in 0..9
  BY <1>2, <1>3
<1>5. s = <<"X", Byte(x), "J", Byte(j), "L", Byte(l), "d", Byte(d), "F", Byte(f)>> \o r.extra
  BY <1>1, <1>3, AnswersAre
<1>6. \A n \in 0..9 : Byte(n) \in Plain
  BY ByteValue DEF Plain
<1>7. GeneralAnswer(s, Byte(x), Byte(j), Byte(l), Byte(d), Byte(f))
  BY <1>2, <1>4, <1>5, <1>6, GeneralAnswerIs
<1>8. Decode("GeneralStatus", data) = DecodeGeneral(data)
  BY DEF Decode
<1>9. Short(data, s) /\ Fields(data, GeneralFields) # <<>>
  BY <1>1, <1>8 DEF DecodeGeneral, GeneralFields
<1>10. PICK v : v = Fields(data, GeneralFields)[1]
  OBVIOUS
<1>11. v["X"] = x /\ v["J"] = j /\ v["L"] = l /\ v["d"] = d
  <2>1. GeneralIs(Fields(data, GeneralFields)[1], x, j, l, d)
    BY <1>4, <1>7, <1>9, GeneralRead
  <2> QED
    BY <1>10, <2>1 DEF GeneralIs
<1>12. PICK e : e = [text_mode |-> Name(TextMode, v.X)[1], speaker_on |-> v.J = 1,
                 lamp |-> Name(LampLevel, v.L)[1], overtemp |-> v.F = 1,
                 ebn30 |-> v.d \in {2, 6}, ebn400 |-> v.d \in {4, 6}]
  OBVIOUS
<1>13. DecodeGeneral(data) = <<e>>
  BY <1>8, <1>9, <1>10, <1>12 DEF DecodeGeneral, GeneralFields
<1>14. Shows(e, r)
  <2>1. DOMAIN e = {"text_mode", "speaker_on", "lamp", "overtemp", "ebn30", "ebn400"}
    BY <1>12
  <2>2. e["text_mode"] = View(r)["text_mode"]
    <3>1. e["text_mode"] = Name(TextMode, r.text)[1]
      BY Zenon, <1>3, <1>11, <1>12
    <3>2. View(r)["text_mode"] = <<"pt", "ct">>[r.text + 1]
      BY Zenon DEF View
    <3> QED
      BY <1>2, <3>1, <3>2, NamesAre
  <2>3. e["lamp"] = View(r)["lamp"]
    <3>1. e["lamp"] = Name(LampLevel, r.lamp)[1]
      BY Zenon, <1>3, <1>11, <1>12
    <3>2. View(r)["lamp"] = <<"off", "lo", "med", "hi">>[r.lamp + 1]
      BY Zenon DEF View
    <3> QED
      BY <1>2, <3>1, <3>2, NamesAre
  <2>4. e["speaker_on"] = View(r)["speaker_on"]
    <3>1. e["speaker_on"] = (v["J"] = 1)
      BY Zenon, <1>12
    <3>2. View(r)["speaker_on"] = (r.speaker = 1)
      BY Zenon DEF View
    <3>3. v["J"] = r.speaker
      BY <1>3, <1>11
    <3> QED
      BY Zenon, <3>1, <3>2, <3>3
  <2>5. e["ebn30"] = View(r)["ebn30"] /\ e["ebn400"] = View(r)["ebn400"]
    <3>1. e["ebn30"] = (v["d"] \in {2, 6}) /\ e["ebn400"] = (v["d"] \in {4, 6})
      BY Zenon, <1>12
    <3>2. View(r)["ebn30"] = (r.options \in {2, 6}) /\ View(r)["ebn400"] = (r.options \in {4, 6})
      BY Zenon DEF View
    <3>3. v["d"] = r.options
      BY <1>3, <1>11
    <3> QED
      BY Zenon, <3>1, <3>2, <3>3
  <2> QED
    BY <2>1, <2>2, <2>3, <2>4, <2>5 DEF Shows
<1> QED
  BY <1>8, <1>13, <1>14

Inquired == {"Rssi", "SquelchStatus", "GeneralStatus", "Mode", "PresetSnapshot", "SynthLock"}

(* An answer is plain bytes, and short enough to be framed.                *)
LEMMA PlainAnswers ==
  ASSUME NEW r, IsRadio(r), NEW inq \in Inquired
  PROVE  Answer(r, InquiryEncode(inq)) \in Seq(Plain) /\ Len(Answer(r, InquiryEncode(inq))) <= 256
<1>1. PICK s : s = Answer(r, InquiryEncode(inq))
  OBVIOUS
<1>2. CASE inq = "SynthLock"
  <2>1. s = <<"A", IF r.locked THEN "1" ELSE "0">>
    BY <1>1, <1>2, AnswersAre
  <2>2. s = <<"A", "0">> \/ s = <<"A", "1">>
    BY <2>1
  <2>3. s \in Seq(Plain)
    BY <2>2, PlainPairs
  <2>4. Len(s) = 2
    BY <2>2
  <2> QED
    BY <1>1, <2>3, <2>4
<1>3. CASE inq = "SquelchStatus"
  <2>1. s = <<"[", IF r.broken THEN "1" ELSE "0">>
    BY <1>1, <1>3, AnswersAre
  <2>2. s = <<"[", "0">> \/ s = <<"[", "1">>
    BY <2>1
  <2>3. s \in Seq(Plain)
    BY <2>2, PlainPairs
  <2>4. Len(s) = 2
    BY <2>2
  <2> QED
    BY <1>1, <2>3, <2>4
<1>4. CASE inq = "Mode"
  <2>1. s = IF r.mode = "beacon" THEN <<"*", "1">> ELSE <<"U", IF r.mode = "transmit" THEN "1" ELSE "0">>
    BY <1>1, <1>4, AnswersAre
  <2>2. s = <<"*", "1">> \/ s = <<"U", "0">> \/ s = <<"U", "1">>
    BY <2>1
  <2>3. s \in Seq(Plain)
    BY <2>2, PlainPairs
  <2>4. Len(s) = 2
    BY <2>2
  <2> QED
    BY <1>1, <2>3, <2>4
<1>5. CASE inq = "Rssi"
  <2>1. PICK n \in Nat : n = r.rssi /\ n <= 255
    <3>1. r.rssi \in 0..255
      BY PartsOf
    <3>2. r.rssi \in Nat /\ r.rssi <= 255
      BY <3>1, ByteRange
    <3> QED
      BY <3>2
  <2>2. n \in Nat /\ n < 10 * Worth[3]
    BY SMT, <2>1 DEF Worth
  <2>3. PICK x : x = Decimal(n, 3)
    OBVIOUS
  <2>4. x \in Seq(Plain) /\ Sized(x, 3)
    BY <2>2, <2>3, WrittenAndRead, PlainDigits DEF Sized
  <2>5. PICK N : N = <<"N">>
    OBVIOUS
  <2>6. N \in Seq(Plain) /\ Sized(N, 1)
    BY <2>5 DEF Plain, Sized
  <2>7. s = Join(N, x)
    BY <1>1, <1>5, <2>1, <2>3, <2>5, AnswersAre DEF Join
  <2>8. s \in Seq(Plain) /\ Sized(s, 1 + 3)
    BY <2>4, <2>6, <2>7, JoinedAt
  <2> QED
    BY <1>1, <2>8 DEF Sized
<1>6. CASE inq = "PresetSnapshot"
  <2>1. /\ r.ram.tx \in Hz /\ r.ram.rx \in Hz /\ r.ram.mod \in 0..9 /\ r.ram.modTx \in 0..9
        /\ r.ram.member \in 0..9 /\ r.preset \in 0..9 /\ r.ram.power \in 0..9
    BY PartsOf DEF Slot
  <2>2. PICK x, y : x = Decimal(r.ram.tx, 7) /\ y = Decimal(r.ram.rx, 7)
    OBVIOUS
  <2>3. x \in Seq(Plain) /\ y \in Seq(Plain) /\ Sized(x, 7) /\ Sized(y, 7)
    BY <2>1, <2>2, FrequencyWritten
  <2>4. \A d \in 0..9 : Byte(d) \in Plain
    BY ByteValue DEF Plain
  <2>5. s = <<"T">> \o x \o <<"R">> \o y
            \o <<"M", Byte(r.ram.mod), "N", Byte(r.ram.modTx), "C", Byte(r.ram.member),
                 "P", Byte(r.preset), "#", Byte(r.ram.power)>>
    BY <1>1, <1>6, <2>2, AnswersAre
  <2>6. PresetAnswer(s, x, y, Byte(r.ram.mod), Byte(r.ram.modTx), Byte(r.ram.member),
                     Byte(r.preset), Byte(r.ram.power))
    BY <2>1, <2>3, <2>4, <2>5, PresetAnswerIs
  <2> QED
    BY <1>1, <2>6 DEF PresetAnswer
<1>7. CASE inq = "GeneralStatus"
  <2>1. /\ r.text \in 0..9 /\ r.speaker \in 0..9 /\ r.lamp \in 0..9 /\ r.options \in 0..9
        /\ r.hot \in 0..9
        /\ r.extra \in Seq(Digit) /\ Len(r.extra) <= 200
    BY PartsOf
  <2>2. \A d \in 0..9 : Byte(d) \in Plain
    BY ByteValue DEF Plain
  <2>3. s = <<"X", Byte(r.text), "J", Byte(r.speaker), "L", Byte(r.lamp), "d", Byte(r.options),
              "F", Byte(r.hot)>> \o r.extra
    BY <1>1, <1>7, AnswersAre
  <2>4. GeneralAnswer(s, Byte(r.text), Byte(r.speaker), Byte(r.lamp), Byte(r.options), Byte(r.hot))
    BY <2>1, <2>2, <2>3, GeneralAnswerIs
  <2>5. s \in Seq(Plain) /\ Len(s) <= 210
    BY <2>4 DEF GeneralAnswer
  <2> QED
    BY SMT, <1>1, <2>5
<1> QED
  BY <1>2, <1>3, <1>4, <1>5, <1>6, <1>7 DEF Inquired

(* Whatever arrives of an answer, what is decoded of it is the radio's.    *)
LEMMA DecodedShows ==
  ASSUME NEW r, IsRadio(r), NEW inq \in Inquired, NEW end \in {"ACK", "HT"},
         NEW bytes \in Arrivals(Append(Answer(r, InquiryEncode(inq)), end)),
         FirstResponse(bytes) # <<>>, Telemetry(inq, FirstResponse(bytes)[1]) # <<>>
  PROVE  Shows(Telemetry(inq, FirstResponse(bytes)[1])[1], r)
<1>1. PICK resp : resp = FirstResponse(bytes)
  OBVIOUS
<1>2. PICK data : data = resp[1].data
  OBVIOUS
<1>3. resp[1].kind # "nak" /\ Telemetry(inq, resp[1]) = Decode(inq, data) /\ Decode(inq, data) # <<>>
  BY <1>1, <1>2 DEF Telemetry
<1>4. PICK answer : answer = Answer(r, InquiryEncode(inq))
  OBVIOUS
<1>5. answer \in Seq(Plain) /\ Len(answer) <= 256
  BY <1>4, PlainAnswers
<1>6. bytes \in Arrivals(Append(answer, end))
  BY <1>4
<1>7. Short(data, answer)
  BY <1>1, <1>2, <1>3, <1>5, <1>6, Arrived
<1>8. Shows(Decode(inq, data)[1], r)
  <2>1. Short(data, Answer(r, InquiryEncode(inq)))
    BY <1>4, <1>7
  <2> QED
    BY <1>3, <2>1, RssiShows, SquelchStatusShows, GeneralShows, ModeShows, PresetShows, SynthLockShows
       DEF Inquired
<1> QED
  BY <1>1, <1>3, <1>8

LEMMA PollShows ==
  ASSUME Inv, Poll
  PROVE  ShownIsTrue'
<1>1. PICK inq \in Inquired : Inquire(inq)
  BY DEF Poll, Inquired
<1>2. PICK end \in {"ACK", "HT"} :
        \E bytes \in Arrivals(Append(Answer(radio, InquiryEncode(inq)), end)) :
          LET resp == FirstResponse(bytes)
              ev   == IF resp = <<>> THEN <<>> ELSE Telemetry(inq, resp[1])
          IN  /\ ev # <<>>
              /\ page' = ev[1]
              /\ truth' = [f \in DOMAIN ev[1] |-> View(radio)[f]]
  BY <1>1 DEF Inquire
<1>3. PICK bytes \in Arrivals(Append(Answer(radio, InquiryEncode(inq)), end)) :
          LET resp == FirstResponse(bytes)
              ev   == IF resp = <<>> THEN <<>> ELSE Telemetry(inq, resp[1])
          IN  /\ ev # <<>>
              /\ page' = ev[1]
              /\ truth' = [f \in DOMAIN ev[1] |-> View(radio)[f]]
  BY <1>2
<1>4. PICK ev : ev = Telemetry(inq, FirstResponse(bytes)[1])
  OBVIOUS
<1>5. /\ FirstResponse(bytes) # <<>> /\ ev # <<>> /\ page' = ev[1]
      /\ truth' = [f \in DOMAIN ev[1] |-> View(radio)[f]]
  BY <1>3, <1>4
<1>6. IsRadio(radio)
  BY DEF Inv
<1>7. Shows(ev[1], radio)
  BY <1>4, <1>5, <1>6, DecodedShows
<1>8. \A f \in DOMAIN page' \ {"overtemp"} : page'[f] = truth'[f]
  BY <1>5, <1>7 DEF Shows
<1> QED
  BY <1>8 DEF ShownIsTrue

LEMMA BeginShows ==
  ASSUME ShownIsTrue, NEW route, NEW commands, NEW means, NEW tone,
         Begin(route, commands, means, tone)
  PROVE  ShownIsTrue'
<1>1. CASE commands = <<>>
  BY <1>1 DEF Begin, ShownIsTrue
<1>2. CASE commands # <<>>
  BY <1>2 DEF Begin, ShownIsTrue
<1> QED
  BY <1>1, <1>2

(* What a page shows was true when the radio answered: nothing that is     *)
(* lost of an answer makes it say another thing.                           *)
THEOREM DeskShownIsTrue == Spec => []ShownIsTrue
<1>1. Init => ShownIsTrue
  BY DEF Init, ShownIsTrue
<1>2. ASSUME Inv, ShownIsTrue, [Next]_vars PROVE ShownIsTrue'
  <2>1. CASE UNCHANGED <<page, truth>>
    BY <1>2, <2>1 DEF ShownIsTrue
  <2>2. CASE Ask
    BY <1>2, <2>2, BeginShows DEF Ask
  <2>3. CASE AskChannel
    BY <1>2, <2>3, BeginShows DEF AskChannel
  <2>4. CASE Poll
    BY <1>2, <2>4, PollShows
  <2>5. CASE Import \/ Obeyed \/ Refused \/ Unanswered \/ Couple \/ Finish \/ UNCHANGED vars
    BY <2>1, <2>5 DEF Import, Obeyed, Refused, Unanswered, Couple, Finish, vars
  <2> QED
    BY <1>2, <2>2, <2>3, <2>4, <2>5 DEF Next
<1> QED
  BY <1>1, <1>2, InitInv, NextInv, PTL DEF Spec
=============================================================================
