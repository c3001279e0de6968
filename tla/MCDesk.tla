------------------------------- MODULE MCDesk -------------------------------
(* A desk to be checked: every word of every command route, once; tunes at *)
(* the edges of bands and steps; one file per profile.                     *)
EXTENDS Desk

OnOff == {"on", "off", "true", "false", "1", "0"}

Words == [lamp |-> DOMAIN Levels \union {"1", "2", "3"},
          power |-> (DOMAIN Levels \ {"off"}) \union {"0", "1", "2"}, text |-> DOMAIN Voices,
          speaker |-> OnOff, scan |-> OnOff, scan_list_member |-> OnOff,
          mod |-> {"am", "fm"}, mod_tx_only |-> {"am", "fm"}]

Buttons ==
    UNION {{[route |-> r, word |-> w] : w \in Words[r] \union {"usb"}} : r \in WordRoutes}
    \union {[route |-> "preset", n |-> n] : n \in {0, 7, 9, 10}}
    \union {[route |-> "squelch", n |-> n] : n \in {0, 128, 255, 256}}
    \union {[route |-> "store"]}

\* RX, TX, step, mode, target; the second list is refused.
Tunes ==
    {[route |-> "tune", rx |-> t[1], tx |-> t[2], step |-> t[3], mode |-> t[4], target |-> t[5]] :
     t \in {<<1150000, 1739950, "", "fm", <<>>>>, <<1285125, 1285375, "12.5k", "am", <<>>>>,
            <<3999950, 2250000, "5k", "", <<3>>>>, <<300000, 900000, "25k", "fm", <<0>>>>,
            <<4000000, 4200000, "25k", "", <<>>>>, <<300125, 300250, "12_5k", "fm", <<>>>>,
            <<1285125, 1285125, "", "am", <<>>>>, <<300000, 300000, "5k", "fm", <<>>>>,
            <<1460000, 4100000, "25k", "fm", <<>>>>, <<1460000, 1460000, "8.33k", "am", <<>>>>,
            <<1460000, 1460000, "25k", "usb", <<>>>>, <<1460000, 1460000, "25k", "fm", <<10>>>>,
            <<1000000, 1460000, "25k", "fm", <<>>>>, <<1999950, 1999950, "5k", "fm", <<>>>>}}

MCRequests == Buttons \union Tunes

W(w) == [w |-> w]
V(v) == [v |-> v]

\* What the rows below say; a name that is missing there is no channel.
Says(rx, tx) == [rx |-> rx, tx |-> tx]
InMode(mode, tone) == [mode |-> mode, ctcss |-> tone]

MCMeant ==
    [nco |-> Says(2550000, 2960000) @@ InMode(<<>>, <<>>), fire |-> Says(1541300, 1539500),
     rptr |-> Says(1466400, 1460400) @@ InMode(<<"fm">>, <<885>>),
     up |-> Says(1460000, 1466000) @@ InMode(<<"am">>, <<885>>),
     simp |-> Says(1465200, 1465200), odd |-> Says(1465200, 1459200),
     split |-> [rx |-> 1468800], rxonly |-> [rx |-> 1624000],
     ship |-> Says(1568000, 1568000) @@ InMode(<<"fm">>, <<>>),
     fine |-> Says(1285125, 1285125) @@ InMode(<<"am">>, <<300>>),
     low |-> Says(301000, 301000) @@ InMode(<<"fm">>, <<300>>), far |-> Says(1460000, 4460000)]

Satcom == [columns |-> {"name", "downlink", "uplink", "frequency", "duplex", "offset"},
    rows |-> <<("name" :> W("nco") @@ "downlink" :> V(2550000) @@ "uplink" :> V(2960000) @@
                "frequency" :> V(1) @@ "duplex" :> W("+") @@ "offset" :> V(1)),
               ("name" :> W("shf") @@ "downlink" :> W("SHF") @@ "uplink" :> V(2960000) @@
                "frequency" :> V(1) @@ "duplex" :> W("+") @@ "offset" :> V(1))>>]

Ham == [columns |-> {"name", "rx frequency", "transmit frequency", "mode", "step"},
    rows |-> <<("name" :> W("fire") @@ "rx frequency" :> V(1541300) @@
                "transmit frequency" :> V(1539500) @@ "mode" :> W("P25") @@ "step" :> V(50)),
               ("name" :> Blank @@ "rx frequency" :> V(1541300) @@
                "transmit frequency" :> V(1539500) @@ "mode" :> W("FM") @@ "step" :> V(50)),
               ("name" :> W("far") @@ "rx frequency" :> V(1460000) @@
                "transmit frequency" :> V(4460000) @@ "mode" :> W("FM") @@ "step" :> V(50))>>]

ChirpRow(name, f, dup, off, mode) ==
    "name" :> W(name) @@ "frequency" :> V(f) @@ "duplex" :> W(dup) @@ "offset" :> off @@
    "mode" :> W(mode) @@ "rtonefreq" :> V(885)

Chirp == [columns |-> {"name", "frequency", "duplex", "offset", "mode", "rtonefreq"},
    rows |-> <<ChirpRow("rptr", 1466400, "-", V(6000), "NFM"),
               ChirpRow("up", 1460000, "+", V(6000), "AM"),
               ChirpRow("simp", 1465200, "", V(6000), "DV"),
               ChirpRow("odd", 1465200, "+", V(-6000), "FM"),
               ChirpRow("split", 1468800, "split", V(1462800), "FM"),
               ChirpRow("rxonly", 1624000, "off", Blank, "FM")>>]

Canonical == [columns |-> {"name", "rx_mhz", "tx", "mode", "step_khz", "tone"},
    rows |-> <<("name" :> W("ship") @@ "rx_mhz" :> V(1568000) @@ "tx" :> V(1568000) @@
                "mode" :> W("FM/AM") @@ "step_khz" :> V(250) @@ "tone" :> W("none")),
               ("name" :> W("fine") @@ "rx_mhz" :> V(1285125) @@ "tx" :> V(1285125) @@
                "mode" :> W("AM") @@ "step_khz" :> V(125) @@ "tone" :> V(300)),
               ("name" :> W("low") @@ "rx_mhz" :> V(301000) @@ "tx" :> V(301000) @@
                "mode" :> W("FM") @@ "step_khz" :> Blank @@ "tone" :> V(300))>>]

Unknown == [columns |-> {"name", "frequency"}, rows |-> <<>>]

MCFiles == {Satcom, Ham, Chirp, Canonical, Unknown}

MCAmbients ==
    {[mode |-> "receive", rssi |-> 7, broken |-> FALSE, locked |-> TRUE, hot |-> 0, options |-> 2,
      extra |-> <<"1", "0", "0">>],
     [mode |-> "beacon", rssi |-> 255, broken |-> TRUE, locked |-> FALSE, hot |-> 1, options |-> 4,
      extra |-> <<"0", "0", "0">>]}
=============================================================================
