---------------------------- MODULE MCTuneFunnel ----------------------------
(* An instance of TuneFunnel for TLC: two slots, the last one the scratch  *)
(* slot; x can be tuned through the funnel, y only by the scanner, which   *)
(* finds its TX frequency out of band after R.                             *)
EXTENDS TuneFunnel, TLC

CONSTANTS h1, h2, x, y

MCSlots    == 0..1
MCChannels == {x, y}
Pure(c)    == [rx |-> c, tx |-> c, mode |-> c]
MCFactory  == 0 :> Pure(y) @@ 1 :> Pure(x)
Symmetry   == Permutations({h1, h2})
=============================================================================
