---------------------------- MODULE MCSharedState ----------------------------
(* SharedState for TLC: a channel without a tone, and one with the tone that a CSV file may *)
(* have and the mixer refuses.                                                              *)
EXTENDS SharedState, TLC

CONSTANTS h1, h2, t1, tx

MCToneOf == [plain |-> NoTone, lowest |-> 300]
MCNames == DOMAIN MCToneOf
MCFiles == {<<"plain", "lowest">>, <<"lowest">>}
MCTones == {NoTone, 1000}
Symmetry == Permutations(Handlers)
=============================================================================
