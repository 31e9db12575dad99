----------------------------- MODULE MCDongleLoop -----------------------------
(* The dongle for TLC: detection, configuration and an empty transmission;  *)
(* a transmit request cut off in its payload; one-millisecond windows.      *)
EXTENDS DongleLoop

MCByte     == {0, 1, 2, 3, 15, 165}
MCDetect   == <<165, 1, 15, 0>>
MCRequest  == {MCDetect, <<165, 1, 3, 0>>, <<165, 2, 1, 0>>}
MCNoConfig == {MCDetect, <<165, 2, 1, 0>>}
MCFragment == {<<165, 2, 1, 3>>}
MCInd      == {1}
MCText     == {3}
MCTiny     == {1}
=============================================================================
