----------------------------- MODULE MCWebRadio ------------------------------
(* WebRadio for TLC: the map's frequency, one whose K is rounded up to 2^20,  *)
(* one of another band, one out of range; the page's own channel byte.           *)
EXTENDS WebRadio

MCFreq == {868950000, 870999997, 433920000, 90000000}
MCChannel == {0}

\* The band the recorder listens on, alone.
MCBand == {868950000}
=============================================================================
