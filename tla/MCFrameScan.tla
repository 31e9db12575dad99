----------------------------- MODULE MCFrameScan -----------------------------
(* Packets for TLC: with the real sizes, headers at the offset of a 4-byte   *)
(* sync (0), of the 2-byte sync in use (2) and beyond (5), lengths around     *)
(* every place where a telegram can be cut, and the positions of failing     *)
(* blocks that the walk, the annex rule and the repair tell apart.           *)
EXTENDS FrameScan

\* One data byte; one and two whole blocks; the lengths the fleet sends
\* (55, 62, 94); the longest an indication takes and the first too long; the
\* longest the buffer takes; one no buffer takes.
MCLengths == {10, 25, 26, 41, 55, 62, 94, 96, 97, 104, 240}

\* Cuts: inside the header's CRC and block one, after a drain or two, at the
\* annex rule's minimum, and around the end of the telegram.
Cuts(L, off) ==
  {m \in {14, 32, 64, 96, 103, 104, 105, 128}
         \cup {off + FrameSize(L) + d : d \in {-3, -2, -1, 0, 1, 2}} :
     off + 11 < m /\ m <= 128}

BadPatterns(L) ==
  {{}, {0}, {1}, {2, 3}, {3, 4}, {4}, {4, 5}, {5}} \cup {{k} : k \in {Blocks(L) - 1}}

Sample(L) ==
  {[len |-> m, off |-> o, L |-> L, eie |-> e, bad |-> b, cure |-> c] :
     m \in UNION {Cuts(L, o) : o \in {0, 2, 5}}, o \in {0, 2, 5}, e \in {L \in {94, 104}, FALSE},
     b \in BadPatterns(L), c \in {"none", "single", "combined"}}

MCPackets ==
  {p \in UNION {Sample(L) : L \in MCLengths} : p.off + 11 < p.len}
=============================================================================
