---------------------------------- MODULE Pll ----------------------------------
(***************************************************************************)
(* The arithmetic of setFrequencyHz: band table, choice of the divider,    *)
(* and the word N + K / 2^20 that goes into four registers.  The real      *)
(* numbers of the code; the products of 64 bits are reduced by the common  *)
(* factor 2^7 of the reference and 2^20, so that they fit TLC's integers   *)
(* (PllProofs.tla shows that nothing is lost).                             *)
(***************************************************************************)
EXTENDS Integers

kXtalHz    == 26000000
kMinFreqHz == 127000000
kMaxFreqHz == 1020000000
FractSteps == 1048576            \* 2^20, one more than the largest K
XtalPart   == 203125             \* kXtalHz / 2^7
StepPart   == 8192               \* FractSteps / 2^7
IfHz       == kXtalHz \div 92    \* the receiver's oscillator stands this much higher

Band(bank, divx, div, lo, hi) ==
  [vcoBank |-> bank, divxCode |-> divx, divider |-> div, loMinHz |-> lo, loMaxHz |-> hi]

kBands == {
  Band(4, 0,  2, 635000000, 1020000000),
  Band(0, 1,  3, 423000000,  680000000),
  Band(0, 3,  4, 318000000,  510000000),
  Band(0, 5,  6, 212000000,  340000000),
  Band(0, 2,  8, 159000000,  255000000),
  Band(0, 6, 12, 127000000,  170000000),
  Band(0, 4, 16,  80000000,  128000000)}

isFrequencySupported(freqHz) == kMinFreqHz <= freqHz /\ freqHz <= kMaxFreqHz

Covering(freqHz) == {b \in kBands : b.loMinHz <= freqHz /\ freqHz <= b.loMaxHz}

\* The bands overlap: the highest divider that covers the target.
pickBand(freqHz) ==
  CHOOSE b \in Covering(freqHz) : \A c \in Covering(freqHz) : c.divider <= b.divider

\* The fraction of a remainder in steps of 2^-20, rounded to the nearest:
\* from 0 to 2^20 inclusive.
Fraction(rem) ==
  (rem \div XtalPart) * StepPart
    + ((rem % XtalPart) * StepPart + XtalPart \div 2) \div XtalPart

\* Mutant of Word: the fraction is cut off instead of rounded, and its high
\* nibble with it.
WordCut(loHz, divider, code) ==
  LET num == loHz * divider IN
  [n |-> (num \div kXtalHz) % 256, k |-> Fraction(num % kXtalHz) % 65536, code |-> code]

\* Mutant of Word: K is not masked.
WordUnmasked(loHz, divider, code) ==
  LET num == loHz * divider IN
  [n |-> (num \div kXtalHz) % 256, k |-> Fraction(num % kXtalHz), code |-> code]

\* What program() packs: N, K and the three bits beside K's high nibble.
\* A K that was rounded up to 2^20 is masked to 0, and N stays.
Word(loHz, divider, code) ==
  LET num == loHz * divider IN
  [n |-> (num \div kXtalHz) % 256, k |-> Fraction(num % kXtalHz) % FractSteps, code |-> code]

rxWordOf(freqHz) == Word(freqHz + IfHz, pickBand(freqHz).divider, pickBand(freqHz).vcoBank)
txWordOf(freqHz) == Word(freqHz, pickBand(freqHz).divider, pickBand(freqHz).divxCode)

\* setChannel(ch): 0x1B, which holds the code and K's high nibble of the
\* first word.
Overwritten(word, ch) ==
  [n |-> word.n, k |-> (ch % 16) * 65536 + (word.k % 65536), code |-> ch \div 32]

------------------------------------------------------------------------------
(* What the chip makes of a word: LO = (N + K / 2^20) * 26 MHz / divider.  *)

FractionHz(k) ==
  (k \div StepPart) * XtalPart + ((k % StepPart) * XtalPart) \div StepPart
LoHz(word, divider) == (word.n * kXtalHz + FractionHz(word.k)) \div divider

\* The fraction rounds up to a whole reference period that N does not get.
LosesCarry(loHz, divider) == Fraction((loHz * divider) % kXtalHz) = FractSteps

\* The word puts the oscillator within half a step (of 24.8 Hz before the
\* divider) of where it should be; if the carry was lost, of one reference
\* period below.  LoHz itself rounds down to whole Hz.
Hits(word, loHz, divider) ==
  LET off == IF LosesCarry(loHz, divider) THEN kXtalHz ELSE 0
      miss == divider * (LoHz(word, divider) - loHz) + off
  IN  -(13 + 2 * divider) <= miss /\ miss <= 13 + 2 * divider
=============================================================================
