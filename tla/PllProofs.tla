------------------------------- MODULE PllProofs -------------------------------
(***************************************************************************)
(* What setFrequencyHz relies on, for every frequency: some band covers    *)
(* it, the one picked keeps the VCO in its range, N fits its byte, and the *)
(* reduced products of Pll.tla are those of the code.                      *)
(***************************************************************************)
EXTENDS Pll, TLAPS

\* The numbers as equations: an interval between numerals of this size is
\* more than the provers take.
LEMMA Numbers ==
  /\ kXtalHz = 26000000 /\ XtalPart = 203125 /\ FractSteps = 1048576 /\ StepPart = 8192
  /\ kMinFreqHz = 127000000 /\ kMaxFreqHz = 1020000000 /\ IfHz = 282608
BY SMT DEF kXtalHz, XtalPart, FractSteps, StepPart, kMinFreqHz, kMaxFreqHz, IfHz

\* Intervals with a bound of such a size: in and out of them by name.
LEMMA IntoInterval == ASSUME NEW b \in Nat, NEW x \in Nat, x <= b PROVE x \in 0..b
BY SMT
LEMMA OutOfInterval == ASSUME NEW b \in Nat, NEW x \in 0..b PROVE x \in Nat /\ x <= b
BY SMT
LEMMA IntoRemainders == ASSUME NEW m \in Nat \ {0}, NEW x \in Nat PROVE x % m \in 0..(m - 1)
BY SMT
LEMMA StepsNat == FractSteps \in Nat \ {0} /\ FractSteps - 1 \in Nat
BY SMT, Numbers

\* A band is an element of the table with a divider and a code in range.
LEMMA BandTyped ==
  ASSUME NEW b \in kBands
  PROVE  /\ b.divider \in {2, 3, 4, 6, 8, 12, 16}
         /\ b.vcoBank \in 0..7 /\ b.divxCode \in 0..7
         /\ b.loMinHz \in Nat /\ b.loMaxHz \in Nat
BY SMT DEF kBands, Band

\* The bands leave no gap: of those that cover a supported frequency one has
\* the highest divider.
LEMMA HighestExists ==
  ASSUME NEW f \in Nat, isFrequencySupported(f)
  PROVE  \E b \in Covering(f) : \A c \in Covering(f) : c.divider <= b.divider
<1>1. CASE f <= 128000000
  <2>1. Band(0, 4, 16,  80000000,  128000000) \in Covering(f)
    BY SMT, <1>1 DEF isFrequencySupported, kMinFreqHz, kMaxFreqHz, Covering, kBands, Band
  <2>2. \A c \in Covering(f) : c.divider <= Band(0, 4, 16,  80000000,  128000000).divider
    BY SMT, <1>1 DEF Covering, kBands, Band
  <2> QED BY SMT, <2>1, <2>2
<1>2. CASE 128000000 < f /\ f <= 170000000
  <2>1. Band(0, 6, 12, 127000000,  170000000) \in Covering(f)
    BY SMT, <1>2 DEF isFrequencySupported, kMinFreqHz, kMaxFreqHz, Covering, kBands, Band
  <2>2. \A c \in Covering(f) : c.divider <= Band(0, 6, 12, 127000000,  170000000).divider
    BY SMT, <1>2 DEF Covering, kBands, Band
  <2> QED BY SMT, <2>1, <2>2
<1>3. CASE 170000000 < f /\ f <= 255000000
  <2>1. Band(0, 2,  8, 159000000,  255000000) \in Covering(f)
    BY SMT, <1>3 DEF isFrequencySupported, kMinFreqHz, kMaxFreqHz, Covering, kBands, Band
  <2>2. \A c \in Covering(f) : c.divider <= Band(0, 2,  8, 159000000,  255000000).divider
    BY SMT, <1>3 DEF Covering, kBands, Band
  <2> QED BY SMT, <2>1, <2>2
<1>4. CASE 255000000 < f /\ f <= 340000000
  <2>1. Band(0, 5,  6, 212000000,  340000000) \in Covering(f)
    BY SMT, <1>4 DEF isFrequencySupported, kMinFreqHz, kMaxFreqHz, Covering, kBands, Band
  <2>2. \A c \in Covering(f) : c.divider <= Band(0, 5,  6, 212000000,  340000000).divider
    BY SMT, <1>4 DEF Covering, kBands, Band
  <2> QED BY SMT, <2>1, <2>2
<1>5. CASE 340000000 < f /\ f <= 510000000
  <2>1. Band(0, 3,  4, 318000000,  510000000) \in Covering(f)
    BY SMT, <1>5 DEF isFrequencySupported, kMinFreqHz, kMaxFreqHz, Covering, kBands, Band
  <2>2. \A c \in Covering(f) : c.divider <= Band(0, 3,  4, 318000000,  510000000).divider
    BY SMT, <1>5 DEF Covering, kBands, Band
  <2> QED BY SMT, <2>1, <2>2
<1>6. CASE 510000000 < f /\ f <= 680000000
  <2>1. Band(0, 1,  3, 423000000,  680000000) \in Covering(f)
    BY SMT, <1>6 DEF isFrequencySupported, kMinFreqHz, kMaxFreqHz, Covering, kBands, Band
  <2>2. \A c \in Covering(f) : c.divider <= Band(0, 1,  3, 423000000,  680000000).divider
    BY SMT, <1>6 DEF Covering, kBands, Band
  <2> QED BY SMT, <2>1, <2>2
<1>7. CASE 680000000 < f
  <2>1. Band(4, 0,  2, 635000000, 1020000000) \in Covering(f)
    BY SMT, <1>7 DEF isFrequencySupported, kMinFreqHz, kMaxFreqHz, Covering, kBands, Band
  <2>2. \A c \in Covering(f) : c.divider <= Band(4, 0,  2, 635000000, 1020000000).divider
    BY SMT, <1>7 DEF Covering, kBands, Band
  <2> QED BY SMT, <2>1, <2>2
<1> QED BY SMT, <1>1, <1>2, <1>3, <1>4, <1>5, <1>6, <1>7

\* pickBand (cmt2300a_spi.cpp:405) never comes back empty-handed.
THEOREM PickedCovers ==
  ASSUME NEW f \in Nat, isFrequencySupported(f)
  PROVE  /\ pickBand(f) \in kBands
         /\ pickBand(f).loMinHz <= f /\ f <= pickBand(f).loMaxHz
         /\ \A c \in Covering(f) : c.divider <= pickBand(f).divider
<1> DEFINE P(b) == b \in Covering(f) /\ \A c \in Covering(f) : c.divider <= b.divider
<1>1. \E b : P(b)
  BY SMT, HighestExists
<1>2. P(CHOOSE b : P(b))
  BY SMT, <1>1
<1>3. pickBand(f) = CHOOSE b : P(b)
  BY SMT DEF pickBand
<1> QED BY SMT, <1>2, <1>3 DEF Covering

\* A band of the table that contains a frequency covers it, and the picked
\* divider is no lower than its own.
LEMMA NoLowerThan ==
  ASSUME NEW f \in Nat, isFrequencySupported(f),
         NEW b \in kBands, b.loMinHz <= f, f <= b.loMaxHz
  PROVE  b.divider <= pickBand(f).divider
BY SMT, PickedCovers DEF Covering

\* The VCO behind the divider runs between 1.36 and 2.048 GHz.
THEOREM VcoInRange ==
  ASSUME NEW f \in Nat, isFrequencySupported(f)
  PROVE  /\ 1360000000 < f * pickBand(f).divider
         /\ f * pickBand(f).divider <= 2048000000
<1> DEFINE b == pickBand(f)
<1>1. b \in kBands /\ b.loMinHz <= f /\ f <= b.loMaxHz
  BY SMT, PickedCovers
<1>2. f * b.divider <= 2048000000
  <2> HIDE DEF b
  <2> QED BY SMT, <1>1 DEF kBands, Band
<1>3. 423000000 <= f /\ f <= 680000000 => 3 <= b.divider
  BY SMT, NoLowerThan DEF kBands, Band
<1>4. 318000000 <= f /\ f <= 510000000 => 4 <= b.divider
  BY SMT, NoLowerThan DEF kBands, Band
<1>5. 212000000 <= f /\ f <= 340000000 => 6 <= b.divider
  BY SMT, NoLowerThan DEF kBands, Band
<1>6. 159000000 <= f /\ f <= 255000000 => 8 <= b.divider
  BY SMT, NoLowerThan DEF kBands, Band
<1>7. 127000000 <= f /\ f <= 170000000 => 12 <= b.divider
  BY SMT, NoLowerThan DEF kBands, Band
<1>8. 127000000 <= f
  BY SMT DEF isFrequencySupported, kMinFreqHz
<1>9. 1360000000 < f * b.divider
  <2> HIDE DEF b
  <2> QED BY SMT, <1>1, <1>3, <1>4, <1>5, <1>6, <1>7, <1>8 DEF kBands, Band
<1> QED BY SMT, <1>2, <1>9

\* N of either word fits its byte without the mask.
THEOREM NFits ==
  ASSUME NEW f \in Nat, isFrequencySupported(f)
  PROVE  /\ txWordOf(f).n = (f * pickBand(f).divider) \div kXtalHz
         /\ rxWordOf(f).n = ((f + IfHz) * pickBand(f).divider) \div kXtalHz
<1> DEFINE d == pickBand(f).divider
<1>1. d \in {2, 3, 4, 6, 8, 12, 16}
  BY SMT, PickedCovers, BandTyped
<1>2. 1360000000 < f * d /\ f * d <= 2048000000
  BY SMT, VcoInRange
<1>3. txWordOf(f).n = ((f * d) \div kXtalHz) % 256 /\ rxWordOf(f).n = (((f + IfHz) * d) \div kXtalHz) % 256
  BY SMT DEF txWordOf, rxWordOf, Word
<1> HIDE DEF d
<1>4. (f * d) \div kXtalHz \in 0..255
  BY SMT, <1>1, <1>2 DEF kXtalHz
<1>5. ((f + IfHz) * d) \div kXtalHz \in 0..255
  BY SMT, <1>1, <1>2 DEF kXtalHz, IfHz
<1>6. \A x \in 0..255 : x % 256 = x
  BY SMT
<1> QED BY SMT, <1>3, <1>4, <1>5, <1>6 DEF d

\* K as the code computes it (cmt2300a_spi.cpp:434): rem shifted by 20 bits,
\* half a divisor added, divided by the reference.  It reaches 2^20.
THEOREM FractionExact ==
  ASSUME NEW rem \in Nat, rem < kXtalHz
  PROVE  /\ Fraction(rem) = (rem * FractSteps + kXtalHz \div 2) \div kXtalHz
         /\ Fraction(rem) \in Nat
         /\ Fraction(rem) <= FractSteps
<1> DEFINE q == rem \div 203125
           r == rem % 203125
<1>1. /\ q \in Nat /\ q <= 127 /\ r \in Nat /\ r <= 203124
      /\ rem = q * 203125 + r
  BY SMT DEF kXtalHz
<1>2. Fraction(rem) = q * 8192 + (r * 8192 + 101562) \div 203125
  BY SMT DEF Fraction, XtalPart, StepPart
<1> HIDE DEF q, r
<1>3. (r * 8192 + 101562) \div 203125 \in Nat /\ (r * 8192 + 101562) \div 203125 <= 8192
  BY SMT, <1>1
<1>4. (rem * 1048576 + 13000000) \div 26000000 = q * 8192 + (r * 8192 + 101562) \div 203125
  BY SMT, <1>1
<1>5. (rem * FractSteps + kXtalHz \div 2) \div kXtalHz = (rem * 1048576 + 13000000) \div 26000000
  BY SMT DEF FractSteps, kXtalHz
<1>6. Fraction(rem) \in Nat /\ Fraction(rem) <= 1048576
  BY SMT, <1>1, <1>2, <1>3
<1> QED BY SMT, <1>2, <1>4, <1>5, <1>6, Numbers

Words == [n : 0..255, k : 0..(FractSteps - 1), code : 0..7]

\* A word has its type, whatever the frequency.
LEMMA WordTyped ==
  ASSUME NEW lo \in Nat, NEW d \in Nat, NEW c \in 0..7
  PROVE  Word(lo, d, c) \in Words
<1> DEFINE num == lo * d
           rem == num % kXtalHz
<1>1. num \in Nat
  BY SMT
<1> HIDE DEF num
<1>2. rem \in Nat /\ rem < kXtalHz /\ num \div kXtalHz \in Nat
  BY SMT, <1>1 DEF kXtalHz
<1> HIDE DEF rem
<1>3. Fraction(rem) \in Nat
  BY <1>2, FractionExact
<1>4. (num \div kXtalHz) % 256 \in 0..255
  BY SMT, <1>2
<1>5. Fraction(rem) % FractSteps \in 0..(FractSteps - 1)
  BY <1>3, StepsNat, IntoRemainders
<1>6. Word(lo, d, c) = [n |-> (num \div kXtalHz) % 256, k |-> Fraction(rem) % FractSteps, code |-> c]
  BY Zenon DEF Word, num, rem
<1> DEFINE a == (num \div kXtalHz) % 256
           e == Fraction(rem) % FractSteps
<1> HIDE DEF a, e
<1>7. a \in 0..255 /\ e \in 0..(FractSteps - 1)
  BY <1>4, <1>5 DEF a, e
<1>8. [n |-> a, k |-> e, code |-> c] \in Words
  BY <1>7 DEF Words
<1> QED BY <1>6, <1>8 DEF a, e

LEMMA WordsTyped ==
  ASSUME NEW f \in Nat, isFrequencySupported(f)
  PROVE  rxWordOf(f) \in Words /\ txWordOf(f) \in Words
<1> DEFINE b == pickBand(f)
<1>1. b.divider \in Nat /\ b.vcoBank \in 0..7 /\ b.divxCode \in 0..7
  BY SMT, PickedCovers, BandTyped
<1>2. f + IfHz \in Nat
  BY SMT, Numbers
<1> HIDE DEF b
<1>3. Word(f + IfHz, b.divider, b.vcoBank) \in Words /\ Word(f, b.divider, b.divxCode) \in Words
  BY <1>1, <1>2, WordTyped
<1> QED BY <1>3 DEF rxWordOf, txWordOf, b

\* setChannel leaves a word a word.
LEMMA OverwrittenTyped ==
  ASSUME NEW w \in Words, NEW c \in 0..255
  PROVE  Overwritten(w, c) \in Words
<1> DEFINE high == (c % 16) * 65536 + (w.k % 65536)
           code == c \div 32
<1>1. w.n \in 0..255 /\ w.k \in 0..(FractSteps - 1)
  BY DEF Words
<1>2. w.k \in Nat
  BY <1>1, StepsNat, OutOfInterval
<1>3. high \in Nat /\ high <= 1048575
  BY SMT, <1>2
<1>4. code \in 0..7
  BY SMT
<1>5. Overwritten(w, c) = [n |-> w.n, k |-> high, code |-> code]
  BY DEF Overwritten
<1> HIDE DEF high, code
<1>6. high <= FractSteps - 1
  BY SMT, <1>3, Numbers
<1>7. high \in 0..(FractSteps - 1)
  BY <1>3, <1>6, StepsNat, IntoInterval
<1>8. [n |-> w.n, k |-> high, code |-> code] \in Words
  BY <1>1, <1>4, <1>7 DEF Words
<1> QED BY <1>5, <1>8

\* The words of the register map (main.cpp:893) are words.
LEMMA MapWordTyped ==
  ASSUME NEW a \in 0..255, NEW k \in Nat, k < FractSteps, NEW c \in 0..7
  PROVE  [n |-> a, k |-> k, code |-> c] \in Words
<1>1. k <= FractSteps - 1
  BY SMT, StepsNat
<1>2. k \in 0..(FractSteps - 1)
  BY <1>1, StepsNat, IntoInterval
<1> QED BY <1>2 DEF Words

\* What a fraction gives back (26 MHz / 2^20 is a step of 24.8 Hz): it misses
\* the remainder by half a step and a rounding; only where the K was rounded up
\* to 2^20, and masked to 0, it misses it whole.
LEMMA FractionNear ==
  ASSUME NEW rem \in Nat, rem < kXtalHz
  PROVE  LET k == Fraction(rem) % FractSteps IN
         /\ FractionHz(k) \in Nat
         /\ Fraction(rem) = FractSteps => FractionHz(k) = 0 /\ kXtalHz - rem \in 0..13
         /\ Fraction(rem) # FractSteps => FractionHz(k) - rem \in -13..13
<1> DEFINE q == rem \div 203125
           r == rem % 203125
           t == (r * 8192 + 101562) \div 203125
<1>1. /\ q \in Nat /\ q <= 127 /\ r \in Nat /\ r <= 203124
      /\ rem = q * 203125 + r
  BY SMT DEF kXtalHz
<1>2. Fraction(rem) = q * 8192 + t
  BY SMT DEF Fraction, XtalPart, StepPart
<1> HIDE DEF q, r
<1>3. /\ t \in Nat /\ t <= 8192
      /\ 203125 * t <= 8192 * r + 101562 /\ 8192 * r + 101562 < 203125 * t + 203125
  BY SMT, <1>1
<1> HIDE DEF t
<1>4. CASE t < 8192
  <2>1. Fraction(rem) < 1048576 /\ Fraction(rem) % 1048576 = q * 8192 + t
    BY SMT, <1>1, <1>2, <1>3, <1>4
  <2>2. (q * 8192 + t) \div 8192 = q /\ (q * 8192 + t) % 8192 = t
    BY SMT, <1>1, <1>3, <1>4
  <2>3. FractionHz(q * 8192 + t) = q * 203125 + (t * 203125) \div 8192
    BY SMT, <2>2 DEF FractionHz, StepPart, XtalPart
  <2>4. (t * 203125) \div 8192 \in Nat /\ (t * 203125) \div 8192 - r \in -13..13
    BY SMT, <1>1, <1>3
  <2> QED BY SMT, <1>1, <2>1, <2>3, <2>4, Numbers
<1>5. CASE t = 8192 /\ q < 127
  <2>1. Fraction(rem) < 1048576 /\ Fraction(rem) % 1048576 = (q + 1) * 8192
    BY SMT, <1>1, <1>2, <1>5
  <2>2. ((q + 1) * 8192) \div 8192 = q + 1 /\ ((q + 1) * 8192) % 8192 = 0
    BY SMT, <1>1
  <2>3. FractionHz((q + 1) * 8192) = (q + 1) * 203125
    BY SMT, <1>1, <2>2 DEF FractionHz, StepPart, XtalPart
  <2>4. (q + 1) * 203125 - rem \in -13..13 /\ (q + 1) * 203125 \in Nat
    BY SMT, <1>1, <1>3, <1>5
  <2> QED BY SMT, <2>1, <2>3, <2>4, Numbers
<1>6. CASE t = 8192 /\ q = 127
  <2>1. Fraction(rem) = 1048576 /\ Fraction(rem) % 1048576 = 0
    BY SMT, <1>2, <1>6
  <2>2. FractionHz(0) = 0
    BY SMT DEF FractionHz, StepPart, XtalPart
  <2>3. 26000000 - rem \in 0..13
    BY SMT, <1>1, <1>3, <1>6
  <2> QED BY SMT, <2>1, <2>2, <2>3, Numbers
<1> QED BY SMT, <1>1, <1>3, <1>4, <1>5, <1>6

\* A division by one of the dividers loses less than the divider.
LEMMA DividedNear ==
  ASSUME NEW d \in {2, 3, 4, 6, 8, 12, 16}, NEW x \in Nat
  PROVE  x \div d \in Nat /\ d * (x \div d) <= x /\ x < d * (x \div d) + d
<1>1. d = 2 \/ d = 3 \/ d = 4 \/ d = 6 \/ d = 8 \/ d = 12 \/ d = 16
  BY SMT
<1> QED BY SMT, <1>1

\* Any word with N in its byte puts the oscillator where it belongs.
LEMMA WordHits ==
  ASSUME NEW lo \in Nat, NEW d \in {2, 3, 4, 6, 8, 12, 16}, NEW w,
         w.n = (lo * d) \div kXtalHz,
         w.k = Fraction((lo * d) % kXtalHz) % FractSteps
  PROVE  Hits(w, lo, d)
<1> DEFINE num == lo * d
           rem == num % kXtalHz
           whole == num \div kXtalHz
           back == FractionHz(w.k)
           hz == LoHz(w, d)
<1>1. num \in Nat
  BY SMT
<1> HIDE DEF num
<1>2. /\ rem \in Nat /\ rem < kXtalHz /\ whole \in Nat
      /\ num = whole * kXtalHz + rem
  BY SMT, <1>1 DEF kXtalHz
<1> HIDE DEF rem, whole
<1>3. w.n = whole /\ w.k = Fraction(rem) % FractSteps
  BY DEF whole, rem, num
<1>4. /\ back \in Nat
      /\ Fraction(rem) = FractSteps => back = 0 /\ kXtalHz - rem \in 0..13
      /\ Fraction(rem) # FractSteps => back - rem \in -13..13
  BY <1>2, <1>3, FractionNear
<1> HIDE DEF back
<1>5. hz = (whole * kXtalHz + back) \div d
  BY <1>3 DEF LoHz, back
<1>6. whole * kXtalHz + back \in Nat
  BY SMT, <1>2, <1>4, Numbers
<1>7. hz \in Nat /\ d * hz <= whole * kXtalHz + back /\ whole * kXtalHz + back < d * hz + d
  BY <1>5, <1>6, DividedNear
<1> HIDE DEF hz
<1>8. d * (hz - lo) = d * hz - num
  BY SMT, <1>7 DEF num
<1>9. LosesCarry(lo, d) <=> Fraction(rem) = FractSteps
  BY DEF LosesCarry, rem, num
<1>10. CASE Fraction(rem) = FractSteps
  <2>1. -(13 + 2 * d) <= d * (hz - lo) + kXtalHz /\ d * (hz - lo) + kXtalHz <= 13 + 2 * d
    BY SMT, <1>1, <1>2, <1>4, <1>7, <1>8, <1>10, Numbers
  <2> QED BY SMT, <2>1, <1>9, <1>10 DEF Hits, hz
<1>11. CASE Fraction(rem) # FractSteps
  <2>1. -(13 + 2 * d) <= d * (hz - lo) + 0 /\ d * (hz - lo) + 0 <= 13 + 2 * d
    BY SMT, <1>1, <1>2, <1>4, <1>7, <1>8, <1>11, Numbers
  <2> QED BY SMT, <2>1, <1>9, <1>11 DEF Hits, hz
<1> QED BY <1>10, <1>11

\* setFrequencyHz tunes both synthesizers to within a step, for every
\* frequency it accepts - or, where the rounded K overflows, to one reference
\* period (26 MHz before the divider) below (cmt2300a_spi.cpp:434).
THEOREM TunedWithinAStep ==
  ASSUME NEW f \in Nat, isFrequencySupported(f)
  PROVE  /\ Hits(txWordOf(f), f, pickBand(f).divider)
         /\ Hits(rxWordOf(f), f + IfHz, pickBand(f).divider)
<1> DEFINE d == pickBand(f).divider
<1>1. d \in {2, 3, 4, 6, 8, 12, 16}
  BY SMT, PickedCovers, BandTyped
<1>2. f + IfHz \in Nat
  BY SMT, Numbers
<1>3. /\ txWordOf(f).n = (f * d) \div kXtalHz
      /\ rxWordOf(f).n = ((f + IfHz) * d) \div kXtalHz
  BY NFits
<1>4. /\ txWordOf(f).k = Fraction((f * d) % kXtalHz) % FractSteps
      /\ rxWordOf(f).k = Fraction(((f + IfHz) * d) % kXtalHz) % FractSteps
  BY DEF txWordOf, rxWordOf, Word
<1> HIDE DEF d
<1>5. Hits(txWordOf(f), f, d) /\ Hits(rxWordOf(f), f + IfHz, d)
  BY <1>1, <1>2, <1>3, <1>4, WordHits
<1> QED BY <1>5 DEF d
=============================================================================
