--------------------------- MODULE RxAssemblyProofs ---------------------------
(***************************************************************************)
(* Proofs about RxAssembly: the buffers hold whatever the air brings, no   *)
(* assembly is handed over twice, and of a telegram that lost nothing on   *)
(* its way all is handed over.                                             *)
(***************************************************************************)
EXTENDS RxAssembly, TLAPS

\* asmBuf was filled within bounds, and so was the packet handed over.
Bounded == TypeOK /\ handed.len <= Buf

\* What is left in asmBuf after PKT_DONE stays there unseen: until a sync
\* starts the assembly over no packet is going on, and none has ended.
Leftover == ~fresh /\ ~cut /\ asmLen > 0

ReplayInv ==
  /\ asmActive = fresh
  \* a packet that ends before the loop has seen the sync of the one that is
  \* already coming in was drained of nothing
  /\ pktDone /\ receiving /\ ~syncOk =>
       asmLen = 0 /\ hi /\ pc \in {"drain", "end"}
  /\ Leftover /\ ~syncOk => ~receiving /\ ~pktDone
  /\ Leftover /\ pc \in {"drain", "end"} => ~hi
  /\ hi /\ pc \in {"drain", "end"} /\ receiving /\ ~syncOk => asmLen = 0
  /\ NoReplay

------------------------------------------------------------------------------
\* The sizes are numbers.
LEMMA Sizes ==
  ASSUME AssemblyAssumption
  PROVE  /\ Fifo \in Nat /\ Drain \in Nat /\ DrainCap \in Nat /\ Buf \in Nat /\ RestMax \in Nat
         /\ Fallback \in Nat /\ Lump \in Nat /\ Counter \in Nat
BY DEF AssemblyAssumption

\* The need is a number and never more than the buffer; garbage is capped.
LEMMA NeedBounded ==
  ASSUME AssemblyAssumption, TypeOK, NEW default \in Nat
  PROVE  Need(default) \in Int /\ Need(default) <= Buf
<1> DEFINE n == IF asmLen > 0 /\ head.form \in {"prefix", "plain"} THEN Size(head) ELSE default
<1>1. head.L \in Int
  BY DEF AssemblyAssumption, TypeOK, Silence
<1>2. FrameSize(head.L) \in Int
  BY <1>1 DEF FrameSize
<1>3. Size(head) \in Int
  BY <1>2 DEF Size
<1>4. n \in Int
  BY <1>3
<1>5. Buf \in Nat
  BY DEF AssemblyAssumption
<1>6. SmallerOf(n, Buf) \in Int /\ SmallerOf(n, Buf) <= Buf
  BY <1>4, <1>5 DEF SmallerOf
<1> QED BY <1>6 DEF Need

\* A drain and the final read stay inside asmBuf and the read buffer.
LEMMA ReadsFit ==
  ASSUME AssemblyAssumption, TypeOK
  PROVE  /\ Room \in Nat /\ Room <= RestMax /\ asmLen + Room <= Buf
         /\ Rest \in Nat /\ Rest <= RestMax /\ asmLen + Rest <= Buf
<1>1. {Drain, DrainCap, Buf, RestMax, Fallback} \subseteq Nat /\ Drain <= RestMax
  BY DEF AssemblyAssumption
<1>2. asmLen \in 0..Buf
  BY DEF TypeOK
<1>3. Room \in Nat /\ Room <= RestMax /\ asmLen + Room <= Buf
  <2> DEFINE need == Need(DrainCap)
  <2>1. need \in Int /\ need <= Buf
    BY <1>1, NeedBounded
  <2> HIDE DEF need
  <2>2. Room = SmallerOf(IF need > asmLen THEN need - asmLen ELSE 0, Drain)
    BY DEF Room, need
  <2> QED BY <1>1, <1>2, <2>1, <2>2 DEF SmallerOf
<1>4. Rest \in Nat /\ Rest <= RestMax /\ asmLen + Rest <= Buf
  <2> DEFINE need == Need(Fallback)
  <2>1. need \in Int /\ need <= Buf
    BY <1>1, NeedBounded
  <2> HIDE DEF need
  <2>2. Rest = IF need > asmLen /\ need - asmLen <= RestMax THEN need - asmLen ELSE 0
    BY DEF Rest, need
  <2> QED BY <1>1, <1>2, <2>1, <2>2
<1> QED BY <1>3, <1>4

\* Reading the FIFO leaves it a level it can have.
LEMMA ReadFifoKeeps ==
  ASSUME AssemblyAssumption, TypeOK, NEW n \in Nat, ReadFifo(n)
  PROVE  level' \in 0..Fifo /\ intact' \in BOOLEAN
BY DEF AssemblyAssumption, TypeOK, ReadFifo

------------------------------------------------------------------------------
(* The bounds are inductive.  The types of the flags and those of the      *)
(* other variables are shown apart.                                        *)

FlagsTyped ==
  /\ hi \in BOOLEAN /\ asmActive \in BOOLEAN /\ receiving \in BOOLEAN
  /\ syncOk \in BOOLEAN /\ pktDone \in BOOLEAN /\ rxTmo \in BOOLEAN
  /\ intact \in BOOLEAN /\ fresh \in BOOLEAN /\ cut \in BOOLEAN

ValuesTyped ==
  /\ pc \in {"poll", "drain", "end", "scan"}
  /\ asmLen \in 0..Buf
  /\ head \in OnAir \cup {Silence} /\ air \in OnAir \cup {Silence}
  /\ handed.len \in Nat
  /\ count \in 0..Counter /\ level \in 0..Fifo

LEMMA TypeOKParts ==
  /\ TypeOK <=> FlagsTyped /\ ValuesTyped
  /\ TypeOK' <=> FlagsTyped' /\ ValuesTyped'
BY DEF TypeOK, FlagsTyped, ValuesTyped

LEMMA InitBounded == ASSUME AssemblyAssumption, Init PROVE Bounded
<1>1. FlagsTyped
  BY DEF Init, FlagsTyped
<1>2. ValuesTyped /\ handed.len <= Buf
  BY Sizes DEF Init, ValuesTyped, Nothing
<1> QED BY <1>1, <1>2, TypeOKParts DEF Bounded

LEMMA ChipBounded == ASSUME AssemblyAssumption, Bounded, Chip PROVE Bounded'
<1> USE DEF Bounded, TypeOK
<1>1. CASE Sync
  <2>1. FlagsTyped'
    BY <1>1 DEF Sync, loop, FlagsTyped
  <2>2. ValuesTyped' /\ handed'.len <= Buf
    BY <1>1, Sizes DEF Sync, loop, ValuesTyped
  <2> HIDE DEF TypeOK
  <2> QED BY <2>1, <2>2, TypeOKParts
<1>2. CASE Arrive
  <2> DEFINE n == SmallerOf(Lump, Counter - count)
  <2>1. {Lump, Counter, Fifo} \subseteq Nat
    BY DEF AssemblyAssumption
  <2>2. n \in Int /\ n <= Counter - count
    BY <2>1 DEF SmallerOf
  <2>3. /\ n > 0 /\ count' = count + n /\ level' = SmallerOf(level + n, Fifo)
        /\ intact' \in BOOLEAN
        /\ UNCHANGED <<loop, receiving, air, syncOk, pktDone, rxTmo, fresh, cut>>
    BY <1>2 DEF Arrive
  <2> HIDE DEF n
  <2>4. count' \in 0..Counter
    BY <2>1, <2>2, <2>3
  <2>5. level' \in 0..Fifo
    BY <2>1, <2>2, <2>3 DEF SmallerOf
  <2> QED BY <2>3, <2>4, <2>5 DEF loop
<1>3. CASE Complete
  BY <1>3 DEF Complete, loop, hist
<1>4. CASE Timeout
  BY <1>4 DEF Timeout, loop, hist
<1> QED BY <1>1, <1>2, <1>3, <1>4 DEF Chip

LEMMA LoopBounded == ASSUME AssemblyAssumption, Bounded, Loop PROVE Bounded'
<1> USE DEF Bounded, TypeOK
<1>0. Buf \in Nat /\ Fifo \in Nat
  BY Sizes
<1>1. CASE Poll
  <2>1. asmLen' \in 0..Buf
    BY <1>0, <1>1 DEF Poll
  <2>2. hi' \in BOOLEAN /\ syncOk' \in BOOLEAN /\ asmActive' \in BOOLEAN
    BY <1>1 DEF Poll
  <2>3. intact' \in BOOLEAN
    BY <1>1 DEF Poll, hist
  <2>4. fresh' \in BOOLEAN /\ cut' \in BOOLEAN
    BY <1>1 DEF Poll, hist
  <2>5. pc' = "drain" /\ UNCHANGED <<head, handed, receiving, air, count, level, pktDone, rxTmo>>
    BY <1>1 DEF Poll
  <2> QED BY <2>1, <2>2, <2>3, <2>4, <2>5
<1>2. CASE DrainFifo
  <2>1. CASE Draining /\ Room > 0
    <3>1. Room \in Nat /\ asmLen + Room <= Buf
      BY ReadsFit
    <3>2. ReadFifo(Room) /\ asmLen' = asmLen + Room /\ head' \in {air, head}
      BY <1>2, <2>1 DEF DrainFifo
    <3>3. level' \in 0..Fifo /\ intact' \in BOOLEAN
      BY <3>1, <3>2, ReadFifoKeeps
    <3> HIDE DEF ReadFifo
    <3> QED BY <1>0, <1>2, <3>1, <3>2, <3>3 DEF DrainFifo
  <2>2. CASE ~(Draining /\ Room > 0)
    BY <1>2, <2>2 DEF DrainFifo
  <2> QED BY <2>1, <2>2
<1>3. CASE NotEnded
  BY <1>3 DEF NotEnded, chip, hist
<1>4. CASE Ended
  <2>1. Rest \in Nat /\ asmLen + Rest <= Buf
    BY ReadsFit
  <2>2. asmLen' \in 0..Buf /\ handed'.len = asmLen'
    BY <1>0, <1>4, <2>1 DEF Ended
  <2>3. FlagsTyped'
    BY <1>4 DEF Ended, FlagsTyped
  <2>4. ValuesTyped' /\ handed'.len <= Buf
    BY <1>0, <1>4, <2>2 DEF Ended, ValuesTyped
  <2> HIDE DEF TypeOK
  <2> QED BY <2>3, <2>4, TypeOKParts
<1>5. CASE Scan
  BY <1>0, <1>5 DEF Scan, chip, hist, Nothing
<1> QED BY <1>1, <1>2, <1>3, <1>4, <1>5 DEF Loop

LEMMA StepBounded == ASSUME AssemblyAssumption, Bounded, [Next]_vars PROVE Bounded'
<1>1. CASE Chip
  BY <1>1, ChipBounded
<1>2. CASE Loop
  BY <1>2, LoopBounded
<1>3. CASE Reopen
  <2>1. FlagsTyped'
    BY <1>3 DEF Reopen, FlagsTyped
  <2>2. ValuesTyped' /\ handed'.len <= Buf
    BY <1>3, Sizes DEF Reopen, Bounded, TypeOK, ValuesTyped
  <2> QED BY <2>1, <2>2, TypeOKParts DEF Bounded
<1>4. CASE UNCHANGED vars
  BY <1>4 DEF vars, loop, chip, hist, Bounded, TypeOK
<1> QED BY <1>1, <1>2, <1>3, <1>4 DEF Next

LEMMA AlwaysBounded == Spec => []Bounded
<1>1. Init => Bounded
  BY AssemblyAssumption, InitBounded
<1>2. Bounded /\ [Next]_vars => Bounded'
  BY AssemblyAssumption, StepBounded
<1> QED BY <1>1, <1>2, PTL DEF Spec

\* The window's variables stay in their types, for telegrams with any L byte,
\* and buffers and thresholds of any size (asmBuf and buf in main.cpp).
THEOREM AssemblyTyped == Spec => []TypeOK
<1>1. Bounded => TypeOK
  BY DEF Bounded
<1> QED BY <1>1, AlwaysBounded, PTL

\* Neither asmBuf nor the read buffer is ever overrun, whatever L byte the air
\* brings: the crash loop main.cpp:2058 tells of cannot come back.
THEOREM BuffersSafe == Spec => []BuffersHold
<1>1. Bounded => BuffersHold
  BY AssemblyAssumption, ReadsFit DEF Bounded, BuffersHold
<1> QED BY <1>1, AlwaysBounded, PTL

------------------------------------------------------------------------------
(* No assembly is handed over twice, provided a packet of which nothing    *)
(* was drained is given up: its need, sv.r46 = 73, exceeds the read buffer *)
(* of 64 bytes.                                                            *)

GivesUp == Fallback > RestMax

\* A packet that ends with nothing assembled is handed over empty.
LEMMA NothingAssembled ==
  ASSUME AssemblyAssumption, GivesUp, asmLen = 0
  PROVE  Rest = 0
<1>1. Need(Fallback) = Fallback
  BY DEF Need, SmallerOf, AssemblyAssumption
<1> QED BY <1>1 DEF Rest, GivesUp, AssemblyAssumption

LEMMA InitReplay == ASSUME Init PROVE ReplayInv
<1>1. ~asmActive /\ ~fresh /\ asmLen = 0 /\ ~receiving /\ handed.len = 0
  BY DEF Init, Nothing
<1>2. asmActive = fresh
  BY DEF Init
<1> QED BY <1>1, <1>2 DEF ReplayInv, Leftover, NoReplay

LEMMA ChipReplay == ASSUME TypeOK, ReplayInv, Chip PROVE ReplayInv'
<1> USE DEF ReplayInv, Leftover, NoReplay
<1>1. CASE Sync
  BY <1>1 DEF Sync, loop
<1>2. CASE Arrive
  BY <1>2 DEF Arrive, loop
<1>3. CASE Complete
  BY <1>3 DEF Complete, loop, hist
<1>4. CASE Timeout
  BY <1>4 DEF Timeout, loop, hist
<1> QED BY <1>1, <1>2, <1>3, <1>4 DEF Chip

LEMMA EndedReplay ==
  ASSUME AssemblyAssumption, GivesUp, TypeOK, ReplayInv, Ended
  PROVE  ReplayInv'
<1>1. /\ pc = "end" /\ pc' = "scan" /\ asmLen' = asmLen + Rest
      /\ asmActive' = FALSE /\ fresh' = FALSE /\ (cut' <=> ~hi)
      /\ receiving' = receiving /\ syncOk' = syncOk
      /\ hi => pktDone' = FALSE
      /\ ~hi => pktDone' = pktDone
      /\ hi \/ asmActive
  BY DEF Ended
<1>2. handed'.len = asmLen + Rest /\ handed'.fresh = fresh /\ handed'.afterCut = cut
  BY DEF Ended
<1>3. Rest \in Nat /\ asmLen \in Nat
  BY ReadsFit, Sizes DEF TypeOK
<1>4. asmLen = 0 => asmLen' = 0
  BY <1>1, NothingAssembled
<1>5. asmLen' > 0 => asmLen > 0
  BY <1>1, <1>3, <1>4
<1>6. hi /\ asmLen' > 0 /\ ~syncOk => ~receiving
  BY <1>1, <1>3, <1>5 DEF ReplayInv
<1>7. Leftover' /\ ~syncOk' => ~receiving' /\ ~pktDone'
  BY <1>1, <1>6 DEF Leftover
<1>8. NoReplay'
  <2>1. ASSUME handed'.len > 0, ~handed'.fresh PROVE handed'.afterCut
    <3>1. ~fresh /\ hi /\ asmLen > 0
      BY <1>1, <1>2, <1>5, <2>1 DEF ReplayInv
    <3>2. ~Leftover
      BY <1>1, <3>1 DEF ReplayInv
    <3> QED BY <1>2, <3>1, <3>2 DEF Leftover
  <2> QED BY <2>1 DEF NoReplay
<1>9. pktDone' /\ receiving' /\ ~syncOk' => FALSE
  BY <1>1 DEF ReplayInv
<1> QED BY <1>1, <1>7, <1>8, <1>9 DEF ReplayInv

LEMMA LoopReplay ==
  ASSUME AssemblyAssumption, GivesUp, TypeOK, ReplayInv, Loop
  PROVE  ReplayInv'
<1>1. CASE Poll
  <2>1. CASE syncOk
    BY <1>1, <2>1 DEF Poll, ReplayInv, Leftover, NoReplay
  <2>2. CASE ~syncOk
    BY <1>1, <2>2 DEF Poll, hist, ReplayInv, Leftover, NoReplay
  <2> QED BY <2>1, <2>2 DEF TypeOK
<1>2. CASE DrainFifo
  <2>1. asmLen' = asmLen \/ (asmActive /\ ~hi)
    BY <1>2 DEF DrainFifo, Draining
  <2>2. /\ pc = "drain" /\ pc' = "end"
        /\ UNCHANGED <<hi, asmActive, handed, receiving, syncOk, pktDone, fresh, cut>>
    BY <1>2 DEF DrainFifo
  <2> QED BY <2>1, <2>2 DEF ReplayInv, Leftover, NoReplay
<1>3. CASE NotEnded
  BY <1>3 DEF NotEnded, chip, hist, ReplayInv, Leftover, NoReplay
<1>4. CASE Ended
  BY <1>4, EndedReplay
<1>5. CASE Scan
  BY <1>5 DEF Scan, chip, hist, Nothing, ReplayInv, Leftover, NoReplay
<1> QED BY <1>1, <1>2, <1>3, <1>4, <1>5 DEF Loop

\* Every packet handed to the scan was assembled since the last hand-over, or
\* is empty, except behind one that RX_TMO ended - for any sizes with which a
\* packet that was not drained is given up (lines 2014 and 2087-2136 of main.cpp).
THEOREM NeverReplayed == GivesUp => (Spec => []NoReplay)
<1> SUFFICES ASSUME GivesUp PROVE Spec => []NoReplay
  OBVIOUS
<1>1. Init => Bounded /\ ReplayInv
  BY AssemblyAssumption, InitBounded, InitReplay
<1>2. Bounded /\ ReplayInv /\ [Next]_vars => (Bounded /\ ReplayInv)'
  <2> SUFFICES ASSUME Bounded, ReplayInv, [Next]_vars PROVE (Bounded /\ ReplayInv)'
    OBVIOUS
  <2>1. Bounded'
    BY AssemblyAssumption, StepBounded
  <2>2. TypeOK
    BY DEF Bounded
  <2>3. CASE Chip
    BY <2>1, <2>2, <2>3, ChipReplay
  <2>4. CASE Loop
    BY <2>1, <2>2, <2>4, AssemblyAssumption, LoopReplay
  <2>5. CASE Reopen
    <3>1. /\ asmActive' = fresh' /\ asmLen' = 0 /\ ~receiving'
          /\ pc' = "poll" /\ UNCHANGED handed
      BY <2>5 DEF Reopen
    <3> QED BY <2>1, <3>1 DEF ReplayInv, Leftover, NoReplay
  <2>6. CASE UNCHANGED vars
    BY <2>1, <2>6 DEF vars, loop, chip, hist, ReplayInv, Leftover, NoReplay
  <2> QED BY <2>3, <2>4, <2>5, <2>6 DEF Next
<1>3. ReplayInv => NoReplay
  BY DEF ReplayInv
<1> QED BY <1>1, <1>2, <1>3, PTL DEF Spec

------------------------------------------------------------------------------
(* A telegram received without a loss is handed over whole.                *)

\* What the sizes of main.cpp and of the chip satisfy: the read buffer takes a
\* whole FIFO (64, 64), the first drain is a full one (32, 96), one drain and a
\* full FIFO do not make a packet (64 + 32, 111), and two drains and the read
\* buffer fill asmBuf (2 * 32 + 64, 128).
SizesFit ==
  /\ GivesUp
  /\ Fifo <= RestMax /\ Drain <= DrainCap
  /\ Fifo + Drain < Counter
  /\ Buf <= 2 * Drain + RestMax

Coded(t) == t.form \in {"prefix", "plain"}

\* Bytes of the telegram whose start is in asmBuf, as far as they fit.
HeadNeed == SmallerOf(Size(head), Buf)

\* Drains take Drain bytes each, the last ones up to the end of the telegram.
Drained ==
  asmLen > 0 /\ Coded(head) =>
    \/ asmLen = Drain
    \/ asmLen > Drain /\ asmLen = HeadNeed
    \/ asmLen >= 2 * Drain /\ asmLen <= HeadNeed

\* While no byte is lost, what has arrived is in asmBuf or in the FIFO; and the
\* flags that end the packet were raised by it, at its end - or found latched
\* when it began, and then nothing of it is drained.
Accounted ==
  /\ ~syncOk
  /\ asmLen + level = count
  /\ asmLen > 0 => head = air
  /\ Drained
  /\ pktDone => \/ asmLen = 0 /\ hi /\ pc \in {"drain", "end"}
                \/ count = Counter /\ ~receiving
  /\ hi /\ pc \in {"drain", "end"} => asmLen = 0 \/ count = Counter
  /\ rxTmo => ~receiving /\ count >= Size(air)

WholeInv == (intact => Accounted) /\ TelegramWhole

LEMMA HeadNeedFacts ==
  ASSUME AssemblyAssumption, TypeOK
  PROVE  /\ Size(head) \in Int /\ Size(air) \in Int
         /\ HeadNeed \in Int /\ HeadNeed <= Buf /\ HeadNeed <= Size(head)
         /\ HeadNeed = Size(head) \/ HeadNeed = Buf
         /\ \A d \in Nat : asmLen > 0 /\ Coded(head) => Need(d) = HeadNeed
         /\ \A d \in Nat : asmLen = 0 => Need(d) = SmallerOf(d, Buf)
<1>1. head.L \in Int /\ air.L \in Int
  BY DEF AssemblyAssumption, TypeOK, Silence
<1>2. FrameSize(head.L) \in Int /\ FrameSize(air.L) \in Int
  BY <1>1 DEF FrameSize
<1>3. Size(head) \in Int /\ Size(air) \in Int
  BY <1>2 DEF Size
<1>4. Buf \in Nat /\ asmLen \in Nat
  BY Sizes DEF TypeOK
<1>5. /\ HeadNeed \in Int /\ HeadNeed <= Buf /\ HeadNeed <= Size(head)
      /\ HeadNeed = Size(head) \/ HeadNeed = Buf
  BY <1>3, <1>4 DEF HeadNeed, SmallerOf
<1>6. \A d \in Nat : asmLen > 0 /\ Coded(head) => Need(d) = HeadNeed
  BY Zenon DEF Need, HeadNeed, Coded
<1>7. \A d \in Nat : asmLen = 0 => Need(d) = SmallerOf(d, Buf)
  <2>1. asmLen = 0 => ~(asmLen > 0)
    BY <1>4
  <2> QED BY <2>1, Zenon DEF Need
<1> QED BY <1>3, <1>5, <1>6, <1>7

\* A drain goes on from where the last one ended, and stops at the telegram's
\* end.
LEMMA DrainKeepsShape ==
  ASSUME AssemblyAssumption, SizesFit, TypeOK, Drained, Room > 0,
         asmLen' = asmLen + Room, head' = IF asmLen = 0 THEN air ELSE head
  PROVE  Drained'
<1>1. /\ Drain \in Nat /\ DrainCap \in Nat /\ Buf \in Nat /\ asmLen \in Nat
      /\ Drain > 0 /\ Drain <= DrainCap /\ DrainCap + Drain <= Buf
  BY Sizes DEF AssemblyAssumption, TypeOK, SizesFit
<1>2. CASE asmLen = 0
  <2>1. Need(DrainCap) = DrainCap
    BY <1>1, <1>2, HeadNeedFacts DEF SmallerOf
  <2>2. Room = SmallerOf(DrainCap, Drain)
    BY <2>1, <1>1, <1>2 DEF Room
  <2>3. asmLen' = Drain
    BY <2>2, <1>1, <1>2 DEF SmallerOf
  <2> QED BY <2>3 DEF Drained
<1>3. CASE asmLen > 0 /\ Coded(head)
  <2>1. /\ Need(DrainCap) = HeadNeed /\ HeadNeed \in Int
    BY <1>1, <1>3, HeadNeedFacts
  <2>2. Room = SmallerOf(IF HeadNeed > asmLen THEN HeadNeed - asmLen ELSE 0, Drain)
    BY <2>1, Zenon DEF Room
  <2>3. /\ HeadNeed > asmLen
        /\ Room = HeadNeed - asmLen \/ (Room = Drain /\ Drain <= HeadNeed - asmLen)
    <3> DEFINE rest == IF HeadNeed > asmLen THEN HeadNeed - asmLen ELSE 0
    <3>1. rest \in Nat /\ (Room = rest \/ Room = Drain) /\ Room <= rest
      BY <2>1, <2>2, <1>1 DEF SmallerOf
    <3>2. HeadNeed > asmLen
      BY <3>1, <2>1, <1>1
    <3>3. rest = HeadNeed - asmLen
      BY <3>2
    <3> HIDE DEF rest
    <3> QED BY <3>1, <3>2, <3>3, <2>1, <1>1
  <2>4. head' = head /\ HeadNeed' = HeadNeed
    BY <1>1, <1>3 DEF HeadNeed
  <2>5. asmLen >= Drain
    BY <1>1, <1>3 DEF Drained
  <2>6. \/ asmLen' > Drain /\ asmLen' = HeadNeed
        \/ asmLen' >= 2 * Drain /\ asmLen' <= HeadNeed
    BY <2>1, <2>3, <2>5, <1>1
  <2> QED BY <2>4, <2>6 DEF Drained
<1>4. CASE asmLen > 0 /\ ~Coded(head)
  <2>1. head' = head
    BY <1>1, <1>4
  <2> QED BY <2>1, <1>4 DEF Drained, Coded
<1> QED BY <1>1, <1>2, <1>3, <1>4

LEMMA ChipAccounted ==
  ASSUME AssemblyAssumption, TypeOK, intact => Accounted, Chip, intact'
  PROVE  Accounted'
<1>1. /\ count \in Nat /\ count <= Counter /\ Counter \in Nat /\ Lump \in Nat
      /\ level \in Nat /\ asmLen \in Nat /\ Fifo \in Nat /\ Size(air) \in Int
  BY Sizes, HeadNeedFacts DEF TypeOK
<1>2. intact /\ ~Sync
  BY DEF Chip, Sync, Arrive, Complete, Timeout, hist
<1>3. Accounted
  BY <1>2
<1>4. UNCHANGED <<pc, hi, asmLen, head, air, syncOk>>
  BY <1>2 DEF Chip, Arrive, Complete, Timeout, loop
<1>5. Drained' /\ Size(air)' = Size(air)
  BY <1>3, <1>4 DEF Accounted, Drained, HeadNeed
<1>6. CASE Arrive
  <2> DEFINE n == SmallerOf(Lump, Counter - count)
  <2>1. /\ n > 0 /\ receiving /\ count' = count + n
        /\ level' = SmallerOf(level + n, Fifo) /\ level + n <= Fifo
        /\ receiving' = receiving /\ pktDone' = pktDone /\ rxTmo' = rxTmo
    BY <1>6 DEF Arrive
  <2>2. n \in Nat /\ n <= Counter - count
    BY <2>1, <1>1 DEF SmallerOf
  <2> HIDE DEF n
  <2>3. asmLen + level' = count' /\ count # Counter
    BY <2>1, <2>2, <1>1, <1>3 DEF SmallerOf, Accounted
  <2> QED BY <2>1, <2>3, <1>3, <1>4, <1>5 DEF Accounted
<1>7. CASE Complete
  <2>1. /\ receiving /\ count = Counter /\ ~receiving' /\ count' = count /\ level' = level
        /\ rxTmo' = rxTmo
    BY <1>7 DEF Complete
  <2> QED BY <2>1, <1>3, <1>4, <1>5 DEF Accounted
<1>8. CASE Timeout
  <2>1. /\ receiving /\ ~receiving' /\ count >= Size(air) /\ count' = count /\ level' = level
        /\ pktDone' = pktDone
    BY <1>8 DEF Timeout
  <2> QED BY <2>1, <1>3, <1>4, <1>5 DEF Accounted
<1> QED BY <1>2, <1>6, <1>7, <1>8 DEF Chip

LEMMA LoopAccounted ==
  ASSUME AssemblyAssumption, SizesFit, TypeOK, intact => Accounted, Loop, intact'
  PROVE  Accounted'
<1>1. /\ count \in Nat /\ Counter \in Nat /\ level \in Nat /\ asmLen \in Nat
      /\ Size(air) \in Int
  BY Sizes, HeadNeedFacts DEF TypeOK
<1>2. CASE Poll /\ syncOk
  <2>1. /\ hi' = pktDone /\ ~syncOk' /\ asmLen' = 0 /\ count = level /\ ~rxTmo
        /\ pc' = "drain" /\ UNCHANGED <<receiving, air, count, level, pktDone, rxTmo>>
    BY <1>2 DEF Poll
  <2>2. Drained'
    BY <2>1 DEF Drained
  <2> QED BY <2>1, <2>2, <1>1 DEF Accounted
<1>3. CASE Poll /\ ~syncOk
  <2>1. /\ pc = "poll" /\ pc' = "drain" /\ hi' = pktDone /\ ~syncOk' /\ intact' = intact
        /\ UNCHANGED <<asmLen, head, receiving, air, count, level, pktDone, rxTmo>>
    BY <1>3 DEF Poll, hist
  <2>2. Accounted
    BY <2>1
  <2>3. Drained' /\ Size(air)' = Size(air)
    BY <2>1, <2>2 DEF Accounted, Drained, HeadNeed
  <2> QED BY <2>1, <2>2, <2>3 DEF Accounted
<1>4. CASE DrainFifo
  <2>1. /\ pc = "drain" /\ pc' = "end"
        /\ UNCHANGED <<hi, receiving, air, count, syncOk, pktDone, rxTmo>>
    BY <1>4 DEF DrainFifo
  <2>2. CASE Draining /\ Room > 0
    <3>1. ReadFifo(Room) /\ asmLen' = asmLen + Room /\ head' = IF asmLen = 0 THEN air ELSE head
      BY <1>4, <2>2 DEF DrainFifo
    <3>2. intact /\ Room <= level /\ level' = level - Room
      BY <3>1 DEF ReadFifo
    <3>3. Accounted
      BY <3>2
    <3>4. Room \in Nat
      BY ReadsFit
    <3>5. asmLen' + level' = count' /\ asmLen' > 0
      BY <3>1, <3>2, <3>3, <3>4, <2>1, <2>2, <1>1 DEF Accounted
    <3>6. head' = air'
      BY <3>1, <3>3, <2>1, <1>1 DEF Accounted
    <3>7. Drained'
      BY <3>1, <3>3, <2>2, DrainKeepsShape DEF Accounted
    <3>8. ~hi
      BY <2>2 DEF Draining
    <3>9. Size(air)' = Size(air)
      BY <2>1
    <3>10. pktDone' => count' = Counter /\ ~receiving'
      BY <3>3, <3>8, <2>1 DEF Accounted
    <3>11. rxTmo' => ~receiving' /\ count' >= Size(air)'
      BY <3>3, <3>9, <2>1 DEF Accounted
    <3>12. ~syncOk' /\ ~hi'
      BY <3>3, <3>8, <2>1 DEF Accounted
    <3> QED BY <3>5, <3>6, <3>7, <3>10, <3>11, <3>12, Zenon DEF Accounted
  <2>3. CASE ~(Draining /\ Room > 0)
    <3>1. UNCHANGED <<level, asmLen, head, intact>>
      BY <1>4, <2>3 DEF DrainFifo
    <3>2. Accounted
      BY <3>1
    <3>3. Drained' /\ Size(air)' = Size(air)
      BY <3>1, <3>2, <2>1 DEF Accounted, Drained, HeadNeed
    <3> QED BY <3>1, <3>2, <3>3, <2>1 DEF Accounted
  <2> QED BY <2>2, <2>3
<1>5. CASE NotEnded
  <2>1. /\ ~hi /\ pc' = "poll" /\ intact' = intact
        /\ UNCHANGED <<hi, asmLen, head, receiving, air, count, level, syncOk, pktDone, rxTmo>>
    BY <1>5 DEF NotEnded, chip, hist
  <2>2. Accounted
    BY <2>1
  <2>3. Drained' /\ Size(air)' = Size(air)
    BY <2>1, <2>2 DEF Accounted, Drained, HeadNeed
  <2> QED BY <2>1, <2>2, <2>3 DEF Accounted
<1>6. CASE Ended
  BY <1>6 DEF Ended
<1>7. CASE Scan
  <2>1. /\ pc = "scan" /\ pc' = "poll" /\ intact' = intact
        /\ UNCHANGED <<hi, asmLen, head, receiving, air, count, level, syncOk, pktDone, rxTmo>>
    BY <1>7 DEF Scan, chip, hist
  <2>2. Accounted
    BY <2>1
  <2>3. Drained' /\ Size(air)' = Size(air)
    BY <2>1, <2>2 DEF Accounted, Drained, HeadNeed
  <2> QED BY <2>1, <2>2, <2>3 DEF Accounted
<1> QED BY <1>2, <1>3, <1>4, <1>5, <1>6, <1>7 DEF Loop

\* The packet taken at its end is the telegram and no more.
LEMMA EndedWhole ==
  ASSUME AssemblyAssumption, SizesFit, TypeOK, intact => Accounted, Ended
  PROVE  TelegramWhole'
<1>1. /\ pc = "end" /\ (hi \/ rxTmo)
      /\ handed'.len = asmLen + Rest /\ handed'.head = head
      /\ handed'.intact => intact /\ Rest <= level
  BY DEF Ended
<1> SUFFICES ASSUME intact, Rest <= level, asmLen + Rest > 0, Coded(head)
             PROVE  asmLen + Rest = IF Size(head) < Drain THEN Drain ELSE HeadNeed
  <2>1. (handed'.intact /\ handed'.len > 0 /\ handed'.head.form \in {"prefix", "plain"})
          => handed'.len = IF Size(handed'.head) < Drain
                           THEN Drain ELSE SmallerOf(Size(handed'.head), Buf)
    BY <1>1 DEF Coded, HeadNeed
  <2> QED BY <2>1, Zenon DEF TelegramWhole
<1>2. /\ asmLen + level = count
      /\ asmLen > 0 => head = air
      /\ Drained
      /\ hi => asmLen = 0 \/ count = Counter
      /\ rxTmo => count >= Size(air)
  <2>1. Accounted
    OBVIOUS
  <2> QED BY <1>1, <2>1, Zenon DEF Accounted
<1>3. /\ count \in Nat /\ level \in Nat /\ level <= Fifo /\ asmLen \in Nat
      /\ Counter \in Nat /\ Fifo \in Nat /\ Drain \in Nat /\ Buf \in Nat /\ RestMax \in Nat
      /\ Fallback \in Nat /\ Drain <= Buf /\ Drain > 0
  BY Sizes DEF TypeOK, AssemblyAssumption
<1>4. Fifo <= RestMax /\ Fifo + Drain < Counter /\ Buf <= 2 * Drain + RestMax
  BY DEF SizesFit
<1>5. asmLen > 0
  <2>1. asmLen = 0 => Rest = 0
    BY NothingAssembled DEF SizesFit
  <2> QED BY <2>1, <1>3
<1>6. /\ HeadNeed \in Int /\ HeadNeed <= Buf /\ HeadNeed <= Size(head)
      /\ Size(head) \in Int /\ (HeadNeed = Size(head) \/ HeadNeed = Buf)
      /\ Need(Fallback) = HeadNeed
  BY <1>3, <1>5, HeadNeedFacts
<1>7. Rest = IF HeadNeed > asmLen /\ HeadNeed - asmLen <= RestMax THEN HeadNeed - asmLen ELSE 0
  BY <1>6, Zenon DEF Rest
<1>8. \/ asmLen = Drain
      \/ asmLen > Drain /\ asmLen = HeadNeed
      \/ asmLen >= 2 * Drain /\ asmLen <= HeadNeed
  BY <1>2, <1>5, Zenon DEF Drained
<1>9. HeadNeed <= asmLen + RestMax
  <2>1. CASE hi
    <3>1. count = Counter
      BY <2>1, <1>2, <1>5, <1>3
    <3>2. asmLen > Drain
      BY <3>1, <1>2, <1>3, <1>4
    <3> QED BY <3>2, <1>3, <1>4, <1>6, <1>8
  <2>2. CASE rxTmo
    <3>1. count >= Size(head)
      BY <2>2, <1>2, <1>5
    <3>2. count >= HeadNeed
      BY <3>1, <1>3, <1>6
    <3> QED BY <3>2, <1>2, <1>3, <1>4, <1>6
  <2> QED BY <1>1, <2>1, <2>2
<1>10. asmLen + Rest = IF HeadNeed > asmLen THEN HeadNeed ELSE asmLen
  BY <1>3, <1>6, <1>7, <1>9
<1>11. CASE Size(head) < Drain
  <2>1. HeadNeed < Drain
    BY <1>3, <1>6, <1>11
  <2>2. asmLen = Drain
    BY <2>1, <1>3, <1>6, <1>8
  <2> QED BY <2>1, <2>2, <1>3, <1>6, <1>10, <1>11
<1>12. CASE ~(Size(head) < Drain)
  <2>1. HeadNeed >= Drain
    BY <1>3, <1>6, <1>12
  <2>2. asmLen <= HeadNeed
    BY <2>1, <1>3, <1>6, <1>8
  <2>3. asmLen + Rest = HeadNeed
    BY <2>2, <1>3, <1>6, <1>10
  <2> QED BY <2>3, <1>12
<1> QED BY <1>11, <1>12

\* A telegram none of whose bytes the FIFO lost is handed over to its last
\* CRC, and without the noise behind it - for telegrams of any length and
\* sizes that fit (Drained, PKT_DONE and RX_TMO in main.cpp 2020-2136).
THEOREM NothingMissing == SizesFit => (Spec => []TelegramWhole)
<1> SUFFICES ASSUME SizesFit PROVE Spec => []TelegramWhole
  OBVIOUS
<1>1. Init => Bounded /\ WholeInv
  <2>1. Init => ~intact /\ handed.len = 0
    BY DEF Init, Nothing
  <2>2. ~intact /\ handed.len = 0 => WholeInv
    BY DEF WholeInv, TelegramWhole
  <2> QED BY <2>1, <2>2, AssemblyAssumption, InitBounded
<1>2. Bounded /\ WholeInv /\ [Next]_vars => (Bounded /\ WholeInv)'
  <2> SUFFICES ASSUME Bounded, WholeInv, [Next]_vars PROVE (Bounded /\ WholeInv)'
    OBVIOUS
  <2>1. Bounded'
    BY AssemblyAssumption, StepBounded
  <2>2. TypeOK /\ (intact => Accounted) /\ TelegramWhole
    BY DEF Bounded, WholeInv
  <2>3. CASE Chip
    <3>1. intact' => Accounted'
      BY <2>2, <2>3, AssemblyAssumption, ChipAccounted
    <3>2. handed' = handed
      BY <2>3 DEF Chip, Sync, Arrive, Complete, Timeout, loop
    <3>3. TelegramWhole'
      BY <2>2, <3>2 DEF TelegramWhole
    <3> QED BY <2>1, <3>1, <3>3 DEF WholeInv
  <2>4. CASE Loop
    <3>1. intact' => Accounted'
      BY <2>2, <2>4, AssemblyAssumption, LoopAccounted
    <3>2. TelegramWhole'
      <4>1. CASE Ended
        BY <2>2, <4>1, AssemblyAssumption, EndedWhole
      <4>2. CASE Scan
        <5>1. handed'.len = 0
          BY <4>2 DEF Scan, Nothing
        <5> QED BY <5>1 DEF TelegramWhole
      <4>3. CASE Poll \/ DrainFifo \/ NotEnded
        <5>1. handed' = handed
          BY <4>3 DEF Poll, DrainFifo, NotEnded
        <5> QED BY <2>2, <5>1 DEF TelegramWhole
      <4> QED BY <2>4, <4>1, <4>2, <4>3 DEF Loop
    <3> QED BY <2>1, <3>1, <3>2 DEF WholeInv
  <2>5. CASE Reopen
    <3>1. ~intact' /\ handed' = handed
      BY <2>5 DEF Reopen
    <3>2. TelegramWhole'
      BY <2>2, <3>1 DEF TelegramWhole
    <3> QED BY <2>1, <3>1, <3>2 DEF WholeInv
  <2>6. CASE UNCHANGED vars
    <3>1. (intact => Accounted)'
      BY <2>2, <2>6 DEF vars, loop, chip, hist, Accounted, Drained, HeadNeed
    <3>2. TelegramWhole'
      BY <2>2, <2>6 DEF vars, loop, TelegramWhole
    <3> QED BY <2>1, <3>1, <3>2 DEF WholeInv
  <2> QED BY <2>3, <2>4, <2>5, <2>6 DEF Next
<1>3. WholeInv => TelegramWhole
  BY DEF WholeInv
<1> QED BY <1>1, <1>2, <1>3, PTL DEF Spec
=============================================================================
