----------------------------- MODULE SpiBusProofs -----------------------------
(***************************************************************************)
(* Proofs about SpiBus: for bytes of any width, what the driver puts on    *)
(* the joined data line and reads from it edge by edge is, seen from       *)
(* above, one atomic access after the other (RegisterFile); the two        *)
(* selects are never low together; turning the FIFO keeps FIFO_MERGE.      *)
(***************************************************************************)
EXTENDS SpiBus, TLAPS, SequenceTheorems

Moving == pc \in {"drive", "raise", "sample", "lower", "deselect"}
AtBit  == pc \in {"drive", "raise", "sample", "lower"}

\* Which calls make which accesses; every stage of a call has its access from
\* its choice to the release of the select.
CallFollows ==
  /\ access \in Above!Accesses \cup {NoAccess}
  /\ access = NoAccess <=> pc \in {"idle", "next"}
  /\ call = "look" => pc = "next" \/ access = Look
  /\ call = "look" /\ pc = "next" => reply \in Byte

\* FIFO_MERGE is set in IO_SEL, in what is read from it to turn the FIFO, and
\* in what is written back.
MergeFollows ==
  /\ MergeKept
  /\ access.op = "write" /\ access.a = IoSel => access.v[1] = 1
  /\ access = Look /\ latched # <<>> => latched[1] = 1
  /\ call = "look" /\ pc = "next" => reply[1] = 1

\* The pins: a select is low exactly while an access moves bits, and the line
\* carries the driver's bit at the edge at which the chip takes it.
PinsFollow ==
  /\ csb = IF Moving /\ OnRegisters THEN 0 ELSE 1
  /\ fcsb = IF Moving /\ ~OnRegisters THEN 0 ELSE 1
  /\ Moving /\ access.op = "pop" => dir = "pullup"
  /\ pc = "raise" /\ access.op # "pop" => dir = "output" /\ sdio = BitsOut[k]

\* Bits of the access whose rising edge is over.
Given == IF pc \in {"drive", "raise"} THEN k - 1
         ELSE IF pc \in {"sample", "lower"} THEN k ELSE Len(BitsOut)

\* Before the chip has a value to send, it has taken in the bits given to it:
\* all of a write's and a push's, the address byte of a read.
TakenFollows ==
  /\ ~Moving => taken = <<>> /\ latched = <<>> /\ chipOut = <<>> /\ r = <<>>
  /\ AtBit => k \in 1..Len(BitsOut)
  /\ Moving /\ latched = <<>> =>
       /\ access.op # "pop" /\ chipOut = <<>>
       /\ taken = SubSeq(BitsOut, 1, Given)
       /\ access.op = "read" => AtBit /\ k <= Width
  /\ latched # <<>> =>
       /\ access.op \in {"read", "pop"}
       /\ access.op = "read" /\ AtBit => k > Width

\* Index of the bit of the value that is being sent.
Showing == IF access.op = "read" THEN k - Width ELSE k

\* A value is on the line from the bit being sent on - or nowhere, the pull-up
\* showing ones - and the driver has read the bits before.
SentFollows ==
  /\ latched # <<>> /\ AtBit =>
       /\ \/ chipOut = SubSeq(latched, Showing, Width)
          \/ chipOut = <<>> /\ latched = Ones /\ access.op = "pop"
       /\ pc # "lower" /\ (Showing > 1 \/ access.op = "pop") =>
            r = SubSeq(latched, 1, Showing - 1)
       /\ pc = "lower" => r = SubSeq(latched, 1, Showing)
  /\ latched # <<>> /\ pc = "deselect" => r = latched
  /\ AtBit => Len(r) = IF pc = "lower"
                       THEN IF k <= Width THEN k ELSE k - Width
                       ELSE IF k <= Width + 1 THEN k - 1 ELSE k - Width - 1

IInv ==
  /\ TypeOK /\ CallFollows /\ MergeFollows /\ PinsFollow /\ TakenFollows /\ SentFollows

------------------------------------------------------------------------------
(* Bytes, addresses and the bits of an access, as sequences.                *)

LEMMA WidthFacts ==
  Width \in Nat /\ Width >= 2 /\ IoSel \in Addr /\ MaxFifo \in Nat /\ MaxBytes \in Nat
  BY SpiAssumption

LEMMA ByteFacts ==
  ASSUME NEW v \in Byte
  PROVE  v \in Seq(Bit) /\ Len(v) = Width /\ v # <<>> /\ SubSeq(v, 1, Width) = v
<1>1. v \in Seq(Bit)
  BY SeqDef, WidthFacts DEF Byte
<1>2. DOMAIN v = 1..Width /\ DOMAIN v = 1..Len(v) /\ Len(v) \in Nat
  BY <1>1, LenProperties DEF Byte
<1>3. Len(v) = Width
  BY <1>2, WidthFacts
<1>4. v # <<>>
  BY <1>1, <1>3, EmptySeq, WidthFacts
<1>5. SubSeq(v, 1, Width) = v
  BY <1>1, <1>3, SubSeqFull
<1>6. QED  BY <1>1, <1>3, <1>4, <1>5

LEMMA AddrFacts ==
  ASSUME NEW a \in Addr
  PROVE  a \in Seq(Bit) /\ Len(a) = Width - 1 /\ SubSeq(a, 1, Width - 1) = a
<1>1. a \in Seq(Bit)
  BY SeqDef, WidthFacts DEF Addr
<1>2. DOMAIN a = 1..(Width - 1) /\ DOMAIN a = 1..Len(a) /\ Len(a) \in Nat
  BY <1>1, LenProperties DEF Addr
<1>3. Len(a) = Width - 1
  BY <1>2, WidthFacts
<1>4. SubSeq(a, 1, Width - 1) = a
  BY <1>1, <1>3, SubSeqFull
<1>5. QED  BY <1>1, <1>3, <1>4

LEMMA OnesZeros == Ones \in Byte /\ Zeros \in Byte /\ Ones # <<>>
<1>1. Ones \in Byte /\ Zeros \in Byte
  BY DEF Ones, Zeros, Byte, Bit
<1>2. QED  BY <1>1, ByteFacts

\* The four kinds of access.
LEMMA AccessCases ==
  \A acc \in Above!Accesses :
    \/ acc.op = "write" /\ acc.a \in Addr /\ acc.v \in Byte
    \/ acc.op = "read" /\ acc.a \in Addr
    \/ acc.op = "push" /\ acc.v \in Byte
    \/ acc.op = "pop"
  BY DEF Above!Accesses

LEMMA NoAccessFacts ==
  /\ NoAccess.op = "none" /\ Above!NoAccess = NoAccess
  /\ \A acc \in Above!Accesses : acc # NoAccess
<1>1. NoAccess.op = "none"
  BY DEF NoAccess
<1>2. \A acc \in Above!Accesses : acc.op # "none"
  BY AccessCases
<1>3. Above!NoAccess = NoAccess
  BY DEF NoAccess, Above!NoAccess
<1>4. QED  BY <1>1, <1>2, <1>3

\* An address byte is the direction bit and the address; a value follows it.
FrameOf(d, a, v) == <<d>> \o a \o v
LEMMA FrameOfBits ==
  ASSUME NEW d \in Bit, NEW a \in Addr, NEW v \in Byte
  PROVE  /\ FrameOf(d, a, v) \in Seq(Bit) /\ Len(FrameOf(d, a, v)) = 2 * Width
         /\ FrameOf(d, a, v)[1] = d /\ SubSeq(FrameOf(d, a, v), 2, Width) = a
         /\ SubSeq(FrameOf(d, a, v), Width + 1, 2 * Width) = v
<1> DEFINE one == <<d>>
           h   == one \o a
           s   == FrameOf(d, a, v)
<1>1. one \in Seq(Bit) /\ Len(one) = 1 /\ one[1] = d
  OBVIOUS
<1>2. a \in Seq(Bit) /\ Len(a) = Width - 1 /\ SubSeq(a, 1, Width - 1) = a
  BY AddrFacts
<1>3. v \in Seq(Bit) /\ Len(v) = Width /\ SubSeq(v, 1, Width) = v
  BY ByteFacts
<1> HIDE DEF one
<1>4. /\ h \in Seq(Bit) /\ Len(h) = Len(one) + Len(a)
      /\ \A i \in 1..Len(one) + Len(a) : h[i] = IF i <= Len(one) THEN one[i] ELSE a[i - Len(one)]
  BY <1>1, <1>2, ConcatProperties
<1>5. Len(h) = Width /\ h[1] = d
  BY <1>1, <1>2, <1>4, WidthFacts
<1>6. SubSeq(h, 2, Width) = a
  <2>1. SubSeq(one \o a, 2, Width) = SubSeq(a, 2 - Len(one), Width - Len(one))
    <3>1. 2 \in Len(one) + 1..Len(one) + Len(a) /\ Width \in Len(one) + 1..Len(one) + Len(a)
      BY <1>1, <1>2, WidthFacts
    <3>2. QED  BY <3>1, <1>1, <1>2, SubSeqOfConcat2
  <2>2. 2 - Len(one) = 1 /\ Width - Len(one) = Width - 1
    BY <1>1
  <2>3. QED  BY <2>1, <2>2, <1>2, Zenon
<1>7. h \in Seq(Bit)
  BY <1>4
<1> HIDE DEF h
<1>8. s = h \o v
  BY DEF h, one, FrameOf
<1> HIDE DEF s
<1>9. /\ s \in Seq(Bit) /\ Len(s) = Len(h) + Len(v)
      /\ \A i \in 1..Len(h) + Len(v) : s[i] = IF i <= Len(h) THEN h[i] ELSE v[i - Len(h)]
  <2>1. /\ h \o v \in Seq(Bit) /\ Len(h \o v) = Len(h) + Len(v)
        /\ \A i \in 1..Len(h) + Len(v) :
             (h \o v)[i] = IF i <= Len(h) THEN h[i] ELSE v[i - Len(h)]
    BY <1>3, <1>7, ConcatProperties
  <2>2. QED  BY <2>1, <1>8, Zenon
<1>10. Len(s) = 2 * Width /\ s[1] = d
  BY <1>3, <1>5, <1>9, WidthFacts
<1>11. SubSeq(s, 2, Width) = a
  <2>1. 2 \in 1..Len(h) /\ Width \in 1..Len(h)
    BY <1>5, WidthFacts
  <2>2. SubSeq(h \o v, 2, Width) = SubSeq(h, 2, Width)
    BY <2>1, <1>3, <1>7, SubSeqOfConcat1
  <2>3. QED  BY <2>2, <1>6, <1>8
<1>12. SubSeq(s, Width + 1, 2 * Width) = v
  <2>1. \A m, n \in Len(h) + 1..Len(h) + Len(v) :
          SubSeq(h \o v, m, n) = SubSeq(v, m - Len(h), n - Len(h))
    BY <1>3, <1>7, SubSeqOfConcat2
  <2>2. PICK m \in Int : m = Width + 1
    BY WidthFacts
  <2>3. PICK n \in Int : n = 2 * Width
    BY WidthFacts
  <2>4. m \in Len(h) + 1..Len(h) + Len(v) /\ n \in Len(h) + 1..Len(h) + Len(v)
    BY <2>2, <2>3, <1>3, <1>5, WidthFacts
  <2>5. m - Len(h) = 1 /\ n - Len(h) = Width
    BY <2>2, <2>3, <1>5, WidthFacts
  <2>6. SubSeq(s, m, n) = v
    BY <2>1, <2>4, <2>5, <1>3, <1>8, Zenon
  <2>7. QED  BY <2>2, <2>3, <2>6, Zenon
<1>13. QED  BY <1>9, <1>10, <1>11, <1>12 DEF s

LEMMA BitsOutFacts ==
  ASSUME access \in Above!Accesses
  PROVE  /\ BitsOut \in Seq(Bit)
         /\ Len(BitsOut) = IF OnRegisters THEN 2 * Width ELSE Width
         /\ access.op = "write" =>
              /\ BitsOut[1] = 0 /\ SubSeq(BitsOut, 2, Width) = access.a
              /\ SubSeq(BitsOut, Width + 1, 2 * Width) = access.v
         /\ access.op = "read" => BitsOut[1] = 1 /\ SubSeq(BitsOut, 2, Width) = access.a
         /\ access.op = "push" => BitsOut = access.v
<1>1. 0 \in Bit /\ 1 \in Bit /\ Zeros \in Byte
  BY OnesZeros DEF Bit
<1>2. CASE access.op = "write"
  <2>1. access.a \in Addr /\ access.v \in Byte
    BY <1>2, AccessCases
  <2>2. BitsOut = FrameOf(0, access.a, access.v)
    BY <1>2 DEF BitsOut, FrameOf
  <2>3. /\ BitsOut \in Seq(Bit) /\ Len(BitsOut) = 2 * Width
        /\ BitsOut[1] = 0 /\ SubSeq(BitsOut, 2, Width) = access.a
        /\ SubSeq(BitsOut, Width + 1, 2 * Width) = access.v
    BY <2>1, <2>2, <1>1, FrameOfBits
  <2>4. QED  BY <2>3, <1>2 DEF OnRegisters
<1>3. CASE access.op = "read"
  <2>1. access.a \in Addr
    BY <1>3, AccessCases
  <2>2. BitsOut = FrameOf(1, access.a, Zeros)
    BY <1>3 DEF BitsOut, FrameOf
  <2>3. /\ BitsOut \in Seq(Bit) /\ Len(BitsOut) = 2 * Width
        /\ BitsOut[1] = 1 /\ SubSeq(BitsOut, 2, Width) = access.a
    BY <2>1, <2>2, <1>1, FrameOfBits
  <2>4. QED  BY <2>3, <1>3 DEF OnRegisters
<1>4. CASE access.op = "push"
  <2>1. access.v \in Byte /\ BitsOut = access.v
    BY <1>4, AccessCases DEF BitsOut
  <2>2. QED  BY <2>1, <1>4, ByteFacts DEF OnRegisters
<1>5. CASE access.op = "pop"
  <2>1. BitsOut = Zeros
    BY <1>5 DEF BitsOut
  <2>2. QED  BY <2>1, <1>1, <1>5, ByteFacts DEF OnRegisters
<1>6. QED  BY <1>2, <1>3, <1>4, <1>5, AccessCases

\* A sequence grows by its next element, and loses its first.
LEMMA NextOfPrefix ==
  ASSUME NEW s \in Seq(Bit), NEW n \in 1..Len(s)
  PROVE  Append(SubSeq(s, 1, n - 1), s[n]) = SubSeq(s, 1, n)
<1>1. Len(s) \in Nat /\ 1 \in 1..Len(s) /\ n \in 1..Len(s) /\ n \in Int /\ n - 1 \in Int
  BY LenProperties
<1>2. SubSeq(s, 1, n) = SubSeq(s, 1, n - 1) \o <<s[n]>>
  BY <1>1, SubSeqRecursiveSecond
<1>3. SubSeq(s, 1, n - 1) \in Seq(Bit) /\ s[n] \in Bit
  <2>1. \A i \in 1..(n - 1) : s[i] \in Bit
    BY <1>1, ElementOfSeq
  <2>2. SubSeq(s, 1, n - 1) \in Seq(Bit)
    BY <2>1, <1>1, SubSeqProperties
  <2>3. QED  BY <2>2, ElementOfSeq
<1>4. Append(SubSeq(s, 1, n - 1), s[n]) = SubSeq(s, 1, n - 1) \o <<s[n]>>
  BY <1>3, AppendIsConcat
<1>5. QED  BY <1>2, <1>4

LEMMA PrefixFacts ==
  ASSUME NEW s \in Seq(Bit), NEW n \in 0..Len(s)
  PROVE  /\ SubSeq(s, 1, n) \in Seq(Bit) /\ Len(SubSeq(s, 1, n)) = n
         /\ \A i \in 1..n : SubSeq(s, 1, n)[i] = s[i]
<1>1. Len(s) \in Nat /\ 1 \in Int /\ n \in Int /\ 0 <= n /\ n <= Len(s)
  BY LenProperties
<1>2. \A i \in 1..n : s[i] \in Bit
  BY <1>1, ElementOfSeq
<1>3. /\ SubSeq(s, 1, n) \in Seq(Bit)
      /\ Len(SubSeq(s, 1, n)) = IF 1 <= n THEN n - 1 + 1 ELSE 0
      /\ \A i \in 1..n - 1 + 1 : SubSeq(s, 1, n)[i] = s[1 + i - 1]
  BY <1>1, <1>2, SubSeqProperties
<1>4. Len(SubSeq(s, 1, n)) = n
  BY <1>1, <1>3
<1>5. \A i \in 1..n : SubSeq(s, 1, n)[i] = s[i]
  BY <1>1, <1>3
<1>6. QED  BY <1>3, <1>4, <1>5

LEMMA RestOfSuffix ==
  ASSUME NEW s \in Seq(Bit), NEW n \in 1..Len(s)
  PROVE  /\ SubSeq(s, n, Len(s)) # <<>> /\ SubSeq(s, n, Len(s)) \in Seq(Bit)
         /\ Head(SubSeq(s, n, Len(s))) = s[n]
         /\ Tail(SubSeq(s, n, Len(s))) = SubSeq(s, n + 1, Len(s))
<1>1. Len(s) \in Nat /\ n \in Int /\ 1 <= n /\ n <= Len(s) /\ Len(s) \in n..Len(s)
  BY LenProperties
<1>2. /\ Head(SubSeq(s, n, Len(s))) = s[n]
      /\ Tail(SubSeq(s, n, Len(s))) = SubSeq(s, n + 1, Len(s))
  BY <1>1, HeadTailOfSubSeq
<1>3. \A i \in n..Len(s) : s[i] \in Bit
  BY <1>1, ElementOfSeq
<1>4. /\ SubSeq(s, n, Len(s)) \in Seq(Bit)
      /\ Len(SubSeq(s, n, Len(s))) = IF n <= Len(s) THEN Len(s) - n + 1 ELSE 0
  BY <1>1, <1>3, SubSeqProperties
<1>5. SubSeq(s, n, Len(s)) # <<>>
  <2>1. Len(SubSeq(s, n, Len(s))) # 0
    BY <1>1, <1>4
  <2>2. Len(<<>>) = 0
    BY EmptySeq
  <2>3. QED  BY <2>1, <2>2, Zenon
<1>6. QED  BY <1>2, <1>4, <1>5

------------------------------------------------------------------------------
(* Parts of the invariant.                                                  *)

StageTyped ==
  /\ call \in {"none", "reg", "look", "turn"} /\ left \in Seq(Byte) /\ turnTo \in Bit
  /\ pc \in {"idle", "select", "drive", "raise", "sample", "lower", "deselect", "next"}

BitsTyped ==
  /\ k \in 1..(2 * Width) /\ r \in Seq(Bit) /\ Len(r) <= Width
  /\ csb \in Bit /\ fcsb \in Bit /\ sck \in Bit /\ sdio \in Bit /\ dir \in {"output", "input", "pullup"}

ChipTyped ==
  /\ regs \in [Addr -> Byte] /\ fifo \in Seq(Byte)
  /\ taken \in Seq(Bit) /\ chipOut \in Seq(Bit)
  /\ latched \in Byte \cup {<<>>} /\ reply \in Byte \cup {<<>>}

LEMMA TypeParts ==
  /\ TypeOK <=> StageTyped /\ BitsTyped /\ ChipTyped
  /\ TypeOK' <=> StageTyped' /\ BitsTyped' /\ ChipTyped'
  BY Zenon DEF TypeOK, StageTyped, BitsTyped, ChipTyped

\* The empty sequence and its uses as "no bits", "no value".
LEMMA NoBits ==
  /\ \A S : <<>> \in Seq(S) /\ Len(<<>>) = 0
  /\ \A s : SubSeq(s, 1, 0) = <<>>
  /\ \A v \in Byte : v # <<>>
<1>1. \A S : <<>> \in Seq(S) /\ Len(<<>>) = 0
  BY EmptySeq
<1>2. \A s : SubSeq(s, 1, 0) = <<>>
  BY SubSeqEmpty
<1>3. \A v \in Byte : v # <<>>
  BY ByteFacts
<1>4. QED  BY <1>1, <1>2, <1>3

LEMMA CallUntouched ==
  ASSUME CallFollows, call' = call, access' = access,
         pc \notin {"idle", "next"}, pc' \notin {"idle", "next"}
  PROVE  CallFollows'
<1>1. access \in Above!Accesses
  BY DEF CallFollows
<1>2. access # NoAccess
  BY <1>1, NoAccessFacts
<1>3. call = "look" => access = Look
  BY DEF CallFollows
<1>4. QED  BY <1>1, <1>2, <1>3 DEF CallFollows

LEMMA MergeUntouched ==
  ASSUME MergeFollows, regs'[IoSel] = regs[IoSel], access' = access, latched' = latched,
         pc' # "next"
  PROVE  MergeFollows'
  BY DEF MergeFollows, MergeKept

\* In the course of an access, the bits to be given are known.
LEMMA MovingFacts ==
  ASSUME IInv, Moving
  PROVE  /\ access \in Above!Accesses /\ access # NoAccess
         /\ BitsOut \in Seq(Bit) /\ Len(BitsOut) \in Nat
         /\ Len(BitsOut) = IF OnRegisters THEN 2 * Width ELSE Width
         /\ AtBit => k \in 1..Len(BitsOut) /\ BitsOut[k] \in Bit
<1>1. access \in Above!Accesses /\ access # NoAccess
  BY NoAccessFacts DEF IInv, CallFollows, Moving
<1>2. /\ BitsOut \in Seq(Bit)
      /\ Len(BitsOut) = IF OnRegisters THEN 2 * Width ELSE Width
  BY <1>1, BitsOutFacts
<1>3. Len(BitsOut) \in Nat
  BY <1>2, LenProperties
<1>4. AtBit => k \in 1..Len(BitsOut)
  BY DEF IInv, TakenFollows
<1>5. AtBit => BitsOut[k] \in Bit
  BY <1>2, <1>4, ElementOfSeq
<1>6. QED  BY <1>1, <1>2, <1>3, <1>4, <1>5

\* An access that moves no bits is not done; one that does is done when the
\* chip has a value to send or has taken in all bits it is given.
LEMMA DoneFacts ==
  ASSUME IInv
  PROVE  /\ ~Moving => ~Done
         /\ latched # <<>> => Done
         /\ Moving /\ latched = <<>> =>
              (Done <=> access.op \in {"write", "push"} /\ Len(taken) = Len(BitsOut))
<1>1. ~Moving => ~Done
  <2> SUFFICES ASSUME ~Moving PROVE ~Done
    OBVIOUS
  <2>1. latched = <<>> /\ taken = <<>>
    BY DEF IInv, TakenFollows
  <2>2. Len(taken) = 0
    BY <2>1, NoBits
  <2>3. Len(taken) # 2 * Width /\ Len(taken) # Width
    BY <2>2, WidthFacts
  <2>4. QED  BY <2>1, <2>3 DEF Done
<1>2. latched # <<>> => Done
  BY DEF Done
<1>3. Moving /\ latched = <<>> =>
        (Done <=> access.op \in {"write", "push"} /\ Len(taken) = Len(BitsOut))
  <2> SUFFICES ASSUME Moving, latched = <<>>
               PROVE  Done <=> access.op \in {"write", "push"} /\ Len(taken) = Len(BitsOut)
    OBVIOUS
  <2>1. Len(BitsOut) = IF OnRegisters THEN 2 * Width ELSE Width
    BY MovingFacts
  <2>2. access.op = "write" => Len(BitsOut) = 2 * Width
    BY <2>1 DEF OnRegisters
  <2>3. access.op = "push" => Len(BitsOut) = Width
    BY <2>1 DEF OnRegisters
  <2>4. QED  BY <2>2, <2>3, Zenon DEF Done
<1>4. QED  BY <1>1, <1>2, <1>3

\* What changes nothing seen from above is no step there.
LEMMA SameAbove ==
  ASSUME regs' = regs, fifo' = fifo, access' = access, latched' = latched,
         reply' = reply, Done' <=> Done
  PROVE  UNCHANGED Above!vars
<1>1. Done' = Done
  BY DEF Done
<1>2. QED  BY <1>1 DEF Above!vars

------------------------------------------------------------------------------
(* Initially, no access is under way.                                       *)

LEMMA InitInvariant == Init => IInv /\ Above!Init
<1> SUFFICES ASSUME Init PROVE IInv /\ Above!Init
  OBVIOUS
<1>1. /\ call = "none" /\ pc = "idle" /\ access = NoAccess /\ csb = 1 /\ fcsb = 1 /\ k = 1
      /\ r = <<>> /\ taken = <<>> /\ latched = <<>> /\ chipOut = <<>> /\ reply = <<>>
      /\ fifo = <<>> /\ left = <<>>
  BY DEF Init
<1>2. regs \in [Addr -> Byte] /\ regs[IoSel][1] = 1
  BY DEF Init
<1>3. Len(<<>>) = 0 /\ \A S : <<>> \in Seq(S)
  BY NoBits
<1>4. StageTyped
  BY <1>1, <1>3 DEF Init, StageTyped, Bit
<1>5. BitsTyped
  <2>1. k \in 1..(2 * Width)
    BY <1>1, WidthFacts
  <2>2. r \in Seq(Bit) /\ Len(r) <= Width
    BY <1>1, <1>3, WidthFacts
  <2>3. csb \in Bit /\ fcsb \in Bit /\ sck \in Bit /\ sdio \in Bit /\ dir = "output"
    BY DEF Init, Bit
  <2>4. QED  BY <2>1, <2>2, <2>3, Zenon DEF BitsTyped
<1>6. ChipTyped
  BY <1>1, <1>2, <1>3, Zenon DEF ChipTyped
<1>7. ~Moving /\ ~AtBit
  BY <1>1 DEF Moving, AtBit
<1>8. CallFollows
  BY <1>1 DEF CallFollows
<1>9. MergeFollows
  <2>1. access.op = "none"
    BY <1>1, NoAccessFacts
  <2>2. QED  BY <2>1, <1>1, <1>2 DEF MergeFollows, MergeKept
<1>10. PinsFollow /\ TakenFollows /\ SentFollows
  BY <1>1, <1>7 DEF PinsFollow, TakenFollows, SentFollows
<1>11. IInv
  BY <1>4, <1>5, <1>6, <1>8, <1>9, <1>10, TypeParts DEF IInv
<1>12. ~Done
  BY <1>7, <1>11, DoneFacts
<1>13. access = Above!NoAccess
  BY <1>1, NoAccessFacts
<1>14. QED  BY <1>1, <1>2, <1>11, <1>12, <1>13 DEF Above!Init

------------------------------------------------------------------------------
(* The driver's calls.                                                      *)

\* An access is begun, by a new call or the stage of one.
LEMMA BeginKeeps ==
  ASSUME IInv, pc \in {"idle", "next"}, pc' = "select",
         access' \in Above!Accesses, reply' = <<>>,
         UNCHANGED <<k, r, pins, regs, fifo, chip>>,
         call' \in {"reg", "look", "turn"}, left' \in Seq(Byte), turnTo' \in Bit,
         call' = "look" => access' = Look,
         access'.op = "write" /\ access'.a = IoSel => access'.v[1] = 1
  PROVE  IInv' /\ Above!Call
<1>1. /\ k' = k /\ r' = r /\ csb' = csb /\ fcsb' = fcsb /\ sck' = sck /\ sdio' = sdio /\ dir' = dir
      /\ regs' = regs /\ fifo' = fifo
      /\ taken' = taken /\ latched' = latched /\ chipOut' = chipOut
  BY DEF pins, chip
<1>2. ~Moving /\ ~Moving' /\ ~AtBit'
  BY DEF Moving, AtBit
<1>3. taken = <<>> /\ latched = <<>> /\ chipOut = <<>> /\ r = <<>> /\ csb = 1 /\ fcsb = 1
  BY <1>2 DEF IInv, TakenFollows, PinsFollow
<1>4. TypeOK'
  <2>1. StageTyped /\ BitsTyped /\ ChipTyped
    BY TypeParts DEF IInv
  <2>2. StageTyped'
    BY DEF StageTyped
  <2>3. BitsTyped'
    BY <2>1, <1>1 DEF BitsTyped
  <2>4. ChipTyped'
    BY <2>1, <1>1, Zenon DEF ChipTyped
  <2>5. QED  BY <2>2, <2>3, <2>4, TypeParts
<1>5. CallFollows'
  <2>1. access' # NoAccess
    BY NoAccessFacts
  <2>2. QED  BY <2>1 DEF CallFollows
<1>6. MergeFollows'
  BY <1>1, <1>3 DEF IInv, MergeFollows, MergeKept
<1>7. PinsFollow' /\ TakenFollows' /\ SentFollows'
  BY <1>1, <1>2, <1>3 DEF PinsFollow, TakenFollows, SentFollows
<1>8. IInv'
  BY <1>4, <1>5, <1>6, <1>7 DEF IInv
<1>9. ~Done /\ ~Done'
  <2>1. ~Done
    BY <1>2, DoneFacts
  <2>2. access'.op \in {"write", "push"} => Len(taken') = 0
    BY <1>1, <1>3, NoBits
  <2>3. 2 * Width # 0 /\ Width # 0
    BY WidthFacts
  <2>4. ~Done'
    BY <2>2, <2>3, <1>1, <1>3 DEF Done
  <2>5. QED  BY <2>1, <2>4
<1>10. Above!Call
  <2>1. access = Above!NoAccess
    BY NoAccessFacts DEF IInv, CallFollows
  <2>2. Done' = Done
    BY <1>9 DEF Done
  <2>3. QED  BY <2>1, <2>2, <1>1, Zenon DEF Above!Call
<1>11. QED  BY <1>8, <1>10

\* The accesses the calls begin with.
LEMMA AccessesMade ==
  /\ \A a \in Addr, v \in Byte : [op |-> "write", a |-> a, v |-> v] \in Above!Accesses
  /\ \A a \in Addr : [op |-> "read", a |-> a] \in Above!Accesses
  /\ \A v \in Byte : [op |-> "push", v |-> v] \in Above!Accesses
  /\ [op |-> "pop"] \in Above!Accesses
  /\ Look \in Above!Accesses /\ Look.op = "read" /\ Look.a = IoSel
  BY WidthFacts DEF Above!Accesses, Look

LEMMA CallsKeep ==
  ASSUME IInv, writeReg \/ readReg \/ writeFifo \/ readFifo
  PROVE  IInv' /\ Above!Call
<1>1. CASE writeReg
  <2>1. PICK a \in Addr \ {IoSel}, v \in Byte :
          Start("reg", <<>>, 0, [op |-> "write", a |-> a, v |-> v])
    BY <1>1 DEF writeReg
  <2>2. /\ pc = "idle" /\ pc' = "select" /\ call' = "reg" /\ left' = <<>> /\ turnTo' = 0
        /\ access' = [op |-> "write", a |-> a, v |-> v] /\ reply' = <<>>
        /\ UNCHANGED <<k, r, pins, regs, fifo, chip>>
    BY <2>1, Zenon DEF Start
  <2>3. left' \in Seq(Byte) /\ turnTo' \in Bit
    BY <2>2, NoBits DEF Bit
  <2>4. access' \in Above!Accesses
    BY <2>1, <2>2, AccessesMade
  <2>5. access'.a # IoSel
    BY <2>1, <2>2
  <2>6. QED  BY <2>2, <2>3, <2>4, <2>5, BeginKeeps
<1>2. CASE readReg
  <2>1. PICK a \in Addr : Start("reg", <<>>, 0, [op |-> "read", a |-> a])
    BY <1>2 DEF readReg
  <2>2. /\ pc = "idle" /\ pc' = "select" /\ call' = "reg" /\ left' = <<>> /\ turnTo' = 0
        /\ access' = [op |-> "read", a |-> a] /\ reply' = <<>>
        /\ UNCHANGED <<k, r, pins, regs, fifo, chip>>
    BY <2>1, Zenon DEF Start
  <2>3. left' \in Seq(Byte) /\ turnTo' \in Bit
    BY <2>2, NoBits DEF Bit
  <2>4. access' \in Above!Accesses
    BY <2>2, AccessesMade
  <2>5. access'.op # "write"
    BY <2>2
  <2>6. QED  BY <2>2, <2>3, <2>4, <2>5, BeginKeeps
<1>3. CASE writeFifo
  <2>1. PICK n \in 1..MaxBytes : \E data \in [1..n -> Byte] :
          Len(fifo) + n <= MaxFifo /\ Start("look", data, 1, Look)
    BY <1>3 DEF writeFifo
  <2>2. PICK data \in [1..n -> Byte] : Start("look", data, 1, Look)
    BY <2>1
  <2>3. /\ pc = "idle" /\ pc' = "select" /\ call' = "look" /\ left' = data /\ turnTo' = 1
        /\ access' = Look /\ reply' = <<>>
        /\ UNCHANGED <<k, r, pins, regs, fifo, chip>>
    BY <2>2, Zenon DEF Start
  <2>4. n \in Nat
    BY WidthFacts
  <2>5. left' \in Seq(Byte) /\ turnTo' \in Bit
    BY <2>2, <2>3, <2>4, SeqDef DEF Bit
  <2>6. access' \in Above!Accesses /\ access'.op # "write"
    BY <2>3, AccessesMade
  <2>7. QED  BY <2>3, <2>5, <2>6, BeginKeeps
<1>4. CASE readFifo
  <2>1. PICK n \in 1..MaxBytes : Start("look", [i \in 1..n |-> Zeros], 0, Look)
    BY <1>4 DEF readFifo
  <2>2. /\ pc = "idle" /\ pc' = "select" /\ call' = "look" /\ left' = [i \in 1..n |-> Zeros]
        /\ turnTo' = 0 /\ access' = Look /\ reply' = <<>>
        /\ UNCHANGED <<k, r, pins, regs, fifo, chip>>
    BY <2>1, Zenon DEF Start
  <2>3. n \in Nat /\ [i \in 1..n |-> Zeros] \in [1..n -> Byte]
    BY WidthFacts, OnesZeros
  <2>4. left' \in Seq(Byte) /\ turnTo' \in Bit
    BY <2>2, <2>3, SeqDef DEF Bit
  <2>5. access' \in Above!Accesses /\ access'.op # "write"
    BY <2>2, AccessesMade
  <2>6. QED  BY <2>2, <2>4, <2>5, BeginKeeps
<1>5. QED  BY <1>1, <1>2, <1>3, <1>4

LEMMA TurnFifoKeeps ==
  ASSUME IInv, TurnFifo
  PROVE  IInv' /\ Above!Call
<1>1. /\ pc = "next" /\ call = "look" /\ pc' = "select" /\ call' = "turn" /\ reply' = <<>>
      /\ access' = [op |-> "write", a |-> IoSel, v |-> [reply EXCEPT ![Width] = turnTo]]
      /\ left' = left /\ turnTo' = turnTo
      /\ UNCHANGED <<k, r, pins, regs, fifo, chip>>
  BY Zenon DEF TurnFifo
<1>2. reply \in Byte /\ reply[1] = 1 /\ left \in Seq(Byte) /\ turnTo \in Bit
  BY <1>1 DEF IInv, CallFollows, MergeFollows, TypeOK
<1>3. /\ [reply EXCEPT ![Width] = turnTo] \in Byte
      /\ [reply EXCEPT ![Width] = turnTo][1] = 1
  BY <1>2, WidthFacts DEF Byte
<1>4. access' \in Above!Accesses /\ access'.v[1] = 1
  BY <1>1, <1>3, WidthFacts, AccessesMade
<1>5. QED  BY <1>1, <1>2, <1>4, BeginKeeps

LEMMA NextByteKeeps ==
  ASSUME IInv, NextByte
  PROVE  IInv' /\ Above!Call
<1>1. /\ pc = "next" /\ call = "turn" /\ left # <<>> /\ pc' = "select" /\ call' = call
      /\ reply' = <<>>
      /\ access' = IF turnTo = 1 THEN [op |-> "push", v |-> Head(left)] ELSE [op |-> "pop"]
      /\ left' = Tail(left) /\ turnTo' = turnTo
      /\ UNCHANGED <<k, r, pins, regs, fifo, chip>>
  BY Zenon DEF NextByte
<1>2. left \in Seq(Byte) /\ turnTo \in Bit
  BY DEF IInv, TypeOK
<1>3. Head(left) \in Byte /\ Tail(left) \in Seq(Byte)
  BY <1>1, <1>2, HeadTailProperties
<1>4. access' \in Above!Accesses /\ access'.op # "write"
  <2>1. CASE turnTo = 1
    <3>1. access' = [op |-> "push", v |-> Head(left)]
      BY <2>1, <1>1
    <3>2. QED  BY <3>1, <1>3, AccessesMade
  <2>2. CASE turnTo # 1
    <3>1. access' = [op |-> "pop"]
      BY <2>2, <1>1
    <3>2. QED  BY <3>1, AccessesMade
  <2>3. QED  BY <2>1, <2>2
<1>5. QED  BY <1>1, <1>2, <1>3, <1>4, BeginKeeps

LEMMA EndCallKeeps ==
  ASSUME IInv, EndCall
  PROVE  IInv' /\ UNCHANGED Above!vars
<1>1. /\ pc = "next" /\ call' = "none" /\ pc' = "idle"
      /\ UNCHANGED <<left, turnTo, access, k, r, pins, regs, fifo, chip, reply>>
  BY DEF EndCall
<1>2. /\ csb' = csb /\ fcsb' = fcsb /\ sck' = sck /\ sdio' = sdio /\ dir' = dir
      /\ taken' = taken /\ latched' = latched /\ chipOut' = chipOut
  BY <1>1 DEF pins, chip
<1>3. ~Moving /\ ~Moving' /\ ~AtBit'
  BY <1>1 DEF Moving, AtBit
<1>4. TypeOK'
  <2>1. StageTyped /\ BitsTyped /\ ChipTyped
    BY TypeParts DEF IInv
  <2>2. StageTyped'
    BY <2>1, <1>1 DEF StageTyped
  <2>3. BitsTyped'
    BY <2>1, <1>1, <1>2 DEF BitsTyped
  <2>4. ChipTyped'
    BY <2>1, <1>1, <1>2, Zenon DEF ChipTyped
  <2>5. QED  BY <2>2, <2>3, <2>4, TypeParts
<1>5. CallFollows' /\ MergeFollows'
  <2>1. access = NoAccess
    BY <1>1 DEF IInv, CallFollows
  <2>2. CallFollows'
    BY <2>1, <1>1 DEF CallFollows
  <2>3. MergeFollows'
    BY <1>1, <1>2 DEF IInv, MergeFollows, MergeKept
  <2>4. QED  BY <2>2, <2>3
<1>6. PinsFollow' /\ TakenFollows' /\ SentFollows'
  <2>1. PinsFollow /\ TakenFollows
    BY DEF IInv
  <2>2. PinsFollow'
    BY <2>1, <1>1, <1>2, <1>3 DEF PinsFollow
  <2>3. taken' = <<>> /\ latched' = <<>> /\ chipOut' = <<>> /\ r' = <<>>
    BY <2>1, <1>1, <1>2, <1>3 DEF TakenFollows
  <2>4. QED  BY <2>2, <2>3, <1>3 DEF TakenFollows, SentFollows
<1>7. IInv'
  BY <1>4, <1>5, <1>6 DEF IInv
<1>8. Done' <=> Done
  BY <1>1, <1>2 DEF Done
<1>9. QED  BY <1>1, <1>2, <1>7, <1>8, SameAbove

------------------------------------------------------------------------------
(* One access, edge by edge.                                                *)

LEMMA SelectKeeps ==
  ASSUME IInv, Select
  PROVE  IInv' /\ (Above!Pop \/ UNCHANGED Above!vars)
<1>1. /\ pc = "select" /\ pc' = "drive" /\ k' = 1 /\ access' = access /\ call' = call
      /\ left' = left /\ turnTo' = turnTo /\ r' = r /\ sck' = sck /\ sdio' = sdio
      /\ regs' = regs /\ taken' = taken /\ reply' = reply
      /\ IF OnRegisters THEN csb' = 0 /\ UNCHANGED fcsb ELSE fcsb' = 0 /\ UNCHANGED csb
  BY DEF Select, driver
<1>2. ~Moving /\ Moving' /\ AtBit'
  BY <1>1 DEF Moving, AtBit
<1>3. taken = <<>> /\ latched = <<>> /\ chipOut = <<>> /\ r = <<>> /\ csb = 1 /\ fcsb = 1
  BY <1>2 DEF IInv, TakenFollows, PinsFollow
<1>4. access \in Above!Accesses /\ access # NoAccess
  BY <1>1, NoAccessFacts DEF IInv, CallFollows
<1>5. BitsOut' = BitsOut /\ (OnRegisters' <=> OnRegisters)
  BY <1>1 DEF BitsOut, OnRegisters
<1>6. Len(BitsOut) \in Nat /\ Len(BitsOut) >= 2
  BY <1>4, BitsOutFacts, WidthFacts
<1>7. StageTyped /\ BitsTyped /\ ChipTyped
  BY TypeParts DEF IInv
<1>8. StageTyped'
  BY <1>1, <1>7 DEF StageTyped
<1>9. csb' \in Bit /\ fcsb' \in Bit
  BY <1>1, <1>3 DEF Bit
<1>10. k' \in 1..(2 * Width) /\ r' \in Seq(Bit) /\ Len(r') <= Width /\ Len(r') = 0
  BY <1>1, <1>3, NoBits, WidthFacts
<1>11. CallFollows'
  BY <1>1, CallUntouched DEF IInv
<1>12. /\ csb' = (IF Moving' /\ OnRegisters' THEN 0 ELSE 1)
       /\ fcsb' = (IF Moving' /\ ~OnRegisters' THEN 0 ELSE 1)
  BY <1>1, <1>2, <1>3, <1>5
<1>13. Given' = 0 /\ k' <= Width /\ k' \in 1..Len(BitsOut')
  BY <1>1, <1>5, <1>6, WidthFacts DEF Given
<1>14. CASE access.op = "pop"
  <2> DEFINE empty == fifo = <<>> \/ Turned(regs)
  <2>1. /\ dir' = "pullup"
        /\ latched' = IF empty THEN Ones ELSE Head(fifo)
        /\ chipOut' = IF empty THEN <<>> ELSE Head(fifo)
        /\ fifo' = IF empty THEN fifo ELSE Tail(fifo)
    BY <1>14 DEF Select
  <2>2. fifo \in Seq(Byte)
    BY <1>7 DEF ChipTyped
  <2>3. ~empty => Head(fifo) \in Byte /\ Tail(fifo) \in Seq(Byte)
    BY <2>2, HeadTailProperties
  <2>4. latched' \in Byte /\ fifo' \in Seq(Byte)
    BY <2>1, <2>2, <2>3, OnesZeros
  <2>5. latched' # <<>> /\ SubSeq(latched', 1, Width) = latched' /\ latched' \in Seq(Bit)
    BY <2>4, ByteFacts
  <2>6. chipOut' = latched' \/ (chipOut' = <<>> /\ latched' = Ones)
    BY <2>1
  <2>7. TypeOK'
    <3>1. BitsTyped'
      BY <2>1, <1>1, <1>7, <1>9, <1>10 DEF BitsTyped
    <3>2. chipOut' \in Seq(Bit)
      BY <2>5, <2>6, NoBits
    <3>3. ChipTyped'
      BY <2>4, <3>2, <1>1, <1>7, Zenon DEF ChipTyped
    <3>4. QED  BY <3>1, <3>3, <1>8, TypeParts
  <2>8. MergeFollows'
    <3>1. access # Look
      BY <1>14, AccessesMade
    <3>2. QED  BY <3>1, <1>1, <1>14 DEF IInv, MergeFollows, MergeKept
  <2>9. PinsFollow'
    BY <2>1, <1>1, <1>12 DEF PinsFollow
  <2>10. TakenFollows'
    BY <2>5, <1>1, <1>2, <1>13, <1>14 DEF TakenFollows
  <2>11. SentFollows'
    <3>1. Showing' = 1
      BY <1>1, <1>14 DEF Showing
    <3>2. SubSeq(latched', 1, Showing' - 1) = r'
      BY <3>1, <1>1, <1>3, NoBits
    <3>3. Len(r') = IF pc' = "lower"
                    THEN IF k' <= Width THEN k' ELSE k' - Width
                    ELSE IF k' <= Width + 1 THEN k' - 1 ELSE k' - Width - 1
      BY <1>1, <1>10, WidthFacts
    <3>4. chipOut' = SubSeq(latched', Showing', Width)
          \/ (chipOut' = <<>> /\ latched' = Ones /\ access'.op = "pop")
      BY <3>1, <2>5, <2>6, <1>1, <1>14
    <3>5. QED  BY <3>2, <3>3, <3>4, <1>1, Zenon DEF SentFollows
  <2>12. Above!Pop
    <3>1. ~Done
      BY <1>2, DoneFacts
    <3>2. Done'
      BY <2>5 DEF Done
    <3>3. Above!Pending("pop")
      BY <3>1, <1>14 DEF Above!Pending
    <3>4. IF fifo = <<>> \/ Turned(regs)
          THEN latched' = Ones /\ UNCHANGED fifo
          ELSE latched' = Head(fifo) /\ fifo' = Tail(fifo)
      BY <2>1
    <3>5. QED  BY <3>2, <3>3, <3>4, <1>1, Zenon DEF Above!Pop
  <2>13. QED  BY <2>7, <2>8, <2>9, <2>10, <2>11, <2>12, <1>11 DEF IInv
<1>15. CASE access.op # "pop"
  <2>1. dir' = dir /\ latched' = latched /\ chipOut' = chipOut /\ fifo' = fifo
    BY <1>15 DEF Select
  <2>2. TypeOK'
    <3>1. BitsTyped'
      BY <2>1, <1>1, <1>7, <1>9, <1>10 DEF BitsTyped
    <3>2. ChipTyped'
      BY <2>1, <1>1, <1>7, Zenon DEF ChipTyped
    <3>3. QED  BY <3>1, <3>2, <1>8, TypeParts
  <2>3. MergeFollows'
    BY <2>1, <1>1, MergeUntouched DEF IInv
  <2>4. PinsFollow'
    BY <1>1, <1>12, <1>15 DEF PinsFollow
  <2>5. TakenFollows'
    <3>1. SubSeq(BitsOut', 1, Given') = <<>>
      BY <1>13, NoBits
    <3>2. QED  BY <2>1, <3>1, <1>1, <1>2, <1>3, <1>13, <1>15 DEF TakenFollows
  <2>6. SentFollows'
    <3>1. Len(r') = IF pc' = "lower"
                    THEN IF k' <= Width THEN k' ELSE k' - Width
                    ELSE IF k' <= Width + 1 THEN k' - 1 ELSE k' - Width - 1
      BY <1>1, <1>10, WidthFacts
    <3>2. QED  BY <2>1, <3>1, <1>3, Zenon DEF SentFollows
  <2>7. IInv'
    BY <2>2, <2>3, <2>4, <2>5, <2>6, <1>11 DEF IInv
  <2>8. Done' <=> Done
    BY <2>1, <1>1 DEF Done
  <2>9. QED  BY <2>1, <2>7, <2>8, <1>1, SameAbove
<1>16. QED  BY <1>14, <1>15

LEMMA DriveKeeps ==
  ASSUME IInv, Drive
  PROVE  IInv' /\ UNCHANGED Above!vars
<1>1. /\ pc = "drive" /\ pc' = "raise" /\ access' = access /\ call' = call /\ k' = k /\ r' = r
      /\ left' = left /\ turnTo' = turnTo /\ csb' = csb /\ fcsb' = fcsb /\ sck' = sck
      /\ regs' = regs /\ fifo' = fifo /\ taken' = taken /\ latched' = latched
      /\ chipOut' = chipOut /\ reply' = reply
      /\ IF access.op = "pop" THEN UNCHANGED <<sdio, dir>> ELSE dir' = "output" /\ sdio' = BitsOut[k]
  BY DEF Drive, driver, chip
<1>2. Moving /\ AtBit /\ Moving' /\ AtBit'
  BY <1>1 DEF Moving, AtBit
<1>3. /\ BitsOut' = BitsOut /\ (OnRegisters' <=> OnRegisters) /\ Showing' = Showing
      /\ Given' = Given
  BY <1>1 DEF BitsOut, OnRegisters, Showing, Given
<1>4. BitsOut[k] \in Bit
  BY <1>2, MovingFacts
<1>5. TypeOK'
  <2>1. StageTyped /\ BitsTyped /\ ChipTyped
    BY TypeParts DEF IInv
  <2>2. StageTyped'
    BY <2>1, <1>1 DEF StageTyped
  <2>3. sdio' \in Bit /\ dir' \in {"output", "input", "pullup"}
    BY <2>1, <1>1, <1>4 DEF BitsTyped
  <2>4. BitsTyped'
    BY <2>1, <2>3, <1>1, Zenon DEF BitsTyped
  <2>5. ChipTyped'
    BY <2>1, <1>1, Zenon DEF ChipTyped
  <2>6. QED  BY <2>2, <2>4, <2>5, TypeParts
<1>6. CallFollows' /\ MergeFollows'
  BY <1>1, CallUntouched, MergeUntouched DEF IInv
<1>7. PinsFollow'
  BY <1>1, <1>2, <1>3 DEF IInv, PinsFollow
<1>8. TakenFollows'
  BY <1>1, <1>2, <1>3 DEF IInv, TakenFollows
<1>9. SentFollows'
  <2>1. SentFollows
    BY DEF IInv
  <2>2. pc # "lower" /\ pc' # "lower" /\ pc' # "deselect"
    BY <1>1
  <2>3. QED  BY <2>1, <2>2, <1>1, <1>2, <1>3, Zenon DEF SentFollows
<1>10. IInv'
  BY <1>5, <1>6, <1>7, <1>8, <1>9 DEF IInv
<1>11. Done' <=> Done
  BY <1>1 DEF Done
<1>12. QED  BY <1>1, <1>10, <1>11, SameAbove

\* At the rising edge, while it still takes bits, the chip finds the driver's
\* on the line.
LEMMA ChipFindsBit ==
  ASSUME IInv, Raise, latched = <<>>
  PROVE  /\ ChipTakes(BitsOut[k]) /\ access.op # "pop"
         /\ taken' = SubSeq(BitsOut, 1, k) /\ k \in 1..Len(BitsOut)
         /\ access.op = "read" => k <= Width
<1>1. pc = "raise" /\ Moving /\ AtBit
  BY DEF Raise, Moving, AtBit
<1>2. /\ access.op # "pop" /\ chipOut = <<>> /\ taken = SubSeq(BitsOut, 1, Given)
      /\ access.op = "read" => k <= Width
  BY <1>1 DEF IInv, TakenFollows
<1>3. dir = "output" /\ sdio = BitsOut[k]
  BY <1>1, <1>2 DEF IInv, PinsFollow
<1>4. Line(dir) = {BitsOut[k]}
  BY <1>2, <1>3 DEF Line
<1>5. ChipTakes(BitsOut[k])
  BY <1>4 DEF Raise
<1>6. k \in 1..Len(BitsOut) /\ BitsOut \in Seq(Bit)
  BY <1>1, MovingFacts
<1>7. Given = k - 1
  BY <1>1 DEF Given
<1>8. taken' = Append(taken, BitsOut[k])
  BY <1>5, Zenon DEF ChipTakes
<1>9. taken' = SubSeq(BitsOut, 1, k)
  BY <1>2, <1>6, <1>7, <1>8, NextOfPrefix
<1>10. QED  BY <1>2, <1>5, <1>6, <1>9

\* A write takes effect with its last bit and a push with its last; nothing
\* else changes the registers or the FIFO at a rising edge.
LEMMA RaiseActs ==
  ASSUME IInv, Raise, latched = <<>>
  PROVE  \/ /\ access.op = "write" /\ k = Len(BitsOut) /\ fifo' = fifo
            /\ regs' = [regs EXCEPT ![access.a] = access.v]
         \/ /\ access.op = "push" /\ k = Len(BitsOut) /\ regs' = regs
            /\ fifo' = IF Turned(regs) THEN Append(fifo, access.v) ELSE fifo
         \/ /\ ~(access.op \in {"write", "push"} /\ k = Len(BitsOut))
            /\ regs' = regs /\ fifo' = fifo
<1>1. Moving /\ AtBit
  BY DEF Raise, Moving, AtBit
<1>2. /\ access \in Above!Accesses /\ BitsOut \in Seq(Bit)
      /\ Len(BitsOut) = IF OnRegisters THEN 2 * Width ELSE Width
  BY <1>1, MovingFacts
<1>3. /\ ChipTakes(BitsOut[k]) /\ access.op # "pop" /\ taken' = SubSeq(BitsOut, 1, k)
      /\ k \in 1..Len(BitsOut)
  BY ChipFindsBit
<1>4. Len(taken') = k /\ taken'[1] = BitsOut[1]
  <2>1. k \in 0..Len(BitsOut) /\ 1 \in 1..k
    BY <1>2, <1>3, LenProperties
  <2>2. QED  BY <2>1, <1>2, <1>3, PrefixFacts
<1>5. CASE access.op = "write"
  <2>1. OnRegisters /\ Len(BitsOut) = 2 * Width
    BY <1>2, <1>5 DEF OnRegisters
  <2>2. /\ fifo' = fifo
        /\ regs' = IF taken'[1] = 0 /\ Len(taken') = 2 * Width
                   THEN [regs EXCEPT ![SubSeq(taken', 2, Width)] = SubSeq(taken', Width + 1, 2 * Width)]
                   ELSE regs
    BY <2>1, <1>3, Zenon DEF ChipTakes
  <2>3. CASE k = 2 * Width
    <3>1. taken' = BitsOut
      BY <2>1, <2>3, <1>2, <1>3, SubSeqFull
    <3>2. /\ BitsOut[1] = 0 /\ SubSeq(BitsOut, 2, Width) = access.a
          /\ SubSeq(BitsOut, Width + 1, 2 * Width) = access.v
      BY <1>2, <1>5, BitsOutFacts
    <3>3. regs' = [regs EXCEPT ![access.a] = access.v]
      BY <2>2, <2>3, <3>1, <3>2, <1>4
    <3>4. QED  BY <2>1, <2>2, <2>3, <3>3, <1>5
  <2>4. CASE k # 2 * Width
    BY <2>1, <2>2, <2>4, <1>4
  <2>5. QED  BY <2>3, <2>4
<1>6. CASE access.op = "read"
  <2>1. OnRegisters
    BY <1>6 DEF OnRegisters
  <2>2. BitsOut[1] = 1
    BY <1>2, <1>6, BitsOutFacts
  <2>3. taken'[1] # 0
    BY <2>2, <1>4
  <2>4. regs' = regs /\ fifo' = fifo
    BY <2>1, <2>3, <1>3, Zenon DEF ChipTakes
  <2>5. QED  BY <2>4, <1>6
<1>7. CASE access.op = "push"
  <2>1. ~OnRegisters /\ Len(BitsOut) = Width
    BY <1>2, <1>7 DEF OnRegisters
  <2>2. /\ regs' = regs
        /\ fifo' = IF Len(taken') = Width /\ Turned(regs) THEN Append(fifo, taken') ELSE fifo
    BY <2>1, <1>3, Zenon DEF ChipTakes
  <2>3. CASE k = Width
    <3>1. taken' = BitsOut /\ BitsOut = access.v
      BY <2>1, <2>3, <1>2, <1>3, <1>7, SubSeqFull, BitsOutFacts
    <3>2. fifo' = IF Turned(regs) THEN Append(fifo, access.v) ELSE fifo
      BY <2>2, <2>3, <3>1, <1>4, Zenon
    <3>3. QED  BY <2>1, <2>2, <2>3, <3>2, <1>7
  <2>4. CASE k # Width
    BY <2>1, <2>2, <2>4, <1>4
  <2>5. QED  BY <2>3, <2>4
<1>8. QED  BY <1>2, <1>3, <1>5, <1>6, <1>7, AccessCases

LEMMA RaiseKeeps ==
  ASSUME IInv, Raise
  PROVE  IInv' /\ (Above!Write \/ Above!Push \/ UNCHANGED Above!vars)
<1>1. /\ pc = "raise" /\ pc' = "sample" /\ sck' = 1 /\ access' = access /\ call' = call /\ k' = k
      /\ r' = r /\ left' = left /\ turnTo' = turnTo /\ csb' = csb /\ fcsb' = fcsb
      /\ sdio' = sdio /\ dir' = dir /\ latched' = latched /\ chipOut' = chipOut
      /\ reply' = reply
  BY DEF Raise, driver
<1>2. Moving /\ AtBit /\ Moving' /\ AtBit'
  BY <1>1 DEF Moving, AtBit
<1>3. /\ BitsOut' = BitsOut /\ (OnRegisters' <=> OnRegisters) /\ Showing' = Showing
      /\ Given' = k
  BY <1>1 DEF BitsOut, OnRegisters, Showing, Given
<1>4. /\ access \in Above!Accesses /\ BitsOut \in Seq(Bit) /\ k \in 1..Len(BitsOut)
      /\ Len(BitsOut) \in Nat
  BY <1>2, MovingFacts
<1>5. StageTyped' /\ BitsTyped' /\ ChipTyped
  <2>1. StageTyped /\ BitsTyped /\ ChipTyped
    BY TypeParts DEF IInv
  <2>2. StageTyped'
    BY <2>1, <1>1 DEF StageTyped
  <2>3. BitsTyped'
    BY <2>1, <1>1 DEF BitsTyped, Bit
  <2>4. QED  BY <2>1, <2>2, <2>3
<1>6. CallFollows'
  BY <1>1, CallUntouched DEF IInv
<1>7. PinsFollow'
  BY <1>1, <1>2, <1>3 DEF IInv, PinsFollow
<1>8. SentFollows'
  <2>1. SentFollows
    BY DEF IInv
  <2>2. pc # "lower" /\ pc' # "lower" /\ pc' # "deselect"
    BY <1>1
  <2>3. QED  BY <2>1, <2>2, <1>1, <1>2, <1>3, Zenon DEF SentFollows
<1>9. CASE latched = <<>>
  <2>1. /\ access.op # "pop" /\ taken' = SubSeq(BitsOut, 1, k)
        /\ access.op = "read" => k <= Width
    BY <1>9, ChipFindsBit
  <2>2. taken' \in Seq(Bit) /\ Len(taken') = k
    <3>1. k \in 0..Len(BitsOut)
      BY <1>4
    <3>2. QED  BY <2>1, <3>1, <1>4, PrefixFacts
  <2>3. TakenFollows'
    <3>1. chipOut' = <<>>
      BY <1>1, <1>2, <1>9 DEF IInv, TakenFollows
    <3>2. QED  BY <2>1, <3>1, <1>1, <1>2, <1>3, <1>4, <1>9 DEF TakenFollows
  <2>4. MergeKept /\ access \in Above!Accesses /\ regs \in [Addr -> Byte] /\ fifo \in Seq(Byte)
    BY <1>4, <1>5 DEF IInv, MergeFollows, ChipTyped
  <2>5. ~Done
    <3>1. taken = SubSeq(BitsOut, 1, k - 1)
      BY <1>1, <1>2, <1>9 DEF IInv, TakenFollows, Given
    <3>2. k - 1 \in 0..Len(BitsOut)
      BY <1>4
    <3>3. Len(taken) = k - 1
      BY <3>1, <3>2, <1>4, PrefixFacts
    <3>4. Len(taken) # Len(BitsOut)
      BY <3>3, <1>4
    <3>5. QED  BY <3>4, <1>2, <1>9, DoneFacts
  <2>6. Done' <=> access.op \in {"write", "push"} /\ k = Len(BitsOut)
    <3>1. Len(BitsOut) = IF OnRegisters THEN 2 * Width ELSE Width
      BY <1>2, MovingFacts
    <3>2. access.op = "write" => Len(BitsOut) = 2 * Width
      BY <3>1 DEF OnRegisters
    <3>3. access.op = "push" => Len(BitsOut) = Width
      BY <3>1 DEF OnRegisters
    <3>4. latched' = <<>> /\ access' = access /\ Len(taken') = k
      BY <2>2, <1>1, <1>9
    <3>5. QED  BY <3>2, <3>3, <3>4, Zenon DEF Done
  <2>7. CASE /\ access.op = "write" /\ k = Len(BitsOut) /\ fifo' = fifo
             /\ regs' = [regs EXCEPT ![access.a] = access.v]
    <3>1. access.a \in Addr /\ access.v \in Byte
      BY <2>4, <2>7, AccessCases
    <3>2. regs' \in [Addr -> Byte]
      BY <2>4, <2>7, <3>1
    <3>3. ChipTyped'
      BY <2>2, <2>7, <3>2, <1>1, <1>5, Zenon DEF ChipTyped
    <3>4. access.a = IoSel => access.v[1] = 1
      BY <2>7 DEF IInv, MergeFollows
    <3>5. regs'[IoSel][1] = 1
      BY <2>4, <2>7, <3>1, <3>4, WidthFacts DEF MergeKept
    <3>6. MergeFollows'
      BY <3>5, <1>1 DEF IInv, MergeFollows, MergeKept
    <3>7. IInv'
      BY <2>3, <3>3, <3>6, <1>5, <1>6, <1>7, <1>8, TypeParts DEF IInv
    <3>8. Above!Pending("write")
      BY <2>5, <2>7 DEF Above!Pending
    <3>9. Above!Write
      BY <2>6, <2>7, <3>8, <1>1, Zenon DEF Above!Write
    <3>10. QED  BY <3>7, <3>9
  <2>8. CASE /\ access.op = "push" /\ k = Len(BitsOut) /\ regs' = regs
             /\ fifo' = IF Turned(regs) THEN Append(fifo, access.v) ELSE fifo
    <3>1. access.v \in Byte
      BY <2>4, <2>8, AccessCases
    <3>2. fifo' \in Seq(Byte)
      BY <2>4, <2>8, <3>1, AppendProperties
    <3>3. ChipTyped'
      BY <2>2, <2>8, <3>2, <1>1, <1>5, Zenon DEF ChipTyped
    <3>4. MergeFollows'
      BY <2>8, <1>1, MergeUntouched DEF IInv
    <3>5. IInv'
      BY <2>3, <3>3, <3>4, <1>5, <1>6, <1>7, <1>8, TypeParts DEF IInv
    <3>6. Above!Pending("push")
      BY <2>5, <2>8 DEF Above!Pending
    <3>7. Above!Push
      BY <2>6, <2>8, <3>6, <1>1, Zenon DEF Above!Push
    <3>8. QED  BY <3>5, <3>7
  <2>9. CASE /\ ~(access.op \in {"write", "push"} /\ k = Len(BitsOut))
             /\ regs' = regs /\ fifo' = fifo
    <3>1. ChipTyped'
      BY <2>2, <2>9, <1>1, <1>5, Zenon DEF ChipTyped
    <3>2. MergeFollows'
      BY <2>9, <1>1, MergeUntouched DEF IInv
    <3>3. IInv'
      BY <2>3, <3>1, <3>2, <1>5, <1>6, <1>7, <1>8, TypeParts DEF IInv
    <3>4. Done' <=> Done
      BY <2>5, <2>6, <2>9
    <3>5. QED  BY <2>9, <3>3, <3>4, <1>1, SameAbove
  <2>10. QED  BY <2>7, <2>8, <2>9, <1>9, RaiseActs, Zenon
<1>10. CASE latched # <<>>
  <2>1. taken' = taken /\ regs' = regs /\ fifo' = fifo
    BY <1>10 DEF Raise
  <2>2. ChipTyped'
    BY <2>1, <1>1, <1>5, Zenon DEF ChipTyped
  <2>3. MergeFollows'
    BY <2>1, <1>1, MergeUntouched DEF IInv
  <2>4. TakenFollows'
    BY <2>1, <1>1, <1>2, <1>3, <1>10 DEF IInv, TakenFollows
  <2>5. IInv'
    BY <2>2, <2>3, <2>4, <1>5, <1>6, <1>7, <1>8, TypeParts DEF IInv
  <2>6. Done' <=> Done
    BY <2>1, <1>1 DEF Done
  <2>7. QED  BY <2>1, <2>5, <2>6, <1>1, SameAbove
<1>11. QED  BY <1>9, <1>10

\* The value being sent, and where in it the line stands.
LEMMA ShowingFacts ==
  ASSUME IInv, latched # <<>>, AtBit
  PROVE  /\ latched \in Byte /\ latched \in Seq(Bit) /\ Len(latched) = Width
         /\ Showing \in 1..Width /\ access.op \in {"read", "pop"}
         /\ Showing = IF access.op = "read" THEN k - Width ELSE k
         /\ Len(BitsOut) = IF access.op = "read" THEN 2 * Width ELSE Width
<1>1. Moving
  BY DEF AtBit, Moving
<1>2. latched \in Byte /\ access.op \in {"read", "pop"} /\ (access.op = "read" => k > Width)
  BY DEF IInv, TypeOK, TakenFollows
<1>3. /\ k \in 1..Len(BitsOut)
      /\ Len(BitsOut) = IF OnRegisters THEN 2 * Width ELSE Width
  BY <1>1, MovingFacts
<1>4. OnRegisters <=> access.op = "read"
  BY <1>2 DEF OnRegisters
<1>5. Showing \in 1..Width
  BY <1>2, <1>3, <1>4, WidthFacts DEF Showing
<1>6. QED  BY <1>2, <1>3, <1>4, <1>5, ByteFacts DEF Showing

\* What the driver finds on the line it has released: the bit being sent.
LEMMA DriverFindsBit ==
  ASSUME IInv, Sample
  PROVE  \E b \in Bit : /\ r' = IF k = Width + 1 THEN <<b>> ELSE Append(r, b)
                        /\ latched # <<>> => b = latched[Showing]
<1>1. pc = "sample" /\ Moving /\ AtBit
  BY DEF Sample, Moving, AtBit
<1>2. PICK b \in Line(dir') : r' = IF k = Width + 1 THEN <<b>> ELSE Append(r, b)
  BY DEF Sample
<1>3. dir' = "pullup" \/ dir' = "input"
  <2>1. CASE access.op = "pop"
    <3>1. dir = "pullup"
      BY <2>1, <1>1 DEF IInv, PinsFollow
    <3>2. QED  BY <2>1, <3>1 DEF Sample
  <2>2. CASE access.op # "pop"
    BY <2>2 DEF Sample
  <2>3. QED  BY <2>1, <2>2
<1>4. CASE latched = <<>>
  <2>1. access.op # "pop" /\ chipOut = <<>>
    BY <1>1, <1>4 DEF IInv, TakenFollows
  <2>2. dir' = "input"
    BY <2>1 DEF Sample
  <2>3. Line(dir') = Bit
    BY <2>1, <2>2 DEF Line
  <2>4. QED  BY <2>3, <1>2, <1>4
<1>5. CASE latched # <<>>
  <2>1. /\ latched \in Byte /\ latched \in Seq(Bit) /\ Len(latched) = Width
        /\ Showing \in 1..Width
    BY <1>1, <1>5, ShowingFacts
  <2>2. latched[Showing] \in Bit
    BY <2>1, ElementOfSeq
  <2>3. \/ chipOut = SubSeq(latched, Showing, Width)
        \/ chipOut = <<>> /\ latched = Ones /\ access.op = "pop"
    BY <1>1, <1>5, Zenon DEF IInv, SentFollows
  <2>4. CASE chipOut = SubSeq(latched, Showing, Width)
    <3>1. chipOut # <<>> /\ Head(chipOut) = latched[Showing]
      BY <2>1, <2>4, RestOfSuffix
    <3>2. Line(dir') = {Head(chipOut)}
      BY <3>1, <1>3 DEF Line
    <3>3. b = latched[Showing]
      BY <3>1, <3>2
    <3>4. QED  BY <2>2, <3>3, <1>2
  <2>5. CASE chipOut = <<>> /\ latched = Ones /\ access.op = "pop"
    <3>1. dir' = "pullup"
      BY <2>5, <1>1 DEF Sample, IInv, PinsFollow
    <3>2. Line(dir') = {1}
      BY <2>5, <3>1 DEF Line
    <3>3. latched[Showing] = 1
      BY <2>1, <2>5 DEF Ones
    <3>4. QED  BY <2>2, <3>2, <3>3, <1>2
  <2>6. QED  BY <2>3, <2>4, <2>5
<1>6. QED  BY <1>4, <1>5

LEMMA SampleKeeps ==
  ASSUME IInv, Sample
  PROVE  IInv' /\ UNCHANGED Above!vars
<1>1. /\ pc = "sample" /\ pc' = "lower" /\ access' = access /\ call' = call /\ k' = k
      /\ left' = left /\ turnTo' = turnTo /\ csb' = csb /\ fcsb' = fcsb /\ sck' = sck
      /\ sdio' = sdio /\ regs' = regs /\ fifo' = fifo /\ taken' = taken
      /\ latched' = latched /\ chipOut' = chipOut /\ reply' = reply
      /\ dir' = IF access.op = "pop" THEN dir ELSE "input"
  BY DEF Sample, driver, chip
<1>2. Moving /\ AtBit /\ Moving' /\ AtBit'
  BY <1>1 DEF Moving, AtBit
<1>3. /\ BitsOut' = BitsOut /\ (OnRegisters' <=> OnRegisters) /\ Showing' = Showing
      /\ Given' = Given
  BY <1>1 DEF BitsOut, OnRegisters, Showing, Given
<1>4. StageTyped /\ BitsTyped /\ ChipTyped
  BY TypeParts DEF IInv
<1>5. PICK b \in Bit : /\ r' = IF k = Width + 1 THEN <<b>> ELSE Append(r, b)
                       /\ latched # <<>> => b = latched[Showing]
  BY DriverFindsBit
<1>6. k \in 1..(2 * Width) /\ r \in Seq(Bit)
  BY <1>4 DEF BitsTyped
<1>7. Len(r) = IF k <= Width + 1 THEN k - 1 ELSE k - Width - 1
  BY <1>1, <1>2 DEF IInv, SentFollows
<1>8. r' \in Seq(Bit) /\ Len(r') = IF k <= Width THEN k ELSE k - Width
  <2>1. CASE k = Width + 1
    <3>1. r' = <<b>>
      BY <1>5, <2>1
    <3>2. r' \in Seq(Bit) /\ Len(r') = 1
      BY <3>1
    <3>3. QED  BY <3>2, <2>1, WidthFacts
  <2>2. CASE k # Width + 1
    <3>1. r' = Append(r, b)
      BY <1>5, <2>2
    <3>2. r' \in Seq(Bit) /\ Len(r') = Len(r) + 1
      BY <3>1, <1>6, AppendProperties
    <3>3. QED  BY <3>2, <2>2, <1>6, <1>7, WidthFacts
  <2>3. QED  BY <2>1, <2>2
<1>9. TypeOK'
  <2>1. StageTyped'
    BY <1>1, <1>4 DEF StageTyped
  <2>2. dir' \in {"output", "input", "pullup"}
    BY <1>1, <1>4 DEF BitsTyped
  <2>3. Len(r') <= Width
    BY <1>6, <1>8, WidthFacts
  <2>4. BitsTyped'
    BY <2>2, <2>3, <1>1, <1>4, <1>8, Zenon DEF BitsTyped
  <2>5. ChipTyped'
    BY <1>1, <1>4, Zenon DEF ChipTyped
  <2>6. QED  BY <2>1, <2>4, <2>5, TypeParts
<1>10. CallFollows' /\ MergeFollows'
  BY <1>1, CallUntouched, MergeUntouched DEF IInv
<1>11. PinsFollow'
  BY <1>1, <1>2, <1>3 DEF IInv, PinsFollow
<1>12. TakenFollows'
  BY <1>1, <1>2, <1>3 DEF IInv, TakenFollows
<1>13. ASSUME latched # <<>> PROVE r' = SubSeq(latched, 1, Showing)
  <2>1. /\ latched \in Byte /\ latched \in Seq(Bit) /\ Len(latched) = Width
        /\ Showing \in 1..Width /\ access.op \in {"read", "pop"}
        /\ Showing = IF access.op = "read" THEN k - Width ELSE k
    BY <1>2, <1>13, ShowingFacts
  <2>2. Append(SubSeq(latched, 1, Showing - 1), latched[Showing]) = SubSeq(latched, 1, Showing)
    BY <2>1, NextOfPrefix
  <2>3. b = latched[Showing]
    BY <1>5, <1>13
  <2>4. CASE k = Width + 1
    <3>1. Showing = 1
      BY <2>1, <2>4, WidthFacts
    <3>2. SubSeq(latched, 1, Showing - 1) = <<>>
      BY <3>1, NoBits
    <3>3. r' = Append(<<>>, b)
      BY <1>5, <2>4
    <3>4. QED  BY <2>2, <2>3, <3>2, <3>3, Zenon
  <2>5. CASE k # Width + 1
    <3>1. Showing > 1 \/ access.op = "pop"
      BY <2>1, <2>5, <1>6, WidthFacts
    <3>2. pc # "lower"
      BY <1>1
    <3>3. r = SubSeq(latched, 1, Showing - 1)
      BY <3>1, <3>2, <1>2, <1>13, Zenon DEF IInv, SentFollows
    <3>4. r' = Append(r, b)
      BY <1>5, <2>5
    <3>5. QED  BY <2>2, <2>3, <3>3, <3>4, Zenon
  <2>6. QED  BY <2>4, <2>5
<1>14. SentFollows'
  <2>1. latched' # <<>> => r' = SubSeq(latched', 1, Showing')
    BY <1>1, <1>3, <1>13
  <2>2. latched' # <<>> =>
          \/ chipOut' = SubSeq(latched', Showing', Width)
          \/ chipOut' = <<>> /\ latched' = Ones /\ access'.op = "pop"
    BY <1>1, <1>2, <1>3, Zenon DEF IInv, SentFollows
  <2>3. Len(r') = IF k' <= Width THEN k' ELSE k' - Width
    BY <1>1, <1>8
  <2>4. pc' = "lower" /\ pc' # "deselect"
    BY <1>1
  <2>5. QED  BY <2>1, <2>2, <2>3, <2>4, Zenon DEF SentFollows
<1>15. IInv'
  BY <1>9, <1>10, <1>11, <1>12, <1>14 DEF IInv
<1>16. Done' <=> Done
  BY <1>1 DEF Done
<1>17. QED  BY <1>1, <1>15, <1>16, SameAbove


\* With the last bit of its address the register of a read is found.
LEMMA ReadFindsRegister ==
  ASSUME IInv, Lower, latched = <<>>, access.op = "read", Len(taken) = Width
  PROVE  k = Width /\ access.a \in Addr /\ latched' = regs[access.a] /\ chipOut' = latched'
<1>1. pc = "lower" /\ Moving /\ AtBit
  BY DEF Lower, Moving, AtBit
<1>2. /\ access \in Above!Accesses /\ BitsOut \in Seq(Bit) /\ k \in 1..Len(BitsOut)
      /\ Len(BitsOut) = 2 * Width /\ access.a \in Addr
  BY <1>1, MovingFacts, AccessCases DEF OnRegisters
<1>3. taken = SubSeq(BitsOut, 1, k)
  BY <1>1 DEF IInv, TakenFollows, Given
<1>4. k \in 0..Len(BitsOut)
  BY <1>2, WidthFacts
<1>5. k = Width
  BY <1>2, <1>3, <1>4, PrefixFacts
<1>6. SubSeq(BitsOut, 2, Width) = access.a
  BY <1>2, BitsOutFacts
<1>7. SubSeq(taken, 2, Width) = access.a
  <2>1. 1 \in 1..Len(BitsOut) /\ Width \in 1..Len(BitsOut)
    BY <1>2, WidthFacts
  <2>2. \A m, n \in 1..Width - 1 + 1 :
          SubSeq(SubSeq(BitsOut, 1, Width), m, n) = SubSeq(BitsOut, 1 + m - 1, 1 + n - 1)
    BY <2>1, <1>2, SubSeqOfSubSeq
  <2>3. 2 \in 1..Width - 1 + 1 /\ Width \in 1..Width - 1 + 1 /\ 1 + 2 - 1 = 2 /\ 1 + Width - 1 = Width
    BY WidthFacts
  <2>4. SubSeq(SubSeq(BitsOut, 1, Width), 2, Width) = SubSeq(BitsOut, 2, Width)
    BY <2>2, <2>3
  <2>5. QED  BY <2>4, <1>3, <1>5, <1>6
<1>8. latched' = regs[SubSeq(taken, 2, Width)] /\ chipOut' = latched'
  BY DEF Lower
<1>9. QED  BY <1>2, <1>5, <1>7, <1>8


LEMMA LowerKeeps ==
  ASSUME IInv, Lower
  PROVE  IInv' /\ (Above!Read \/ UNCHANGED Above!vars)
<1>1. /\ pc = "lower" /\ sck' = 0 /\ access' = access /\ call' = call /\ r' = r
      /\ left' = left /\ turnTo' = turnTo /\ csb' = csb /\ fcsb' = fcsb
      /\ sdio' = sdio /\ dir' = dir /\ regs' = regs /\ fifo' = fifo /\ taken' = taken
      /\ reply' = reply
      /\ IF k = Len(BitsOut) THEN pc' = "deselect" /\ k' = k ELSE pc' = "drive" /\ k' = k + 1
  BY DEF Lower, driver
<1>2. Moving /\ AtBit /\ Moving' /\ (AtBit' <=> k # Len(BitsOut))
  BY <1>1 DEF Moving, AtBit
<1>3. BitsOut' = BitsOut /\ (OnRegisters' <=> OnRegisters)
  BY <1>1 DEF BitsOut, OnRegisters
<1>4. /\ access \in Above!Accesses /\ BitsOut \in Seq(Bit) /\ k \in 1..Len(BitsOut)
      /\ Len(BitsOut) \in Nat /\ Len(BitsOut) = IF OnRegisters THEN 2 * Width ELSE Width
  BY <1>2, MovingFacts
<1>5. Given = k /\ Given' = k
  <2>1. pc' = "drive" => k' - 1 = k
    BY <1>1, <1>4
  <2>2. QED  BY <2>1, <1>1, <1>3 DEF Given
<1>6. StageTyped /\ BitsTyped /\ ChipTyped /\ StageTyped' /\ BitsTyped'
  <2>1. StageTyped /\ BitsTyped /\ ChipTyped
    BY TypeParts DEF IInv
  <2>2. StageTyped'
    BY <2>1, <1>1 DEF StageTyped
  <2>3. k' \in 1..(2 * Width)
    BY <1>1, <1>4, WidthFacts
  <2>4. sck' \in Bit
    BY <1>1 DEF Bit
  <2>5. BitsTyped'
    BY <2>1, <2>3, <2>4, <1>1, Zenon DEF BitsTyped
  <2>6. QED  BY <2>1, <2>2, <2>5
<1>7. CallFollows'
  BY <1>1, CallUntouched DEF IInv
<1>8. PinsFollow'
  BY <1>1, <1>2, <1>3 DEF IInv, PinsFollow
<1>9. AtBit' => k' = k + 1 /\ k' \in 1..Len(BitsOut')
  BY <1>1, <1>2, <1>3, <1>4
<1>10. AtBit' => Len(r') = IF k' <= Width + 1 THEN k' - 1 ELSE k' - Width - 1
  <2>1. Len(r) = IF k <= Width THEN k ELSE k - Width
    BY <1>1, <1>2 DEF IInv, SentFollows
  <2>2. QED  BY <2>1, <1>1, <1>4, <1>9, WidthFacts
<1>11. CASE latched # <<>>
  <2>1. latched' = latched /\ chipOut' = IF chipOut = <<>> THEN <<>> ELSE Tail(chipOut)
    BY <1>11 DEF Lower
  <2>2. /\ latched \in Byte /\ latched \in Seq(Bit) /\ Len(latched) = Width
        /\ Showing \in 1..Width /\ access.op \in {"read", "pop"}
        /\ Showing = IF access.op = "read" THEN k - Width ELSE k
        /\ Len(BitsOut) = IF access.op = "read" THEN 2 * Width ELSE Width
    BY <1>2, <1>11, ShowingFacts
  <2>3. ChipTyped'
    <3>1. chipOut' \in Seq(Bit)
      <4>1. chipOut \in Seq(Bit)
        BY <1>6 DEF ChipTyped
      <4>2. chipOut # <<>> => Tail(chipOut) \in Seq(Bit)
        BY <4>1, HeadTailProperties
      <4>3. QED  BY <4>2, <2>1, NoBits
    <3>2. QED  BY <3>1, <2>1, <1>1, <1>6, Zenon DEF ChipTyped
  <2>4. MergeFollows'
    BY <2>1, <1>1, MergeUntouched DEF IInv
  <2>5. TakenFollows'
    <3>1. access.op = "read" => k > Width
      BY <1>2, <1>11 DEF IInv, TakenFollows
    <3>2. access'.op = "read" /\ AtBit' => k' > Width
      BY <3>1, <1>1, <1>4, <1>9, WidthFacts
    <3>3. QED  BY <3>2, <2>1, <2>2, <1>1, <1>2, <1>9, <1>11 DEF TakenFollows
  <2>6. r = SubSeq(latched, 1, Showing)
    BY <1>1, <1>2, <1>11, Zenon DEF IInv, SentFollows
  <2>7. ASSUME k = Len(BitsOut) PROVE SentFollows'
    <3>1. Showing = Width
      BY <2>2, <2>7, WidthFacts
    <3>2. r = latched
      BY <3>1, <2>2, <2>6, ByteFacts
    <3>3. pc' = "deselect" /\ ~AtBit'
      BY <2>7, <1>1, <1>2
    <3>4. QED  BY <3>2, <3>3, <2>1, <1>1, Zenon DEF SentFollows
  <2>8. ASSUME k # Len(BitsOut) PROVE SentFollows'
    <3>1. pc' = "drive" /\ k' = k + 1 /\ AtBit'
      BY <2>8, <1>1, <1>2
    <3>2. Showing' = Showing + 1
      BY <3>1, <2>2, <1>1, <1>4, WidthFacts DEF Showing
    <3>3. Showing' - 1 = Showing
      BY <3>2, <2>2
    <3>4. r' = SubSeq(latched', 1, Showing' - 1)
      BY <3>3, <2>1, <2>6, <1>1
    <3>5. \/ chipOut' = SubSeq(latched', Showing', Width)
          \/ chipOut' = <<>> /\ latched' = Ones /\ access'.op = "pop"
      <4>1. \/ chipOut = SubSeq(latched, Showing, Width)
            \/ chipOut = <<>> /\ latched = Ones /\ access.op = "pop"
        BY <1>2, <1>11, Zenon DEF IInv, SentFollows
      <4>2. /\ SubSeq(latched, Showing, Width) # <<>>
            /\ Tail(SubSeq(latched, Showing, Width)) = SubSeq(latched, Showing + 1, Width)
        BY <2>2, RestOfSuffix
      <4>3. QED  BY <4>1, <4>2, <3>2, <2>1, <1>1
    <3>6. pc' # "lower" /\ pc' # "deselect"
      BY <3>1
    <3>7. QED  BY <3>1, <3>4, <3>5, <3>6, <1>10, Zenon DEF SentFollows
  <2>9. SentFollows'
    BY <2>7, <2>8
  <2>10. IInv'
    BY <2>3, <2>4, <2>5, <2>9, <1>6, <1>7, <1>8, TypeParts DEF IInv
  <2>11. Done' <=> Done
    BY <2>1, <1>1 DEF Done
  <2>12. QED  BY <2>1, <2>10, <2>11, <1>1, SameAbove
<1>12. CASE latched = <<>> /\ access.op = "read" /\ Len(taken) = Width
  <2>1. k = Width /\ access.a \in Addr /\ latched' = regs[access.a] /\ chipOut' = latched'
    BY <1>12, ReadFindsRegister
  <2>2. regs \in [Addr -> Byte]
    BY <1>6 DEF ChipTyped
  <2>3. /\ latched' \in Byte /\ latched' \in Seq(Bit) /\ latched' # <<>>
        /\ SubSeq(latched', 1, Width) = latched'
    BY <2>1, <2>2, ByteFacts
  <2>4. ChipTyped'
    BY <2>1, <2>3, <1>1, <1>6, Zenon DEF ChipTyped
  <2>5. MergeFollows'
    <3>1. access = Look => latched'[1] = 1
      BY <2>1, AccessesMade DEF IInv, MergeFollows, MergeKept
    <3>2. QED  BY <3>1, <1>1 DEF IInv, MergeFollows, MergeKept
  <2>6. pc' = "drive" /\ k' = Width + 1
    <3>1. k # Len(BitsOut)
      BY <2>1, <1>4, <1>12, WidthFacts DEF OnRegisters
    <3>2. QED  BY <3>1, <2>1, <1>1
  <2>7. TakenFollows'
    <3>1. k' > Width
      BY <2>6, WidthFacts
    <3>2. QED  BY <3>1, <2>3, <1>1, <1>2, <1>9, <1>12 DEF TakenFollows
  <2>8. SentFollows'
    <3>1. Showing' = 1
      BY <2>6, <1>1, <1>12, WidthFacts DEF Showing
    <3>2. chipOut' = SubSeq(latched', Showing', Width)
      BY <3>1, <2>1, <2>3
    <3>3. ~(Showing' > 1 \/ access'.op = "pop")
      BY <3>1, <1>1, <1>12
    <3>4. pc' # "lower" /\ pc' # "deselect"
      BY <2>6
    <3>5. QED  BY <3>2, <3>3, <3>4, <1>10, Zenon DEF SentFollows
  <2>9. IInv'
    BY <2>4, <2>5, <2>7, <2>8, <1>6, <1>7, <1>8, TypeParts DEF IInv
  <2>10. Done' /\ ~Done
    <3>1. ~Done
      BY <1>2, <1>12, DoneFacts
    <3>2. QED  BY <3>1, <2>3 DEF Done
  <2>11. Above!Read
    BY <2>1, <2>10, <1>1, <1>12 DEF Above!Read, Above!Pending
  <2>12. QED  BY <2>9, <2>11
<1>13. CASE latched = <<>> /\ ~(access.op = "read" /\ Len(taken) = Width)
  <2>1. latched' = latched /\ chipOut' = chipOut
    BY <1>13 DEF Lower
  <2>2. ChipTyped'
    BY <2>1, <1>1, <1>6, Zenon DEF ChipTyped
  <2>3. MergeFollows'
    BY <2>1, <1>1, MergeUntouched DEF IInv
  <2>4. /\ access.op # "pop" /\ chipOut = <<>> /\ taken = SubSeq(BitsOut, 1, k)
        /\ access.op = "read" => k <= Width
    BY <1>2, <1>5, <1>13 DEF IInv, TakenFollows
  <2>5. Len(taken) = k
    <3>1. k \in 0..Len(BitsOut)
      BY <1>4
    <3>2. QED  BY <3>1, <2>4, <1>4, PrefixFacts
  <2>6. access.op = "read" => AtBit' /\ k' <= Width
    <3> SUFFICES ASSUME access.op = "read" PROVE AtBit' /\ k' <= Width
      OBVIOUS
    <3>1. k <= Width /\ k # Width
      BY <2>4, <2>5, <1>13
    <3>2. k # Len(BitsOut)
      BY <3>1, <1>4, WidthFacts DEF OnRegisters
    <3>3. QED  BY <3>1, <3>2, <1>2, <1>4, <1>9, WidthFacts
  <2>7. TakenFollows'
    BY <2>1, <2>4, <2>6, <1>1, <1>2, <1>3, <1>5, <1>9, <1>13 DEF TakenFollows
  <2>8. SentFollows'
    <3>1. latched' = <<>>
      BY <2>1, <1>13
    <3>2. pc' # "lower"
      BY <1>1
    <3>3. QED  BY <3>1, <3>2, <1>10, Zenon DEF SentFollows
  <2>9. IInv'
    BY <2>2, <2>3, <2>7, <2>8, <1>6, <1>7, <1>8, TypeParts DEF IInv
  <2>10. Done' <=> Done
    BY <2>1, <1>1 DEF Done
  <2>11. QED  BY <2>1, <2>9, <2>10, <1>1, SameAbove
<1>14. QED  BY <1>11, <1>12, <1>13


\* A read hands over the value of its register, a pop its byte, and what is
\* written brings nothing.
LEMMA DeselectKeeps ==
  ASSUME IInv, Deselect
  PROVE  IInv' /\ Above!Return
<1>1. /\ pc = "deselect" /\ pc' = "next" /\ csb' = 1 /\ fcsb' = 1 /\ call' = call
      /\ left' = left /\ turnTo' = turnTo /\ k' = k /\ sck' = sck /\ sdio' = sdio /\ dir' = dir
      /\ regs' = regs /\ fifo' = fifo
      /\ taken' = <<>> /\ latched' = <<>> /\ chipOut' = <<>> /\ r' = <<>>
      /\ access' = NoAccess
      /\ reply' = IF access.op \in {"read", "pop"} THEN r ELSE <<>>
  BY DEF Deselect, driver
<1>2. Moving /\ ~AtBit /\ ~Moving' /\ ~AtBit'
  BY <1>1 DEF Moving, AtBit
<1>3. access \in Above!Accesses /\ BitsOut \in Seq(Bit) /\ Len(BitsOut) \in Nat
  BY <1>2, MovingFacts
<1>4. access.op \in {"read", "pop"} => latched # <<>> /\ r = latched
  <2>1. access.op \in {"read", "pop"} => latched # <<>>
    BY <1>2 DEF IInv, TakenFollows
  <2>2. latched # <<>> => r = latched
    BY <1>1, Zenon DEF IInv, SentFollows
  <2>3. QED  BY <2>1, <2>2
<1>5. access.op \notin {"read", "pop"} => latched = <<>>
  BY DEF IInv, TakenFollows
<1>6. reply' = latched
  BY <1>1, <1>4, <1>5
<1>7. Done
  <2>1. CASE latched # <<>>
    BY <2>1 DEF Done
  <2>2. CASE latched = <<>>
    <3>1. access.op \in {"write", "push"}
      BY <2>2, <1>3, <1>4, AccessCases
    <3>2. taken = SubSeq(BitsOut, 1, Len(BitsOut))
      BY <2>2, <1>1, <1>2 DEF IInv, TakenFollows, Given
    <3>3. taken = BitsOut
      BY <3>2, <1>3, SubSeqFull
    <3>4. QED  BY <3>1, <3>3, <2>2, <1>2, DoneFacts
  <2>3. QED  BY <2>1, <2>2
<1>8. TypeOK'
  <2>1. StageTyped /\ BitsTyped /\ ChipTyped
    BY TypeParts DEF IInv
  <2>2. StageTyped'
    BY <2>1, <1>1 DEF StageTyped
  <2>3. csb' \in Bit /\ fcsb' \in Bit
    BY <1>1 DEF Bit
  <2>4. r' \in Seq(Bit) /\ Len(r') <= Width
    BY <1>1, NoBits, WidthFacts
  <2>5. BitsTyped'
    BY <2>1, <2>3, <2>4, <1>1, Zenon DEF BitsTyped
  <2>6. taken' \in Seq(Bit) /\ chipOut' \in Seq(Bit) /\ latched' \in Byte \cup {<<>>}
    BY <1>1, NoBits
  <2>7. reply' \in Byte \cup {<<>>}
    BY <2>1, <1>6 DEF ChipTyped
  <2>8. ChipTyped'
    BY <2>1, <2>6, <2>7, <1>1, Zenon DEF ChipTyped
  <2>9. QED  BY <2>2, <2>5, <2>8, TypeParts
<1>9. call = "look" => access = Look /\ latched # <<>> /\ latched \in Byte
  <2>1. call = "look" => access = Look
    BY <1>1 DEF IInv, CallFollows
  <2>2. latched \in Byte \cup {<<>>}
    BY DEF IInv, TypeOK
  <2>3. QED  BY <2>1, <2>2, <1>4, AccessesMade
<1>10. CallFollows'
  BY <1>1, <1>6, <1>9 DEF CallFollows
<1>11. MergeFollows'
  <2>1. MergeKept'
    BY <1>1 DEF IInv, MergeFollows, MergeKept
  <2>2. call' = "look" => reply'[1] = 1
    BY <1>1, <1>6, <1>9 DEF IInv, MergeFollows
  <2>3. access'.op # "write"
    BY <1>1, NoAccessFacts
  <2>4. QED  BY <2>1, <2>2, <2>3, <1>1 DEF MergeFollows
<1>12. PinsFollow' /\ TakenFollows' /\ SentFollows'
  BY <1>1, <1>2 DEF PinsFollow, TakenFollows, SentFollows
<1>13. IInv'
  BY <1>8, <1>10, <1>11, <1>12 DEF IInv
<1>14. ~Done'
  <2>1. access'.op = "none" /\ latched' = <<>>
    BY <1>1, NoAccessFacts
  <2>2. QED  BY <2>1, Zenon DEF Done
<1>15. access' = Above!NoAccess
  BY <1>1, NoAccessFacts
<1>16. Above!Return
  BY <1>1, <1>6, <1>7, <1>14, <1>15, Zenon DEF Above!Return
<1>17. QED  BY <1>13, <1>16

------------------------------------------------------------------------------
(* The chip's own steps, between any two edges.                             *)

\* No part of the invariant but the types and FIFO_MERGE reads the registers
\* or the FIFO.
LEMMA ChipKeeps ==
  ASSUME IInv, UNCHANGED <<driver, access, pc, k, r, pins, chip, reply>>,
         regs' \in [Addr -> Byte], regs'[IoSel] = regs[IoSel], fifo' \in Seq(Byte)
  PROVE  /\ IInv' /\ (Done' <=> Done)
         /\ access' = access /\ latched' = latched /\ reply' = reply
<1>1. /\ access' = access /\ pc' = pc /\ call' = call /\ left' = left /\ turnTo' = turnTo
      /\ csb' = csb /\ fcsb' = fcsb /\ sck' = sck /\ sdio' = sdio /\ dir' = dir
      /\ k' = k /\ r' = r /\ taken' = taken /\ latched' = latched /\ chipOut' = chipOut
      /\ reply' = reply
  BY DEF driver, pins, chip
<1>2. (Moving' <=> Moving) /\ (AtBit' <=> AtBit)
  BY <1>1 DEF Moving, AtBit
<1>3. /\ BitsOut' = BitsOut /\ (OnRegisters' <=> OnRegisters) /\ Showing' = Showing
      /\ Given' = Given
  BY <1>1 DEF BitsOut, OnRegisters, Showing, Given
<1>4. TypeOK'
  <2>1. StageTyped /\ BitsTyped /\ ChipTyped
    BY TypeParts DEF IInv
  <2>2. StageTyped'
    BY <2>1, <1>1 DEF StageTyped
  <2>3. BitsTyped'
    BY <2>1, <1>1 DEF BitsTyped
  <2>4. ChipTyped'
    BY <2>1, <1>1, Zenon DEF ChipTyped
  <2>5. QED  BY <2>2, <2>3, <2>4, TypeParts
<1>5. CallFollows'
  BY <1>1, Zenon DEF IInv, CallFollows
<1>6. MergeFollows'
  BY <1>1 DEF IInv, MergeFollows, MergeKept
<1>7. PinsFollow'
  BY <1>1, <1>2, <1>3 DEF IInv, PinsFollow
<1>8. TakenFollows'
  BY <1>1, <1>2, <1>3 DEF IInv, TakenFollows
<1>9. SentFollows'
  BY <1>1, <1>2, <1>3, Zenon DEF IInv, SentFollows
<1>10. Done' <=> Done
  BY <1>1 DEF Done
<1>11. QED  BY <1>1, <1>4, <1>5, <1>6, <1>7, <1>8, <1>9, <1>10 DEF IInv

LEMMA FlagsKeep ==
  ASSUME IInv, Flags
  PROVE  IInv' /\ Above!Flags
<1>1. PICK a \in Addr \ {IoSel}, v \in Byte : regs' = [regs EXCEPT ![a] = v]
  BY DEF Flags
<1>2. UNCHANGED <<driver, access, pc, k, r, pins, chip, reply>> /\ fifo' = fifo
  BY DEF Flags
<1>3. regs \in [Addr -> Byte] /\ fifo \in Seq(Byte)
  BY DEF IInv, TypeOK
<1>4. regs' \in [Addr -> Byte] /\ regs'[IoSel] = regs[IoSel]
  BY <1>1, <1>3, WidthFacts
<1>5. /\ IInv' /\ (Done' <=> Done)
      /\ access' = access /\ latched' = latched /\ reply' = reply
  BY <1>2, <1>3, <1>4, ChipKeeps
<1>6. Done' = Done
  BY <1>5 DEF Done
<1>7. \A x \in {IoSel} : regs'[x] = regs[x]
  BY <1>4
<1>8. Above!Flags
  BY <1>2, <1>4, <1>5, <1>6, <1>7, Zenon DEF Above!Flags
<1>9. QED  BY <1>5, <1>8

LEMMA PacketHandlerKeeps ==
  ASSUME IInv, PacketHandler
  PROVE  IInv' /\ Above!PacketHandler
<1>1. \/ ~Turned(regs) /\ \E v \in Byte : fifo' = Append(fifo, v)
      \/ Turned(regs) /\ fifo # <<>> /\ fifo' = Tail(fifo)
  BY Zenon DEF PacketHandler
<1>2. UNCHANGED <<driver, access, pc, k, r, pins, chip, reply>> /\ regs' = regs
  BY DEF PacketHandler
<1>3. regs \in [Addr -> Byte] /\ fifo \in Seq(Byte)
  BY DEF IInv, TypeOK
<1>4. fifo' \in Seq(Byte)
  <2>1. \A v \in Byte : Append(fifo, v) \in Seq(Byte)
    BY <1>3, AppendProperties
  <2>2. fifo # <<>> => Tail(fifo) \in Seq(Byte)
    BY <1>3, HeadTailProperties
  <2>3. QED  BY <2>1, <2>2, <1>1, Zenon
<1>5. /\ IInv' /\ (Done' <=> Done)
      /\ access' = access /\ latched' = latched /\ reply' = reply
  BY <1>2, <1>3, <1>4, ChipKeeps
<1>6. Done' = Done
  BY <1>5 DEF Done
<1>7. Above!PacketHandler
  BY <1>1, <1>2, <1>5, <1>6, Zenon DEF Above!PacketHandler
<1>8. QED  BY <1>5, <1>7

------------------------------------------------------------------------------
(* The theorems.                                                            *)

LEMMA StutterKeeps ==
  ASSUME IInv, UNCHANGED vars
  PROVE  IInv' /\ UNCHANGED Above!vars
<1>1. /\ UNCHANGED <<driver, access, pc, k, r, pins, chip, reply>>
      /\ regs' = regs /\ fifo' = fifo
  BY DEF vars
<1>2. regs' \in [Addr -> Byte] /\ regs'[IoSel] = regs[IoSel] /\ fifo' \in Seq(Byte)
  BY <1>1 DEF IInv, TypeOK
<1>3. /\ IInv' /\ (Done' <=> Done)
      /\ access' = access /\ latched' = latched /\ reply' = reply
  BY <1>1, <1>2, ChipKeeps
<1>4. QED  BY <1>1, <1>3, SameAbove

\* One step of the bus keeps the invariant and is at most one step above it.
LEMMA StepKeeps ==
  ASSUME IInv, [Next]_vars
  PROVE  IInv' /\ [Above!Next]_(Above!vars)
<1>1. CASE writeReg \/ readReg \/ writeFifo \/ readFifo
  BY <1>1, CallsKeep DEF Above!Next
<1>2. CASE TurnFifo
  BY <1>2, TurnFifoKeeps DEF Above!Next
<1>3. CASE NextByte
  BY <1>3, NextByteKeeps DEF Above!Next
<1>4. CASE EndCall
  BY <1>4, EndCallKeeps
<1>5. CASE Select
  BY <1>5, SelectKeeps DEF Above!Next
<1>6. CASE Drive
  BY <1>6, DriveKeeps
<1>7. CASE Raise
  BY <1>7, RaiseKeeps DEF Above!Next
<1>8. CASE Sample
  BY <1>8, SampleKeeps
<1>9. CASE Lower
  BY <1>9, LowerKeeps DEF Above!Next
<1>10. CASE Deselect
  BY <1>10, DeselectKeeps DEF Above!Next
<1>11. CASE Flags
  BY <1>11, FlagsKeep DEF Above!Next
<1>12. CASE PacketHandler
  BY <1>12, PacketHandlerKeeps DEF Above!Next
<1>13. CASE UNCHANGED vars
  BY <1>13, StutterKeeps
<1>14. QED
  BY <1>1, <1>2, <1>3, <1>4, <1>5, <1>6, <1>7, <1>8, <1>9, <1>10, <1>11, <1>12, <1>13
  DEF Next, Code

\* Of every reachable state: bit by bit, the driver, the pins and the chip
\* agree on how far the access in progress has come.
THEOREM Invariance == Spec => []IInv
<1>1. Init => IInv
  BY InitInvariant
<1>2. IInv /\ [Next]_vars => IInv'
  BY StepKeeps
<1>3. QED  BY <1>1, <1>2, PTL DEF Spec

\* Calls, bits, pins and the chip's registers and FIFO stay in their ranges.
THEOREM BusTyped == Spec => []TypeOK
<1>1. IInv => TypeOK
  BY DEF IInv
<1>2. QED  BY <1>1, Invariance, PTL

\* CSB and FCSB are never low together, in any order of calls and whatever the
\* chip does meanwhile: a byte for the FIFO is never taken for a register's.
THEOREM SelectsExclusive == Spec => []OneSelect
<1>1. IInv => OneSelect
  BY DEF IInv, PinsFollow, OneSelect
<1>2. QED  BY <1>1, Invariance, PTL

\* Turning the FIFO, a read of IO_SEL and a write of it, never loses the
\* FIFO_MERGE bit beside the direction bit.
THEOREM MergeStaysSet == Spec => []MergeKept
<1>1. IInv => MergeKept
  BY DEF IInv, MergeFollows
<1>2. QED  BY <1>1, Invariance, PTL

\* Every access over the joined line is, from above, one step between its call
\* and its return, and returns what the register or the FIFO held at that step.
THEOREM BusIsAtomic == Spec => AccessesAreAtomic
<1>1. Init => Above!Init
  BY InitInvariant
<1>2. IInv /\ [Next]_vars => [Above!Next]_(Above!vars)
  BY StepKeeps
<1>3. QED  BY <1>1, <1>2, Invariance, PTL DEF Spec, AccessesAreAtomic, Above!Spec

=============================================================================
