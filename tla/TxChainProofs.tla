---------------------------- MODULE TxChainProofs ----------------------------
(***************************************************************************)
(* Proofs about TxChain: what goes on air is the frame that was asked for, *)
(* no success is reported without it, and a transmission is one step to    *)
(* its callers - for any contents, FIFO size and number of transmissions.  *)
(***************************************************************************)
EXTENDS TxChain, TLAPS, SequenceTheorems

\* A call in progress has a frame of at least its three bytes of header.
LengthSet == pc # "idle" => flen >= 3

\* A call that goes on sending is in its first attempt or the one retry.
AttemptsLeft == pc \notin {"idle", "restore", "return"} => attempt <= 1

\* The framing of a call's owner is never one of a transmission.
FramingOwned == saved \in Framings /\ (pc = "idle" => reg \in Framings)

\* Outside a call nothing is left to be sent, however late the chip is.
LeftEmpty == pc \in {"idle", "frame", "return"} => fifo = <<>>

\* TX_DONE seen by the poll was raised in this call.
DoneEarned ==
  /\ done => onAir > 0
  /\ txDone /\ pc \in {"go", "poll"} => onAir > 0

\* A chip that has reached standby in time only transmits between GoTx and
\* the next Go.
TransmitsInPoll ==
  ~late => /\ mode = command \/ command = "TX"
           /\ command = "TX" => pc \in {"poll", "retry", "restore"}

\* Where the code stands tells what is in the FIFO, unless it has been sent.
FifoFollows ==
  ~late =>
    /\ pc = "fill" => fifo = <<>> /\ written = 0
    /\ pc = "fill on" => fifo = <<"head">> /\ written = 3
    /\ pc \in {"check", "go"} => fifo = Whole /\ written = flen
    /\ pc \in {"poll", "retry", "restore"} =>
         fifo = <<>> \/ (fifo = Whole /\ written = flen)

FramedForAir ==
  pc \in {"fill", "fill on", "check", "go", "poll", "retry", "restore"} => reg = TxFraming(flen)

IInv ==
  /\ TypeOK /\ LengthSet /\ AttemptsLeft /\ FramingOwned /\ LeftEmpty /\ DoneEarned
  /\ TransmitsInPoll /\ FifoFollows /\ FramedForAir /\ CleanAir

------------------------------------------------------------------------------
(* The parts of TypeOK, which are shown apart.                             *)

FlagsTyped == done \in BOOLEAN /\ txDone \in BOOLEAN /\ garbled \in BOOLEAN /\ late \in BOOLEAN

PlacesTyped ==
  /\ pc \in {"idle", "frame", "fill", "fill on", "check", "go", "poll", "retry", "restore", "return"}
  /\ saved \in [Reg -> Nat] /\ reg \in [Reg -> Nat]
  /\ mode \in Modes /\ command \in Modes
  /\ direction \in {"READ", "WRITE"} /\ result \in {"none", "done", "stall"}

CountsTyped ==
  flen \in 0..99 /\ attempt \in 0..2 /\ calls \in 0..MaxCalls /\ written \in Nat /\ onAir \in Nat

FifoTyped == fifo \in Seq({"head", "content"})

LEMMA TypeOKParts ==
  /\ TypeOK <=> FlagsTyped /\ PlacesTyped /\ CountsTyped /\ FifoTyped
  /\ TypeOK' <=> FlagsTyped' /\ PlacesTyped' /\ CountsTyped' /\ FifoTyped'
BY Zenon DEF TypeOK, FlagsTyped, PlacesTyped, CountsTyped, FifoTyped

\* The framings there are have the three registers' contents.
LEMMA FramingsTyped ==
  /\ Framings \subseteq [Reg -> Nat]
  /\ \A n \in Nat : TxFraming(n) \in [Reg -> Nat]
BY DEF Framings, MapFraming, WindowFraming, LeftFraming, TxFraming, Reg

\* The two parts of a transmission make a whole one.
LEMMA PartsMakeWhole ==
  /\ Append(<<>>, "head") = <<"head">>
  /\ Append(<<"head">>, "content") = Whole
<1> DEFINE S == {"head", "content"}
           h == <<"head">>
           w == Append(h, "content")
<1>1. h \in Seq(S) /\ Len(h) = 1 /\ h[1] = "head"
  OBVIOUS
<1>2. Append(<<>>, "head") \in Seq(S) /\ Len(Append(<<>>, "head")) = 1
      /\ Append(<<>>, "head")[1] = "head"
  BY <1>1
<1>3. w \in Seq(S) /\ Len(w) = 2 /\ w[1] = "head" /\ w[2] = "content"
  BY <1>1
<1>4. Whole \in Seq(S) /\ Len(Whole) = 2 /\ Whole[1] = "head" /\ Whole[2] = "content"
  BY DEF Whole
<1> HIDE DEF w
<1>5. w = Whole
  BY <1>3, <1>4, SeqEqual
<1>6. Append(<<>>, "head") = h
  BY <1>1, <1>2, SeqEqual
<1> QED BY <1>5, <1>6 DEF w

\* What a mode command that is waited for leaves behind.
LEMMA GoKeeps ==
  ASSUME TypeOK, NEW m \in Modes, Go(m)
  PROVE  /\ mode' \in Modes /\ command' = m /\ late' \in BOOLEAN
         /\ ~late' => ~late /\ mode' = m
<1>1. mode' \in {mode, m} /\ command' = m
  BY DEF Go
<1>2. late' = (late \/ mode' # m)
  BY DEF Go
<1>3. mode' \in Modes
  BY <1>1 DEF TypeOK
<1>4. late' \in BOOLEAN
  BY <1>2 DEF TypeOK
<1> QED BY <1>1, <1>2, <1>3, <1>4

------------------------------------------------------------------------------
(* The invariant holds at first, and every step keeps it.                  *)

\* The parts of the invariant that speak of where the code stands, and those
\* that compare numbers.
Positions == FramingOwned /\ LeftEmpty /\ TransmitsInPoll /\ FifoFollows /\ FramedForAir
Numbers == LengthSet /\ AttemptsLeft /\ DoneEarned /\ CleanAir

LEMMA InvariantParts ==
  /\ IInv <=> /\ TypeOK /\ FlagsTyped /\ PlacesTyped /\ CountsTyped /\ FifoTyped
              /\ Positions /\ Numbers
  /\ IInv' <=> /\ FlagsTyped' /\ PlacesTyped' /\ CountsTyped' /\ FifoTyped'
               /\ Positions' /\ Numbers'
BY Zenon, TypeOKParts DEF IInv, Positions, Numbers

LEMMA InitInvariant == ASSUME TxAssumption, Init PROVE IInv
<1>1. MapFraming \in Framings
  BY DEF Framings
<1>2. TypeOK
  <2>1. FlagsTyped
    BY DEF Init, FlagsTyped
  <2>2. PlacesTyped
    BY <1>1, FramingsTyped DEF Init, PlacesTyped, Modes
  <2>3. CountsTyped
    BY DEF Init, CountsTyped, TxAssumption
  <2>4. FifoTyped
    BY DEF Init, FifoTyped
  <2> QED BY <2>1, <2>2, <2>3, <2>4, TypeOKParts
<1>3. /\ LengthSet /\ AttemptsLeft /\ LeftEmpty /\ DoneEarned /\ TransmitsInPoll
      /\ FifoFollows /\ FramedForAir
  BY DEF Init, LengthSet, AttemptsLeft, LeftEmpty, DoneEarned, TransmitsInPoll, FifoFollows,
         FramedForAir
<1>4. FramingOwned /\ CleanAir
  BY <1>1 DEF Init, FramingOwned, CleanAir
<1> QED BY <1>2, <1>3, <1>4 DEF IInv

LEMMA CodeInvariant == ASSUME TxAssumption, IInv, Code PROVE IInv'
<1> TypeOK /\ FlagsTyped /\ PlacesTyped /\ CountsTyped /\ FifoTyped /\ Positions /\ Numbers
  BY InvariantParts
<1> "STBY" \in Modes /\ "RX" \in Modes /\ "TX" \in Modes
  BY DEF Modes
<1> USE DEF LengthSet, AttemptsLeft, FramingOwned, LeftEmpty, DoneEarned, TransmitsInPoll,
            FifoFollows, FramedForAir, CleanAir
<1>1. CASE Reframe
  <2>0. reg' \in Framings
    BY <1>1 DEF Reframe, Framings
  <2>1. FlagsTyped'
    BY <1>1 DEF Reframe, FlagsTyped, code, seen
  <2>2. PlacesTyped'
    BY <1>1, <2>0, FramingsTyped DEF Reframe, PlacesTyped, code, seen
  <2>3. CountsTyped'
    BY <1>1 DEF Reframe, CountsTyped, code, seen
  <2>4. FifoTyped'
    BY <1>1 DEF Reframe, FifoTyped, code, seen
  <2>5. Positions'
    BY <1>1, <2>0 DEF Reframe, Positions, code, seen
  <2>6. Numbers'
    BY <1>1 DEF Reframe, Numbers, code, seen
  <2> QED BY <2>1, <2>2, <2>3, <2>4, <2>5, <2>6, InvariantParts
<1>2. CASE Begin
  <2>1. /\ mode' \in Modes /\ command' = "STBY" /\ late' \in BOOLEAN
        /\ ~late' => ~late /\ mode' = "STBY"
    BY <1>2, GoKeeps DEF Begin
  <2>2. flen' \in 3..99
    <3>1. PICK clen \in Contents : flen' = 3 + clen
      BY <1>2 DEF Begin
    <3> QED BY <3>1 DEF TxAssumption
  <2>3. FlagsTyped'
    BY <1>2, <2>1 DEF Begin, FlagsTyped
  <2>4. PlacesTyped'
    BY <1>2, <2>1 DEF Begin, PlacesTyped
  <2>5. CountsTyped'
    <3>1. calls' = calls + 1 /\ calls < MaxCalls /\ attempt' = 0 /\ onAir' = 0 /\ written' = written
      BY <1>2 DEF Begin
    <3> QED BY <2>2, <3>1 DEF CountsTyped, TxAssumption
  <2>6. FifoTyped'
    BY <1>2, <2>1 DEF Begin, FifoTyped
  <2>7. Positions'
    BY <1>2, <2>1 DEF Begin, Positions
  <2>8. Numbers'
    BY <1>2, <2>1, <2>2 DEF Begin, Numbers
  <2> QED BY <2>3, <2>4, <2>5, <2>6, <2>7, <2>8, InvariantParts
<1>3. CASE SetFraming
  <2>1. FlagsTyped'
    BY <1>3 DEF SetFraming, FlagsTyped, ClearFifo, seen
  <2>2. PlacesTyped'
    <3>1. TxFraming(flen) \in [Reg -> Nat]
      BY FramingsTyped DEF CountsTyped
    <3> QED BY <1>3, <3>1 DEF SetFraming, PlacesTyped, seen
  <2>3. CountsTyped'
    BY <1>3 DEF SetFraming, CountsTyped, ClearFifo, seen
  <2>4. FifoTyped'
    BY <1>3 DEF SetFraming, FifoTyped, ClearFifo, seen
  <2>5. Positions'
    BY <1>3 DEF SetFraming, Positions, ClearFifo, seen
  <2>6. Numbers'
    BY <1>3 DEF SetFraming, Numbers, ClearFifo, seen
  <2> QED BY <2>1, <2>2, <2>3, <2>4, <2>5, <2>6, InvariantParts
<1>4. CASE FillHead
  <2>1. FlagsTyped'
    BY <1>4 DEF FillHead, FlagsTyped, seen
  <2>2. PlacesTyped'
    BY <1>4 DEF FillHead, PlacesTyped, seen
  <2>3. CountsTyped'
    <3>1. written' = written + 3 /\ UNCHANGED <<flen, attempt, calls, onAir>>
      BY <1>4 DEF FillHead, seen
    <3> QED BY <3>1 DEF CountsTyped
  <2>4. FifoTyped'
    <3>1. fifo' = Append(fifo, "head")
      BY <1>4 DEF FillHead
    <3> QED BY <3>1 DEF FifoTyped
  <2>5. Positions'
    <3>1. ~late => fifo = <<>> /\ written = 0
      BY <1>4 DEF FillHead, Positions
    <3>2. fifo' = Append(fifo, "head") /\ written' = written + 3 /\ late' = late
      BY <1>4 DEF FillHead, seen
    <3>3. ~late => fifo' = <<"head">> /\ written' = 3
      BY <3>1, <3>2, PartsMakeWhole
    <3> QED BY <1>4, <3>3 DEF FillHead, Positions, seen
  <2>6. Numbers'
    BY <1>4 DEF FillHead, Numbers, seen
  <2> QED BY <2>1, <2>2, <2>3, <2>4, <2>5, <2>6, InvariantParts
<1>5. CASE FillContent
  <2>1. FlagsTyped'
    BY <1>5 DEF FillContent, FlagsTyped, seen
  <2>2. PlacesTyped'
    BY <1>5 DEF FillContent, PlacesTyped, seen
  <2>3. CountsTyped'
    <3>1. flen \in 3..99
      <4>1. flen >= 3
        BY <1>5 DEF FillContent, Numbers
      <4> QED BY <4>1 DEF CountsTyped
    <3>2. written' = written + flen - 3 /\ UNCHANGED <<flen, attempt, calls, onAir>>
      BY <1>5 DEF FillContent, seen
    <3> QED BY <3>1, <3>2 DEF CountsTyped
  <2>4. FifoTyped'
    <3>1. fifo' = Append(fifo, "content")
      BY <1>5 DEF FillContent
    <3> QED BY <3>1 DEF FifoTyped
  <2>5. Positions'
    <3>1. ~late => fifo = <<"head">> /\ written = 3
      BY <1>5 DEF FillContent, Positions
    <3>2. fifo' = Append(fifo, "content") /\ written' = written + flen - 3 /\ late' = late
      BY <1>5 DEF FillContent, seen
    <3>3. ~late => fifo' = Whole
      BY <3>1, <3>2, PartsMakeWhole
    <3>4. ~late => written' = flen
      BY <3>1, <3>2 DEF CountsTyped
    <3> QED BY <1>5, <3>3, <3>4 DEF FillContent, Positions, seen
  <2>6. Numbers'
    BY <1>5 DEF FillContent, Numbers, seen
  <2> QED BY <2>1, <2>2, <2>3, <2>4, <2>5, <2>6, InvariantParts
<1>6. CASE CheckAndClear
  <2>1. Go("STBY") \/ UNCHANGED <<mode, command, late>>
    BY <1>6 DEF CheckAndClear
  <2>2. /\ mode' \in Modes /\ command' \in Modes /\ late' \in BOOLEAN
        /\ ~late' => /\ ~late
                     /\ (mode' = "STBY" /\ command' = "STBY") \/ UNCHANGED <<mode, command>>
    BY <2>1, GoKeeps DEF TypeOK
  <2>3. FlagsTyped'
    BY <1>6, <2>2 DEF CheckAndClear, FlagsTyped
  <2>4. PlacesTyped'
    BY <1>6, <2>2 DEF CheckAndClear, PlacesTyped
  <2>5. CountsTyped'
    BY <1>6, <2>2 DEF CheckAndClear, CountsTyped
  <2>6. FifoTyped'
    BY <1>6, <2>2 DEF CheckAndClear, FifoTyped
  <2>7. Positions'
    BY <1>6, <2>2 DEF CheckAndClear, Positions
  <2>8. Numbers'
    BY <1>6, <2>2 DEF CheckAndClear, Numbers
  <2> QED BY <2>3, <2>4, <2>5, <2>6, <2>7, <2>8, InvariantParts
<1>7. CASE GoTx
  <2>1. FlagsTyped'
    BY <1>7 DEF GoTx, FlagsTyped, seen
  <2>2. PlacesTyped'
    BY <1>7 DEF GoTx, PlacesTyped, seen
  <2>3. CountsTyped'
    BY <1>7 DEF GoTx, CountsTyped, seen
  <2>4. FifoTyped'
    BY <1>7 DEF GoTx, FifoTyped, seen
  <2>5. Positions'
    BY <1>7 DEF GoTx, Positions, seen
  <2>6. Numbers'
    BY <1>7 DEF GoTx, Numbers, seen
  <2> QED BY <2>1, <2>2, <2>3, <2>4, <2>5, <2>6, InvariantParts
<1>8. CASE PollDone
  <2>1. FlagsTyped'
    BY <1>8 DEF PollDone, FlagsTyped, chip, seen
  <2>2. PlacesTyped'
    BY <1>8 DEF PollDone, PlacesTyped, chip, seen
  <2>3. CountsTyped'
    BY <1>8 DEF PollDone, CountsTyped, chip, seen
  <2>4. FifoTyped'
    BY <1>8 DEF PollDone, FifoTyped, chip, seen
  <2>5. Positions'
    BY <1>8 DEF PollDone, Positions, chip, seen
  <2>6. Numbers'
    BY <1>8 DEF PollDone, Numbers, chip, seen
  <2> QED BY <2>1, <2>2, <2>3, <2>4, <2>5, <2>6, InvariantParts
<1>9. CASE PollTimeout
  <2>1. FlagsTyped'
    BY <1>9 DEF PollTimeout, FlagsTyped, chip, seen
  <2>2. PlacesTyped'
    BY <1>9 DEF PollTimeout, PlacesTyped, chip, seen
  <2>3. CountsTyped'
    <3>1. attempt <= 1
      BY <1>9 DEF PollTimeout, Numbers
    <3> QED BY <1>9, <3>1 DEF PollTimeout, CountsTyped, chip, seen
  <2>4. FifoTyped'
    BY <1>9 DEF PollTimeout, FifoTyped, chip, seen
  <2>5. Positions'
    BY <1>9 DEF PollTimeout, Positions, chip, seen
  <2>6. Numbers'
    BY <1>9, <2>3 DEF PollTimeout, Numbers, chip, seen
  <2> QED BY <2>1, <2>2, <2>3, <2>4, <2>5, <2>6, InvariantParts
<1>10. CASE Retry
  <2>1. /\ mode' \in Modes /\ command' = "STBY" /\ late' \in BOOLEAN
        /\ ~late' => ~late /\ mode' = "STBY"
    BY <1>10, GoKeeps DEF Retry
  <2>2. FlagsTyped'
    BY <1>10, <2>1 DEF Retry, FlagsTyped, ClearFifo
  <2>3. PlacesTyped'
    BY <1>10, <2>1 DEF Retry, PlacesTyped, ClearFifo
  <2>4. CountsTyped'
    BY <1>10, <2>1 DEF Retry, CountsTyped, ClearFifo
  <2>5. FifoTyped'
    BY <1>10, <2>1 DEF Retry, FifoTyped, ClearFifo
  <2>6. Positions'
    BY <1>10, <2>1 DEF Retry, Positions, ClearFifo
  <2>7. Numbers'
    BY <1>10, <2>1 DEF Retry, Numbers, ClearFifo
  <2> QED BY <2>2, <2>3, <2>4, <2>5, <2>6, <2>7, InvariantParts
<1>11. CASE Standby
  <2>1. /\ mode' \in Modes /\ command' = "STBY" /\ late' \in BOOLEAN
        /\ ~late' => ~late /\ mode' = "STBY"
    BY <1>11, GoKeeps DEF Standby
  <2>2. FlagsTyped'
    BY <1>11, <2>1 DEF Standby, FlagsTyped, ClearFifo
  <2>3. PlacesTyped'
    BY <1>11, <2>1 DEF Standby, PlacesTyped, ClearFifo
  <2>4. CountsTyped'
    BY <1>11, <2>1 DEF Standby, CountsTyped, ClearFifo
  <2>5. FifoTyped'
    BY <1>11, <2>1 DEF Standby, FifoTyped, ClearFifo
  <2>6. Positions'
    BY <1>11, <2>1 DEF Standby, Positions, ClearFifo
  <2>7. Numbers'
    BY <1>11, <2>1 DEF Standby, Numbers, ClearFifo
  <2> QED BY <2>2, <2>3, <2>4, <2>5, <2>6, <2>7, InvariantParts
<1>12. CASE Return
  <2>1. /\ mode' \in Modes /\ command' = "RX" /\ late' \in BOOLEAN
        /\ ~late' => ~late /\ mode' = "RX"
    BY <1>12, GoKeeps DEF Return
  <2>2. FlagsTyped'
    BY <1>12, <2>1 DEF Return, FlagsTyped
  <2>3. PlacesTyped'
    <3>1. saved \in [Reg -> Nat]
      BY DEF PlacesTyped
    <3> QED BY <1>12, <2>1, <3>1 DEF Return, PlacesTyped
  <2>4. CountsTyped'
    BY <1>12, <2>1 DEF Return, CountsTyped
  <2>5. FifoTyped'
    BY <1>12, <2>1 DEF Return, FifoTyped
  <2>6. Positions'
    BY <1>12, <2>1 DEF Return, Positions
  <2>7. Numbers'
    BY <1>12, <2>1 DEF Return, Numbers
  <2> QED BY <2>2, <2>3, <2>4, <2>5, <2>6, <2>7, InvariantParts
<1> QED BY <1>1, <1>2, <1>3, <1>4, <1>5, <1>6, <1>7, <1>8, <1>9, <1>10, <1>11, <1>12 DEF Code

LEMMA ChipInvariant == ASSUME TxAssumption, IInv, Chip PROVE IInv'
<1> TypeOK /\ FlagsTyped /\ PlacesTyped /\ CountsTyped /\ FifoTyped /\ Positions /\ Numbers
  BY InvariantParts
<1> USE DEF LengthSet, AttemptsLeft, FramingOwned, LeftEmpty, DoneEarned, TransmitsInPoll,
            FifoFollows, FramedForAir, CleanAir
<1>1. CASE TakeCommand
  <2>1. FlagsTyped'
    BY <1>1 DEF TakeCommand, FlagsTyped, code, seen
  <2>2. PlacesTyped'
    BY <1>1 DEF TakeCommand, PlacesTyped, code, seen
  <2>3. CountsTyped'
    BY <1>1 DEF TakeCommand, CountsTyped, code, seen
  <2>4. FifoTyped'
    BY <1>1 DEF TakeCommand, FifoTyped, code, seen
  <2>5. Positions'
    BY <1>1 DEF TakeCommand, Positions, code, seen
  <2>6. Numbers'
    BY <1>1 DEF TakeCommand, Numbers, code, seen
  <2> QED BY <2>1, <2>2, <2>3, <2>4, <2>5, <2>6, InvariantParts
<1>2. CASE TxComplete
  <2>1. /\ mode = "TX" /\ fifo # <<>> /\ txDone' = TRUE /\ onAir' = onAir + 1
        /\ fifo' = <<>> /\ written' = 0
        /\ UNCHANGED <<pc, saved, flen, attempt, done, calls, reg, mode, command, direction,
                       late, result>>
    BY <1>2 DEF TxComplete, ClearFifo, code
  <2>2. garbled' = (garbled \/ fifo # Whole \/ reg # TxFraming(written) \/ written > FifoSize)
    BY <1>2 DEF TxComplete
  <2>3. ~late => pc \in {"poll", "retry", "restore"}
    BY <2>1 DEF Positions
  <2>4. ~late => fifo = Whole /\ written = flen /\ reg = TxFraming(flen)
    BY <2>1, <2>3 DEF Positions
  <2>5. FlagsTyped'
    BY <2>1, <2>2 DEF FlagsTyped
  <2>6. PlacesTyped'
    BY <2>1 DEF PlacesTyped
  <2>7. CountsTyped'
    BY <2>1 DEF CountsTyped
  <2>8. FifoTyped'
    BY <2>1 DEF FifoTyped
  <2>9. Positions'
    BY <2>1, <2>3 DEF Positions
  <2>10. Numbers'
    <3>1. CleanAir'
      <4> SUFFICES ASSUME ~late, flen <= FifoSize PROVE ~garbled'
        BY <2>1
      <4>1. ~garbled
        BY DEF Numbers
      <4>2. ~(flen > FifoSize)
        BY DEF CountsTyped, TxAssumption
      <4> QED BY <2>2, <2>4, <4>1, <4>2
    <3>2. onAir' > 0
      BY <2>1 DEF CountsTyped
    <3> QED BY <2>1, <3>1, <3>2 DEF Numbers
  <2> QED BY <2>5, <2>6, <2>7, <2>8, <2>9, <2>10, InvariantParts
<1> QED BY <1>1, <1>2 DEF Chip

LEMMA StepInvariant == ASSUME TxAssumption, IInv, [Next]_vars PROVE IInv'
<1>1. CASE UNCHANGED vars
  <2>1. UNCHANGED <<FlagsTyped, PlacesTyped, CountsTyped, FifoTyped>>
    BY <1>1 DEF vars, code, chip, seen, FlagsTyped, PlacesTyped, CountsTyped, FifoTyped
  <2>2. UNCHANGED <<Positions, Numbers>>
    BY <1>1
    DEF vars, code, chip, seen, Positions, Numbers, LengthSet, AttemptsLeft, FramingOwned,
        LeftEmpty, DoneEarned, TransmitsInPoll, FifoFollows, FramedForAir, CleanAir
  <2> QED BY <2>1, <2>2, InvariantParts
<1> QED BY <1>1, CodeInvariant, ChipInvariant DEF Next

THEOREM Invariance == Spec => []IInv
<1>1. Init => IInv
  BY TxAssumption, InitInvariant
<1>2. IInv /\ [Next]_vars => IInv'
  BY TxAssumption, StepInvariant
<1> QED BY <1>1, <1>2, PTL DEF Spec

\* hciDoTx keeps its variables, and the chip's registers, in their types.
THEOREM TransmissionTyped == Spec => []TypeOK
BY Invariance, PTL DEF IInv

\* Whatever the daemon asks for, as often as it likes: with a chip that reaches
\* standby in time nothing but whole frames in their own framing goes on air,
\* also when the first attempt completes while hciDoTx turns to the retry.
THEOREM AirIsClean == Spec => []CleanAir
BY Invariance, PTL DEF IInv

\* hciDoTx never reports TX_DONE of another transmission, or of none, as its
\* own - with a chip however late.
THEOREM DoneIsEarned == Spec => []NoPhantomDone
<1>1. IInv => NoPhantomDone
  BY DEF IInv, DoneEarned, NoPhantomDone
<1> QED BY <1>1, Invariance, PTL

------------------------------------------------------------------------------
(* To its callers a transmission is one step.                              *)

SeenFraming == IF pc = "idle" THEN reg ELSE saved
SeenOnAir   == IF pc = "idle" THEN onAir ELSE 0
SeenResult  == IF pc = "idle" THEN result ELSE "none"
SeenVars == <<SeenFraming, SeenOnAir, SeenResult>>

\* Inside a call its owner sees nothing change.
LEMMA Hidden ==
  ASSUME pc # "idle", pc' # "idle", saved' = saved
  PROVE  UNCHANGED SeenVars
BY DEF SeenVars, SeenFraming, SeenOnAir, SeenResult

LEMMA StepAtomic ==
  ASSUME IInv, [Next]_vars
  PROVE  AsSeen!Next \/ UNCHANGED SeenVars
<1> DEFINE Goal == AsSeen!Next \/ UNCHANGED SeenVars
<1>1. CASE Reframe
  <2>1. pc = "idle" /\ pc' = "idle" /\ reg' \in Framings /\ UNCHANGED <<onAir, result>>
    BY <1>1 DEF Reframe, Framings, code, seen
  <2>2. AsSeen!Reframe
    BY <2>1 DEF AsSeen!Reframe
  <2> QED BY <2>2 DEF AsSeen!Next
<1>2. CASE Begin
  <2>1. pc = "idle" /\ pc' = "frame" /\ saved' = reg
    BY <1>2 DEF Begin
  <2>2. AsSeen!Ask
    BY <2>1 DEF AsSeen!Ask
  <2> QED BY <2>2 DEF AsSeen!Next
<1>3. CASE \/ SetFraming \/ FillHead \/ FillContent \/ CheckAndClear \/ GoTx
           \/ PollDone \/ PollTimeout \/ Retry \/ Standby
  <2>1. pc # "idle" /\ pc' # "idle" /\ saved' = saved
    BY <1>3 DEF SetFraming, FillHead, FillContent, CheckAndClear, GoTx, PollDone, PollTimeout,
                Retry, Standby
  <2> QED BY <2>1, Hidden
<1>4. CASE Return
  <2>1. /\ pc = "return" /\ pc' = "idle" /\ reg' = saved /\ onAir' = onAir
        /\ result' = IF done THEN "done" ELSE "stall"
    BY <1>4 DEF Return
  <2>2. onAir' \in Nat /\ result' \in {"done", "stall"} /\ (result' = "done" => onAir' > 0)
    BY <2>1 DEF IInv, TypeOK, DoneEarned
  <2>3. AsSeen!Transmit
    BY <2>1, <2>2 DEF AsSeen!Transmit
  <2> QED BY <2>3 DEF AsSeen!Next
<1>5. CASE TakeCommand
  BY <1>5 DEF TakeCommand, code, seen, SeenVars, SeenFraming, SeenOnAir, SeenResult
<1>6. CASE TxComplete
  <2>1. pc # "idle" /\ pc' = pc /\ saved' = saved
    BY <1>6 DEF TxComplete, code, IInv, LeftEmpty
  <2> QED BY <2>1, Hidden
<1>7. CASE UNCHANGED vars
  BY <1>7 DEF vars, code, chip, seen, SeenVars, SeenFraming, SeenOnAir, SeenResult
<1> QED BY <1>1, <1>2, <1>3, <1>4, <1>5, <1>6, <1>7 DEF Next, Code, Chip

\* Seen by the loop and by the receive window, hciDoTx is the single step of
\* AtomicTx: it leaves the receive framing as it was and reports success only
\* if its frame went on air in that call.
THEOREM TransmissionIsAtomic == Spec => ActsAtomically
<1>1. Init => AsSeen!Init
  BY DEF Init, Framings, AsSeen!Init
<1>2. IInv /\ [Next]_vars => [AsSeen!Next]_(AsSeen!vars)
  BY StepAtomic DEF SeenVars, SeenFraming, SeenOnAir, SeenResult, AsSeen!vars
<1> QED BY <1>1, <1>2, Invariance, PTL DEF Spec, ActsAtomically, AsSeen!Spec
=============================================================================
