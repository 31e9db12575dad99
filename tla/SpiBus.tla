-------------------------------- MODULE SpiBus --------------------------------
(***************************************************************************)
(* The software SPI of the joined-SDIO wiring: every access to a register  *)
(* or to the FIFO as the pins see it, edge by edge.  SDIO is one line that *)
(* both ends drive; CSB selects the registers, FCSB the FIFO.  A byte has  *)
(* Width bits (8 on the chip), the first of an address byte says read or   *)
(* write.                                                                  *)
(***************************************************************************)
EXTENDS Naturals, Sequences

CONSTANTS Width,      \* bits of a byte
          IoSel,      \* address of the register whose last bit turns the FIFO
          MaxFifo,    \* bound on the FIFO
          MaxBytes    \* bound on the bytes of one FIFO call

Bit  == {0, 1}
Byte == [1..Width -> Bit]
Addr == [1..(Width - 1) -> Bit]
Ones == [i \in 1..Width |-> 1]
Zeros == [i \in 1..Width |-> 0]
NoAccess == [op |-> "none"]

ASSUME SpiAssumption == Width \in Nat \ {0, 1} /\ IoSel \in Addr /\ MaxFifo \in Nat /\ MaxBytes \in Nat

VARIABLES
  call, left, turnTo,  \* the driver's call, bytes it still has to transfer, FIFO direction
  access, pc, k, r,    \* the access in progress: step, bit, bits read back
  csb, fcsb, sck, sdio, dir, \* pins: levels the ESP32 sets, direction of its SDIO
  regs, fifo,          \* chip: registers, FIFO
  taken, latched, chipOut,  \* chip: bits taken in, value to send, bits not yet sent
  reply                \* what the last access returned, until the next one

driver == <<call, left, turnTo>>
pins   == <<csb, fcsb, sck, sdio, dir>>
chip   == <<taken, latched, chipOut>>
vars   == <<driver, access, pc, k, r, pins, regs, fifo, chip, reply>>

\* begin() has set FIFO_MERGE (here the first bit of IO_SEL) and raised both
\* selects; swSpiInit drives the other two lines low.
Init ==
  /\ call = "none" /\ left = <<>> /\ turnTo = 0
  /\ access = NoAccess /\ pc = "idle" /\ k = 1 /\ r = <<>>
  /\ csb = 1 /\ fcsb = 1 /\ sck = 0 /\ sdio = 0 /\ dir = "output"
  /\ regs \in {f \in [Addr -> Byte] : f[IoSel][1] = 1} /\ fifo = <<>>
  /\ taken = <<>> /\ latched = <<>> /\ chipOut = <<>>
  /\ reply = <<>>

Turned(f) == f[IoSel][Width] = 1

------------------------------------------------------------------------------
(* The driver's calls, as sequences of accesses.                           *)

Start(stage, bytes, turn, first) ==
  /\ pc = "idle"
  /\ call' = stage /\ left' = bytes /\ turnTo' = turn
  /\ access' = first /\ pc' = "select" /\ reply' = <<>>
  /\ UNCHANGED <<k, r, pins, regs, fifo, chip>>

writeReg == \E a \in Addr \ {IoSel}, v \in Byte :
  Start("reg", <<>>, 0, [op |-> "write", a |-> a, v |-> v])
readReg == \E a \in Addr : Start("reg", <<>>, 0, [op |-> "read", a |-> a])

\* Both look at IO_SEL first.
Look == [op |-> "read", a |-> IoSel]
writeFifo == \E n \in 1..MaxBytes : \E data \in [1..n -> Byte] : Len(fifo) + n <= MaxFifo /\ Start("look", data, 1, Look)
readFifo  == \E n \in 1..MaxBytes : Start("look", [i \in 1..n |-> Zeros], 0, Look)

\* Mutant of TurnFifo: the direction is written alone.
TurnFifoOverwriting ==
  /\ pc = "next" /\ call = "look"
  /\ access' = [op |-> "write", a |-> IoSel, v |-> [Zeros EXCEPT ![Width] = turnTo]]
  /\ call' = "turn" /\ pc' = "select" /\ reply' = <<>>
  /\ UNCHANGED <<left, turnTo, k, r, pins, regs, fifo, chip>>

\* IO_SEL written back with its direction bit set or cleared.
TurnFifo ==
  /\ pc = "next" /\ call = "look"
  /\ access' = [op |-> "write", a |-> IoSel, v |-> [reply EXCEPT ![Width] = turnTo]]
  /\ call' = "turn" /\ pc' = "select" /\ reply' = <<>>
  /\ UNCHANGED <<left, turnTo, k, r, pins, regs, fifo, chip>>

NextByte ==
  /\ pc = "next" /\ call = "turn" /\ left # <<>>
  /\ access' = IF turnTo = 1 THEN [op |-> "push", v |-> Head(left)] ELSE [op |-> "pop"]
  /\ left' = Tail(left) /\ pc' = "select" /\ reply' = <<>>
  /\ UNCHANGED <<call, turnTo, k, r, pins, regs, fifo, chip>>

EndCall ==
  /\ pc = "next"
  /\ call = "reg" \/ (call = "turn" /\ left = <<>>)
  /\ call' = "none" /\ pc' = "idle"
  /\ UNCHANGED <<left, turnTo, access, k, r, pins, regs, fifo, chip, reply>>

------------------------------------------------------------------------------
(* One access, edge by edge.                                               *)

OnRegisters == access.op \in {"read", "write"}

\* The bits the ESP32 puts on the line: an address byte, then a value, or
\* zeros where the chip is to answer.
BitsOut ==
  CASE access.op = "write" -> <<0>> \o access.a \o access.v
    [] access.op = "read"  -> <<1>> \o access.a \o Zeros
    [] access.op = "push"  -> access.v
    [] access.op = "pop"   -> Zeros

\* What the line may read as: the driver's level, the pull-up's where nobody
\* drives, either where both do.
Line(d) ==
  CASE d = "output" -> {sdio} \cup {Head(c) : c \in {chipOut} \ {<<>>}}
    [] d # "output" /\ chipOut # <<>> -> {Head(chipOut)}
    [] d = "pullup" /\ chipOut = <<>> -> {1}
    [] d = "input" /\ chipOut = <<>> -> Bit

\* csbLow or fcsbLow.  The chip, its FIFO selected for reading, takes out a
\* byte and shows the first bit.
Select ==
  /\ pc = "select"
  /\ IF OnRegisters THEN csb' = 0 /\ UNCHANGED fcsb ELSE fcsb' = 0 /\ UNCHANGED csb
  /\ IF access.op = "pop"
     THEN LET empty == fifo = <<>> \/ Turned(regs) IN
          /\ dir' = "pullup"
          /\ latched' = IF empty THEN Ones ELSE Head(fifo)
          /\ chipOut' = IF empty THEN <<>> ELSE Head(fifo)
          /\ fifo' = IF empty THEN fifo ELSE Tail(fifo)
     ELSE UNCHANGED <<dir, latched, chipOut, fifo>>
  /\ k' = 1 /\ pc' = "drive"
  /\ UNCHANGED <<driver, access, r, sck, sdio, regs, taken, reply>>

\* swSpiTransferByte drives each bit, in both directions of transfer;
\* swSpiReceiveByte never does.
Drive ==
  /\ pc = "drive"
  /\ IF access.op = "pop" THEN UNCHANGED <<sdio, dir>> ELSE dir' = "output" /\ sdio' = BitsOut[k]
  /\ pc' = "raise"
  /\ UNCHANGED <<driver, access, k, r, csb, fcsb, sck, regs, fifo, chip, reply>>

\* Mutant of ChipTakes: the last bit does not count.
ChipTakesShort(b) ==
  /\ taken' = Append(taken, b)
  /\ IF OnRegisters
     THEN /\ regs' = IF taken'[1] = 0 /\ Len(taken') = 2 * Width - 1
                     THEN [regs EXCEPT ![SubSeq(taken', 2, Width)] = SubSeq(taken', Width, 2 * Width - 1)]
                     ELSE regs
          /\ UNCHANGED fifo
     ELSE /\ fifo' = IF Len(taken') = Width /\ Turned(regs) THEN Append(fifo, taken') ELSE fifo
          /\ UNCHANGED regs

\* The rising edge: the chip takes the bit in, and after the last one of a
\* value acts on it.
ChipTakes(b) ==
  /\ taken' = Append(taken, b)
  /\ IF OnRegisters
     THEN /\ regs' = IF taken'[1] = 0 /\ Len(taken') = 2 * Width
                     THEN [regs EXCEPT ![SubSeq(taken', 2, Width)] = SubSeq(taken', Width + 1, 2 * Width)]
                     ELSE regs
          /\ UNCHANGED fifo
     ELSE /\ fifo' = IF Len(taken') = Width /\ Turned(regs) THEN Append(fifo, taken') ELSE fifo
          /\ UNCHANGED regs

Raise ==
  /\ pc = "raise"
  /\ sck' = 1
  /\ IF latched = <<>> THEN \E b \in Line(dir) : ChipTakes(b) ELSE UNCHANGED <<taken, regs, fifo>>
  /\ pc' = "sample"
  /\ UNCHANGED <<driver, access, k, r, csb, fcsb, sdio, dir, latched, chipOut, reply>>

\* Mutant of Sample: the line is read before it is released.
SampleDriven ==
  /\ pc = "sample"
  /\ \E b \in Line(dir) : r' = IF k = Width + 1 THEN <<b>> ELSE Append(r, b)
  /\ dir' = IF access.op = "pop" THEN dir ELSE "input"
  /\ pc' = "lower"
  /\ UNCHANGED <<driver, access, k, csb, fcsb, sck, sdio, regs, fifo, chip, reply>>

\* Mutant of Sample: the bits of the byte before stay.
SampleAccumulating ==
  /\ pc = "sample"
  /\ dir' = IF access.op = "pop" THEN dir ELSE "input"
  /\ \E b \in Line(dir') : r' = Append(r, b)
  /\ pc' = "lower"
  /\ UNCHANGED <<driver, access, k, csb, fcsb, sck, sdio, regs, fifo, chip, reply>>

\* Release the line, then read it while SCK is high; a new byte begins r.
Sample ==
  /\ pc = "sample"
  /\ dir' = IF access.op = "pop" THEN dir ELSE "input"
  /\ \E b \in Line(dir') : r' = IF k = Width + 1 THEN <<b>> ELSE Append(r, b)
  /\ pc' = "lower"
  /\ UNCHANGED <<driver, access, k, csb, fcsb, sck, sdio, regs, fifo, chip, reply>>

\* The falling edge: after the address of a read the chip latches the
\* register, from then on it shows the next bit.
Lower ==
  /\ pc = "lower"
  /\ sck' = 0
  /\ IF latched # <<>>
     THEN chipOut' = (IF chipOut = <<>> THEN <<>> ELSE Tail(chipOut)) /\ UNCHANGED latched
     ELSE IF access.op = "read" /\ Len(taken) = Width
     THEN LET v == regs[SubSeq(taken, 2, Width)] IN latched' = v /\ chipOut' = v
     ELSE UNCHANGED <<latched, chipOut>>
  /\ IF k = Len(BitsOut) THEN pc' = "deselect" /\ UNCHANGED k ELSE pc' = "drive" /\ k' = k + 1
  /\ UNCHANGED <<driver, access, r, csb, fcsb, sdio, dir, regs, fifo, taken, reply>>

\* Mutant of Deselect: CSB stays low.
DeselectFifoOnly ==
  /\ pc = "deselect"
  /\ fcsb' = 1
  /\ taken' = <<>> /\ latched' = <<>> /\ chipOut' = <<>>
  /\ reply' = IF access.op \in {"read", "pop"} THEN r ELSE <<>>
  /\ access' = NoAccess /\ r' = <<>>
  /\ pc' = "next"
  /\ UNCHANGED <<driver, k, csb, sck, sdio, dir, regs, fifo>>

\* csbHigh or fcsbHigh: the chip lets go of the line; the call has its value.
Deselect ==
  /\ pc = "deselect"
  /\ csb' = 1 /\ fcsb' = 1
  /\ taken' = <<>> /\ latched' = <<>> /\ chipOut' = <<>>
  /\ reply' = IF access.op \in {"read", "pop"} THEN r ELSE <<>>
  /\ access' = NoAccess /\ r' = <<>>
  /\ pc' = "next"
  /\ UNCHANGED <<driver, k, sck, sdio, dir, regs, fifo>>

Code ==
  \/ writeReg \/ readReg \/ writeFifo \/ readFifo
  \/ TurnFifo \/ NextByte \/ EndCall
  \/ Select \/ Drive \/ Raise \/ Sample \/ Lower \/ Deselect

------------------------------------------------------------------------------
(* The chip changes its registers (not IO_SEL), and its packet handler puts  *)
(* a byte into the FIFO or takes one out, between any two edges.             *)

Flags == \E a \in Addr \ {IoSel}, v \in Byte :
  /\ regs' = [regs EXCEPT ![a] = v]
  /\ UNCHANGED <<driver, access, pc, k, r, pins, fifo, chip, reply>>

PacketHandler ==
  /\ \/ \E v \in Byte : Len(fifo) < MaxFifo /\ ~Turned(regs) /\ fifo' = Append(fifo, v)
     \/ fifo # <<>> /\ Turned(regs) /\ fifo' = Tail(fifo)
  /\ UNCHANGED <<driver, access, pc, k, r, pins, regs, chip, reply>>

Next == Code \/ Flags \/ PacketHandler
Spec == Init /\ [][Next]_vars

------------------------------------------------------------------------------
(* Properties.                                                             *)

TypeOK ==
  /\ call \in {"none", "reg", "look", "turn"} /\ left \in Seq(Byte) /\ turnTo \in Bit
  /\ pc \in {"idle", "select", "drive", "raise", "sample", "lower", "deselect", "next"}
  /\ k \in 1..(2 * Width) /\ r \in Seq(Bit) /\ Len(r) <= Width
  /\ csb \in Bit /\ fcsb \in Bit /\ sck \in Bit /\ sdio \in Bit /\ dir \in {"output", "input", "pullup"}
  /\ regs \in [Addr -> Byte] /\ fifo \in Seq(Byte)
  /\ taken \in Seq(Bit) /\ chipOut \in Seq(Bit)
  /\ latched \in Byte \cup {<<>>} /\ reply \in Byte \cup {<<>>}

\* cmt2300a_spi.cpp:8: the two selects are never low at the same time.
OneSelect == csb = 1 \/ fcsb = 1

\* However the FIFO is turned, FIFO_MERGE stays set in the same register.
MergeKept == regs[IoSel][1] = 1

\* Above the bus every access is atomic, and what it returns is what the
\* register or the FIFO held at one instant of it - with the chip changing
\* flags between the edges, and both ends driving one line.
Done ==
  \/ latched # <<>>
  \/ access.op = "write" /\ Len(taken) = 2 * Width
  \/ access.op = "push" /\ Len(taken) = Width
Above == INSTANCE RegisterFile WITH done <- Done, value <- latched, Kept <- {IoSel}
AccessesAreAtomic == Above!Spec
=============================================================================
