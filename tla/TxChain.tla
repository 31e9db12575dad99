------------------------------- MODULE TxChain -------------------------------
(***************************************************************************)
(* hciDoTx: one transmission for the daemon, with the chip it drives.      *)
(*                                                                         *)
(* The chip runs beside the code: it may finish a transmission between any *)
(* two register accesses, or never (a stall), and it may take a mode       *)
(* command later than the second the driver waits for it - goStandby,      *)
(* goRfs and goRx return true either way.                                  *)
(***************************************************************************)
EXTENDS Naturals, Sequences

CONSTANTS
  Contents,   \* content lengths the daemon asks to send (0..96)
  FifoSize,   \* the chip's FIFO (64 bytes)
  MaxCalls    \* bound on the transmissions explored

ASSUME TxAssumption ==
  Contents \subseteq 0..96 /\ FifoSize \in Nat /\ MaxCalls \in Nat

Reg == {"r45", "r46", "r3C"}   \* packet type, payload length, sync size

\* A framing is the contents of the three registers: those of the register
\* map, those of the receive window, what the window leaves behind (it gives
\* the packet type not back), and those of a transmission of n bytes.
MapFraming    == [r45 |-> 0, r46 |-> 31, r3C |-> 2]
WindowFraming == [r45 |-> 64, r46 |-> 111, r3C |-> 2]
LeftFraming   == [r45 |-> 64, r46 |-> 31, r3C |-> 2]
TxFraming(n)  == [r45 |-> 0, r46 |-> n, r3C |-> 2]
Framings == {MapFraming, WindowFraming, LeftFraming}

VARIABLES
  pc, saved, flen, attempt, done,  \* the locals of hciDoTx
  calls,                           \* transmissions so far
  reg, mode, command,              \* chip: framing, mode, command not yet taken
  fifo, written, direction,        \* chip: parts and bytes in the FIFO, SPI direction
  txDone,                          \* chip: TX_DONE latched
  onAir, garbled, result,          \* observed, of this call: transmissions, one that was
                                   \* not the frame, outcome
  late                             \* observed: a command outlived its wait

code == <<pc, saved, flen, attempt, done, calls>>
chip == <<reg, mode, command, fifo, written, direction, txDone>>
seen == <<onAir, garbled, late, result>>
vars == <<code, chip, seen>>

Modes == {"STBY", "RFS", "RX", "TX"}

Init ==
  /\ pc = "idle" /\ saved = MapFraming /\ flen = 0 /\ attempt = 0 /\ done = FALSE
  /\ calls = 0
  /\ reg = MapFraming /\ mode = "RX" /\ command = "RX"
  /\ fifo = <<>> /\ written = 0 /\ direction = "READ" /\ txDone \in BOOLEAN
  /\ onAir = 0 /\ garbled = FALSE /\ late = FALSE /\ result = "none"

------------------------------------------------------------------------------
(* The driver operations hciDoTx uses.                                     *)

\* A mode command the driver waits for: taken by then, or still pending.
Go(m) ==
  /\ command' = m
  /\ mode' \in {mode, m}
  /\ late' = (late \/ mode' # m)

ClearFifo == fifo' = <<>> /\ written' = 0

\* A transmission of hciDoTx consists of these parts: 54 CD L, the content.
Whole == <<"head", "content">>

------------------------------------------------------------------------------
(* The code.                                                               *)

\* The radio's owner changes the receive framing between transmissions (the
\* receive window opens or closes).
Reframe ==
  /\ pc = "idle"
  /\ reg' = IF reg = WindowFraming THEN LeftFraming ELSE WindowFraming
  /\ UNCHANGED <<code, mode, command, fifo, written, direction, txDone, seen>>

Begin ==
  /\ pc = "idle" /\ calls < MaxCalls
  /\ \E clen \in Contents : flen' = 3 + clen
  /\ saved' = reg
  /\ attempt' = 0 /\ done' = FALSE /\ calls' = calls + 1
  /\ Go("STBY")
  /\ pc' = "frame"
  /\ onAir' = 0 /\ garbled' = FALSE /\ result' = "none"
  /\ UNCHANGED <<reg, fifo, written, direction, txDone>>

SetFraming ==
  /\ pc = "frame"
  /\ reg' = TxFraming(flen)
  /\ ClearFifo
  /\ pc' = "fill"
  /\ UNCHANGED <<saved, flen, attempt, done, calls, mode, command, direction, txDone, seen>>

\* writeFifo turns the FIFO to SPI writing, leaves it there, and writes byte
\* by byte: the chip may act in the middle.
FillHead ==
  /\ pc = "fill"
  /\ direction' = "WRITE"
  /\ fifo' = Append(fifo, "head") /\ written' = written + 3
  /\ pc' = "fill on"
  /\ UNCHANGED <<saved, flen, attempt, done, calls, reg, mode, command, txDone, seen>>

FillContent ==
  /\ pc = "fill on"
  /\ fifo' = Append(fifo, "content") /\ written' = written + flen - 3
  /\ pc' = "check"
  /\ UNCHANGED <<saved, flen, attempt, done, calls, reg, mode, command, direction, txDone, seen>>

\* Mutant of CheckAndClear: the flags of the last transmission stay.
CheckOnly ==
  /\ pc = "check"
  /\ IF attempt = 0 /\ mode # "STBY"
     THEN Go("STBY")
     ELSE UNCHANGED <<mode, command, late>>
  /\ pc' = "go"
  /\ UNCHANGED <<saved, flen, attempt, done, calls, reg, fifo, written, direction,
                 txDone, onAir, garbled, result>>

\* Before the first attempt only: ask for standby again if the chip is not
\* there.  Then the flags a previous transmission left are cleared.
CheckAndClear ==
  /\ pc = "check"
  /\ IF attempt = 0 /\ mode # "STBY"
     THEN Go("STBY")
     ELSE UNCHANGED <<mode, command, late>>
  /\ txDone' = FALSE
  /\ pc' = "go"
  /\ UNCHANGED <<saved, flen, attempt, done, calls, reg, fifo, written, direction,
                 onAir, garbled, result>>

\* The transmit command is written without a wait for the state.
GoTx ==
  /\ pc = "go"
  /\ command' = "TX"
  /\ pc' = "poll"
  /\ UNCHANGED <<saved, flen, attempt, done, calls, reg, mode, fifo, written, direction,
                 txDone, seen>>

PollDone ==
  /\ pc = "poll" /\ txDone
  /\ done' = TRUE
  /\ pc' = "restore"
  /\ UNCHANGED <<saved, flen, attempt, calls, chip, seen>>

\* Mutant of PollTimeout: one attempt too many.
PollTimeoutThrice ==
  /\ pc = "poll"
  /\ attempt' = attempt + 1
  /\ pc' = IF attempt < 2 THEN "retry" ELSE "restore"
  /\ UNCHANGED <<saved, flen, done, calls, chip, seen>>

\* 100 ms are over: possibly with TX_DONE raised after the last look at it.
PollTimeout ==
  /\ pc = "poll"
  /\ attempt' = attempt + 1
  /\ pc' = IF attempt + 1 < 2 THEN "retry" ELSE "restore"
  /\ UNCHANGED <<saved, flen, done, calls, chip, seen>>

\* Mutant of Retry: the frame is written behind what the FIFO still holds.
RetryKeepingFifo ==
  /\ pc = "retry"
  /\ Go("STBY")
  /\ pc' = "fill"
  /\ UNCHANGED <<saved, flen, attempt, done, calls, reg, direction, txDone, fifo, written,
                 onAir, garbled, result>>

\* One retry, from standby and with a FIFO cleared again.
Retry ==
  /\ pc = "retry"
  /\ Go("STBY")
  /\ ClearFifo
  /\ pc' = "fill"
  /\ UNCHANGED <<saved, flen, attempt, done, calls, reg, direction, txDone,
                 onAir, garbled, result>>

\* Mutant of Standby: waits for a chip that ends the transmission by itself.
StandbyAwaited ==
  /\ pc = "restore" /\ mode = "STBY"
  /\ Go("STBY")
  /\ ClearFifo
  /\ pc' = "return"
  /\ UNCHANGED <<saved, flen, attempt, done, calls, reg, direction, txDone,
                 onAir, garbled, result>>

\* Standby, then an empty FIFO.
Standby ==
  /\ pc = "restore"
  /\ Go("STBY")
  /\ ClearFifo
  /\ pc' = "return"
  /\ UNCHANGED <<saved, flen, attempt, done, calls, reg, direction, txDone,
                 onAir, garbled, result>>

\* Mutant of Return: the receiver goes on in the framing of the transmission.
ReturnUnrestored ==
  /\ pc = "return"
  /\ Go("RX")
  /\ result' = IF done THEN "done" ELSE "stall"
  /\ pc' = "idle"
  /\ UNCHANGED <<saved, flen, attempt, done, calls, reg, fifo, written, direction, txDone,
                 onAir, garbled>>

\* The saved framing back, and the receiver on.
Return ==
  /\ pc = "return"
  /\ reg' = saved
  /\ Go("RX")
  /\ result' = IF done THEN "done" ELSE "stall"
  /\ pc' = "idle"
  /\ UNCHANGED <<saved, flen, attempt, done, calls, fifo, written, direction, txDone,
                 onAir, garbled>>

Code ==
  \/ Reframe
  \/ Begin \/ SetFraming \/ FillHead \/ FillContent \/ CheckAndClear \/ GoTx
  \/ PollDone \/ PollTimeout \/ Retry
  \/ Standby \/ Return

------------------------------------------------------------------------------
(* The chip.                                                               *)

TakeCommand ==
  /\ mode # command
  /\ mode' = command
  /\ UNCHANGED <<code, reg, command, fifo, written, direction, txDone, seen>>

\* The chip has sent what the FIFO held and raises TX_DONE.  Of more than
\* FifoSize bytes it has not kept all.
TxComplete ==
  /\ mode = "TX" /\ fifo # <<>>
  /\ txDone' = TRUE
  /\ onAir' = onAir + 1
  /\ garbled' = (garbled \/ fifo # Whole \/ reg # TxFraming(written) \/ written > FifoSize)
  /\ ClearFifo
  /\ UNCHANGED <<code, reg, mode, command, direction, late, result>>

Chip == TakeCommand \/ TxComplete

Next == Code \/ Chip
Spec == Init /\ [][Next]_vars

\* The code runs on (Begin and Reframe are the caller's choice, and a poll
\* ends at the latest with its 100 ms); the chip owes nothing.
FairSpec == Spec /\ WF_vars(pc # "idle" /\ Code)

------------------------------------------------------------------------------
(* Properties.                                                             *)

TypeOK ==
  /\ pc \in {"idle", "frame", "fill", "fill on", "check", "go", "poll", "retry", "restore", "return"}
  /\ saved \in [Reg -> Nat] /\ reg \in [Reg -> Nat]
  /\ flen \in 0..99 /\ attempt \in 0..2 /\ done \in BOOLEAN /\ calls \in 0..MaxCalls
  /\ mode \in Modes /\ command \in Modes
  /\ fifo \in Seq({"head", "content"}) /\ written \in Nat
  /\ direction \in {"READ", "WRITE"} /\ txDone \in BOOLEAN
  /\ onAir \in Nat /\ garbled \in BOOLEAN /\ late \in BOOLEAN
  /\ result \in {"none", "done", "stall"}

\* As long as the chip reaches standby within the driver's wait, whatever of
\* a frame that fits the FIFO goes on air is the whole frame, in its own
\* framing - also when the first attempt ends while the code already turns
\* to the retry.
CleanAir == ~late /\ flen <= FifoSize => ~garbled

\* TX_DONE left over from an earlier transmission, or raised between two
\* attempts, is never taken for the end of this one.
NoPhantomDone == done => onAir > 0

\* Seen by the callers, a transmission is atomic and leaves the receive
\* framing alone.
AsSeen == INSTANCE AtomicTx
            WITH framing <- IF pc = "idle" THEN reg ELSE saved,
                 onAir <- IF pc = "idle" THEN onAir ELSE 0,
                 result <- IF pc = "idle" THEN result ELSE "none",
                 Framing <- Framings
ActsAtomically == AsSeen!Spec

\* The shim is not held up for good by a chip that stays silent.
TxReturns == pc # "idle" ~> pc = "idle"
=============================================================================
