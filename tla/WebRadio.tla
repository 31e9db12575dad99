------------------------------ MODULE WebRadio -------------------------------
(***************************************************************************)
(* The loop of the builds with a web page: it serves a client, then polls  *)
(* the receiver.  Its transmissions and receptions are the driver's own    *)
(* txPacket and rxPacket, its tuning is setFrequencyHz and setChannel      *)
(* (Pll.tla).  Beside the thread runs the chip: it takes a mode command at *)
(* once or later than waitForState waits, sends or receives when it likes, *)
(* and latches flags that only the code clears.                            *)
(***************************************************************************)
EXTENDS Pll

CONSTANTS
  Freq,        \* frequencies a client asks for
  Channel,     \* channel bytes a client asks for
  MaxRequests, \* bound on the transmissions asked for
  MaxPackets   \* bound on the packets received

ASSUME WebAssumption ==
  /\ Freq \subseteq Nat /\ Channel \subseteq 0..255
  /\ MaxRequests \in Nat /\ MaxPackets \in Nat

VARIABLES
  oms,               \* built with CMT_OMS_T1 (the recorder) or as plain demo
  pc, freq, ch, n,   \* the thread; arguments of the request it serves
  inRx, currentFreqHz,               \* driver: _inRx, _currentFreqHz
  rxSeq, requests,                   \* records stored, requests served
  mode, command, direction,          \* chip: mode, command, FIFO direction
  txFifo, rxFifo,                    \* chip: a frame to send, a packet received
  txDone, pktOk, colErr,             \* chip: latched flags
  rxWord, txWord,                    \* chip: 0x18..0x1B, 0x1C..0x1F
  sent, received, reported,          \* observed: packets on air, packets received,
                                     \* transmissions reported as done
  late, phantom                      \* observed: a command outlived its wait, a
                                     \* record was stored without a packet

request == <<freq, ch, n>>
driver  == <<inRx, currentFreqHz, rxSeq, requests>>
state   == <<mode, command, late>>
flags   == <<txDone, pktOk, colErr>>
fifo    == <<direction, txFifo, rxFifo>>
words   == <<rxWord, txWord>>
seen    == <<sent, received, reported, phantom>>
vars    == <<oms, pc, request, driver, state, flags, fifo, words, seen>>

Modes == {"STBY", "TFS", "TX", "RFS", "RX"}

\* The words the register map brings (main.cpp:893): 868.95 MHz.
MapRxWord == [n |-> 66, k |-> 906018, code |-> 4]
MapTxWord == [n |-> 66, k |-> 883223, code |-> 0]

\* The end of setup: flags cleared, nothing known of the frequency.  The demo
\* is left in standby, the recorder has called goRx, which may have given up
\* waiting.
Init ==
  /\ oms \in BOOLEAN
  /\ pc = "client" /\ freq = 0 /\ ch = 0 /\ n = FALSE
  /\ inRx = oms /\ currentFreqHz = 0 /\ rxSeq = 0 /\ requests = 0
  /\ command = IF oms THEN "RX" ELSE "STBY"
  /\ mode \in {"STBY", command} /\ late = (mode # command)
  /\ direction = "READ" /\ txFifo = FALSE /\ rxFifo = FALSE
  /\ txDone = FALSE /\ pktOk = FALSE /\ colErr = FALSE
  /\ rxWord = MapRxWord /\ txWord = MapTxWord
  /\ sent = 0 /\ received = 0 /\ reported = 0 /\ phantom = FALSE

\* Mode commands, each awaited by waitForState, which gives up in silence:
\* the chip has taken the last one, or still stands in an earlier mode.
Go(ms, m) ==
  /\ command' = m
  /\ mode' \in {mode, m} \cup ms
  /\ late' = (late \/ mode' # m)

------------------------------------------------------------------------------
(* handleClient.                                                           *)

\* The arguments are gone with the handler.
EndHandler == freq' = 0 /\ ch' = 0 /\ n' = FALSE

\* Nobody there, or a page that only reads.
handleStatus ==
  /\ pc = "client"
  /\ pc' = "poll"
  /\ UNCHANGED <<oms, request, driver, state, flags, fifo, words, seen>>

\* A request to transmit: arguments parsed, standby.
handleTx ==
  /\ pc = "client" /\ requests < MaxRequests
  /\ requests' = requests + 1
  /\ freq' \in Freq /\ ch' \in Channel /\ n' \in BOOLEAN
  /\ Go({}, "STBY")
  /\ pc' = "tune"
  /\ UNCHANGED <<oms, inRx, currentFreqHz, rxSeq, flags, fifo, words, seen>>

\* setFrequencyHz, up to standby; a frequency out of range is not applied,
\* and the transmission goes on without it.
Tune ==
  /\ pc = "tune"
  /\ IF isFrequencySupported(freq)
     THEN /\ pc' = "program"
          /\ IF inRx \/ mode # "STBY" THEN Go({}, "STBY") ELSE UNCHANGED state
     ELSE pc' = "channel" /\ UNCHANGED state
  /\ UNCHANGED <<oms, request, driver, flags, fifo, words, seen>>

\* Mutant of Program: the two words in each other's registers.
ProgramSwapped ==
  /\ pc = "program"
  /\ rxWord' = txWordOf(freq) /\ txWord' = rxWordOf(freq)
  /\ currentFreqHz' = freq
  /\ pc' = "channel"
  /\ UNCHANGED <<oms, request, inRx, rxSeq, requests, state, flags, fifo, seen>>

\* setFrequencyHz: both words, the relock pulse, the frequency remembered.
Program ==
  /\ pc = "program"
  /\ rxWord' = rxWordOf(freq) /\ txWord' = txWordOf(freq)
  /\ currentFreqHz' = freq
  /\ pc' = "channel"
  /\ UNCHANGED <<oms, request, inRx, rxSeq, requests, state, flags, fifo, seen>>

\* setTxPower, then setChannel.
setChannel ==
  /\ pc = "channel"
  /\ rxWord' = Overwritten(rxWord, ch)
  /\ pc' = "tx"
  /\ UNCHANGED <<oms, request, driver, state, flags, fifo, txWord, seen>>

------------------------------------------------------------------------------
(* txPacket.                                                               *)

\* Standby, transmit synthesizer, TX FIFO cleared.  TX_DONE stays as it is.
TxArm ==
  /\ pc = "tx"
  /\ Go({"STBY"}, "TFS")
  /\ txFifo' = FALSE
  /\ pc' = "fill"
  /\ UNCHANGED <<oms, request, driver, flags, direction, rxFifo, words, seen>>

\* writeFifo, which does nothing for an empty payload; then goTx.
TxGo ==
  /\ pc = "fill"
  /\ IF n THEN direction' = "WRITE" /\ txFifo' = TRUE ELSE UNCHANGED <<direction, txFifo>>
  /\ Go({}, "TX")
  /\ inRx' = FALSE
  /\ pc' = "sending"
  /\ UNCHANGED <<oms, request, currentFreqHz, rxSeq, requests, flags, rxFifo, words, seen>>

\* Mutant of TxReported: the flag stays latched.
TxReportedUncleared ==
  /\ pc = "sending" /\ txDone
  /\ Go({}, "STBY")
  /\ reported' = reported + 1
  /\ pc' = "poll" /\ EndHandler
  /\ UNCHANGED <<oms, driver, flags, fifo, words,
                 sent, received, phantom>>

TxReported ==
  /\ pc = "sending" /\ txDone
  /\ txDone' = FALSE
  /\ Go({}, "STBY")
  /\ reported' = reported + 1
  /\ pc' = "poll" /\ EndHandler
  /\ UNCHANGED <<oms, driver, pktOk, colErr, fifo, words,
                 sent, received, phantom>>

\* Mutant of TxTimeout: tries again until it succeeds.
TxTimeoutRetry ==
  /\ pc = "sending"
  /\ Go({}, "STBY")
  /\ pc' = "tx"
  /\ UNCHANGED <<oms, request, driver, flags, fifo, words, seen>>

\* 2 s are over; TX_DONE may have come after the last look at it.
TxTimeout ==
  /\ pc = "sending"
  /\ Go({}, "STBY")
  /\ pc' = "poll" /\ EndHandler
  /\ UNCHANGED <<oms, driver, flags, fifo, words, seen>>

------------------------------------------------------------------------------
(* pollRx and rxPacket.                                                    *)

\* The recorder receives in every turn.  The demo clears an old PKT_OK and
\* receives every 200 ms.
pollRx ==
  /\ pc = "poll"
  /\ IF oms THEN pc' = "arm" /\ UNCHANGED pktOk
            ELSE pc' \in {"arm", "client"} /\ pktOk' = FALSE
  /\ UNCHANGED <<oms, request, driver, state, txDone, colErr, fifo, words, seen>>

\* Mutant of RxArm: the FIFO is left turned to writing (rxPacket before the
\* line that turns it; main.cpp and cmt2300a_spi.cpp tell of empty packets).
RxArmUnturned ==
  /\ pc = "arm"
  /\ rxFifo' = FALSE
  /\ Go({"RFS"}, "RX")
  /\ inRx' = TRUE
  /\ pc' = "receiving"
  /\ UNCHANGED <<oms, request, currentFreqHz, rxSeq, requests, flags, direction, txFifo, words, seen>>

\* FIFO to reading, RX FIFO cleared, receiver on.  PKT_OK stays as it is.
RxArm ==
  /\ pc = "arm"
  /\ direction' = "READ" /\ rxFifo' = FALSE
  /\ Go({"RFS"}, "RX")
  /\ inRx' = TRUE
  /\ pc' = "receiving"
  /\ UNCHANGED <<oms, request, currentFreqHz, rxSeq, requests, flags, txFifo, words, seen>>

\* Mutant of RxRecord: the flag stays latched.
RxRecordUncleared ==
  /\ pc = "receiving" /\ pktOk
  /\ rxFifo' = FALSE
  /\ Go({}, "STBY")
  /\ rxSeq' = rxSeq + 1 /\ phantom' = (phantom \/ ~rxFifo)
  /\ pc' = "client"
  /\ UNCHANGED <<oms, request, inRx, currentFreqHz, requests, flags,
                 direction, txFifo, words, sent, received, reported>>

\* PKT_OK: 31 bytes read whatever the FIFO holds, standby, a new record.
RxRecord ==
  /\ pc = "receiving" /\ pktOk
  /\ pktOk' = FALSE /\ rxFifo' = FALSE
  /\ Go({}, "STBY")
  /\ rxSeq' = rxSeq + 1 /\ phantom' = (phantom \/ ~rxFifo)
  /\ pc' = "client"
  /\ UNCHANGED <<oms, request, inRx, currentFreqHz, requests, txDone, colErr,
                 direction, txFifo, words, sent, received, reported>>

RxCollision ==
  /\ pc = "receiving" /\ ~pktOk /\ colErr
  /\ colErr' = FALSE
  /\ Go({}, "STBY")
  /\ pc' = "client"
  /\ UNCHANGED <<oms, request, driver, txDone, pktOk, fifo, words, seen>>

\* 150 ms (demo: 50) are over; a packet may come before the chip stands by.
RxTimeout ==
  /\ pc = "receiving"
  /\ Go({}, "STBY")
  /\ pc' = "client"
  /\ UNCHANGED <<oms, request, driver, flags, fifo, words, seen>>

Code ==
  \/ handleStatus \/ handleTx \/ Tune \/ Program \/ setChannel
  \/ TxArm \/ TxGo \/ TxReported \/ TxTimeout
  \/ pollRx \/ RxArm \/ RxRecord \/ RxCollision \/ RxTimeout

------------------------------------------------------------------------------
(* The chip.                                                               *)

TakeCommand ==
  /\ mode # command
  /\ mode' = command
  /\ UNCHANGED <<oms, pc, request, driver, command, late, flags, fifo, words, seen>>

\* TX_DONE latches only where 0x68 enables it: the recorder's setup does,
\* begin() alone does not.
TxComplete ==
  /\ mode = "TX" /\ txFifo
  /\ txFifo' = FALSE
  /\ sent' = sent + 1 /\ txDone' = (txDone \/ oms)
  /\ UNCHANGED <<oms, pc, request, driver, state, pktOk, colErr, direction, rxFifo, words,
                 received, reported, phantom>>

\* A packet reaches the FIFO only if the FIFO is turned to the SPI's reading.
RxComplete ==
  /\ mode = "RX" /\ received < MaxPackets
  /\ received' = received + 1 /\ pktOk' = TRUE
  /\ rxFifo' = (rxFifo \/ direction = "READ")
  /\ UNCHANGED <<oms, pc, request, driver, state, txDone, colErr, direction, txFifo, words,
                 sent, reported, phantom>>

RxCollided ==
  /\ mode = "RX" /\ ~colErr
  /\ colErr' = TRUE
  /\ UNCHANGED <<oms, pc, request, driver, state, txDone, pktOk, fifo, words, seen>>

Chip == TakeCommand \/ TxComplete \/ RxComplete \/ RxCollided

Next == Code \/ Chip
Spec == Init /\ [][Next]_vars

\* The thread runs, its waits end; the chip owes nothing.
FairSpec == Spec /\ WF_vars(Code)

------------------------------------------------------------------------------
(* Properties.                                                             *)

WordRange == [n : 0..255, k : 0..(FractSteps - 1), code : 0..7]

TypeOK ==
  /\ oms \in BOOLEAN /\ n \in BOOLEAN /\ freq \in Freq \cup {0} /\ ch \in 0..255
  /\ pc \in {"client", "tune", "program", "channel", "tx", "fill", "sending",
             "poll", "arm", "receiving"}
  /\ inRx \in BOOLEAN /\ currentFreqHz \in Freq \cup {0}
  /\ rxSeq \in Nat /\ requests \in 0..MaxRequests
  /\ mode \in Modes /\ command \in Modes
  /\ direction \in {"READ", "WRITE"} /\ txFifo \in BOOLEAN /\ rxFifo \in BOOLEAN
  /\ txDone \in BOOLEAN /\ pktOk \in BOOLEAN /\ colErr \in BOOLEAN
  /\ rxWord \in WordRange /\ txWord \in WordRange
  /\ sent \in Nat /\ received \in 0..MaxPackets /\ reported \in Nat
  /\ late \in BOOLEAN /\ phantom \in BOOLEAN

\* Although txPacket takes a TX_DONE left from a transmission it gave up on
\* for its own, every success it reports uses up a packet that was on air: a
\* client is never told of more packets than were sent.
SuccessesEarned == reported <= sent

\* The same of rxPacket and PKT_OK: never more records than packets received.
RecordsEarned == rxSeq <= received

\* In the demo, which clears an old PKT_OK first, a record is a packet that
\* came in during its own call, as long as the chip follows its commands.
DemoRecordsAreFresh == ~oms /\ ~late => ~phantom

\* The words after any requests for the frequency the page shows: the
\* transmitter's is exact to half a step, or a reference period low where K's
\* rounding is masked without a carry.  The receiver's is the word computed
\* with the same error, or that word with its byte 0x1B replaced by a channel
\* byte (and then wrong: ReceiverNearBase).
TransmitterTuned ==
  currentFreqHz # 0 =>
    LET d == pickBand(currentFreqHz).divider
        w == rxWordOf(currentFreqHz)
    IN  /\ Hits(txWord, currentFreqHz, d)
        /\ Hits(w, currentFreqHz + IfHz, d)
        /\ rxWord \in {w} \cup {Overwritten(w, c) : c \in 0..255}

\* cmt2300a.h:230: setChannel hops around the base frequency.  The receiver
\* listens within 640 kHz of it, then.
ReceiverNearBase ==
  pc = "receiving" /\ mode = "RX" /\ currentFreqHz # 0 =>
    LET base == currentFreqHz + IfHz
        lo == LoHz(rxWord, pickBand(currentFreqHz).divider)
    IN  base - 640000 <= lo /\ lo <= base + 640000

\* Neither a silent chip nor a page keeps the next client waiting for good.
ClientServedAgain == []<>(pc = "client")
=============================================================================
