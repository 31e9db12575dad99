---------------------------- MODULE WebRadioProofs -----------------------------
(***************************************************************************)
(* WebRadio for any frequencies, channels and bounds: typed (both words    *)
(* fit their registers), and every success and record is earned.           *)
(***************************************************************************)
EXTENDS WebRadio, PllProofs

\* A frequency that reaches the registers has passed the check.
Checked == pc = "program" => isFrequencySupported(freq)

Bit(flag) == IF flag THEN 1 ELSE 0

\* A latched flag is a packet not yet accounted for.
FlagsBacked ==
  /\ reported + Bit(txDone) <= sent
  /\ rxSeq + Bit(pktOk) <= received

\* With a chip that follows, the demo's receives only inside rxPacket, which
\* starts without a flag and with the FIFO turned to reading.
Followed ==
  ~late =>
    /\ mode = command
    /\ ~oms =>
         /\ pc # "receiving" => mode # "RX"
         /\ pc = "arm" => ~pktOk
         /\ pc = "receiving" => direction = "READ" /\ (pktOk => rxFifo)
         /\ ~phantom

IInv == TypeOK /\ Checked /\ FlagsBacked /\ Followed

\* The part of TypeOK that is about truth values.
Booleans ==
  /\ oms \in BOOLEAN /\ n \in BOOLEAN /\ inRx \in BOOLEAN
  /\ txFifo \in BOOLEAN /\ rxFifo \in BOOLEAN
  /\ txDone \in BOOLEAN /\ pktOk \in BOOLEAN /\ colErr \in BOOLEAN
  /\ late \in BOOLEAN /\ phantom \in BOOLEAN

LEMMA RangeIsWords == WordRange = Words
BY DEF WordRange, Words

LEMMA MapTyped == MapRxWord \in WordRange /\ MapTxWord \in WordRange
<1>1. MapRxWord.k < FractSteps /\ MapTxWord.k < FractSteps
  BY SMT, Numbers DEF MapRxWord, MapTxWord
<1>2. MapRxWord.k \in Nat /\ MapTxWord.k \in Nat
  BY SMT DEF MapRxWord, MapTxWord
<1>3. /\ MapRxWord = [n |-> 66, k |-> MapRxWord.k, code |-> 4]
      /\ MapTxWord = [n |-> 66, k |-> MapTxWord.k, code |-> 0]
  BY SMT DEF MapRxWord, MapTxWord
<1>4. 66 \in 0..255 /\ 4 \in 0..7 /\ 0 \in 0..7
  BY SMT
<1>5. /\ [n |-> 66, k |-> MapRxWord.k, code |-> 4] \in Words
      /\ [n |-> 66, k |-> MapTxWord.k, code |-> 0] \in Words
  BY <1>1, <1>2, <1>4, MapWordTyped
<1> QED BY <1>3, <1>5, RangeIsWords

LEMMA InitHolds == Init => IInv
<1> SUFFICES ASSUME Init PROVE IInv
  OBVIOUS
<1>a. Booleans
  BY Zenon DEF Init, Booleans
<1>1. TypeOK
  BY SMT, <1>a, MapTyped, WebAssumption DEF Init, TypeOK, Booleans, Modes
<1>2. FlagsBacked
  BY SMT DEF Init, FlagsBacked, Bit
<1>3. Checked /\ Followed
  BY SMT DEF Init, Checked, Followed
<1> QED BY <1>1, <1>2, <1>3 DEF IInv

LEMMA GoTyped ==
  ASSUME TypeOK, NEW ms \in SUBSET Modes, NEW m \in Modes, Go(ms, m)
  PROVE  /\ mode' \in Modes /\ command' = m /\ command' \in Modes /\ late' \in BOOLEAN
         /\ ~late' => mode' = m /\ ~late
<1>1. mode' \in Modes
  BY SMT DEF TypeOK, Go
<1>2. late' \in BOOLEAN /\ (~late' => mode' = m /\ ~late)
  BY Zenon DEF TypeOK, Go
<1> QED BY <1>1, <1>2 DEF Go

------------------------------------------------------------------------------
(* handleClient.                                                           *)

LEMMA handleStatusKeeps == ASSUME IInv, handleStatus PROVE IInv'
<1>s. Booleans'
  BY Zenon DEF IInv, handleStatus, request, driver, state, flags, fifo, words, seen, TypeOK, Booleans
<1>1. TypeOK'
  BY SMT, <1>s DEF IInv, handleStatus, request, driver, state, flags, fifo, words, seen, TypeOK, Booleans
<1>2. Checked'
  BY SMT DEF IInv, handleStatus, request, driver, state, flags, fifo, words, seen, Checked
<1>3. FlagsBacked'
  BY SMT DEF IInv, handleStatus, request, driver, state, flags, fifo, words, seen, TypeOK, FlagsBacked, Bit
<1>4. Followed'
  BY Zenon DEF IInv, handleStatus, request, driver, state, flags, fifo, words, seen, Followed
<1> QED BY <1>1, <1>2, <1>3, <1>4 DEF IInv

LEMMA handleTxKeeps == ASSUME IInv, handleTx PROVE IInv'
<1>0. /\ mode' \in Modes /\ command' = "STBY" /\ command' \in Modes /\ late' \in BOOLEAN
      /\ ~late' => mode' = "STBY" /\ ~late
  BY GoTyped DEF IInv, handleTx, Modes
<1>s. Booleans'
  BY Zenon, <1>0 DEF IInv, handleTx, flags, fifo, words, seen, TypeOK, Booleans
<1>1. TypeOK'
  BY SMT, <1>s, <1>0, WebAssumption DEF IInv, handleTx, flags, fifo, words, seen, TypeOK, Booleans
<1>2. Checked'
  BY SMT DEF IInv, handleTx, flags, fifo, words, seen, Checked
<1>3. FlagsBacked'
  BY SMT DEF IInv, handleTx, flags, fifo, words, seen, TypeOK, FlagsBacked, Bit
<1>4. Followed'
  BY Zenon, <1>0 DEF IInv, handleTx, flags, fifo, words, seen, Followed
<1> QED BY <1>1, <1>2, <1>3, <1>4 DEF IInv

LEMMA TuneKeeps == ASSUME IInv, Tune PROVE IInv'
<1>a. /\ mode' \in Modes /\ command' \in Modes /\ late' \in BOOLEAN
      /\ ~late' => mode' = command' /\ ~late /\ (mode # "RX" => mode' # "RX")
  <2>1. CASE UNCHANGED state
    <3>1. mode' = mode /\ command' = command /\ late' = late
      BY <2>1 DEF state
    <3> QED BY <3>1 DEF IInv, TypeOK, Followed
  <2>2. CASE Go({}, "STBY")
    <3>1. "STBY" \in Modes
      BY DEF Modes
    <3>2. /\ mode' \in Modes /\ command' = "STBY" /\ command' \in Modes /\ late' \in BOOLEAN
          /\ ~late' => mode' = "STBY" /\ ~late
      BY <2>2, <3>1, GoTyped DEF IInv
    <3> QED BY SMT, <3>2
  <2> QED BY <2>1, <2>2 DEF Tune
<1>b. pc' # "arm" /\ pc' # "receiving" /\ pc # "receiving" /\ (pc' = "program" => isFrequencySupported(freq))
  BY SMT DEF Tune
<1>s. Booleans'
  BY Zenon, <1>a DEF IInv, Tune, request, driver, flags, fifo, words, seen, TypeOK, Booleans
<1>1. TypeOK'
  BY SMT, <1>s, <1>a DEF IInv, Tune, request, driver, flags, fifo, words, seen, TypeOK, Booleans
<1>2. Checked'
  BY SMT, <1>b DEF IInv, Tune, request, driver, flags, fifo, words, seen, Checked
<1>3. FlagsBacked'
  BY SMT DEF IInv, Tune, request, driver, flags, fifo, words, seen, TypeOK, FlagsBacked, Bit
<1>4. Followed'
  BY Zenon, <1>a, <1>b DEF IInv, Tune, request, driver, flags, fifo, words, seen, Followed
<1> QED BY <1>1, <1>2, <1>3, <1>4 DEF IInv

LEMMA ProgramKeeps == ASSUME IInv, Program PROVE IInv'
<1>a. isFrequencySupported(freq) /\ freq \in Nat
  BY SMT, WebAssumption DEF IInv, Program, Checked, TypeOK
<1>b. rxWord' \in WordRange /\ txWord' \in WordRange
  BY <1>a, WordsTyped, RangeIsWords DEF Program
<1>s. Booleans'
  BY Zenon, <1>b DEF IInv, Program, request, state, flags, fifo, seen, TypeOK, Booleans
<1>1. TypeOK'
  BY SMT, <1>s, <1>b DEF IInv, Program, request, state, flags, fifo, seen, TypeOK, Booleans
<1>2. Checked'
  BY SMT DEF IInv, Program, request, state, flags, fifo, seen, Checked
<1>3. FlagsBacked'
  BY SMT DEF IInv, Program, request, state, flags, fifo, seen, TypeOK, FlagsBacked, Bit
<1>4. Followed'
  BY Zenon DEF IInv, Program, request, state, flags, fifo, seen, Followed
<1> QED BY <1>1, <1>2, <1>3, <1>4 DEF IInv

LEMMA setChannelKeeps == ASSUME IInv, setChannel PROVE IInv'
<1>a. rxWord' \in WordRange
  BY OverwrittenTyped, RangeIsWords DEF IInv, setChannel, TypeOK
<1>s. Booleans'
  BY Zenon, <1>a DEF IInv, setChannel, request, driver, state, flags, fifo, seen, TypeOK, Booleans
<1>1. TypeOK'
  BY SMT, <1>s, <1>a DEF IInv, setChannel, request, driver, state, flags, fifo, seen, TypeOK, Booleans
<1>2. Checked'
  BY SMT DEF IInv, setChannel, request, driver, state, flags, fifo, seen, Checked
<1>3. FlagsBacked'
  BY SMT DEF IInv, setChannel, request, driver, state, flags, fifo, seen, TypeOK, FlagsBacked, Bit
<1>4. Followed'
  BY Zenon DEF IInv, setChannel, request, driver, state, flags, fifo, seen, Followed
<1> QED BY <1>1, <1>2, <1>3, <1>4 DEF IInv

------------------------------------------------------------------------------
(* txPacket.                                                               *)

LEMMA TxArmKeeps == ASSUME IInv, TxArm PROVE IInv'
<1>0. /\ mode' \in Modes /\ command' = "TFS" /\ command' \in Modes /\ late' \in BOOLEAN
      /\ ~late' => mode' = "TFS" /\ ~late
  BY GoTyped DEF IInv, TxArm, Modes
<1>s. Booleans'
  BY Zenon, <1>0 DEF IInv, TxArm, request, driver, flags, words, seen, TypeOK, Booleans
<1>1. TypeOK'
  BY SMT, <1>s, <1>0 DEF IInv, TxArm, request, driver, flags, words, seen, TypeOK, Booleans
<1>2. Checked'
  BY SMT DEF IInv, TxArm, request, driver, flags, words, seen, Checked
<1>3. FlagsBacked'
  BY SMT DEF IInv, TxArm, request, driver, flags, words, seen, TypeOK, FlagsBacked, Bit
<1>4. Followed'
  BY Zenon, <1>0 DEF IInv, TxArm, request, driver, flags, words, seen, Followed
<1> QED BY <1>1, <1>2, <1>3, <1>4 DEF IInv

LEMMA TxGoKeeps == ASSUME IInv, TxGo PROVE IInv'
<1>0. /\ mode' \in Modes /\ command' = "TX" /\ command' \in Modes /\ late' \in BOOLEAN
      /\ ~late' => mode' = "TX" /\ ~late
  BY GoTyped DEF IInv, TxGo, Modes
<1>s. Booleans'
  BY Zenon, <1>0 DEF IInv, TxGo, request, flags, words, seen, TypeOK, Booleans
<1>1. TypeOK'
  BY SMT, <1>s, <1>0 DEF IInv, TxGo, request, flags, words, seen, TypeOK, Booleans
<1>2. Checked'
  BY SMT DEF IInv, TxGo, request, flags, words, seen, Checked
<1>3. FlagsBacked'
  BY SMT DEF IInv, TxGo, request, flags, words, seen, TypeOK, FlagsBacked, Bit
<1>4. Followed'
  BY Zenon, <1>0 DEF IInv, TxGo, request, flags, words, seen, Followed
<1> QED BY <1>1, <1>2, <1>3, <1>4 DEF IInv

LEMMA TxReportedKeeps == ASSUME IInv, TxReported PROVE IInv'
<1>0. /\ mode' \in Modes /\ command' = "STBY" /\ command' \in Modes /\ late' \in BOOLEAN
      /\ ~late' => mode' = "STBY" /\ ~late
  BY GoTyped DEF IInv, TxReported, Modes
<1>s. Booleans'
  BY Zenon, <1>0 DEF IInv, TxReported, EndHandler, driver, fifo, words, TypeOK, Booleans
<1>1. TypeOK'
  BY SMT, <1>s, <1>0 DEF IInv, TxReported, EndHandler, driver, fifo, words, TypeOK, Booleans
<1>2. Checked'
  BY SMT DEF IInv, TxReported, EndHandler, driver, fifo, words, Checked
<1>3. FlagsBacked'
  BY SMT DEF IInv, TxReported, EndHandler, driver, fifo, words, TypeOK, FlagsBacked, Bit
<1>4. Followed'
  BY Zenon, <1>0 DEF IInv, TxReported, EndHandler, driver, fifo, words, Followed
<1> QED BY <1>1, <1>2, <1>3, <1>4 DEF IInv

LEMMA TxTimeoutKeeps == ASSUME IInv, TxTimeout PROVE IInv'
<1>0. /\ mode' \in Modes /\ command' = "STBY" /\ command' \in Modes /\ late' \in BOOLEAN
      /\ ~late' => mode' = "STBY" /\ ~late
  BY GoTyped DEF IInv, TxTimeout, Modes
<1>s. Booleans'
  BY Zenon, <1>0 DEF IInv, TxTimeout, EndHandler, driver, flags, fifo, words, seen, TypeOK, Booleans
<1>1. TypeOK'
  BY SMT, <1>s, <1>0 DEF IInv, TxTimeout, EndHandler, driver, flags, fifo, words, seen, TypeOK, Booleans
<1>2. Checked'
  BY SMT DEF IInv, TxTimeout, EndHandler, driver, flags, fifo, words, seen, Checked
<1>3. FlagsBacked'
  BY SMT DEF IInv, TxTimeout, EndHandler, driver, flags, fifo, words, seen, TypeOK, FlagsBacked, Bit
<1>4. Followed'
  BY Zenon, <1>0 DEF IInv, TxTimeout, EndHandler, driver, flags, fifo, words, seen, Followed
<1> QED BY <1>1, <1>2, <1>3, <1>4 DEF IInv

------------------------------------------------------------------------------
(* pollRx and rxPacket.                                                    *)

LEMMA pollRxKeeps == ASSUME IInv, pollRx PROVE IInv'
<1>s. Booleans'
  BY Zenon DEF IInv, pollRx, request, driver, state, fifo, words, seen, TypeOK, Booleans
<1>1. TypeOK'
  BY SMT, <1>s DEF IInv, pollRx, request, driver, state, fifo, words, seen, TypeOK, Booleans
<1>2. Checked'
  BY SMT DEF IInv, pollRx, request, driver, state, fifo, words, seen, Checked
<1>3. FlagsBacked'
  BY SMT DEF IInv, pollRx, request, driver, state, fifo, words, seen, TypeOK, FlagsBacked, Bit
<1>4. Followed'
  BY Zenon DEF IInv, pollRx, request, driver, state, fifo, words, seen, Followed
<1> QED BY <1>1, <1>2, <1>3, <1>4 DEF IInv

LEMMA RxArmKeeps == ASSUME IInv, RxArm PROVE IInv'
<1>0. /\ mode' \in Modes /\ command' = "RX" /\ command' \in Modes /\ late' \in BOOLEAN
      /\ ~late' => mode' = "RX" /\ ~late
  BY GoTyped DEF IInv, RxArm, Modes
<1>s. Booleans'
  BY Zenon, <1>0 DEF IInv, RxArm, request, flags, words, seen, TypeOK, Booleans
<1>1. TypeOK'
  BY SMT, <1>s, <1>0 DEF IInv, RxArm, request, flags, words, seen, TypeOK, Booleans
<1>2. Checked'
  BY SMT DEF IInv, RxArm, request, flags, words, seen, Checked
<1>3. FlagsBacked'
  BY SMT DEF IInv, RxArm, request, flags, words, seen, TypeOK, FlagsBacked, Bit
<1>4. Followed'
  BY Zenon, <1>0 DEF IInv, RxArm, request, flags, words, seen, Followed
<1> QED BY <1>1, <1>2, <1>3, <1>4 DEF IInv

LEMMA RxRecordKeeps == ASSUME IInv, RxRecord PROVE IInv'
<1>0. /\ mode' \in Modes /\ command' = "STBY" /\ command' \in Modes /\ late' \in BOOLEAN
      /\ ~late' => mode' = "STBY" /\ ~late
  BY GoTyped DEF IInv, RxRecord, Modes
<1>a. phantom' \in BOOLEAN /\ (~late /\ ~oms => ~phantom')
  BY Zenon DEF IInv, RxRecord, TypeOK, Followed
<1>s. Booleans'
  BY Zenon, <1>0, <1>a DEF IInv, RxRecord, request, words, TypeOK, Booleans
<1>1. TypeOK'
  BY SMT, <1>s, <1>0, <1>a DEF IInv, RxRecord, request, words, TypeOK, Booleans
<1>2. Checked'
  BY SMT DEF IInv, RxRecord, request, words, Checked
<1>3. FlagsBacked'
  BY SMT DEF IInv, RxRecord, request, words, TypeOK, FlagsBacked, Bit
<1>4. Followed'
  BY Zenon, <1>0, <1>a DEF IInv, RxRecord, request, words, Followed
<1> QED BY <1>1, <1>2, <1>3, <1>4 DEF IInv

LEMMA RxCollisionKeeps == ASSUME IInv, RxCollision PROVE IInv'
<1>0. /\ mode' \in Modes /\ command' = "STBY" /\ command' \in Modes /\ late' \in BOOLEAN
      /\ ~late' => mode' = "STBY" /\ ~late
  BY GoTyped DEF IInv, RxCollision, Modes
<1>s. Booleans'
  BY Zenon, <1>0 DEF IInv, RxCollision, request, driver, fifo, words, seen, TypeOK, Booleans
<1>1. TypeOK'
  BY SMT, <1>s, <1>0 DEF IInv, RxCollision, request, driver, fifo, words, seen, TypeOK, Booleans
<1>2. Checked'
  BY SMT DEF IInv, RxCollision, request, driver, fifo, words, seen, Checked
<1>3. FlagsBacked'
  BY SMT DEF IInv, RxCollision, request, driver, fifo, words, seen, TypeOK, FlagsBacked, Bit
<1>4. Followed'
  BY Zenon, <1>0 DEF IInv, RxCollision, request, driver, fifo, words, seen, Followed
<1> QED BY <1>1, <1>2, <1>3, <1>4 DEF IInv

LEMMA RxTimeoutKeeps == ASSUME IInv, RxTimeout PROVE IInv'
<1>0. /\ mode' \in Modes /\ command' = "STBY" /\ command' \in Modes /\ late' \in BOOLEAN
      /\ ~late' => mode' = "STBY" /\ ~late
  BY GoTyped DEF IInv, RxTimeout, Modes
<1>s. Booleans'
  BY Zenon, <1>0 DEF IInv, RxTimeout, request, driver, flags, fifo, words, seen, TypeOK, Booleans
<1>1. TypeOK'
  BY SMT, <1>s, <1>0 DEF IInv, RxTimeout, request, driver, flags, fifo, words, seen, TypeOK, Booleans
<1>2. Checked'
  BY SMT DEF IInv, RxTimeout, request, driver, flags, fifo, words, seen, Checked
<1>3. FlagsBacked'
  BY SMT DEF IInv, RxTimeout, request, driver, flags, fifo, words, seen, TypeOK, FlagsBacked, Bit
<1>4. Followed'
  BY Zenon, <1>0 DEF IInv, RxTimeout, request, driver, flags, fifo, words, seen, Followed
<1> QED BY <1>1, <1>2, <1>3, <1>4 DEF IInv

------------------------------------------------------------------------------
(* The chip.                                                               *)

LEMMA TakeCommandKeeps == ASSUME IInv, TakeCommand PROVE IInv'
<1>s. Booleans'
  BY Zenon DEF IInv, TakeCommand, request, driver, flags, fifo, words, seen, TypeOK, Booleans
<1>1. TypeOK'
  BY SMT, <1>s DEF IInv, TakeCommand, request, driver, flags, fifo, words, seen, TypeOK, Booleans
<1>2. Checked'
  BY SMT DEF IInv, TakeCommand, request, driver, flags, fifo, words, seen, Checked
<1>3. FlagsBacked'
  BY SMT DEF IInv, TakeCommand, request, driver, flags, fifo, words, seen, TypeOK, FlagsBacked, Bit
<1>4. Followed'
  BY Zenon DEF IInv, TakeCommand, request, driver, flags, fifo, words, seen, Followed
<1> QED BY <1>1, <1>2, <1>3, <1>4 DEF IInv

LEMMA TxCompleteKeeps == ASSUME IInv, TxComplete PROVE IInv'
<1>a. txDone' \in BOOLEAN
  BY Zenon DEF IInv, TxComplete, TypeOK
<1>s. Booleans'
  BY Zenon, <1>a DEF IInv, TxComplete, request, driver, state, words, TypeOK, Booleans
<1>1. TypeOK'
  BY SMT, <1>s, <1>a DEF IInv, TxComplete, request, driver, state, words, TypeOK, Booleans
<1>2. Checked'
  BY SMT DEF IInv, TxComplete, request, driver, state, words, Checked
<1>3. FlagsBacked'
  BY SMT, <1>a DEF IInv, TxComplete, request, driver, state, words, TypeOK, FlagsBacked, Bit
<1>4. Followed'
  BY Zenon DEF IInv, TxComplete, request, driver, state, words, Followed
<1> QED BY <1>1, <1>2, <1>3, <1>4 DEF IInv

LEMMA RxCompleteKeeps == ASSUME IInv, RxComplete PROVE IInv'
<1>a. rxFifo' \in BOOLEAN /\ (direction = "READ" => rxFifo')
  BY Zenon DEF IInv, RxComplete, TypeOK
<1>b. received' \in 0..MaxPackets
  BY SMT, WebAssumption DEF IInv, RxComplete, TypeOK
<1>s. Booleans'
  BY Zenon, <1>a, <1>b DEF IInv, RxComplete, request, driver, state, words, TypeOK, Booleans
<1>1. TypeOK'
  BY SMT, <1>s, <1>a, <1>b DEF IInv, RxComplete, request, driver, state, words, TypeOK, Booleans
<1>2. Checked'
  BY SMT DEF IInv, RxComplete, request, driver, state, words, Checked
<1>3. FlagsBacked'
  BY SMT DEF IInv, RxComplete, request, driver, state, words, TypeOK, FlagsBacked, Bit
<1>4. Followed'
  BY Zenon, <1>a DEF IInv, RxComplete, request, driver, state, words, Followed
<1> QED BY <1>1, <1>2, <1>3, <1>4 DEF IInv

LEMMA RxCollidedKeeps == ASSUME IInv, RxCollided PROVE IInv'
<1>s. Booleans'
  BY Zenon DEF IInv, RxCollided, request, driver, state, fifo, words, seen, TypeOK, Booleans
<1>1. TypeOK'
  BY SMT, <1>s DEF IInv, RxCollided, request, driver, state, fifo, words, seen, TypeOK, Booleans
<1>2. Checked'
  BY SMT DEF IInv, RxCollided, request, driver, state, fifo, words, seen, Checked
<1>3. FlagsBacked'
  BY SMT DEF IInv, RxCollided, request, driver, state, fifo, words, seen, TypeOK, FlagsBacked, Bit
<1>4. Followed'
  BY Zenon DEF IInv, RxCollided, request, driver, state, fifo, words, seen, Followed
<1> QED BY <1>1, <1>2, <1>3, <1>4 DEF IInv

LEMMA StutterKeeps == ASSUME IInv, UNCHANGED vars PROVE IInv'
<1>1. TypeOK' /\ Checked'
  BY SMT DEF IInv, vars, TypeOK, Checked, request, driver, state, flags, fifo, words, seen
<1>2. FlagsBacked'
  BY SMT DEF IInv, vars, FlagsBacked, Bit, driver, flags, seen
<1>3. Followed'
  BY Zenon DEF IInv, vars, Followed, state, flags, fifo, seen
<1> QED BY <1>1, <1>2, <1>3 DEF IInv

THEOREM Invariance == Spec => []IInv
<1>1. ASSUME IInv, Code PROVE IInv'
  BY <1>1, handleStatusKeeps, handleTxKeeps, TuneKeeps, ProgramKeeps, setChannelKeeps,
     TxArmKeeps, TxGoKeeps, TxReportedKeeps, TxTimeoutKeeps, pollRxKeeps, RxArmKeeps,
     RxRecordKeeps, RxCollisionKeeps, RxTimeoutKeeps DEF Code
<1>2. ASSUME IInv, Chip PROVE IInv'
  BY <1>2, TakeCommandKeeps, TxCompleteKeeps, RxCompleteKeeps, RxCollidedKeeps DEF Chip
<1>3. IInv /\ [Next]_vars => IInv'
  BY <1>1, <1>2, StutterKeeps DEF Next
<1> QED BY <1>3, InitHolds, PTL DEF Spec

------------------------------------------------------------------------------

\* Types, the words' among them: no frequency and no channel byte makes
\* setFrequencyHz (cmt2300a_spi.cpp:420) write more than its registers hold.
THEOREM RadioTyped == Spec => []TypeOK
<1>1. IInv => TypeOK
  BY DEF IInv
<1> QED BY <1>1, Invariance, PTL

\* A client is told of no more packets than were on air (cmt2300a_spi.cpp:551).
THEOREM SuccessesAreEarned == Spec => []SuccessesEarned
<1>1. IInv => SuccessesEarned
  BY SMT DEF IInv, TypeOK, FlagsBacked, Bit, SuccessesEarned
<1> QED BY <1>1, Invariance, PTL

\* No more records than packets received (cmt2300a_spi.cpp:584).
THEOREM RecordsAreEarned == Spec => []RecordsEarned
<1>1. IInv => RecordsEarned
  BY SMT DEF IInv, TypeOK, FlagsBacked, Bit, RecordsEarned
<1> QED BY <1>1, Invariance, PTL

\* The demo never stores a packet that did not come in during its own call,
\* with a chip that follows its commands (main.cpp:545).
THEOREM DemoRecordsFresh == Spec => []DemoRecordsAreFresh
<1>1. IInv => DemoRecordsAreFresh
  BY DEF IInv, Followed, DemoRecordsAreFresh
<1> QED BY <1>1, Invariance, PTL

------------------------------------------------------------------------------
(* Tuning.                                                                 *)

\* The registers hold the words of the frequency the driver remembers, but
\* for the byte of the receiver's word that setChannel writes.
RxWords(f) == {rxWordOf(f)} \cup {Overwritten(rxWordOf(f), c) : c \in 0..255}

Tuned ==
  currentFreqHz # 0 =>
    /\ isFrequencySupported(currentFreqHz)
    /\ txWord = txWordOf(currentFreqHz)
    /\ rxWord \in RxWords(currentFreqHz)

\* A second channel byte replaces the first: nothing else of the word goes.
LEMMA LastChannelCounts ==
  ASSUME NEW w \in Words, NEW c \in 0..255, NEW e \in 0..255
  PROVE  Overwritten(Overwritten(w, c), e) = Overwritten(w, e)
<1>1. w.k \in Nat
  BY StepsNat, OutOfInterval DEF Words
<1>2. ((c % 16) * 65536 + (w.k % 65536)) % 65536 = w.k % 65536
  BY SMT, <1>1
<1> DEFINE v == Overwritten(w, c)
<1>3. v.n = w.n /\ v.k % 65536 = w.k % 65536
  BY SMT, <1>2 DEF Overwritten
<1> HIDE DEF v
<1>4. Overwritten(v, e) = Overwritten(w, e)
  BY <1>3 DEF Overwritten
<1> QED BY <1>4 DEF v

LEMMA OnlyTuningTunes ==
  ASSUME Next \/ UNCHANGED vars, ~Program, ~setChannel
  PROVE  UNCHANGED <<currentFreqHz, rxWord, txWord>>
<1>1. Next => Program \/ setChannel \/ UNCHANGED <<currentFreqHz, rxWord, txWord>>
  BY Zenon DEF Next, Code, Chip, handleStatus, handleTx, Tune, TxArm, TxGo, TxReported, TxTimeout,
     pollRx, RxArm, RxRecord, RxCollision, RxTimeout, TakeCommand, TxComplete, RxComplete,
     RxCollided, driver, words
<1> QED BY <1>1 DEF vars, driver, words

LEMMA StaysTuned == ASSUME IInv, Tuned, Next \/ UNCHANGED vars PROVE Tuned'
<1>1. CASE Program
  <2>1. isFrequencySupported(freq)
    BY <1>1 DEF Program, IInv, Checked
  <2>2. /\ currentFreqHz' = freq /\ txWord' = txWordOf(freq)
        /\ rxWord' = rxWordOf(freq)
    BY Zenon, <1>1 DEF Program
  <2> QED BY Zenon, <2>1, <2>2 DEF Tuned, RxWords
<1>2. CASE setChannel
  <2>1. /\ rxWord' = Overwritten(rxWord, ch)
        /\ UNCHANGED <<currentFreqHz, txWord>>
    BY <1>2 DEF setChannel, driver
  <2>2. ch \in 0..255
    BY DEF IInv, TypeOK
  <2>3. ASSUME currentFreqHz # 0 PROVE rxWord' \in RxWords(currentFreqHz)
    <3>1. currentFreqHz \in Nat /\ isFrequencySupported(currentFreqHz)
      BY <2>3, WebAssumption DEF IInv, TypeOK, Tuned
    <3>2. rxWordOf(currentFreqHz) \in Words
      BY <3>1, WordsTyped
    <3>3. rxWord \in RxWords(currentFreqHz)
      BY <2>3 DEF Tuned
    <3>4. Overwritten(rxWord, ch) = Overwritten(rxWordOf(currentFreqHz), ch)
      <4>1. CASE rxWord = rxWordOf(currentFreqHz)
        BY Zenon, <4>1
      <4>2. ASSUME NEW c \in 0..255, rxWord = Overwritten(rxWordOf(currentFreqHz), c)
            PROVE  Overwritten(rxWord, ch) = Overwritten(rxWordOf(currentFreqHz), ch)
        BY Zenon, <4>2, <2>2, <3>2, LastChannelCounts
      <4> QED BY Zenon, <3>3, <4>1, <4>2 DEF RxWords
    <3> QED BY Zenon, <2>1, <2>2, <3>4 DEF RxWords
  <2> QED BY Zenon, <2>1, <2>3 DEF Tuned
<1>3. CASE ~Program /\ ~setChannel
  BY <1>3, OnlyTuningTunes DEF Tuned
<1> QED BY <1>1, <1>2, <1>3

LEMMA TunedMatches == ASSUME IInv, Tuned PROVE TransmitterTuned
<1> SUFFICES ASSUME currentFreqHz # 0
             PROVE  TransmitterTuned
  BY DEF TransmitterTuned
<1> DEFINE f == currentFreqHz
           d == pickBand(f).divider
<1>1. f \in Nat /\ isFrequencySupported(f)
  BY WebAssumption DEF IInv, TypeOK, Tuned
<1>2. Hits(txWordOf(f), f, d) /\ Hits(rxWordOf(f), f + IfHz, d)
  BY <1>1, TunedWithinAStep
<1>3. txWord = txWordOf(f) /\ rxWord \in RxWords(f)
  BY DEF Tuned
<1> QED BY Zenon, <1>2, <1>3 DEF RxWords, TransmitterTuned

\* What the registers hold of the frequency the page shows (_currentFreqHz,
\* cmt2300a_spi.cpp:497), whatever was asked for before: the transmitter's word
\* is right to half a step, but a reference period low where the carry is
\* lost; the receiver's is right only until setChannel replaces its byte 0x1B,
\* and of it the rest stays.
THEOREM TransmitterIsTuned == Spec => []TransmitterTuned
<1>1. Init => Tuned
  BY DEF Init, Tuned
<1>2. IInv /\ Tuned /\ [Next]_vars => Tuned'
  BY StaysTuned
<1>3. IInv /\ Tuned => TransmitterTuned
  BY TunedMatches
<1> QED BY <1>1, <1>2, <1>3, Invariance, PTL DEF Spec
=============================================================================
