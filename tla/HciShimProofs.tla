---------------------------- MODULE HciShimProofs ----------------------------
(***************************************************************************)
(* Proofs about HciShim: its inductive invariant, the safety properties it *)
(* yields, and that the shim implements Im871aContract.                    *)
(***************************************************************************)
EXTENDS HciShim, TLAPS

\* While a request has been seen since boot (and less than AgeCap ago), the
\* end of the detect window lies MuteMs after the instant its header came,
\* modulo the range of the clock.
ClockLinked ==
  sinceReq < AgeCap =>
    \/ now + MuteMs = sMuteUntil + sinceReq
    \/ now + MuteMs = sMuteUntil + sinceReq + MillisRange
    \/ now + MuteMs = sMuteUntil + sinceReq - MillisRange

IInv == TypeOK /\ PayloadFits /\ ClockLinked

------------------------------------------------------------------------------
\* Clock arithmetic stays in range.
LEMMA PlusType ==
  ASSUME ShimAssumption,
         NEW t \in 0..(MillisRange - 1), NEW d \in 0..(MillisRange - 1)
  PROVE  /\ Plus(t, d) \in 0..(MillisRange - 1)
         /\ Plus(t, d) = t + d \/ Plus(t, d) = t + d - MillisRange
  BY DEF ShimAssumption, Plus, MillisRange

\* What the ring holds stays frames and lines: a frame is appended or dropped.
LEMMA SendFrameKeeps ==
  ASSUME ShimAssumption, ring \in Seq(Frame \cup Text), used \in Int,
         NEW f \in [ep : {DevMgmt, RadioLink}, msgid : 0..255, len : Nat, rssi : BOOLEAN],
         SendFrame(f)
  PROVE  /\ ring' \in Seq(Frame \cup Text)
         /\ used' \in Int
         /\ ring' = ring \/ ring' = Append(ring, f)
<1>1. CASE Accepted(f)
  <2>1. f \in Frame
    BY <1>1 DEF Accepted, Frame, ShimAssumption
  <2>2. ring' = Append(ring, f) /\ used' = used + WireSize(f)
    BY <1>1 DEF SendFrame
  <2>3. WireSize(f) \in Int
    BY DEF WireSize
  <2> QED BY <2>1, <2>2, <2>3
<1>2. CASE ~Accepted(f)
  BY <1>2 DEF SendFrame, out
<1> QED BY <1>1, <1>2

\* Time passing with no new request keeps the clock and its history linked.
LEMMA TimePasses ==
  ASSUME ShimAssumption, TypeOK, ClockLinked,
         NEW d \in 0..(Half - 1),
         now' = Plus(now, d), sinceReq' = Age(d), sMuteUntil' = sMuteUntil
  PROVE  /\ now' \in 0..(MillisRange - 1)
         /\ sinceReq' \in 0..AgeCap
         /\ ClockLinked'
  BY DEF ShimAssumption, TypeOK, ClockLinked, Plus, Age, AgeCap, MillisRange

\* The detect window is exactly the first MuteMs after a request header.
LEMMA LinkedMeansExact ==
  ASSUME ShimAssumption, TypeOK, ClockLinked
  PROVE  MuteExact
  BY DEF ShimAssumption, TypeOK, ClockLinked, MuteExact, Muted, Negative, Minus,
         AgeCap, MillisRange

------------------------------------------------------------------------------
(* Serving a complete request preserves the invariant.  The facts a        *)
(* request handler can disturb are stated once, for Dispatch.              *)

LEMMA DispatchKeeps ==
  ASSUME ShimAssumption, IInv,
         pCtrl \in {DevMgmt, RadioLink},
         NEW plen \in 0..MaxPayload, NEW mode \in 0..255,
         Dispatch(plen, mode)
  PROVE  /\ pState' = "SOF"
         /\ sLinkMode' \in 0..255 /\ sRadioOn' \in BOOLEAN /\ sAbort' \in BOOLEAN
         /\ now' \in 0..(MillisRange - 1) /\ sMuteUntil' \in 0..(MillisRange - 1)
         /\ sinceReq' \in 0..AgeCap
         /\ ring' \in Seq(Frame \cup Text) /\ used' \in Int
         /\ ClockLinked'
<1> USE DEF IInv
<1>1. CASE ServeManagement(pMsgid, plen, mode)
  <2>1. UNCHANGED clock /\ sAbort' = sAbort
    BY <1>1 DEF ServeManagement
  <2>2. /\ sLinkMode' \in 0..255
        /\ sRadioOn' \in BOOLEAN
    BY <1>1 DEF ServeManagement, TypeOK
  <2>3. CASE pMsgid \in KnownManagement
    <3> DEFINE a == ManagementAnswer(pMsgid, plen)
               f == Response(DevMgmt, a[1], a[2])
    <3>1. a \in {<<2, 0>>, <<16, 8>>, <<6, 8>>, <<4, plen>>}
      BY <2>3 DEF KnownManagement, ManagementAnswer, PingReq, DeviceInfoReq,
                  GetConfigReq, SetConfigReq
    <3>2. a[1] \in {2, 4, 6, 16} /\ a[2] \in Nat
      BY <3>1
    <3>3. f \in [ep : {DevMgmt, RadioLink}, msgid : 0..255, len : Nat, rssi : BOOLEAN]
      BY <3>2 DEF Response
    <3>4. SendFrame(f)
      BY <1>1, <2>3 DEF ServeManagement
    <3> HIDE DEF f
    <3>5. ring' \in Seq(Frame \cup Text) /\ used' \in Int
      BY <3>3, <3>4, SendFrameKeeps DEF TypeOK
    <3>6. /\ now' \in 0..(MillisRange - 1) /\ sMuteUntil' \in 0..(MillisRange - 1)
          /\ sinceReq' \in 0..AgeCap /\ ClockLinked'
      BY <2>1 DEF TypeOK, ClockLinked, clock
    <3>7. pState' = "SOF" /\ sAbort' \in BOOLEAN
      BY <2>1 DEF TypeOK, Dispatch
    <3> QED
      BY <2>2, <3>5, <3>6, <3>7
  <2>4. CASE pMsgid \notin KnownManagement
    <3>1. UNCHANGED out
      BY <1>1, <2>4 DEF ServeManagement
    <3> QED
      BY <1>1, <2>1, <2>2, <3>1
      DEF TypeOK, ClockLinked, clock, out, Dispatch
  <2> QED BY <2>3, <2>4
<1>2. CASE ServeTransmit(pMsgid)
  <2> DEFINE f == Response(RadioLink, IF pMsgid = 1 THEN 2 ELSE 5, 0)
  <2>1. f \in [ep : {DevMgmt, RadioLink}, msgid : 0..255, len : Nat, rssi : BOOLEAN]
    BY DEF Response
  <2>2. PICK d \in 0..TxMs : now' = Plus(now, d) /\ sinceReq' = Age(d)
    BY <1>2 DEF ServeTransmit
  <2>3. d \in 0..(Half - 1)
    BY DEF ShimAssumption
  <2>4. UNCHANGED config /\ sMuteUntil' = sMuteUntil /\ sAbort' = TRUE /\ SendFrame(f)
    BY <1>2 DEF ServeTransmit
  <2>5. now' \in 0..(MillisRange - 1) /\ sinceReq' \in 0..AgeCap /\ ClockLinked'
    BY <2>2, <2>3, <2>4, TimePasses
  <2> HIDE DEF f
  <2>6. ring' \in Seq(Frame \cup Text) /\ used' \in Int
    BY <2>1, <2>4, SendFrameKeeps DEF TypeOK
  <2> QED
    BY <2>4, <2>5, <2>6 DEF TypeOK, config, Dispatch
<1>3. CASE IgnoreRadioLink(pMsgid)
  BY <1>3
  DEF IgnoreRadioLink, TypeOK, ClockLinked, config, clock, out,
      Dispatch
<1> QED BY <1>1, <1>2, <1>3 DEF Dispatch

------------------------------------------------------------------------------
LEMMA InitInvariant == ASSUME ShimAssumption, Init PROVE IInv
<1>1. TypeOK
  <2>1. ring = <<>> /\ <<>> \in Seq(Frame \cup Text)
    BY DEF Init
  <2>2. 0 \in 0..(MillisRange - 1) /\ AgeCap \in 0..AgeCap /\ 0 \in 0..MaxPayload
    BY DEF ShimAssumption, AgeCap, MillisRange
  <2>3. /\ now \in 0..(MillisRange - 1) /\ sMuteUntil \in 0..(MillisRange - 1)
        /\ sinceReq \in 0..AgeCap /\ pIdx \in 0..MaxPayload
    BY <2>2 DEF Init
  <2>4. ring \in Seq(Frame \cup Text)
    BY <2>1
  <2>5. /\ pState \in {"SOF", "CTRL", "MSGID", "LEN", "PAYLOAD"}
        /\ pCtrl \in {0, DevMgmt, RadioLink}
        /\ pMsgid \in 0..255 /\ pLen \in 0..255 /\ pThird \in 0..255
        /\ sLinkMode \in 0..255 /\ used \in Int
    BY DEF Init, FactoryLinkMode
  <2>6. sRadioOn \in BOOLEAN /\ sAbort \in BOOLEAN
    BY DEF Init
  <2> QED BY <2>3, <2>4, <2>5, <2>6 DEF TypeOK
<1>2. PayloadFits /\ ClockLinked
  <2>1. ~(sinceReq < AgeCap)
    BY DEF Init, AgeCap, MillisRange, ShimAssumption
  <2> QED BY <2>1 DEF Init, PayloadFits, ClockLinked
<1> QED BY <1>1, <1>2 DEF IInv

LEMMA ReceiveInvariant ==
  ASSUME ShimAssumption, IInv, NEW b \in Byte, Receive(b)
  PROVE  IInv'
<1> USE DEF IInv
<1>0. b \in 0..255
  BY DEF ShimAssumption
<1>1. CASE HuntSof(b)
  BY <1>1 DEF HuntSof, TypeOK, PayloadFits, ClockLinked,
              config, clock, out
<1>2. CASE TakeCtrl(b)
  <2>1. UNCHANGED <<pMsgid, pLen, pIdx, pThird, config, sAbort, now, out>>
    BY <1>2 DEF TakeCtrl
  <2>2. CASE b \in {DevMgmt, RadioLink}
    <3>1. pState' = "MSGID" /\ pCtrl' = b /\ sMuteUntil' = Plus(now, MuteMs) /\ sinceReq' = 0
      BY <1>2, <2>2 DEF TakeCtrl
    <3>2. MuteMs \in 0..(MillisRange - 1) /\ now \in 0..(MillisRange - 1) /\ 0 \in 0..AgeCap
      BY DEF ShimAssumption, TypeOK, MillisRange, AgeCap
    <3>3. /\ sMuteUntil' \in 0..(MillisRange - 1)
          /\ sMuteUntil' = now + MuteMs \/ sMuteUntil' = now + MuteMs - MillisRange
      BY <3>1, <3>2, PlusType
    <3>4. ClockLinked'
      BY <2>1, <3>1, <3>3 DEF ClockLinked, ShimAssumption, TypeOK, MillisRange
    <3> QED
      BY <2>1, <2>2, <3>1, <3>2, <3>3, <3>4
      DEF TypeOK, PayloadFits, config, out
  <2>3. CASE b \notin {DevMgmt, RadioLink}
    BY <1>2, <2>1, <2>3
    DEF TakeCtrl, TypeOK, PayloadFits, ClockLinked, config, out
  <2> QED BY <2>2, <2>3
<1>3. CASE TakeMsgid(b)
  BY <1>0, <1>3 DEF TakeMsgid, TypeOK, PayloadFits, ClockLinked,
                    config, clock, out
<1>4. CASE TakeLen(b)
  <2>1. pIdx' = 0 /\ pLen' = b /\ UNCHANGED <<pCtrl, pMsgid, pThird>>
    BY <1>4 DEF TakeLen
  <2>2. CASE b = 0
    <3>1. Dispatch(0, pThird)
      BY <1>4, <2>2 DEF TakeLen
    <3>2. pCtrl \in {DevMgmt, RadioLink} /\ pThird \in 0..255 /\ 0 \in 0..MaxPayload
      BY <1>4 DEF TakeLen, TypeOK, PayloadFits, ShimAssumption
    <3> HIDE DEF IInv
    <3>3. /\ pState' = "SOF"
          /\ sLinkMode' \in 0..255 /\ sRadioOn' \in BOOLEAN /\ sAbort' \in BOOLEAN
          /\ now' \in 0..(MillisRange - 1) /\ sMuteUntil' \in 0..(MillisRange - 1)
          /\ sinceReq' \in 0..AgeCap
          /\ ring' \in Seq(Frame \cup Text) /\ used' \in Int
          /\ ClockLinked'
      BY <3>1, <3>2, DispatchKeeps
    <3> QED
      BY <1>0, <2>1, <3>2, <3>3 DEF IInv, TypeOK, PayloadFits, ShimAssumption
  <2>3. CASE b # 0
    <3>1. /\ pState' = IF b > MaxPayload THEN "SOF" ELSE "PAYLOAD"
          /\ UNCHANGED <<config, sAbort, clock, out>>
          /\ pState = "LEN"
      BY <1>4, <2>3 DEF TakeLen
    <3> QED
      BY <1>0, <2>1, <2>3, <3>1
      DEF ShimAssumption, TypeOK, PayloadFits, ClockLinked,
          config, clock, out
  <2> QED BY <2>2, <2>3
<1>5. CASE TakePayload(b)
  <2>1. /\ pState = "PAYLOAD" /\ pIdx' = pIdx + 1
        /\ pThird' \in 0..255
        /\ UNCHANGED <<pCtrl, pMsgid, pLen>>
    BY <1>0, <1>5 DEF TakePayload, TypeOK
  <2>2. pIdx' \in 0..MaxPayload /\ pLen \in 0..MaxPayload /\ pCtrl \in {DevMgmt, RadioLink}
    BY <2>1 DEF TypeOK, PayloadFits, ShimAssumption
  <2>3. CASE pIdx + 1 >= pLen
    <3>1. Dispatch(pLen, pThird')
      BY <1>5, <2>3 DEF TakePayload
    <3> HIDE DEF IInv
    <3>2. /\ pState' = "SOF"
          /\ sLinkMode' \in 0..255 /\ sRadioOn' \in BOOLEAN /\ sAbort' \in BOOLEAN
          /\ now' \in 0..(MillisRange - 1) /\ sMuteUntil' \in 0..(MillisRange - 1)
          /\ sinceReq' \in 0..AgeCap
          /\ ring' \in Seq(Frame \cup Text) /\ used' \in Int
          /\ ClockLinked'
      BY <2>1, <2>2, <3>1, DispatchKeeps
    <3> QED BY <2>1, <2>2, <3>2 DEF IInv, TypeOK, PayloadFits
  <2>4. CASE ~(pIdx + 1 >= pLen)
    BY <1>5, <2>1, <2>2, <2>4
    DEF TakePayload, TypeOK, PayloadFits, ClockLinked,
        config, clock, out, ShimAssumption
  <2> QED BY <2>3, <2>4
<1> QED BY <1>1, <1>2, <1>3, <1>4, <1>5 DEF Receive

LEMMA InternalInvariant ==
  ASSUME ShimAssumption, IInv, Internal
  PROVE  IInv'
<1> USE DEF IInv
<1>1. ASSUME NEW len \in IndLen, IndSend(len) PROVE IInv'
  <2>1. Indication(len) \in
          [ep : {DevMgmt, RadioLink}, msgid : 0..255, len : Nat, rssi : BOOLEAN]
    BY DEF Indication, IndMsgid, ShimAssumption
  <2>2. SendFrame(Indication(len)) /\ sRadioOn /\ UNCHANGED <<parser, config, sAbort, clock>>
    BY <1>1 DEF IndSend
  <2>3. ring' \in Seq(Frame \cup Text) /\ used' \in Int
    BY <2>1, <2>2, SendFrameKeeps DEF TypeOK
  <2> QED
    BY <2>2, <2>3
    DEF TypeOK, PayloadFits, ClockLinked, parser, config, clock
<1>2. ASSUME NEW n \in TextLen, PrintText(n) PROVE IInv'
  <2>1. /\ ring' = Append(ring, Line(n)) /\ used' = used + n
        /\ UNCHANGED <<parser, config, sAbort, clock>>
    BY <1>2 DEF PrintText
  <2>2. Line(n) \in Text /\ n \in Nat
    BY DEF Line, Text, ShimAssumption
  <2>3. ring' \in Seq(Frame \cup Text) /\ used' \in Int
    BY <2>1, <2>2 DEF TypeOK
  <2> QED
    BY <2>1, <2>3 DEF TypeOK, PayloadFits, ClockLinked, parser, config, clock
<1>3. CASE WindowAbort
  BY <1>3
  DEF WindowAbort, TypeOK, PayloadFits, ClockLinked, parser,
      config, clock, out
<1>4. CASE Tick
  <2>1. 1 \in 0..(Half - 1)
    BY DEF ShimAssumption
  <2>2. now' \in 0..(MillisRange - 1) /\ sinceReq' \in 0..AgeCap /\ ClockLinked'
    BY <1>4, <2>1, TimePasses DEF Tick
  <2> QED
    BY <1>4, <2>2
    DEF Tick, TypeOK, PayloadFits, parser, config, out
<1>5. CASE UartShift
  <2>1. ring' = Tail(ring) /\ ring # <<>> /\ UNCHANGED <<parser, config, sAbort, clock>>
    BY <1>5 DEF UartShift
  <2>2. ring' \in Seq(Frame \cup Text)
    BY <2>1 DEF TypeOK
  <2>3. used' \in Int
    <3>1. Head(ring) \in Frame \cup Text
      BY <2>1 DEF TypeOK
    <3> QED BY <1>5, <3>1 DEF UartShift, WireSize, Frame, Text, TypeOK, ShimAssumption
  <2> QED
    BY <2>1, <2>2, <2>3 DEF TypeOK, PayloadFits, ClockLinked, parser, config, clock
<1> QED BY <1>1, <1>2, <1>3, <1>4, <1>5 DEF Internal

LEMMA StepInvariant == ASSUME ShimAssumption, IInv, [Next]_vars PROVE IInv'
<1>1. CASE \E b \in Byte : Receive(b)
  BY <1>1, ReceiveInvariant
<1>2. CASE Internal
  BY <1>2, InternalInvariant
<1>3. CASE UNCHANGED vars
  BY <1>3
  DEF IInv, TypeOK, PayloadFits, ClockLinked, vars, parser,
      config, clock, out
<1> QED BY <1>1, <1>2, <1>3 DEF Next

THEOREM Invariance == Spec => []IInv
<1>1. Init => IInv
  BY ShimAssumption, InitInvariant
<1>2. IInv /\ [Next]_vars => IInv'
  BY ShimAssumption, StepInvariant
<1> QED BY <1>1, <1>2, PTL DEF Spec

\* Every variable keeps its type: in particular the stored payload never
\* outgrows pBuf, whatever bytes arrive in whatever order (hciPoll).
THEOREM TypeCorrect == Spec => []TypeOK
BY Invariance, PTL DEF IInv

\* The payload index stays below the announced length, and that length within
\* the buffer, for every buffer size and every byte stream (hciPoll).
THEOREM PayloadSafe == Spec => []PayloadFits
BY Invariance, PTL DEF IInv

\* For half the clock range after a request the detect window is open exactly
\* for its first MuteMs, across every wrap of millis() (hciPoll, hciIndSend).
THEOREM DetectWindowExact == Spec => []MuteExact
<1>1. IInv => MuteExact
  BY ShimAssumption, LinkedMeansExact DEF IInv
<1> QED BY <1>1, Invariance, PTL

------------------------------------------------------------------------------
(* The shim implements the contract: every step of the shim is a step of   *)
(* the contract on the mapped variables, or changes none of them.          *)

contractVars == <<sLinkMode, sRadioOn, sAbort, Quiet, ring>>
ContractStep == Contract!Next \/ UNCHANGED contractVars

\* Emitting a response is sending it, or losing it.
LEMMA RespondStep ==
  ASSUME ring \in Seq(Frame \cup Text), NEW f, SendFrame(f)
  PROVE  ring' = ring \/ (Contract!Sends /\ Contract!Sent = f)
BY DEF SendFrame, out, Contract!Sends, Contract!Sent

\* Time alone can only end the quiet period.
LEMMA QuietOnlyEnds ==
  ASSUME ShimAssumption, TypeOK, NEW d \in Nat, sinceReq' = Age(d)
  PROVE  Quiet' \in {Quiet, FALSE}
<1>1. (sinceReq' < MuteMs) => (sinceReq < MuteMs)
  BY DEF ShimAssumption, TypeOK, Age, AgeCap, MillisRange
<1>2. Quiet' \in BOOLEAN /\ Quiet \in BOOLEAN
  BY DEF Quiet
<1>3. Quiet' => Quiet
  BY <1>1 DEF Quiet
<1> QED BY <1>2, <1>3

LEMMA DispatchContract ==
  ASSUME ShimAssumption, IInv,
         NEW plen \in 0..MaxPayload, NEW mode \in 0..255,
         Dispatch(plen, mode)
  PROVE  ContractStep
<1> USE DEF IInv
<1>1. CASE ServeManagement(pMsgid, plen, mode)
  <2>1. Quiet' = Quiet /\ sAbort' = sAbort
    BY <1>1 DEF ServeManagement, Quiet, clock
  <2>2. CASE pMsgid \notin KnownManagement
    <3>1. UNCHANGED <<sLinkMode, sRadioOn, ring>>
      BY <1>1, <2>2
      DEF ServeManagement, KnownManagement, SetConfigReq, out, TypeOK
    <3> QED BY <2>1, <3>1 DEF ContractStep, contractVars
  <2>3. CASE pMsgid \in KnownManagement
    <3> DEFINE a == ManagementAnswer(pMsgid, plen)
               f == Response(DevMgmt, a[1], a[2])
               q == [ep |-> 1, req |-> pMsgid, rsp |-> a[1]]
    <3>1. a = CASE pMsgid = 1 -> <<2, 0>> [] pMsgid = 15 -> <<16, 8>>
                [] pMsgid = 5 -> <<6, 8>> [] pMsgid = 3 -> <<4, plen>>
      BY DEF ManagementAnswer, PingReq, DeviceInfoReq, GetConfigReq, SetConfigReq
    <3>2. pMsgid \in {1, 3, 5, 15}
      BY <2>3 DEF KnownManagement, PingReq, DeviceInfoReq, GetConfigReq, SetConfigReq
    <3>3. a[1] = IF pMsgid = 1 THEN 2 ELSE IF pMsgid = 15 THEN 16
                 ELSE IF pMsgid = 5 THEN 6 ELSE 4
      BY <3>1, <3>2
    <3> HIDE DEF a
    <3>4. /\ q \in Contract!Request \ Contract!Transmits
          /\ q = Contract!SetConfig <=> pMsgid = SetConfigReq
      BY <3>2, <3>3
      DEF Contract!Request, Contract!Transmits, Contract!Queries, Contract!SetConfig,
          SetConfigReq
    <3>5. SendFrame(f)
      BY <1>1, <2>3 DEF ServeManagement, a
    <3>6. Contract!Answers(f, q)
      BY DEF Contract!Answers, Response, DevMgmt
    <3>7. ring' = ring \/ (Contract!Sends /\ Contract!Answers(Contract!Sent, q))
      BY <3>5, <3>6, RespondStep DEF TypeOK
    <3>8. /\ sLinkMode' \in IF q = Contract!SetConfig THEN 0..255 ELSE {sLinkMode}
          /\ sRadioOn' = (sRadioOn \/ q = Contract!SetConfig)
      BY <1>1, <3>4 DEF ServeManagement, TypeOK
    <3>9. sAbort' = (sAbort \/ q \in Contract!Transmits)
      BY <2>1, <3>4 DEF TypeOK
    <3>10. Contract!Serve(q)
      BY <2>1, <3>7, <3>8, <3>9 DEF Contract!Serve
    <3> QED BY <3>4, <3>10 DEF Contract!Next, ContractStep
  <2> QED BY <2>2, <2>3
<1>2. CASE ServeTransmit(pMsgid)
  <2> DEFINE r == IF pMsgid = 1 THEN 2 ELSE 5
             f == Response(RadioLink, r, 0)
             q == [ep |-> 2, req |-> pMsgid, rsp |-> r]
  <2>1. pMsgid \in {1, 4} /\ sAbort' = TRUE /\ UNCHANGED config /\ SendFrame(f)
    BY <1>2 DEF ServeTransmit, TxReqs
  <2>2. q \in Contract!Transmits /\ q \in Contract!Request /\ q # Contract!SetConfig
    BY <2>1 DEF Contract!Request, Contract!Transmits, Contract!SetConfig
  <2>3. Quiet' \in {Quiet, FALSE}
    <3>1. PICK d \in 0..TxMs : sinceReq' = Age(d)
      BY <1>2 DEF ServeTransmit
    <3>2. d \in Nat
      BY DEF ShimAssumption
    <3> QED BY <3>1, <3>2, QuietOnlyEnds
  <2>4. Contract!Answers(f, q)
    BY DEF Contract!Answers, Response, RadioLink
  <2>5. ring' = ring \/ (Contract!Sends /\ Contract!Answers(Contract!Sent, q))
    BY <2>1, <2>4, RespondStep DEF TypeOK
  <2>6. sRadioOn' = (sRadioOn \/ q = Contract!SetConfig) /\ sLinkMode' \in {sLinkMode}
    BY <2>1, <2>2 DEF config, TypeOK
  <2>7. Contract!Serve(q)
    BY <2>1, <2>2, <2>3, <2>5, <2>6 DEF Contract!Serve
  <2> QED BY <2>2, <2>7 DEF Contract!Next, ContractStep
<1>3. CASE IgnoreRadioLink(pMsgid)
  BY <1>3 DEF IgnoreRadioLink, config, clock, out, ContractStep, contractVars, Quiet
<1> QED BY <1>1, <1>2, <1>3 DEF Dispatch

LEMMA ReceiveContract ==
  ASSUME ShimAssumption, IInv, NEW b \in Byte, Receive(b)
  PROVE  ContractStep
<1>0. b \in 0..255 /\ pThird \in 0..255 /\ 0 \in 0..MaxPayload
  BY DEF ShimAssumption, IInv, TypeOK
<1>1. CASE HuntSof(b) \/ TakeMsgid(b)
  BY <1>1 DEF HuntSof, TakeMsgid, config, clock, out, ContractStep, contractVars, Quiet
<1>2. CASE TakeCtrl(b)
  <2>1. UNCHANGED <<config, sAbort, out>>
    BY <1>2 DEF TakeCtrl
  <2>2. CASE b \in {DevMgmt, RadioLink}
    <3>1. sinceReq' = 0
      BY <1>2, <2>2 DEF TakeCtrl
    <3>2. Quiet' = TRUE
      BY <3>1 DEF Quiet, ShimAssumption
    <3> QED
      BY <2>1, <3>2 DEF Contract!Recognise, Contract!Next, ContractStep, config, out
  <2>3. CASE b \notin {DevMgmt, RadioLink}
    <3>1. Quiet' = Quiet
      BY <1>2, <2>3 DEF TakeCtrl, Quiet
    <3> QED BY <2>1, <3>1 DEF ContractStep, contractVars, config, out
  <2> QED BY <2>2, <2>3
<1>3. CASE TakeLen(b)
  <2>1. CASE b = 0
    <3>1. Dispatch(0, pThird)
      BY <1>3, <2>1 DEF TakeLen
    <3> QED BY <1>0, <3>1, DispatchContract
  <2>2. CASE b # 0
    <3>1. UNCHANGED <<config, sAbort, clock, out>>
      BY <1>3, <2>2 DEF TakeLen
    <3> QED BY <3>1 DEF config, clock, out, ContractStep, contractVars, Quiet
  <2> QED BY <2>1, <2>2
<1>4. CASE TakePayload(b)
  <2>1. CASE pIdx + 1 >= pLen
    <3>1. Dispatch(pLen, pThird') /\ pThird' \in 0..255
      BY <1>0, <1>4, <2>1 DEF TakePayload
    <3>2. pLen \in 0..MaxPayload
      BY <1>4 DEF TakePayload, IInv, PayloadFits, TypeOK, ShimAssumption
    <3> QED BY <3>1, <3>2, DispatchContract
  <2>2. CASE ~(pIdx + 1 >= pLen)
    <3>1. UNCHANGED <<config, sAbort, clock, out>>
      BY <1>4, <2>2 DEF TakePayload
    <3> QED BY <3>1 DEF config, clock, out, ContractStep, contractVars, Quiet
  <2> QED BY <2>1, <2>2
<1> QED BY <1>1, <1>2, <1>3, <1>4 DEF Receive

LEMMA InternalContract ==
  ASSUME ShimAssumption, IInv, Internal
  PROVE  ContractStep
<1>1. ASSUME NEW len \in IndLen, IndSend(len) PROVE ContractStep
  <2> DEFINE f == Indication(len)
  <2>1. sRadioOn /\ ~Muted /\ SendFrame(f) /\ UNCHANGED <<config, sAbort, clock>>
    BY <1>1 DEF IndSend
  <2>2. MuteExact /\ sinceReq \in 0..AgeCap
    BY LinkedMeansExact DEF IInv, TypeOK
  <2>3. ~Quiet
    BY <2>1, <2>2 DEF MuteExact, Quiet, ShimAssumption, AgeCap, MillisRange
  <2>4. Contract!IsIndication(f)
    BY DEF Contract!IsIndication, Indication, IndMsgid, RadioLink
  <2>5. ring' = ring \/ (Contract!Sends /\ Contract!IsIndication(Contract!Sent))
    BY <2>1, <2>4, RespondStep DEF IInv, TypeOK
  <2>6. UNCHANGED <<sLinkMode, sRadioOn, sAbort, Quiet>>
    BY <2>1 DEF config, clock, Quiet
  <2> QED
    BY <2>1, <2>3, <2>5, <2>6
    DEF Contract!Indicate, Contract!Next, ContractStep, contractVars
<1>2. ASSUME NEW n \in TextLen, PrintText(n) PROVE ContractStep
  <2>1. ring' = Append(ring, Line(n)) /\ UNCHANGED <<config, sAbort, clock>>
    BY <1>2 DEF PrintText
  <2>2. Contract!Sends /\ Contract!Sent = Line(n)
    BY <2>1 DEF Contract!Sends, Contract!Sent, IInv, TypeOK
  <2>3. Contract!IsText(Contract!Sent)
    BY <2>2 DEF Contract!IsText, Line, Console
  <2> QED
    BY <2>1, <2>2, <2>3
    DEF Contract!Chatter, Contract!Next, ContractStep, config, clock, Quiet
<1>3. CASE WindowAbort
  <2>1. sAbort' = FALSE /\ UNCHANGED <<sLinkMode, sRadioOn, Quiet, ring>>
    BY <1>3 DEF WindowAbort, config, clock, out, Quiet
  <2> QED BY <2>1 DEF Contract!TakeTxAsked, Contract!Next, ContractStep
<1>4. CASE Tick
  <2>1. UNCHANGED <<sLinkMode, sRadioOn, sAbort, ring>>
    BY <1>4 DEF Tick, config, out
  <2>2. Quiet' \in {Quiet, FALSE}
    BY <1>4, QuietOnlyEnds DEF Tick, IInv
  <2> QED
    BY <2>1, <2>2 DEF Contract!QuietEnds, Contract!Next, ContractStep, contractVars
<1>5. CASE UartShift
  <2>1. /\ ring # <<>> /\ ring' = Tail(ring)
        /\ UNCHANGED <<sLinkMode, sRadioOn, sAbort, Quiet>>
    BY <1>5 DEF UartShift, config, clock, Quiet
  <2> QED BY <2>1 DEF Contract!Read, Contract!Next, ContractStep
<1> QED BY <1>1, <1>2, <1>3, <1>4, <1>5 DEF Internal

LEMMA StepContract == ASSUME ShimAssumption, IInv, [Next]_vars PROVE ContractStep
<1>1. CASE \E b \in Byte : Receive(b)
  BY <1>1, ReceiveContract
<1>2. CASE Internal
  BY <1>2, InternalContract
<1>3. CASE UNCHANGED vars
  BY <1>3 DEF vars, config, clock, out, ContractStep, contractVars, Quiet
<1> QED BY <1>1, <1>2, <1>3 DEF Next

\* hciPoll, hciDispatch and hciIndSend implement the contract of the stick, for
\* every buffer size, ring size, window length and clock range.
THEOREM ShimImplementsContract == Spec => ImplementsContract
<1>1. Init => Contract!Init
  BY ShimAssumption
  DEF Init, Contract!Init, Quiet, FactoryLinkMode, AgeCap, MillisRange, ShimAssumption
<1>2. IInv /\ [Next]_vars => [Contract!Next]_(Contract!vars)
  BY ShimAssumption, StepContract DEF ContractStep, contractVars, Contract!vars
<1> QED BY <1>1, <1>2, Invariance, PTL DEF Spec, ImplementsContract, Contract!Spec

\* No indication is written while a request's detect window is open, nor before
\* the first SET_CONFIG: seen through the contract, all that is sent then is
\* answers and console text (hciIndSend against hciPoll).
THEOREM NoIndInDetectWindow == Spec => IndOutsideDetect
<1> DEFINE wrote == Len(ring') > Len(ring) /\ ring'[Len(ring')].msgid = IndMsgid
           ok == sRadioOn /\ sinceReq >= MuteMs
<1>1. ASSUME IInv, [Next]_vars, wrote PROVE ok
  <2>1. ContractStep /\ IInv'
    BY <1>1, ShimAssumption, StepContract, StepInvariant
  <2>2. ring \in Seq(Frame \cup Text) /\ ring' \in Seq(Frame \cup Text) /\ ring' # ring
    BY <1>1, <2>1 DEF IInv, TypeOK
  <2>3. ASSUME NEW q \in Contract!Request, Contract!Serve(q) PROVE FALSE
    <3>1. Contract!Answers(Contract!Sent, q)
      BY <2>2, <2>3 DEF Contract!Serve
    <3> QED
      BY <1>1, <3>1
      DEF Contract!Answers, Contract!Sent, Contract!Request, Contract!SetConfig,
          Contract!Transmits, Contract!Queries, IndMsgid
  <2>4. ~Contract!Read
    BY <1>1, <2>2 DEF Contract!Read
  <2>5. ~Contract!Chatter
    <3>1. SUFFICES ASSUME Contract!Chatter PROVE FALSE
      OBVIOUS
    <3> DEFINE m == ring'[Len(ring')]
    <3>2. m.ep = 0 /\ m.msgid = IndMsgid
      BY <1>1, <3>1 DEF Contract!Chatter, Contract!IsText, Contract!Sent
    <3>3. Len(ring') \in Nat \ {0}
      BY <1>1, <2>2
    <3>4. m \in Frame \cup Text
      BY <2>2, <3>3
    <3> HIDE DEF m
    <3>5. CASE m \in Frame
      <4>1. m.ep \in {DevMgmt, RadioLink}
        BY <3>5 DEF Frame
      <4> QED BY <3>2, <4>1 DEF DevMgmt, RadioLink
    <3>6. CASE m \in Text
      <4>1. m.msgid \in {0}
        BY <3>6 DEF Text
      <4> QED BY <3>2, <4>1 DEF IndMsgid
    <3> QED BY <3>4, <3>5, <3>6
  <2>6. Contract!Indicate
    BY <2>1, <2>2, <2>3, <2>4, <2>5
    DEF ContractStep, contractVars, Contract!Next, Contract!Recognise,
        Contract!QuietEnds, Contract!TakeTxAsked
  <2>7. sRadioOn /\ ~(sinceReq < MuteMs)
    BY <2>6 DEF Contract!Indicate, Quiet
  <2>8. sinceReq \in Nat /\ MuteMs \in Nat
    BY <1>1, ShimAssumption DEF IInv, TypeOK, ShimAssumption, AgeCap, MillisRange
  <2>9. sinceReq >= MuteMs
    BY <2>7, <2>8
  <2> QED BY <2>7, <2>9
<1>2. IInv /\ [Next]_vars => [wrote => ok]_vars
  BY <1>1
<1> QED BY <1>2, Invariance, PTL DEF Spec, IndOutsideDetect
=============================================================================
