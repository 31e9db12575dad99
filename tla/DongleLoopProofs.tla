--------------------------- MODULE DongleLoopProofs ---------------------------
(***************************************************************************)
(* Proofs about DongleLoop: the radio is what each phase of the loop needs *)
(* it to be, and what HciShimProofs shows of the shim in any environment   *)
(* holds of the dongle as a whole.                                         *)
(***************************************************************************)
EXTENDS DongleLoop, TLAPS, SequenceTheorems

\* The shim of the loop, with its theorems.
Shown == INSTANCE HciShimProofs

LoopTyped ==
  /\ pc \in Polling \cup DOMAIN After
           \cup {"receive", "arm", "abort", "listen", "close", "probe start"}
  /\ spent \in 0..(WindowMs + ProbeMs)
  /\ mode \in {"STBY", "RX"}
  /\ direction \in {"READ", "WRITE"} /\ ownDirection \in {"READ", "WRITE"}
  /\ framing \in {"map", "window", "left"}
  /\ rx \in Seq(Byte) /\ fragments \in 0..MaxFragments

\* The window's framing is complete from its opening to its closing, and only
\* then; its receiver stays on.
FramingOwned ==
  /\ InWindow => framing = "window" /\ mode = "RX"
  /\ ~InWindow /\ pc # "close" => framing # "window"

\* Inside the window the FIFO is turned to writing only by a transmission
\* that asks the window to end, and no round begins after one.
WriteAborts ==
  /\ pc \in {"window", "abort"} /\ ~sAbort => direction = "READ"
  /\ pc \in {"listen", "merge"} => direction = "READ"

IInv == Shown!IInv /\ LoopTyped /\ FramingOwned /\ WriteAborts

------------------------------------------------------------------------------
(* The shim with its theorems is the one of the loop.                      *)

LEMMA SameInit == Shim!Init => Shown!Init
BY DEF Shim!Init, Shown!Init, Shim!FactoryLinkMode, Shown!FactoryLinkMode, Shim!AgeCap,
       Shown!AgeCap, Shim!MillisRange, Shown!MillisRange

LEMMA SameTypes == Shown!TypeOK <=> Shim!TypeOK
BY DEF Shim!TypeOK, Shown!TypeOK, Shim!DevMgmt, Shown!DevMgmt, Shim!RadioLink, Shown!RadioLink,
       Shim!AgeCap, Shown!AgeCap, Shim!MillisRange, Shown!MillisRange, Shim!Frame, Shown!Frame,
       Shim!Text, Shown!Text, Shim!Console, Shown!Console

LEMMA SameSendFrame == ASSUME NEW f PROVE Shim!SendFrame(f) <=> Shown!SendFrame(f)
BY DEF Shim!SendFrame, Shown!SendFrame, Shim!Accepted, Shown!Accepted, Shim!WireSize,
       Shown!WireSize, Shim!Console, Shown!Console, Shim!out, Shown!out

LEMMA SameReceive == ASSUME NEW b PROVE Shim!Receive(b) <=> Shown!Receive(b)
BY DEF Shim!Receive, Shown!Receive, Shim!HuntSof, Shown!HuntSof, Shim!TakeCtrl, Shown!TakeCtrl,
       Shim!TakeMsgid, Shown!TakeMsgid, Shim!TakeLen, Shown!TakeLen, Shim!TakePayload,
       Shown!TakePayload, Shim!Dispatch, Shown!Dispatch, Shim!ServeManagement,
       Shown!ServeManagement, Shim!ServeTransmit, Shown!ServeTransmit, Shim!IgnoreRadioLink,
       Shown!IgnoreRadioLink, Shim!ManagementAnswer, Shown!ManagementAnswer,
       Shim!KnownManagement, Shown!KnownManagement, Shim!PingReq, Shown!PingReq,
       Shim!SetConfigReq, Shown!SetConfigReq, Shim!GetConfigReq, Shown!GetConfigReq,
       Shim!DeviceInfoReq, Shown!DeviceInfoReq, Shim!TxReqs, Shown!TxReqs,
       Shim!SendFrame, Shown!SendFrame, Shim!Accepted, Shown!Accepted, Shim!WireSize,
       Shown!WireSize, Shim!Console, Shown!Console, Shim!Response, Shown!Response, Shim!Plus, Shown!Plus, Shim!Age, Shown!Age,
       Shim!AgeCap, Shown!AgeCap, Shim!MillisRange, Shown!MillisRange, Shim!Sof, Shown!Sof,
       Shim!DevMgmt, Shown!DevMgmt, Shim!RadioLink, Shown!RadioLink, Shim!config, Shown!config,
       Shim!clock, Shown!clock, Shim!out, Shown!out

LEMMA SamePrint == ASSUME NEW n PROVE Shim!PrintText(n) <=> Shown!PrintText(n)
BY DEF Shim!PrintText, Shown!PrintText, Shim!Line, Shown!Line, Shim!Console, Shown!Console,
       Shim!parser, Shown!parser, Shim!config, Shown!config, Shim!clock, Shown!clock

LEMMA SameIndSend == ASSUME NEW n PROVE Shim!IndSend(n) <=> Shown!IndSend(n)
<1>1. Shim!Indication(n) = Shown!Indication(n) /\ (Shim!Muted <=> Shown!Muted)
  BY DEF Shim!Muted, Shown!Muted, Shim!Negative, Shown!Negative, Shim!Minus, Shown!Minus,
         Shim!MillisRange, Shown!MillisRange, Shim!Indication, Shown!Indication,
         Shim!RadioLink, Shown!RadioLink, Shim!IndMsgid, Shown!IndMsgid
<1> QED
  BY <1>1, SameSendFrame
  DEF Shim!IndSend, Shown!IndSend, Shim!parser, Shown!parser, Shim!config, Shown!config,
      Shim!clock, Shown!clock

LEMMA SameUartShift == Shim!UartShift <=> Shown!UartShift
BY DEF Shim!UartShift, Shown!UartShift, Shim!WireSize, Shown!WireSize, Shim!Console,
       Shown!Console, Shim!parser, Shown!parser, Shim!config, Shown!config, Shim!clock,
       Shown!clock

LEMMA SameTick == Shim!Tick <=> Shown!Tick
BY DEF Shim!Tick, Shown!Tick, Shim!Plus, Shown!Plus, Shim!Age, Shown!Age, Shim!AgeCap,
       Shown!AgeCap, Shim!MillisRange, Shown!MillisRange, Shim!parser, Shown!parser,
       Shim!config, Shown!config, Shim!out, Shown!out

LEMMA SameWindowAbort == Shim!WindowAbort <=> Shown!WindowAbort
BY DEF Shim!WindowAbort, Shown!WindowAbort, Shim!parser, Shown!parser, Shim!config,
       Shown!config, Shim!clock, Shown!clock, Shim!out, Shown!out

LEMMA SameInternal == Shim!Internal <=> Shown!Internal
BY SamePrint, SameIndSend, SameUartShift, SameTick, SameWindowAbort
DEF Shim!Internal, Shown!Internal

LEMMA SameVars == UNCHANGED Shim!vars <=> UNCHANGED Shown!vars
BY DEF Shim!vars, Shown!vars, Shim!parser, Shown!parser, Shim!config, Shown!config,
       Shim!clock, Shown!clock, Shim!out, Shown!out

LEMMA SameStep == [Shim!Next]_(Shim!vars) <=> [Shown!Next]_(Shown!vars)
<1>1. (\E b \in Byte : Shim!Receive(b)) <=> (\E b \in Byte : Shown!Receive(b))
  BY SameReceive
<1> QED BY <1>1, SameInternal, SameVars DEF Shim!Next, Shown!Next

LEMMA LoopConstants == WindowMs \in Nat /\ ProbeMs \in Nat /\ MaxFragments \in Nat
BY Zenon, LoopAssumption DEF LoopAssumption

LEMMA ShimConstants == Shown!ShimAssumption
BY LoopAssumption DEF LoopAssumption, Shim!ShimAssumption, Shown!ShimAssumption
------------------------------------------------------------------------------
(* What the loop makes of the shim.                                        *)

\* Bytes come from the daemon's requests and fragments.
LEMMA HeadIsByte ==
  ASSUME rx \in Seq(Byte), rx # <<>>
  PROVE  Head(rx) \in Byte /\ Tail(rx) \in Seq(Byte)
OBVIOUS

\* Receiving a byte can raise the abort flag, and completing a transmit
\* request does.
LEMMA ReceiveAborts ==
  ASSUME NEW b, Shim!Receive(b)
  PROVE  /\ sAbort' = sAbort \/ sAbort' = TRUE
         /\ Transmits(b) => sAbort' = TRUE
<1> DEFINE Flag == sAbort' = sAbort \/ sAbort' = TRUE
<1>1. ASSUME NEW plen, NEW m, Shim!Dispatch(plen, m)
      PROVE  /\ Flag
             /\ pCtrl = Shim!RadioLink /\ pMsgid \in Shim!TxReqs => sAbort' = TRUE
  BY <1>1
  DEF Shim!Dispatch, Shim!ServeManagement, Shim!ServeTransmit, Shim!IgnoreRadioLink,
      Shim!DevMgmt, Shim!RadioLink
<1>2. CASE Shim!HuntSof(b) \/ Shim!TakeCtrl(b) \/ Shim!TakeMsgid(b)
  BY <1>2 DEF Shim!HuntSof, Shim!TakeCtrl, Shim!TakeMsgid, Transmits, Completes
<1>3. CASE Shim!TakeLen(b)
  <2>1. pState = "LEN"
    BY <1>3 DEF Shim!TakeLen
  <2>2. (b = 0 /\ Shim!Dispatch(0, pThird)) \/ (b # 0 /\ sAbort' = sAbort)
    BY <1>3 DEF Shim!TakeLen
  <2> QED BY <1>1, <2>1, <2>2 DEF Transmits, Completes
<1>4. CASE Shim!TakePayload(b)
  <2>1. pState = "PAYLOAD"
    BY <1>4 DEF Shim!TakePayload
  <2>2. \/ pIdx + 1 >= pLen /\ Shim!Dispatch(pLen, pThird')
        \/ ~(pIdx + 1 >= pLen) /\ sAbort' = sAbort
    BY <1>4 DEF Shim!TakePayload
  <2> QED BY <1>1, <2>1, <2>2 DEF Transmits, Completes
<1> QED BY <1>2, <1>3, <1>4 DEF Shim!Receive

\* Every step of the loop and of the world around it is one of the shim, or
\* none of its business.
LEMMA ShimStep ==
  ASSUME LoopTyped, [Next]_vars
  PROVE  [Shim!Next]_(Shim!vars)
<1> USE DEF Shim!Next, Shim!Internal
<1>1. ASSUME UNCHANGED shimVars PROVE UNCHANGED Shim!vars
  BY <1>1 DEF shimVars, Shim!vars, Shim!parser, Shim!config, Shim!clock, Shim!out
<1>2. CASE PollByte
  BY <1>2, HeadIsByte DEF PollByte, LoopTyped
<1>3. CASE Turn \/ PollRx \/ OpenWindow \/ PollDone \/ CloseWindow \/ StartProbe \/ ProbeEnds
  BY <1>1, <1>3 DEF Turn, PollRx, OpenWindow, PollDone, CloseWindow, StartProbe, ProbeEnds
<1>4. CASE CheckAbort
  BY <1>1, <1>4 DEF CheckAbort
<1>5. CASE Listen \/ PrintLine
  BY <1>1, <1>5 DEF Listen, PrintLine
<1>6. CASE Tick \/ UartShift
  BY <1>6 DEF Tick, UartShift
<1>7. CASE WriteRequest \/ WriteFragment
  BY <1>1, <1>7 DEF WriteRequest, WriteFragment, Write
<1>8. CASE UNCHANGED vars
  BY <1>1, <1>8 DEF vars
<1> QED BY <1>2, <1>3, <1>4, <1>5, <1>6, <1>7, <1>8 DEF Next, Loop

------------------------------------------------------------------------------
(* The invariant.                                                          *)

LEMMA InitInvariant == ASSUME Init PROVE IInv
<1>1. Shown!IInv
  BY SameInit, ShimConstants, Shown!InitInvariant DEF Init
<1>2. LoopTyped
  BY LoopConstants DEF Init, LoopTyped, Polling, After
<1>3. FramingOwned /\ WriteAborts
  BY DEF Init, FramingOwned, WriteAborts, InWindow
<1> QED BY <1>1, <1>2, <1>3 DEF IInv

\* The time of a phase and the number of fragments stay within their bounds.
LEMMA SpentBounded ==
  /\ 0 \in 0..(WindowMs + ProbeMs)
  /\ \A t \in 0..(WindowMs + ProbeMs) :
       (IF t < WindowMs + ProbeMs THEN t + 1 ELSE t) \in 0..(WindowMs + ProbeMs)
BY LoopConstants

LEMMA FragmentsBounded ==
  \A n \in 0..MaxFragments : n < MaxFragments => n + 1 \in 0..MaxFragments
BY LoopConstants

\* After a line the loop polls the daemon's line again, inside the window or
\* outside as before.
LEMMA PrintsOn ==
  ASSUME PrintLine
  PROVE  /\ (pc \in {"setup", "report"} /\ pc' = "top") \/ (pc = "merge" /\ pc' = "window")
         /\ pc' \in Polling
<1>1. (pc \in {"setup", "report"} /\ pc' = "top") \/ (pc = "merge" /\ pc' = "window")
  BY DEF PrintLine, After
<1> QED BY <1>1 DEF Polling

\* The loop's own variables keep their types.
LEMMA StepTyped == ASSUME LoopTyped, [Next]_vars PROVE LoopTyped'
<1> USE DEF LoopTyped, Polling, After
<1>1. CASE PollByte
  <2>1. rx' \in Seq(Byte)
    BY <1>1, HeadIsByte DEF PollByte
  <2> QED BY <1>1, <2>1 DEF PollByte
<1>2. CASE Turn \/ PollRx \/ PollDone \/ CheckAbort \/ Listen \/ ProbeEnds
  BY <1>2 DEF Turn, PollRx, PollDone, CheckAbort, Listen, ProbeEnds, radio
<1>3. CASE OpenWindow \/ CloseWindow \/ StartProbe
  BY <1>3, SpentBounded DEF OpenWindow, CloseWindow, StartProbe
<1>4. CASE Tick
  <2>1. spent' \in 0..(WindowMs + ProbeMs)
    BY Zenon, <1>4, SpentBounded DEF Tick
  <2> QED BY <1>4, <2>1 DEF Tick, radio
<1>5. CASE UartShift
  BY <1>5 DEF UartShift, radio
<1>6. CASE WriteRequest
  <2>1. rx' \in Seq(Byte) /\ UNCHANGED <<pc, spent, radio, fragments>>
    BY <1>6, LoopAssumption DEF WriteRequest, Write, LoopAssumption
  <2> QED BY <2>1 DEF radio
<1>7. CASE WriteFragment
  <2>1. rx' \in Seq(Byte) /\ UNCHANGED <<pc, spent, radio>>
    BY <1>7, LoopAssumption DEF WriteFragment, Write, LoopAssumption
  <2>2. fragments' \in 0..MaxFragments
    BY Zenon, <1>7, FragmentsBounded DEF WriteFragment
  <2> QED BY <2>1, <2>2 DEF radio
<1>8. CASE PrintLine
  <2>1. pc' \in Polling
    BY Zenon, <1>8, PrintsOn
  <2> QED BY <1>8, <2>1 DEF PrintLine, radio
<1>9. CASE UNCHANGED vars
  BY <1>9 DEF vars, radio
<1> QED BY <1>1, <1>2, <1>3, <1>4, <1>5, <1>6, <1>7, <1>8, <1>9 DEF Next, Loop

\* The radio keeps what the phases of the loop need.
LEMMA StepRadio ==
  ASSUME LoopTyped, FramingOwned, WriteAborts, sAbort \in BOOLEAN, [Next]_vars
  PROVE  FramingOwned' /\ WriteAborts'
<1> USE DEF FramingOwned, WriteAborts, InWindow
<1>1. CASE PollByte
  <2>1. pc' = pc /\ pc \in Polling /\ framing' = framing
    BY <1>1 DEF PollByte
  <2>2. \/ Transmits(Head(rx)) /\ mode' = "RX" /\ direction' = "WRITE"
        \/ ~Transmits(Head(rx)) /\ UNCHANGED <<mode, direction>>
    BY <1>1 DEF PollByte
  <2>3. /\ sAbort' = sAbort \/ sAbort' = TRUE
        /\ Transmits(Head(rx)) => sAbort' = TRUE
    BY <1>1, ReceiveAborts DEF PollByte
  <2>4. FramingOwned'
    BY <2>1, <2>2
  <2>5. WriteAborts'
    BY <2>1, <2>2, <2>3 DEF Polling
  <2> QED BY <2>4, <2>5
<1>2. CASE CheckAbort
  <2>1. pc = "abort" /\ UNCHANGED radio
    BY <1>2 DEF CheckAbort
  <2>2. pc' = "close" \/ (pc' = "listen" /\ ~sAbort)
    BY <1>2 DEF CheckAbort
  <2> QED BY <2>1, <2>2 DEF radio
<1>3. CASE Listen
  <2>1. sAbort' = sAbort
    BY <1>3 DEF Listen, Shim!IndSend, shimVars
  <2> QED BY <1>3, <2>1 DEF Listen, radio
<1>4. CASE Turn \/ PollRx \/ PollDone \/ ProbeEnds
  BY <1>4 DEF Turn, PollRx, PollDone, ProbeEnds, radio, shimVars
<1>5. CASE OpenWindow \/ CloseWindow \/ StartProbe
  BY <1>5 DEF OpenWindow, CloseWindow, StartProbe, shimVars
<1>6. CASE Tick \/ UartShift
  <2>1. sAbort' = sAbort
    BY <1>6 DEF Tick, UartShift, Shim!Tick, Shim!UartShift
  <2> QED BY <1>6, <2>1 DEF Tick, UartShift, radio
<1>7. CASE WriteRequest \/ WriteFragment
  BY <1>7 DEF WriteRequest, WriteFragment, Write, radio, shimVars
<1>8. CASE PrintLine
  <2>1. sAbort' = sAbort /\ UNCHANGED radio
    BY <1>8 DEF PrintLine, Shim!PrintText
  <2> QED BY <1>8, <2>1, PrintsOn DEF radio
<1>9. CASE UNCHANGED vars
  BY <1>9 DEF vars, radio, shimVars
<1> QED BY <1>1, <1>2, <1>3, <1>4, <1>5, <1>6, <1>7, <1>8, <1>9 DEF Next, Loop

LEMMA StepInvariant == ASSUME IInv, [Next]_vars PROVE IInv'
<1> USE DEF IInv
<1>1. Shown!IInv'
  BY ShimStep, SameStep, ShimConstants, Shown!StepInvariant
<1>2. sAbort \in BOOLEAN
  BY DEF Shown!IInv, Shown!TypeOK
<1> QED BY <1>1, <1>2, StepTyped, StepRadio

THEOREM Invariance == Spec => []IInv
<1>1. Init => IInv
  BY InitInvariant
<1>2. IInv /\ [Next]_vars => IInv'
  BY StepInvariant
<1> QED BY <1>1, <1>2, PTL DEF Spec

\* The loop's variables keep their types, and so do the shim's under it, for
\* any requests and any fragments of them the daemon writes.
THEOREM LoopTypeCorrect == Spec => []TypeOK
<1>1. IInv => TypeOK
  <2>1. Shown!IInv => Shim!TypeOK
    BY SameTypes DEF Shown!IInv
  <2> QED BY <2>1 DEF IInv, LoopTyped, TypeOK
<1> QED BY <1>1, Invariance, PTL

\* Every round of the receive window finds the receiver on, in the window's
\* framing, and the FIFO turned to reading, whenever in the window and however
\* often the daemon had something sent (main.cpp:1978 tells of the failure).
THEOREM EveryRoundReceives == Spec => []WindowReceives
<1>1. IInv => WindowReceives
  BY DEF IInv, FramingOwned, WriteAborts, InWindow, WindowReceives
<1> QED BY <1>1, Invariance, PTL

\* However a window ends, pollRx and the probe find the register map's packet
\* length and sync size when it has, though not its packet type.
THEOREM LengthComesBack == Spec => []LengthRestored
<1>1. IInv => LengthRestored
  BY DEF IInv, FramingOwned, LengthRestored
<1> QED BY <1>1, Invariance, PTL

------------------------------------------------------------------------------
(* The dongle as its daemon sees it.                                       *)

\* The loop, which calls the shim in three places, drives it no otherwise than
\* HciShim allows: bytes in order, indications through its gate, the abort flag
\* through hciWindowAbort.
THEOREM LoopDrivesShim == Spec => DrivesShim
<1>1. Init => Shim!Init
  BY DEF Init
<1>2. IInv /\ [Next]_vars => [Shim!Next]_(Shim!vars)
  BY ShimStep DEF IInv
<1> QED BY <1>1, <1>2, Invariance, PTL DEF Spec, DrivesShim, Shim!Spec

\* With LoopDrivesShim, what was proved of the shim holds in the loop.
LEMMA ShownInLoop == Spec => Shown!Spec
<1>1. Shim!Init => Shown!Init
  BY SameInit
<1>2. [Shim!Next]_(Shim!vars) => [Shown!Next]_(Shown!vars)
  BY SameStep
<1> QED BY <1>1, <1>2, LoopDrivesShim, PTL DEF DrivesShim, Shim!Spec, Shown!Spec

\* The whole dongle - loop, window, probe, serial line with its console text,
\* and shim - is the stick of Im871aContract.
THEOREM DongleIsTheStick == Spec => Shown!ImplementsContract
BY ShownInLoop, ShimConstants, Shown!ShimImplementsContract, PTL

\* No indication is written to the daemon in the detect window of a request, or
\* before the radio is configured, wherever in the loop the request is read.
THEOREM DongleQuietInDetect == Spec => Shown!IndOutsideDetect
BY ShownInLoop, ShimConstants, Shown!NoIndInDetectWindow, PTL
=============================================================================
