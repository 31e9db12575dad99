------------------------------- MODULE HciShim -------------------------------
(***************************************************************************)
(* The iM871A emulation of the dongle: the serial request parser, the      *)
(* request dispatcher and the frame emitter of im871a_hci.cpp, and the     *)
(* serial transmit ring, which the frames share with the console text the  *)
(* rest of the firmware prints.                                            *)
(*                                                                         *)
(* The module is written against the most general environment: any byte    *)
(* may arrive at any time (a request of the host daemon, a fragment of     *)
(* one, line noise), the receiver may offer an indication (IND) at any     *)
(* time, the firmware may print a line at any time, and the millisecond    *)
(* clock may advance between any two steps.                                *)
(* DongleLoop.tla puts the shim into the loop that really drives it.       *)
(***************************************************************************)
EXTENDS Integers, Sequences

CONSTANTS
  Byte,        \* the values of a serial byte (0..255 in the code)
  MaxPayload,  \* sizeof(pBuf) and the payload limit of the emitter (96)
  TxRing,      \* bytes the serial transmit ring holds (1024)
  Half,        \* half the range of millis() (2^31)
  MuteMs,      \* length of the detect window in which INDs are held (400)
  TxMs,        \* longest time a radio transmission blocks the shim
  IndLen,      \* content lengths of the INDs the receiver offers
  TextLen      \* lengths of the lines the firmware prints

Sof       == 165       \* 0xA5
DevMgmt   == 1         \* endpoint nibbles the parser accepts
RadioLink == 2
Console   == 0         \* marks text in the ring: it is no frame at all
IndMsgid  == 3         \* WMBUSMSG_IND on the radio-link endpoint
FactoryLinkMode == 10  \* CT_N1A

ASSUME ShimAssumption ==
  /\ Byte \subseteq 0..255
  /\ MaxPayload \in 8..255
  /\ TxRing \in Nat
  /\ Half \in Nat /\ MuteMs \in 1..(Half - 1) /\ TxMs \in 0..(Half - 1)
  /\ IndLen \subseteq Nat /\ TextLen \subseteq Nat

VARIABLES
  pState, pCtrl, pMsgid, pLen,  \* parser position and the header so far
  pIdx, pThird,                 \* payload bytes stored, and the byte at pBuf[2]
  sLinkMode, sRadioOn,          \* radio configuration kept for the daemon
  sAbort,                       \* a TX request asks the RX window to end
  now, sMuteUntil,              \* millis() and the end of the detect window
  ring, used,                   \* frames and lines in the transmit ring, and their bytes
  sinceReq                      \* history: ms since the last request header

parser == <<pState, pCtrl, pMsgid, pLen, pIdx, pThird>>
config == <<sLinkMode, sRadioOn>>
clock  == <<now, sMuteUntil, sinceReq>>
out    == <<ring, used>>
vars   == <<parser, config, sAbort, clock, out>>

------------------------------------------------------------------------------
(* millis() is a uint32_t: sums wrap, and a difference is read as signed.  *)

MillisRange == 2 * Half
Plus(t, d)  == IF t + d < MillisRange THEN t + d ELSE t + d - MillisRange
Minus(a, b) == IF a >= b THEN a - b ELSE a - b + MillisRange
Negative(x) == x >= Half

\* The history variable stops counting at AgeCap, which also stands for
\* "no request since boot".
AgeCap == MillisRange
Age(d) == IF sinceReq + d < AgeCap THEN sinceReq + d ELSE AgeCap

\* Mutant of Muted: the end compared as it stands, which fails at the wrap.
MutedUnwrapped == now < sMuteUntil

Muted == Negative(Minus(now, sMuteUntil))

------------------------------------------------------------------------------
(* Frames to the daemon: start byte, control, msgid and length, the        *)
(* payload, an RSSI byte on INDs, and two CRC bytes.                       *)

Frame == [ep : {DevMgmt, RadioLink}, msgid : 0..255, len : 0..MaxPayload,
          rssi : BOOLEAN]

\* A line of console text goes into the same ring as it is.
Text == [ep : {Console}, msgid : {0}, len : TextLen, rssi : {FALSE}]
Line(n) == [ep |-> Console, msgid |-> 0, len |-> n, rssi |-> FALSE]

Response(ep, msgid, len) == [ep |-> ep, msgid |-> msgid, len |-> len, rssi |-> FALSE]
Indication(len) == [ep |-> RadioLink, msgid |-> IndMsgid, len |-> len, rssi |-> TRUE]

WireSize(f) ==
  IF f.ep = Console THEN f.len ELSE 4 + f.len + (IF f.rssi THEN 1 ELSE 0) + 2

\* hciSendFrame never waits: a frame too long, or one the ring has no room
\* for, is dropped, and no caller learns of it.
Accepted(f) == f.len <= MaxPayload /\ used + WireSize(f) <= TxRing

SendFrame(f) ==
  IF Accepted(f)
  THEN ring' = Append(ring, f) /\ used' = used + WireSize(f)
  ELSE UNCHANGED out

------------------------------------------------------------------------------
(* hciDispatch.  Answer maps a management request to the msgid and the     *)
(* payload length of its response.                                         *)

PingReq == 1      SetConfigReq == 3      GetConfigReq == 5      DeviceInfoReq == 15
TxReqs == {1, 4}  \* WMBUSMSG_REQ and DATA_REQ

ManagementAnswer(msgid, plen) ==
  CASE msgid = PingReq       -> <<2, 0>>
    [] msgid = DeviceInfoReq -> <<16, 8>>
    [] msgid = GetConfigReq  -> <<6, 8>>
    [] msgid = SetConfigReq  -> <<4, plen>>

KnownManagement == {PingReq, DeviceInfoReq, GetConfigReq, SetConfigReq}

\* A management request: unknown ones are ignored; SET_CONFIG takes the link
\* mode from the third payload byte and switches the INDs on.
ServeManagement(msgid, plen, linkMode) ==
  /\ pCtrl = DevMgmt
  /\ IF msgid \in KnownManagement
     THEN LET a == ManagementAnswer(msgid, plen)
          IN  SendFrame(Response(DevMgmt, a[1], a[2]))
     ELSE UNCHANGED out
  /\ sLinkMode' = IF msgid = SetConfigReq /\ plen >= 3 THEN linkMode ELSE sLinkMode
  /\ sRadioOn' = (sRadioOn \/ msgid = SetConfigReq)
  /\ UNCHANGED <<sAbort, clock>>

\* Mutant of ServeTransmit: the receive window is not told.
ServeTransmitUnflagged(msgid) ==
  /\ pCtrl = RadioLink
  /\ msgid \in TxReqs
  /\ \E d \in 0..TxMs : now' = Plus(now, d) /\ sinceReq' = Age(d)
  /\ SendFrame(Response(RadioLink, IF msgid = 1 THEN 2 ELSE 5, 0))
  /\ UNCHANGED <<config, sAbort, sMuteUntil>>

\* A transmit request raises the abort flag, blocks for the time of the
\* transmission, and is answered whether or not the chip reported TX_DONE.
ServeTransmit(msgid) ==
  /\ pCtrl = RadioLink
  /\ msgid \in TxReqs
  /\ sAbort' = TRUE
  /\ \E d \in 0..TxMs : now' = Plus(now, d) /\ sinceReq' = Age(d)
  /\ SendFrame(Response(RadioLink, IF msgid = 1 THEN 2 ELSE 5, 0))
  /\ UNCHANGED <<config, sMuteUntil>>

IgnoreRadioLink(msgid) ==
  /\ pCtrl = RadioLink
  /\ msgid \notin TxReqs
  /\ UNCHANGED <<sAbort, config, clock, out>>

Dispatch(plen, linkMode) ==
  /\ pState' = "SOF"
  /\ \/ ServeManagement(pMsgid, plen, linkMode)
     \/ ServeTransmit(pMsgid)
     \/ IgnoreRadioLink(pMsgid)

------------------------------------------------------------------------------
(* hciPoll, one received byte at a time.                                   *)

HuntSof(b) ==
  /\ pState = "SOF"
  /\ pState' = IF b = Sof THEN "CTRL" ELSE "SOF"
  /\ UNCHANGED <<pCtrl, pMsgid, pLen, pIdx, pThird, config, sAbort, clock, out>>

\* Mutant of TakeCtrl: the header does not open the detect window.
TakeCtrlUnmuted(b) ==
  /\ pState = "CTRL"
  /\ IF b \in {DevMgmt, RadioLink}
     THEN pState' = "MSGID" /\ pCtrl' = b /\ sinceReq' = 0
     ELSE pState' = "SOF" /\ UNCHANGED <<pCtrl, sinceReq>>
  /\ UNCHANGED <<pMsgid, pLen, pIdx, pThird, config, sAbort, now, sMuteUntil, out>>

\* Only the two endpoints the daemon addresses are accepted.  Accepting one
\* opens the detect window.  A rejected byte is consumed, even a start byte.
TakeCtrl(b) ==
  /\ pState = "CTRL"
  /\ IF b \in {DevMgmt, RadioLink}
     THEN /\ pState' = "MSGID"
          /\ pCtrl' = b
          /\ sMuteUntil' = Plus(now, MuteMs)
          /\ sinceReq' = 0
     ELSE /\ pState' = "SOF"
          /\ UNCHANGED <<pCtrl, sMuteUntil, sinceReq>>
  /\ UNCHANGED <<pMsgid, pLen, pIdx, pThird, config, sAbort, now, out>>

TakeMsgid(b) ==
  /\ pState = "MSGID"
  /\ pState' = "LEN"
  /\ pMsgid' = b
  /\ UNCHANGED <<pCtrl, pLen, pIdx, pThird, config, sAbort, clock, out>>

\* Mutant of TakeLen: any length is taken for one the buffer holds.
TakeLenUnlimited(b) ==
  /\ pState = "LEN"
  /\ pLen' = b
  /\ pIdx' = 0
  /\ UNCHANGED <<pCtrl, pMsgid, pThird>>
  /\ \/ b = 0 /\ Dispatch(0, pThird)
     \/ /\ b # 0
        /\ pState' = "PAYLOAD"
        /\ UNCHANGED <<config, sAbort, clock, out>>

\* A length the payload buffer cannot hold ends the frame; an empty request
\* is complete; otherwise the payload follows.
TakeLen(b) ==
  /\ pState = "LEN"
  /\ pLen' = b
  /\ pIdx' = 0
  /\ UNCHANGED <<pCtrl, pMsgid, pThird>>
  /\ \/ b = 0 /\ Dispatch(0, pThird)
     \/ /\ b # 0
        /\ pState' = IF b > MaxPayload THEN "SOF" ELSE "PAYLOAD"
        /\ UNCHANGED <<config, sAbort, clock, out>>

\* Mutant of TakePayload: compared before it counts, one byte too late.
TakePayloadLate(b) ==
  /\ pState = "PAYLOAD"
  /\ pIdx' = pIdx + 1
  /\ pThird' = IF pIdx = 2 THEN b ELSE pThird
  /\ UNCHANGED <<pCtrl, pMsgid, pLen>>
  /\ IF pIdx >= pLen
     THEN Dispatch(pLen, pThird')
     ELSE UNCHANGED <<pState, config, sAbort, clock, out>>

\* Mutant of TakePayload: the bytes are not counted.
TakePayloadUncounted(b) ==
  /\ pState = "PAYLOAD"
  /\ pThird' = IF pIdx = 2 THEN b ELSE pThird
  /\ UNCHANGED <<pCtrl, pMsgid, pLen, pIdx>>
  /\ IF pIdx + 1 >= pLen
     THEN Dispatch(pLen, pThird')
     ELSE UNCHANGED <<pState, config, sAbort, clock, out>>

TakePayload(b) ==
  /\ pState = "PAYLOAD"
  /\ pIdx' = pIdx + 1
  /\ pThird' = IF pIdx = 2 THEN b ELSE pThird
  /\ UNCHANGED <<pCtrl, pMsgid, pLen>>
  /\ IF pIdx + 1 >= pLen
     THEN Dispatch(pLen, pThird')
     ELSE UNCHANGED <<pState, config, sAbort, clock, out>>

Receive(b) ==
  \/ HuntSof(b)
  \/ TakeCtrl(b)
  \/ TakeMsgid(b)
  \/ TakeLen(b)
  \/ TakePayload(b)

------------------------------------------------------------------------------
(* The rest of the shim's interface, and its environment.                  *)

\* hciIndSend: silent until configured, and inside the detect window.
IndSend(len) ==
  /\ sRadioOn
  /\ ~Muted
  /\ SendFrame(Indication(len))
  /\ UNCHANGED <<parser, config, sAbort, clock>>

\* Serial.print: the thread waits until the ring has room for the line.  No
\* gate of the shim holds it back.
PrintText(n) ==
  /\ used + n <= TxRing
  /\ ring' = Append(ring, Line(n))
  /\ used' = used + n
  /\ UNCHANGED <<parser, config, sAbort, clock>>

\* hciWindowAbort: the receive window reads the abort flag and clears it.
WindowAbort ==
  /\ sAbort
  /\ sAbort' = FALSE
  /\ UNCHANGED <<parser, config, clock, out>>

\* The clock advances.
Tick ==
  /\ now' = Plus(now, 1)
  /\ sinceReq' = Age(1)
  /\ UNCHANGED <<parser, config, sAbort, sMuteUntil, out>>

\* The UART has shifted the oldest frame or line out to the daemon.
UartShift ==
  /\ ring # <<>>
  /\ ring' = Tail(ring)
  /\ used' = used - WireSize(Head(ring))
  /\ UNCHANGED <<parser, config, sAbort, clock>>

Init ==
  /\ pState = "SOF" /\ pCtrl = 0 /\ pMsgid = 0 /\ pLen = 0 /\ pIdx = 0 /\ pThird = 0
  /\ sLinkMode = FactoryLinkMode /\ sRadioOn = FALSE /\ sAbort = FALSE
  /\ now = 0 /\ sMuteUntil = 0 /\ sinceReq = AgeCap
  /\ ring = <<>> /\ used = 0

Internal ==
  \/ \E len \in IndLen : IndSend(len)
  \/ \E n \in TextLen : PrintText(n)
  \/ WindowAbort
  \/ Tick
  \/ UartShift

Next == (\E b \in Byte : Receive(b)) \/ Internal

Spec == Init /\ [][Next]_vars

------------------------------------------------------------------------------
(* Properties.                                                             *)

TypeOK ==
  /\ pState \in {"SOF", "CTRL", "MSGID", "LEN", "PAYLOAD"}
  /\ pCtrl \in {0, DevMgmt, RadioLink}
  /\ pMsgid \in 0..255
  /\ pLen \in 0..255
  /\ pIdx \in 0..MaxPayload /\ pThird \in 0..255
  /\ sLinkMode \in 0..255
  /\ sRadioOn \in BOOLEAN /\ sAbort \in BOOLEAN
  /\ now \in 0..(MillisRange - 1)
  /\ sMuteUntil \in 0..(MillisRange - 1)
  /\ sinceReq \in 0..AgeCap
  /\ ring \in Seq(Frame \cup Text)
  /\ used \in Int

\* The payload index never runs past the length the header announced, and
\* that length never past the buffer (hciPoll stores before it compares).
PayloadFits ==
  /\ pState = "PAYLOAD" => pIdx < pLen /\ pLen <= MaxPayload
  /\ pState \in {"MSGID", "LEN", "PAYLOAD"} => pCtrl \in {DevMgmt, RadioLink}

\* The detect window opens with the header of a request and lasts MuteMs:
\* within Half + MuteMs of the last request, INDs are held exactly then.
MuteExact ==
  sinceReq < Half + MuteMs => (Muted <=> sinceReq < MuteMs)

\* No step writes an IND while the detect window of a request is open.
IndOutsideDetect ==
  [][ (Len(ring') > Len(ring) /\ ring'[Len(ring')].msgid = IndMsgid)
        => sRadioOn /\ sinceReq >= MuteMs ]_vars

\* Seen from the daemon the shim is the stick of Im871aContract: the parser
\* and the clock are hidden, and a request is in its quiet period for MuteMs
\* after its header.  Console text is text there too.
Quiet == sinceReq < MuteMs

Contract == INSTANCE Im871aContract
              WITH linkMode <- sLinkMode, configured <- sRadioOn,
                   txAsked <- sAbort, quiet <- Quiet, sent <- ring,
                   LinkModes <- 0..255

\* hciPoll, hciDispatch and hciIndSend together implement that contract.
ImplementsContract == Contract!Spec
=============================================================================
