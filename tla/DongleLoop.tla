------------------------------ MODULE DongleLoop ------------------------------
(***************************************************************************)
(* The im871a firmware: the main loop with its receive window and probe,   *)
(* the serial line to the daemon, and the shim of HciShim.tla, which the   *)
(* loop calls in three places.  Everything runs in one thread; the daemon, *)
(* the UART and the clock run beside it.                                   *)
(*                                                                         *)
(* Of the radio this module keeps what the loop and hciDoTx pass to each   *)
(* other: the chip's mode, the direction of its FIFO, and the framing in   *)
(* the packet registers: the register map's, the window's, or what the     *)
(* window leaves behind, which has the map's length and sync size (0x46,   *)
(* 0x3C) but still the packet type 0x45 of the window.                     *)
(***************************************************************************)
EXTENDS Integers, Sequences

CONSTANTS
  Byte, MaxPayload, TxRing, Half, MuteMs, TxMs, IndLen, TextLen,  \* as in HciShim
  WindowMs, ProbeMs,  \* lengths of the receive window and of the probe
  HostRequest, Fragment,  \* byte sequences a daemon sends: whole requests, and
                      \* what a daemon that dies while writing leaves behind
  Detect,             \* the request a starting daemon sends until answered
  MaxFragments        \* bound on the fragments

VARIABLES
  pState, pCtrl, pMsgid, pLen, pIdx, pThird, sLinkMode, sRadioOn, sAbort,
  now, sMuteUntil, ring, used, sinceReq,  \* the shim
  pc,              \* where the loop stands
  spent,           \* ms since the window or the probe began
  mode, direction, framing,  \* radio
  ownDirection,    \* FIFO direction saved when the window opened
  rx,              \* bytes the UART has received for hciPoll
  fragments        \* fragments sent so far

shimVars == <<pState, pCtrl, pMsgid, pLen, pIdx, pThird, sLinkMode, sRadioOn,
              sAbort, now, sMuteUntil, ring, used, sinceReq>>
radio == <<mode, direction, framing, ownDirection>>
vars  == <<shimVars, pc, spent, radio, rx, fragments>>

Shim == INSTANCE HciShim

ASSUME LoopAssumption ==
  /\ Shim!ShimAssumption
  /\ WindowMs \in Nat \ {0} /\ ProbeMs \in Nat \ {0} /\ MaxFragments \in Nat
  /\ Detect \in HostRequest
  /\ \A q \in HostRequest \cup Fragment : q \in Seq(Byte)

\* Where hciPoll is called: once per turn of the loop, in every round of the
\* window, in every round of the probe.
Polling == {"top", "window", "probe"}

Init ==
  /\ Shim!Init
  /\ pc = "setup" /\ spent = 0
  /\ mode = "RX" /\ direction = "READ" /\ framing = "map" /\ ownDirection = "READ"
  /\ rx = <<>> /\ fragments = 0

------------------------------------------------------------------------------
(* Console text.  Its printing blocks until the ring has room.             *)

\* Where the loop prints, and how it goes on: setup tells how the radio
\* came up, pollRx tells of every packet, asmMerge of every merge.
After == [setup |-> "top", report |-> "top", merge |-> "window"]

PrintLine ==
  /\ pc \in DOMAIN After
  /\ \E n \in TextLen : Shim!PrintText(n)
  /\ pc' = After[pc]
  /\ UNCHANGED <<spent, radio, rx, fragments>>

------------------------------------------------------------------------------
(* hciPoll, byte by byte.                                                  *)

\* The byte completes a request of the daemon with this endpoint and msgid.
Completes(b) ==
  \/ pState = "LEN" /\ b = 0
  \/ pState = "PAYLOAD" /\ pIdx + 1 >= pLen
Transmits(b) == Completes(b) /\ pCtrl = Shim!RadioLink /\ pMsgid \in Shim!TxReqs

InWindow == pc \in {"window", "abort", "listen", "merge"}

\* Serving a transmit request leaves the framing as it was, the receiver on,
\* and the FIFO turned to writing (TxChain.tla).
PollByte ==
  /\ pc \in Polling /\ rx # <<>>
  /\ Shim!Receive(Head(rx))
  /\ rx' = Tail(rx)
  /\ IF Transmits(Head(rx))
     THEN /\ mode' = "RX" /\ direction' = "WRITE"
     ELSE UNCHANGED <<mode, direction>>
  /\ UNCHANGED <<pc, spent, framing, ownDirection, fragments>>

\* No more bytes: on with the loop.  Before the poll, each turn of the loop
\* has tried to receive a packet, which ends in standby.
Turn ==
  /\ pc = "top" /\ rx = <<>>
  /\ pc' \in {"receive", "arm"}
  /\ UNCHANGED <<shimVars, spent, radio, rx, fragments>>

\* pollRx blocks for up to 150 ms, and tells of the packet it received or of
\* its error.
PollRx ==
  /\ pc = "receive"
  /\ mode' = "STBY" /\ direction' = "READ"
  /\ pc' \in {"top", "report"}
  /\ UNCHANGED <<shimVars, spent, framing, ownDirection, rx, fragments>>

------------------------------------------------------------------------------
(* The receive window.                                                     *)

\* Mutant of OpenWindow: another register is saved than is restored.
OpenWindowMixedUp ==
  /\ pc = "arm"
  /\ ownDirection' = mode
  /\ framing' = "window" /\ direction' = "READ" /\ mode' = "RX"
  /\ spent' = 0
  /\ pc' = "window"
  /\ UNCHANGED <<shimVars, rx, fragments>>

\* Save the registers, set the window's framing, turn the FIFO to reading,
\* receiver on.
OpenWindow ==
  /\ pc = "arm"
  /\ ownDirection' = direction
  /\ framing' = "window" /\ direction' = "READ" /\ mode' = "RX"
  /\ spent' = 0
  /\ pc' = "window"
  /\ UNCHANGED <<shimVars, rx, fragments>>

\* Mutant of PollDone: nothing but an abort ends the window.
PollDoneUntimed ==
  /\ pc = "window" /\ rx = <<>>
  /\ pc' = "abort"
  /\ UNCHANGED <<shimVars, spent, radio, rx, fragments>>

PollDone ==
  /\ pc = "window" /\ rx = <<>>
  /\ pc' = IF spent < WindowMs THEN "abort" ELSE "close"
  /\ UNCHANGED <<shimVars, spent, radio, rx, fragments>>

\* Mutant of CheckAbort: the flag is taken, the window goes on.
CheckAbortIgnored ==
  /\ pc = "abort"
  /\ Shim!WindowAbort \/ (~sAbort /\ UNCHANGED shimVars)
  /\ pc' = "listen"
  /\ UNCHANGED <<spent, radio, rx, fragments>>

\* Mutant of CheckAbort: the abort leaves without closing the window.
CheckAbortReturn ==
  /\ pc = "abort"
  /\ \/ Shim!WindowAbort /\ pc' = "probe start"
     \/ ~sAbort /\ pc' = "listen" /\ UNCHANGED shimVars
  /\ UNCHANGED <<spent, radio, rx, fragments>>

\* hciWindowAbort: a transmit request has been served - end the window.
CheckAbort ==
  /\ pc = "abort"
  /\ \/ /\ Shim!WindowAbort
        /\ pc' = "close"
     \/ /\ ~sAbort
        /\ pc' = "listen"
        /\ UNCHANGED shimVars
  /\ UNCHANGED <<spent, radio, rx, fragments>>

\* Mutant of Listen: the window writes the indication itself, past the gates.
ListenPastGates ==
  /\ pc = "listen"
  /\ \E len \in IndLen : Shim!SendFrame(Shim!Indication(len))
  /\ pc' = "window"
  /\ UNCHANGED <<pState, pCtrl, pMsgid, pLen, pIdx, pThird, sLinkMode, sRadioOn, sAbort,
                 now, sMuteUntil, sinceReq, spent, radio, rx, fragments>>

\* A round of RxAssembly.tla, which may end in an indication (FrameScan.tla);
\* hciIndSend drops it while the gates are closed.  The frame then goes to
\* asmMerge, which has something to tell when it has gathered enough.
Listen ==
  /\ pc = "listen"
  /\ \/ \E len \in IndLen : Shim!IndSend(len)
     \/ UNCHANGED shimVars
  /\ pc' \in {"window", "merge"}
  /\ UNCHANGED <<spent, radio, rx, fragments>>

\* Standby, and the saved registers back.  The packet type 0x45 is not among
\* them.
CloseWindow ==
  /\ pc = "close"
  /\ mode' = "STBY" /\ direction' = ownDirection /\ framing' = "left"
  /\ spent' = 0
  /\ pc' = "probe start"
  /\ UNCHANGED <<shimVars, ownDirection, rx, fragments>>

------------------------------------------------------------------------------
(* The probe of the noise floor between two windows.                       *)

StartProbe ==
  /\ pc = "probe start"
  /\ mode' = "RX"
  /\ spent' = 0
  /\ pc' = "probe"
  /\ UNCHANGED <<shimVars, direction, framing, ownDirection, rx, fragments>>

ProbeEnds ==
  /\ pc = "probe" /\ rx = <<>>
  /\ spent >= ProbeMs
  /\ pc' = "receive"
  /\ UNCHANGED <<shimVars, spent, radio, rx, fragments>>

------------------------------------------------------------------------------
(* The world around the thread.                                            *)

\* A ms goes by; spent stops where the loop's conditions no longer change.
Tick ==
  /\ Shim!Tick
  /\ spent' = IF spent < WindowMs + ProbeMs THEN spent + 1 ELSE spent
  /\ UNCHANGED <<pc, radio, rx, fragments>>

UartShift ==
  /\ Shim!UartShift
  /\ UNCHANGED <<pc, spent, radio, rx, fragments>>

\* The daemon writes a request when the line is idle.
Write(bytes) ==
  /\ rx = <<>>
  /\ rx' = bytes
  /\ UNCHANGED <<shimVars, pc, spent, radio>>

WriteRequest == \E q \in HostRequest : Write(q) /\ UNCHANGED fragments
WriteFragment ==
  /\ fragments < MaxFragments
  /\ fragments' = fragments + 1
  /\ \E f \in Fragment : Write(f)

------------------------------------------------------------------------------

Loop ==
  \/ PrintLine \/ PollByte \/ Turn \/ PollRx
  \/ OpenWindow \/ PollDone \/ CheckAbort \/ Listen \/ CloseWindow
  \/ StartProbe \/ ProbeEnds

Next == Loop \/ Tick \/ UartShift \/ WriteRequest \/ WriteFragment

Spec == Init /\ [][Next]_vars

\* The thread runs, the clock too; hciPoll, faster than the serial line,
\* empties the queue again and again, so that it finds it empty; the UART
\* shifts bytes out whether or not anybody reads them; and a daemon that gets
\* no answer asks again.
FairSpec ==
  /\ Spec
  /\ WF_vars(Loop) /\ WF_vars(Tick) /\ WF_vars(UartShift)
  /\ SF_vars(PollDone) /\ SF_vars(ProbeEnds) /\ SF_vars(Turn)
  /\ SF_vars(Write(Detect) /\ UNCHANGED fragments)

------------------------------------------------------------------------------
(* Properties.                                                             *)

TypeOK ==
  /\ Shim!TypeOK
  /\ pc \in Polling \cup DOMAIN After
           \cup {"receive", "arm", "abort", "listen", "close", "probe start"}
  /\ spent \in 0..(WindowMs + ProbeMs)
  /\ mode \in {"STBY", "RX"}
  /\ direction \in {"READ", "WRITE"} /\ ownDirection \in {"READ", "WRITE"}
  /\ framing \in {"map", "window", "left"}
  /\ rx \in Seq(Byte) /\ fragments \in 0..MaxFragments

\* A round of the window only runs with the receiver on, in the window's
\* framing, and with a FIFO the demodulator can write - which a transmission
\* served in the round before would have left the other way round
\* (main.cpp:1978 tells of the empty packets that gave).
WindowReceives ==
  pc = "listen" => mode = "RX" /\ direction = "READ" /\ framing = "window"

\* Outside the window pollRx and the probe find the packet length and the
\* sync size of the register map, however the window ended.  The packet type
\* they only find until the first window.
LengthRestored == (~InWindow /\ pc # "close") => framing # "window"

\* Driven by this loop the shim behaves as HciShim says it does anywhere.
DrivesShim == Shim!Spec

\* The window ends, at the latest with its time.
WindowEnds == (pc = "window") ~> (pc = "probe")

\* A daemon that keeps asking is understood again after any fragment a
\* predecessor of it left in the parser: its detect request is served.
DetectIsServed ==
  []<><< pState = "LEN" /\ pMsgid = Detect[3] /\ pCtrl = Detect[2] /\ pState' = "SOF" >>_pState
=============================================================================
