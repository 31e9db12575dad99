--------------------------- MODULE Im871aContract ---------------------------
(***************************************************************************)
(* What a host daemon may rely on from an iM871A stick, with no parser, no *)
(* bytes and no clock: complete requests are served one at a time, each is *)
(* answered at most once and with the response that belongs to it, and     *)
(* indications come only from a configured stick that is not in the quiet  *)
(* period a request opens.  Text the daemon has to skip may come between   *)
(* any two messages, though never inside one.  HciShim implements this     *)
(* specification.                                                          *)
(***************************************************************************)
EXTENDS Integers, Sequences

CONSTANT LinkModes   \* the link modes a SET_CONFIG can ask for

VARIABLES linkMode,    \* configured link mode
          configured,  \* a SET_CONFIG has been served since boot
          txAsked,     \* a transmit request wants the receiver's attention
          quiet,       \* a request is being detected: no indications
          sent         \* messages and text not yet read by the daemon

vars == <<linkMode, configured, txAsked, quiet, sent>>

\* The requests the stick serves, each with the msgid of its response.
SetConfig == [ep |-> 1, req |-> 3, rsp |-> 4]
Transmits == { [ep |-> 2, req |-> 1, rsp |-> 2], [ep |-> 2, req |-> 4, rsp |-> 5] }
Queries   == { [ep |-> 1, req |-> 1, rsp |-> 2], [ep |-> 1, req |-> 15, rsp |-> 16],
               [ep |-> 1, req |-> 5, rsp |-> 6] }
Request   == {SetConfig} \cup Transmits \cup Queries

Answers(m, q)   == m.ep = q.ep /\ m.msgid = q.rsp /\ ~m.rssi
IsIndication(m) == m.ep = 2 /\ m.msgid = 3 /\ m.rssi
IsText(m)       == m.ep = 0

\* The step sends one message; Sent is that message.
Sends == sent' # <<>> /\ sent' = Append(sent, sent'[Len(sent')])
Sent  == sent'[Len(sent')]

Init ==
  /\ linkMode = 10 /\ configured = FALSE /\ txAsked = FALSE
  /\ quiet = FALSE /\ sent = <<>>

\* A request opens the quiet period before it is complete.
Recognise ==
  /\ quiet' = TRUE
  /\ UNCHANGED <<linkMode, configured, txAsked, sent>>

\* Serving a request may outlast the quiet period; its answer may be lost.
Serve(q) ==
  /\ \/ sent' = sent
     \/ Sends /\ Answers(Sent, q)
  /\ configured' = (configured \/ q = SetConfig)
  /\ linkMode' \in IF q = SetConfig THEN LinkModes ELSE {linkMode}
  /\ txAsked' = (txAsked \/ q \in Transmits)
  /\ quiet' \in {quiet, FALSE}

QuietEnds ==
  /\ quiet' = FALSE
  /\ UNCHANGED <<linkMode, configured, txAsked, sent>>

Indicate ==
  /\ configured
  /\ ~quiet
  /\ Sends
  /\ IsIndication(Sent)
  /\ UNCHANGED <<linkMode, configured, txAsked, quiet>>

\* No period is free of text.
Chatter ==
  /\ Sends
  /\ IsText(Sent)
  /\ UNCHANGED <<linkMode, configured, txAsked, quiet>>

TakeTxAsked ==
  /\ txAsked' = FALSE
  /\ UNCHANGED <<linkMode, configured, quiet, sent>>

Read ==
  /\ sent # <<>>
  /\ sent' = Tail(sent)
  /\ UNCHANGED <<linkMode, configured, txAsked, quiet>>

Next ==
  \/ Recognise
  \/ \E q \in Request : Serve(q)
  \/ QuietEnds
  \/ Indicate
  \/ Chatter
  \/ TakeTxAsked
  \/ Read

Spec == Init /\ [][Next]_vars
=============================================================================
