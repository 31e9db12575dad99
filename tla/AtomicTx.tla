------------------------------- MODULE AtomicTx -------------------------------
(***************************************************************************)
(* What the callers of hciDoTx rely on: a transmission is one step that    *)
(* leaves the receive framing as it found it, and that reports success     *)
(* only if the frame went on air in that very call.                        *)
(***************************************************************************)
EXTENDS Naturals

CONSTANTS Framing  \* the receive framings the registers may hold

VARIABLES framing,  \* receive framing the owner of the radio has set up
          onAir,    \* copies of its frame the last call put on air
          result    \* what the last call returned

vars == <<framing, onAir, result>>

Init == framing \in Framing /\ onAir = 0 /\ result = "none"

Reframe == framing' \in Framing /\ UNCHANGED <<onAir, result>>

\* The last outcome is forgotten when the next transmission is asked for.
Ask == onAir' = 0 /\ result' = "none" /\ UNCHANGED framing

Transmit ==
  /\ result = "none"
  /\ onAir' \in Nat
  /\ result' \in {"done", "stall"}
  /\ result' = "done" => onAir' > 0
  /\ UNCHANGED framing

Next == Reframe \/ Ask \/ Transmit
Spec == Init /\ [][Next]_vars
=============================================================================
