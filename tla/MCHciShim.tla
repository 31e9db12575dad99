------------------------------ MODULE MCHciShim ------------------------------
(* A small instance of HciShim for TLC. *)
EXTENDS HciShim

MCByte == {0, 1, 2, 3, 15, 165}
MCInd  == {1}
MCText == {4}

\* The bytes TLC offers at each parser position: those the position tells
\* apart.  The proofs of HciShimProofs offer every byte at every position.
LikelyByte ==
  [SOF |-> {1, 165}, CTRL |-> {1, 2, 165}, MSGID |-> {1, 3, 15},
   LEN |-> {0, 1, 3, 165}, PAYLOAD |-> {165}]

MCNext == (\E b \in LikelyByte[pState] : Receive(b)) \/ Internal
MCSpec == Init /\ [][MCNext]_vars
=============================================================================
