------------------------------ MODULE MCTxChain ------------------------------
(* TxChain for TLC: an empty request, one that just fits the FIFO, and the   *)
(* longest the parser passes on; several calls, so that one meets what the   *)
(* one before it left behind.                                                *)
EXTENDS TxChain

MCContents == {0, 61, 96}
=============================================================================
