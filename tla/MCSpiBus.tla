------------------------------- MODULE MCSpiBus -------------------------------
(* SpiBus for TLC: bytes of two bits, two registers.                         *)
EXTENDS SpiBus

MCIoSel == <<1>>
=============================================================================
