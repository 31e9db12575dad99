----------------------------- MODULE MCRxAssembly -----------------------------
(* The window with the real sizes: the longest telegram of the fleet and the *)
(* shortest there is behind the 2-byte sync, one without the prefix, an L    *)
(* byte whose telegram no buffer takes, and noise.                           *)
EXTENDS RxAssembly

MCOnAir ==
  {[form |-> "prefix", L |-> 10], [form |-> "prefix", L |-> 94],
   [form |-> "plain", L |-> 62], [form |-> "prefix", L |-> 120],
   [form |-> "noise", L |-> 10]}
=============================================================================
