---------------------------- MODULE MCListeners ----------------------------
(* The listeners with two connections; the cfgs give the other constants.  *)
EXTENDS ListenersProperties

CONSTANTS c1, c2

=============================================================================
