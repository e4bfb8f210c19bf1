--------------------------- MODULE MCRateControl ---------------------------
(* RateControl with delays of one to four ticks.                             *)
EXTENDS RateControl
=============================================================================
