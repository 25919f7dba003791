------------------------------- MODULE MCTxRing -------------------------------
(* Model checking TxRing; the constants are given in the configuration.      *)
EXTENDS TxRing
=============================================================================
