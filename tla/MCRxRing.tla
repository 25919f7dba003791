------------------------------- MODULE MCRxRing -------------------------------
(* A ring of three descriptors and six frames: it is lapped twice, through   *)
(* the memory behind it on each lap.                                         *)
EXTENDS RxRing

=============================================================================
