------------------------------- MODULE MCRxPath -------------------------------
(* Two descriptors, three frames and as many sk_buffers as can be in use.     *)
EXTENDS RxPath
=============================================================================
