----------------------------- MODULE MCSkbQueue -----------------------------
(* SkbQueue with three sk_buffer objects, so that a freed object comes back *)
(* while recv_tail still points to it, and four frames.                     *)
EXTENDS SkbQueue

=============================================================================
