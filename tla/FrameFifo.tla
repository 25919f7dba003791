------------------------------ MODULE FrameFifo ------------------------------
(***************************************************************************)
(* What the receive path promises the protocols: the frames the card has   *)
(* numbered 1, 2, 3, ... come out in that order, each at most once.  A     *)
(* frame may be lost before it is queued, never after.                     *)
(***************************************************************************)
EXTENDS Naturals, Sequences

CONSTANT Frames            \* the frame numbers

VARIABLES queue,           \* frames accepted and not yet handed over
          out              \* frames handed over, in order

vars == <<queue, out>>

\* Everything accepted so far, in order.
Accepted == out \o queue

Init == queue = <<>> /\ out = <<>>

Accept(f) ==
  /\ \A i \in DOMAIN Accepted : Accepted[i] < f
  /\ queue' = Append(queue, f)
  /\ out' = out

HandOver ==
  /\ queue # <<>>
  /\ out' = Append(out, Head(queue))
  /\ queue' = Tail(queue)

Next == HandOver \/ \E f \in Frames : Accept(f)

Spec == Init /\ [][Next]_vars
=============================================================================
