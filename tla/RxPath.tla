-------------------------------- MODULE RxPath --------------------------------
(***************************************************************************)
(* A received frame's way from the wire to the protocols: the ring of the  *)
(* driver (RxRing) and the queue of the timer handler (SkbQueue) put       *)
(* together.  The handler of the card is one handler in both: it pushes to *)
(* the queue between the test of a descriptor and its return to the card,  *)
(* and the timer handler may nest in it from the first push on.            *)
(*                                                                         *)
(* SkbQueue numbers the frames taken, received has what they are.          *)
(***************************************************************************)
EXTENDS Naturals, Sequences, SequencesExt

CONSTANTS
  Count,      \* rx_buffer_count
  MaxFrames,  \* bound: frames that arrive from the wire
  Skb, NULL   \* the sk_buffer objects kmalloc can return, and the null pointer

ASSUME RxPathAssumption ==
  Count \in Nat \ {0} /\ MaxFrames \in Nat /\ NULL \notin Skb

VARIABLES
  ring, devIndex, current_rx_buffer, rint, tint, pc, temp, missed,
  arrived, stored, received, lateFrame,           \* of RxRing
  recv_head, recv_tail, next, live, frame, top, nicPc, skb, tailReg,
  timerPc, cur, chain, delivered, raced           \* of SkbQueue

R == INSTANCE RxRing
Q == INSTANCE SkbQueue WITH received <- Len(received), MaxFrames <- 2 * MaxFrames

ringVars  == <<ring, devIndex, current_rx_buffer, rint, tint, pc, temp, missed,
               arrived, stored, received, lateFrame>>
queueVars == <<recv_head, recv_tail, next, live, frame, top, nicPc, skb, tailReg,
               timerPc, cur, chain, delivered, raced>>
vars == <<ringVars, queueVars>>

Init == R!Init /\ Q!Init

-----------------------------------------------------------------------------
(* The card's handler                                                       *)

\* It is running, and not inside skb_create or skb_recv_push.
InReceive == top = "nic" /\ nicPc \in {"entry", "loop"}

\* The interrupt is taken when no handler has interrupts off.
Enter == R!Enter /\ Q!NicEnter

\* A whole frame goes into a new sk_buffer (SkbQueue tries every unused one, of
\* which kmalloc answers one) ...
TakeWhole ==
  /\ InReceive /\ ring[current_rx_buffer].good
  /\ \E s \in Skb : ~live[s]
  /\ LET s == CHOOSE s \in Skb : ~live[s]
     IN  \/ R!Take /\ Q!SkbCreate(s)
         \/ R!TakePanics /\ Q!SkbCreatePanics(s)

\* ... any other is skipped.
Skip == InReceive /\ ~ring[current_rx_buffer].good /\ R!Take /\ UNCHANGED queueVars

Push ==
  /\ UNCHANGED ringVars
  /\ Q!PushTest \/ Q!PushLoad \/ Q!PushStore \/ Q!PushHead \/ Q!PushTail

GiveBack == InReceive /\ R!GiveBack /\ UNCHANGED queueVars
Advance  == InReceive /\ R!Advance /\ UNCHANGED queueVars
LoopEnd  == InReceive /\ R!LoopEnd /\ UNCHANGED queueVars
Leave    == R!Acknowledge /\ Q!NicExit

Handler == \/ TakeWhole \/ Skip \/ Push \/ GiveBack \/ Advance \/ LoopEnd \/ Leave

-----------------------------------------------------------------------------
(* The card and the timer                                                   *)

Card ==
  /\ \/ \E g \in BOOLEAN : R!CardStores(g)
     \/ R!CardMisses
     \/ R!CardSent
     \/ \E w \in R!Foreign : R!NeighbourWrites(w)
  /\ UNCHANGED queueVars

Tick     == UNCHANGED ringVars /\ Q!Tick
Callback == UNCHANGED ringVars /\ Q!Callback
SkbFree  == UNCHANGED ringVars /\ Q!SkbFree

Next == Card \/ Enter \/ Handler \/ Tick \/ Callback \/ SkbFree

Spec == Init /\ [][Next]_vars

\* As in the two parts: handlers run to their end, the clock keeps ticking, and
\* the card cannot keep the timer's handler from its end for ever.
FairSpec ==
  /\ Spec
  /\ WF_vars(Enter) /\ WF_vars(Handler)
  /\ SF_vars(Tick) /\ WF_vars(Callback) /\ SF_vars(SkbFree)

-----------------------------------------------------------------------------
(* Correctness                                                              *)

\* Where a whole frame can be: the ring (until it is copied), the queue (or on
\* its way in, or in the hands of the timer's handler), the protocols.
InRing == {ring[i].frame : i \in {w \in R!Waiting : pc = "give" => w # current_rx_buffer}}
Queued == {received[frame[s]] : s \in (ToSet(chain) \union {cur, skb}) \ {NULL}}
Delivered == {received[n] : n \in ToSet(delivered)}
Lost == ToSet(stored) \ (InRing \union Queued \union Delivered)

\* An sk_buffer nobody will free.
Leaked == {s \in Skb : live[s]} \ (ToSet(chain) \union {cur, skb})

\* Between the card and the protocols no frame disappears: the ones that do are
\* those in the sk_buffers that leak, frame by frame, and it takes a tick inside
\* a push.  (Frame 0 is rubbish read from behind the ring.)
LossIsLeak ==
  /\ Lost = {received[frame[s]] : s \in Leaked} \ {0}
  /\ Lost # {} => raced

\* When all is quiet (the boot thread runs, no interrupt is pending and the queue
\* is empty) every whole frame has reached the protocols, with three causes for
\* an exception in the whole path: a tick inside a push, a frame that came while
\* the handler was acknowledging, the driver's index behind the ring.
QuietMeansDelivered ==
  top = "thread" /\ ~rint /\ chain = <<>>
    => \/ ToSet(stored) \subseteq Delivered
       \/ raced \/ lateFrame \/ current_rx_buffer = Count

\* A whole frame that is in the ring while receive() loops reaches the protocols,
\* unless a tick falls inside a push, the driver gets stuck behind the ring, or
\* what it takes for a frame there makes it panic.
FrameArrives ==
  \A f \in 1..MaxFrames :
    (pc = "loop" /\ f \in ToSet(stored) \cap InRing)
      ~> (f \in Delivered \/ raced \/ R!PastRing \/ pc = "stopped")

\* The whole path, from the descriptors to reveice_callback, is the FIFO that may
\* lose a frame before it is queued.
Real(s) ==
  LET kept[i \in 0..Len(s)] ==
        IF i = 0 THEN <<>> ELSE IF s[i] = 0 THEN kept[i-1] ELSE Append(kept[i-1], s[i])
  IN  kept[Len(s)]
FramesOf(q) == [i \in DOMAIN q |-> received[q[i]]]
Fifo == INSTANCE FrameFifo WITH
          Frames <- 1..MaxFrames,
          queue <- Real(FramesOf(Q!Pending)), out <- Real(FramesOf(delivered))
RefinesFifo == Fifo!Spec

=============================================================================
