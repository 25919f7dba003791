-------------------------------- MODULE RxRing --------------------------------
(***************************************************************************)
(* The receive ring of the AMD 79C973 driver: the card, which fills the    *)
(* descriptors it owns in turn and raises RINT, and the interrupt handler, *)
(* which reads CSR0 once, empties the descriptors it owns and acknowledges *)
(* by writing back the value it read.                                      *)
(*                                                                         *)
(* The ring has Count descriptors, 0..Count-1.  The driver's index wraps   *)
(* one step late, so the driver also uses a descriptor Count, which is     *)
(* whatever memory follows the ring: another kmalloc object.               *)
(***************************************************************************)
EXTENDS Naturals, Sequences, FiniteSets

CONSTANTS
  Count,      \* rx_buffer_count
  MaxFrames   \* bound: frames that arrive from the wire

ASSUME RxAssumption == Count \in Nat \ {0} /\ MaxFrames \in Nat

VARIABLES
  ring,               \* 0..Count: what the flags of a descriptor say
  devIndex,           \* the card's position in the ring
  current_rx_buffer,  \* the driver's position
  rint, tint,         \* CSR0: receive and transmit interrupt
  pc,                 \* the interrupt handler's next statement
  temp,               \* its copy of CSR0
  missed,             \* frames the card found no descriptor for
  arrived,            \* history: frames that came from the wire
  stored,             \* history: whole frames the card put in the ring
  received,           \* history: frames an sk_buffer was made for, in order
  lateFrame           \* history: did a frame come between the last test of
                      \* the receive loop and the acknowledgement?

csrVars  == <<rint, tint>>
histVars == <<arrived, stored, lateFrame>>
vars == <<ring, devIndex, current_rx_buffer, csrVars, pc, temp, missed, received,
          histVars>>

\* What a descriptor's flags word can say: owned by the card; handed to the
\* driver with a frame (number f, undamaged in one buffer: no ERR, STP and ENP)
\* or with something else to be skipped.  Frame 0 is a descriptor that only
\* looks as if it held a frame.
Own == [own |-> TRUE, good |-> FALSE, frame |-> 0]
Frame(f, g) == [own |-> FALSE, good |-> g, frame |-> f]
Words == {Own} \union {Frame(f, g) : f \in 0..MaxFrames, g \in BOOLEAN}

\* What may lie behind the ring: any word another owner of that memory stores.
\* The length and the address beside such a word are as foreign as the word.
Foreign == {Own, Frame(0, FALSE), Frame(0, TRUE)}

\* The loop has tested OWN for the last time and CSR0 is not yet written back.
InAckWindow == pc = "ack" /\ temp.rint

Init ==
  /\ \E w \in Foreign : ring = [i \in 0..Count |-> IF i = Count THEN w ELSE Own]
  /\ devIndex = 0
  /\ current_rx_buffer = 0
  /\ rint = FALSE /\ tint = FALSE
  /\ pc = "idle"
  /\ temp = [rint |-> FALSE, tint |-> FALSE]
  /\ missed = 0
  /\ arrived = 0
  /\ stored = <<>>
  /\ received = <<>>
  /\ lateFrame = FALSE

-----------------------------------------------------------------------------
(* The card and the rest of the machine.                                   *)

\* A frame, damaged or not, and the card still owns the descriptor it is at.
CardStores(g) ==
  /\ arrived < MaxFrames
  /\ ring[devIndex].own
  /\ ring' = [ring EXCEPT ![devIndex] = Frame(arrived + 1, g)]
  /\ devIndex' = (devIndex + 1) % Count
  /\ rint' = TRUE
  /\ arrived' = arrived + 1
  /\ stored' = IF g THEN Append(stored, arrived + 1) ELSE stored
  /\ lateFrame' = (lateFrame \/ InAckWindow)
  /\ UNCHANGED <<current_rx_buffer, tint, pc, temp, missed, received>>

\* A frame and no descriptor.
CardMisses ==
  /\ arrived < MaxFrames
  /\ ~ring[devIndex].own
  /\ missed' = missed + 1
  /\ arrived' = arrived + 1
  /\ UNCHANGED <<ring, devIndex, current_rx_buffer, csrVars, pc, temp, received,
                 stored, lateFrame>>

\* A transmission ends: the same interrupt line, another bit of CSR0.
CardSent ==
  /\ ~tint
  /\ tint' = TRUE
  /\ UNCHANGED <<ring, devIndex, current_rx_buffer, rint, pc, temp, missed,
                 received, histVars>>

\* The owner of the memory behind the ring writes it.
NeighbourWrites(w) ==
  /\ ring' = [ring EXCEPT ![Count] = w]
  /\ UNCHANGED <<devIndex, current_rx_buffer, csrVars, pc, temp, missed, received,
                 histVars>>

-----------------------------------------------------------------------------
(* Parts of the handler, with the value a slip would get wrong as a        *)
(* parameter, and such slips: the properties below reject each of them.    *)

StepTo(i) ==
  /\ pc = "step"
  /\ current_rx_buffer' = i
  /\ pc' = "loop"
  /\ UNCHANGED <<ring, devIndex, csrVars, temp, missed, received, histVars>>

\* while (OWN is clear): a good frame gets an sk_buffer, any other is skipped.
TakeTo(point) ==
  /\ pc = "loop"
  /\ ~ring[current_rx_buffer].own
  /\ received' = IF ring[current_rx_buffer].good
                   THEN Append(received, ring[current_rx_buffer].frame)
                   ELSE received
  /\ pc' = point
  /\ UNCHANGED <<ring, devIndex, current_rx_buffer, csrVars, temp, missed, histVars>>

EnterAt(point) ==
  /\ pc = "idle"
  /\ rint \/ tint
  /\ temp' = [rint |-> rint, tint |-> tint]
  /\ pc' = point
  /\ UNCHANGED <<ring, devIndex, current_rx_buffer, csrVars, missed, received,
                 histVars>>

\* The index wraps one step early: the last descriptor is never visited.
AdvanceEarly ==
  StepTo(IF current_rx_buffer + 2 >= Count THEN 0 ELSE current_rx_buffer + 1)

\* A handler that empties the ring before it reads CSR0: it acknowledges what
\* it has not looked for.
EnterSkipsLoop == EnterAt("ack")

-----------------------------------------------------------------------------
(* The interrupt handler.                                                  *)

\* temp = CSR0, and receive() if it says RINT
Enter == EnterAt(IF rint THEN "loop" ELSE "ack")

\* The frame is copied and queued.  Behind the ring that is whatever lies at the
\* foreign address, if it is mapped.
Take == TakeTo("give")

\* The foreign length less 4, an unsigned, is more than kzmalloc has: after
\* skb_create, panic() loops for ever.  (A length of 0 is one, which GiveBack
\* leaves there.)  Nor does the handler go on if the foreign address is not
\* mapped: do_no_page goes through current_thread, which is null.  What the card
\* writes in the ring's own descriptors fits.
TakePanics ==
  /\ current_rx_buffer = Count /\ ring[Count].good
  /\ TakeTo("stopped")

\* flags2 = 0; flags = 0x8000F7FF
GiveBack ==
  /\ pc = "give"
  /\ ring' = [ring EXCEPT ![current_rx_buffer] = Own]
  /\ pc' = "step"
  /\ UNCHANGED <<devIndex, current_rx_buffer, csrVars, temp, missed, received,
                 histVars>>

\* if (current_rx_buffer + 1 > rx_buffer_count) ... else current_rx_buffer++
Advance ==
  StepTo(IF current_rx_buffer + 1 > Count THEN 0 ELSE current_rx_buffer + 1)

\* OWN is set: receive() returns.
LoopEnd ==
  /\ pc = "loop"
  /\ ring[current_rx_buffer].own
  /\ pc' = "ack"
  /\ UNCHANGED <<ring, devIndex, current_rx_buffer, csrVars, temp, missed,
                 received, histVars>>

\* CSR0 = temp: a bit written as one is cleared.
Acknowledge ==
  /\ pc = "ack"
  /\ rint' = (rint /\ ~temp.rint)
  /\ tint' = (tint /\ ~temp.tint)
  /\ pc' = "idle"
  /\ UNCHANGED <<ring, devIndex, current_rx_buffer, temp, missed, received, histVars>>

Handler == Enter \/ Take \/ TakePanics \/ GiveBack \/ Advance \/ LoopEnd \/ Acknowledge

Next == \/ \E g \in BOOLEAN : CardStores(g)
        \/ CardMisses
        \/ CardSent
        \/ \E w \in Foreign : NeighbourWrites(w)
        \/ Handler

Spec == Init /\ [][Next]_vars

-----------------------------------------------------------------------------
(* Correctness.                                                            *)

\* Every variable keeps its kind of value (a part of StrandedHasCause).
TypeOK ==
  /\ ring \in [0..Count -> Words]
  /\ devIndex \in 0..Count-1
  /\ current_rx_buffer \in 0..Count
  /\ rint \in BOOLEAN /\ tint \in BOOLEAN
  /\ pc \in {"idle", "loop", "give", "step", "ack", "stopped"}
  /\ temp \in [rint : BOOLEAN, tint : BOOLEAN]
  /\ missed \in 0..MaxFrames
  /\ arrived \in 0..MaxFrames
  /\ stored \in Seq(1..MaxFrames)
  /\ received \in Seq(0..MaxFrames)
  /\ lateFrame \in BOOLEAN

\* The driver has run into memory behind the ring that looks owned by the card:
\* its loop ends there each time.
PastRing == current_rx_buffer = Count /\ ring[Count].own

\* The frames that wait in the ring.
Waiting == {i \in 0..Count-1 : ~ring[i].own}

\* The descriptor of the ring the driver comes to next.
Turn == (current_rx_buffer
         + IF pc = "step" /\ current_rx_buffer < Count THEN 1 ELSE 0) % Count

\* How many of the first i frames handed over are frames, not rubbish.
Rank(i) == Cardinality({j \in 1..i : received[j] # 0})

\* The ring hands frames over in the order they came, whole frames only, and
\* skips none, in spite of the extra descriptor the driver visits each lap
\* (frame 0 is rubbish read from behind the ring).  What waits lies from the
\* driver's descriptor on to the card's: the two never drift apart, and the
\* card misses a frame only when the whole ring waits.
ReceivedInOrder ==
  /\ \A i \in DOMAIN received :
       received[i] # 0 => Rank(i) <= Len(stored) /\ received[i] = stored[Rank(i)]
  /\ LET n == Cardinality(Waiting)
     IN  /\ Waiting = {(Turn + k) % Count : k \in 0..n-1}
         /\ devIndex = (Turn + n) % Count

\* When the handler has returned and no interrupt is pending, a frame stays
\* behind in the ring for one of two reasons only: it came while the handler
\* was acknowledging, or the driver is stuck behind the ring.
StrandedHasCause ==
  /\ TypeOK
  /\ pc = "idle" /\ ~rint /\ Waiting # {}
       => lateFrame \/ current_rx_buffer = Count

=============================================================================
