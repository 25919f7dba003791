-------------------------------- MODULE TxRing --------------------------------
(***************************************************************************)
(* The transmit ring of the AMD 79C973 driver: send(), and the card, which *)
(* transmits the descriptors it owns in turn.                              *)
(*                                                                         *)
(* send() reads current_tx_buffer anew in every statement and runs with    *)
(* interrupts on in the boot thread; the timer handler answers ARP, ICMP   *)
(* and UDP by calling send() too, on top of a send() of the thread.        *)
(***************************************************************************)
EXTENDS Naturals, Sequences, SequencesExt, FiniteSets

CONSTANTS
  Count,     \* tx_buffer_count
  MaxSends   \* bound: calls of send()

ASSUME TxAssumption == Count \in Nat \ {0, 1} /\ MaxSends \in Nat

Ctx == {"thread", "timer"}

VARIABLES
  own,                \* 0..Count: the OWN bit of a descriptor; descriptor Count
                      \* is the memory behind the ring
  front, back,        \* the two halves of the buffer of a descriptor: the
                      \* number of the frame each was copied from, 0 for none
  current_tx_buffer,  \* the driver's position
  devIndex,           \* the card's position
  pc,                 \* next statement of each context's send()
  frame,              \* the frame it sends
  at,                 \* the descriptor its memcpy was given
  reg,                \* the value it has loaded to increment
  dropped,            \* tx_dropped
  calls,              \* history: calls of send()
  accepted,           \* history: frames given to the card, in order
  wire,               \* history: what the card transmitted
  overlapped          \* history: has a send() begun inside another?

ringVars == <<own, front, back, devIndex>>
sendVars == <<pc, frame, at, reg>>
histVars == <<calls, accepted, wire, overlapped>>
vars == <<ringVars, current_tx_buffer, sendVars, dropped, histVars>>

Slots == 0..Count

Init ==
  /\ own \in {[i \in Slots |-> i = Count /\ foreign] : foreign \in BOOLEAN}
  /\ front = [i \in Slots |-> 0]
  /\ back = [i \in Slots |-> 0]
  /\ current_tx_buffer = 0
  /\ devIndex = 0
  /\ pc = [c \in Ctx |-> "idle"]
  /\ frame = [c \in Ctx |-> 0]
  /\ at = [c \in Ctx |-> 0]
  /\ reg = [c \in Ctx |-> 0]
  /\ dropped = 0
  /\ calls = 0
  /\ accepted = <<>>
  /\ wire = <<>>
  /\ overlapped = FALSE

\* The timer handler runs to its end before the thread goes on.
Runs(c) == c = "thread" => pc["timer"] = "idle"

-----------------------------------------------------------------------------
(* The card.                                                               *)

\* It transmits what the buffer holds and gives the descriptor back.
Transmit ==
  /\ own[devIndex]
  /\ wire' = Append(wire, <<front[devIndex], back[devIndex]>>)
  /\ own' = [own EXCEPT ![devIndex] = FALSE]
  /\ devIndex' = (devIndex + 1) % Count
  /\ UNCHANGED <<front, back, current_tx_buffer, sendVars, dropped, calls, accepted,
                 overlapped>>

-----------------------------------------------------------------------------
(* Parts of send(), and slips: the properties below reject each of them.   *)

Go(c, point) == pc' = [pc EXCEPT ![c] = point]

\* if ((flags & OWN) != 0) { tx_dropped++; return -1; }
TestOwn(c, busy) ==
  /\ Runs(c) /\ pc[c] = "check"
  /\ Go(c, IF busy THEN "idle" ELSE "size")
  /\ dropped' = IF busy THEN dropped + 1 ELSE dropped
  /\ UNCHANGED <<ringVars, current_tx_buffer, frame, at, reg, histVars>>

\* send() that takes whatever descriptor it is at.
CheckNothing(c) == TestOwn(c, FALSE)

WrapTest(c, last) ==
  /\ Runs(c) /\ pc[c] = "advance"
  /\ Go(c, IF last THEN "wrap" ELSE "load")
  /\ UNCHANGED <<ringVars, current_tx_buffer, frame, at, reg, dropped, histVars>>

\* The test of the receive ring: one descriptor too many each lap.
AdvanceLate(c) == WrapTest(c, current_tx_buffer + 1 > Count)

-----------------------------------------------------------------------------
(* send().                                                                 *)

Call(c) ==
  /\ Runs(c) /\ pc[c] = "idle"
  /\ calls < MaxSends
  /\ calls' = calls + 1
  /\ frame' = [frame EXCEPT ![c] = calls + 1]
  /\ Go(c, "check")
  /\ overlapped' = (overlapped \/ \E x \in Ctx : pc[x] # "idle")
  /\ UNCHANGED <<ringVars, current_tx_buffer, at, reg, dropped, accepted, wire>>

Check(c) == TestOwn(c, own[current_tx_buffer])

\* if (size > buffer_size) return -1;
TooBig(c) ==
  /\ Runs(c) /\ pc[c] = "size"
  /\ Go(c, "idle")
  /\ UNCHANGED <<ringVars, current_tx_buffer, frame, at, reg, dropped, histVars>>

\* memcpy: the address is computed once, the bytes follow.
CopyFront(c) ==
  /\ Runs(c) /\ pc[c] = "size"
  /\ at' = [at EXCEPT ![c] = current_tx_buffer]
  /\ front' = [front EXCEPT ![current_tx_buffer] = frame[c]]
  /\ Go(c, "copy")
  /\ UNCHANGED <<own, back, devIndex, current_tx_buffer, frame, reg, dropped, histVars>>

CopyBack(c) ==
  /\ Runs(c) /\ pc[c] = "copy"
  /\ back' = [back EXCEPT ![at[c]] = frame[c]]
  /\ Go(c, "flag")
  /\ UNCHANGED <<own, front, devIndex, current_tx_buffer, frame, at, reg, dropped,
                 histVars>>

\* flags = 0x8300F000 | size, on the descriptor current_tx_buffer names now.
Flag(c) ==
  /\ Runs(c) /\ pc[c] = "flag"
  /\ own' = [own EXCEPT ![current_tx_buffer] = TRUE]
  /\ accepted' = Append(accepted, frame[c])
  /\ Go(c, "advance")
  /\ UNCHANGED <<front, back, devIndex, current_tx_buffer, frame, at, reg, dropped,
                 calls, wire, overlapped>>

\* if (current_tx_buffer+1 >= tx_buffer_count)
Advance(c) == WrapTest(c, current_tx_buffer + 1 >= Count)

\* current_tx_buffer = 0
Wrap(c) ==
  /\ Runs(c) /\ pc[c] = "wrap"
  /\ current_tx_buffer' = 0
  /\ Go(c, "idle")
  /\ UNCHANGED <<ringVars, frame, at, reg, dropped, histVars>>

\* current_tx_buffer++: load ...
IncLoad(c) ==
  /\ Runs(c) /\ pc[c] = "load"
  /\ reg' = [reg EXCEPT ![c] = current_tx_buffer]
  /\ Go(c, "store")
  /\ UNCHANGED <<ringVars, current_tx_buffer, frame, at, dropped, histVars>>

\* ... and store
IncStore(c) ==
  /\ Runs(c) /\ pc[c] = "store"
  /\ current_tx_buffer' = reg[c] + 1
  /\ Go(c, "idle")
  /\ UNCHANGED <<ringVars, frame, at, reg, dropped, histVars>>

Send(c) == \/ Check(c) \/ TooBig(c) \/ CopyFront(c) \/ CopyBack(c) \/ Flag(c)
           \/ Advance(c) \/ Wrap(c) \/ IncLoad(c) \/ IncStore(c)

Next == Transmit \/ \E c \in Ctx : Call(c) \/ Send(c)

Spec == Init /\ [][Next]_vars

\* The card transmits what it owns; nothing makes the kernel send.
FairSpec == Spec /\ WF_vars(Transmit)

-----------------------------------------------------------------------------
(* Correctness.                                                            *)

\* Every variable keeps its kind of value (a part of WireIsAccepted).
TypeOK ==
  /\ own \in [Slots -> BOOLEAN]
  /\ front \in [Slots -> 0..MaxSends]
  /\ back \in [Slots -> 0..MaxSends]
  /\ current_tx_buffer \in Slots
  /\ devIndex \in 0..Count-1
  /\ pc \in [Ctx -> {"idle", "check", "size", "copy", "flag", "advance", "wrap",
                     "load", "store"}]
  /\ frame \in [Ctx -> 0..MaxSends]
  /\ at \in [Ctx -> Slots]
  /\ reg \in [Ctx -> Slots]
  /\ dropped \in 0..MaxSends
  /\ calls \in 0..MaxSends
  /\ accepted \in Seq(1..MaxSends)
  /\ wire \in Seq((0..MaxSends) \X (0..MaxSends))
  /\ overlapped \in BOOLEAN

\* The descriptor the next frame goes to.
Turn == (current_tx_buffer
         + IF \E c \in Ctx : pc[c] \in {"advance", "wrap", "load", "store"} THEN 1 ELSE 0) % Count

\* As long as no send() has begun inside another, the card transmits the frames
\* that send() reported as sent, each once, whole and in order.  What it owns
\* lies from its own descriptor on to the driver's: the two never drift apart,
\* and send() drops a frame only when the card owns the whole ring.
WireIsAccepted ==
  /\ TypeOK
  /\ ~overlapped =>
       /\ IsPrefix(wire, [i \in DOMAIN accepted |-> <<accepted[i], accepted[i]>>])
       /\ LET owned == {i \in 0..Count-1 : own[i]}
              n == Cardinality(owned)
          IN  /\ owned = {(devIndex + k) % Count : k \in 0..n-1}
              /\ Turn = (devIndex + n) % Count

\* A frame that send() reported as sent is transmitted, unless a send() has begun
\* inside another.
AcceptedIsSent ==
  \A f \in 1..MaxSends :
    Contains(accepted, f) ~> (overlapped \/ Contains(wire, <<f, f>>))

\* As long as no send() has begun inside another, the buffer of a descriptor the
\* card owns is never written: the card reads no frame that is half replaced.
CardBufferStable ==
  [][~overlapped =>
       \A i \in 0..Count-1 :
         own[i] => front'[i] = front[i] /\ back'[i] = back[i]]_vars
=============================================================================
