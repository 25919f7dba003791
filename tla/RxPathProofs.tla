----------------------------- MODULE RxPathProofs -----------------------------
(***************************************************************************)
(* Proofs about RxPath, for every ring, every set of sk_buffers and every  *)
(* number of frames.  Each step of the path is a step of the ring or       *)
(* leaves it alone, and the same for the queue; so the two inductive       *)
(* invariants hold together, and what they say of one frame is joined      *)
(* here.                                                                   *)
(***************************************************************************)
EXTENDS RxPath, NaturalsInduction, WellFoundedInduction, TLAPS

RP == INSTANCE RxRingProofs
QP == INSTANCE SkbQueueProofs WITH received <- Len(received), MaxFrames <- 2 * MaxFrames

\* The card's handler runs in both parts or in neither.
OneHandler == pc = "idle" <=> nicPc = "idle"

IInv == /\ RP!IInv
        /\ QP!IInv /\ QP!Numbered
        /\ OneHandler

\* The assumptions of the parts.
LEMMA PartAssumptions == RP!RxAssumption /\ QP!SkbAssumption
BY RxPathAssumption DEF RP!RxAssumption, QP!SkbAssumption

-----------------------------------------------------------------------------
(* The steps of the path as steps of the parts.                            *)

LEMMA RingStep == IInv /\ [Next]_vars => [RP!Next]_(RP!vars)
<1> SUFFICES ASSUME Next \/ UNCHANGED vars PROVE [RP!Next]_(RP!vars)
  OBVIOUS
<1>1. UNCHANGED ringVars => UNCHANGED RP!vars
  BY DEF ringVars, RP!vars, RP!csrVars, RP!histVars
<1>2. CASE Card
  <2>1. ASSUME NEW g \in BOOLEAN, R!CardStores(g) PROVE RP!CardStores(g)
    BY <2>1 DEF R!CardStores, RP!CardStores, R!Frame, RP!Frame, R!InAckWindow, RP!InAckWindow
  <2>2. R!CardMisses \/ R!CardSent => RP!CardMisses \/ RP!CardSent
    BY DEF R!CardMisses, RP!CardMisses, R!CardSent, RP!CardSent, R!csrVars, RP!csrVars,
       R!histVars, RP!histVars
  <2>3. ASSUME NEW w \in R!Foreign, R!NeighbourWrites(w)
        PROVE  w \in RP!Foreign /\ RP!NeighbourWrites(w)
    BY <2>3 DEF R!NeighbourWrites, RP!NeighbourWrites, R!Foreign, RP!Foreign, R!Own, RP!Own,
       R!Frame, RP!Frame, R!csrVars, RP!csrVars, R!histVars, RP!histVars
  <2>4. QED
    BY <1>2, <2>1, <2>2, <2>3 DEF Card, RP!Next
<1>3. CASE Enter
  BY <1>3 DEF Enter, R!Enter, R!EnterAt, R!csrVars, R!histVars,
     RP!Enter, RP!EnterAt, RP!csrVars, RP!histVars, RP!Next, RP!Handler
<1>4. CASE TakeWhole \/ Skip
  BY <1>4 DEF TakeWhole, Skip, R!Take, R!TakePanics, R!TakeTo, R!csrVars, R!histVars,
     RP!Take, RP!TakePanics, RP!TakeTo, RP!csrVars, RP!histVars, RP!Next, RP!Handler
<1>5. CASE GiveBack
  BY <1>5 DEF GiveBack, R!GiveBack, R!Own, R!csrVars, R!histVars,
     RP!GiveBack, RP!Own, RP!csrVars, RP!histVars, RP!Next, RP!Handler
<1>6. CASE Advance
  BY <1>6 DEF Advance, R!Advance, R!StepTo, R!csrVars, R!histVars,
     RP!Advance, RP!StepTo, RP!csrVars, RP!histVars, RP!Next, RP!Handler
<1>7. CASE LoopEnd
  BY <1>7 DEF LoopEnd, R!LoopEnd, R!csrVars, R!histVars,
     RP!LoopEnd, RP!csrVars, RP!histVars, RP!Next, RP!Handler
<1>8. CASE Leave
  BY <1>8 DEF Leave, R!Acknowledge, R!histVars, RP!Acknowledge, RP!histVars,
     RP!Next, RP!Handler
<1>9. CASE Push \/ Tick \/ Callback \/ SkbFree \/ UNCHANGED vars
  BY <1>1, <1>9 DEF Push, Tick, Callback, SkbFree, vars
<1>10. QED
  BY <1>2, <1>3, <1>4, <1>5, <1>6, <1>7, <1>8, <1>9 DEF Next, Handler

LEMMA QueueStep == IInv /\ [Next]_vars => [QP!Next]_(QP!vars)
<1> SUFFICES ASSUME IInv, Next \/ UNCHANGED vars PROVE [QP!Next]_(QP!vars)
  OBVIOUS
<1> USE DEF QP!queueVars, QP!memVars, QP!nicVars, QP!timerVars, QP!histVars,
        Q!queueVars, Q!memVars, Q!nicVars, Q!timerVars, Q!histVars
<1>1. UNCHANGED <<queueVars, received>> => UNCHANGED QP!vars
  BY DEF queueVars, QP!vars
<1>2. CASE TakeWhole
  <2> DEFINE s == CHOOSE s \in Skb : ~live[s]
  <2>1. s \in Skb
    BY <1>2 DEF TakeWhole
  <2>2. received' = Append(received, ring[current_rx_buffer].frame)
    BY <1>2 DEF TakeWhole, R!Take, R!TakePanics, R!TakeTo
  <2>3. QP!SkbCreate(s) \/ QP!SkbCreatePanics(s)
    <3> HIDE DEF s
    <3>1. ASSUME NEW x, NEW point, Q!TakeFrame(x, point) PROVE QP!TakeFrame(x, point)
      BY <3>1 DEF Q!TakeFrame, QP!TakeFrame
    <3>2. Q!SkbCreate(s) \/ Q!SkbCreatePanics(s)
      BY <1>2 DEF TakeWhole, s
    <3>3. QED
      BY <3>1, <3>2
         DEF Q!SkbCreate, Q!SkbCreatePanics, QP!SkbCreate, QP!SkbCreatePanics
  <2>4. QED
    BY <2>1, <2>3 DEF QP!Next, QP!NicStep
<1>3. CASE Skip
  <2>1. UNCHANGED <<queueVars, received>>
    BY <1>3 DEF Skip, R!Take, R!TakeTo
  <2>2. QED
    BY <1>1, <2>1
<1>4. CASE Card \/ GiveBack \/ Advance \/ LoopEnd
  <2>1. UNCHANGED <<queueVars, received>>
    BY <1>4 DEF Card, GiveBack, Advance, LoopEnd, R!CardStores, R!CardMisses, R!CardSent,
       R!NeighbourWrites, R!GiveBack, R!Advance, R!StepTo, R!LoopEnd
  <2>2. QED
    BY <1>1, <2>1
<1>5. CASE Enter
  BY <1>5 DEF Enter, R!Enter, R!EnterAt, Q!NicEnter, QP!NicEnter, QP!Next
<1>6. CASE Leave
  BY <1>6 DEF Leave, R!Acknowledge, Q!NicExit, QP!NicExit, QP!Next, QP!NicStep
<1>7. CASE Push
  BY <1>7 DEF Push, Q!PushTest, Q!PushBranch, Q!PushLoad, Q!PushStore, Q!PushHead, Q!PushTail,
     QP!PushTest, QP!PushBranch, QP!PushLoad, QP!PushStore, QP!PushHead, QP!PushTail,
     QP!Next, QP!NicStep, Q!Last, QP!Last
<1>8. CASE Tick
  BY <1>8 DEF Tick, Q!Tick, Q!Shift, Q!ShiftTo, Q!ShiftEmpty, Q!InsidePush,
     QP!Tick, QP!Shift, QP!ShiftTo, QP!ShiftEmpty, QP!InsidePush, QP!Next
<1>9. CASE Callback
  BY <1>9 DEF Callback, Q!Callback, QP!Callback, QP!Next
<1>10. CASE SkbFree
  BY <1>10 DEF SkbFree, Q!SkbFree, QP!SkbFree, QP!Next
<1>11. CASE UNCHANGED vars
  BY <1>1, <1>11 DEF vars, ringVars
<1>12. QED
  BY <1>2, <1>3, <1>4, <1>5, <1>6, <1>7, <1>8, <1>9, <1>10, <1>11 DEF Next, Handler
LEMMA HandlerStep == IInv /\ [Next]_vars => OneHandler'
<1> SUFFICES ASSUME IInv, Next \/ UNCHANGED vars PROVE OneHandler'
  OBVIOUS
<1> USE DEF IInv, OneHandler
<1>1. CASE Card \/ Tick \/ Callback \/ SkbFree \/ UNCHANGED vars
  <2>1. UNCHANGED <<pc, nicPc>>
    BY <1>1 DEF Card, Tick, Callback, SkbFree, vars, ringVars, queueVars, R!CardStores,
       R!CardMisses, R!CardSent, R!NeighbourWrites, Q!Tick, Q!Callback, Q!SkbFree, Q!nicVars
  <2>2. QED
    BY <2>1
<1>2. CASE Enter
  BY <1>2 DEF Enter, R!Enter, R!EnterAt, Q!NicEnter
<1>3. CASE TakeWhole
  BY <1>3 DEF TakeWhole, InReceive, R!Take, R!TakePanics, R!TakeTo, Q!SkbCreate,
     Q!SkbCreatePanics, Q!TakeFrame
<1>4. CASE Skip \/ GiveBack \/ Advance \/ LoopEnd
  BY <1>4 DEF Skip, GiveBack, Advance, LoopEnd, InReceive, queueVars, R!Take, R!TakeTo, R!GiveBack,
     R!Advance, R!StepTo, R!LoopEnd
<1>5. CASE Push
  BY <1>5 DEF Push, ringVars, Q!PushTest, Q!PushBranch, Q!PushLoad, Q!PushStore, Q!PushHead,
     Q!PushTail
<1>6. CASE Leave
  BY <1>6 DEF Leave, R!Acknowledge, Q!NicExit
<1>7. QED
  BY <1>1, <1>2, <1>3, <1>4, <1>5, <1>6 DEF Next, Handler

LEMMA InitInv == Init => IInv
<1> SUFFICES ASSUME Init PROVE IInv
  OBVIOUS
<1>1. RP!Init
  BY DEF Init, R!Init, RP!Init, R!Foreign, RP!Foreign, R!Own, RP!Own, R!Frame, RP!Frame
<1>2. QP!Init
  BY DEF Init, Q!Init, QP!Init
<1>3. RP!IInv
  BY <1>1, PartAssumptions, RP!InitInv
<1>4. QP!IInv /\ QP!Numbered
  BY <1>2, PartAssumptions, QP!InitInv, QP!InitNumbered
<1>5. OneHandler
  BY DEF Init, R!Init, Q!Init, OneHandler
<1>6. QED
  BY <1>3, <1>4, <1>5 DEF IInv

LEMMA NextInv == IInv /\ [Next]_vars => IInv'
<1> SUFFICES ASSUME IInv, [Next]_vars PROVE IInv'
  OBVIOUS
<1>1. RP!IInv'
  BY PartAssumptions, RingStep, RP!NextInv DEF IInv
<1>2. QP!IInv' /\ QP!Numbered'
  BY PartAssumptions, QueueStep, QP!NextInv, QP!NextNumbered DEF IInv
<1>3. OneHandler'
  BY HandlerStep
<1>4. QED
  BY <1>1, <1>2, <1>3 DEF IInv

\* The invariant holds in every reachable state.
LEMMA Invariance == Spec => []IInv
BY InitInv, NextInv, PTL DEF Spec

-----------------------------------------------------------------------------
(* What the two invariants say together of a frame.                        *)

\* The facts of the ring: what is stored is in the ring or handed over, never
\* both, and nothing is handed over twice.
LEMMA RingFacts ==
  ASSUME IInv
  PROVE  /\ \A f \in ToSet(stored) :
              f # 0 /\ (f \in InRing \/ \E n \in DOMAIN received : received[n] = f)
         /\ \A n \in DOMAIN received : received[n] # 0 =>
              received[n] \in ToSet(stored) /\ received[n] \notin InRing
         /\ \A n, o \in DOMAIN received :
              received[n] = received[o] /\ received[n] # 0 => n = o
         /\ RP!Waiting = {} => InRing = {}
<1> DEFINE m == Len(stored)
           r == Len(received)
           K == RP!K
<1>1. /\ m \in Nat /\ r \in Nat /\ DOMAIN stored = 1..m /\ DOMAIN received = 1..r
      /\ \A p \in 1..m : stored[p] \in Nat \ {0}
      /\ \A n \in 1..r : received[n] \in Nat
  <2>1. stored \in Seq(1..MaxFrames) /\ received \in Seq(0..MaxFrames) /\ MaxFrames \in Nat
    BY RxPathAssumption DEF IInv, RP!IInv, RP!TypeOK
  <2>2. \A p \in 1..m : stored[p] \in 1..MaxFrames
    BY <2>1, PartAssumptions, RP!SeqProps
  <2>3. \A n \in 1..r : received[n] \in 0..MaxFrames
    BY <2>1, PartAssumptions, RP!SeqProps
  <2>4. QED
    BY <2>1, <2>2, <2>3
<1>2. /\ K <= m /\ K \in Nat
      /\ \A n \in 1..r : received[n] # 0 => \E p \in 1..K : received[n] = stored[p]
      /\ \A i, j \in 1..r :
           i < j /\ received[i] # 0 /\ received[j] # 0 => received[i] < received[j]
      /\ \A p \in 1..K : \E i \in 1..r : received[i] = stored[p]
  <2>1. RP!Handed
    BY DEF IInv, RP!IInv
  <2>2. K \in Nat
    BY PartAssumptions, RP!HandedCount DEF IInv, RP!IInv
  <2>3. QED
    BY <2>1, <2>2, <1>1 DEF RP!Handed
<1>3. /\ \A p \in K+1..m : \E i \in RP!Waiting :
           ring[i].good /\ ring[i].frame = stored[p] /\ ~RP!Taken(i)
      /\ \A i \in RP!Waiting : ring[i].good /\ ~RP!Taken(i) =>
           \E p \in K+1..m : ring[i].frame = stored[p]
      /\ \A i \in RP!Waiting : ~ring[i].good => \A p \in 1..m : stored[p] # ring[i].frame
      /\ \A p, q \in 1..m : p < q => stored[p] < stored[q]
  BY DEF IInv, RP!IInv, RP!Order
<1> HIDE DEF m, r, K
<1>4. InRing = {ring[i].frame : i \in {w \in RP!Waiting : ~RP!Taken(w)}}
  BY DEF InRing, R!Waiting, RP!Waiting, RP!Taken
<1>5. \A p \in 1..m : stored[p] \in InRing \/ \E n \in 1..r : received[n] = stored[p]
  <2> SUFFICES ASSUME NEW p \in 1..m
               PROVE  stored[p] \in InRing \/ \E n \in 1..r : received[n] = stored[p]
    OBVIOUS
  <2>1. p \in 1..K \/ p \in K+1..m
    BY <1>1, <1>2
  <2>2. QED
    BY <2>1, <1>2, <1>3, <1>4
<1>6. ASSUME NEW n \in 1..r, received[n] # 0
      PROVE  received[n] \in ToSet(stored) /\ received[n] \notin InRing
  <2>1. PICK p \in 1..K : received[n] = stored[p]
    BY <1>2, <1>6
  <2>2. p \in 1..m /\ \A q \in K+1..m : q \in 1..m /\ p < q
    BY <2>1, <1>1, <1>2
  <2>3. \A q \in K+1..m : stored[q] # stored[p]
    BY <2>2, <1>1, <1>3
  <2>4. QED
    BY <2>1, <2>2, <2>3, <1>1, <1>3, <1>4, SMTT(30) DEF ToSet
<1>7. ASSUME NEW n \in 1..r, NEW o \in 1..r, received[n] = received[o], received[n] # 0
      PROVE  n = o
  <2>1. ~(n < o) /\ ~(o < n)
    BY <1>1, <1>2, <1>7
  <2>2. QED
    BY <2>1, <1>1
<1>8. \A f \in ToSet(stored) : \E p \in 1..m : f = stored[p]
  BY <1>1 DEF ToSet
<1>9. \A f \in ToSet(stored) :
          f # 0 /\ (f \in InRing \/ \E n \in DOMAIN received : received[n] = f)
  <2> SUFFICES ASSUME NEW f \in ToSet(stored)
               PROVE  f # 0 /\ (f \in InRing \/ \E n \in DOMAIN received : received[n] = f)
    OBVIOUS
  <2>1. PICK p \in 1..m : f = stored[p]
    BY <1>8
  <2>2. f # 0
    BY <2>1, <1>1
  <2>3. f \in InRing \/ \E n \in DOMAIN received : received[n] = f
    BY <2>1, <1>5, <1>1
  <2>4. QED
    BY <2>2, <2>3
<1>10. \A n \in DOMAIN received : received[n] # 0 =>
          received[n] \in ToSet(stored) /\ received[n] \notin InRing
  BY <1>1, <1>6
<1>11. \A n, o \in DOMAIN received :
          received[n] = received[o] /\ received[n] # 0 => n = o
  BY <1>1, <1>7
<1>12. RP!Waiting = {} => InRing = {}
  BY <1>4
<1>13. QED
  BY <1>9, <1>10, <1>11, <1>12

\* The facts of the queue.
LEMMA QueueFacts ==
  ASSUME IInv
  PROVE  /\ DOMAIN received = 1..Len(received)
         /\ ToSet(chain) \subseteq Skb /\ \A s \in ToSet(chain) : live[s]
         /\ cur \in Skb \union {NULL} /\ (cur # NULL => live[cur])
         /\ skb \in Skb \union {NULL} /\ NULL \notin Skb
         /\ \A s \in Skb : live[s] => frame[s] \in 1..Len(received)
         /\ \A s, t \in Skb : live[s] /\ live[t] /\ frame[s] = frame[t] => s = t
         /\ \A s \in Skb : skb # NULL /\ live[s] /\ frame[s] = frame[skb] => s = skb
         /\ skb # NULL => frame[skb] \in 1..Len(received)
         /\ \A n \in ToSet(delivered) : n \in 1..Len(received)
         /\ \A n \in ToSet(delivered), s \in Skb : live[s] /\ frame[s] = n => s = cur
         /\ \A n \in 1..Len(received) :
              n \in ToSet(delivered) \/ \E s \in Skb : live[s] /\ frame[s] = n
         /\ ~raced => Leaked = {}
<1>1. QP!TypeOK /\ QP!ListSound /\ QP!Unraced /\ QP!Numbered /\ RP!TypeOK
  BY DEF IInv, QP!IInv, RP!IInv
<1>2. DOMAIN received = 1..Len(received)
  BY <1>1 DEF RP!TypeOK
<1>3. /\ ToSet(chain) \subseteq Skb /\ \A s \in ToSet(chain) : live[s]
      /\ cur \in Skb \union {NULL} /\ (cur # NULL => live[cur])
      /\ skb \in Skb \union {NULL} /\ NULL \notin Skb
  BY <1>1, RxPathAssumption DEF QP!TypeOK, QP!ListSound, ToSet
<1>4. ~raced => Leaked = {}
  BY <1>1 DEF QP!Unraced, QP!LossNeedsRace, Leaked, ToSet
<1>5. QED
  BY <1>1, <1>2, <1>3, <1>4 DEF QP!Numbered, ToSet

LEMMA InvLoss == IInv => LossIsLeak
<1> SUFFICES ASSUME IInv PROVE LossIsLeak
  OBVIOUS
<1> DEFINE used == ToSet(chain) \union {cur, skb}
<1>1. Queued = {received[frame[s]] : s \in used \ {NULL}} /\ Leaked = {s \in Skb : live[s]} \ used
  BY DEF Queued, Leaked
<1> HIDE DEF used
<1>2. ASSUME NEW f \in Lost PROVE f \in {received[frame[s]] : s \in Leaked} \ {0}
  <2>1. f \in ToSet(stored) /\ f \notin InRing /\ f \notin Queued /\ f \notin Delivered
    BY <1>2 DEF Lost
  <2>2. f # 0 /\ \E n \in DOMAIN received : received[n] = f
    BY <2>1, RingFacts
  <2>3. PICK n \in DOMAIN received : received[n] = f
    BY <2>2
  <2>4. n \notin ToSet(delivered)
    BY <2>1, <2>3 DEF Delivered
  <2>5. PICK s \in Skb : live[s] /\ frame[s] = n
    BY <2>3, <2>4, QueueFacts
  <2>6. s \notin used
    BY <2>1, <2>3, <2>5, <1>1, QueueFacts
  <2>7. s \in Leaked
    BY <2>5, <2>6, <1>1
  <2>8. QED
    BY <2>2, <2>3, <2>5, <2>7
<1>3. ASSUME NEW s \in Leaked, received[frame[s]] # 0 PROVE received[frame[s]] \in Lost
  <2> DEFINE n == frame[s]
  <2>1. s \in Skb /\ live[s] /\ s \notin used
    BY <1>1
  <2>2. n \in DOMAIN received
    BY <2>1, QueueFacts
  <2>3. received[n] \in ToSet(stored) /\ received[n] \notin InRing
    BY <2>2, <1>3, RingFacts
  <2>4. received[n] \notin Queued
    <3> SUFFICES ASSUME NEW t \in used \ {NULL}, received[frame[t]] = received[n] PROVE FALSE
      BY <1>1
    <3>1. t \in Skb /\ (live[t] \/ t = skb) /\ frame[t] \in DOMAIN received
      BY QueueFacts DEF used
    <3>2. frame[t] = n
      BY <3>1, <2>2, <1>3, RingFacts
    <3>3. t = s
      BY <3>1, <3>2, <2>1, QueueFacts
    <3>4. QED
      BY <3>3, <2>1
  <2>5. received[n] \notin Delivered
    <3> SUFFICES ASSUME NEW o \in ToSet(delivered), received[o] = received[n] PROVE FALSE
      BY DEF Delivered
    <3>1. o \in DOMAIN received
      BY QueueFacts
    <3>2. o = n
      BY <3>1, <2>2, <1>3, RingFacts
    <3>3. s = cur
      BY <3>2, <2>1, QueueFacts
    <3>4. QED
      BY <3>3, <2>1 DEF used
  <2>6. QED
    BY <2>3, <2>4, <2>5 DEF Lost
<1>4. Lost = {received[frame[s]] : s \in Leaked} \ {0}
  BY <1>2, <1>3
<1>5. Lost # {} => raced
  BY <1>4, QueueFacts
<1>6. QED
  BY <1>4, <1>5 DEF LossIsLeak

LEMMA InvQuiet == IInv => QuietMeansDelivered
<1> SUFFICES ASSUME IInv, top = "thread", ~rint, chain = <<>>, ~raced, ~lateFrame,
                    current_rx_buffer # Count
             PROVE  ToSet(stored) \subseteq Delivered
  BY DEF QuietMeansDelivered
<1>1. nicPc = "idle" /\ timerPc = "idle" /\ cur = NULL /\ skb = NULL /\ pc = "idle"
  BY DEF IInv, OneHandler, QP!IInv, QP!Control, QP!InsidePush
<1>2. InRing = {}
  <2>1. RP!Waiting = {}
    BY DEF IInv, RP!IInv, RP!Seen
  <2>2. QED
    BY <2>1, RingFacts
<1>3. Queued = {}
  <2>1. ToSet(chain) = {}
    BY DEF ToSet
  <2>2. QED
    BY <2>1, <1>1 DEF Queued
<1>4. Lost = {}
  BY InvLoss DEF LossIsLeak
<1>5. QED
  BY <1>2, <1>3, <1>4 DEF Lost

\* Between the card and the protocols, a frame disappears only with an
\* sk_buffer that leaks, frame by frame, and only after a tick inside a push.
THEOREM LossMeansLeak == Spec => []LossIsLeak
BY Invariance, InvLoss, PTL

\* When all is quiet every whole frame has reached the protocols, with the three
\* exceptions that are named.
THEOREM QuietIsComplete == Spec => []QuietMeansDelivered
BY Invariance, InvQuiet, PTL

-----------------------------------------------------------------------------
(* Real, the recursive function, by induction over the length.             *)

\* Induction over the numbers.
LEMMA SetInduction ==
  ASSUME NEW T, 0 \in T, \A n \in Nat : n \in T => n + 1 \in T
  PROVE  Nat \subseteq T
<1> DEFINE U == Nat \ T
           Below == OpToRel(<, Nat)
<1> SUFFICES ASSUME U # {} PROVE FALSE
  OBVIOUS
<1>1. IsWellFoundedOn(Below, Nat)
  BY NatLessThanWellFounded
<1>2. U \subseteq Nat
  OBVIOUS
<1> HIDE DEF U, Below
<1>3. \E x \in U : \A y \in U : ~(<<y, x>> \in Below)
  BY <1>1, <1>2, WFMin
<1>4. PICK x \in U : \A y \in U : ~(<<y, x>> \in Below)
  BY <1>3
<1>5. x \in Nat /\ x \notin T
  BY <1>4 DEF U
<1>6. x # 0 /\ x - 1 \in Nat /\ (x - 1) + 1 = x
  BY <1>5
<1>7. x - 1 \notin T
  BY <1>5, <1>6
<1>8. x - 1 \in U /\ x - 1 < x
  BY <1>6, <1>7 DEF U
<1>9. <<x - 1, x>> \in Below
  BY <1>5, <1>6, <1>8 DEF Below, OpToRel
<1>10. QED
  BY <1>4, <1>8, <1>9

\* What is kept of each prefix of s.
Kept(s, t, i) == IF s[i] = 0 THEN t ELSE Append(t, s[i])
IsKept(s, g) ==
  /\ g \in [0..Len(s) -> Seq(Nat)] /\ g[0] = <<>>
  /\ \A i \in 1..Len(s) : g[i] = Kept(s, g[i-1], i)
KeptOf(s, g) ==
  [i \in 0..Len(s) |->
     IF i = 0 THEN <<>> ELSE IF s[i] = 0 THEN g[i-1] ELSE Append(g[i-1], s[i])]

LEMMA KeptIsFixed ==
  ASSUME NEW s \in Seq(Nat), NEW g
  PROVE  /\ IsKept(s, g) => g = KeptOf(s, g)
         /\ g = KeptOf(s, g) => /\ DOMAIN g = 0..Len(s) /\ g[0] = <<>>
                              /\ \A i \in 1..Len(s) : g[i] = Kept(s, g[i-1], i)
<1>1. Len(s) \in Nat
  OBVIOUS
<1> DEFINE n == Len(s)
<1> HIDE DEF n
<1>2. n \in Nat /\ Len(s) = n
  BY <1>1 DEF n
<1>3. ASSUME IsKept(s, g) PROVE g = KeptOf(s, g)
  <2>1. g = [i \in 0..n |-> g[i]]
    BY <1>2, <1>3 DEF IsKept
  <2>2. \A i \in 0..n : g[i] = IF i = 0 THEN <<>> ELSE IF s[i] = 0 THEN g[i-1] ELSE Append(g[i-1], s[i])
    <3>1. \A i \in 0..n : i = 0 \/ i \in 1..n
      BY <1>2
    <3>2. QED
      BY <3>1, <1>2, <1>3 DEF IsKept, Kept
  <2>3. QED
    BY <2>1, <2>2, <1>2 DEF KeptOf
<1>4. ASSUME g = KeptOf(s, g)
      PROVE  /\ DOMAIN g = 0..Len(s) /\ g[0] = <<>>
             /\ \A i \in 1..Len(s) : g[i] = Kept(s, g[i-1], i)
  <2>1. 0 \in 0..n /\ \A i \in 1..n : i \in 0..n /\ i # 0
    BY <1>2
  <2> DEFINE B == KeptOf(s, g)
  <2>2. DOMAIN B = 0..n /\ B[0] = <<>>
        /\ \A i \in 1..n : B[i] = IF s[i] = 0 THEN g[i-1] ELSE Append(g[i-1], s[i])
    BY <2>1, <1>2 DEF KeptOf
  <2> HIDE DEF B
  <2>3. g = B
    BY <1>4 DEF B
  <2>4. QED
    BY <2>2, <2>3, <1>2 DEF Kept
<1>5. QED
  BY <1>3, <1>4

\* What is kept is determined.
LEMMA KeptUnique ==
  ASSUME NEW s \in Seq(Nat), NEW g, IsKept(s, g), NEW h, h = KeptOf(s, h)
  PROVE  h[Len(s)] = g[Len(s)]
<1> DEFINE T == {m \in Nat : m <= Len(s) => h[m] = g[m]}
<1>0. Len(s) \in Nat
  OBVIOUS
<1>1. 0 \in T
  BY KeptIsFixed DEF IsKept
<1>2. \A m \in Nat : m \in T => m + 1 \in T
  <2> SUFFICES ASSUME NEW m \in Nat, m \in T, m + 1 <= Len(s) PROVE h[m + 1] = g[m + 1]
    OBVIOUS
  <2>1. h[m] = g[m] /\ m + 1 \in 1..Len(s) /\ (m + 1) - 1 = m
    BY <1>0
  <2>2. h[m + 1] = Kept(s, h[(m + 1) - 1], m + 1)
    BY <2>1, KeptIsFixed
  <2>3. g[m + 1] = Kept(s, g[(m + 1) - 1], m + 1)
    BY <2>1 DEF IsKept
  <2>4. QED
    BY <2>1, <2>2, <2>3
<1> HIDE DEF T
<1>3. Nat \subseteq T
  BY <1>1, <1>2, SetInduction
<1>4. QED
  BY <1>0, <1>3 DEF T

\* Every sequence has prefixes of which something is kept.
LEMMA KeptExists ==
  ASSUME NEW s \in Seq(Nat)
  PROVE  \E g : IsKept(s, g) /\ \A k \in 1..Len(g[Len(s)]) : \E j \in 1..Len(s) :
                                  g[Len(s)][k] = s[j] /\ s[j] # 0
<1> DEFINE n == Len(s)
           Good(m, g) ==
             /\ g \in [0..m -> Seq(Nat)] /\ g[0] = <<>>
             /\ \A i \in 1..m : g[i] = Kept(s, g[i-1], i)
             /\ \A k \in 1..Len(g[m]) : \E j \in 1..m : g[m][k] = s[j] /\ s[j] # 0
           T == {m \in Nat : m <= n => \E g : Good(m, g)}
<1>0. n \in Nat /\ \A i \in 1..n : s[i] \in Nat
  OBVIOUS
<1> HIDE DEF n, Good
<1>1. 0 \in T
  <2> DEFINE g == [i \in 0..0 |-> <<>>]
  <2>1. g \in [0..0 -> Seq(Nat)] /\ g[0] = <<>>
    OBVIOUS
  <2>2. 1..0 = {} /\ 1..Len(g[0]) = {}
    BY <2>1
  <2> HIDE DEF g
  <2>3. Good(0, g)
    BY <2>1, <2>2 DEF Good
  <2>4. QED
    BY <2>3
<1>2. \A m \in Nat : m \in T => m + 1 \in T
  <2> SUFFICES ASSUME NEW m \in Nat, m \in T, m + 1 <= n PROVE \E g : Good(m + 1, g)
    OBVIOUS
  <2>1. PICK g : Good(m, g)
    BY <1>0
  <2>10. /\ g \in [0..m -> Seq(Nat)] /\ g[0] = <<>>
         /\ \A i \in 1..m : g[i] = Kept(s, g[i-1], i)
         /\ \A k \in 1..Len(g[m]) : \E j \in 1..m : g[m][k] = s[j] /\ s[j] # 0
    BY <2>1 DEF Good
  <2> DEFINE x == Kept(s, g[m], m + 1)
             h == [i \in 0..m+1 |-> IF i = m + 1 THEN x ELSE g[i]]
  <2>2. m \in 0..m /\ g[m] \in Seq(Nat) /\ m + 1 \in 1..n /\ s[m + 1] \in Nat
    BY <2>10, <1>0
  <2>3. x \in Seq(Nat)
    BY <2>2 DEF Kept
  <2> HIDE DEF x
  <2>4. h \in [0..m+1 -> Seq(Nat)] /\ h[m + 1] = x /\ \A i \in 0..m : h[i] = g[i]
    <3>1. \A i \in 0..m+1 : i = m + 1 \/ i \in 0..m
      OBVIOUS
    <3>2. \A i \in 0..m : i # m + 1 /\ i \in 0..m+1
      OBVIOUS
    <3>3. m + 1 \in 0..m+1
      OBVIOUS
    <3>4. \A i \in 0..m : g[i] \in Seq(Nat)
      BY <2>10
    <3>5. QED
      BY <3>1, <3>2, <3>3, <3>4, <2>3
  <2> HIDE DEF h
  <2>5. h[0] = <<>>
    BY <2>10, <2>4
  <2>6. \A i \in 1..m+1 : h[i] = Kept(s, h[i-1], i)
    <3>1. \A i \in 1..m+1 : (i \in 1..m /\ i \in 0..m /\ i - 1 \in 0..m) \/ (i = m + 1 /\ i - 1 = m)
      OBVIOUS
    <3>2. h[m + 1] = Kept(s, h[m], m + 1)
      BY <2>2, <2>4 DEF x
    <3>3. QED
      BY <3>1, <3>2, <2>10, <2>4
  <2>7. \A k \in 1..Len(x) : \E j \in 1..m+1 : x[k] = s[j] /\ s[j] # 0
    <3>1. \A j \in 1..m : j \in 1..m+1
      OBVIOUS
    <3>2. CASE s[m + 1] = 0
      <4>1. x = g[m]
        BY <3>2 DEF x, Kept
      <4>2. QED
        BY <4>1, <3>1, <2>10
    <3>3. CASE s[m + 1] # 0
      <4> DEFINE t == g[m]
      <4>1. x = Append(t, s[m + 1]) /\ t \in Seq(Nat)
        BY <3>3, <2>2 DEF x, Kept
      <4>2. \A k \in 1..Len(t) : \E j \in 1..m : t[k] = s[j] /\ s[j] # 0
        BY <2>10
      <4> HIDE DEF t
      <4>3. \A k \in 1..Len(x) : (k \in 1..Len(t) /\ x[k] = t[k]) \/ x[k] = s[m + 1]
        BY <4>1, <2>2
      <4>4. m + 1 \in 1..m+1
        OBVIOUS
      <4>5. QED
        BY <4>2, <4>3, <4>4, <3>1, <3>3
    <3>4. QED
      BY <3>2, <3>3
  <2>8. Good(m + 1, h)
    BY <2>4, <2>5, <2>6, <2>7 DEF Good
  <2>9. QED
    BY <2>8
<1> HIDE DEF T
<1>3. Nat \subseteq T
  BY <1>1, <1>2, SetInduction
<1>4. \E g : Good(n, g)
  BY <1>0, <1>3 DEF T
<1>5. QED
  BY <1>4 DEF IsKept, n, Good

LEMMA RealIs ==
  ASSUME NEW s \in Seq(Nat), NEW g, IsKept(s, g)
  PROVE  Real(s) = g[Len(s)]
<1> DEFINE h == CHOOSE f : f = KeptOf(s, f)
<1>1. Real(s) = h[Len(s)]
  BY DEF Real, KeptOf
<1>2. \E f : f = KeptOf(s, f)
  BY KeptIsFixed
<1>3. h = KeptOf(s, h)
  BY <1>2
<1> HIDE DEF h
<1>4. QED
  BY <1>1, <1>3, KeptUnique

LEMMA RealElements ==
  ASSUME NEW s \in Seq(Nat)
  PROVE  /\ Real(s) \in Seq(Nat)
         /\ \A k \in 1..Len(Real(s)) : \E j \in 1..Len(s) : Real(s)[k] = s[j] /\ s[j] # 0
<1>1. PICK g : IsKept(s, g) /\ \A k \in 1..Len(g[Len(s)]) : \E j \in 1..Len(s) :
                                  g[Len(s)][k] = s[j] /\ s[j] # 0
  BY KeptExists
<1>2. Real(s) = g[Len(s)]
  BY <1>1, RealIs
<1>3. Len(s) \in 0..Len(s)
  OBVIOUS
<1>4. QED
  BY <1>1, <1>2, <1>3 DEF IsKept

LEMMA RealAppend ==
  ASSUME NEW s \in Seq(Nat), NEW x \in Nat
  PROVE  Real(Append(s, x)) = IF x = 0 THEN Real(s) ELSE Append(Real(s), x)
<1> DEFINE n == Len(s)
           t == Append(s, x)
<1>1. PICK g : IsKept(s, g)
  BY KeptExists
<1>2. Real(s) = g[n]
  BY <1>1, RealIs
<1>3. /\ n \in Nat /\ t \in Seq(Nat) /\ Len(t) = n + 1 /\ t[n + 1] = x
      /\ \A i \in 1..n : t[i] = s[i]
  OBVIOUS
<1> DEFINE y == IF x = 0 THEN g[n] ELSE Append(g[n], x)
           h == [i \in 0..n+1 |-> IF i = n + 1 THEN y ELSE g[i]]
<1> HIDE DEF n, t
<1>4. Len(s) = n /\ t = Append(s, x)
  BY DEF n, t
<1>5. g[n] \in Seq(Nat) /\ \A i \in 0..n : g[i] \in Seq(Nat)
  BY <1>1, <1>3, <1>4 DEF IsKept
<1>6. y \in Seq(Nat)
  BY <1>5
<1> HIDE DEF y
<1>7. h \in [0..n+1 -> Seq(Nat)] /\ h[n + 1] = y /\ \A i \in 0..n : h[i] = g[i]
  <2>1. \A i \in 0..n+1 : i = n + 1 \/ i \in 0..n
    BY <1>3
  <2>2. \A i \in 0..n : i # n + 1 /\ i \in 0..n+1
    BY <1>3
  <2>3. n + 1 \in 0..n+1
    BY <1>3
  <2>4. QED
    BY <2>1, <2>2, <2>3, <1>5, <1>6
<1> HIDE DEF h
<1>8. \A i \in 1..n+1 : h[i] = Kept(t, h[i-1], i)
  <2>1. \A i \in 1..n+1 : (i \in 1..n /\ i \in 0..n /\ i - 1 \in 0..n) \/ (i = n + 1 /\ i - 1 = n)
    BY <1>3
  <2>2. n \in 0..n
    BY <1>3
  <2>3. h[n + 1] = Kept(t, h[n], n + 1)
    BY <2>2, <1>3, <1>7 DEF Kept, y
  <2>4. QED
    BY <2>1, <2>3, <1>1, <1>3, <1>4, <1>7 DEF IsKept, Kept
<1>9. h[0] = <<>>
  <2>1. 0 \in 0..n
    BY <1>3
  <2>2. QED
    BY <2>1, <1>1, <1>7 DEF IsKept
<1>10. IsKept(t, h)
  BY <1>3, <1>7, <1>8, <1>9 DEF IsKept
<1>11. Real(t) = h[n + 1]
  BY <1>3, <1>10, RealIs
<1>12. QED
  BY <1>2, <1>4, <1>7, <1>11 DEF y

LEMMA RealFront ==
  ASSUME NEW s \in Seq(Nat), s # <<>>
  PROVE  Real(s) = IF s[1] = 0 THEN Real(Tail(s)) ELSE <<s[1]>> \o Real(Tail(s))
<1> DEFINE n == Len(s)
           t == Tail(s)
<1>1. /\ n \in Nat \ {0} /\ t \in Seq(Nat) /\ Len(t) = n - 1 /\ s[1] \in Nat
      /\ \A i \in 1..n-1 : t[i] = s[i + 1]
      /\ \A i \in 1..n : s[i] \in Nat
  OBVIOUS
<1> HIDE DEF n, t
<1>2. Len(s) = n /\ t = Tail(s)
  BY DEF n, t
<1>3. PICK h : IsKept(t, h)
  BY <1>1, KeptExists
<1>4. Real(t) = h[n - 1]
  BY <1>1, <1>3, RealIs
<1>5. \A i \in 0..n-1 : h[i] \in Seq(Nat)
  BY <1>1, <1>3 DEF IsKept
<1> DEFINE front(q) == IF s[1] = 0 THEN q ELSE <<s[1]>> \o q
           g == [i \in 0..n |-> IF i = 0 THEN <<>> ELSE front(h[i - 1])]
<1>6. \A q \in Seq(Nat) : front(q) \in Seq(Nat)
  BY <1>1
<1>7. ASSUME NEW q \in Seq(Nat), NEW x \in Nat
      PROVE  front(Append(q, x)) = Append(front(q), x)
  <2> DEFINE y == s[1]
  <2>1. y \in Nat
    BY <1>1
  <2> HIDE DEF y
  <2>2. <<y>> \o Append(q, x) = Append(<<y>> \o q, x)
    BY <2>1
  <2>3. QED
    BY <2>2 DEF y
<1>8. front(<<>>) = IF s[1] = 0 THEN <<>> ELSE Append(<<>>, s[1])
  BY <1>1
<1> HIDE DEF front
<1>9. g \in [0..n -> Seq(Nat)] /\ g[0] = <<>> /\ \A i \in 1..n : g[i] = front(h[i - 1])
  <2>1. \A i \in 0..n : i = 0 \/ (i \in 1..n /\ i - 1 \in 0..n-1)
    BY <1>1
  <2>2. 0 \in 0..n /\ \A i \in 1..n : i \in 0..n /\ i # 0
    BY <1>1
  <2>3. <<>> \in Seq(Nat)
    OBVIOUS
  <2>4. QED
    BY <2>1, <2>2, <2>3, <1>5, <1>6
<1> HIDE DEF g
<1>10. \A i \in 1..n : g[i] = Kept(s, g[i-1], i)
  <2>1. g[1] = Kept(s, g[0], 1)
    <3>1. 1 \in 1..n /\ 1 - 1 = 0
      BY <1>1
    <3>2. h[0] = <<>>
      BY <1>3 DEF IsKept
    <3>3. QED
      BY <3>1, <3>2, <1>8, <1>9 DEF Kept
  <2>2. ASSUME NEW i \in 2..n PROVE g[i] = Kept(s, g[i-1], i)
    <3>1. /\ i \in 1..n /\ i - 1 \in 1..n-1 /\ i - 1 \in 1..n /\ (i - 1) + 1 = i
          /\ (i - 1) - 1 \in 0..n-1
      BY <1>1
    <3> DEFINE q == h[(i - 1) - 1]
    <3>2. h[i - 1] = Kept(t, q, i - 1) /\ t[i - 1] = s[i]
      BY <3>1, <1>1, <1>3 DEF IsKept
    <3>3. q \in Seq(Nat) /\ s[i] \in Nat
      BY <3>1, <1>1, <1>5
    <3>4. g[i] = front(h[i - 1]) /\ g[i - 1] = front(q)
      BY <3>1, <1>9
    <3> HIDE DEF q
    <3>5. QED
      BY <3>2, <3>3, <3>4, <1>7 DEF Kept
  <2>3. \A i \in 1..n : i = 1 \/ i \in 2..n
    BY <1>1
  <2>4. QED
    BY <2>1, <2>2, <2>3
<1>11. IsKept(s, g)
  BY <1>2, <1>9, <1>10 DEF IsKept
<1>12. Real(s) = g[n]
  BY <1>2, <1>11, RealIs
<1>13. n \in 1..n
  BY <1>1
<1>14. QED
  BY <1>2, <1>4, <1>9, <1>12, <1>13 DEF front

-----------------------------------------------------------------------------
(* Frame numbers and the frames they stand for.                            *)

\* FramesOf at any moment.
Carried(q, r) == [i \in DOMAIN q |-> r[q[i]]]

LEMMA CarriedProps ==
  ASSUME NEW r \in Seq(Nat), NEW q \in Seq(1..Len(r))
  PROVE  /\ Carried(q, r) \in Seq(Nat) /\ Len(Carried(q, r)) = Len(q)
         /\ \A i \in 1..Len(q) : q[i] \in 1..Len(r) /\ Carried(q, r)[i] = r[q[i]]
<1> DEFINE n == Len(q)
           m == Len(r)
<1>1. n \in Nat /\ m \in Nat /\ DOMAIN q = 1..n /\ \A i \in 1..n : q[i] \in 1..m
  OBVIOUS
<1>2. \A j \in 1..m : r[j] \in Nat
  OBVIOUS
<1> HIDE DEF n, m
<1>3. Carried(q, r) = [i \in 1..n |-> r[q[i]]] /\ \A i \in 1..n : r[q[i]] \in Nat
  BY <1>1, <1>2 DEF Carried
<1>4. [i \in 1..n |-> r[q[i]]] \in Seq(Nat) /\ Len([i \in 1..n |-> r[q[i]]]) = n
  BY <1>1, <1>3
<1>5. QED
  BY <1>1, <1>3, <1>4 DEF n, m

LEMMA SameFrames ==
  ASSUME NEW p \in Seq(Nat), NEW q \in Seq(Nat), Len(p) = Len(q),
         \A i \in 1..Len(p) : p[i] = q[i]
  PROVE  p = q
OBVIOUS

\* A number that is added at the end adds its frame.
LEMMA CarriedAppend ==
  ASSUME NEW r \in Seq(Nat), NEW q \in Seq(1..Len(r)), NEW f \in 1..Len(r)
  PROVE  Carried(Append(q, f), r) = Append(Carried(q, r), r[f])
<1> DEFINE x == Carried(Append(q, f), r)
           y == Append(Carried(q, r), r[f])
           n == Len(q)
           a == Append(q, f)
<1>1. /\ n \in Nat /\ a \in Seq(1..Len(r)) /\ Len(a) = n + 1 /\ a[n + 1] = f
      /\ \A i \in 1..n : a[i] = q[i]
  OBVIOUS
<1>2. r[f] \in Nat
  OBVIOUS
<1>3. /\ Carried(q, r) \in Seq(Nat) /\ Len(Carried(q, r)) = n
      /\ \A i \in 1..n : Carried(q, r)[i] = r[q[i]]
  BY CarriedProps
<1>4. /\ y \in Seq(Nat) /\ Len(y) = n + 1 /\ y[n + 1] = r[f]
      /\ \A i \in 1..n : y[i] = r[q[i]]
  <2> DEFINE c == Carried(q, r)
             z == r[f]
  <2>1. c \in Seq(Nat) /\ Len(c) = n /\ z \in Nat
    BY <1>2, <1>3
  <2> HIDE DEF c, z, n
  <2>2. /\ Append(c, z) \in Seq(Nat) /\ Len(Append(c, z)) = n + 1
        /\ Append(c, z)[n + 1] = z /\ \A i \in 1..n : Append(c, z)[i] = c[i]
    BY <2>1
  <2>3. QED
    BY <2>2, <1>3 DEF c, z
<1> HIDE DEF a
<1>5. Carried(a, r) \in Seq(Nat) /\ Len(Carried(a, r)) = n + 1
      /\ \A i \in 1..n+1 : Carried(a, r)[i] = r[a[i]]
  <2>1. /\ Carried(a, r) \in Seq(Nat) /\ Len(Carried(a, r)) = Len(a)
        /\ \A i \in 1..Len(a) : Carried(a, r)[i] = r[a[i]]
    BY <1>1, CarriedProps
  <2>2. QED
    BY <2>1, <1>1
<1>6. x = Carried(a, r)
  BY DEF a
<1> HIDE DEF x, y, n
<1>7. \A i \in 1..n+1 : x[i] = y[i]
  <2>1. \A i \in 1..n+1 : i \in 1..n \/ i = n + 1
    BY <1>1
  <2>2. QED
    BY <2>1, <1>1, <1>4, <1>5, <1>6
<1>8. x = y
  BY <1>4, <1>5, <1>6, <1>7, SameFrames
<1>9. QED
  BY <1>8 DEF x, y

\* The frame of the first number, and those of the others.
LEMMA CarriedTail ==
  ASSUME NEW r \in Seq(Nat), NEW q \in Seq(1..Len(r)), q # <<>>
  PROVE  /\ Carried(q, r) # <<>> /\ Carried(q, r)[1] = r[Head(q)] /\ Head(q) \in 1..Len(r)
         /\ Tail(q) \in Seq(1..Len(r))
         /\ Carried(Tail(q), r) = Tail(Carried(q, r))
<1> DEFINE x == Carried(q, r)
           t == Tail(q)
           n == Len(q)
<1>1. /\ n \in Nat \ {0} /\ t \in Seq(1..Len(r)) /\ Len(t) = n - 1
      /\ \A i \in 1..n-1 : t[i] = q[i + 1]
      /\ Head(q) = q[1] /\ q[1] \in 1..Len(r)
  OBVIOUS
<1>2. x \in Seq(Nat) /\ Len(x) = n /\ \A i \in 1..n : x[i] = r[q[i]]
  BY CarriedProps
<1> HIDE DEF t
<1>3. /\ Carried(t, r) \in Seq(Nat) /\ Len(Carried(t, r)) = Len(t)
      /\ \A i \in 1..Len(t) : Carried(t, r)[i] = r[t[i]]
  BY <1>1, CarriedProps
<1> HIDE DEF x, n
<1>4. /\ x # <<>> /\ Tail(x) \in Seq(Nat) /\ Len(Tail(x)) = n - 1
      /\ \A i \in 1..n-1 : Tail(x)[i] = x[i + 1]
  BY <1>1, <1>2
<1>5. ASSUME NEW i \in 1..n-1 PROVE Tail(x)[i] = Carried(t, r)[i]
  <2>1. i + 1 \in 1..n
    BY <1>1
  <2>2. Tail(x)[i] = r[q[i + 1]]
    BY <2>1, <1>2, <1>4
  <2>3. Carried(t, r)[i] = r[t[i]]
    BY <1>1, <1>3
  <2>4. QED
    BY <2>2, <2>3, <1>1
<1>6. Carried(t, r) = Tail(x)
  BY <1>1, <1>3, <1>4, <1>5, SameFrames
<1>7. 1 \in 1..n
  BY <1>1
<1>8. QED
  BY <1>1, <1>2, <1>4, <1>6, <1>7 DEF x, t

LEMMA SeqWithin ==
  ASSUME NEW S, NEW T, NEW q \in Seq(S), \A i \in 1..Len(q) : q[i] \in T
  PROVE  q \in Seq(T)
OBVIOUS

LEMMA ConcatBelow ==
  ASSUME NEW p \in Seq(Nat), NEW q \in Seq(Nat), NEW x,
         \A k \in DOMAIN p : p[k] < x, \A k \in DOMAIN q : q[k] < x
  PROVE  \A i \in DOMAIN (p \o q) : (p \o q)[i] < x
<1> SUFFICES ASSUME NEW i \in DOMAIN (p \o q) PROVE (p \o q)[i] < x
  OBVIOUS
<1>1. CASE i \in 1..Len(p)
  <2>1. (p \o q)[i] = p[i] /\ i \in DOMAIN p
    BY <1>1
  <2>2. QED
    BY <2>1
<1>2. CASE i \notin 1..Len(p)
  <2>1. (p \o q)[i] = q[i - Len(p)] /\ i - Len(p) \in DOMAIN q
    BY <1>2
  <2>2. QED
    BY <2>1
<1>3. QED
  BY <1>1, <1>2

\* A frame received later changes none of them.
LEMMA CarriedLater ==
  ASSUME NEW r \in Seq(Nat), NEW q \in Seq(1..Len(r)), NEW x \in Nat
  PROVE  /\ q \in Seq(1..Len(Append(r, x)))
         /\ Carried(q, Append(r, x)) = Carried(q, r)
<1> DEFINE s == Append(r, x)
           m == Len(r)
<1>1. /\ m \in Nat /\ s \in Seq(Nat) /\ Len(s) = m + 1 /\ \A i \in 1..m : s[i] = r[i]
      /\ \A i \in DOMAIN q : q[i] \in 1..m
  OBVIOUS
<1> HIDE DEF s, m
<1>2. 1..m \subseteq 1..m+1
  BY <1>1
<1>3. q \in Seq(1..m+1)
  <2>1. q \in Seq(1..m)
    BY DEF m
  <2>2. QED
    <3>1. DOMAIN q = 1..Len(q)
      BY <2>1
    <3>2. \A i \in 1..Len(q) : q[i] \in 1..m+1
      BY <3>1, <1>1, <1>2
    <3>3. QED
      BY <2>1, <3>2, SeqWithin
<1>4. Carried(q, s) = Carried(q, r)
  BY <1>1 DEF Carried
<1>5. QED
  BY <1>1, <1>3, <1>4 DEF s

-----------------------------------------------------------------------------
(* The refinement of FrameFifo.                                            *)

\* The numbers that are pending or delivered are numbers of frames received.
Numbers ==
  /\ received \in Seq(Nat)
  /\ QP!Pending \in Seq(1..Len(received)) /\ delivered \in Seq(1..Len(received))

LEMMA InvNumbers == IInv => Numbers
<1> SUFFICES ASSUME IInv PROVE Numbers
  OBVIOUS
<1> DEFINE n == Len(received)
<1>1. received \in Seq(Nat) /\ n \in Nat
  <2>1. received \in Seq(0..MaxFrames) /\ MaxFrames \in Nat
    BY RxPathAssumption DEF IInv, RP!IInv, RP!TypeOK
  <2>2. QED
    BY <2>1
<1>2. /\ chain \in Seq(Skb) /\ \A i \in DOMAIN chain : live[chain[i]]
      /\ timerPc = "shifted" => cur \in Skb /\ live[cur]
      /\ \A s \in Skb : live[s] => frame[s] \in 1..n
      /\ \A i \in DOMAIN delivered : delivered[i] \in 1..n
      /\ delivered \in Seq(0..2 * MaxFrames)
  <2>1. QP!TypeOK /\ QP!ListSound /\ QP!Numbered /\ QP!Control
    BY DEF IInv, QP!IInv
  <2>2. timerPc = "shifted" => cur # NULL
    BY <2>1 DEF QP!Control
  <2>3. QED
    BY <2>1, <2>2 DEF QP!TypeOK, QP!ListSound, QP!Numbered
<1> HIDE DEF n
<1>3. delivered \in Seq(1..n)
  <2>1. DOMAIN delivered = 1..Len(delivered)
    BY <1>2
  <2>2. \A i \in 1..Len(delivered) : delivered[i] \in 1..n
    BY <2>1, <1>2
  <2>3. QED
    BY <1>2, <2>2, SeqWithin
<1>4. QP!Pending \in Seq(1..n)
  <2> DEFINE h == IF timerPc = "shifted" THEN <<frame[cur]>> ELSE <<>>
             c == [i \in DOMAIN chain |-> frame[chain[i]]]
             k == Len(chain)
  <2>1. h \in Seq(1..n)
    <3>1. timerPc = "shifted" => frame[cur] \in 1..n
      BY <1>2
    <3>2. CASE timerPc = "shifted"
      <4> DEFINE f == frame[cur]
      <4>1. f \in 1..n /\ h = <<f>>
        BY <3>1, <3>2
      <4> HIDE DEF f, h
      <4>2. QED
        BY <4>1
    <3>3. CASE timerPc # "shifted"
      BY <3>3
    <3>4. QED
      BY <3>2, <3>3
  <2>2. k \in Nat /\ DOMAIN chain = 1..k /\ \A i \in 1..k : chain[i] \in Skb
    BY <1>2
  <2> HIDE DEF k
  <2>3. \A i \in 1..k : frame[chain[i]] \in 1..n
    BY <2>2, <1>2
  <2>4. c \in Seq(1..n)
    BY <2>2, <2>3
  <2> HIDE DEF h, c
  <2>5. h \o c \in Seq(1..n)
    BY <2>1, <2>4
  <2>6. QED
    BY <2>5 DEF QP!Pending, h, c
<1>5. QED
  BY <1>1, <1>3, <1>4 DEF n, Numbers

\* A step of the path receives one frame or none.
LEMMA ReceiveStep ==
  IInv /\ [Next]_vars =>
    received' = received \/ \E x \in Nat : received' = Append(received, x)
<1> SUFFICES ASSUME IInv, Next \/ UNCHANGED vars
             PROVE  received' = received \/ \E x \in Nat : received' = Append(received, x)
  OBVIOUS
<1>1. CASE TakeWhole \/ Skip
  <2>1. ring[current_rx_buffer].frame \in Nat
    <3>1. \A w \in RP!Words : w.frame \in Nat
      BY RxPathAssumption DEF RP!Words, RP!Own, RP!Frame
    <3>2. ring[current_rx_buffer] \in RP!Words
      BY DEF IInv, RP!IInv, RP!TypeOK
    <3>3. QED
      BY <3>1, <3>2
  <2>2. QED
    BY <1>1, <2>1 DEF TakeWhole, Skip, R!Take, R!TakePanics, R!TakeTo
<1>2. CASE Card \/ Enter \/ GiveBack \/ Advance \/ LoopEnd \/ Leave
  BY <1>2 DEF Card, Enter, GiveBack, Advance, LoopEnd, Leave, R!CardStores, R!CardMisses,
     R!CardSent, R!NeighbourWrites, R!Enter, R!EnterAt, R!GiveBack, R!Advance, R!StepTo,
     R!LoopEnd, R!Acknowledge, R!histVars
<1>3. CASE Push \/ Tick \/ Callback \/ SkbFree \/ UNCHANGED vars
  BY <1>3 DEF Push, Tick, Callback, SkbFree, vars, ringVars
<1>4. QED
  BY <1>1, <1>2, <1>3 DEF Next, Handler

LEMMA StepRefines ==
  IInv /\ IInv' /\ QP!FramesInOrder /\ [Next]_vars => [Fifo!Next]_(Fifo!vars)
<1> SUFFICES ASSUME IInv, IInv', QP!FramesInOrder, [Next]_vars
             PROVE  [Fifo!Next]_(Fifo!vars)
  OBVIOUS
<1> DEFINE p == QP!Pending
           r == received
           Q0 == Real(Carried(p, r))
           D0 == Real(Carried(delivered, r))
           Q1 == Real(Carried(p', r'))
           D1 == Real(Carried(delivered', r'))
<1>1. /\ r \in Seq(Nat) /\ p \in Seq(1..Len(r)) /\ delivered \in Seq(1..Len(r))
  BY InvNumbers DEF Numbers
<1>2. /\ r' \in Seq(Nat) /\ p' \in Seq(1..Len(r')) /\ delivered' \in Seq(1..Len(r'))
  <2>1. Numbers'
    BY InvNumbers, PTL
  <2>2. QED
    BY <2>1 DEF Numbers
<1>3. /\ p \in Seq(1..Len(r')) /\ delivered \in Seq(1..Len(r'))
      /\ Carried(p, r') = Carried(p, r) /\ Carried(delivered, r') = Carried(delivered, r)
  <2>1. CASE r' = r
    BY <1>1, <2>1
  <2>2. ASSUME NEW x \in Nat, r' = Append(r, x)
        PROVE  /\ p \in Seq(1..Len(r')) /\ delivered \in Seq(1..Len(r'))
               /\ Carried(p, r') = Carried(p, r)
               /\ Carried(delivered, r') = Carried(delivered, r)
    BY <1>1, <2>2, CarriedLater
  <2>3. QED
    BY <2>1, <2>2, ReceiveStep
<1>4. /\ Carried(p, r') \in Seq(Nat) /\ Carried(delivered, r') \in Seq(Nat)
  BY <1>2, <1>3, CarriedProps
<1>5. /\ Q0 = Real(Carried(p, r')) /\ D0 = Real(Carried(delivered, r'))
  BY <1>3
<1>6. /\ Q0 = Real(FramesOf(Q!Pending)) /\ D0 = Real(FramesOf(delivered))
      /\ Q1 = Real(FramesOf(Q!Pending))' /\ D1 = Real(FramesOf(delivered))'
  BY DEF FramesOf, Carried, Q!Pending, QP!Pending
<1>7. /\ Q0 \in Seq(Nat) /\ D0 \in Seq(Nat)
  BY <1>4, <1>5, RealElements
<1>8. /\ Q1 = Q0 /\ D1 = D0 => UNCHANGED Fifo!vars
  BY <1>6 DEF Fifo!vars
\* A frame is linked.
<1>9. ASSUME NEW f, p' = Append(p, f), delivered' = delivered,
             \A i \in DOMAIN (delivered \o p) : (delivered \o p)[i] < f
      PROVE  [Fifo!Next]_(Fifo!vars)
  <2>1. f \in 1..Len(r') /\ r'[f] \in Nat
    <3>1. Len(p') \in DOMAIN p' /\ p'[Len(p')] = f
      BY <1>1, <1>9
    <3>2. QED
      BY <3>1, <1>2
  <2> DEFINE x == r'[f]
  <2>2. Carried(p', r') = Append(Carried(p, r'), x)
    BY <1>2, <1>3, <1>9, <2>1, CarriedAppend
  <2>3. Q1 = IF x = 0 THEN Q0 ELSE Append(Q0, x)
    BY <1>4, <1>5, <2>1, <2>2, RealAppend
  <2>4. D1 = D0
    BY <1>5, <1>9
  <2>5. CASE x = 0
    BY <1>8, <2>3, <2>4, <2>5
  <2>6. CASE x # 0
    <3>1. ASSUME NEW i \in 1..Len(r'), i < f, r'[i] # 0 PROVE r'[i] < x
      BY <2>1, <2>6, <3>1 DEF IInv, RP!IInv, RP!Handed
    <3>2. \A i \in 1..Len(delivered) : delivered[i] < f
      <4>1. \A i \in 1..Len(delivered) :
              i \in DOMAIN (delivered \o p) /\ (delivered \o p)[i] = delivered[i]
        BY <1>1
      <4>2. QED
        BY <4>1, <1>9
    <3>3. \A i \in 1..Len(p) : p[i] < f
      <4>1. \A i \in 1..Len(p) :
              /\ Len(delivered) + i \in DOMAIN (delivered \o p)
              /\ (delivered \o p)[Len(delivered) + i] = p[i]
        BY <1>1
      <4>2. QED
        BY <4>1, <1>9
    <3>4. ASSUME NEW q \in Seq(1..Len(r')), \A i \in 1..Len(q) : q[i] < f
          PROVE  \A k \in DOMAIN Real(Carried(q, r')) : Real(Carried(q, r'))[k] < x
      <4> DEFINE c == Carried(q, r')
      <4>1. c \in Seq(Nat) /\ Len(c) = Len(q)
            /\ \A i \in 1..Len(q) : q[i] \in 1..Len(r') /\ c[i] = r'[q[i]]
        BY <1>2, CarriedProps
      <4> HIDE DEF c
      <4>2. /\ Real(c) \in Seq(Nat)
            /\ \A k \in 1..Len(Real(c)) : \E j \in 1..Len(c) : Real(c)[k] = c[j] /\ c[j] # 0
        BY <4>1, RealElements
      <4>3. \A j \in 1..Len(q) : c[j] # 0 => c[j] < x
        BY <4>1, <3>1, <3>4
      <4>4. DOMAIN Real(c) = 1..Len(Real(c))
        BY <4>2
      <4>5. QED
        BY <4>1, <4>2, <4>3, <4>4 DEF c
    <3>5. /\ \A k \in DOMAIN Q0 : Q0[k] < x
          /\ \A k \in DOMAIN D0 : D0[k] < x
      BY <1>3, <1>5, <3>2, <3>3, <3>4
    <3>6. \A i \in DOMAIN (D0 \o Q0) : (D0 \o Q0)[i] < x
      <4> HIDE DEF D0, Q0, x
      <4>1. QED
        BY <1>7, <3>5, ConcatBelow
    <3>7. x \in 1..MaxFrames
      <4>1. received' \in Seq(0..MaxFrames) /\ MaxFrames \in Nat
        BY RxPathAssumption DEF IInv, RP!IInv, RP!TypeOK
      <4>2. x \in 0..MaxFrames
        BY <4>1, <2>1
      <4>3. QED
        BY <4>1, <4>2, <2>6
    <3>8. Fifo!Accept(x)
      BY <1>6, <2>3, <2>4, <2>6, <3>6 DEF Fifo!Accept, Fifo!Accepted
    <3>9. QED
      BY <3>7, <3>8 DEF Fifo!Next
  <2>7. QED
    BY <2>5, <2>6
\* A frame is handed over.
<1>10. ASSUME p # <<>>, delivered' = Append(delivered, Head(p)), p' = Tail(p)
       PROVE  [Fifo!Next]_(Fifo!vars)
  <2> DEFINE f == Head(p)
             x == r'[f]
  <2>1. /\ Carried(p, r') # <<>> /\ Carried(p, r')[1] = x /\ f \in 1..Len(r')
        /\ Carried(p', r') = Tail(Carried(p, r'))
    BY <1>2, <1>3, <1>10, CarriedTail
  <2>2. x \in Nat
    BY <1>2, <2>1
  <2>3. Carried(delivered', r') = Append(Carried(delivered, r'), x)
    BY <1>2, <1>3, <1>10, <2>1, CarriedAppend
  <2>4. Q0 = IF x = 0 THEN Q1 ELSE <<x>> \o Q1
    BY <1>4, <1>5, <2>1, RealFront
  <2>5. D1 = IF x = 0 THEN D0 ELSE Append(D0, x)
    BY <1>4, <1>5, <2>2, <2>3, RealAppend
  <2>6. CASE x = 0
    BY <1>8, <2>4, <2>5, <2>6
  <2>7. CASE x # 0
    <3>1. Q1 \in Seq(Nat)
      BY <1>2, CarriedProps, RealElements
    <3>2. Q0 # <<>> /\ Head(Q0) = x /\ Tail(Q0) = Q1
      <4>1. Q0 = <<x>> \o Q1
        BY <2>4, <2>7
      <4> HIDE DEF Q0, Q1, x
      <4>2. QED
        BY <4>1, <3>1, <2>2
    <3>3. Fifo!HandOver
      BY <1>6, <2>5, <2>7, <3>2 DEF Fifo!HandOver
    <3>4. QED
      BY <3>3 DEF Fifo!Next
  <2>8. QED
    BY <2>6, <2>7
<1>11. [QP!Fifo!Next]_(QP!Fifo!vars)
  BY PartAssumptions, QueueStep, QP!StepRefines DEF IInv
<1>12. \/ p' = p /\ delivered' = delivered
       \/ \E f \in 1..2 * MaxFrames : QP!Fifo!Accept(f)
       \/ QP!Fifo!HandOver
  BY <1>11 DEF QP!Fifo!Next, QP!Fifo!vars
<1>13. CASE p' = p /\ delivered' = delivered
  BY <1>5, <1>8, <1>13
<1>14. ASSUME NEW f, QP!Fifo!Accept(f) PROVE [Fifo!Next]_(Fifo!vars)
  BY <1>9, <1>14 DEF QP!Fifo!Accept, QP!Fifo!Accepted
<1>15. CASE QP!Fifo!HandOver
  BY <1>10, <1>15 DEF QP!Fifo!HandOver
<1>16. QED
  BY <1>12, <1>13, <1>14, <1>15

LEMMA InitRefines == Init => Fifo!Init
<1> SUFFICES ASSUME Init PROVE Fifo!Init
  OBVIOUS
<1>1. Q!Pending = <<>> /\ delivered = <<>>
  BY DEF Init, Q!Init, Q!Pending
<1>2. FramesOf(<<>>) = <<>>
  BY DEF FramesOf
<1>3. Real(<<>>) = <<>>
  <2>1. <<>> \in Seq(Nat) /\ Len(<<>>) = 0
    OBVIOUS
  <2> DEFINE x == Real(<<>>)
  <2>2. x \in Seq(Nat) /\ \A k \in 1..Len(x) : \E j \in 1..0 : TRUE
    BY <2>1, RealElements
  <2> HIDE DEF x
  <2>3. x = <<>>
    BY <2>2
  <2>4. QED
    BY <2>3 DEF x
<1>4. QED
  BY <1>1, <1>2, <1>3 DEF Fifo!Init

\* The whole path, from the descriptors of the ring to reveice_callback, is the
\* FIFO FrameFifo describes: the protocols get the frames in the order the card
\* stored them, each at most once, and no frame that is linked is lost before it
\* is handed over.
THEOREM PathRefinesFifo == Spec => RefinesFifo
<1>1. Init => QP!FramesInOrder
  <2>1. Init => QP!Init
    BY DEF Init, Q!Init, QP!Init
  <2>2. QED
    BY <2>1, PartAssumptions, QP!InitOrder
<1>2. IInv /\ QP!FramesInOrder /\ [Next]_vars => QP!FramesInOrder'
  BY PartAssumptions, QueueStep, QP!OrderNext DEF IInv
<1>3. Spec => [](IInv /\ QP!FramesInOrder)
  BY <1>1, <1>2, InitInv, NextInv, PTL DEF Spec
<1>4. QED
  BY <1>3, InitRefines, StepRefines, PTL DEF Spec, RefinesFifo, Fifo!Spec

=============================================================================
