----------------------------- MODULE RxRingProofs -----------------------------
(***************************************************************************)
(* Proofs about RxRing, for every size of the ring and every number of     *)
(* frames.  The inductive invariant says                                   *)
(*   - Words: what stands in the ring and behind it;                       *)
(*   - Shape: the descriptors that wait lie from the driver's next one on  *)
(*     to the card's;                                                      *)
(*   - Order: their frames are in the order of their numbers, and the good *)
(*     ones not yet handed over are the rest of stored;                    *)
(*   - Handed: what has been handed over is the beginning of stored;       *)
(*   - Seen: which frames RINT or the handler still knows of.              *)
(***************************************************************************)
EXTENDS RxRing, TLAPS, FiniteSetTheorems

\* Turn, without a division.
T == IF pc = "step" /\ current_rx_buffer < Count
       THEN IF current_rx_buffer + 1 = Count THEN 0 ELSE current_rx_buffer + 1
       ELSE IF current_rx_buffer = Count THEN 0 ELSE current_rx_buffer

\* The descriptor k after it.
Pos(k) == IF T + k < Count THEN T + k ELSE T + k - Count

N == Cardinality(Waiting)

\* The frames handed over so far.
K == Rank(Len(received))

\* The handler has handed over the frame of descriptor i and not given it back.
Taken(i) == pc = "give" /\ i = current_rx_buffer

RingWords ==
  /\ ring[Count] \in Foreign
  /\ \A i \in 0..Count-1 :
       ring[i] = Own \/ \E f \in 1..arrived, g \in BOOLEAN : ring[i] = Frame(f, g)
  /\ missed <= arrived

Shape ==
  /\ N \in 0..Count
  /\ \A k \in 0..Count-1 : ring[Pos(k)].own <=> k >= N
  /\ devIndex = Pos(N)
  /\ pc = "give" /\ current_rx_buffer < Count => ~ring[current_rx_buffer].own

Order ==
  /\ \A j, k \in 0..N-1 : j < k => ring[Pos(j)].frame < ring[Pos(k)].frame
  /\ \A p, q \in 1..Len(stored) : p < q => stored[p] < stored[q]
  /\ \A p \in 1..Len(stored) : stored[p] <= arrived
  /\ \A p \in K+1..Len(stored) : \E i \in Waiting :
       ring[i].good /\ ring[i].frame = stored[p] /\ ~Taken(i)
  /\ \A i \in Waiting : ring[i].good /\ ~Taken(i) =>
       \E p \in K+1..Len(stored) : ring[i].frame = stored[p]
  /\ \A i \in Waiting : ~ring[i].good =>
       \A p \in 1..Len(stored) : stored[p] # ring[i].frame

Handed ==
  /\ K <= Len(stored)
  /\ \A i \in DOMAIN received :
       received[i] # 0 => Rank(i) \in 1..K /\ received[i] = stored[Rank(i)]
  /\ \A i, j \in DOMAIN received :
       i < j /\ received[i] # 0 /\ received[j] # 0 => received[i] < received[j]
  /\ \A p \in 1..K : \E i \in DOMAIN received : received[i] = stored[p]

Seen ==
  /\ pc \in {"loop", "give", "step"} => rint /\ temp.rint
  /\ Waiting # {} => rint \/ lateFrame \/ current_rx_buffer = Count
  /\ pc = "ack" /\ temp.rint => Waiting = {} \/ lateFrame \/ current_rx_buffer = Count

IInv == TypeOK /\ RingWords /\ Shape /\ Order /\ Handed /\ Seen

-----------------------------------------------------------------------------
(* The words of the ring, its positions, and what Rank counts.             *)

\* A division replaced by a comparison: sums of two positions stay below 2*n.
LEMMA ModSum ==
  ASSUME NEW n \in Nat \ {0}, NEW a \in 0..2*n-1
  PROVE  a % n = IF a < n THEN a ELSE a - n
OBVIOUS

\* The fields of the two kinds of word.
LEMMA WordProps ==
  /\ Own.own = TRUE /\ Own.good = FALSE
  /\ \A f, g : Frame(f, g).own = FALSE /\ Frame(f, g).good = g /\ Frame(f, g).frame = f
BY DEF Own, Frame

\* What Append does at every index.
LEMMA AppendProps ==
  ASSUME NEW S, NEW q \in Seq(S), NEW e \in S
  PROVE  /\ Append(q, e) \in Seq(S)
         /\ Len(Append(q, e)) = Len(q) + 1 /\ Len(q) \in Nat
         /\ \A i \in 1..Len(q) : Append(q, e)[i] = q[i]
         /\ Append(q, e)[Len(q) + 1] = e
OBVIOUS

\* The elements of a sequence.
LEMMA SeqProps ==
  ASSUME NEW S, NEW q \in Seq(S)
  PROVE  Len(q) \in Nat /\ \A i \in 1..Len(q) : q[i] \in S
OBVIOUS

\* T is a descriptor of the ring, and Turn.
LEMMA TurnIs == TypeOK => T \in 0..Count-1 /\ Turn = T
<1> SUFFICES ASSUME TypeOK PROVE T \in 0..Count-1 /\ Turn = T
  OBVIOUS
<1>1. Count \in Nat \ {0} /\ current_rx_buffer \in 0..Count
  BY RxAssumption DEF TypeOK
<1> DEFINE a == current_rx_buffer
                  + IF pc = "step" /\ current_rx_buffer < Count THEN 1 ELSE 0
<1>2. a \in 0..2*Count-1
  BY <1>1
<1>3. T = IF a < Count THEN a ELSE a - Count
  BY <1>1 DEF T
<1>4. T \in 0..Count-1
  BY <1>1 DEF T
<1> HIDE DEF a
<1>5. a % Count = T
  BY <1>1, <1>2, <1>3, ModSum
<1>6. QED
  BY <1>4, <1>5 DEF Turn, a

\* Pos numbers the descriptors, each once.
LEMMA PosProps ==
  ASSUME TypeOK
  PROVE  /\ \A k \in 0..Count-1 : Pos(k) \in 0..Count-1
         /\ \A j, k \in 0..Count-1 : Pos(j) = Pos(k) => j = k
         /\ \A i \in 0..Count-1 : \E k \in 0..Count-1 : i = Pos(k)
         /\ Pos(0) = T /\ Pos(Count) = T
         /\ \A k \in 0..Count : Pos(k) = (T + k) % Count
<1>1. T \in 0..Count-1 /\ Count \in Nat \ {0}
  BY TurnIs, RxAssumption
<1>2. \A i \in 0..Count-1 : \E k \in 0..Count-1 : i = Pos(k)
  <2>1. ASSUME NEW i \in 0..Count-1, i >= T
        PROVE  i - T \in 0..Count-1 /\ i = Pos(i - T)
    BY <1>1, <2>1 DEF Pos
  <2>2. ASSUME NEW i \in 0..Count-1, i < T
        PROVE  i - T + Count \in 0..Count-1 /\ i = Pos(i - T + Count)
    BY <1>1, <2>2 DEF Pos
  <2>3. \A i \in 0..Count-1 : i >= T \/ i < T
    BY <1>1
  <2>4. QED
    BY <2>1, <2>2, <2>3
<1>3. ASSUME NEW k \in 0..Count PROVE Pos(k) = (T + k) % Count
  <2> DEFINE a == T + k
  <2>1. a \in 0..2*Count-1
    BY <1>1
  <2> HIDE DEF a
  <2>2. a % Count = IF a < Count THEN a ELSE a - Count
    BY <1>1, <2>1, ModSum
  <2>3. QED
    BY <2>2, <1>1 DEF a, Pos
<1>4. QED
  BY <1>1, <1>2, <1>3 DEF Pos

\* The waiting descriptors are the first N from Turn on.
LEMMA WaitingAt ==
  ASSUME TypeOK, Shape
  PROVE  /\ \A i \in Waiting : \E k \in 0..N-1 : i = Pos(k)
         /\ \A k \in 0..N-1 : Pos(k) \in Waiting /\ k \in 0..Count-1
<1>1. N \in 0..Count /\ Count \in Nat
  BY RxAssumption DEF Shape
<1>2. \A k \in 0..N-1 : k \in 0..Count-1 /\ ~(k >= N)
  BY <1>1
<1>3. \A k \in 0..N-1 : Pos(k) \in Waiting
  BY <1>2, PosProps DEF Shape, Waiting
<1>4. ASSUME NEW i \in Waiting PROVE \E k \in 0..N-1 : i = Pos(k)
  <2>1. PICK k \in 0..Count-1 : i = Pos(k)
    BY PosProps DEF Waiting
  <2>2. ~(k >= N)
    BY <2>1 DEF Shape, Waiting
  <2>3. QED
    BY <2>1, <2>2, <1>1
<1>5. QED
  BY <1>2, <1>3, <1>4

\* Two descriptors that wait hold different frames.
LEMMA FramesDiffer ==
  ASSUME TypeOK, Shape, Order, NEW i \in Waiting, NEW j \in Waiting,
         ring[i].frame = ring[j].frame
  PROVE  i = j
<1>1. PICK k \in 0..N-1 : i = Pos(k)
  BY WaitingAt
<1>2. PICK l \in 0..N-1 : j = Pos(l)
  BY WaitingAt
<1>3. ring[i].frame \in 0..MaxFrames
  <2>1. i \in 0..Count /\ ~ring[i].own
    BY RxAssumption DEF Waiting
  <2>2. ring[i] \in Words /\ ring[i] # Own
    BY <2>1, WordProps DEF TypeOK
  <2>3. PICK f \in 0..MaxFrames, g \in BOOLEAN : ring[i] = Frame(f, g)
    BY <2>2 DEF Words
  <2>4. QED
    BY <2>3, WordProps
<1>4. N \in Nat
  BY RxAssumption DEF Shape
<1>5. ~(k < l) /\ ~(l < k)
  BY <1>1, <1>2, <1>3, RxAssumption DEF Order
<1>6. QED
  BY <1>1, <1>2, <1>4, <1>5

LEMMA WaitingFinite == IsFiniteSet(Waiting)
<1>1. IsFiniteSet(0..Count-1)
  BY RxAssumption, FS_Interval
<1>2. Waiting \in SUBSET (0..Count-1)
  BY DEF Waiting
<1>3. QED
  BY <1>1, <1>2, FS_Subset

\* Handing over a frame adds one to Rank, rubbish nothing.
LEMMA RankAppend ==
  ASSUME NEW f \in 0..MaxFrames, TypeOK, received' = Append(received, f)
  PROVE  /\ K \in Nat
         /\ \A i \in 1..Len(received) : Rank(i)' = Rank(i)
         /\ K' = IF f # 0 THEN K + 1 ELSE K
<1> DEFINE n == Len(received)
           A(i) == {j \in 1..i : received[j] # 0}
           B(i) == {j \in 1..i : received'[j] # 0}
<1>1. /\ received \in Seq(0..MaxFrames) /\ n \in Nat /\ Len(received') = n + 1
      /\ \A i \in 1..n : received'[i] = received[i]
      /\ received'[n + 1] = f
  BY AppendProps DEF TypeOK
<1> HIDE DEF n
<1>2. ASSUME NEW i \in 1..n PROVE B(i) = A(i)
  BY <1>1
<1>3. A(n) \in SUBSET (1..n) /\ IsFiniteSet(1..n) /\ IsFiniteSet(A(n))
  <2>1. IsFiniteSet(1..n)
    BY <1>1, FS_Interval
  <2>2. A(n) \in SUBSET (1..n)
    OBVIOUS
  <2> HIDE DEF A
  <2>3. QED
    BY <2>1, <2>2, FS_Subset
<1>4. B(n + 1) = IF f # 0 THEN A(n) \union {n + 1} ELSE A(n)
  <2>1. \A j \in 1..n+1 : j \in 1..n \/ j = n + 1
    BY <1>1
  <2>2. \A j \in 1..n : j \in 1..n+1
    BY <1>1
  <2>3. n + 1 \in 1..n+1
    BY <1>1
  <2>4. CASE f # 0
    BY <2>1, <2>2, <2>3, <2>4, <1>1
  <2>5. CASE f = 0
    BY <2>1, <2>2, <2>3, <2>5, <1>1
  <2>6. QED
    BY <2>4, <2>5
<1>5. n + 1 \notin A(n)
  BY <1>1
<1>6. /\ Cardinality(A(n)) \in Nat
      /\ Cardinality(B(n + 1)) = IF f # 0 THEN Cardinality(A(n)) + 1 ELSE Cardinality(A(n))
  <2> HIDE DEF A, B
  <2>1. QED
    BY <1>3, <1>4, <1>5, FS_AddElement, FS_CardinalityType
<1>7. \A i : Rank(i) = Cardinality(A(i)) /\ Rank(i)' = Cardinality(B(i))
  BY DEF Rank
<1>8. K = Cardinality(A(n)) /\ K' = Cardinality(B(n + 1))
  BY <1>1 DEF K, Rank, n
<1> HIDE DEF A, B
<1>9. QED
  BY <1>2, <1>6, <1>7, <1>8 DEF n

\* Rank depends on what has been handed over only.
LEMMA RankSame == UNCHANGED received => K' = K /\ \A i : Rank(i)' = Rank(i)
BY DEF K, Rank

-----------------------------------------------------------------------------
LEMMA InitInv == Init => IInv
<1> SUFFICES ASSUME Init PROVE IInv
  OBVIOUS
<1>1. Count \in Nat \ {0} /\ MaxFrames \in Nat
  BY RxAssumption
<1>2. PICK w \in Foreign : ring = [i \in 0..Count |-> IF i = Count THEN w ELSE Own]
  BY DEF Init
<1>3. Foreign \subseteq Words /\ Own \in Words
  <2>1. 0 \in 0..MaxFrames
    BY <1>1
  <2>2. \A g \in BOOLEAN : Frame(0, g) \in Words
    BY <2>1 DEF Words
  <2>3. Own \in Words
    BY DEF Words
  <2>4. QED
    BY <2>2, <2>3 DEF Foreign
<1>4. /\ Count \in 0..Count /\ ring[Count] = w
      /\ \A i \in 0..Count-1 : ring[i] = Own /\ i \in 0..Count
  BY <1>1, <1>2
<1>5. TypeOK
  <2>1. ring \in [0..Count -> Words]
    BY <1>2, <1>3
  <2>2. 0 \in 0..Count-1 /\ 0 \in 0..Count /\ 0 \in 0..MaxFrames
    BY <1>1
  <2>3. QED
    <3>1. temp \in [rint : BOOLEAN, tint : BOOLEAN]
      BY DEF Init
    <3>2. stored \in Seq(1..MaxFrames) /\ received \in Seq(0..MaxFrames)
      BY DEF Init
    <3>3. QED
      BY <2>1, <2>2, <3>1, <3>2 DEF Init, TypeOK
<1>6. Waiting = {}
  BY <1>4, WordProps DEF Waiting
<1>7. N = 0
  BY <1>6, FS_EmptySet DEF N
<1>8. K = 0
  <2>1. Len(received) = 0
    BY DEF Init
  <2>2. {j \in 1..0 : received[j] # 0} = {}
    OBVIOUS
  <2>3. QED
    BY <2>1, <2>2, FS_EmptySet DEF K, Rank
<1>9. RingWords
  BY <1>1, <1>4 DEF RingWords, Init
<1>10. Shape
  <2>1. \A k \in 0..Count-1 : ring[Pos(k)].own /\ k >= 0
    <3>1. \A k \in 0..Count-1 : Pos(k) \in 0..Count-1
      BY <1>5, PosProps
    <3>2. QED
      BY <1>1, <1>4, <3>1, WordProps
  <2>2. T = 0
    BY <1>1 DEF Init, T
  <2>3. Pos(0) = devIndex
    BY <2>2, <1>5, PosProps DEF Init
  <2>4. QED
    BY <2>1, <2>3, <1>1, <1>7 DEF Shape, Init
<1>11. Order /\ Handed /\ Seen
  BY <1>1, <1>6, <1>7, <1>8 DEF Init, Order, Handed, Seen
<1>12. QED
  BY <1>5, <1>9, <1>10, <1>11 DEF IInv

-----------------------------------------------------------------------------
(* Type correctness and the words of the ring, for all steps.              *)

LEMMA HandedCount == TypeOK => K \in Nat
<1> SUFFICES ASSUME TypeOK PROVE K \in Nat
  OBVIOUS
<1>1. IsFiniteSet(1..Len(received))
  BY FS_Interval DEF TypeOK
<1>2. {j \in 1..Len(received) : received[j] # 0} \in SUBSET (1..Len(received))
  OBVIOUS
<1>3. QED
  BY <1>1, <1>2, FS_Subset, FS_CardinalityType DEF K, Rank

LEMMA StoresTyped == ASSUME IInv, NEW g \in BOOLEAN, CardStores(g)
                     PROVE  TypeOK' /\ RingWords'
<1>1. /\ Count \in Nat \ {0} /\ MaxFrames \in Nat /\ arrived \in Nat /\ arrived + 1 \in 1..MaxFrames
      /\ devIndex \in 0..Count-1 /\ devIndex \in 0..Count /\ devIndex # Count
  BY RxAssumption DEF IInv, TypeOK, CardStores
<1>2. /\ ring \in [0..Count -> Words]
      /\ ring' = [ring EXCEPT ![devIndex] = Frame(arrived + 1, g)]
      /\ arrived' = arrived + 1 /\ UNCHANGED missed
  BY DEF IInv, TypeOK, CardStores
<1>3. Frame(arrived + 1, g) \in Words
  <2>1. arrived + 1 \in 0..MaxFrames
    BY <1>1
  <2>2. QED
    BY <2>1 DEF Words
<1>4. ring' \in [0..Count -> Words]
  BY <1>2, <1>3
<1>5. devIndex' \in 0..Count-1
  <2> DEFINE a == devIndex + 1
  <2>1. a \in 0..2*Count-1
    BY <1>1
  <2> HIDE DEF a
  <2>2. a % Count = IF a < Count THEN a ELSE a - Count
    BY <1>1, <2>1, ModSum
  <2>3. devIndex' = a % Count
    BY DEF CardStores, a
  <2>4. QED
    BY <1>1, <2>2, <2>3 DEF a
<1>6. stored' \in Seq(1..MaxFrames)
  <2>1. stored \in Seq(1..MaxFrames)
    BY DEF IInv, TypeOK
  <2>2. Append(stored, arrived + 1) \in Seq(1..MaxFrames)
    BY <1>1, <2>1, AppendProps
  <2>3. QED
    BY <2>1, <2>2 DEF CardStores
<1>7. arrived' \in 0..MaxFrames /\ missed' <= arrived'
  BY <1>1, <1>2 DEF IInv, TypeOK, RingWords
<1>8. TypeOK'
  BY <1>4, <1>5, <1>6, <1>7 DEF IInv, TypeOK, CardStores, InAckWindow
<1>9. RingWords'
  <2>1. ring'[Count] = ring[Count]
    BY <1>1, <1>2
  <2>2. ASSUME NEW i \in 0..Count-1
        PROVE  ring'[i] = Own \/ \E f \in 1..arrived', h \in BOOLEAN : ring'[i] = Frame(f, h)
    <3>1. i \in 0..Count /\ arrived + 1 \in 1..arrived' /\ 1..arrived \subseteq 1..arrived'
      BY <1>1, <1>2
    <3>2. CASE i = devIndex
      BY <3>1, <3>2, <1>2
    <3>3. CASE i # devIndex
      <4>1. ring'[i] = ring[i]
        BY <3>1, <3>3, <1>2
      <4>2. QED
        BY <4>1, <3>1 DEF IInv, RingWords
    <3>4. QED
      BY <3>2, <3>3
  <2>3. QED
    BY <2>1, <2>2, <1>7 DEF IInv, RingWords
<1>10. QED
  BY <1>8, <1>9

LEMMA GiveBackTyped == IInv /\ GiveBack => TypeOK' /\ RingWords'
<1> SUFFICES ASSUME IInv, GiveBack PROVE TypeOK' /\ RingWords'
  OBVIOUS
<1>1. /\ ring \in [0..Count -> Words] /\ Own \in Words /\ Own \in Foreign
      /\ ring' = [ring EXCEPT ![current_rx_buffer] = Own] /\ UNCHANGED <<arrived, missed>>
  BY DEF IInv, TypeOK, GiveBack, histVars, Words, Foreign
<1>2. ring' \in [0..Count -> Words]
  BY <1>1
<1>3. TypeOK'
  BY <1>2 DEF IInv, TypeOK, GiveBack, csrVars, histVars
<1>4. \A i \in 0..Count : ring'[i] = ring[i] \/ ring'[i] = Own
  BY <1>1
<1>5. Count \in 0..Count /\ \A i \in 0..Count-1 : i \in 0..Count
  BY RxAssumption
<1>6. RingWords'
  BY <1>1, <1>4, <1>5 DEF IInv, RingWords
<1>7. QED
  BY <1>3, <1>6

LEMMA NeighbourTyped == ASSUME IInv, NEW w \in Foreign, NeighbourWrites(w)
                        PROVE  TypeOK' /\ RingWords'
<1>1. /\ ring \in [0..Count -> Words] /\ ring' = [ring EXCEPT ![Count] = w]
      /\ UNCHANGED <<arrived, missed>>
  BY DEF IInv, TypeOK, NeighbourWrites, histVars
<1>2. Count \in Nat \ {0} /\ MaxFrames \in Nat
  BY RxAssumption
<1>3. Foreign \subseteq Words
  <2>1. 0 \in 0..MaxFrames
    BY <1>2
  <2>2. \A g \in BOOLEAN : Frame(0, g) \in Words
    BY <2>1 DEF Words
  <2>3. Own \in Words
    BY DEF Words
  <2>4. QED
    BY <2>2, <2>3 DEF Foreign
<1>4. ring' \in [0..Count -> Words]
  BY <1>1, <1>3
<1>5. TypeOK'
  BY <1>4 DEF IInv, TypeOK, NeighbourWrites, csrVars, histVars
<1>6. ring'[Count] = w /\ \A i \in 0..Count-1 : ring'[i] = ring[i]
  BY <1>1, <1>2
<1>7. QED
  BY <1>1, <1>5, <1>6 DEF IInv, RingWords

LEMMA TakeTyped ==
  ASSUME IInv, NEW point \in {"give", "stopped"}, TakeTo(point)
  PROVE  TypeOK' /\ RingWords'
<1>1. /\ ring[current_rx_buffer] \in Words /\ ring[current_rx_buffer] # Own
      /\ received \in Seq(0..MaxFrames)
  BY WordProps DEF IInv, TypeOK, TakeTo
<1>2. PICK f \in 0..MaxFrames, g \in BOOLEAN : ring[current_rx_buffer] = Frame(f, g)
  BY <1>1 DEF Words
<1>3. Append(received, f) \in Seq(0..MaxFrames)
  BY <1>1, AppendProps
<1>4. received' \in Seq(0..MaxFrames)
  <2>1. received' = received \/ received' = Append(received, f)
    BY <1>2, WordProps DEF TakeTo
  <2>2. QED
    BY <1>1, <1>3, <2>1
<1>5. TypeOK'
  BY <1>4 DEF IInv, TypeOK, TakeTo, csrVars, histVars
<1>6. RingWords'
  BY DEF IInv, RingWords, TakeTo, histVars
<1>7. QED
  BY <1>5, <1>6

LEMMA OtherTyped ==
  IInv /\ (CardMisses \/ CardSent \/ Enter \/ Advance \/ LoopEnd \/ Acknowledge)
    => TypeOK' /\ RingWords'
<1> SUFFICES ASSUME IInv, CardMisses \/ CardSent \/ Enter \/ Advance \/ LoopEnd \/ Acknowledge
             PROVE  TypeOK' /\ RingWords'
  OBVIOUS
<1>1. CASE CardMisses
  <2>1. /\ arrived \in 0..MaxFrames /\ missed \in 0..MaxFrames /\ MaxFrames \in Nat
        /\ missed <= arrived /\ arrived < MaxFrames
        /\ arrived' = arrived + 1 /\ missed' = missed + 1
    BY <1>1, RxAssumption DEF IInv, TypeOK, RingWords, CardMisses
  <2>2. /\ arrived' \in 0..MaxFrames /\ missed' \in 0..MaxFrames /\ missed' <= arrived'
        /\ 1..arrived \subseteq 1..arrived'
    BY <2>1
  <2>3. TypeOK'
    BY <1>1, <2>2 DEF IInv, TypeOK, CardMisses, csrVars
  <2>4. RingWords'
    BY <1>1, <2>2 DEF IInv, RingWords, CardMisses
  <2>5. QED
    BY <2>3, <2>4
<1>2. CASE CardSent
  BY <1>2 DEF IInv, TypeOK, RingWords, CardSent, histVars
<1>3. CASE Enter
  BY <1>3 DEF IInv, TypeOK, RingWords, Enter, EnterAt, csrVars, histVars
<1>4. CASE Advance
  <2>1. current_rx_buffer' \in 0..Count
    BY <1>4, RxAssumption DEF IInv, TypeOK, Advance, StepTo
  <2>2. QED
    BY <1>4, <2>1 DEF IInv, TypeOK, RingWords, Advance, StepTo, csrVars, histVars
<1>5. CASE LoopEnd
  BY <1>5 DEF IInv, TypeOK, RingWords, LoopEnd, csrVars, histVars
<1>6. CASE Acknowledge
  BY <1>6 DEF IInv, TypeOK, RingWords, Acknowledge, histVars
<1>7. QED
  BY <1>1, <1>2, <1>3, <1>4, <1>5, <1>6

-----------------------------------------------------------------------------
(* Steps that leave the ring's own descriptors alone.                      *)

LEMMA SameShape ==
  ASSUME IInv, T' = T, UNCHANGED devIndex, \A i \in 0..Count-1 : ring'[i] = ring[i],
         (pc = "give" /\ current_rx_buffer < Count => ~ring[current_rx_buffer].own)'
  PROVE  /\ Shape' /\ Waiting' = Waiting /\ N' = N
         /\ \A k : Pos(k)' = Pos(k)
<1>1. Waiting' = Waiting
  BY DEF Waiting
<1>2. N' = N /\ \A k : Pos(k)' = Pos(k)
  BY <1>1 DEF N, Pos
<1>3. devIndex' = Pos(N)'
  BY <1>2 DEF IInv, Shape, Pos
<1>4. \A k \in 0..Count-1 : ring'[Pos(k)'].own <=> k >= N
  BY <1>2, PosProps DEF IInv, Shape
<1>5. QED
  BY <1>1, <1>2, <1>3, <1>4 DEF IInv, Shape

LEMMA SameOrder ==
  ASSUME IInv, T' = T, UNCHANGED <<devIndex, stored, received>>,
         \A i \in 0..Count-1 : ring'[i] = ring[i] /\ (Taken(i)' <=> Taken(i)),
         arrived' \in Nat, arrived' >= arrived,
         (pc = "give" /\ current_rx_buffer < Count => ~ring[current_rx_buffer].own)'
  PROVE  Shape' /\ Order' /\ Handed' /\ Waiting' = Waiting
<1>1. Shape' /\ Waiting' = Waiting /\ N' = N /\ \A k : Pos(k)' = Pos(k)
  BY SameShape
<1>2. K' = K /\ \A i : Rank(i)' = Rank(i)
  BY RankSame
<1>3. \A k \in 0..N-1 : Pos(k) \in 0..Count-1
  BY WaitingAt DEF IInv, Waiting
<1>4. \A j, k \in 0..N-1 : j < k => ring'[Pos(j)].frame < ring'[Pos(k)].frame
  BY <1>3 DEF IInv, Order
<1>5. \A p \in 1..Len(stored) : stored[p] <= arrived'
  <2>1. arrived \in Nat /\ \A p \in 1..Len(stored) : stored[p] \in Nat
    BY RxAssumption DEF IInv, TypeOK
  <2>2. QED
    BY <2>1 DEF IInv, Order
<1>6. \A i \in Waiting : ring'[i] = ring[i] /\ (Taken(i)' <=> Taken(i))
  BY DEF Waiting
<1>7. /\ \A p \in K+1..Len(stored) : \E i \in Waiting :
            ring'[i].good /\ ring'[i].frame = stored[p] /\ ~Taken(i)'
      /\ \A i \in Waiting : ring'[i].good /\ ~Taken(i)' =>
            \E p \in K+1..Len(stored) : ring'[i].frame = stored[p]
      /\ \A i \in Waiting : ~ring'[i].good =>
            \A p \in 1..Len(stored) : stored[p] # ring'[i].frame
  BY <1>6 DEF IInv, Order
<1>8. Order'
  BY <1>1, <1>2, <1>4, <1>5, <1>7 DEF IInv, Order
<1>9. Handed'
  BY <1>2 DEF IInv, Handed
<1>10. QED
  BY <1>1, <1>8, <1>9

LEMMA OtherInv ==
  ASSUME IInv,
         \/ CardMisses \/ CardSent \/ Enter \/ Advance \/ LoopEnd \/ Acknowledge
         \/ \E w \in Foreign : NeighbourWrites(w)
         \/ GiveBack /\ current_rx_buffer = Count
         \/ UNCHANGED vars
  PROVE  IInv'
<1>1. TypeOK' /\ RingWords'
  <2>1. UNCHANGED vars => TypeOK' /\ RingWords'
    BY DEF IInv, TypeOK, RingWords, vars, csrVars, histVars
  <2>2. QED
    BY <2>1, OtherTyped, NeighbourTyped, GiveBackTyped
<1>2. Count \in Nat \ {0} /\ current_rx_buffer \in 0..Count /\ ring \in [0..Count -> Words]
  BY RxAssumption DEF IInv, TypeOK
<1>3. \A i \in 0..Count-1 : ring'[i] = ring[i] /\ i # Count /\ i \in 0..Count
  BY <1>2 DEF CardMisses, CardSent, Enter, EnterAt, Advance, StepTo, LoopEnd, Acknowledge,
     NeighbourWrites, GiveBack, vars
<1>4. T' = T
  BY <1>2 DEF T, CardMisses, CardSent, Enter, EnterAt, Advance, StepTo, LoopEnd, Acknowledge,
     NeighbourWrites, GiveBack, vars
<1>5. \A i \in 0..Count-1 : Taken(i)' <=> Taken(i)
  BY <1>2, <1>3 DEF Taken, CardMisses, CardSent, Enter, EnterAt, Advance, StepTo, LoopEnd,
     Acknowledge, NeighbourWrites, GiveBack, vars
<1>6. UNCHANGED <<devIndex, stored, received>> /\ arrived' \in Nat /\ arrived' >= arrived
  <2>1. UNCHANGED <<devIndex, stored, received>> /\ (arrived' = arrived \/ arrived' = arrived + 1)
    BY DEF CardMisses, CardSent, Enter, EnterAt, Advance, StepTo, LoopEnd, Acknowledge,
       NeighbourWrites, GiveBack, vars, histVars
  <2>2. arrived \in Nat
    BY RxAssumption DEF IInv, TypeOK
  <2>3. QED
    BY <2>1, <2>2
<1>7. (pc = "give" /\ current_rx_buffer < Count => ~ring[current_rx_buffer].own)'
  <2>1. pc' = "give" => pc = "give" /\ UNCHANGED current_rx_buffer
    BY DEF CardMisses, CardSent, Enter, EnterAt, Advance, StepTo, LoopEnd, Acknowledge,
       NeighbourWrites, GiveBack, vars
  <2>2. current_rx_buffer < Count => current_rx_buffer \in 0..Count-1
    BY <1>2
  <2>3. QED
    BY <2>1, <2>2, <1>3 DEF IInv, Shape
<1>8. Shape' /\ Order' /\ Handed' /\ Waiting' = Waiting
  BY <1>3, <1>4, <1>5, <1>6, <1>7, SameOrder
<1>9. Seen'
  <2>1. CASE LoopEnd
    <3>1. current_rx_buffer < Count => Waiting = {}
      <4> SUFFICES ASSUME current_rx_buffer < Count, NEW i \in Waiting PROVE FALSE
        OBVIOUS
      <4>1. T = current_rx_buffer /\ ring[current_rx_buffer].own
        BY <2>1, <1>2 DEF LoopEnd, T
      <4>2. 0 \in 0..Count-1 /\ ring[Pos(0)].own
        <5>1. Pos(0) = T
          BY PosProps DEF IInv
        <5>2. QED
          BY <5>1, <4>1, <1>2
      <4>3. N \in 0..Count /\ 0 >= N
        BY <4>2 DEF IInv, Shape
      <4>4. \E k \in 0..N-1 : i = Pos(k)
        BY WaitingAt DEF IInv
      <4>5. QED
        BY <4>3, <4>4, <1>2
    <3>2. QED
      BY <3>1, <2>1, <1>2, <1>8 DEF LoopEnd, IInv, Seen, csrVars, histVars
  <2>2. CASE Enter
    BY <2>2, <1>8 DEF Enter, EnterAt, IInv, Seen, csrVars, histVars
  <2>3. CASE Acknowledge
    BY <2>3, <1>8 DEF Acknowledge, IInv, Seen, TypeOK, histVars
  <2>4. CASE Advance
    BY <2>4, <1>8 DEF Advance, StepTo, IInv, Seen, csrVars, histVars
  <2>5. CASE GiveBack
    BY <2>5, <1>8 DEF GiveBack, IInv, Seen, csrVars, histVars
  <2>6. CASE CardMisses \/ CardSent \/ (\E w \in Foreign : NeighbourWrites(w)) \/ UNCHANGED vars
    BY <2>6, <1>8 DEF CardMisses, CardSent, NeighbourWrites, IInv, Seen, vars, csrVars, histVars
  <2>7. QED
    BY <2>1, <2>2, <2>3, <2>4, <2>5, <2>6
<1>10. QED
  BY <1>1, <1>8, <1>9 DEF IInv

-----------------------------------------------------------------------------
\* A frame comes.
LEMMA CardStoresInv == ASSUME IInv, NEW g \in BOOLEAN, CardStores(g) PROVE IInv'
<1> DEFINE d == devIndex
           m == Len(stored)
<1>1. TypeOK' /\ RingWords' /\ Count \in Nat \ {0} /\ d \in 0..Count-1 /\ d \in 0..Count /\ TypeOK
  BY StoresTyped, RxAssumption DEF IInv, TypeOK
<1>2. /\ ring' = [ring EXCEPT ![d] = Frame(arrived + 1, g)] /\ ring \in [0..Count -> Words]
      /\ ring[d].own /\ arrived \in Nat /\ arrived' = arrived + 1 /\ rint'
      /\ UNCHANGED <<current_rx_buffer, pc, temp, received>>
  BY RxAssumption DEF CardStores, IInv, TypeOK
<1>3. N \in 0..Count-1 /\ d = Pos(N)
  <2>1. N \in 0..Count /\ d = Pos(N)
    BY DEF IInv, Shape
  <2>2. N # Count
    <3> SUFFICES ASSUME N = Count PROVE FALSE
      OBVIOUS
    <3>1. d = Pos(0) /\ 0 \in 0..Count-1 /\ ~(0 >= N)
      BY <1>1, <2>1, PosProps
    <3>2. QED
      BY <3>1, <1>2 DEF IInv, Shape
  <2>3. QED
    BY <1>1, <2>1, <2>2
<1>4. T' = T /\ (\A k : Pos(k)' = Pos(k)) /\ (\A i : Taken(i)' <=> Taken(i)) /\ K' = K
  <2>1. T' = T
    BY <1>2 DEF T
  <2>2. QED
    BY <1>2, <2>1, RankSame DEF Pos, Taken
<1>5. /\ \A i \in 0..Count-1 : i # d => ring'[i] = ring[i]
      /\ ring'[d] = Frame(arrived + 1, g) /\ ~ring'[d].own
  BY <1>1, <1>2, WordProps
<1>6. Waiting' = Waiting \union {d} /\ d \notin Waiting
  BY <1>1, <1>2, <1>5 DEF Waiting
<1>7. N' = N + 1
  BY <1>6, WaitingFinite, FS_AddElement DEF N
<1>8. devIndex' = Pos(N + 1)
  <2> DEFINE a == d + 1
  <2>1. a \in 0..2*Count-1 /\ T \in 0..Count-1
    BY <1>1, TurnIs
  <2>2. a % Count = IF a < Count THEN a ELSE a - Count
    <3> HIDE DEF a
    <3>1. QED
      BY <1>1, <2>1, ModSum
  <2>3. QED
    BY <2>1, <2>2, <1>1, <1>3 DEF CardStores, Pos
<1>9. Shape'
  <2>1. \A k \in 0..Count-1 : ring'[Pos(k)].own <=> k >= N + 1
    <3> SUFFICES ASSUME NEW k \in 0..Count-1 PROVE ring'[Pos(k)].own <=> k >= N + 1
      OBVIOUS
    <3>1. Pos(k) \in 0..Count-1 /\ (Pos(k) = d => k = N)
      BY <1>1, <1>3, PosProps
    <3>2. CASE k = N
      BY <3>2, <1>3, <1>5
    <3>3. CASE k # N
      <4>1. ring'[Pos(k)] = ring[Pos(k)] /\ (ring[Pos(k)].own <=> k >= N)
        BY <3>1, <3>3, <1>5 DEF IInv, Shape
      <4>2. QED
        BY <4>1, <3>3, <1>3, <1>1
    <3>4. QED
      BY <3>2, <3>3
  <2>2. N + 1 \in 0..Count /\ devIndex' = Pos(N + 1)
    BY <1>1, <1>3, <1>8
  <2>3. (pc = "give" /\ current_rx_buffer < Count => ~ring[current_rx_buffer].own)'
    <3>1. current_rx_buffer < Count => current_rx_buffer \in 0..Count-1
      BY <1>1 DEF TypeOK
    <3>2. QED
      BY <3>1, <1>2, <1>5 DEF IInv, Shape
  <2>5. devIndex' = Pos(N)'
    BY <1>4, <1>7, <2>2 DEF Pos
  <2>6. QED
    BY <2>1, <2>2, <2>3, <2>5, <1>4, <1>7 DEF Shape
<1>10. \A i \in Waiting : /\ ring[i].frame \in 1..arrived /\ i # d
                          /\ ring'[i] = ring[i]
  <2> SUFFICES ASSUME NEW i \in Waiting PROVE ring[i].frame \in 1..arrived /\ i # d /\ ring'[i] = ring[i]
    OBVIOUS
  <2>1. i \in 0..Count-1 /\ ~ring[i].own /\ i # d
    BY <1>6 DEF Waiting
  <2>2. PICK f \in 1..arrived, h \in BOOLEAN : ring[i] = Frame(f, h)
    BY <2>1, WordProps DEF IInv, RingWords
  <2>3. QED
    BY <2>1, <2>2, <1>5, WordProps
<1>11. /\ stored \in Seq(1..MaxFrames) /\ m \in Nat /\ K <= m /\ K \in Nat
       /\ \A p \in 1..m : stored[p] \in Nat /\ stored[p] <= arrived
  <2>1. stored \in Seq(1..MaxFrames) /\ m \in Nat /\ \A p \in 1..m : stored[p] \in 1..MaxFrames
    <3>1. stored \in Seq(1..MaxFrames)
      BY DEF IInv, TypeOK
    <3>2. QED
      BY <3>1, SeqProps
  <2>2. K \in Nat
    BY HandedCount DEF IInv
  <2>3. QED
    BY <2>1, <2>2, RxAssumption DEF IInv, Order, Handed
<1>12. /\ Len(stored') = IF g THEN m + 1 ELSE m
       /\ \A p \in 1..m : stored'[p] = stored[p]
       /\ g => stored'[m + 1] = arrived + 1
  <2>1. arrived + 1 \in 1..MaxFrames
    BY <1>1, <1>2, RxAssumption DEF TypeOK
  <2>2. QED
    BY <2>1, <1>11, AppendProps DEF CardStores
<1> HIDE DEF m, d
<1>13. Order'
  <2>1. \A j, k \in 0..N : j < k => ring'[Pos(j)].frame < ring'[Pos(k)].frame
    <3> SUFFICES ASSUME NEW j \in 0..N, NEW k \in 0..N, j < k
                 PROVE  ring'[Pos(j)].frame < ring'[Pos(k)].frame
      OBVIOUS
    <3>1. j \in 0..N-1 /\ Pos(j) \in Waiting
      BY <1>1, <1>3, WaitingAt DEF IInv
    <3>2. CASE k = N
      BY <3>1, <3>2, <1>2, <1>3, <1>5, <1>10, WordProps
    <3>3. CASE k # N
      <4>1. k \in 0..N-1
        BY <3>3, <1>1, <1>3
      <4>2. Pos(k) \in Waiting
        BY <4>1, WaitingAt DEF IInv
      <4>3. QED
        BY <3>1, <4>1, <4>2, <1>10 DEF IInv, Order
    <3>4. QED
      BY <3>2, <3>3
  <2>2. \A p \in 1..Len(stored') : p \in 1..m \/ (g /\ p = m + 1)
    BY <1>11, <1>12
  <2>3. \A p, q \in 1..Len(stored') : p < q => stored'[p] < stored'[q]
    <3> SUFFICES ASSUME NEW p \in 1..Len(stored'), NEW q \in 1..Len(stored'), p < q
                 PROVE  stored'[p] < stored'[q]
      OBVIOUS
    <3>1. p \in 1..m
      BY <2>2, <1>11, <1>12
    <3>2. CASE q \in 1..m
      BY <3>1, <3>2, <1>12 DEF IInv, Order, m
    <3>3. CASE g /\ q = m + 1
      BY <3>1, <3>3, <1>2, <1>11, <1>12
    <3>4. QED
      BY <2>2, <3>2, <3>3
  <2>4. \A p \in 1..Len(stored') : stored'[p] <= arrived'
    BY <2>2, <1>2, <1>11, <1>12
  <2>5. ~Taken(d)
    <3>1. current_rx_buffer = d => current_rx_buffer < Count
      BY <1>1 DEF TypeOK
    <3>2. QED
      BY <3>1, <1>2 DEF Taken, IInv, Shape
  <2>6. \A p \in K+1..Len(stored') : \E i \in Waiting' :
          ring'[i].good /\ ring'[i].frame = stored'[p] /\ ~Taken(i)
    <3> SUFFICES ASSUME NEW p \in K+1..Len(stored')
                 PROVE  \E i \in Waiting' :
                          ring'[i].good /\ ring'[i].frame = stored'[p] /\ ~Taken(i)
      OBVIOUS
    <3>1. CASE p \in 1..m
      <4>1. p \in K+1..m /\ stored'[p] = stored[p]
        BY <3>1, <1>11, <1>12
      <4>2. PICK i \in Waiting : ring[i].good /\ ring[i].frame = stored[p] /\ ~Taken(i)
        BY <4>1 DEF IInv, Order, m
      <4>3. QED
        BY <4>1, <4>2, <1>6, <1>10
    <3>2. CASE g /\ p = m + 1
      <4>1. d \in Waiting' /\ ring'[d] = Frame(arrived + 1, TRUE)
        BY <3>2, <1>5, <1>6
      <4>2. ring'[d].good /\ ring'[d].frame = stored'[p]
        <5>1. ring'[d].good /\ ring'[d].frame = arrived + 1
          <6>1. /\ Frame(arrived + 1, TRUE).good = TRUE
                /\ Frame(arrived + 1, TRUE).frame = arrived + 1
            BY WordProps
          <6>2. QED
            BY <4>1, <6>1
        <5>2. stored'[p] = arrived + 1
          BY <3>2, <1>12
        <5>3. QED
          BY <5>1, <5>2
      <4>3. QED
        BY <4>1, <4>2, <2>5
    <3>3. p \in 1..Len(stored')
      BY <1>11, <1>12
    <3>4. QED
      BY <3>1, <3>2, <3>3, <2>2
  <2>7. \A i \in Waiting' : ring'[i].good /\ ~Taken(i) =>
          \E p \in K+1..Len(stored') : ring'[i].frame = stored'[p]
    <3> SUFFICES ASSUME NEW i \in Waiting', ring'[i].good, ~Taken(i)
                 PROVE  \E p \in K+1..Len(stored') : ring'[i].frame = stored'[p]
      OBVIOUS
    <3>1. CASE i = d
      <4>1. g
        BY <3>1, <1>5, WordProps
      <4>2. m + 1 \in K+1..Len(stored')
        BY <4>1, <1>11, <1>12
      <4>3. ring'[i].frame = stored'[m + 1]
        <5>1. ring'[d].frame = arrived + 1
          BY <1>5, WordProps
        <5>2. stored'[m + 1] = arrived + 1
          BY <4>1, <1>12
        <5>3. QED
          BY <3>1, <5>1, <5>2
      <4>4. QED
        BY <4>2, <4>3
    <3>2. CASE i \in Waiting
      <4>1. ring'[i] = ring[i]
        BY <3>2, <1>10
      <4>2. PICK p \in K+1..m : ring[i].frame = stored[p]
        BY <3>2, <4>1 DEF IInv, Order, m
      <4>3. p \in K+1..Len(stored') /\ p \in 1..m
        BY <1>11, <1>12
      <4>4. QED
        BY <4>1, <4>2, <4>3, <1>12
    <3>3. QED
      BY <3>1, <3>2, <1>6
  <2>8. N' - 1 = N
    BY <1>1, <1>3, <1>7
  <2>9. \A i \in Waiting' : ~ring'[i].good =>
           \A p \in 1..Len(stored') : stored'[p] # ring'[i].frame
    <3> SUFFICES ASSUME NEW i \in Waiting', ~ring'[i].good, NEW p \in 1..Len(stored')
                 PROVE  stored'[p] # ring'[i].frame
      OBVIOUS
    <3>1. CASE i = d
      <4>1. ring'[d].frame = arrived + 1 /\ ~g
        BY <3>1, <1>5, WordProps
      <4>2. p \in 1..m
        BY <4>1, <2>2
      <4>3. QED
        BY <3>1, <4>1, <4>2, <1>2, <1>11, <1>12
    <3>2. CASE i \in Waiting
      <4>1. ring'[i] = ring[i] /\ ring[i].frame \in 1..arrived
        BY <3>2, <1>10
      <4>2. CASE p \in 1..m
        BY <3>2, <4>1, <4>2, <1>12 DEF IInv, Order, m
      <4>3. CASE g /\ p = m + 1
        BY <4>1, <4>3, <1>2, <1>12
      <4>4. QED
        BY <4>2, <4>3, <2>2
    <3>3. QED
      BY <3>1, <3>2, <1>6
  <2>10. QED
    BY <2>9, <2>1, <2>3, <2>4, <2>6, <2>7, <2>8, <1>4 DEF Order
<1>14. Handed'
  <2>1. \A i : Rank(i)' = Rank(i)
    BY <1>2, RankSame
  <2>2. K <= Len(stored') /\ 1..K \subseteq 1..m
    BY <1>11, <1>12
  <2>3. QED
    BY <2>1, <2>2, <1>2, <1>4, <1>12 DEF IInv, Handed
<1>15. Seen'
  BY <1>2 DEF CardStores, InAckWindow, IInv, Seen
<1>16. QED
  BY <1>1, <1>9, <1>13, <1>14, <1>15 DEF IInv

\* The handler hands a frame over, or rubbish from behind the ring.
LEMMA TakeInv ==
  ASSUME IInv, NEW point \in {"give", "stopped"}, TakeTo(point),
         point = "stopped" => current_rx_buffer = Count
  PROVE  IInv'
<1> DEFINE c == current_rx_buffer
           m == Len(stored)
<1>1. TypeOK' /\ RingWords' /\ TypeOK /\ Count \in Nat \ {0} /\ c \in 0..Count
  BY TakeTyped, RxAssumption DEF IInv, TypeOK
<1>2. /\ pc = "loop" /\ pc' = point /\ ~ring[c].own
      /\ received' = IF ring[c].good THEN Append(received, ring[c].frame) ELSE received
      /\ UNCHANGED <<ring, devIndex, current_rx_buffer, temp, rint, stored, arrived, lateFrame>>
  BY DEF TakeTo, csrVars, histVars
<1>3. T' = T
  BY <1>2 DEF T
<1>4. Shape' /\ Waiting' = Waiting /\ N' = N /\ \A k : Pos(k)' = Pos(k)
  BY <1>2, <1>3, SameShape
<1>5. Seen'
  BY <1>2, <1>4 DEF IInv, Seen
<1>6. stored \in Seq(1..MaxFrames) /\ m \in Nat /\ \A p \in 1..m : stored[p] \in Nat
  BY RxAssumption DEF IInv, TypeOK
<1>7. Order' /\ Handed'
  <2>1. ASSUME K' = K, \A i \in DOMAIN received' : received'[i] # 0 =>
                  i \in DOMAIN received /\ received'[i] = received[i] /\ Rank(i)' = Rank(i),
               \A i \in DOMAIN received : i \in DOMAIN received' /\ received'[i] = received[i],
               c \in Waiting => ~ring[c].good
        PROVE  Order' /\ Handed'
    <3>1. \A i \in Waiting : ring[i].good => ~Taken(i) /\ ~Taken(i)'
      BY <2>1, <1>2 DEF Taken
    <3>2. Order'
      BY <3>1, <2>1, <1>2, <1>4 DEF IInv, Order
    <3>3. Handed'
      BY <2>1, <1>2 DEF IInv, Handed
    <3>4. QED
      BY <3>2, <3>3
  <2>2. CASE ~ring[c].good
    <3>1. UNCHANGED received
      BY <1>2, <2>2
    <3>2. QED
      BY <2>1, <2>2, <3>1, RankSame
  <2>3. CASE ring[c].good /\ c = Count
    <3>1. ring[c] \in Foreign
      BY <2>3 DEF IInv, RingWords
    <3>2. ring[c].frame = 0
      <4>1. ring[c] = Frame(0, FALSE) \/ ring[c] = Frame(0, TRUE)
        BY <3>1, <2>3, WordProps DEF Foreign
      <4>2. QED
        BY <4>1 DEF Frame
    <3>3. /\ received \in Seq(0..MaxFrames) /\ 0 \in 0..MaxFrames /\ received' = Append(received, 0)
      BY <1>2, <2>3, <3>2, RxAssumption DEF IInv, TypeOK
    <3>4. /\ K' = K /\ \A i \in 1..Len(received) : Rank(i)' = Rank(i)
      BY <1>1, <3>3, RankAppend
    <3>5. /\ DOMAIN received = 1..Len(received) /\ DOMAIN received' = 1..Len(received)+1
          /\ Len(received) \in Nat
          /\ \A i \in 1..Len(received) : received'[i] = received[i]
          /\ received'[Len(received) + 1] = 0
      BY <3>3
    <3>6. \A i \in 1..Len(received)+1 : i \in 1..Len(received) \/ i = Len(received) + 1
      BY <3>5
    <3>7. c \notin Waiting
      BY <2>3, <1>1 DEF Waiting
    <3>8. QED
      BY <2>1, <3>4, <3>5, <3>6, <3>7
  <2>4. CASE ring[c].good /\ c # Count
    <3> DEFINE f == ring[c].frame
               n == Len(received)
    <3>1. c \in 0..Count-1 /\ c \in Waiting /\ T = c
      BY <1>1, <1>2, <2>4 DEF Waiting, T
    <3>2. f \in 1..arrived /\ f \in 0..MaxFrames /\ f # 0
      <4>1. PICK x \in 1..arrived, h \in BOOLEAN : ring[c] = Frame(x, h)
        BY <3>1, <1>2, WordProps DEF IInv, RingWords
      <4>2. f = x /\ arrived \in 0..MaxFrames
        BY <4>1, WordProps DEF IInv, TypeOK
      <4>3. QED
        BY <4>2, RxAssumption
    <3>3. /\ received \in Seq(0..MaxFrames) /\ received' = Append(received, f)
      BY <1>2, <2>4 DEF IInv, TypeOK
    <3> HIDE DEF f
    <3>4. K \in Nat /\ K' = K + 1 /\ \A i \in 1..n : Rank(i)' = Rank(i)
      BY <1>1, <3>2, <3>3, RankAppend
    <3>5. /\ DOMAIN received = 1..n /\ DOMAIN received' = 1..n+1 /\ Len(received') = n + 1
          /\ n \in Nat
          /\ \A i \in 1..n : received'[i] = received[i]
          /\ received'[n + 1] = f
      BY <3>2, <3>3
    <3> HIDE DEF n
    <3>6. \A i \in Waiting : ~Taken(i) /\ (Taken(i)' <=> i = c)
      BY <1>2, <2>4 DEF Taken
    <3>7. PICK p \in K+1..m : f = stored[p]
      BY <3>1, <3>6, <2>4 DEF IInv, Order, f
    <3>8. K + 1 \in 1..m /\ K + 1 \in K+1..m /\ p \in 1..m
      BY <3>4, <3>7, <1>6
    <3>9. stored[K + 1] = f
      <4> SUFFICES ASSUME p # K + 1 PROVE FALSE
        BY <3>7
      <4>1. stored[K + 1] < f
        BY <3>4, <3>7, <3>8, <1>6 DEF IInv, Order
      <4>2. PICK i \in Waiting : ring[i].frame = stored[K + 1]
        BY <3>8 DEF IInv, Order
      <4>3. PICK k \in 0..N-1 : i = Pos(k)
        BY WaitingAt DEF IInv
      <4>4. c = Pos(0) /\ N \in Nat
        BY <3>1, PosProps, RxAssumption DEF IInv, Shape
      <4>5. k # 0 => f < ring[i].frame
        <5>1. k # 0 => 0 \in 0..N-1 /\ 0 < k
          BY <4>3, <4>4
        <5>2. QED
          BY <5>1, <4>3, <4>4 DEF IInv, Order, f
      <4>6. k = 0 => f = ring[i].frame
        BY <4>3, <4>4 DEF f
      <4>7. QED
        BY <4>1, <4>2, <4>5, <4>6, <3>2, <3>8, <1>6
    <3>10. \A q \in K+2..m : q \in K+1..m /\ q \in 1..m /\ stored[q] # f
      <4>1. \A q \in K+2..m : q \in K+1..m /\ q \in 1..m /\ K + 1 < q
        BY <3>4, <1>6
      <4>2. \A q \in K+2..m : stored[K+1] < stored[q]
        BY <4>1, <3>8 DEF IInv, Order
      <4>3. QED
        BY <4>1, <4>2, <3>8, <3>9, <1>6
    <3>11. (K + 1) + 1 = K + 2
      BY <3>4
    <3>12. \A q \in K+2..m : \E i \in Waiting :
             ring[i].good /\ ring[i].frame = stored[q] /\ ~Taken(i)'
      <4> SUFFICES ASSUME NEW q \in K+2..m
                   PROVE  \E i \in Waiting : ring[i].good /\ ring[i].frame = stored[q] /\ ~Taken(i)'
        OBVIOUS
      <4>1. PICK i \in Waiting : ring[i].good /\ ring[i].frame = stored[q]
        BY <3>10 DEF IInv, Order
      <4>2. i # c
        BY <4>1, <3>10 DEF f
      <4>3. QED
        BY <4>1, <4>2, <3>6
    <3>13. \A i \in Waiting : ring[i].good /\ ~Taken(i)' =>
             \E q \in K+2..m : ring[i].frame = stored[q]
      <4> SUFFICES ASSUME NEW i \in Waiting, ring[i].good, i # c
                   PROVE  \E q \in K+2..m : ring[i].frame = stored[q]
        BY <3>6
      <4>1. PICK q \in K+1..m : ring[i].frame = stored[q]
        BY <3>6 DEF IInv, Order
      <4>2. ring[i].frame # f
        BY <3>1, FramesDiffer DEF IInv, f
      <4>3. q # K + 1
        BY <4>1, <4>2, <3>9
      <4>4. q \in K+2..m
        BY <4>3, <3>4, <1>6
      <4>5. QED
        BY <4>1, <4>4
    <3>14. Order'
      BY <3>4, <3>11, <3>12, <3>13, <1>2, <1>4 DEF IInv, Order
    <3>15. K' <= m /\ \A i \in 1..n+1 : received'[i] # 0 =>
             Rank(i)' \in 1..K' /\ received'[i] = stored[Rank(i)']
      <4>1. K' <= m /\ 1..K \subseteq 1..K' /\ K' \in 1..K'
        BY <3>4, <3>8, <1>6
      <4>2. \A i : i = n + 1 => Rank(i)' = K'
        BY <3>5 DEF K, Rank
      <4>3. \A i \in 1..n+1 : i \in 1..n \/ i = n + 1
        BY <3>5
      <4>4. \A i \in 1..n : received[i] # 0 => Rank(i) \in 1..K /\ received[i] = stored[Rank(i)]
        BY <3>5 DEF IInv, Handed
      <4>5. received'[n + 1] = stored[K']
        BY <3>4, <3>5, <3>9
      <4>6. \A i \in 1..n : received'[i] # 0 =>
               Rank(i)' \in 1..K' /\ received'[i] = stored[Rank(i)']
        BY <4>1, <4>4, <3>4, <3>5
      <4>7. QED
        BY <4>1, <4>2, <4>3, <4>5, <4>6
    <3>16. \A i, j \in 1..n+1 :
             i < j /\ received'[i] # 0 /\ received'[j] # 0 => received'[i] < received'[j]
      <4>1. ASSUME NEW i \in 1..n, received[i] # 0 PROVE received[i] < f
        <5>1. Rank(i) \in 1..K /\ received[i] = stored[Rank(i)]
          BY <3>5, <4>1 DEF IInv, Handed
        <5>2. Rank(i) \in 1..m /\ Rank(i) < K + 1
          BY <5>1, <3>4, <3>8, <1>6
        <5>3. QED
          BY <5>1, <5>2, <3>8, <3>9 DEF IInv, Order
      <4>2. \A i, j \in 1..n+1 : i < j => i \in 1..n /\ (j \in 1..n \/ j = n + 1)
        BY <3>5
      <4>3. \A i, j \in 1..n : i < j /\ received[i] # 0 /\ received[j] # 0 => received[i] < received[j]
        BY <3>5 DEF IInv, Handed
      <4>4. QED
        BY <4>1, <4>2, <4>3, <3>5
    <3>17. \A q \in 1..K' : \E i \in 1..n+1 : received'[i] = stored[q]
      <4>1. \A q \in 1..K' : q \in 1..K \/ q = K + 1
        BY <3>4
      <4>2. \A q \in 1..K : \E i \in 1..n : received[i] = stored[q]
        BY <3>5 DEF IInv, Handed
      <4>3. n + 1 \in 1..n+1 /\ \A i \in 1..n : i \in 1..n+1
        BY <3>5
      <4>4. QED
        BY <4>1, <4>2, <4>3, <3>5, <3>9
    <3>18. Handed'
      BY <3>5, <3>15, <3>16, <3>17, <1>2 DEF Handed
    <3>19. QED
      BY <3>14, <3>18
  <2>5. QED
    BY <2>2, <2>3, <2>4
<1>8. QED
  BY <1>1, <1>4, <1>5, <1>7 DEF IInv

\* The handler gives a descriptor of the ring back.
LEMMA GiveBackInv == IInv /\ GiveBack /\ current_rx_buffer # Count => IInv'
<1> SUFFICES ASSUME IInv, GiveBack, current_rx_buffer # Count PROVE IInv'
  OBVIOUS
<1> DEFINE c == current_rx_buffer
           m == Len(stored)
<1>1. TypeOK' /\ RingWords' /\ TypeOK /\ Count \in Nat \ {0} /\ c \in 0..Count-1 /\ c \in 0..Count
  BY GiveBackTyped, RxAssumption DEF IInv, TypeOK
<1>2. /\ pc = "give" /\ pc' = "step" /\ ring \in [0..Count -> Words]
      /\ ring' = [ring EXCEPT ![c] = Own]
      /\ UNCHANGED <<devIndex, current_rx_buffer, temp, rint, stored, arrived, lateFrame, received>>
  BY DEF GiveBack, csrVars, histVars, IInv, TypeOK
<1>3. T = c /\ T' = (IF c + 1 = Count THEN 0 ELSE c + 1) /\ Pos(0) = c /\ Pos(Count) = c
  BY <1>1, <1>2, PosProps DEF T
<1>4. \A k \in 0..Count-1 : Pos(k)' = Pos(k + 1)
  BY <1>1, <1>3 DEF Pos
<1>5. c \in Waiting /\ N \in 1..Count
  <2>1. c \in Waiting /\ N \in 0..Count
    BY <1>1, <1>2 DEF Waiting, IInv, Shape
  <2>2. \E k \in 0..N-1 : c = Pos(k)
    BY <2>1, WaitingAt DEF IInv
  <2>3. QED
    BY <1>1, <2>1, <2>2
<1>6. /\ \A i \in 0..Count-1 : i # c => ring'[i] = ring[i]
      /\ ring'[c].own
  BY <1>1, <1>2, WordProps
<1>7. Waiting' = Waiting \ {c}
  BY <1>6 DEF Waiting
<1>8. N' = N - 1
  BY <1>5, <1>7, WaitingFinite, FS_RemoveElement DEF N
<1>9. K' = K /\ (\A i : Rank(i)' = Rank(i)) /\ \A i : (Taken(i) <=> i = c) /\ ~Taken(i)'
  BY <1>2, RankSame DEF Taken
<1> HIDE DEF c
<1>10. Shape'
  <2>1. \A k \in 0..Count-1 : ring'[Pos(k + 1)].own <=> k >= N - 1
    <3> SUFFICES ASSUME NEW k \in 0..Count-1 PROVE ring'[Pos(k + 1)].own <=> k >= N - 1
      OBVIOUS
    <3>1. CASE k = Count - 1
      BY <3>1, <1>1, <1>3, <1>5, <1>6
    <3>2. CASE k # Count - 1
      <4>1. k + 1 \in 0..Count-1 /\ k + 1 # 0 /\ 0 \in 0..Count-1
        BY <3>2, <1>1
      <4>2. Pos(k + 1) \in 0..Count-1 /\ Pos(k + 1) # c
        BY <4>1, <1>1, <1>3, PosProps
      <4>3. ring'[Pos(k + 1)] = ring[Pos(k + 1)] /\ (ring[Pos(k + 1)].own <=> k + 1 >= N)
        BY <4>1, <4>2, <1>6 DEF IInv, Shape
      <4>4. QED
        BY <4>3, <1>1, <1>5
    <3>3. QED
      BY <3>1, <3>2
  <2>2. N - 1 \in 0..Count /\ N - 1 \in 0..Count-1 /\ (N - 1) + 1 = N
    BY <1>1, <1>5
  <2>3. devIndex' = Pos(N)'
    <3>1. \A k \in 0..Count-1 :
            (IF T' + k < Count THEN T' + k ELSE T' + k - Count) = Pos(k + 1)
      BY <1>1, <1>3 DEF Pos
    <3>2. devIndex' = Pos(N)
      BY <1>2 DEF IInv, Shape
    <3>3. QED
      BY <3>1, <3>2, <2>2, <1>8 DEF Pos
  <2>4. QED
    BY <2>1, <2>2, <2>3, <1>2, <1>4, <1>8 DEF Shape
<1>11. Order'
  <2>1. \A k \in 0..N-2 : /\ k \in 0..Count-1 /\ k + 1 \in 0..N-1 /\ k + 1 \in 0..Count-1
                          /\ k + 1 # 0 /\ 0 \in 0..Count-1
    BY <1>1, <1>5
  <2>2. \A k \in 0..N-2 : Pos(k + 1) \in 0..Count-1 /\ Pos(k + 1) # c
    BY <2>1, <1>1, <1>3, PosProps
  <2>3. \A j, k \in 0..N-2 : j < k => ring'[Pos(j + 1)].frame < ring'[Pos(k + 1)].frame
    <3> SUFFICES ASSUME NEW j \in 0..N-2, NEW k \in 0..N-2, j < k
                 PROVE  ring'[Pos(j + 1)].frame < ring'[Pos(k + 1)].frame
      OBVIOUS
    <3>1. j + 1 < k + 1 /\ j + 1 \in 0..N-1 /\ k + 1 \in 0..N-1
      BY <2>1
    <3>2. QED
      BY <3>1, <2>2, <1>6 DEF IInv, Order
  <2>4. \A j, k \in 0..N'-1 : j < k => ring'[Pos(j)'].frame < ring'[Pos(k)'].frame
    <3>1. N' - 1 = N - 2
      BY <1>1, <1>5, <1>8
    <3>2. QED
      BY <3>1, <2>1, <2>3, <1>4
  <2>5. \A i \in Waiting : i # c => i \in Waiting' /\ ring'[i] = ring[i]
    BY <1>6, <1>7 DEF Waiting
  <2>6. \A p \in K+1..m : \E i \in Waiting' :
          ring'[i].good /\ ring'[i].frame = stored[p]
    BY <2>5, <1>9 DEF IInv, Order
  <2>7. \A i \in Waiting' : ring'[i].good =>
          \E p \in K+1..m : ring'[i].frame = stored[p]
    BY <2>5, <1>7, <1>9 DEF IInv, Order
  <2>8. \A i \in Waiting' : ~ring'[i].good =>
          \A p \in 1..m : stored[p] # ring'[i].frame
    BY <2>5, <1>7 DEF IInv, Order
  <2>9. /\ \A p, q \in 1..Len(stored') : p < q => stored'[p] < stored'[q]
        /\ \A p \in 1..Len(stored') : stored'[p] <= arrived'
    BY <1>2 DEF IInv, Order
  <2>10. QED
    BY <2>4, <2>6, <2>7, <2>8, <2>9, <1>2, <1>9 DEF Order
<1>12. Handed'
  BY <1>2, <1>9 DEF IInv, Handed
<1>13. Seen'
  BY <1>2, <1>7 DEF IInv, Seen
<1>14. QED
  BY <1>1, <1>10, <1>11, <1>12, <1>13 DEF IInv

-----------------------------------------------------------------------------
\* Every step of the card, the handler and the neighbour preserves the invariant.
LEMMA NextInv == IInv /\ [Next]_vars => IInv'
BY OtherInv, CardStoresInv, TakeInv, GiveBackInv DEF Next, Handler, Take, TakePanics

\* The invariant holds in every reachable state.
LEMMA Invariance == Spec => []IInv
BY InitInv, NextInv, PTL DEF Spec

LEMMA InvReceived == IInv => ReceivedInOrder
<1> SUFFICES ASSUME IInv PROVE ReceivedInOrder
  OBVIOUS
<1>1. \A i \in DOMAIN received :
        received[i] # 0 => Rank(i) <= Len(stored) /\ received[i] = stored[Rank(i)]
  <2>1. Len(stored) \in Nat /\ K \in Nat
    BY HandedCount DEF IInv, TypeOK
  <2>2. QED
    BY <2>1 DEF IInv, Handed
<1>2. N \in 0..Count /\ Turn = T /\ Count \in Nat
  BY TurnIs, RxAssumption DEF IInv, Shape
<1>3. \A k \in 0..N : k \in 0..Count
  BY <1>2
<1>4. \A k \in 0..N : Pos(k) = (Turn + k) % Count
  BY <1>2, <1>3, PosProps DEF IInv
<1>5. Waiting = {Pos(k) : k \in 0..N-1}
  BY WaitingAt DEF IInv
<1>6. Waiting = {(Turn + k) % Count : k \in 0..N-1}
  <2>1. \A k \in 0..N-1 : k \in 0..N
    BY <1>2
  <2>2. QED
    BY <2>1, <1>4, <1>5
<1>7. devIndex = (Turn + N) % Count
  <2>1. N \in 0..N
    BY <1>2
  <2>2. QED
    BY <2>1, <1>4 DEF IInv, Shape
<1>8. QED
  BY <1>1, <1>6, <1>7 DEF ReceivedInOrder, N

\* For every size of the ring, frames are handed over in the order they came,
\* none skipped, and driver and card never drift apart, in spite of the
\* descriptor behind the ring that the driver visits each lap.
THEOREM RingKeepsOrder == Spec => []ReceivedInOrder
BY Invariance, InvReceived, PTL

\* A frame is left behind in a quiet ring only if it came in the window of the
\* acknowledgement or the driver is stuck behind the ring.
THEOREM StrandingIsExplained == Spec => []StrandedHasCause
<1>1. IInv => StrandedHasCause
  BY DEF IInv, Seen, StrandedHasCause
<1>2. QED
  BY Invariance, <1>1, PTL
=============================================================================
