---------------------------- MODULE SkbQueueProofs ----------------------------
(***************************************************************************)
(* Proofs about SkbQueue, for every set of sk_buffers and every number of  *)
(* frames.  The inductive invariant adds to QueueSound                     *)
(*   - Control: which handler is where, and who holds which object;        *)
(*   - TailKnown: what recv_tail and the register it was loaded into mean  *)
(*     at each statement of skb_recv_push when the queue is not empty;     *)
(*   - Unraced: what no tick inside a push guarantees.                     *)
(* The refinement of FrameFifo needs FramesInOrder on top of it.           *)
(***************************************************************************)
EXTENDS SkbQueue, TLAPS

\* Which handler is where.
Control ==
  /\ top = "thread" => nicPc = "idle" /\ timerPc = "idle"
  /\ top = "nic" => nicPc # "idle"
  /\ top = "timer" => timerPc # "idle"
  /\ timerPc = "shifted" => top = "timer"
  /\ nicPc = "entry" => top = "nic"
  /\ timerPc = "idle" <=> cur = NULL
  /\ skb # NULL <=> nicPc \in InsidePush \union {"test", "stopped"}

\* The object receive() holds is fresh until it is linked.
Fresh ==
  skb # NULL /\ nicPc # "tail"
    => /\ live[skb] /\ next[skb] = NULL /\ skb # cur
       /\ \A i \in DOMAIN chain : chain[i] # skb

\* What skb_recv_push knows of the tail of a queue that is not empty.
TailKnown ==
  /\ nicPc = "head" => chain = <<>>
  /\ chain # <<>> =>
       /\ nicPc # "tail" => recv_tail = Last(chain)
       /\ nicPc = "store" => tailReg = Last(chain)
       /\ nicPc = "tail" => skb = Last(chain)

\* Without a tick inside a push nothing is lost.
Unraced ==
  ~raced => /\ LossNeedsRace
            /\ nicPc \in {"load", "store", "tail"} => chain # <<>>
            /\ nicPc \notin InsidePush /\ chain = <<>> => recv_tail = NULL

IInv == TypeOK /\ Control /\ ListSound /\ Fresh /\ TailKnown /\ Unraced

-----------------------------------------------------------------------------
(* The sequence operators the queue's history is built with.               *)

\* What Append does at every index.
LEMMA AppendProps ==
  ASSUME NEW S, NEW q \in Seq(S), NEW e \in S
  PROVE  /\ Append(q, e) \in Seq(S)
         /\ Append(q, e) # <<>>
         /\ Len(Append(q, e)) = Len(q) + 1
         /\ \A i \in 1..Len(q) : Append(q, e)[i] = q[i]
         /\ Append(q, e)[Len(q) + 1] = e
  OBVIOUS

\* What Tail does at every index.
LEMMA TailProps ==
  ASSUME NEW S, NEW q \in Seq(S), q # <<>>
  PROVE  /\ Tail(q) \in Seq(S)
         /\ Len(Tail(q)) = Len(q) - 1
         /\ \A i \in 1..Len(q)-1 : Tail(q)[i] = q[i+1]
         /\ Tail(q) = <<>> <=> Len(q) = 1
<1>1. /\ Tail(q) \in Seq(S)
      /\ Len(Tail(q)) = Len(q) - 1
      /\ \A i \in 1..Len(q)-1 : Tail(q)[i] = q[i+1]
  OBVIOUS
<1>2. Tail(q) = <<>> <=> Len(Tail(q)) = 0
  BY <1>1
<1>3. Len(q) \in Nat
  OBVIOUS
<1>4. QED
  BY <1>1, <1>2, <1>3

\* A sequence of one element.
LEMMA SingletonProps ==
  ASSUME NEW S, NEW e \in S
  PROVE  <<e>> \in Seq(S) /\ Len(<<e>>) = 1 /\ <<e>>[1] = e /\ <<e>> # <<>>
  OBVIOUS

\* The domain and the emptiness of a sequence, in terms of its length.
LEMMA SeqProps ==
  ASSUME NEW S, NEW q \in Seq(S)
  PROVE  /\ DOMAIN q = 1..Len(q)
         /\ Len(q) \in Nat
         /\ q = <<>> <=> Len(q) = 0
         /\ \A i \in 1..Len(q) : q[i] \in S
  OBVIOUS

-----------------------------------------------------------------------------
\* The initial state, before any interrupt, satisfies the invariant.
LEMMA InitInv == Init => IInv
<1> SUFFICES ASSUME Init PROVE IInv
  OBVIOUS
<1> USE SkbAssumption DEF Init, InsidePush
<1>1. TypeOK
  <2>1. <<>> \in Seq(Skb) /\ <<>> \in Seq(0..MaxFrames)
    OBVIOUS
  <2>2. 0 \in 0..MaxFrames
    OBVIOUS
  <2>3. next \in [Skb -> Skb \union {NULL}] /\ live \in [Skb -> BOOLEAN]
        /\ frame \in [Skb -> 0..MaxFrames]
    BY <2>2
  <2>4. QED
    BY <2>1, <2>2, <2>3 DEF TypeOK
<1>2. Control     BY DEF Control
<1>3. ListSound  BY DEF ListSound, HeadReaches
<1>4. Fresh /\ TailKnown /\ Unraced
  BY DEF Fresh, TailKnown, Unraced, LossNeedsRace
<1>5. QED         BY <1>1, <1>2, <1>3, <1>4 DEF IInv

\* The card interrupts.
LEMMA NicEnterInv == IInv /\ NicEnter => IInv'
<1> SUFFICES ASSUME IInv, NicEnter PROVE IInv'
  OBVIOUS
<1> USE SkbAssumption DEF IInv, InsidePush, Last, NicEnter,
        queueVars, memVars, nicVars, timerVars, histVars
<1>1. TypeOK'      BY DEF TypeOK
<1>2. Control'     BY DEF TypeOK, Control
<1>3. ListSound'  BY DEF TypeOK, Control, ListSound, HeadReaches, Fresh, TailKnown
<1>4. Fresh'       BY DEF TypeOK, Control, ListSound, HeadReaches, Fresh, TailKnown
<1>5. TailKnown'   BY DEF TypeOK, Control, ListSound, HeadReaches, Fresh, TailKnown, Unraced
<1>6. Unraced'     BY DEF TypeOK, Control, ListSound, HeadReaches, Fresh, TailKnown, Unraced, LossNeedsRace
<1>7. QED          BY <1>1, <1>2, <1>3, <1>4, <1>5, <1>6

\* skb_recv_push tests recv_tail.
LEMMA PushTestInv == IInv /\ PushTest => IInv'
<1> SUFFICES ASSUME IInv, PushTest PROVE IInv'
  OBVIOUS
<1> USE SkbAssumption DEF IInv, InsidePush, Last, PushTest, PushBranch,
        queueVars, memVars, nicVars, timerVars, histVars
<1>1. TypeOK'      BY DEF TypeOK
<1>2. Control'     BY DEF TypeOK, Control
<1>3. ListSound'  BY DEF TypeOK, Control, ListSound, HeadReaches, Fresh, TailKnown
<1>4. Fresh'       BY DEF TypeOK, Control, ListSound, HeadReaches, Fresh, TailKnown
<1>5. TailKnown'   BY DEF TypeOK, Control, ListSound, HeadReaches, Fresh, TailKnown, Unraced
<1>6. Unraced'     BY DEF TypeOK, Control, ListSound, HeadReaches, Fresh, TailKnown, Unraced, LossNeedsRace
<1>7. QED          BY <1>1, <1>2, <1>3, <1>4, <1>5, <1>6

\* skb_recv_push loads recv_tail.
LEMMA PushLoadInv == IInv /\ PushLoad => IInv'
<1> SUFFICES ASSUME IInv, PushLoad PROVE IInv'
  OBVIOUS
<1> USE SkbAssumption DEF IInv, InsidePush, Last, PushLoad,
        queueVars, memVars, nicVars, timerVars, histVars
<1>1. TypeOK'      BY DEF TypeOK
<1>2. Control'     BY DEF TypeOK, Control
<1>3. ListSound'  BY DEF TypeOK, Control, ListSound, HeadReaches, Fresh, TailKnown
<1>4. Fresh'       BY DEF TypeOK, Control, ListSound, HeadReaches, Fresh, TailKnown
<1>5. TailKnown'   BY DEF TypeOK, Control, ListSound, HeadReaches, Fresh, TailKnown, Unraced
<1>6. Unraced'     BY DEF TypeOK, Control, ListSound, HeadReaches, Fresh, TailKnown, Unraced, LossNeedsRace
<1>7. QED          BY <1>1, <1>2, <1>3, <1>4, <1>5, <1>6

\* skb_recv_push stores into the next field of what it loaded.
LEMMA PushStoreInv == IInv /\ PushStore => IInv'
<1> SUFFICES ASSUME IInv, PushStore PROVE IInv'
  OBVIOUS
<1> USE SkbAssumption DEF IInv, InsidePush, Last, PushStore,
        queueVars, memVars, nicVars, timerVars, histVars
<1> chain \in Seq(Skb) /\ skb \in Skb
  BY DEF TypeOK, Control
<1>1. CASE chain = <<>>
  <2>1. TypeOK'      BY <1>1 DEF TypeOK
  <2>2. Control'     BY DEF TypeOK, Control
  <2>3. ListSound'  BY <1>1 DEF TypeOK, ListSound, HeadReaches
  <2>4. Fresh' /\ TailKnown'  BY <1>1 DEF TypeOK, Control, Fresh, TailKnown
  <2>5. Unraced'     BY <1>1 DEF Unraced, LossNeedsRace
  <2>6. QED          BY <2>1, <2>2, <2>3, <2>4, <2>5
<1>2. CASE chain # <<>>
  <2> DEFINE n == Len(chain)
  <2>1. n \in Nat \ {0} /\ DOMAIN chain = 1..n
    BY <1>2, SeqProps
  <2>2. tailReg = chain[n] /\ chain' = Append(chain, skb)
    BY <1>2 DEF TailKnown
  <2>3. /\ chain' \in Seq(Skb) /\ chain' # <<>>
        /\ Len(chain') = n + 1 /\ DOMAIN chain' = 1..(n+1)
        /\ \A i \in 1..n : chain'[i] = chain[i]
        /\ chain'[n+1] = skb
    BY <2>2, AppendProps, SeqProps
  <2> HIDE DEF n
  <2>4. TypeOK'
    BY <2>3 DEF TypeOK
  <2>5. Control'
    BY DEF TypeOK, Control
  <2>6. \A i \in 1..n : chain[i] # skb
    BY <2>1 DEF Fresh, Control
  <2>7. HeadReaches'
    <3>1. recv_head' = chain'[1]
      BY <1>2, <2>1, <2>3 DEF ListSound, HeadReaches
    <3>2. \A i \in 1..n : chain[i] = tailReg <=> i = n
      BY <2>1, <2>2 DEF ListSound
    <3>3. ASSUME NEW i \in 1..n PROVE next'[chain'[i]] = chain'[i+1]
      <4>1. CASE i = n
        BY <4>1, <2>1, <2>2, <2>3, SeqProps
      <4>2. CASE i # n
        <5>1. i \in 1..(n-1) /\ i+1 \in 1..n /\ n = Len(chain)
          <6>1. n = Len(chain)
            BY DEF n
          <6>2. i \in 1..(n-1) /\ i+1 \in 1..n
            BY <4>2, <2>1
          <6>3. QED
            BY <6>1, <6>2
        <5>2. next[chain[i]] = chain[i+1]
          BY <5>1, <1>2 DEF ListSound, HeadReaches
        <5>3. chain[i] \in Skb /\ chain[i] # tailReg
          BY <3>2, <4>2, <2>1, SeqProps DEF n
        <5>4. QED
          BY <5>1, <5>2, <5>3, <2>3
      <4>3. QED
        BY <4>1, <4>2
    <3>4. next'[chain'[n+1]] = NULL
      BY <2>1, <2>2, <2>3, <2>6 DEF Fresh, Control, TypeOK
    <3>5. QED
      BY <2>1, <2>3, <3>1, <3>3, <3>4 DEF HeadReaches
  <2>8. ListSound'
    <3>1. \A i, j \in DOMAIN chain' : chain'[i] = chain'[j] => i = j
      BY <2>1, <2>3, <2>6 DEF ListSound
    <3>2. \A i \in DOMAIN chain' : live'[chain'[i]] /\ chain'[i] # cur'
      BY <2>1, <2>3 DEF ListSound, Fresh, Control
    <3>3. QED
      BY <2>7, <3>1, <3>2 DEF ListSound
  <2>9. Fresh' /\ TailKnown'
    BY <2>3 DEF TypeOK, Control, Fresh, TailKnown
  <2>10. Unraced'
    <3>1. {chain[i] : i \in DOMAIN chain} \subseteq {chain'[i] : i \in DOMAIN chain'}
      BY <2>1, <2>3
    <3>2. QED
      BY <3>1, <2>3 DEF Unraced, LossNeedsRace
  <2>11. QED
    BY <2>4, <2>5, <2>8, <2>9, <2>10
<1>3. QED
  BY <1>1, <1>2

\* skb_recv_push makes the sk_buffer the head.
LEMMA PushHeadInv == IInv /\ PushHead => IInv'
<1> SUFFICES ASSUME IInv, PushHead PROVE IInv'
  OBVIOUS
<1> USE SkbAssumption DEF IInv, InsidePush, Last, PushHead,
        queueVars, memVars, nicVars, timerVars, histVars
<1>1. TypeOK'      BY SingletonProps DEF TypeOK, Control
<1>2. Control'     BY DEF TypeOK, Control
<1>3. ListSound'  BY DEF TypeOK, Control, ListSound, HeadReaches, Fresh, TailKnown
<1>4. Fresh'       BY DEF TypeOK, Control, ListSound, HeadReaches, Fresh, TailKnown
<1>5. TailKnown'   BY DEF TypeOK, Control, ListSound, HeadReaches, Fresh, TailKnown, Unraced
<1>6. Unraced'     BY DEF TypeOK, Control, ListSound, HeadReaches, Fresh, TailKnown, Unraced, LossNeedsRace
<1>7. QED          BY <1>1, <1>2, <1>3, <1>4, <1>5, <1>6

\* skb_recv_push ends.
LEMMA PushTailInv == IInv /\ PushTail => IInv'
<1> SUFFICES ASSUME IInv, PushTail PROVE IInv'
  OBVIOUS
<1> USE SkbAssumption DEF IInv, InsidePush, Last, PushTail,
        queueVars, memVars, nicVars, timerVars, histVars
<1>1. TypeOK'      BY DEF TypeOK
<1>2. Control'     BY DEF TypeOK, Control
<1>3. ListSound'  BY DEF TypeOK, Control, ListSound, HeadReaches, Fresh, TailKnown
<1>4. Fresh'       BY DEF TypeOK, Control, ListSound, HeadReaches, Fresh, TailKnown
<1>5. TailKnown'   BY DEF TypeOK, Control, ListSound, HeadReaches, Fresh, TailKnown, Unraced
<1>6. Unraced'     BY DEF TypeOK, Control, ListSound, HeadReaches, Fresh, TailKnown, Unraced, LossNeedsRace
<1>7. QED          BY <1>1, <1>2, <1>3, <1>4, <1>5, <1>6

\* receive() returns.
LEMMA NicExitInv == IInv /\ NicExit => IInv'
<1> SUFFICES ASSUME IInv, NicExit PROVE IInv'
  OBVIOUS
<1> USE SkbAssumption DEF IInv, InsidePush, Last, NicExit,
        queueVars, memVars, nicVars, timerVars, histVars
<1>1. TypeOK'      BY DEF TypeOK
<1>2. Control'     BY DEF TypeOK, Control
<1>3. ListSound'  BY DEF TypeOK, Control, ListSound, HeadReaches, Fresh, TailKnown
<1>4. Fresh'       BY DEF TypeOK, Control, ListSound, HeadReaches, Fresh, TailKnown
<1>5. TailKnown'   BY DEF TypeOK, Control, ListSound, HeadReaches, Fresh, TailKnown, Unraced
<1>6. Unraced'     BY DEF TypeOK, Control, ListSound, HeadReaches, Fresh, TailKnown, Unraced, LossNeedsRace
<1>7. QED          BY <1>1, <1>2, <1>3, <1>4, <1>5, <1>6

\* The timer handler hands its frame over.
LEMMA CallbackInv == IInv /\ Callback => IInv'
<1> SUFFICES ASSUME IInv, Callback PROVE IInv'
  OBVIOUS
<1> USE SkbAssumption DEF IInv, InsidePush, Last, Callback,
        queueVars, memVars, nicVars, timerVars, histVars
<1>1. TypeOK'      BY AppendProps DEF TypeOK, Control
<1>2. Control'     BY DEF TypeOK, Control
<1>3. ListSound'  BY DEF TypeOK, Control, ListSound, HeadReaches, Fresh, TailKnown
<1>4. Fresh'       BY DEF TypeOK, Control, ListSound, HeadReaches, Fresh, TailKnown
<1>5. TailKnown'   BY DEF TypeOK, Control, ListSound, HeadReaches, Fresh, TailKnown, Unraced
<1>6. Unraced'     BY DEF TypeOK, Control, ListSound, HeadReaches, Fresh, TailKnown, Unraced, LossNeedsRace
<1>7. QED          BY <1>1, <1>2, <1>3, <1>4, <1>5, <1>6

\* The timer handler frees its sk_buffer.
LEMMA SkbFreeInv == IInv /\ SkbFree => IInv'
<1> SUFFICES ASSUME IInv, SkbFree PROVE IInv'
  OBVIOUS
<1> USE SkbAssumption DEF IInv, InsidePush, Last, SkbFree,
        queueVars, memVars, nicVars, timerVars, histVars
<1>1. TypeOK'      BY DEF TypeOK
<1>2. Control'     BY DEF TypeOK, Control
<1>3. ListSound'  BY DEF TypeOK, Control, ListSound, HeadReaches, Fresh, TailKnown
<1>4. Fresh'       BY DEF TypeOK, Control, ListSound, HeadReaches, Fresh, TailKnown
<1>5. TailKnown'   BY DEF TypeOK, Control, ListSound, HeadReaches, Fresh, TailKnown, Unraced
<1>6. Unraced'     BY DEF TypeOK, Control, ListSound, HeadReaches, Fresh, TailKnown, Unraced, LossNeedsRace
<1>7. QED          BY <1>1, <1>2, <1>3, <1>4, <1>5, <1>6

\* receive() allocates an sk_buffer, and may panic over the length of its data.
LEMMA SkbCreateInv ==
  ASSUME IInv, NEW s \in Skb, NEW point \in {"test", "stopped"}, TakeFrame(s, point)
  PROVE  IInv'
<1> USE SkbAssumption DEF IInv, InsidePush, Last, TakeFrame,
        queueVars, memVars, nicVars, timerVars, histVars
<1>0. /\ s # cur
      /\ \A i \in DOMAIN chain : chain[i] # s
      /\ \A i \in DOMAIN chain : chain[i] \in Skb
  BY SeqProps DEF TypeOK, ListSound
<1>1. TypeOK'      BY DEF TypeOK
<1>2. Control'     BY DEF TypeOK, Control
<1>3. ListSound'
  <2>1. chain # <<>> => /\ Len(chain) \in DOMAIN chain
                        /\ \A i \in 1..Len(chain)-1 : i \in DOMAIN chain
    BY SeqProps DEF TypeOK
  <2>2. \A i \in DOMAIN chain : next'[chain[i]] = next[chain[i]]
    BY <1>0 DEF TypeOK
  <2>3. HeadReaches'
    BY <2>1, <2>2 DEF ListSound, HeadReaches
  <2>4. QED
    BY <1>0, <2>3 DEF TypeOK, ListSound
<1>4. Fresh'       BY <1>0 DEF TypeOK, Control, Fresh
<1>5. TailKnown'   BY DEF TypeOK, Control, TailKnown
<1>6. Unraced'
  <2>1. skb = NULL /\ \A x \in Skb : live'[x] => live[x] \/ x = s
    BY DEF TypeOK, Control
  <2>2. LossNeedsRace => LossNeedsRace'
    <3> SUFFICES ASSUME LossNeedsRace, ~raced, NEW x \in Skb, live'[x]
                 PROVE  x \in {chain[i] : i \in DOMAIN chain} \union {cur, s}
      BY DEF LossNeedsRace
    <3>1. CASE x = s
      BY <3>1
    <3>2. CASE x # s
      BY <2>1, <3>2 DEF LossNeedsRace
    <3>3. QED
      BY <3>1, <3>2
  <2>3. QED
    BY <2>2 DEF Control, Unraced, LossNeedsRace
<1>7. QED          BY <1>1, <1>2, <1>3, <1>4, <1>5, <1>6

\* A tick on an empty queue.
LEMMA ShiftEmptyInv == IInv /\ Tick /\ ShiftEmpty => IInv'
<1> SUFFICES ASSUME IInv, Tick, ShiftEmpty PROVE IInv'
  OBVIOUS
<1> USE SkbAssumption DEF IInv, InsidePush, Last, Tick, ShiftEmpty,
        memVars, nicVars, timerVars
<1>0. chain = <<>>
  <2>1. SUFFICES ASSUME chain # <<>> PROVE FALSE
    OBVIOUS
  <2>2. 1 \in 1..Len(chain) /\ chain[1] \in Skb
    BY <2>1, SeqProps DEF TypeOK
  <2>3. QED
    BY <2>1, <2>2 DEF ListSound, HeadReaches
<1>1. TypeOK'      BY DEF TypeOK
<1>2. Control'     BY DEF TypeOK, Control
<1>3. ListSound'  BY <1>0 DEF ListSound, HeadReaches
<1>4. Fresh' /\ TailKnown'  BY <1>0 DEF Fresh, TailKnown
<1>5. Unraced'     BY DEF TypeOK, Unraced, LossNeedsRace
<1>6. QED          BY <1>1, <1>2, <1>3, <1>4, <1>5

\* A tick that takes the first sk_buffer.
LEMMA ShiftInv == IInv /\ Tick /\ Shift => IInv'
<1> SUFFICES ASSUME IInv, Tick, Shift PROVE IInv'
  OBVIOUS
<1> USE SkbAssumption DEF IInv, InsidePush, Tick, Shift, ShiftTo,
        memVars, nicVars, timerVars
<1> DEFINE n == Len(chain)
<1>1. /\ chain # <<>> /\ recv_head = chain[1] /\ recv_head \in Skb
      /\ n \in Nat \ {0} /\ DOMAIN chain = 1..n
      /\ \A i \in 1..n : chain[i] \in Skb
  BY SeqProps DEF TypeOK, ListSound, HeadReaches
<1>2. /\ chain' \in Seq(Skb)
      /\ Len(chain') = n - 1 /\ DOMAIN chain' = 1..(n-1)
      /\ \A i \in 1..(n-1) : chain'[i] = chain[i+1]
      /\ chain' = <<>> <=> n = 1
  <2>1. chain' = Tail(chain) /\ chain \in Seq(Skb)
    BY DEF TypeOK
  <2>2. /\ Tail(chain) \in Seq(Skb)
        /\ Len(Tail(chain)) = Len(chain) - 1
        /\ \A i \in 1..Len(chain)-1 : Tail(chain)[i] = chain[i+1]
        /\ Tail(chain) = <<>> <=> Len(chain) = 1
    BY ONLY <1>1, <2>1, TailProps
  <2>3. DOMAIN Tail(chain) = 1..Len(Tail(chain))
    BY ONLY <2>2, SeqProps
  <2>4. QED
    BY <2>1, <2>2, <2>3
<1>3. /\ \A i \in 1..n-1 : next[chain[i]] = chain[i+1]
      /\ next[chain[n]] = NULL
  BY <1>1 DEF ListSound, HeadReaches, Last
<1>4. n = Len(chain) /\ Last(chain) = chain[n]
  BY DEF Last
<1> HIDE DEF n
<1>5. \A i \in 2..n : chain[i] # recv_head
  <2>1. \A i \in 2..n : i \in 1..n /\ 1 \in 1..n /\ i # 1
    BY <1>1
  <2>2. QED
    BY <1>1, <2>1 DEF ListSound
<1>6. \A i \in 1..(n-1) : i+1 \in 1..n /\ i+1 \in 2..n /\ i \in 1..n
  BY <1>1
<1>7. TypeOK'
  BY <1>1, <1>2 DEF TypeOK
<1>8. Control'
  BY <1>1 DEF TypeOK, Control
<1>9. n = 1 <=> next[recv_head] = NULL
  <2>1. CASE n = 1
    BY <2>1, <1>1, <1>3
  <2>2. CASE n # 1
    <3>1. 1 \in 1..(n-1) /\ 2 \in 1..n
      BY <2>2, <1>1
    <3>2. next[recv_head] = chain[2]
      BY <3>1, <1>1, <1>3
    <3>3. QED
      BY <2>2, <3>1, <3>2, <1>1
  <2>3. QED
    BY <2>1, <2>2
<1>10. n # 1 => Last(chain') = Last(chain)
  <2>1. n # 1 => n-1 \in 1..(n-1) /\ (n-1)+1 = n
    BY <1>1
  <2>2. QED
    BY <2>1, <1>2, <1>4 DEF Last
<1>11. HeadReaches'
  <2>1. CASE n = 1
    BY <2>1, <1>2, <1>9 DEF HeadReaches
  <2>2. CASE n # 1
    <3>1. chain' # <<>> /\ 1 \in 1..(n-1) /\ n-1 \in 1..(n-1) /\ n \in 2..n
      BY <2>2, <1>1, <1>2
    <3>2. recv_head' = chain'[1]
      <4>1. 1 + 1 = 2
        OBVIOUS
      <4>2. QED
        BY <3>1, <4>1, <1>1, <1>2, <1>3
    <3>3. ASSUME NEW i \in 1..(n-1)-1 PROVE next'[chain'[i]] = chain'[i+1]
      <4>1. i \in 1..(n-1) /\ i+1 \in 1..(n-1) /\ i+1 \in 2..n /\ i+1 \in 1..n
        BY <1>1
      <4>2. chain'[i] = chain[i+1] /\ chain'[i+1] = chain[(i+1)+1]
        BY <4>1, <1>2
      <4>3. next[chain[i+1]] = chain[(i+1)+1]
        BY <4>1, <1>3
      <4>4. chain[i+1] # recv_head /\ chain[i+1] \in Skb
        BY <4>1, <1>1, <1>5
      <4>5. QED
        BY <4>2, <4>3, <4>4 DEF TypeOK
    <3>4. next'[Last(chain')] = NULL
      <4>1. chain[n] # recv_head /\ chain[n] \in Skb
        BY <3>1, <1>1, <1>5
      <4>2. QED
        BY <4>1, <2>2, <1>3, <1>4, <1>10 DEF TypeOK
    <3>5. QED
      BY <3>1, <3>2, <3>3, <3>4, <1>2 DEF HeadReaches
  <2>3. QED
    BY <2>1, <2>2
<1>12. ListSound'
  <2>1. \A i, j \in DOMAIN chain' : chain'[i] = chain'[j] => i = j
    <3> SUFFICES ASSUME NEW i \in 1..(n-1), NEW j \in 1..(n-1), chain[i+1] = chain[j+1]
                 PROVE  i = j
      BY <1>2
    <3>1. i+1 = j+1
      BY <1>1, <1>6 DEF ListSound
    <3>2. QED
      BY <3>1, <1>1
  <2>2. \A i \in DOMAIN chain' : live'[chain'[i]] /\ chain'[i] # cur'
    BY <1>1, <1>2, <1>5, <1>6 DEF ListSound
  <2>3. cur' # NULL => live'[cur']
    BY <1>1 DEF ListSound
  <2>4. QED
    BY <1>11, <2>1, <2>2, <2>3 DEF ListSound
<1>13. Fresh'
  <2>1. skb # NULL /\ nicPc # "tail" => skb # recv_head
    BY <1>1 DEF Fresh
  <2>2. \A i \in DOMAIN chain' : \E j \in DOMAIN chain : chain'[i] = chain[j]
    BY <1>1, <1>2, <1>6
  <2>3. QED
    BY <2>1, <2>2, <1>1 DEF Fresh, TypeOK, Control
<1>14. TailKnown'
  BY <1>1, <1>2, <1>9, <1>10 DEF TailKnown
<1>15. Unraced'
  <2>1. ~raced' => ~raced /\ nicPc \notin InsidePush
    OBVIOUS
  <2>2. chain' = <<>> => recv_tail' = NULL
    BY <1>2, <1>9
  <2>3. ~raced' => LossNeedsRace'
    <3> SUFFICES ASSUME ~raced, LossNeedsRace, NEW x \in Skb, live[x]
                 PROVE  x \in {chain'[i] : i \in DOMAIN chain'} \union {recv_head, skb}
      BY <2>1 DEF LossNeedsRace, Unraced
    <3>1. cur = NULL
      BY DEF Control
    <3>2. x = skb \/ \E j \in 1..n : x = chain[j]
      BY <3>1, <1>1 DEF LossNeedsRace
    <3>3. ASSUME NEW j \in 1..n, x = chain[j], j # 1
          PROVE  x \in {chain'[i] : i \in DOMAIN chain'}
      <4>1. j-1 \in 1..(n-1) /\ (j-1)+1 = j
        BY <3>3, <1>1
      <4>2. QED
        BY <4>1, <3>3, <1>2
    <3>4. QED
      BY <3>2, <3>3, <1>1
  <2>4. QED
    BY <2>1, <2>2, <2>3 DEF Unraced
<1>16. QED
  BY <1>7, <1>8, <1>12, <1>13, <1>14, <1>15

-----------------------------------------------------------------------------
\* Every step of either handler preserves the invariant.
LEMMA NextInv == IInv /\ [Next]_vars => IInv'
<1> SUFFICES ASSUME IInv, [Next]_vars PROVE IInv'
  OBVIOUS
<1>1. CASE NicEnter
  BY <1>1, NicEnterInv
<1>2. CASE NicStep
  BY <1>2, SkbCreateInv, PushTestInv, PushLoadInv, PushStoreInv, PushHeadInv,
     PushTailInv, NicExitInv DEF NicStep, SkbCreate, SkbCreatePanics
<1>3. CASE Tick
  BY <1>3, ShiftInv, ShiftEmptyInv DEF Tick
<1>4. CASE Callback
  BY <1>4, CallbackInv
<1>5. CASE SkbFree
  BY <1>5, SkbFreeInv
<1>6. CASE PanicLoop \/ UNCHANGED vars
  BY <1>6 DEF PanicLoop, IInv, TypeOK, Control, ListSound, HeadReaches, Fresh, TailKnown,
     Unraced, LossNeedsRace, Last, vars, queueVars, memVars, nicVars, timerVars, histVars
<1>7. QED
  BY <1>1, <1>2, <1>3, <1>4, <1>5, <1>6 DEF Next

\* The invariant holds in every reachable state.
LEMMA Invariance == Spec => []IInv
BY InitInv, NextInv, PTL DEF Spec

\* Whatever the interleaving of the two handlers, the list skb_recv_shift
\* follows holds allocated sk_buffers only, each once, and ends: nothing is
\* handed over or freed twice.
THEOREM QueueIsSound == Spec => []QueueSound
BY Invariance, PTL DEF IInv, QueueSound

\* Only a tick inside skb_recv_push loses a frame and its memory.
THEOREM LossOnlyByRace == Spec => []LossNeedsRace
<1>1. IInv => LossNeedsRace
  BY DEF IInv, Unraced, LossNeedsRace
<1>2. QED
  BY Invariance, <1>1, PTL

-----------------------------------------------------------------------------
(* The refinement of FrameFifo.                                            *)

\* The frames handed over, held by the timer handler and queued are in the
\* order of their numbers, and the one on its way in comes after all of them.
Ahead(f) ==
  /\ \A i \in DOMAIN delivered : delivered[i] < f
  /\ timerPc = "shifted" => frame[cur] < f
  /\ \A i \in DOMAIN chain : frame[chain[i]] < f

FramesInOrder ==
  /\ Ahead(received + 1)
  /\ skb # NULL => frame[skb] = received /\ frame[skb] # 0
  /\ skb # NULL /\ nicPc # "tail" => Ahead(frame[skb])
  /\ timerPc = "shifted" =>
       \A i \in DOMAIN delivered : delivered[i] < frame[cur]
  /\ \A i \in DOMAIN chain :
       /\ \A j \in DOMAIN delivered : delivered[j] < frame[chain[i]]
       /\ timerPc = "shifted" => frame[cur] < frame[chain[i]]
       /\ \A j \in 1..i-1 : frame[chain[j]] < frame[chain[i]]

LEMMA InitOrder == Init => FramesInOrder
BY DEF Init, FramesInOrder, Ahead

\* What the proofs below use of the invariant.
Facts ==
  /\ Len(chain) \in Nat /\ DOMAIN chain = 1..Len(chain)
  /\ \A i \in 1..Len(chain) : chain[i] \in Skb
  /\ \A x \in Skb : frame[x] \in Nat
  /\ timerPc = "shifted" => cur \in Skb
  /\ skb # NULL => skb \in Skb
  /\ received \in Nat
  /\ delivered \in Seq(Nat)

LEMMA FactsHold == IInv => Facts
<1> SUFFICES ASSUME IInv PROVE Facts
  OBVIOUS
<1>1. \A x \in Skb : frame[x] \in Nat
  BY SkbAssumption DEF IInv, TypeOK
<1>2. delivered \in Seq(Nat)
  BY SkbAssumption DEF IInv, TypeOK
<1>3. QED
  BY <1>1, <1>2, SeqProps, SkbAssumption DEF IInv, TypeOK, Control, Facts

LEMMA SkbCreateOrder ==
  ASSUME IInv, FramesInOrder, NEW s \in Skb, NEW point \in {"test", "stopped"},
         TakeFrame(s, point)
  PROVE  FramesInOrder'
<1> DEFINE n == Len(chain)
<1>1. skb = NULL /\ s # cur /\ \A i \in 1..n : chain[i] # s
  BY FactsHold, SkbAssumption
     DEF Facts, IInv, TakeFrame, Control, ListSound, InsidePush
<1>2. frame'[s] = received + 1 /\ \A x \in Skb : x # s => frame'[x] = frame[x]
  BY DEF TakeFrame, TypeOK, IInv
<1>3. /\ skb' = s /\ received' = received + 1
      /\ UNCHANGED <<chain, delivered, timerPc, cur>>
  BY DEF TakeFrame, timerVars
<1>4. Ahead(received + 1)' /\ Ahead(received + 1)
  BY <1>1, <1>2, <1>3, FactsHold DEF Facts, FramesInOrder, Ahead
<1>5. Ahead(frame[skb])'
  BY <1>1, <1>2, <1>3, FactsHold DEF Facts, FramesInOrder, Ahead
<1>6. QED
  BY <1>1, <1>2, <1>3, <1>4, <1>5, FactsHold DEF Facts, FramesInOrder

LEMMA PushStoreOrder == IInv /\ FramesInOrder /\ PushStore => FramesInOrder'
<1> SUFFICES ASSUME IInv, FramesInOrder, PushStore PROVE FramesInOrder'
  OBVIOUS
<1> DEFINE n == Len(chain)
<1>1. /\ nicPc = "store" /\ nicPc' = "tail" /\ skb # NULL
      /\ UNCHANGED <<frame, skb, delivered, received, timerPc, cur>>
  BY DEF PushStore, memVars, timerVars, IInv, Control, InsidePush
<1>2. CASE chain' = chain
  BY <1>1, <1>2 DEF FramesInOrder, Ahead
<1>3. CASE chain' = Append(chain, skb)
  <2>1. /\ DOMAIN chain' = 1..(n+1) /\ chain'[n+1] = skb
        /\ \A i \in 1..n : chain'[i] = chain[i]
    BY <1>1, <1>3, FactsHold, AppendProps, SeqProps DEF Facts, IInv, TypeOK
  <2>2. /\ \A i \in 1..(n+1) : i \in 1..n \/ i = n+1
        /\ \A i \in 1..(n+1) : \A j \in 1..i-1 : j \in 1..n
        /\ DOMAIN chain = 1..n
    BY FactsHold DEF Facts
  <2>3. Ahead(received + 1)'
    BY <1>1, <2>1, <2>2, FactsHold DEF Facts, FramesInOrder, Ahead
  <2>4. \A i \in 1..n : frame[chain[i]] < frame[skb]
    BY <1>1, <2>2 DEF FramesInOrder, Ahead
  <2>5. \A i \in 1..(n+1) : \A j \in 1..i-1 : frame[chain'[j]] < frame[chain'[i]]
    BY <2>1, <2>2, <2>4 DEF FramesInOrder
  <2>6. \A i \in 1..(n+1) :
          /\ \A j \in DOMAIN delivered : delivered[j] < frame[chain'[i]]
          /\ timerPc = "shifted" => frame[cur] < frame[chain'[i]]
    BY <1>1, <2>1, <2>2 DEF FramesInOrder, Ahead
  <2>7. timerPc = "shifted" => \A i \in DOMAIN delivered : delivered[i] < frame[cur]
    BY DEF FramesInOrder
  <2>8. skb # NULL => frame[skb] = received /\ frame[skb] # 0
    BY DEF FramesInOrder
  <2>9. \A i \in DOMAIN chain' :
          /\ \A j \in DOMAIN delivered : delivered[j] < frame[chain'[i]]
          /\ timerPc = "shifted" => frame[cur] < frame[chain'[i]]
          /\ \A j \in 1..i-1 : frame[chain'[j]] < frame[chain'[i]]
    BY <2>1, <2>5, <2>6
  <2>10. QED
    BY <1>1, <2>3, <2>7, <2>8, <2>9 DEF FramesInOrder
<1>4. QED
  BY <1>2, <1>3 DEF PushStore

LEMMA PushHeadOrder == IInv /\ FramesInOrder /\ PushHead => FramesInOrder'
<1> SUFFICES ASSUME IInv, FramesInOrder, PushHead PROVE FramesInOrder'
  OBVIOUS
<1>1. /\ nicPc = "head" /\ nicPc' = "tail" /\ skb # NULL
      /\ UNCHANGED <<frame, skb, delivered, received, timerPc, cur>>
  BY DEF PushHead, memVars, timerVars, IInv, Control, InsidePush
<1>2. DOMAIN chain' = 1..1 /\ chain'[1] = skb
  BY SingletonProps, SeqProps, <1>1, FactsHold DEF Facts, PushHead
<1>3. Ahead(received + 1)'
  BY <1>1, <1>2, FactsHold DEF Facts, FramesInOrder, Ahead
<1>4. \A j \in DOMAIN delivered : delivered[j] < frame[skb]
  BY <1>1 DEF FramesInOrder, Ahead
<1>5. timerPc = "shifted" => frame[cur] < frame[skb]
  BY <1>1 DEF FramesInOrder, Ahead
<1>6. QED
  BY <1>1, <1>2, <1>3, <1>4, <1>5 DEF FramesInOrder

LEMMA ShiftOrder == IInv /\ FramesInOrder /\ Tick /\ Shift => FramesInOrder'
<1> SUFFICES ASSUME IInv, FramesInOrder, Tick, Shift PROVE FramesInOrder'
  OBVIOUS
<1> DEFINE n == Len(chain)
<1>1. /\ chain # <<>> /\ n \in Nat \ {0} /\ cur' = chain[1] /\ timerPc' = "shifted"
      /\ UNCHANGED <<frame, skb, delivered, received, nicPc>>
  BY FactsHold, SeqProps, SkbAssumption
     DEF Facts, Tick, Shift, ShiftTo, memVars, nicVars, IInv, TypeOK, ListSound, HeadReaches
<1>2. DOMAIN chain' = 1..(n-1) /\ \A i \in 1..(n-1) : chain'[i] = chain[i+1]
  BY <1>1, TailProps, SeqProps DEF Shift, ShiftTo, IInv, TypeOK
<1>3. \A i \in 1..n-1 : i+1 \in 1..n /\ 1 \in 1..(i+1)-1
  BY <1>1
<1>4. \A i \in 1..n-1 : frame[chain[1]] < frame[chain[i+1]]
  BY <1>3, FactsHold DEF Facts, FramesInOrder
<1>5. \A i \in 1..n-1 : \A j \in 1..i-1 : frame[chain[j+1]] < frame[chain[i+1]]
  <2>1. \A i \in 1..n-1 : \A j \in 1..i-1 : j+1 \in 1..(i+1)-1
    BY <1>1
  <2>2. QED
    BY <2>1, <1>3, FactsHold DEF Facts, FramesInOrder
<1>6. Ahead(received + 1)' /\ (skb # NULL /\ nicPc # "tail" => Ahead(frame[skb])')
  <2>1. \A i \in DOMAIN chain' : i + 1 \in DOMAIN chain /\ chain'[i] = chain[i+1]
    BY <1>1, <1>2, <1>3, SeqProps DEF IInv, TypeOK
  <2>2. 1 \in DOMAIN chain
    BY <1>1, SeqProps DEF IInv, TypeOK
  <2>3. \A f : Ahead(f) => Ahead(f)'
    BY <1>1, <2>1, <2>2 DEF Ahead
  <2>4. QED
    BY <1>1, <2>3 DEF FramesInOrder
<1>7. \A i \in DOMAIN chain' : \A j \in 1..i-1 : frame[chain'[j]] < frame[chain'[i]]
  <2>1. \A i \in 1..n-1 : \A j \in 1..i-1 : j \in 1..n-1
    BY <1>1
  <2>2. QED
    BY <2>1, <1>2, <1>5
<1>8. \A i \in DOMAIN chain' :
        /\ \A j \in DOMAIN delivered : delivered[j] < frame[chain'[i]]
        /\ frame[chain[1]] < frame[chain'[i]]
  BY <1>2, <1>3, <1>4, FactsHold DEF Facts, FramesInOrder
<1>9. \A j \in DOMAIN delivered : delivered[j] < frame[chain[1]]
  BY <1>1, FactsHold DEF Facts, FramesInOrder
<1>10. QED
  BY <1>1, <1>6, <1>7, <1>8, <1>9 DEF FramesInOrder

LEMMA CallbackOrder == IInv /\ FramesInOrder /\ Callback => FramesInOrder'
<1> SUFFICES ASSUME IInv, FramesInOrder, Callback PROVE FramesInOrder'
  OBVIOUS
<1> DEFINE m == Len(delivered)
<1>1. /\ timerPc = "shifted" /\ timerPc' # "shifted" /\ cur \in Skb
      /\ UNCHANGED <<frame, skb, chain, received, nicPc>>
  BY FactsHold DEF Callback, queueVars, memVars, nicVars, Facts
<1>2. /\ DOMAIN delivered = 1..m /\ DOMAIN delivered' = 1..(m+1) /\ m \in Nat
      /\ delivered'[m+1] = frame[cur] /\ \A i \in 1..m : delivered'[i] = delivered[i]
  BY <1>1, FactsHold, AppendProps, SeqProps DEF Facts, Callback
<1> HIDE DEF m
<1>3. \A f : Ahead(f) => \A i \in DOMAIN delivered' : delivered'[i] < f
  <2>1. \A i \in 1..(m+1) : i \in 1..m \/ i = m+1
    BY <1>2
  <2>2. QED
    BY <2>1, <1>1, <1>2 DEF Ahead
<1>4. \A i \in DOMAIN chain : \A j \in DOMAIN delivered' : delivered'[j] < frame[chain[i]]
  <2>1. \A i \in 1..(m+1) : i \in 1..m \/ i = m+1
    BY <1>2
  <2>2. QED
    BY <2>1, <1>1, <1>2 DEF FramesInOrder
<1>5. Ahead(received + 1)' /\ (skb # NULL /\ nicPc # "tail" => Ahead(frame[skb])')
  BY <1>1, <1>3 DEF FramesInOrder, Ahead
<1>6. QED
  BY <1>1, <1>4, <1>5 DEF FramesInOrder

LEMMA OrderNext == IInv /\ FramesInOrder /\ [Next]_vars => FramesInOrder'
<1> SUFFICES ASSUME IInv, FramesInOrder, [Next]_vars PROVE FramesInOrder'
  OBVIOUS
<1>1. ASSUME UNCHANGED <<frame, chain, delivered, received>>,
             timerPc' # "shifted" \/ UNCHANGED <<timerPc, cur>>,
             \/ skb' = NULL
             \/ skb' = skb /\ (nicPc = "tail" => nicPc' = "tail")
      PROVE  FramesInOrder'
  <2>1. \A f : Ahead(f) =>
          /\ \A i \in DOMAIN delivered' : delivered'[i] < f
          /\ timerPc' = "shifted" => frame'[cur'] < f
          /\ \A i \in DOMAIN chain' : frame'[chain'[i]] < f
    BY <1>1 DEF Ahead
  <2>2. Ahead(received + 1)' /\ (skb' # NULL /\ nicPc' # "tail" => Ahead(frame[skb])')
    BY <2>1, <1>1 DEF FramesInOrder, Ahead
  <2>3. QED
    BY <2>2, <1>1 DEF FramesInOrder
<1>2. CASE NicEnter \/ PushTest \/ PushLoad \/ PushTail \/ NicExit
  BY <1>1, <1>2 DEF NicEnter, PushTest, PushBranch, PushLoad, PushTail, NicExit,
     queueVars, memVars, nicVars, timerVars, histVars
<1>3. CASE SkbFree \/ (Tick /\ ShiftEmpty) \/ PanicLoop \/ UNCHANGED vars
  BY <1>1, <1>3 DEF SkbFree, Tick, ShiftEmpty, PanicLoop, vars,
     queueVars, memVars, nicVars, timerVars, histVars
<1>4. QED
  BY <1>2, <1>3, SkbCreateOrder, PushStoreOrder, PushHeadOrder, ShiftOrder, CallbackOrder
     DEF Next, NicStep, Tick, SkbCreate, SkbCreatePanics


\* The frames of the sk_buffers of a sequence, and what Pending is made of.
Carried(c, f) == [i \in DOMAIN c |-> f[c[i]]]

\* Two sequences with the same elements are the same.
LEMMA SameSeq ==
  ASSUME NEW S, NEW p \in Seq(S), NEW q \in Seq(S),
         Len(p) = Len(q), \A i \in 1..Len(p) : p[i] = q[i]
  PROVE  p = q
  OBVIOUS

LEMMA CarriedProps ==
  ASSUME NEW F, NEW c \in Seq(Skb), NEW f \in [Skb -> F]
  PROVE  /\ Carried(c, f) \in Seq(F) /\ Len(Carried(c, f)) = Len(c)
         /\ \A i \in 1..Len(c) : Carried(c, f)[i] = f[c[i]]
<1> DEFINE n == Len(c)
<1>1. n \in Nat /\ DOMAIN c = 1..n /\ \A i \in 1..n : c[i] \in Skb
  BY SeqProps
<1> HIDE DEF n
<1>2. Carried(c, f) = [i \in 1..n |-> f[c[i]]]
  BY <1>1 DEF Carried
<1>3. \A i \in 1..n : f[c[i]] \in F
  BY <1>1
<1>4. [i \in 1..n |-> f[c[i]]] \in Seq(F) /\ Len([i \in 1..n |-> f[c[i]]]) = n
  BY <1>1, <1>3
<1>5. QED
  BY <1>2, <1>4 DEF n

\* A sequence of sk_buffers that grows at its end, and that shrinks at its head.
LEMMA CarriedAppend ==
  ASSUME NEW F, NEW c \in Seq(Skb), NEW s \in Skb, NEW f \in [Skb -> F]
  PROVE  Carried(Append(c, s), f) = Append(Carried(c, f), f[s])
<1> DEFINE x == Carried(Append(c, s), f)
           y == Append(Carried(c, f), f[s])
           n == Len(c)
<1>1. /\ Append(c, s) \in Seq(Skb) /\ Len(Append(c, s)) = n + 1
      /\ \A i \in 1..n : Append(c, s)[i] = c[i]
      /\ Append(c, s)[n + 1] = s
  BY AppendProps
<1>2. x \in Seq(F) /\ Len(x) = n + 1 /\ \A i \in 1..n+1 : x[i] = f[Append(c, s)[i]]
  <2> DEFINE a == Append(c, s)
  <2>2. a \in Seq(Skb) /\ Len(a) = n + 1
    BY <1>1
  <2> HIDE DEF a
  <2>3. Carried(a, f) \in Seq(F) /\ Len(Carried(a, f)) = Len(a)
        /\ \A i \in 1..Len(a) : Carried(a, f)[i] = f[a[i]]
    BY <2>2, CarriedProps
  <2>4. QED
    BY <2>2, <2>3 DEF a
<1>3. Carried(c, f) \in Seq(F) /\ Len(Carried(c, f)) = n /\ f[s] \in F /\ n \in Nat
      /\ \A i \in 1..n : Carried(c, f)[i] = f[c[i]]
  <2>1. n \in Nat /\ f[s] \in F
    BY SeqProps
  <2>2. QED
    BY CarriedProps, <2>1
<1>4. /\ y \in Seq(F) /\ Len(y) = n + 1
      /\ \A i \in 1..n : y[i] = f[c[i]]
      /\ y[n + 1] = f[s]
  BY <1>3, AppendProps
<1> HIDE DEF x, y, n
<1>5. \A i \in 1..n+1 : x[i] = y[i]
  <2>1. \A i \in 1..n+1 : i \in 1..n \/ i = n+1
    BY <1>3
  <2>2. QED
    BY <2>1, <1>1, <1>2, <1>4
<1>6. x = y
  BY <1>2, <1>4, <1>5, SameSeq
<1>7. QED
  BY <1>6 DEF x, y

LEMMA CarriedTail ==
  ASSUME NEW F, NEW c \in Seq(Skb), c # <<>>, NEW f \in [Skb -> F]
  PROVE  /\ f[c[1]] \in F
         /\ Carried(c, f) = <<f[c[1]]>> \o Carried(Tail(c), f)
<1> DEFINE x == Carried(c, f)
           t == Carried(Tail(c), f)
           y == <<f[c[1]]>> \o t
           n == Len(c)
<1>1. n \in Nat \ {0} /\ c[1] \in Skb /\ f[c[1]] \in F
  BY SeqProps
<1>2. /\ Tail(c) \in Seq(Skb) /\ Len(Tail(c)) = n - 1
      /\ \A i \in 1..n-1 : Tail(c)[i] = c[i+1]
  BY TailProps
<1>3. x \in Seq(F) /\ Len(x) = n /\ \A i \in 1..n : x[i] = f[c[i]]
  BY CarriedProps
<1>4. t \in Seq(F) /\ Len(t) = n - 1 /\ \A i \in 1..n-1 : t[i] = f[c[i+1]]
  <2> DEFINE a == Tail(c)
  <2>2. a \in Seq(Skb) /\ Len(a) = n - 1 /\ \A i \in 1..n-1 : a[i] = c[i+1]
    BY <1>2
  <2> HIDE DEF a
  <2>3. Carried(a, f) \in Seq(F) /\ Len(Carried(a, f)) = Len(a)
        /\ \A i \in 1..Len(a) : Carried(a, f)[i] = f[a[i]]
    BY <2>2, CarriedProps
  <2>4. QED
    BY <2>2, <2>3 DEF a
<1>5. /\ y \in Seq(F) /\ Len(y) = n /\ y[1] = f[c[1]]
      /\ \A i \in 2..n : y[i] = t[i-1]
  <2> HIDE DEF t, n
  <2>1. QED
    BY <1>1, <1>4
<1> HIDE DEF x, y, t, n
<1>6. \A i \in 1..n : x[i] = y[i]
  <2>1. \A i \in 1..n : i = 1 \/ (i \in 2..n /\ i-1 \in 1..n-1 /\ (i-1)+1 = i)
    BY <1>1
  <2>2. ASSUME NEW i \in 2..n PROVE x[i] = y[i]
    <3>1. y[i] = t[i-1] /\ i-1 \in 1..n-1 /\ (i-1)+1 = i /\ i \in 1..n
      BY <1>1, <1>5
    <3>2. t[i-1] = f[c[i]]
      BY <3>1, <1>4
    <3>3. QED
      BY <3>1, <3>2, <1>3
  <2>3. x[1] = y[1]
    BY <1>1, <1>3, <1>5
  <2>4. QED
    BY <2>1, <2>2, <2>3
<1>7. x = y
  BY <1>3, <1>5, <1>6, SameSeq
<1>8. QED
  BY <1>1, <1>7 DEF x, y, t

\* What \o does with at most one element in front.
LEMMA FrontProps ==
  ASSUME NEW F, NEW m \in Seq(F), NEW x \in F, NEW y \in F
  PROVE  /\ <<>> \o m = m
         /\ Head(<<x>> \o m) = x /\ Tail(<<x>> \o m) = m /\ <<x>> \o m # <<>>
         /\ Append(<<x>> \o m, y) = <<x>> \o Append(m, y)
  OBVIOUS

Held == IF timerPc = "shifted" THEN <<frame[cur]>> ELSE <<>>

LEMMA PendingIs == Pending = Held \o Carried(chain, frame)
BY DEF Pending, Held, Carried

\* The elements of a concatenation come from one of its parts.
LEMMA ConcatElements ==
  ASSUME NEW S, NEW p \in Seq(S), NEW q \in Seq(S), NEW i \in DOMAIN (p \o q)
  PROVE  \/ \E j \in DOMAIN p : (p \o q)[i] = p[j]
         \/ \E j \in DOMAIN q : (p \o q)[i] = q[j]
<1>1. i \in 1..Len(p) \/ i - Len(p) \in 1..Len(q)
  OBVIOUS
<1>2. i \in 1..Len(p) => (p \o q)[i] = p[i] /\ i \in DOMAIN p
  OBVIOUS
<1>3. i \notin 1..Len(p) => /\ (p \o q)[i] = q[i - Len(p)]
                            /\ i - Len(p) \in DOMAIN q
  OBVIOUS
<1>4. QED
  BY <1>1, <1>2, <1>3

\* Every step of the two handlers is a step of the FIFO, or none.
LEMMA StepRefines ==
  IInv /\ IInv' /\ FramesInOrder /\ [Next]_vars => [Fifo!Next]_Fifo!vars
<1> SUFFICES ASSUME IInv, IInv', FramesInOrder, [Next]_vars
             PROVE  [Fifo!Next]_Fifo!vars
  OBVIOUS
<1> DEFINE c == Carried(chain, frame)
<1>1. /\ chain \in Seq(Skb) /\ chain' \in Seq(Skb)
      /\ frame \in [Skb -> Nat] /\ frame' \in [Skb -> Nat]
      /\ delivered \in Seq(Nat)
      /\ timerPc = "shifted" => cur \in Skb /\ frame[cur] \in Nat
  <2>1. chain \in Seq(Skb) /\ chain' \in Seq(Skb)
    BY DEF IInv, TypeOK
  <2>2. frame \in [Skb -> Nat] /\ frame' \in [Skb -> Nat]
    <3>1. [Skb -> 0..MaxFrames] \subseteq [Skb -> Nat]
      BY SkbAssumption
    <3>2. frame \in [Skb -> 0..MaxFrames] /\ frame' \in [Skb -> 0..MaxFrames]
      BY DEF IInv, TypeOK
    <3>3. QED
      BY <3>1, <3>2
  <2>3. delivered \in Seq(Nat) /\ (timerPc = "shifted" => cur \in Skb)
    BY FactsHold DEF Facts
  <2>4. QED
    BY <2>1, <2>2, <2>3
<1>2. c \in Seq(Nat) /\ Held \in Seq(Nat)
  BY <1>1, CarriedProps DEF Held
<1>3. Pending = Held \o c /\ Pending' = Held' \o Carried(chain', frame')
  BY DEF Pending, Held, Carried
<1>4. ASSUME UNCHANGED <<Held, delivered>>, Carried(chain', frame') = c
      PROVE  [Fifo!Next]_Fifo!vars
  BY <1>3, <1>4 DEF Fifo!vars
<1>5. ASSUME UNCHANGED <<chain, frame, delivered>>,
             UNCHANGED <<timerPc, cur>> \/ (timerPc # "shifted" /\ timerPc' # "shifted")
      PROVE  [Fifo!Next]_Fifo!vars
  BY <1>4, <1>5 DEF Held
<1>6. CASE NicEnter \/ PushTest \/ PushLoad \/ PushTail \/ NicExit
  BY <1>5, <1>6 DEF NicEnter, PushTest, PushBranch, PushLoad, PushTail, NicExit,
     queueVars, memVars, nicVars, timerVars, histVars
<1>7. CASE SkbFree \/ (Tick /\ ShiftEmpty) \/ PanicLoop \/ UNCHANGED vars
  BY <1>5, <1>7 DEF SkbFree, Tick, ShiftEmpty, PanicLoop, vars,
     queueVars, memVars, nicVars, timerVars, histVars
<1>8. ASSUME NEW s \in Skb, NEW point, TakeFrame(s, point) PROVE [Fifo!Next]_Fifo!vars
  <2>1. live[s] = FALSE /\ UNCHANGED <<chain, delivered, timerPc, cur>>
        /\ \A x \in Skb : x # s => frame'[x] = frame[x]
    BY <1>1, <1>8 DEF TakeFrame, timerVars
  <2>2. \A i \in DOMAIN chain : chain[i] # s /\ chain[i] \in Skb
    BY <2>1, <1>1, SeqProps DEF IInv, ListSound
  <2>3. timerPc = "shifted" => cur # s
    BY <2>1, <1>1, SkbAssumption DEF IInv, ListSound
  <2>4. Carried(chain', frame') = c
    BY <2>1, <2>2 DEF Carried
  <2>5. UNCHANGED <<Held, delivered>>
    BY <2>1, <2>3, <1>1 DEF Held
  <2>6. QED
    BY <2>4, <2>5, <1>4
\* A frame that is linked is accepted.
<1>9. ASSUME skb # NULL, nicPc # "tail", chain' = Append(chain, skb),
             UNCHANGED <<frame, delivered, timerPc, cur>>
      PROVE  Fifo!Next
  <2>1. skb \in Skb /\ frame[skb] \in Nat
    BY <1>1, <1>9, SkbAssumption DEF IInv, TypeOK
  <2>2. frame[skb] \in 1..MaxFrames
    BY <1>9, <2>1, SkbAssumption DEF IInv, TypeOK, FramesInOrder
  <2>3. Carried(chain', frame') = Append(c, frame[skb]) /\ Held' = Held
    BY <1>1, <1>9, <2>1, CarriedAppend DEF Held
  <2>4. Pending' = Append(Pending, frame[skb])
    <3> HIDE DEF c
    <3>1. Held \o Append(c, frame[skb]) = Append(Held \o c, frame[skb])
      BY <1>2, <2>1, <1>1, FrontProps, SMTT(30) DEF Held
    <3>2. QED
      BY <1>3, <2>3, <3>1
  <2>5. Pending \in Seq(Nat)
    BY <1>2, <1>3
  <2>6. \A i \in DOMAIN (delivered \o Pending) : (delivered \o Pending)[i] < frame[skb]
    <3>1. Ahead(frame[skb])
      BY <1>9 DEF FramesInOrder
    <3>2. \A i \in DOMAIN Held : Held[i] < frame[skb]
      BY <3>1, <1>1 DEF Ahead, Held
    <3>3. \A i \in DOMAIN c : c[i] < frame[skb]
      BY <3>1 DEF Ahead, Carried
    <3> HIDE DEF c
    <3>4. \A i \in DOMAIN Pending : Pending[i] < frame[skb]
      BY <3>2, <3>3, <1>2, <1>3, ConcatElements
    <3>5. QED
      BY <3>1, <3>4, <2>5, <1>1, ConcatElements DEF Ahead
  <2>7. Fifo!Accept(frame[skb])
    BY <2>4, <2>6, <1>9 DEF Fifo!Accept, Fifo!Accepted
  <2>8. QED
    BY <2>2, <2>7 DEF Fifo!Next
<1>10. CASE PushStore
  <2>1. CASE chain' = chain
    BY <1>5, <1>10, <2>1 DEF PushStore, memVars, timerVars
  <2>2. CASE chain' = Append(chain, skb)
    <3>1. skb # NULL /\ nicPc # "tail"
      BY <1>10 DEF PushStore, IInv, Control, InsidePush
    <3>2. UNCHANGED <<frame, delivered, timerPc, cur>>
      BY <1>10 DEF PushStore, memVars, timerVars
    <3>3. QED
      BY <1>9, <2>2, <3>1, <3>2
  <2>3. QED
    BY <1>10, <2>1, <2>2 DEF PushStore
<1>11. CASE PushHead
  <2>1. skb # NULL /\ nicPc # "tail" /\ chain = <<>> /\ chain' = <<skb>>
    BY <1>11 DEF PushHead, IInv, Control, InsidePush, TailKnown
  <2>2. UNCHANGED <<frame, delivered, timerPc, cur>>
    BY <1>11 DEF PushHead, memVars, timerVars
  <2>3. chain' = Append(chain, skb)
    BY <2>1
  <2>4. QED
    BY <1>9, <2>1, <2>2, <2>3
<1>12. CASE Tick /\ Shift
  <2>1. /\ chain # <<>> /\ cur' = chain[1] /\ timerPc # "shifted" /\ timerPc' = "shifted"
        /\ chain' = Tail(chain) /\ UNCHANGED <<frame, delivered>>
    BY <1>12, SkbAssumption DEF Tick, Shift, ShiftTo, memVars, IInv, ListSound, HeadReaches
  <2>2. Held = <<>> /\ Held' = <<frame[chain[1]]>>
    BY <2>1 DEF Held
  <2>3. c = <<frame[chain[1]]>> \o Carried(Tail(chain), frame)
    BY <1>1, <2>1, CarriedTail
  <2>4. Held \o c = c
    <3> HIDE DEF c
    <3>1. QED
      BY <1>2, <2>2
  <2>5. Pending' = Pending
    BY <1>3, <2>1, <2>2, <2>3, <2>4
  <2>6. QED
    BY <2>1, <2>5 DEF Fifo!vars
<1>13. CASE Callback
  <2>1. /\ timerPc = "shifted" /\ timerPc' # "shifted"
        /\ delivered' = Append(delivered, frame[cur]) /\ UNCHANGED <<chain, frame>>
    BY <1>13 DEF Callback, queueVars, memVars
  <2>2. Held = <<frame[cur]>> /\ Held' = <<>> /\ Carried(chain', frame') = c
    BY <2>1 DEF Held
  <2>3. Pending # <<>> /\ Head(Pending) = frame[cur] /\ Tail(Pending) = Pending'
    <3> HIDE DEF c
    <3>1. QED
      BY <1>1, <1>2, <1>3, <2>1, <2>2, FrontProps, SMTT(30)
  <2>4. QED
    BY <2>1, <2>3 DEF Fifo!Next, Fifo!HandOver
<1>14. QED
  BY <1>6, <1>7, <1>8, <1>10, <1>11, <1>12, <1>13
     DEF Next, NicStep, Tick, SkbCreate, SkbCreatePanics

LEMMA InitRefines == Init => Fifo!Init
BY DEF Init, Fifo!Init, Pending

\* The protocols get the frames in the order the card received them, each at
\* most once, and no frame that is linked is lost before it is handed over.
THEOREM QueueRefinesFifo == Spec => RefinesFifo
<1>1. Spec => [](IInv /\ FramesInOrder)
  BY InitInv, NextInv, InitOrder, OrderNext, PTL DEF Spec
<1>2. QED
  BY <1>1, InitRefines, StepRefines, PTL DEF Spec, RefinesFifo, Fifo!Spec

\* A tick that falls outside skb_recv_push leaves recv_tail at the end of the
\* list recv_head starts, whatever earlier races have left behind.
THEOREM TickAlwaysHeals == Spec => TickHeals
<1>1. IInv /\ IInv' /\ [Next]_vars =>
        [Tick /\ nicPc \notin InsidePush
           => IF chain' = <<>> THEN recv_tail' = NULL ELSE recv_tail' = Last(chain')]_vars
  <2> SUFFICES ASSUME IInv, IInv', Tick, nicPc \notin InsidePush
               PROVE  IF chain' = <<>> THEN recv_tail' = NULL ELSE recv_tail' = Last(chain')
    OBVIOUS
  <2>1. nicPc' # "tail"
    BY DEF Tick, nicVars, InsidePush
  <2>2. CASE ShiftEmpty
    BY <2>1, <2>2 DEF ShiftEmpty, IInv, TailKnown
  <2>3. CASE Shift
    <3>1. chain' # <<>> => recv_tail' = Last(chain')
      BY <2>1 DEF IInv, TailKnown
    <3>2. chain' = <<>> => recv_tail' = NULL
      <4> SUFFICES ASSUME chain' = <<>> PROVE next[recv_head] = NULL
        BY <2>3 DEF Shift, ShiftTo
      <4>1. chain # <<>> /\ chain \in Seq(Skb) /\ Tail(chain) = <<>>
        BY <2>3, SkbAssumption DEF Shift, ShiftTo, IInv, TypeOK, ListSound, HeadReaches
      <4>2. Len(chain) = 1
        BY <4>1, TailProps
      <4>3. QED
        BY <4>1, <4>2 DEF IInv, ListSound, HeadReaches, Last
    <3>3. QED
      BY <3>1, <3>2
  <2>4. QED
    BY <2>2, <2>3 DEF Tick
<1>2. QED
  BY <1>1, Invariance, PTL DEF Spec, TickHeals
-----------------------------------------------------------------------------
(* Where the frames are.                                                   *)

\* Every frame received so far has been handed over or is in a live sk_buffer,
\* one sk_buffer for each frame; the timer handler alone holds one that has
\* been handed over.
Numbered ==
  /\ \A s \in Skb : live[s] => frame[s] \in 1..received
  /\ \A s, t \in Skb : live[s] /\ live[t] /\ frame[s] = frame[t] => s = t
  /\ \A s \in Skb : skb # NULL /\ live[s] /\ frame[s] = frame[skb] => s = skb
  /\ skb # NULL => frame[skb] \in 1..received
  /\ \A i \in DOMAIN delivered : delivered[i] \in 1..received
  /\ \A i \in DOMAIN delivered, s \in Skb :
       live[s] /\ frame[s] = delivered[i] => s = cur /\ timerPc = "callback"
  /\ \A f \in 1..received :
       \/ \E i \in DOMAIN delivered : delivered[i] = f
       \/ \E s \in Skb : live[s] /\ frame[s] = f
  /\ timerPc = "callback" => \E i \in DOMAIN delivered : delivered[i] = frame[cur]

LEMMA InitNumbered == Init => Numbered
BY DEF Init, Numbered

LEMMA NextNumbered == IInv /\ Numbered /\ [Next]_vars => Numbered'
<1> SUFFICES ASSUME IInv, Numbered, [Next]_vars PROVE Numbered'
  OBVIOUS
<1>1. received \in Nat /\ delivered \in Seq(Nat) /\ (timerPc = "shifted" => cur \in Skb)
  BY FactsHold DEF Facts
<1>2. ASSUME UNCHANGED <<live, frame, delivered, received>>, skb' \in {skb, NULL},
             timerPc' = "callback" \/ timerPc = "callback" => UNCHANGED <<timerPc, cur>>
      PROVE  Numbered'
  BY <1>2 DEF Numbered
<1>3. CASE NicEnter \/ PushTest \/ PushLoad \/ PushStore \/ PushHead \/ PushTail \/ NicExit
  BY <1>2, <1>3 DEF NicEnter, PushTest, PushBranch, PushLoad, PushStore, PushHead, PushTail,
     NicExit, memVars, nicVars, timerVars, histVars
<1>4. CASE Tick \/ PanicLoop \/ UNCHANGED vars
  BY <1>2, <1>4 DEF Tick, Shift, ShiftTo, ShiftEmpty, PanicLoop, vars, memVars, nicVars, timerVars, histVars
<1>5. ASSUME NEW s \in Skb, NEW point \in {"test", "stopped"}, TakeFrame(s, point)
      PROVE  Numbered'
  <2>1. /\ ~live[s] /\ received' = received + 1 /\ skb' = s
        /\ UNCHANGED <<delivered, timerPc, cur>>
        /\ live'[s] /\ frame'[s] = received + 1
        /\ \A x \in Skb : x # s => (live'[x] <=> live[x]) /\ frame'[x] = frame[x]
    BY <1>5 DEF TakeFrame, IInv, TypeOK, timerVars
  <2>2. \A f \in 1..received : f \in 1..received' /\ f # received + 1
    BY <1>1, <2>1
  <2>3. \A f \in 1..received' : f \in 1..received \/ f = received + 1
    BY <1>1, <2>1
  <2>4. received + 1 \in 1..received'
    BY <1>1, <2>1
  <2>5. \A x \in Skb : live'[x] => x = s \/ live[x]
    BY <2>1
  <2>6. /\ \A x \in Skb : live'[x] => frame'[x] \in 1..received'
        /\ \A x, t \in Skb : live'[x] /\ live'[t] /\ frame'[x] = frame'[t] => x = t
        /\ \A x \in Skb : live'[x] /\ frame'[x] = frame'[s] => x = s
    BY <2>1, <2>2, <2>4, <2>5 DEF Numbered
  <2>7. /\ \A i \in DOMAIN delivered : delivered[i] \in 1..received'
        /\ \A i \in DOMAIN delivered, x \in Skb :
             live'[x] /\ frame'[x] = delivered[i] => x = cur /\ timerPc = "callback"
    BY <2>1, <2>2, <2>5 DEF Numbered
  <2>8. \A f \in 1..received' :
          \/ \E i \in DOMAIN delivered : delivered[i] = f
          \/ \E x \in Skb : live'[x] /\ frame'[x] = f
    <3>1. \A x \in Skb : live[x] => live'[x] /\ frame'[x] = frame[x]
      BY <2>1
    <3>2. QED
      BY <3>1, <2>1, <2>3 DEF Numbered
  <2>9. timerPc = "callback" => \E i \in DOMAIN delivered : delivered[i] = frame'[cur]
    <3>1. timerPc = "callback" => cur \in Skb /\ live[cur]
      BY DEF IInv, TypeOK, Control, ListSound
    <3>2. QED
      BY <3>1, <2>1 DEF Numbered
  <2>10. QED
    BY <2>1, <2>4, <2>6, <2>7, <2>8, <2>9 DEF Numbered
<1>6. CASE Callback
  <2> DEFINE m == Len(delivered)
  <2>1. /\ timerPc = "shifted" /\ timerPc' = "callback" /\ cur \in Skb /\ live[cur]
        /\ UNCHANGED <<frame, skb, live, received, cur>>
    BY <1>1, <1>6, SkbAssumption DEF Callback, queueVars, memVars, nicVars, IInv, ListSound
  <2>2. /\ DOMAIN delivered = 1..m /\ DOMAIN delivered' = 1..(m+1) /\ m \in Nat
        /\ delivered'[m+1] = frame[cur] /\ \A i \in 1..m : delivered'[i] = delivered[i]
    BY <1>1, <1>6, FactsHold, AppendProps, SeqProps DEF Facts, Callback
  <2> HIDE DEF m
  <2>3. /\ \A i \in 1..(m+1) : i \in 1..m \/ i = m+1
        /\ \A i \in 1..m : i \in 1..(m+1)
        /\ m+1 \in 1..(m+1)
    BY <2>2
  <2>4. \A i \in 1..(m+1), s \in Skb : live[s] /\ frame[s] = delivered'[i] => s = cur
    BY <2>1, <2>2, <2>3 DEF Numbered
  <2>5. \A i \in 1..(m+1) : delivered'[i] \in 1..received
    BY <2>1, <2>2, <2>3 DEF Numbered
  <2>6. \A f \in 1..received :
          \/ \E i \in 1..(m+1) : delivered'[i] = f
          \/ \E s \in Skb : live[s] /\ frame[s] = f
    BY <2>2, <2>3 DEF Numbered
  <2>7. \E i \in 1..(m+1) : delivered'[i] = frame[cur]
    BY <2>2, <2>3
  <2>8. QED
    BY <2>1, <2>2, <2>4, <2>5, <2>6, <2>7 DEF Numbered
<1>7. CASE SkbFree
  <2>1. /\ timerPc = "callback" /\ timerPc' = "idle"
        /\ UNCHANGED <<frame, skb, delivered, received>>
        /\ \A s \in Skb : live'[s] <=> live[s] /\ s # cur
    BY <1>7 DEF SkbFree, nicVars, histVars, IInv, TypeOK
  <2>2. QED
    BY <2>1 DEF Numbered
<1>8. QED
  BY <1>3, <1>4, <1>5, <1>6, <1>7 DEF Next, NicStep, SkbCreate, SkbCreatePanics
=============================================================================
