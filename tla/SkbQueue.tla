------------------------------- MODULE SkbQueue -------------------------------
(***************************************************************************)
(* The queue of received frames (net/skbuffer.c) under the two interrupt   *)
(* handlers that share it without a lock:                                  *)
(*   - the NIC handler, receive() of am79c793.c, allocates an sk_buffer    *)
(*     per frame and links it with skb_recv_push;                          *)
(*   - the timer handler, skb_handle_recv, unlinks one sk_buffer per tick  *)
(*     with skb_recv_shift, hands it to the protocols and frees it.        *)
(* A handler is entered with interrupts off; the first kmalloc or kfree it *)
(* executes ends in "sti", so from then on the other handler may nest in   *)
(* it, between any two memory accesses (the kernel is built without        *)
(* optimisation: every access to recv_head and recv_tail is a load or a    *)
(* store).  A line is masked while its handler runs.                       *)
(*                                                                         *)
(* The prev fields are written and never read, so they are left out.       *)
(***************************************************************************)
EXTENDS Naturals, Sequences

CONSTANTS
  Skb,        \* the sk_buffer objects kmalloc can return
  NULL,       \* the null pointer
  MaxFrames   \* bound: frames the card receives

ASSUME SkbAssumption == /\ NULL \notin Skb
                        /\ MaxFrames \in Nat

VARIABLES
  recv_head, recv_tail,  \* the two ends of the queue
  next,                  \* the next field of every sk_buffer
  live,                  \* is the object allocated?
  frame,                 \* number of the frame the object carries
  top,                   \* context the processor executes
  nicPc, skb, tailReg,   \* the NIC handler: next statement, its skb, loaded tail
  timerPc, cur,          \* the timer handler: next statement, the shifted skb
  received,              \* history: frames taken from the card so far
  chain,                 \* history: the sk_buffers reachable from recv_head
  delivered,             \* history: frames handed to reveice_callback, in order
  raced                  \* history: has a tick fallen inside a push?

queueVars == <<recv_head, recv_tail, next>>
memVars   == <<live, frame>>
nicVars   == <<nicPc, skb, tailReg>>
timerVars == <<timerPc, cur>>
histVars  == <<received, chain, delivered, raced>>
vars == <<queueVars, memVars, top, nicVars, timerVars, histVars>>

Last(s) == s[Len(s)]

\* The program points inside skb_recv_push after its first load of recv_tail.
InsidePush == {"load", "store", "head", "tail"}

Init ==
  /\ recv_head = NULL
  /\ recv_tail = NULL
  /\ next = [s \in Skb |-> NULL]
  /\ live = [s \in Skb |-> FALSE]
  /\ frame = [s \in Skb |-> 0]
  /\ top = "thread"
  /\ nicPc = "idle" /\ skb = NULL /\ tailReg = NULL
  /\ timerPc = "idle" /\ cur = NULL
  /\ received = 0
  /\ chain = <<>>
  /\ delivered = <<>>
  /\ raced = FALSE

-----------------------------------------------------------------------------
(* Parts of the handlers, with the value a slip would get wrong as a       *)
(* parameter, and such slips: the properties below reject each of them.    *)

\* skb_create, a zeroed object, and what becomes of it.
TakeFrame(s, point) ==
  /\ top = "nic" /\ nicPc \in {"entry", "loop"}
  /\ received < MaxFrames
  /\ ~live[s]
  /\ live' = [live EXCEPT ![s] = TRUE]
  /\ next' = [next EXCEPT ![s] = NULL]
  /\ frame' = [frame EXCEPT ![s] = received + 1]
  /\ received' = received + 1
  /\ skb' = s
  /\ nicPc' = point
  /\ UNCHANGED <<recv_head, recv_tail, top, tailReg, timerVars,
                 chain, delivered, raced>>

\* The statement of skb_recv_push that follows if (recv_tail).
PushBranch(branch) ==
  /\ top = "nic" /\ nicPc = "test"
  /\ nicPc' = branch
  /\ UNCHANGED <<queueVars, memVars, top, skb, tailReg, timerVars, histVars>>

\* skb_recv_shift on a queue with a head; chain loses what recv_head named.
ShiftTo(head, tail) ==
  /\ recv_head' = head
  /\ recv_tail' = tail
  /\ next' = [next EXCEPT ![recv_head] = NULL]
  /\ cur' = recv_head
  /\ timerPc' = "shifted"
  /\ top' = "timer"
  /\ chain' = Tail(chain)

\* skb_recv_push without its test: every frame becomes the head.
PushTestAlwaysHead == PushBranch("head")

\* skb_recv_shift that leaves recv_head alone when it takes the last frame.
ShiftKeepsLast ==
  /\ recv_head # NULL
  /\ ShiftTo(IF next[recv_head] = NULL THEN recv_head ELSE next[recv_head], recv_tail)

\* skb_recv_shift without its last if: recv_tail survives the last frame.
ShiftKeepsTail ==
  /\ recv_head # NULL
  /\ ShiftTo(next[recv_head], recv_tail)

\* skb_recv_shift that takes recv_head = recv_tail for an empty queue.
ShiftNotLast ==
  /\ recv_head # NULL /\ recv_head # recv_tail
  /\ ShiftTo(next[recv_head], recv_tail)

\* skb_recv_shift that returns at once when recv_head is null.
ShiftEmptyReturns ==
  /\ recv_head = NULL
  /\ UNCHANGED <<queueVars, timerVars, top, chain>>

-----------------------------------------------------------------------------
(* The NIC handler.                                                        *)

\* The card interrupts the boot thread, or the timer handler once the latter
\* has interrupts on again.  Interrupts are off at "entry".
NicEnter ==
  /\ nicPc = "idle"
  /\ top = "timer" => timerPc = "callback"
  /\ nicPc' = "entry"
  /\ top' = "nic"
  /\ UNCHANGED <<queueVars, memVars, skb, tailReg, timerVars, histVars>>

\* skb_create and the copy of the frame: interrupts are on from here.
SkbCreate(s) == TakeFrame(s, "test")

\* The length the descriptor gives is too large for kzmalloc (a word that is no
\* frame, see RxRing): panic() loops for ever, with interrupts on.  A page fault
\* in the copy stops the handler there too.
SkbCreatePanics(s) == TakeFrame(s, "stopped")

PanicLoop == top = "nic" /\ nicPc = "stopped" /\ UNCHANGED vars

\* if (recv_tail)
PushTest == PushBranch(IF recv_tail # NULL THEN "load" ELSE "head")

\* recv_tail->next = skb: the load of recv_tail ...
PushLoad ==
  /\ top = "nic" /\ nicPc = "load"
  /\ tailReg' = recv_tail
  /\ nicPc' = "store"
  /\ UNCHANGED <<queueVars, memVars, top, skb, timerVars, histVars>>

\* ... and the store.  A store through a null pointer lands in low memory,
\* which is no sk_buffer.
PushStore ==
  /\ top = "nic" /\ nicPc = "store"
  /\ next' = [s \in Skb |-> IF s = tailReg THEN skb ELSE next[s]]
  /\ chain' = IF chain # <<>> /\ tailReg = Last(chain)
                THEN Append(chain, skb) ELSE chain
  /\ nicPc' = "tail"
  /\ UNCHANGED <<recv_head, recv_tail, memVars, top, skb, tailReg, timerVars,
                 received, delivered, raced>>

\* else branch: recv_head = skb
PushHead ==
  /\ top = "nic" /\ nicPc = "head"
  /\ recv_head' = skb
  /\ chain' = <<skb>>
  /\ nicPc' = "tail"
  /\ UNCHANGED <<recv_tail, next, memVars, top, skb, tailReg, timerVars,
                 received, delivered, raced>>

\* recv_tail = skb, the last statement of either branch
PushTail ==
  /\ top = "nic" /\ nicPc = "tail"
  /\ recv_tail' = skb
  /\ skb' = NULL
  /\ tailReg' = NULL
  /\ nicPc' = "loop"
  /\ UNCHANGED <<recv_head, next, memVars, top, timerVars, histVars>>

\* The receive loop finds no more frame and the handler returns.
NicExit ==
  /\ top = "nic" /\ nicPc \in {"entry", "loop"}
  /\ nicPc' = "idle"
  /\ top' = IF timerPc # "idle" THEN "timer" ELSE "thread"
  /\ UNCHANGED <<queueVars, memVars, skb, tailReg, timerVars, histVars>>

-----------------------------------------------------------------------------
(* The timer handler.                                                      *)

\* skb_recv_shift, executed with interrupts off from the entry of the handler.
Shift ==
  /\ recv_head # NULL
  /\ ShiftTo(next[recv_head], IF next[recv_head] = NULL THEN NULL ELSE recv_tail)

\* A tick on an empty queue: the handler returns with interrupts still off.
ShiftEmpty ==
  /\ recv_head = NULL
  /\ recv_tail' = NULL
  /\ UNCHANGED <<recv_head, next, timerVars, top, chain>>

Tick ==
  /\ timerPc = "idle"
  /\ nicPc # "entry"
  /\ Shift \/ ShiftEmpty
  /\ raced' = (raced \/ nicPc \in InsidePush)
  /\ UNCHANGED <<memVars, nicVars, received, delivered>>

\* reveice_callback: the protocols read the frame.  Interrupts are on again
\* from its first kmalloc, or from the kfree of the data at the latest.
Callback ==
  /\ top = "timer" /\ timerPc = "shifted"
  /\ delivered' = Append(delivered, frame[cur])
  /\ timerPc' = "callback"
  /\ UNCHANGED <<queueVars, memVars, top, nicVars, cur, received, chain, raced>>

\* skb_free and the return of the handler
SkbFree ==
  /\ top = "timer" /\ timerPc = "callback"
  /\ live' = [live EXCEPT ![cur] = FALSE]
  /\ cur' = NULL
  /\ timerPc' = "idle"
  /\ top' = IF nicPc # "idle" THEN "nic" ELSE "thread"
  /\ UNCHANGED <<queueVars, frame, nicVars, histVars>>

-----------------------------------------------------------------------------
NicStep == \/ \E s \in Skb : SkbCreate(s) \/ SkbCreatePanics(s)
           \/ PushTest \/ PushLoad \/ PushStore \/ PushHead \/ PushTail
           \/ NicExit

Next == \/ NicEnter
        \/ NicStep
        \/ PanicLoop
        \/ Tick
        \/ Callback
        \/ SkbFree

(***************************************************************************)
(* The clock keeps ticking and a handler that runs is executed; the card   *)
(* need not ever receive.  receive() leaves its loop once the frames the   *)
(* card holds are drained, which MaxFrames bounds.  A tick that finds      *)
(* interrupts off stays pending, and IRQ 0 goes before the card's line     *)
(* when they are on again (the priority order of the 8259A): strong        *)
(* fairness of Tick.  The card interrupts once per event, and a handler    *)
(* that is not resumed causes none: strong fairness of SkbFree, which the  *)
(* card may interrupt.                                                     *)
(***************************************************************************)
Fairness == /\ SF_vars(Tick)
            /\ WF_vars(Callback)
            /\ SF_vars(SkbFree)
            /\ WF_vars(NicStep)

Spec == Init /\ [][Next]_vars
FairSpec == Spec /\ Fairness

-----------------------------------------------------------------------------
(* Correctness.                                                            *)

\* Every variable keeps its kind of value (a part of QueueSound).
TypeOK ==
  /\ recv_head \in Skb \union {NULL}
  /\ recv_tail \in Skb \union {NULL}
  /\ next \in [Skb -> Skb \union {NULL}]
  /\ live \in [Skb -> BOOLEAN]
  /\ frame \in [Skb -> 0..MaxFrames]
  /\ top \in {"thread", "nic", "timer"}
  /\ nicPc \in {"idle", "entry", "loop", "test", "stopped"} \union InsidePush
  /\ skb \in Skb \union {NULL}
  /\ tailReg \in Skb \union {NULL}
  /\ timerPc \in {"idle", "shifted", "callback"}
  /\ cur \in Skb \union {NULL}
  /\ received \in 0..MaxFrames
  /\ chain \in Seq(Skb)
  /\ delivered \in Seq(0..MaxFrames)
  /\ raced \in BOOLEAN

\* The list that starts at recv_head, followed through the next fields, is
\* exactly chain and ends in a null pointer: no cycle, no shortcut.
HeadReaches ==
  IF chain = <<>>
    THEN recv_head = NULL
    ELSE /\ recv_head = chain[1]
         /\ \A i \in 1..Len(chain)-1 : next[chain[i]] = chain[i+1]
         /\ next[Last(chain)] = NULL

\* All of the list is allocated, each object once.
ListSound ==
  /\ HeadReaches
  /\ \A i, j \in DOMAIN chain : chain[i] = chain[j] => i = j
  /\ \A i \in DOMAIN chain : live[chain[i]] /\ chain[i] # cur
  /\ cur # NULL => live[cur]

\* Whatever the interleaving of skb_recv_push and skb_recv_shift, the timer
\* handler that starts at recv_head only ever meets allocated sk_buffers, each
\* once, and never the one it is about to free: it can neither hand over a
\* freed frame nor free a frame twice.
QueueSound == TypeOK /\ ListSound

\* A frame disappears, and its sk_buffer leaks, only if a tick has fallen
\* inside a skb_recv_push: without such a tick every allocated sk_buffer is in
\* the queue, in the hands of the timer handler, or on its way in.
LossNeedsRace ==
  ~raced => {s \in Skb : live[s]} \subseteq
              {chain[i] : i \in DOMAIN chain} \union {cur, skb}

\* recv_tail points to a buffer the consumer cannot reach: frames pushed now
\* are lost.
Deaf == recv_head = NULL /\ recv_tail # NULL

\* A tick outside skb_recv_push always leaves both ends agreeing, whatever
\* earlier races have left behind: the queue heals itself.
TickHeals ==
  [][Tick /\ nicPc \notin InsidePush
       => IF chain' = <<>> THEN recv_tail' = NULL ELSE recv_tail' = Last(chain')]_vars

\* The NIC handler has panicked on top of the timer handler, whose line is
\* masked: nothing runs any more.
Hung == top = "nic" /\ nicPc = "stopped" /\ timerPc # "idle"

\* A frame that is linked reaches the protocols, unless the kernel hangs.
QueuedIsDelivered ==
  \A f \in 1..MaxFrames :
    (\E i \in DOMAIN chain : frame[chain[i]] = f)
      ~> (\E i \in DOMAIN delivered : delivered[i] = f) \/ Hung

\* The deafness a race causes does not last: the clock ends it.
DeafnessEnds == Deaf ~> ~Deaf \/ Hung

\* The queue implements the loss-before-queueing FIFO of FrameFifo: what the
\* timer handler holds still counts as queued until it calls reveice_callback.
Pending == (IF timerPc = "shifted" THEN <<frame[cur]>> ELSE <<>>)
             \o [i \in DOMAIN chain |-> frame[chain[i]]]

Fifo == INSTANCE FrameFifo
          WITH Frames <- 1..MaxFrames, queue <- Pending, out <- delivered
RefinesFifo == Fifo!Spec

=============================================================================
