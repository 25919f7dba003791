----------------------------- MODULE TerminalProofs -----------------------------
(***************************************************************************)
(* Proofs about the two halves of the terminal.                            *)
(*                                                                         *)
(* Console, for any number of printers and every size of the console, the  *)
(* screen and the line.  A context that has found room for its character   *)
(* may be interrupted by others, which find less room; how far each can    *)
(* carry the cursor depends on its place in the stack.                     *)
(*                                                                         *)
(* Keyboard, for every set of keys, every size of the ring and of the      *)
(* tty's buffer, and any number of bytes.  The inductive invariant adds to *)
(* RingDrained and InputIsEchoPrefix what a modifier stands for between    *)
(* the key and the driver (Tracked): a modifier that the bytes on their    *)
(* way leave set belongs to a key that is down, whose break sequence will  *)
(* clear it.                                                               *)
(***************************************************************************)
EXTENDS Console, Keyboard, TLAPS, FiniteSetTheorems

-----------------------------------------------------------------------------
(* The console: its invariant.                                              *)

Depth == Cardinality(Ctx)

\* How far the context at place p of the stack, and those on top of it, can
\* carry the cursor, and the start of the screen.
CursorReach(p) == End - 1 + Width * (Depth - p)
StartReach(p) == End - Screen - 1 + Width * (Depth + 1 - p)

\* What a context that has found room adds to the cursor, at most.
Gain(o) == CASE o = "char" -> 1 [] o = "newline" -> Width [] OTHER -> 0

HasTested(c) == pc[c] \in {"store", "load", "move"}

Aligned(x) == \E k \in Nat : x = Origin + Width * k

Distinct == \A p, q \in 1..Len(stack) : stack[p] = stack[q] => p = q

\* What a context is doing at each of its statements.
KindAt(here, o) ==
  /\ here = "store" => o = "char"
  /\ here = "erase" => o = "backspace"
  /\ here \in {"room", "load", "move", "loop", "test", "flushCursor", "setCursor",
               "flushStart", "setStart"} => o \in Writes
  /\ here \in {"wipe", "homeStart", "homeLoad", "homeCursor"} => o = "clear"
  /\ here \in {"scroll", "scrollLoad", "scrollStore"} => o # "clear"

Kinds == \A c \in Ctx : /\ c # "keyboard" => op[c] \in Prints
                        /\ KindAt(pc[c], op[c])

CursorOf(c) ==
  /\ aim[c] \in Origin..CursorReach(1)
  /\ pc[c] = "move" => /\ reg[c] \in Origin..CursorReach(1)
                       /\ op[c] = "backspace" => reg[c] > Origin
  /\ HasTested(c) /\ op[c] = "backspace" => cursor > Origin

\* The context at place p will leave the cursor in reach, whatever the contexts
\* on top of it still store there.
CursorAt(p) ==
  HasTested(stack[p]) /\ op[stack[p]] \in Prints =>
    /\ cursor + Gain(op[stack[p]]) <= CursorReach(p)
    /\ \A q \in p..Len(stack) :
         pc[stack[q]] = "move" => reg[stack[q]] + Gain(op[stack[p]]) <= CursorReach(p)

CursorBound ==
  /\ cursor \in Origin..CursorReach(1)
  /\ \A c \in Ctx : CursorOf(c)
  /\ \A p \in 1..Len(stack) : CursorAt(p)

StartOf(c) ==
  /\ pc[c] = "scrollStore" => /\ reg[c] \in Origin..StartReach(1) /\ Aligned(reg[c])
                              /\ op[c] = "up" => reg[c] > Origin
  /\ pc[c] = "scrollLoad" /\ op[c] = "up" => start > Origin
  /\ pc[c] = "homeCursor" => reg[c] >= Origin

StartAt(p) ==
  /\ pc[stack[p]] \in {"scrollLoad", "scrollStore"} /\ op[stack[p]] # "up" =>
       /\ start <= StartReach(p + 1)
       /\ \A q \in p..Len(stack) :
            pc[stack[q]] = "scrollStore" => reg[stack[q]] <= StartReach(p + 1)
  /\ pc[stack[p]] = "homeLoad" => start <= StartReach(p + 1)
  /\ pc[stack[p]] = "homeCursor" => reg[stack[p]] <= StartReach(p + 1)

StartBound ==
  /\ start \in Origin..StartReach(1) /\ Aligned(start)
  /\ \A c \in Ctx : StartOf(c)
  /\ \A p \in 1..Len(stack) : StartAt(p)

\* While one operation runs alone, the text is at most one character ahead of the
\* cursor, and what it has loaded is what the console holds.
AloneOf(c) ==
  /\ pc[c] \in {"room", "store"} => aim[c] = cursor
  /\ HasTested(c) => HasRoom(op[c])
  /\ pc[c] = "move" => reg[c] = cursor
  /\ pc[c] \in {"load", "move"} /\ op[c] = "backspace" => aim[c] = cursor
  /\ pc[c] = "erase" => aim[c] = cursor + 1
  /\ pc[c] \notin {"idle", "load", "move", "erase"} => inked <= cursor
  /\ pc[c] \in {"load", "move"} => inked <= cursor + IF op[c] = "char" THEN 1 ELSE 0
  /\ pc[c] = "erase" => inked <= cursor + 1
  /\ pc[c] = "homeLoad" => start = Origin
  /\ pc[c] = "homeCursor" => reg[c] = Origin

Alone ==
  ~overlapped => /\ Len(stack) <= 1 /\ cursor <= End - 1
                 /\ stack = <<>> => inked <= cursor
                 /\ \A c \in Ctx : AloneOf(c)

Settled == hwCursor = cursor /\ hwStart = start /\ (last \in Writes => cursor < start + Screen)

\* What an operation that nothing interrupts has already put right.
SingleOf(c) ==
  /\ pc[c] # "idle" => op[c] = last
  /\ pc[c] \in {"test", "setCursor", "outCursor"} => reg[c] = cursor
  /\ pc[c] \in {"outStart", "setStart"} => reg[c] = start
  /\ pc[c] \in {"flushStart", "setStart"} => hwCursor = cursor
  /\ pc[c] \in {"showCursor", "outCursor"} => hwStart = start
  /\ pc[c] \in {"flushCursor", "setCursor", "flushStart", "setStart"} => cursor < start + Screen

Single ==
  last # "none" => /\ Len(stack) <= 1
                   /\ stack = <<>> => Settled
                   /\ \A c \in Ctx : SingleOf(c)

IInv == TypeOK /\ Distinct /\ Kinds /\ CursorBound /\ StartBound /\ Alone /\ Single

-----------------------------------------------------------------------------
(* Arithmetic.                                                             *)

LEMMA Times ==
  ASSUME NEW w \in Nat, NEW a \in Int, NEW b \in Int
  PROVE  /\ w * a \in Int /\ w * (a + 1) = w * a + w
         /\ a <= b => w * a <= w * b
         /\ a >= 0 => w * a >= 0
         /\ a >= 1 => w * a >= w
<1>1. w * a \in Int /\ w * b \in Int /\ w * (a + 1) = w * a + w
  OBVIOUS
<1>2. a <= b => w * a <= w * b
  <2> SUFFICES ASSUME a <= b PROVE w * a <= w * b
    OBVIOUS
  <2>1. w * b = w * a + w * (b - a)
    OBVIOUS
  <2>2. b - a \in Nat
    OBVIOUS
  <2>3. w * (b - a) >= 0
    BY <2>2
  <2>4. QED
    BY <2>1, <2>3, <1>1
<1>3. a >= 0 => w * a >= 0
  OBVIOUS
<1>4. a >= 1 => w * a >= w
  <2> SUFFICES ASSUME a >= 1 PROVE w * a >= w
    OBVIOUS
  <2>1. w * a = w * (a - 1) + w
    OBVIOUS
  <2>2. a - 1 \in Nat
    OBVIOUS
  <2>3. w * (a - 1) \in Nat
    BY <2>2
  <2>4. QED
    BY <2>1, <2>3
<1>5. QED
  BY <1>1, <1>2, <1>3, <1>4

\* The end of the line a character is on.
LEMMA LineEnd ==
  ASSUME NEW w \in Nat \ {0}, NEW a \in Nat
  PROVE  /\ w * (a \div w + 1) \in Nat
         /\ a < w * (a \div w + 1) /\ w * (a \div w + 1) <= a + w
<1> DEFINE q == a \div w
<1>1. q \in Nat /\ w * q <= a /\ a < w * q + w
  OBVIOUS
<1> HIDE DEF q
<1>2. w * (q + 1) = w * q + w /\ w * q \in Int
  BY <1>1, Times
<1>3. QED
  BY <1>1, <1>2 DEF q

\* The constants: there is a context, and the screen fits into the console.
LEMMA Constants ==
  /\ IsFiniteSet(Ctx) /\ Depth \in Nat /\ Depth >= 1 /\ "keyboard" \in Ctx
  /\ Origin \in Nat /\ Width \in Nat \ {0} /\ Screen \in Nat \ {0} /\ Limit \in Nat
  /\ End \in Nat /\ Origin + Screen <= End - 1
<1>1. IsFiniteSet(Ctx)
  BY ConsoleAssumption, FS_AddElement DEF Ctx
<1>2. Depth \in Nat
  BY <1>1, FS_CardinalityType DEF Depth
<1>3. Depth # 0
  BY <1>1, FS_EmptySet DEF Depth, Ctx
<1>4. "keyboard" \in Ctx
  BY DEF Ctx
<1>5. Screen + Screen <= Limit
  BY ConsoleAssumption
<1>6. QED
  BY <1>1, <1>2, <1>3, <1>4, <1>5, ConsoleAssumption DEF End

\* How the two bounds shrink along the stack.
LEMMA Reaches ==
  /\ \A p \in Nat : /\ CursorReach(p) \in Int /\ StartReach(p) \in Int
                    /\ CursorReach(p) = CursorReach(p + 1) + Width
                    /\ StartReach(p) = StartReach(p + 1) + Width
                    /\ StartReach(p + 1) = CursorReach(p) - Screen
                    /\ p <= Depth => /\ CursorReach(p) >= End - 1
                                     /\ StartReach(p + 1) >= End - Screen - 1
                                     /\ StartReach(p + 1) >= Origin
  /\ \A p, q \in Nat : p <= q => /\ CursorReach(q) <= CursorReach(p)
                                 /\ StartReach(q) <= StartReach(p)
<1>1. ASSUME NEW p \in Nat
      PROVE  /\ CursorReach(p) \in Int /\ StartReach(p) \in Int
             /\ CursorReach(p) = CursorReach(p + 1) + Width
             /\ StartReach(p) = StartReach(p + 1) + Width
             /\ StartReach(p + 1) = CursorReach(p) - Screen
             /\ p <= Depth => /\ CursorReach(p) >= End - 1
                              /\ StartReach(p + 1) >= End - Screen - 1
                              /\ StartReach(p + 1) >= Origin
  <2> DEFINE a == Depth - p
  <2>1. a \in Int /\ Depth - (p + 1) = a - 1 /\ Depth + 1 - p = a + 1 /\ Depth + 1 - (p + 1) = a
    BY Constants
  <2>2. /\ Width * a \in Int /\ Width * (a - 1) \in Int
        /\ Width * (a + 1) = Width * a + Width
        /\ Width * a = Width * (a - 1) + Width
        /\ p <= Depth => Width * a >= 0
    <3> HIDE DEF a
    <3>1. a - 1 \in Int /\ (a - 1) + 1 = a
      BY <2>1
    <3>2. p <= Depth => a >= 0
      BY Constants DEF a
    <3>3. QED
      BY <2>1, <3>1, <3>2, Constants, Times
  <2> HIDE DEF a
  <2>3. /\ CursorReach(p) = End - 1 + Width * a
        /\ CursorReach(p + 1) = End - 1 + Width * (a - 1)
        /\ StartReach(p) = End - Screen - 1 + Width * (a + 1)
        /\ StartReach(p + 1) = End - Screen - 1 + Width * a
    BY <2>1 DEF CursorReach, StartReach, a
  <2>4. QED
    BY <2>2, <2>3, Constants
<1>2. ASSUME NEW p \in Nat, NEW q \in Nat, p <= q
      PROVE  CursorReach(q) <= CursorReach(p) /\ StartReach(q) <= StartReach(p)
  <2> DEFINE a == Depth - q
             b == Depth - p
             c == Depth + 1 - q
             d == Depth + 1 - p
  <2>1. a \in Int /\ b \in Int /\ c \in Int /\ d \in Int /\ a <= b /\ c <= d
    BY <1>2, Constants
  <2> HIDE DEF a, b, c, d
  <2>2. Width * a <= Width * b /\ Width * c <= Width * d
        /\ Width * a \in Int /\ Width * b \in Int /\ Width * c \in Int /\ Width * d \in Int
    BY <2>1, Constants, Times
  <2>3. /\ CursorReach(q) = End - 1 + Width * a
        /\ CursorReach(p) = End - 1 + Width * b
        /\ StartReach(q) = End - Screen - 1 + Width * c
        /\ StartReach(p) = End - Screen - 1 + Width * d
    BY DEF CursorReach, StartReach, a, b, c, d
  <2>4. QED
    BY <2>2, <2>3, Constants
<1>3. QED
  BY <1>1, <1>2

LEMMA Aligning ==
  ASSUME NEW x \in Int, Aligned(x)
  PROVE  /\ x >= Origin /\ Aligned(x + Width)
         /\ x > Origin => Aligned(x - Width) /\ x - Width >= Origin
<1>1. PICK k \in Nat : x = Origin + Width * k
  BY DEF Aligned
<1>2. Width * k \in Int /\ Width * k >= 0 /\ Width * (k + 1) = Width * k + Width
  BY Constants, Times
<1>3. Aligned(x + Width) /\ x >= Origin
  <2>1. x + Width = Origin + Width * (k + 1) /\ k + 1 \in Nat
    BY <1>1, <1>2, Constants
  <2>2. QED
    BY <2>1, <1>1, <1>2, Constants DEF Aligned
<1>4. ASSUME x > Origin PROVE Aligned(x - Width) /\ x - Width >= Origin
  <2>1. k # 0
    BY <1>1, <1>2, <1>4, Constants
  <2>2. k - 1 \in Nat /\ (k - 1) + 1 = k
    BY <2>1
  <2>3. /\ Width * (k - 1) \in Int /\ Width * (k - 1) >= 0
        /\ Width * ((k - 1) + 1) = Width * (k - 1) + Width
    BY <2>2, Constants, Times
  <2>4. x - Width = Origin + Width * (k - 1)
    BY <2>2, <2>3, <1>1, Constants
  <2>5. QED
    BY <2>2, <2>3, <2>4, Constants DEF Aligned
<1>5. QED
  BY <1>3, <1>4

\* No more contexts are at work than there are.
LEMMA StackDepth ==
  ASSUME stack \in Seq(Ctx), Distinct
  PROVE  Len(stack) \in Nat /\ Len(stack) <= Depth
<1>1. Len(stack) \in Nat /\ stack \in [1..Len(stack) -> Ctx]
  OBVIOUS
<1>2. stack \in Injection(1..Len(stack), Ctx)
  BY <1>1 DEF Distinct, Injection, IsInjective
<1>3. Cardinality(1..Len(stack)) <= Depth
  BY <1>2, Constants, FS_Injection DEF Depth
<1>4. Cardinality(1..Len(stack)) = Len(stack)
  BY <1>1, FS_Interval
<1>5. QED
  BY <1>1, <1>3, <1>4

-----------------------------------------------------------------------------
(* A context that goes on from one statement to another.                   *)

Walks(c, here, next) ==
  /\ Does(c, here)
  /\ pc' = [pc EXCEPT ![c] = next]
  /\ stack' = IF next = "idle" THEN Front(stack) ELSE stack
  /\ op' = IF next = "idle" THEN [op EXCEPT ![c] = "char"] ELSE op
  /\ aim' = aim \/ aim' = [aim EXCEPT ![c] = Origin]
  /\ \E r \in Nat : reg' = [reg EXCEPT ![c] = r]

LEMMA FrontFacts ==
  ASSUME NEW S, NEW s \in Seq(S), s # <<>>
  PROVE  /\ Front(s) \in Seq(S) /\ Len(Front(s)) = Len(s) - 1
         /\ \A p \in 1..Len(s)-1 : Front(s)[p] = s[p]
<1>1. Len(s) \in Nat \ {0} /\ \A p \in 1..Len(s) : s[p] \in S
  OBVIOUS
<1>2. Front(s) = [p \in 1..Len(s)-1 |-> s[p]]
  BY <1>1 DEF Front
<1>3. \A p \in 1..Len(s)-1 : s[p] \in S
  BY <1>1
<1>4. QED
  BY <1>1, <1>2, <1>3

\* It is the one on top of the stack; it leaves the others alone.
LEMMA Walk ==
  ASSUME TypeOK, Distinct, NEW c \in Ctx, NEW here \in Points \ {"idle"}, NEW next \in Points,
         Walks(c, here, next)
  PROVE  /\ Len(stack) \in 1..Depth /\ stack[Len(stack)] = c /\ pc[c] = here
         /\ \A p \in 1..Len(stack) : stack[p] \in Ctx /\ (stack[p] = c => p = Len(stack))
         /\ next # "idle" => stack' = stack
         /\ next = "idle" => Len(stack') = Len(stack) - 1
         /\ stack' \in Seq(Ctx) /\ Len(stack') \in Nat
         /\ \A p \in 1..Len(stack') : p \in 1..Len(stack) /\ stack'[p] = stack[p]
         /\ \A p \in 1..Len(stack') : stack[p] = c => next # "idle"
         /\ Distinct'
         /\ \A d \in Ctx : pc'[d] = "idle" <=> ~ Contains(stack', d)
         /\ pc' \in [Ctx -> Points] /\ op' \in [Ctx -> Ops]
         /\ aim' \in [Ctx -> Nat] /\ reg' \in [Ctx -> Nat]
         /\ \A d \in Ctx : d # c => /\ pc'[d] = pc[d] /\ op'[d] = op[d]
                                    /\ aim'[d] = aim[d] /\ reg'[d] = reg[d]
         /\ pc'[c] = next /\ (next # "idle" => op'[c] = op[c]) /\ (next = "idle" => op'[c] = "char")
         /\ aim'[c] \in {aim[c], Origin}
<1> DEFINE n == Len(stack)
<1>1. /\ stack \in Seq(Ctx) /\ stack # <<>> /\ n \in Nat /\ n <= Depth /\ n >= 1
      /\ stack[n] = c /\ pc[c] = here
  BY StackDepth DEF Walks, Does, Last, TypeOK
<1>2. \A p \in 1..n : stack[p] \in Ctx
  BY <1>1
<1>3. \A p \in 1..n : stack[p] = c => p = n
  BY <1>1 DEF Distinct
<1>4. next = "idle" => /\ stack' \in Seq(Ctx) /\ Len(stack') = n - 1
                       /\ \A p \in 1..n-1 : stack'[p] = stack[p]
  <2>1. next = "idle" => stack' = Front(stack)
    BY DEF Walks
  <2>2. QED
    BY <2>1, <1>1, FrontFacts
<1>5. next # "idle" => stack' = stack
  BY DEF Walks
<1>6. stack' \in Seq(Ctx) /\ \A p \in 1..Len(stack') : p \in 1..n /\ stack'[p] = stack[p]
  <2>1. \A p \in 1..n-1 : p \in 1..n
    BY <1>1
  <2>2. QED
    BY <2>1, <1>1, <1>4, <1>5
<1>7. \A p \in 1..Len(stack') : stack[p] = c => next # "idle"
  BY <1>1, <1>3, <1>4
<1>8. Distinct'
  BY <1>6 DEF Distinct
<1>9. /\ pc' \in [Ctx -> Points] /\ op' \in [Ctx -> Ops]
      /\ aim' \in [Ctx -> Nat] /\ reg' \in [Ctx -> Nat]
  BY Constants DEF Walks, TypeOK, Ops, Writes, Prints
<1>10. /\ \A d \in Ctx : d # c => /\ pc'[d] = pc[d] /\ op'[d] = op[d]
                                  /\ aim'[d] = aim[d] /\ reg'[d] = reg[d]
       /\ pc'[c] = next /\ (next # "idle" => op'[c] = op[c]) /\ (next = "idle" => op'[c] = "char")
       /\ aim'[c] \in {aim[c], Origin}
  BY DEF Walks, TypeOK
<1>11. ASSUME NEW d \in Ctx PROVE pc'[d] = "idle" <=> ~ Contains(stack', d)
  <2>1. pc[d] = "idle" <=> ~ \E p \in 1..n : stack[p] = d
    BY DEF TypeOK, Contains
  <2>2. CASE d = c
    <3>1. next = "idle" => ~ \E p \in 1..Len(stack') : stack'[p] = d
      BY <2>2, <1>6, <1>7
    <3>2. next # "idle" => \E p \in 1..Len(stack') : stack'[p] = d
      BY <2>2, <1>1, <1>5
    <3>3. QED
      BY <3>1, <3>2, <2>2, <1>10 DEF Contains
  <2>3. CASE d # c
    <3>1. \A p \in 1..n : stack[p] = d => p \in 1..Len(stack')
      <4>1. \A p \in 1..n : p # n => p \in 1..n-1
        BY <1>1
      <4>2. QED
        BY <4>1, <2>3, <1>1, <1>4, <1>5
    <3>2. (\E p \in 1..n : stack[p] = d) <=> \E p \in 1..Len(stack') : stack'[p] = d
      BY <3>1, <1>6
    <3>3. QED
      BY <3>2, <2>1, <2>3, <1>10 DEF Contains
  <2>4. QED
    BY <2>2, <2>3
<1>12. n \in 1..Depth
  BY <1>1, Constants
<1>13. QED
  BY <1>1, <1>2, <1>3, <1>4, <1>5, <1>6, <1>7, <1>8, <1>9, <1>10, <1>11, <1>12

\* What does not depend on the console's values.
LEMMA WalkFrame ==
  ASSUME IInv, NEW c \in Ctx, NEW here \in Points \ {"idle"}, NEW next \in Points,
         Walks(c, here, next), next = "idle" \/ KindAt(next, op[c]),
         cursor' \in Nat, hwCursor' \in Nat, start' \in Nat, hwStart' \in Nat,
         inked' \in Nat, UNCHANGED histVars
  PROVE  TypeOK' /\ Distinct' /\ Kinds'
<1>1. TypeOK /\ Distinct /\ Kinds
  BY DEF IInv
<1>2. Distinct'
  BY <1>1, Walk
<1>3. TypeOK'
  <2>1. last' \in Ops \union {"none"} /\ overlapped' \in BOOLEAN
    BY <1>1 DEF TypeOK, histVars
  <2>2. /\ stack' \in Seq(Ctx) /\ pc' \in [Ctx -> Points] /\ op' \in [Ctx -> Ops]
        /\ aim' \in [Ctx -> Nat] /\ reg' \in [Ctx -> Nat]
        /\ \A d \in Ctx : pc'[d] = "idle" <=> ~ Contains(stack', d)
    BY <1>1, Walk
  <2>3. QED
    BY <2>1, <2>2 DEF TypeOK
<1>4. Kinds'
  <2> SUFFICES ASSUME NEW d \in Ctx
               PROVE  (d # "keyboard" => op'[d] \in Prints) /\ KindAt(pc'[d], op'[d])
    BY DEF Kinds, KindAt
  <2>1. CASE d # c
    <3>1. pc'[d] = pc[d] /\ op'[d] = op[d]
      BY <2>1, <1>1, Walk
    <3>2. QED
      BY <3>1, <1>1 DEF Kinds
  <2>2. CASE d = c
    <3>1. pc'[c] = next /\ (next # "idle" => op'[c] = op[c]) /\ (next = "idle" => op'[c] = "char")
      BY <1>1, Walk
    <3>2. CASE next = "idle"
      BY <3>1, <3>2, <2>2 DEF KindAt, Prints
    <3>3. CASE next # "idle"
      BY <3>1, <3>3, <2>2, <1>1 DEF Kinds
    <3>4. QED
      BY <3>2, <3>3
  <2>3. QED
    BY <2>1, <2>2
<1>5. QED
  BY <1>2, <1>3, <1>4

\* A step that leaves the cursor alone and is not the test for room.
LEMMA WalkKeepsCursor ==
  ASSUME IInv, NEW c \in Ctx, NEW here \in Points \ {"idle"}, NEW next \in Points,
         Walks(c, here, next), cursor' = cursor,
         next # "move", next \in {"store", "load"} => here \in {"store", "load", "move"}
  PROVE  CursorBound'
<1> DEFINE n == Len(stack)
<1>1. TypeOK /\ Distinct /\ CursorBound
  BY DEF IInv
<1>2. /\ n \in 1..Depth /\ stack[n] = c /\ pc[c] = here
      /\ \A p \in 1..n : stack[p] \in Ctx /\ (stack[p] = c => p = n)
      /\ Len(stack') \in Nat
      /\ \A p \in 1..Len(stack') : p \in 1..n /\ stack'[p] = stack[p]
      /\ \A p \in 1..Len(stack') : stack[p] = c => next # "idle"
      /\ \A d \in Ctx : d # c => /\ pc'[d] = pc[d] /\ op'[d] = op[d]
                                 /\ aim'[d] = aim[d] /\ reg'[d] = reg[d]
      /\ pc'[c] = next /\ (next # "idle" => op'[c] = op[c])
      /\ aim'[c] \in {aim[c], Origin}
  BY <1>1, Walk
<1>3. Origin \in Origin..CursorReach(1)
  <2>1. CursorReach(1) \in Int /\ CursorReach(1) >= End - 1
    BY Constants, Reaches
  <2>2. QED
    BY <2>1, Constants
<1>4. \A d \in Ctx : aim'[d] \in Origin..CursorReach(1)
  BY <1>1, <1>2, <1>3 DEF CursorBound, CursorOf
<1>5. \A d \in Ctx : pc'[d] = "move" => /\ pc[d] = "move" /\ op'[d] = op[d] /\ reg'[d] = reg[d]
                                        /\ d # c
  BY <1>2
<1>6. \A d \in Ctx : HasTested(d)' => HasTested(d) /\ op'[d] = op[d]
  BY <1>2 DEF HasTested
<1>7. cursor' \in Origin..CursorReach(1)
  BY <1>1 DEF CursorBound
<1>8. \A d \in Ctx : CursorOf(d)'
  BY <1>1, <1>4, <1>5, <1>6, <1>7 DEF CursorBound, CursorOf
<1>9. ASSUME NEW p \in 1..Len(stack') PROVE CursorAt(p)'
  <2> SUFFICES ASSUME pc'[stack'[p]] \in {"store", "load", "move"}, op'[stack'[p]] \in Prints
               PROVE  /\ cursor' + Gain(op'[stack'[p]]) <= CursorReach(p)
                      /\ \A q \in p..Len(stack') : pc'[stack'[q]] = "move" =>
                           reg'[stack'[q]] + Gain(op'[stack'[p]]) <= CursorReach(p)
    BY DEF CursorAt, HasTested
  <2>1. /\ p \in 1..n /\ stack'[p] = stack[p] /\ stack[p] \in Ctx
        /\ HasTested(stack[p]) /\ op'[stack[p]] = op[stack[p]]
    BY <1>2, <1>6 DEF HasTested
  <2>2. \A q \in p..Len(stack') : /\ stack'[q] = stack[q] /\ stack[q] \in Ctx
                                  /\ q \in 1..n /\ q \in p..n
    <3>1. \A q \in p..Len(stack') : q \in 1..Len(stack')
      BY <1>2
    <3>2. QED
      BY <3>1, <1>2
  <2>3. CursorAt(p)
    BY <2>1, <1>1 DEF CursorBound
  <2>4. QED
    BY <2>1, <2>2, <2>3, <1>5 DEF CursorAt
<1>10. QED
  BY <1>7, <1>8, <1>9 DEF CursorBound

\* A step that leaves the start of the screen alone, and enters no statement
\* that relies on it.
LEMMA WalkKeepsStart ==
  ASSUME IInv, NEW c \in Ctx, NEW here \in Points \ {"idle"}, NEW next \in Points,
         Walks(c, here, next), start' = start,
         next \notin {"scrollLoad", "scrollStore", "homeLoad", "homeCursor"}
  PROVE  StartBound'
<1> DEFINE n == Len(stack)
           relies == {"scrollLoad", "scrollStore", "homeLoad", "homeCursor"}
<1>1. TypeOK /\ Distinct /\ StartBound
  BY DEF IInv
<1>2. /\ n \in 1..Depth /\ stack[n] = c
      /\ \A p \in 1..n : stack[p] \in Ctx
      /\ Len(stack') \in Nat
      /\ \A p \in 1..Len(stack') : p \in 1..n /\ stack'[p] = stack[p]
      /\ \A d \in Ctx : d # c => pc'[d] = pc[d] /\ op'[d] = op[d] /\ reg'[d] = reg[d]
      /\ pc'[c] = next
  BY <1>1, Walk, SMTT(30)
<1>3. \A d \in Ctx : pc'[d] \in relies => /\ pc'[d] = pc[d] /\ op'[d] = op[d] /\ reg'[d] = reg[d]
  BY <1>2
<1>4. start' \in Origin..StartReach(1) /\ Aligned(start')
  BY <1>1 DEF StartBound
<1>5. ASSUME NEW d \in Ctx PROVE StartOf(d)'
  <2> SUFFICES
        /\ pc'[d] = "scrollStore" => /\ reg'[d] \in Origin..StartReach(1) /\ Aligned(reg'[d])
                                     /\ op'[d] = "up" => reg'[d] > Origin
        /\ pc'[d] = "scrollLoad" /\ op'[d] = "up" => start' > Origin
        /\ pc'[d] = "homeCursor" => reg'[d] >= Origin
    BY DEF StartOf
  <2>1. StartOf(d)
    BY <1>1 DEF StartBound
  <2>2. QED
    BY <2>1, <1>3 DEF StartOf
<1>6. ASSUME NEW p \in 1..Len(stack') PROVE StartAt(p)'
  <2>1. p \in 1..n /\ stack'[p] = stack[p] /\ stack[p] \in Ctx
    BY <1>2
  <2>2. \A q \in p..Len(stack') : /\ stack'[q] = stack[q] /\ stack[q] \in Ctx
                                  /\ q \in 1..n /\ q \in p..n
    <3>1. \A q \in p..Len(stack') : q \in 1..Len(stack')
      BY <1>2
    <3>2. QED
      BY <3>1, <1>2
  <2>3. StartAt(p)
    BY <2>1, <1>1 DEF StartBound
  <2>4. /\ pc'[stack'[p]] \in {"scrollLoad", "scrollStore"} /\ op'[stack'[p]] # "up" =>
             /\ start' <= StartReach(p + 1)
             /\ \A q \in p..Len(stack') :
                  pc'[stack'[q]] = "scrollStore" => reg'[stack'[q]] <= StartReach(p + 1)
        /\ pc'[stack'[p]] = "homeLoad" => start' <= StartReach(p + 1)
        /\ pc'[stack'[p]] = "homeCursor" => reg'[stack'[p]] <= StartReach(p + 1)
    BY <2>1, <2>2, <2>3, <1>3 DEF StartAt
  <2>5. QED
    BY <2>4 DEF StartAt
<1>7. QED
  BY <1>4, <1>5, <1>6 DEF StartBound

\* What the invariant says of the context that runs.
LEMMA Running ==
  ASSUME IInv, NEW c \in Ctx, NEW here, Does(c, here), here # "idle"
  PROVE  /\ pc[c] = here /\ Len(stack) \in 1..Depth /\ stack[Len(stack)] = c
         /\ KindAt(here, op[c]) /\ CursorOf(c) /\ StartOf(c)
         /\ CursorAt(Len(stack)) /\ StartAt(Len(stack))
         /\ ~overlapped => AloneOf(c) /\ cursor <= End - 1
         /\ last # "none" => SingleOf(c)
         /\ c \in Ctx /\ op[c] \in Ops /\ aim[c] \in Nat /\ reg[c] \in Nat
         /\ cursor \in Nat /\ cursor >= Origin /\ start \in Nat /\ inked \in Nat
         /\ hwCursor \in Nat /\ hwStart \in Nat
<1>1. TypeOK /\ Distinct /\ Kinds /\ CursorBound /\ StartBound /\ Alone /\ Single
  BY DEF IInv
<1>2. /\ stack \in Seq(Ctx) /\ stack # <<>> /\ pc[c] = here /\ stack[Len(stack)] = c
      /\ Len(stack) \in Nat /\ Len(stack) <= Depth
  BY <1>1, StackDepth DEF Does, Last, TypeOK
<1>3. Len(stack) \in 1..Depth /\ Len(stack) \in 1..Len(stack)
  BY <1>2, Constants
<1>4. cursor \in Nat /\ cursor >= Origin
  BY <1>1, Reaches, Constants DEF CursorBound, TypeOK
<1>5. op[c] \in Ops /\ aim[c] \in Nat /\ reg[c] \in Nat
  BY <1>1 DEF TypeOK
<1>6. KindAt(here, op[c]) /\ CursorOf(c) /\ StartOf(c) /\ CursorAt(Len(stack)) /\ StartAt(Len(stack))
  BY <1>1, <1>2, <1>3 DEF Kinds, CursorBound, StartBound
<1>7. (~overlapped => AloneOf(c) /\ cursor <= End - 1) /\ (last # "none" => SingleOf(c))
  BY <1>1 DEF Alone, Single
<1>8. QED
  BY <1>1, <1>2, <1>3, <1>4, <1>5, <1>6, <1>7 DEF TypeOK

\* A step of the running context: what is left to show of it.
LEMMA WalkInv ==
  ASSUME IInv, NEW c \in Ctx, NEW here \in Points \ {"idle"}, NEW next \in Points,
         Walks(c, here, next), next = "idle" \/ KindAt(next, op[c]),
         cursor' \in Nat, hwCursor' \in Nat, start' \in Nat, hwStart' \in Nat,
         inked' \in Nat, UNCHANGED histVars,
         CursorBound', StartBound',
         ~overlapped => /\ cursor' <= End - 1
                        /\ next = "idle" => inked' <= cursor'
                        /\ AloneOf(c)',
         last # "none" => (next = "idle" => Settled') /\ SingleOf(c)'
  PROVE  IInv'
<1>1. TypeOK' /\ Distinct' /\ Kinds'
  BY WalkFrame
<1>2. /\ TypeOK /\ Distinct /\ Alone /\ Single
      /\ overlapped' = overlapped /\ last' = last
  BY DEF IInv, histVars
<1>3. /\ Len(stack) \in 1..Depth /\ stack[Len(stack)] = c
      /\ next # "idle" => stack' = stack
      /\ next = "idle" => Len(stack') = Len(stack) - 1
      /\ stack' \in Seq(Ctx)
      /\ \A d \in Ctx : d # c => pc'[d] = pc[d] /\ op'[d] = op[d]
      /\ \A p \in 1..Len(stack) : stack[p] = c => p = Len(stack)
  BY <1>2, Walk
<1>4. Len(stack) <= 1 => \A d \in Ctx : d # c => pc[d] = "idle"
  <2> SUFFICES ASSUME Len(stack) <= 1, NEW d \in Ctx, d # c PROVE ~ Contains(stack, d)
    BY <1>2 DEF TypeOK
  <2>1. \A p \in 1..Len(stack) : p = Len(stack)
    BY <1>3
  <2>2. QED
    BY <2>1, <1>3 DEF Contains
<1>5. Len(stack) <= 1 => /\ Len(stack') <= 1
                         /\ stack' = <<>> => next = "idle"
  <2>1. Len(stack) = 0 <=> stack = <<>>
    BY <1>2 DEF TypeOK
  <2>2. QED
    BY <2>1, <1>3
<1>6. Alone'
  <2> SUFFICES ASSUME ~overlapped
               PROVE  /\ Len(stack') <= 1 /\ cursor' <= End - 1
                      /\ stack' = <<>> => inked' <= cursor'
                      /\ \A d \in Ctx : AloneOf(d)'
    BY <1>2 DEF Alone, End
  <2>1. Len(stack) <= 1
    BY <1>2 DEF Alone
  <2>2. ASSUME NEW d \in Ctx, d # c PROVE AloneOf(d)'
    <3>1. pc'[d] = "idle"
      BY <2>1, <2>2, <1>3, <1>4
    <3>2. QED
      BY <3>1 DEF AloneOf, HasTested
  <2>3. QED
    BY <2>1, <2>2, <1>5
<1>7. Single'
  <2> SUFFICES ASSUME last # "none"
               PROVE  /\ Len(stack') <= 1
                      /\ stack' = <<>> => Settled'
                      /\ \A d \in Ctx : SingleOf(d)'
    BY <1>2 DEF Single
  <2>1. Len(stack) <= 1
    BY <1>2 DEF Single
  <2>2. ASSUME NEW d \in Ctx, d # c PROVE SingleOf(d)'
    <3>1. pc'[d] = "idle"
      BY <2>1, <2>2, <1>3, <1>4
    <3>2. QED
      BY <3>1 DEF SingleOf
  <2>3. QED
    BY <2>1, <2>2, <1>5
<1>8. QED
  BY <1>1, <1>6, <1>7 DEF IInv

\* A step that leaves the cursor and the start of the screen alone.
LEMMA QuietInv ==
  ASSUME IInv, NEW c \in Ctx, NEW here \in Points \ {"idle"}, NEW next \in Points,
         Walks(c, here, next), next = "idle" \/ KindAt(next, op[c]),
         UNCHANGED <<consoleVars, histVars>>,
         hwCursor' \in Nat, hwStart' \in Nat, inked' \in Nat,
         next \notin {"move", "scrollLoad", "scrollStore", "homeLoad", "homeCursor"},
         next \in {"store", "load"} => here = "store",
         ~overlapped => (next = "idle" => inked' <= cursor) /\ AloneOf(c)',
         last # "none" => (next = "idle" => Settled') /\ SingleOf(c)'
  PROVE  IInv'
<1>1. cursor' = cursor /\ start' = start /\ UNCHANGED histVars
  BY DEF consoleVars
<1>2. CursorBound'
  BY <1>1, WalkKeepsCursor
<1>3. StartBound'
  BY <1>1, WalkKeepsStart
<1>4. cursor \in Nat /\ start \in Nat /\ (~overlapped => cursor <= End - 1)
  BY DEF IInv, TypeOK, Alone
<1>5. QED
  BY <1>1, <1>2, <1>3, <1>4, WalkInv

LEMMA MaxOfTwo ==
  ASSUME NEW a \in Nat, NEW b \in Nat
  PROVE  Max({a, b}) = IF a >= b THEN a ELSE b
<1> DEFINE m == IF a >= b THEN a ELSE b
<1>1. m \in {a, b} /\ \A y \in {a, b} : m >= y
  OBVIOUS
<1>2. \A x \in {a, b} : (\A y \in {a, b} : x >= y) => x = m
  OBVIOUS
<1>3. QED
  BY <1>1, <1>2 DEF Max

-----------------------------------------------------------------------------
(* The steps that leave the cursor and the start of the screen alone.      *)

LEMMA StoreInv == ASSUME IInv, NEW c \in Ctx, Store(c) PROVE IInv'
<1>1. Does(c, "store") /\ UNCHANGED <<consoleVars, histVars>>
  BY DEF Store, Does, Ink, Goto
<1>2. /\ pc[c] = "store" /\ KindAt("store", op[c])
      /\ ~overlapped => AloneOf(c)
      /\ last # "none" => SingleOf(c)
      /\ op[c] \in Ops /\ aim[c] \in Nat /\ reg[c] \in Nat /\ cursor \in Nat /\ cursor >= Origin
      /\ start \in Nat /\ inked \in Nat /\ hwCursor \in Nat /\ hwStart \in Nat
  BY <1>1, Running
<1>3. IInv /\ TypeOK /\ Origin \in Nat /\ Screen \in Nat
  BY Constants DEF IInv
<1>4. /\ Walks(c, "store", "load") /\ pc'[c] = "load"
      /\ inked' = (IF overlapped THEN Origin ELSE Max({inked, aim[c] + 1})) /\ UNCHANGED <<hwCursor, hwStart>>
      /\ op'[c] = op[c]
      /\ aim'[c] = aim[c]
  BY <1>1, <1>2, <1>3 DEF Store, Does, Ink, Goto, Walks, TypeOK, screenVars
<1>5. /\ inked' \in Nat
      /\ ~overlapped => inked' <= cursor + 1
  BY <1>2, <1>3, <1>4, MaxOfTwo DEF AloneOf
<1>6. ~overlapped => AloneOf(c)'
  BY <1>1, <1>2, <1>4, <1>5 DEF AloneOf, HasTested, HasRoom, KindAt, consoleVars, End
<1>7. last # "none" => SingleOf(c)'
  BY <1>1, <1>2, <1>3, <1>4 DEF SingleOf, consoleVars, histVars
<1>8. /\ KindAt("load", op[c])
      /\ hwCursor' \in Nat /\ hwStart' \in Nat /\ inked' \in Nat
      /\ "store" \in Points /\ "load" \in Points
  BY <1>2, <1>4, <1>5 DEF KindAt, Writes, Prints, Points
<1>9. QED
  BY <1>1, <1>3, <1>4, <1>5, <1>6, <1>7, <1>8, QuietInv

LEMMA EraseInv == ASSUME IInv, NEW c \in Ctx, Erase(c) PROVE IInv'
<1>1. Does(c, "erase") /\ UNCHANGED <<consoleVars, histVars>>
  BY DEF Erase, Does, Ink, Goto
<1>2. /\ pc[c] = "erase" /\ KindAt("erase", op[c])
      /\ ~overlapped => AloneOf(c)
      /\ last # "none" => SingleOf(c)
      /\ op[c] \in Ops /\ aim[c] \in Nat /\ reg[c] \in Nat /\ cursor \in Nat /\ cursor >= Origin
      /\ start \in Nat /\ inked \in Nat /\ hwCursor \in Nat /\ hwStart \in Nat
  BY <1>1, Running
<1>3. IInv /\ TypeOK /\ Origin \in Nat /\ Screen \in Nat
  BY Constants DEF IInv
<1>4. /\ Walks(c, "erase", "loop") /\ pc'[c] = "loop"
      /\ inked' = (IF overlapped THEN Origin ELSE IF inked = aim[c] THEN aim[c] - 1 ELSE inked) /\ UNCHANGED <<hwCursor, hwStart>>
      /\ op'[c] = op[c]
  BY <1>1, <1>2, <1>3 DEF Erase, Does, Ink, Goto, Walks, TypeOK, screenVars
<1>5. /\ inked' \in Nat
      /\ ~overlapped => inked' <= cursor
  BY <1>2, <1>3, <1>4 DEF AloneOf
<1>6. ~overlapped => AloneOf(c)'
  BY <1>1, <1>2, <1>4, <1>5 DEF AloneOf, HasTested, HasRoom, KindAt, consoleVars, End
<1>7. last # "none" => SingleOf(c)'
  BY <1>1, <1>2, <1>3, <1>4 DEF SingleOf, consoleVars, histVars
<1>8. /\ KindAt("loop", op[c])
      /\ hwCursor' \in Nat /\ hwStart' \in Nat /\ inked' \in Nat
      /\ "erase" \in Points /\ "loop" \in Points
  BY <1>2, <1>4, <1>5 DEF KindAt, Writes, Prints, Points
<1>9. QED
  BY <1>1, <1>3, <1>4, <1>5, <1>6, <1>7, <1>8, QuietInv

LEMMA LoopLoadInv == ASSUME IInv, NEW c \in Ctx, LoopLoad(c) PROVE IInv'
<1>1. Does(c, "loop") /\ UNCHANGED <<consoleVars, histVars>>
  BY DEF LoopLoad, Load, Does
<1>2. /\ pc[c] = "loop" /\ KindAt("loop", op[c])
      /\ ~overlapped => AloneOf(c)
      /\ last # "none" => SingleOf(c)
      /\ op[c] \in Ops /\ aim[c] \in Nat /\ reg[c] \in Nat /\ cursor \in Nat /\ cursor >= Origin
      /\ start \in Nat /\ inked \in Nat /\ hwCursor \in Nat /\ hwStart \in Nat
  BY <1>1, Running
<1>3. IInv /\ TypeOK /\ Origin \in Nat /\ Screen \in Nat
  BY Constants DEF IInv
<1>4. /\ Walks(c, "loop", "test") /\ pc'[c] = "test"
      /\ UNCHANGED <<hwCursor, hwStart, inked>>
      /\ op'[c] = op[c]
      /\ reg'[c] = cursor
  BY <1>1, <1>2, <1>3 DEF LoopLoad, Load, Does, Walks, TypeOK, screenVars
<1>5. ~overlapped => AloneOf(c)'
  BY <1>1, <1>2, <1>4 DEF AloneOf, HasTested, HasRoom, KindAt, consoleVars, End
<1>6. last # "none" => SingleOf(c)'
  BY <1>1, <1>2, <1>3, <1>4 DEF SingleOf, consoleVars, histVars
<1>7. /\ KindAt("test", op[c])
      /\ hwCursor' \in Nat /\ hwStart' \in Nat /\ inked' \in Nat
      /\ "loop" \in Points /\ "test" \in Points
  BY <1>2, <1>4 DEF KindAt, Writes, Prints, Points
<1>8. QED
  BY <1>1, <1>3, <1>4, <1>5, <1>6, <1>7, QuietInv

LEMMA LoopTestInv == ASSUME IInv, NEW c \in Ctx, LoopTest(c) PROVE IInv'
<1>1. Does(c, "test") /\ UNCHANGED <<consoleVars, histVars>>
  BY DEF LoopTest, Choose, Does, Goto
<1>2. /\ pc[c] = "test" /\ KindAt("test", op[c])
      /\ ~overlapped => AloneOf(c)
      /\ last # "none" => SingleOf(c)
      /\ op[c] \in Ops /\ aim[c] \in Nat /\ reg[c] \in Nat /\ cursor \in Nat /\ cursor >= Origin
      /\ start \in Nat /\ inked \in Nat /\ hwCursor \in Nat /\ hwStart \in Nat
  BY <1>1, Running
<1>3. IInv /\ TypeOK /\ Origin \in Nat /\ Screen \in Nat
  BY Constants DEF IInv
<1>4. CASE reg[c] >= start + Screen
  <2>1. /\ Walks(c, "test", "scroll") /\ pc'[c] = "scroll"
        /\ UNCHANGED <<hwCursor, hwStart, inked>>
        /\ op'[c] = op[c]
    BY <1>1, <1>2, <1>3, <1>4 DEF LoopTest, Choose, Does, Goto, Walks, TypeOK, screenVars
  <2>2. ~overlapped => AloneOf(c)'
    BY <1>1, <1>2, <2>1, <1>4 DEF AloneOf, HasTested, HasRoom, KindAt, consoleVars, End
  <2>3. last # "none" => SingleOf(c)'
    BY <1>1, <1>2, <1>3, <2>1, <1>4 DEF SingleOf, consoleVars, histVars
  <2>4. /\ KindAt("scroll", op[c])
        /\ hwCursor' \in Nat /\ hwStart' \in Nat /\ inked' \in Nat
        /\ "test" \in Points /\ "scroll" \in Points
    BY <1>2, <2>1, <1>4 DEF KindAt, Writes, Prints, Points
  <2>5. QED
    BY <1>1, <1>3, <2>1, <2>2, <2>3, <2>4, QuietInv
<1>5. CASE ~(reg[c] >= start + Screen)
  <2>1. /\ Walks(c, "test", "flushCursor") /\ pc'[c] = "flushCursor"
        /\ UNCHANGED <<hwCursor, hwStart, inked>>
        /\ op'[c] = op[c]
    BY <1>1, <1>2, <1>3, <1>5 DEF LoopTest, Choose, Does, Goto, Walks, TypeOK, screenVars
  <2>2. ~overlapped => AloneOf(c)'
    BY <1>1, <1>2, <2>1, <1>5 DEF AloneOf, HasTested, HasRoom, KindAt, consoleVars, End
  <2>3. last # "none" => SingleOf(c)'
    BY <1>1, <1>2, <1>3, <2>1, <1>5 DEF SingleOf, consoleVars, histVars
  <2>4. /\ KindAt("flushCursor", op[c])
        /\ hwCursor' \in Nat /\ hwStart' \in Nat /\ inked' \in Nat
        /\ "test" \in Points /\ "flushCursor" \in Points
    BY <1>2, <2>1, <1>5 DEF KindAt, Writes, Prints, Points
  <2>5. QED
    BY <1>1, <1>3, <2>1, <2>2, <2>3, <2>4, QuietInv
<1>6. QED
  BY <1>4, <1>5

LEMMA FlushCursorInv == ASSUME IInv, NEW c \in Ctx, Load(c, "flushCursor", cursor, "setCursor") PROVE IInv'
<1>1. Does(c, "flushCursor") /\ UNCHANGED <<consoleVars, histVars>>
  BY DEF Load, Does
<1>2. /\ pc[c] = "flushCursor" /\ KindAt("flushCursor", op[c])
      /\ ~overlapped => AloneOf(c)
      /\ last # "none" => SingleOf(c)
      /\ op[c] \in Ops /\ aim[c] \in Nat /\ reg[c] \in Nat /\ cursor \in Nat /\ cursor >= Origin
      /\ start \in Nat /\ inked \in Nat /\ hwCursor \in Nat /\ hwStart \in Nat
  BY <1>1, Running
<1>3. IInv /\ TypeOK /\ Origin \in Nat /\ Screen \in Nat
  BY Constants DEF IInv
<1>4. /\ Walks(c, "flushCursor", "setCursor") /\ pc'[c] = "setCursor"
      /\ UNCHANGED <<hwCursor, hwStart, inked>>
      /\ op'[c] = op[c]
      /\ reg'[c] = cursor
  BY <1>1, <1>2, <1>3 DEF Load, Does, Walks, TypeOK, screenVars
<1>5. ~overlapped => AloneOf(c)'
  BY <1>1, <1>2, <1>4 DEF AloneOf, HasTested, HasRoom, KindAt, consoleVars, End
<1>6. last # "none" => SingleOf(c)'
  BY <1>1, <1>2, <1>3, <1>4 DEF SingleOf, consoleVars, histVars
<1>7. /\ KindAt("setCursor", op[c])
      /\ hwCursor' \in Nat /\ hwStart' \in Nat /\ inked' \in Nat
      /\ "flushCursor" \in Points /\ "setCursor" \in Points
  BY <1>2, <1>4 DEF KindAt, Writes, Prints, Points
<1>8. QED
  BY <1>1, <1>3, <1>4, <1>5, <1>6, <1>7, QuietInv

LEMMA FlushSetCursorInv == ASSUME IInv, NEW c \in Ctx, SetCursor(c, "setCursor", "flushStart") PROVE IInv'
<1>1. Does(c, "setCursor") /\ UNCHANGED <<consoleVars, histVars>>
  BY DEF SetCursor, Does, Goto
<1>2. /\ pc[c] = "setCursor" /\ KindAt("setCursor", op[c])
      /\ ~overlapped => AloneOf(c)
      /\ last # "none" => SingleOf(c)
      /\ op[c] \in Ops /\ aim[c] \in Nat /\ reg[c] \in Nat /\ cursor \in Nat /\ cursor >= Origin
      /\ start \in Nat /\ inked \in Nat /\ hwCursor \in Nat /\ hwStart \in Nat
  BY <1>1, Running
<1>3. IInv /\ TypeOK /\ Origin \in Nat /\ Screen \in Nat
  BY Constants DEF IInv
<1>4. /\ Walks(c, "setCursor", "flushStart") /\ pc'[c] = "flushStart"
      /\ hwCursor' = reg[c] /\ UNCHANGED <<hwStart, inked>>
      /\ op'[c] = op[c]
  BY <1>1, <1>2, <1>3 DEF SetCursor, Does, Goto, Walks, TypeOK, screenVars
<1>5. ~overlapped => AloneOf(c)'
  BY <1>1, <1>2, <1>4 DEF AloneOf, HasTested, HasRoom, KindAt, consoleVars, End
<1>6. last # "none" => SingleOf(c)'
  BY <1>1, <1>2, <1>3, <1>4 DEF SingleOf, consoleVars, histVars
<1>7. /\ KindAt("flushStart", op[c])
      /\ hwCursor' \in Nat /\ hwStart' \in Nat /\ inked' \in Nat
      /\ "setCursor" \in Points /\ "flushStart" \in Points
  BY <1>2, <1>4 DEF KindAt, Writes, Prints, Points
<1>8. QED
  BY <1>1, <1>3, <1>4, <1>5, <1>6, <1>7, QuietInv

LEMMA FlushStartInv == ASSUME IInv, NEW c \in Ctx, Load(c, "flushStart", start, "setStart") PROVE IInv'
<1>1. Does(c, "flushStart") /\ UNCHANGED <<consoleVars, histVars>>
  BY DEF Load, Does
<1>2. /\ pc[c] = "flushStart" /\ KindAt("flushStart", op[c])
      /\ ~overlapped => AloneOf(c)
      /\ last # "none" => SingleOf(c)
      /\ op[c] \in Ops /\ aim[c] \in Nat /\ reg[c] \in Nat /\ cursor \in Nat /\ cursor >= Origin
      /\ start \in Nat /\ inked \in Nat /\ hwCursor \in Nat /\ hwStart \in Nat
  BY <1>1, Running
<1>3. IInv /\ TypeOK /\ Origin \in Nat /\ Screen \in Nat
  BY Constants DEF IInv
<1>4. /\ Walks(c, "flushStart", "setStart") /\ pc'[c] = "setStart"
      /\ UNCHANGED <<hwCursor, hwStart, inked>>
      /\ op'[c] = op[c]
      /\ reg'[c] = start
  BY <1>1, <1>2, <1>3 DEF Load, Does, Walks, TypeOK, screenVars
<1>5. ~overlapped => AloneOf(c)'
  BY <1>1, <1>2, <1>4 DEF AloneOf, HasTested, HasRoom, KindAt, consoleVars, End
<1>6. last # "none" => SingleOf(c)'
  BY <1>1, <1>2, <1>3, <1>4 DEF SingleOf, consoleVars, histVars
<1>7. /\ KindAt("setStart", op[c])
      /\ hwCursor' \in Nat /\ hwStart' \in Nat /\ inked' \in Nat
      /\ "flushStart" \in Points /\ "setStart" \in Points
  BY <1>2, <1>4 DEF KindAt, Writes, Prints, Points
<1>8. QED
  BY <1>1, <1>3, <1>4, <1>5, <1>6, <1>7, QuietInv

LEMMA FlushSetStartInv == ASSUME IInv, NEW c \in Ctx, SetStart(c, "setStart", "idle") PROVE IInv'
<1>1. Does(c, "setStart") /\ UNCHANGED <<consoleVars, histVars>>
  BY DEF SetStart, Does, Goto
<1>2. /\ pc[c] = "setStart" /\ KindAt("setStart", op[c])
      /\ ~overlapped => AloneOf(c)
      /\ last # "none" => SingleOf(c)
      /\ op[c] \in Ops /\ aim[c] \in Nat /\ reg[c] \in Nat /\ cursor \in Nat /\ cursor >= Origin
      /\ start \in Nat /\ inked \in Nat /\ hwCursor \in Nat /\ hwStart \in Nat
  BY <1>1, Running
<1>3. IInv /\ TypeOK /\ Origin \in Nat /\ Screen \in Nat
  BY Constants DEF IInv
<1>4. /\ Walks(c, "setStart", "idle") /\ pc'[c] = "idle"
      /\ hwStart' = reg[c] /\ UNCHANGED <<hwCursor, inked>>
  BY <1>1, <1>2, <1>3 DEF SetStart, Does, Goto, Walks, TypeOK, screenVars
<1>5. ~overlapped => inked' <= cursor /\ AloneOf(c)'
  BY <1>1, <1>2, <1>4 DEF AloneOf, HasTested, HasRoom, KindAt, consoleVars, End
<1>6. last # "none" => Settled' /\ SingleOf(c)'
  BY <1>1, <1>2, <1>3, <1>4 DEF SingleOf, Settled, consoleVars, histVars
<1>7. /\ hwCursor' \in Nat /\ hwStart' \in Nat /\ inked' \in Nat
      /\ "setStart" \in Points /\ "idle" \in Points
  BY <1>2, <1>4 DEF Points
<1>8. QED
  BY <1>1, <1>3, <1>4, <1>5, <1>6, <1>7, QuietInv

LEMMA ShowStartInv == ASSUME IInv, NEW c \in Ctx, Load(c, "showStart", start, "outStart") PROVE IInv'
<1>1. Does(c, "showStart") /\ UNCHANGED <<consoleVars, histVars>>
  BY DEF Load, Does
<1>2. /\ pc[c] = "showStart" /\ KindAt("showStart", op[c])
      /\ ~overlapped => AloneOf(c)
      /\ last # "none" => SingleOf(c)
      /\ op[c] \in Ops /\ aim[c] \in Nat /\ reg[c] \in Nat /\ cursor \in Nat /\ cursor >= Origin
      /\ start \in Nat /\ inked \in Nat /\ hwCursor \in Nat /\ hwStart \in Nat
  BY <1>1, Running
<1>3. IInv /\ TypeOK /\ Origin \in Nat /\ Screen \in Nat
  BY Constants DEF IInv
<1>4. /\ Walks(c, "showStart", "outStart") /\ pc'[c] = "outStart"
      /\ UNCHANGED <<hwCursor, hwStart, inked>>
      /\ op'[c] = op[c]
      /\ reg'[c] = start
  BY <1>1, <1>2, <1>3 DEF Load, Does, Walks, TypeOK, screenVars
<1>5. ~overlapped => AloneOf(c)'
  BY <1>1, <1>2, <1>4 DEF AloneOf, HasTested, HasRoom, KindAt, consoleVars, End
<1>6. last # "none" => SingleOf(c)'
  BY <1>1, <1>2, <1>3, <1>4 DEF SingleOf, consoleVars, histVars
<1>7. /\ KindAt("outStart", op[c])
      /\ hwCursor' \in Nat /\ hwStart' \in Nat /\ inked' \in Nat
      /\ "showStart" \in Points /\ "outStart" \in Points
  BY <1>2, <1>4 DEF KindAt, Writes, Prints, Points
<1>8. QED
  BY <1>1, <1>3, <1>4, <1>5, <1>6, <1>7, QuietInv

LEMMA ShowSetStartInv == ASSUME IInv, NEW c \in Ctx, SetStart(c, "outStart", "showCursor") PROVE IInv'
<1>1. Does(c, "outStart") /\ UNCHANGED <<consoleVars, histVars>>
  BY DEF SetStart, Does, Goto
<1>2. /\ pc[c] = "outStart" /\ KindAt("outStart", op[c])
      /\ ~overlapped => AloneOf(c)
      /\ last # "none" => SingleOf(c)
      /\ op[c] \in Ops /\ aim[c] \in Nat /\ reg[c] \in Nat /\ cursor \in Nat /\ cursor >= Origin
      /\ start \in Nat /\ inked \in Nat /\ hwCursor \in Nat /\ hwStart \in Nat
  BY <1>1, Running
<1>3. IInv /\ TypeOK /\ Origin \in Nat /\ Screen \in Nat
  BY Constants DEF IInv
<1>4. /\ Walks(c, "outStart", "showCursor") /\ pc'[c] = "showCursor"
      /\ hwStart' = reg[c] /\ UNCHANGED <<hwCursor, inked>>
      /\ op'[c] = op[c]
  BY <1>1, <1>2, <1>3 DEF SetStart, Does, Goto, Walks, TypeOK, screenVars
<1>5. ~overlapped => AloneOf(c)'
  BY <1>1, <1>2, <1>4 DEF AloneOf, HasTested, HasRoom, KindAt, consoleVars, End
<1>6. last # "none" => SingleOf(c)'
  BY <1>1, <1>2, <1>3, <1>4 DEF SingleOf, consoleVars, histVars
<1>7. /\ KindAt("showCursor", op[c])
      /\ hwCursor' \in Nat /\ hwStart' \in Nat /\ inked' \in Nat
      /\ "outStart" \in Points /\ "showCursor" \in Points
  BY <1>2, <1>4 DEF KindAt, Writes, Prints, Points
<1>8. QED
  BY <1>1, <1>3, <1>4, <1>5, <1>6, <1>7, QuietInv

LEMMA ShowCursorInv == ASSUME IInv, NEW c \in Ctx, Load(c, "showCursor", cursor, "outCursor") PROVE IInv'
<1>1. Does(c, "showCursor") /\ UNCHANGED <<consoleVars, histVars>>
  BY DEF Load, Does
<1>2. /\ pc[c] = "showCursor" /\ KindAt("showCursor", op[c])
      /\ ~overlapped => AloneOf(c)
      /\ last # "none" => SingleOf(c)
      /\ op[c] \in Ops /\ aim[c] \in Nat /\ reg[c] \in Nat /\ cursor \in Nat /\ cursor >= Origin
      /\ start \in Nat /\ inked \in Nat /\ hwCursor \in Nat /\ hwStart \in Nat
  BY <1>1, Running
<1>3. IInv /\ TypeOK /\ Origin \in Nat /\ Screen \in Nat
  BY Constants DEF IInv
<1>4. /\ Walks(c, "showCursor", "outCursor") /\ pc'[c] = "outCursor"
      /\ UNCHANGED <<hwCursor, hwStart, inked>>
      /\ op'[c] = op[c]
      /\ reg'[c] = cursor
  BY <1>1, <1>2, <1>3 DEF Load, Does, Walks, TypeOK, screenVars
<1>5. ~overlapped => AloneOf(c)'
  BY <1>1, <1>2, <1>4 DEF AloneOf, HasTested, HasRoom, KindAt, consoleVars, End
<1>6. last # "none" => SingleOf(c)'
  BY <1>1, <1>2, <1>3, <1>4 DEF SingleOf, consoleVars, histVars
<1>7. /\ KindAt("outCursor", op[c])
      /\ hwCursor' \in Nat /\ hwStart' \in Nat /\ inked' \in Nat
      /\ "showCursor" \in Points /\ "outCursor" \in Points
  BY <1>2, <1>4 DEF KindAt, Writes, Prints, Points
<1>8. QED
  BY <1>1, <1>3, <1>4, <1>5, <1>6, <1>7, QuietInv

LEMMA ShowSetCursorInv == ASSUME IInv, NEW c \in Ctx, SetCursor(c, "outCursor", IF op[c] \in Writes THEN "loop" ELSE "idle") PROVE IInv'
<1>1. Does(c, "outCursor") /\ UNCHANGED <<consoleVars, histVars>>
  BY DEF SetCursor, Does, Goto
<1>2. /\ pc[c] = "outCursor" /\ KindAt("outCursor", op[c])
      /\ ~overlapped => AloneOf(c)
      /\ last # "none" => SingleOf(c)
      /\ op[c] \in Ops /\ aim[c] \in Nat /\ reg[c] \in Nat /\ cursor \in Nat /\ cursor >= Origin
      /\ start \in Nat /\ inked \in Nat /\ hwCursor \in Nat /\ hwStart \in Nat
  BY <1>1, Running
<1>3. IInv /\ TypeOK /\ Origin \in Nat /\ Screen \in Nat
  BY Constants DEF IInv
<1>4. CASE op[c] \in Writes
  <2>1. /\ Walks(c, "outCursor", "loop") /\ pc'[c] = "loop"
        /\ hwCursor' = reg[c] /\ UNCHANGED <<hwStart, inked>>
        /\ op'[c] = op[c]
    BY <1>1, <1>2, <1>3, <1>4 DEF SetCursor, Does, Goto, Walks, TypeOK, screenVars
  <2>2. ~overlapped => AloneOf(c)'
    BY <1>1, <1>2, <2>1, <1>4 DEF AloneOf, HasTested, HasRoom, KindAt, consoleVars, End
  <2>3. last # "none" => SingleOf(c)'
    BY <1>1, <1>2, <1>3, <2>1, <1>4 DEF SingleOf, consoleVars, histVars
  <2>4. /\ KindAt("loop", op[c])
        /\ hwCursor' \in Nat /\ hwStart' \in Nat /\ inked' \in Nat
        /\ "outCursor" \in Points /\ "loop" \in Points
    BY <1>2, <2>1, <1>4 DEF KindAt, Writes, Prints, Points
  <2>5. QED
    BY <1>1, <1>3, <2>1, <2>2, <2>3, <2>4, QuietInv
<1>5. CASE op[c] \notin Writes
  <2>1. /\ Walks(c, "outCursor", "idle") /\ pc'[c] = "idle"
        /\ hwCursor' = reg[c] /\ UNCHANGED <<hwStart, inked>>
    BY <1>1, <1>2, <1>3, <1>5 DEF SetCursor, Does, Goto, Walks, TypeOK, screenVars
  <2>2. ~overlapped => inked' <= cursor /\ AloneOf(c)'
    BY <1>1, <1>2, <2>1, <1>5 DEF AloneOf, HasTested, HasRoom, KindAt, consoleVars, End
  <2>3. last # "none" => Settled' /\ SingleOf(c)'
    BY <1>1, <1>2, <1>3, <2>1, <1>5 DEF SingleOf, Settled, consoleVars, histVars
  <2>4. /\ hwCursor' \in Nat /\ hwStart' \in Nat /\ inked' \in Nat
        /\ "outCursor" \in Points /\ "idle" \in Points
    BY <1>2, <2>1, <1>5 DEF Points
  <2>5. QED
    BY <1>1, <1>3, <2>1, <2>2, <2>3, <2>4, QuietInv
<1>6. QED
  BY <1>4, <1>5

LEMMA WipeInv == ASSUME IInv, NEW c \in Ctx, Wipe(c) PROVE IInv'
<1>1. Does(c, "wipe") /\ UNCHANGED <<consoleVars, histVars>>
  BY DEF Wipe, Choose, Does, Goto
<1>2. /\ pc[c] = "wipe" /\ KindAt("wipe", op[c])
      /\ ~overlapped => AloneOf(c)
      /\ last # "none" => SingleOf(c)
      /\ op[c] \in Ops /\ aim[c] \in Nat /\ reg[c] \in Nat /\ cursor \in Nat /\ cursor >= Origin
      /\ start \in Nat /\ inked \in Nat /\ hwCursor \in Nat /\ hwStart \in Nat
  BY <1>1, Running
<1>3. IInv /\ TypeOK /\ Origin \in Nat /\ Screen \in Nat
  BY Constants DEF IInv
<1>4. /\ Walks(c, "wipe", "homeStart") /\ pc'[c] = "homeStart"
      /\ UNCHANGED <<hwCursor, hwStart, inked>>
      /\ op'[c] = op[c]
  BY <1>1, <1>2, <1>3 DEF Wipe, Choose, Does, Goto, Walks, TypeOK, screenVars
<1>5. ~overlapped => AloneOf(c)'
  BY <1>1, <1>2, <1>4 DEF AloneOf, HasTested, HasRoom, KindAt, consoleVars, End
<1>6. last # "none" => SingleOf(c)'
  BY <1>1, <1>2, <1>3, <1>4 DEF SingleOf, consoleVars, histVars
<1>7. /\ KindAt("homeStart", op[c])
      /\ hwCursor' \in Nat /\ hwStart' \in Nat /\ inked' \in Nat
      /\ "wipe" \in Points /\ "homeStart" \in Points
  BY <1>2, <1>4 DEF KindAt, Writes, Prints, Points
<1>8. QED
  BY <1>1, <1>3, <1>4, <1>5, <1>6, <1>7, QuietInv

-----------------------------------------------------------------------------
(* The steps that move the cursor or the start of the screen, or load them  *)
(* for that purpose.                                                       *)

\* The lower contexts are kept in reach by what the step says of the cursor.
LEMMA WalkCursor ==
  ASSUME IInv, NEW c \in Ctx, NEW here \in Points \ {"idle"}, NEW next \in Points \ {"idle"},
         Walks(c, here, next), cursor' \in Origin..CursorReach(1), CursorOf(c)',
         CursorAt(Len(stack))',
         \A d \in Ctx : d # c /\ HasTested(d) /\ op[d] = "backspace" => cursor' > Origin,
         \A p \in 1..Len(stack)-1 :
           HasTested(stack[p]) /\ op[stack[p]] \in Prints =>
             /\ cursor' + Gain(op[stack[p]]) <= CursorReach(p)
             /\ next = "move" => reg'[c] + Gain(op[stack[p]]) <= CursorReach(p)
  PROVE  CursorBound'
<1> DEFINE n == Len(stack)
<1>1. TypeOK /\ Distinct /\ CursorBound
  BY DEF IInv
<1>2. /\ n \in 1..Depth /\ n \in Nat /\ stack[n] = c /\ stack' = stack /\ pc'[c] = next
      /\ \A p \in 1..n : stack[p] \in Ctx /\ (stack[p] = c => p = n)
      /\ \A d \in Ctx : d # c => /\ pc'[d] = pc[d] /\ op'[d] = op[d]
                                 /\ aim'[d] = aim[d] /\ reg'[d] = reg[d]
  BY <1>1, Constants, Walk
<1>3. ASSUME NEW d \in Ctx PROVE CursorOf(d)'
  <2>1. CASE d = c
    BY <2>1
  <2>2. CASE d # c
    <3>1. CursorOf(d)
      BY <1>1 DEF CursorBound
    <3>2. QED
      BY <3>1, <2>2, <1>2 DEF CursorOf, HasTested
  <2>3. QED
    BY <2>1, <2>2
<1>4. ASSUME NEW p \in 1..n PROVE CursorAt(p)'
  <2>1. CASE p = n
    <3>1. p = Len(stack)'
      BY <2>1, <1>2
    <3>2. QED
      BY <3>1 DEF CursorAt, HasTested
  <2>2. CASE p # n
    <3>1. p \in 1..n-1 /\ stack[p] \in Ctx /\ stack[p] # c
      BY <2>2, <1>2
    <3>2. CursorAt(p)
      BY <1>1 DEF CursorBound
    <3>3. /\ pc'[stack[p]] = pc[stack[p]] /\ op'[stack[p]] = op[stack[p]]
      BY <3>1, <1>2
    <3>4. \A q \in p..n : /\ q \in 1..n /\ stack[q] \in Ctx
                          /\ q = n \/ (pc'[stack[q]] = pc[stack[q]] /\ reg'[stack[q]] = reg[stack[q]])
      <4>1. \A q \in p..n : q \in 1..n
        BY <1>2
      <4>2. QED
        BY <4>1, <1>2
    <3>5. HasTested(stack[p]) /\ op[stack[p]] \in Prints =>
            /\ cursor' + Gain(op[stack[p]]) <= CursorReach(p)
            /\ \A q \in p..n : pc'[stack[q]] = "move" =>
                 reg'[stack[q]] + Gain(op[stack[p]]) <= CursorReach(p)
      BY <3>1, <3>2, <3>4, <1>2 DEF CursorAt
    <3>6. pc'[stack'[p]] \in {"store", "load", "move"} /\ op'[stack'[p]] \in Prints =>
            /\ cursor' + Gain(op'[stack'[p]]) <= CursorReach(p)
            /\ \A q \in p..Len(stack') : pc'[stack'[q]] = "move" =>
                 reg'[stack'[q]] + Gain(op'[stack'[p]]) <= CursorReach(p)
      BY <3>3, <3>5, <1>2 DEF HasTested
    <3>7. QED
      BY <3>6 DEF CursorAt, HasTested
  <2>3. QED
    BY <2>1, <2>2
<1>5. Len(stack') = n
  BY <1>2
<1>6. QED
  BY <1>3, <1>4, <1>5 DEF CursorBound

\* The same for the start of the screen.
LEMMA WalkStart ==
  ASSUME IInv, NEW c \in Ctx, NEW here \in Points \ {"idle"}, NEW next \in Points \ {"idle"},
         Walks(c, here, next), start' \in Origin..StartReach(1), Aligned(start'), StartOf(c)',
         StartAt(Len(stack))',
         \A d \in Ctx : d # c /\ pc[d] = "scrollLoad" /\ op[d] = "up" => start' > Origin,
         \A p \in 1..Len(stack)-1 :
           /\ pc[stack[p]] \in {"scrollLoad", "scrollStore"} /\ op[stack[p]] # "up" =>
                /\ start' <= StartReach(p + 1)
                /\ next = "scrollStore" => reg'[c] <= StartReach(p + 1)
           /\ pc[stack[p]] = "homeLoad" => start' <= StartReach(p + 1)
  PROVE  StartBound'
<1> DEFINE n == Len(stack)
<1>1. TypeOK /\ Distinct /\ StartBound
  BY DEF IInv
<1>2. /\ n \in 1..Depth /\ n \in Nat /\ stack[n] = c /\ stack' = stack /\ pc'[c] = next
      /\ \A p \in 1..n : stack[p] \in Ctx /\ (stack[p] = c => p = n)
      /\ \A d \in Ctx : d # c => pc'[d] = pc[d] /\ op'[d] = op[d] /\ reg'[d] = reg[d]
  BY <1>1, Constants, Walk
<1>3. ASSUME NEW d \in Ctx PROVE StartOf(d)'
  <2>1. CASE d = c
    BY <2>1
  <2>2. CASE d # c
    <3>1. StartOf(d)
      BY <1>1 DEF StartBound
    <3>2. /\ pc'[d] = "scrollStore" => /\ reg'[d] \in Origin..StartReach(1) /\ Aligned(reg'[d])
                                       /\ op'[d] = "up" => reg'[d] > Origin
          /\ pc'[d] = "scrollLoad" /\ op'[d] = "up" => start' > Origin
          /\ pc'[d] = "homeCursor" => reg'[d] >= Origin
      BY <3>1, <2>2, <1>2 DEF StartOf
    <3>3. QED
      BY <3>2 DEF StartOf
  <2>3. QED
    BY <2>1, <2>2
<1>4. ASSUME NEW p \in 1..n PROVE StartAt(p)'
  <2>1. CASE p = n
    <3>1. p = Len(stack)'
      BY <2>1, <1>2
    <3>2. QED
      BY <3>1 DEF StartAt
  <2>2. CASE p # n
    <3>1. p \in 1..n-1 /\ stack[p] \in Ctx /\ stack[p] # c
      BY <2>2, <1>2
    <3>2. StartAt(p)
      BY <1>1 DEF StartBound
    <3>3. /\ pc'[stack[p]] = pc[stack[p]] /\ op'[stack[p]] = op[stack[p]]
          /\ reg'[stack[p]] = reg[stack[p]]
      BY <3>1, <1>2
    <3>4. \A q \in p..n : /\ q \in 1..n /\ stack[q] \in Ctx
                          /\ q = n \/ (pc'[stack[q]] = pc[stack[q]] /\ reg'[stack[q]] = reg[stack[q]])
      <4>1. \A q \in p..n : q \in 1..n
        BY <1>2
      <4>2. QED
        BY <4>1, <1>2
    <3>5. /\ pc'[stack'[p]] \in {"scrollLoad", "scrollStore"} /\ op'[stack'[p]] # "up" =>
               /\ start' <= StartReach(p + 1)
               /\ \A q \in p..Len(stack') :
                    pc'[stack'[q]] = "scrollStore" => reg'[stack'[q]] <= StartReach(p + 1)
          /\ pc'[stack'[p]] = "homeLoad" => start' <= StartReach(p + 1)
          /\ pc'[stack'[p]] = "homeCursor" => reg'[stack'[p]] <= StartReach(p + 1)
      BY <3>1, <3>2, <3>3, <3>4, <1>2 DEF StartAt
    <3>6. QED
      BY <3>5 DEF StartAt
  <2>3. QED
    BY <2>1, <2>2
<1>5. Len(stack') = n
  BY <1>2
<1>6. QED
  BY <1>3, <1>4, <1>5 DEF StartBound

LEMMA GotoWalks ==
  ASSUME TypeOK, NEW c \in Ctx, NEW here, NEW next \in Points, Does(c, here), Goto(c, next)
  PROVE  /\ Walks(c, here, next) /\ pc'[c] = next
         /\ next # "idle" => op' = op /\ stack' = stack
         /\ next \notin {"loop", "idle"} => aim' = aim
<1>1. \E r \in Nat : reg' = [reg EXCEPT ![c] = r]
  BY Constants DEF Goto
<1>2. aim' = aim \/ aim' = [aim EXCEPT ![c] = Origin]
  BY DEF Goto
<1>3. pc' = [pc EXCEPT ![c] = next] /\ pc'[c] = next
  BY DEF Goto, TypeOK
<1>4. QED
  BY <1>1, <1>2, <1>3 DEF Goto, Walks

LEMMA LoadWalks ==
  ASSUME TypeOK, NEW c \in Ctx, NEW here, NEW next \in Points \ {"idle"}, NEW value \in Nat,
         Load(c, here, value, next)
  PROVE  /\ Walks(c, here, next) /\ pc'[c] = next /\ reg'[c] = value
         /\ op' = op /\ stack' = stack /\ aim' = aim
         /\ UNCHANGED <<consoleVars, screenVars, histVars>>
<1>1. \E r \in Nat : reg' = [reg EXCEPT ![c] = r]
  BY DEF Load
<1>2. pc' = [pc EXCEPT ![c] = next] /\ pc'[c] = next /\ reg'[c] = value
  BY DEF Load, TypeOK
<1>3. QED
  BY <1>1, <1>2 DEF Load, Walks

LEMMA TestRoomInv == ASSUME IInv, NEW c \in Ctx, TestRoom(c) PROVE IInv'
<1> DEFINE n == Len(stack)
           next == IF HasRoom(op[c]) THEN (IF op[c] = "char" THEN "store" ELSE "load") ELSE "loop"
<1>1. Does(c, "room") /\ UNCHANGED <<consoleVars, screenVars, histVars>>
  BY DEF TestRoom, Choose
<1>2. /\ pc[c] = "room" /\ op[c] \in Writes /\ CursorOf(c) /\ n \in 1..Depth /\ stack[n] = c
      /\ ~overlapped => AloneOf(c) /\ cursor <= End - 1
      /\ last # "none" => SingleOf(c)
      /\ aim[c] \in Nat /\ cursor \in Nat /\ cursor >= Origin /\ start \in Nat /\ inked \in Nat
      /\ hwCursor \in Nat /\ hwStart \in Nat
  BY <1>1, Running DEF KindAt
<1>3. TypeOK /\ CursorBound /\ Distinct
  BY DEF IInv
<1>4. /\ Walks(c, "room", next) /\ pc'[c] = next /\ op'[c] = op[c]
      /\ next # "loop" => aim'[c] = aim[c]
  <2>1. next \in Points
    BY DEF Points
  <2>2. Goto(c, next)
    BY DEF TestRoom, Choose
  <2>3. next # "idle"
    OBVIOUS
  <2> HIDE DEF next
  <2>4. Walks(c, "room", next) /\ pc'[c] = next /\ op' = op /\ (next \notin {"loop", "idle"} => aim' = aim)
    BY <2>1, <2>2, <2>3, <1>1, <1>3, GotoWalks
  <2>5. QED
    BY <2>3, <2>4
<1>5. /\ KindAt(next, op[c]) /\ "room" \in Points \ {"idle"} /\ next \in Points \ {"idle"}
      /\ next \in {"store", "load", "loop"}
  BY <1>2 DEF KindAt, Points, Writes, Prints
<1>6. ~overlapped => AloneOf(c)'
  <2> SUFFICES ASSUME ~overlapped PROVE AloneOf(c)'
    OBVIOUS
  <2>1. cursor' = cursor /\ inked' = inked /\ aim[c] = cursor /\ inked <= cursor
    BY <1>1, <1>2 DEF AloneOf, consoleVars, screenVars
  <2>2. next \in {"store", "load"} => HasRoom(op[c]) /\ aim'[c] = cursor
    BY <2>1, <1>4
  <2>3. HasTested(c)' => next \in {"store", "load"}
    BY <1>4, <1>5 DEF HasTested
  <2>4. HasRoom(op[c]) => HasRoom(op[c])'
    BY <2>1, <1>4 DEF HasRoom, End
  <2>5. inked' <= cursor' + 1 /\ inked' <= cursor'
    BY <2>1, <1>2
  <2>7. HasTested(c)' => HasRoom(op[c])'
    BY <2>2, <2>3, <2>4
  <2>8. /\ pc'[c] \in {"room", "store"} => aim'[c] = cursor'
        /\ pc'[c] \in {"load", "move"} /\ op'[c] = "backspace" => aim'[c] = cursor'
        /\ pc'[c] \in {"load", "move"} => inked' <= cursor' + IF op'[c] = "char" THEN 1 ELSE 0
        /\ pc'[c] \notin {"move", "erase", "homeLoad", "homeCursor"}
    BY <2>1, <2>2, <2>5, <1>2, <1>4, <1>5
  <2>9. QED
    BY <2>5, <2>7, <2>8 DEF AloneOf
<1>7. last # "none" => SingleOf(c)'
  BY <1>1, <1>2, <1>4, <1>5 DEF SingleOf, histVars
<1>8. CASE ~HasRoom(op[c])
  <2>1. next = "loop"
    BY <1>8
  <2>2. QED
    BY <2>1, <1>1, <1>2, <1>4, <1>5, <1>6, <1>7, QuietInv DEF screenVars
<1>9. CASE HasRoom(op[c])
  <2>1. /\ next \in {"store", "load"} /\ cursor' = cursor /\ start' = start /\ stack' = stack
        /\ n \in Nat /\ next # "move"
    BY <1>1, <1>4, <1>5, <1>9, Constants DEF consoleVars, Walks
  <2>2. CursorOf(c)'
    BY <1>1, <1>2, <1>4, <1>9, <2>1 DEF CursorOf, HasRoom
  <2>3. CursorAt(n)'
    <3>1. op[c] \in Prints => cursor + Gain(op[c]) <= CursorReach(n)
      <4>1. CursorReach(n) \in Int /\ CursorReach(n) >= End - 1
        BY <1>2, <2>1, Reaches
      <4>2. CASE op[c] = "char"
        BY <4>1, <4>2, <1>2, <1>9, Constants DEF HasRoom, Gain
      <4>3. CASE op[c] = "newline"
        BY <4>1, <4>3, <1>2, <1>9, Constants DEF HasRoom, Gain
      <4>4. QED
        BY <4>2, <4>3 DEF Prints
    <3>2. \A q \in n..n : q = n
      BY <2>1
    <3>3. QED
      BY <3>1, <3>2, <1>2, <1>4, <2>1 DEF CursorAt
  <2>4. ASSUME NEW p \in 1..n-1, HasTested(stack[p]), op[stack[p]] \in Prints
        PROVE  cursor' + Gain(op[stack[p]]) <= CursorReach(p)
    <3>1. p \in 1..n
      BY <2>1
    <3>2. QED
      BY <3>1, <2>1, <2>4, <1>3 DEF CursorBound, CursorAt
  <2>5. \A d \in Ctx : d # c /\ HasTested(d) /\ op[d] = "backspace" => cursor' > Origin
    BY <1>3, <2>1 DEF CursorBound, CursorOf
  <2>6. CursorBound'
    BY <1>3, <1>4, <1>5, <2>1, <2>2, <2>3, <2>4, <2>5, WalkCursor DEF CursorBound
  <2>7. StartBound'
    BY <1>4, <1>5, <2>1, WalkKeepsStart
  <2>8. QED
    BY <1>1, <1>2, <1>4, <1>5, <1>6, <1>7, <2>1, <2>6, <2>7, WalkInv DEF screenVars
<1>10. QED
  BY <1>8, <1>9

LEMMA LoadCursorInv == ASSUME IInv, NEW c \in Ctx, LoadCursor(c) PROVE IInv'
<1> DEFINE n == Len(stack)
<1>1. Does(c, "load") /\ UNCHANGED <<consoleVars, screenVars, histVars>>
  BY DEF LoadCursor, Load
<1>2. /\ pc[c] = "load" /\ op[c] \in Writes /\ CursorOf(c) /\ CursorAt(n)
      /\ n \in 1..Depth /\ stack[n] = c
      /\ ~overlapped => AloneOf(c) /\ cursor <= End - 1
      /\ last # "none" => SingleOf(c)
      /\ aim[c] \in Nat /\ cursor \in Nat /\ cursor >= Origin /\ start \in Nat /\ inked \in Nat
      /\ hwCursor \in Nat /\ hwStart \in Nat
  BY <1>1, Running DEF KindAt
<1>3. TypeOK /\ CursorBound
  BY DEF IInv
<1>4. /\ Walks(c, "load", "move") /\ pc'[c] = "move" /\ op'[c] = op[c] /\ aim'[c] = aim[c]
      /\ reg'[c] = cursor /\ stack' = stack /\ cursor' = cursor /\ start' = start /\ n \in Nat
  <2>1. Load(c, "load", cursor, "move") /\ "move" \in Points \ {"idle"}
    BY DEF LoadCursor, Points
  <2>2. /\ Walks(c, "load", "move") /\ pc'[c] = "move" /\ reg'[c] = cursor
        /\ op' = op /\ stack' = stack /\ aim' = aim
    BY <2>1, <1>2, <1>3, LoadWalks
  <2>3. n \in Nat
    BY <1>3 DEF TypeOK
  <2>4. QED
    BY <2>2, <2>3, <1>1 DEF consoleVars
<1>5. KindAt("move", op[c]) /\ "load" \in Points \ {"idle"} /\ "move" \in Points \ {"idle"}
  BY <1>2 DEF KindAt, Points
<1>6. ~overlapped => AloneOf(c)'
  BY <1>1, <1>2, <1>4 DEF AloneOf, HasTested, HasRoom, screenVars, End
<1>7. last # "none" => SingleOf(c)'
  BY <1>1, <1>2, <1>4 DEF SingleOf, histVars
<1>8. CursorOf(c)'
  BY <1>2, <1>3, <1>4 DEF CursorOf, CursorBound, HasTested
<1>9. CursorAt(n)'
  <2>1. \A q \in n..n : q = n
    BY <1>4
  <2>2. QED
    BY <2>1, <1>2, <1>4 DEF CursorAt, HasTested
<1>10. ASSUME NEW p \in 1..n-1, HasTested(stack[p]), op[stack[p]] \in Prints
       PROVE  cursor + Gain(op[stack[p]]) <= CursorReach(p)
  <2>1. p \in 1..n
    BY <1>4
  <2>2. QED
    BY <2>1, <1>3, <1>10 DEF CursorBound, CursorAt
<1>11. \A d \in Ctx : d # c /\ HasTested(d) /\ op[d] = "backspace" => cursor' > Origin
  BY <1>3, <1>4 DEF CursorBound, CursorOf
<1>12. CursorBound'
  BY <1>3, <1>4, <1>5, <1>8, <1>9, <1>10, <1>11, WalkCursor DEF CursorBound
<1>13. StartBound'
  BY <1>4, <1>5, WalkKeepsStart
<1>14. QED
  BY <1>1, <1>2, <1>4, <1>5, <1>6, <1>7, <1>12, <1>13, WalkInv DEF screenVars

LEMMA MoveInv == ASSUME IInv, NEW c \in Ctx, Move(c) PROVE IInv'
<1> DEFINE n == Len(stack)
           r == reg[c]
           next == IF op[c] = "backspace" THEN "erase" ELSE "loop"
<1>1. Does(c, "move") /\ UNCHANGED <<start, screenVars, histVars>>
  BY DEF Move
<1>2. /\ pc[c] = "move" /\ op[c] \in Writes /\ CursorOf(c) /\ CursorAt(n)
      /\ n \in 1..Depth /\ stack[n] = c
      /\ ~overlapped => AloneOf(c) /\ cursor <= End - 1
      /\ last # "none" => SingleOf(c)
      /\ aim[c] \in Nat /\ r \in Nat /\ start \in Nat /\ inked \in Nat /\ cursor \in Nat
      /\ hwCursor \in Nat /\ hwStart \in Nat
  BY <1>1, Running DEF KindAt
<1>3. TypeOK /\ CursorBound /\ Kinds /\ Distinct
  BY DEF IInv
<1>4. /\ Walks(c, "move", next) /\ pc'[c] = next /\ op'[c] = op[c]
      /\ next = "erase" => aim'[c] = aim[c]
      /\ cursor' = Moved(op[c], r) /\ stack' = stack /\ n \in Nat
  <2>1. next \in Points /\ next # "idle"
    BY DEF Points
  <2>2. Goto(c, next) /\ cursor' = Moved(op[c], r)
    BY DEF Move
  <2>3. n \in Nat
    BY <1>3 DEF TypeOK
  <2> HIDE DEF next
  <2>4. Walks(c, "move", next) /\ pc'[c] = next /\ op' = op /\ (next \notin {"loop", "idle"} => aim' = aim) /\ stack' = stack
    BY <2>1, <2>2, <1>1, <1>3, GotoWalks
  <2>5. QED
    BY <2>1, <2>2, <2>3, <2>4
<1>5. KindAt(next, op[c]) /\ "move" \in Points \ {"idle"} /\ next \in Points \ {"idle"}
  BY <1>2 DEF KindAt, Points, Writes, Prints
<1>6. /\ r \in Origin..CursorReach(1) /\ (op[c] = "backspace" => r > Origin)
      /\ op[c] \in Prints => r + Gain(op[c]) <= CursorReach(n)
  <2>1. n \in n..n /\ HasTested(stack[n])
    BY <1>2, <1>4 DEF HasTested
  <2>2. QED
    BY <2>1, <1>2 DEF CursorOf, CursorAt
<1>7. /\ cursor' \in Nat
      /\ op[c] \in Prints => cursor' > r /\ cursor' <= r + Gain(op[c])
      /\ op[c] = "char" => cursor' = r + 1
      /\ op[c] = "backspace" => cursor' = r - 1
  <2>1. CASE op[c] = "char"
    BY <2>1, <1>2, <1>4, <1>6 DEF Moved, Gain
  <2>2. CASE op[c] = "newline"
    <3> DEFINE a == r - Origin
               e == Width * (a \div Width + 1)
    <3>1. a \in Nat /\ cursor' = Origin + e
      <4>1. CursorReach(1) \in Int
        BY Reaches
      <4>2. a \in Nat
        BY <4>1, <1>2, <1>6, Constants
      <4>3. cursor' = Origin + e
        BY <2>2, <1>4 DEF Moved
      <4>4. QED
        BY <4>2, <4>3
    <3>2. e \in Nat /\ a < e /\ e <= a + Width
      <4> HIDE DEF a
      <4>1. QED
        BY <3>1, LineEnd, Constants DEF e
    <3> HIDE DEF e
    <3>3. Gain(op[c]) = Width
      BY <2>2 DEF Gain
    <3>4. cursor' \in Nat /\ cursor' > r /\ cursor' <= r + Width
      BY <3>1, <3>2, <1>2, Constants
    <3>5. QED
      BY <3>3, <3>4, <2>2
  <2>3. CASE op[c] = "backspace"
    <3>1. cursor' = r - 1 /\ op[c] \notin Prints
      BY <2>3, <1>4 DEF Moved, Prints
    <3>2. r \in Nat /\ r > Origin /\ Origin \in Nat
      BY <2>3, <1>2, <1>6, Constants
    <3>3. QED
      BY <2>3, <3>1, <3>2
  <2>4. op[c] = "char" \/ op[c] = "newline" \/ op[c] = "backspace"
    BY <1>2 DEF Writes, Prints
  <2>5. QED
    BY <2>1, <2>2, <2>3, <2>4
<1>8. ~overlapped => AloneOf(c)' /\ cursor' <= End - 1
  <2> SUFFICES ASSUME ~overlapped PROVE AloneOf(c)' /\ cursor' <= End - 1
    OBVIOUS
  <2>1. /\ r = cursor /\ HasRoom(op[c]) /\ (op[c] = "backspace" => aim[c] = cursor)
        /\ inked <= cursor + (IF op[c] = "char" THEN 1 ELSE 0) /\ inked' = inked /\ cursor <= End - 1
    BY <1>1, <1>2 DEF AloneOf, HasTested, screenVars
  <2>2. cursor' <= End - 1
    <3>1. CASE op[c] = "char"
      BY <3>1, <2>1, <1>2, <1>7, Constants DEF HasRoom
    <3>2. CASE op[c] = "newline"
      <4>1. cursor' <= cursor + Width
        BY <3>2, <2>1, <1>7 DEF Gain, Prints
      <4>2. QED
        <5>1. cursor < End - Width
          BY <3>2, <2>1 DEF HasRoom
        <5>2. cursor' \in Int /\ cursor \in Int /\ End \in Int /\ Width \in Int
          BY <1>2, <1>7, Constants
        <5>3. QED
          BY <4>1, <5>1, <5>2
    <3>3. CASE op[c] = "backspace"
      BY <3>3, <2>1, <1>2, <1>7, Constants
    <3>4. QED
      BY <3>1, <3>2, <3>3, <1>2 DEF Writes, Prints
  <2>3. next = "loop" => inked' <= cursor'
    BY <2>1, <1>2, <1>7 DEF Writes, Prints
  <2>4. next = "erase" => aim'[c] = cursor' + 1 /\ inked' <= cursor' + 1
    BY <2>1, <1>2, <1>4, <1>7
  <2>5. QED
    BY <2>2, <2>3, <2>4, <1>4 DEF AloneOf, HasTested
<1>9. last # "none" => SingleOf(c)'
  BY <1>1, <1>2, <1>4 DEF SingleOf, histVars
<1>10. /\ CursorReach(1) \in Int /\ CursorReach(n) \in Int /\ CursorReach(n) <= CursorReach(1)
  <2>1. n \in 1..Depth
    BY <1>2, <1>4
  <2>2. QED
    BY <2>1, Reaches, SMTT(30)
<1>11. cursor' \in Origin..CursorReach(1)
  <2>1. CASE op[c] \in Prints
    <3>1. cursor' <= CursorReach(n) /\ cursor' >= r
      <4>1. Gain(op[c]) \in Nat
        BY Constants DEF Gain
      <4>2. QED
        BY <4>1, <2>1, <1>2, <1>6, <1>7, <1>10
    <3>2. QED
      BY <3>1, <1>2, <1>6, <1>7, <1>10, Constants
  <2>2. CASE op[c] = "backspace"
    BY <2>2, <1>2, <1>6, <1>7, <1>10, Constants
  <2>3. QED
    BY <2>1, <2>2, <1>2 DEF Writes
<1>12. CursorOf(c)'
  <2>1. CursorReach(1) >= Origin
    BY <1>6, <1>10, Constants
  <2>2. aim'[c] \in {aim[c], Origin}
    BY <1>3, <1>4, <1>5, Walk
  <2>3. QED
    BY <2>1, <2>2, <1>2, <1>4, <1>10, Constants DEF CursorOf, HasTested
<1>13. CursorAt(n)'
  BY <1>2, <1>4 DEF CursorAt, HasTested
<1>14. ASSUME NEW d \in Ctx, d # c, HasTested(d), op[d] = "backspace" PROVE cursor' > Origin
  <2>1. d = "keyboard"
    BY <1>3, <1>14 DEF Kinds, Prints
  <2>2. op[c] \in Prints
    BY <2>1, <1>3, <1>14 DEF Kinds
  <2>3. QED
    BY <2>2, <1>2, <1>6, <1>7, Constants
<1>15. ASSUME NEW p \in 1..n-1, HasTested(stack[p]), op[stack[p]] \in Prints
       PROVE  cursor' + Gain(op[stack[p]]) <= CursorReach(p)
  <2>1. p \in 1..n /\ n \in p..n /\ p \in Nat /\ p + 1 <= n /\ p + 1 \in Nat
    BY <1>4
  <2>2. CursorAt(p)
    BY <2>1, <1>3 DEF CursorBound
  <2>3. Gain(op[stack[p]]) \in Nat /\ Gain(op[stack[p]]) <= Width
    BY Constants DEF Gain
  <2>4. CASE op[c] \in Prints
    <3>1. /\ CursorReach(p) = CursorReach(p + 1) + Width /\ CursorReach(n) <= CursorReach(p + 1)
          /\ CursorReach(p) \in Int /\ CursorReach(p + 1) \in Int
      BY <2>1, <1>4, Reaches
    <3>2. cursor' <= CursorReach(n)
      <4>1. Gain(op[c]) \in Nat
        BY Constants DEF Gain
      <4>2. QED
        BY <4>1, <2>4, <1>2, <1>6, <1>7, <1>10
    <3>3. QED
      BY <3>1, <3>2, <2>3, <1>7, <1>10, Constants
  <2>5. CASE op[c] = "backspace"
    <3>1. r + Gain(op[stack[p]]) <= CursorReach(p)
      BY <2>1, <2>2, <1>2, <1>15 DEF CursorAt
    <3>2. CursorReach(p) \in Int
      BY <2>1, Reaches
    <3>3. QED
      BY <3>1, <3>2, <2>3, <2>5, <1>2, <1>7
  <2>6. QED
    BY <2>4, <2>5, <1>2 DEF Writes
<1>16. CursorBound'
  BY <1>4, <1>5, <1>11, <1>12, <1>13, <1>14, <1>15, WalkCursor
<1>17. StartBound'
  BY <1>1, <1>4, <1>5, WalkKeepsStart
<1>18. QED
  BY <1>1, <1>2, <1>4, <1>5, <1>7, <1>8, <1>9, <1>16, <1>17, WalkInv DEF screenVars


\* Only the keyboard handler scrolls up, clears the screen or erases.
LEMMA KeyboardOnly ==
  ASSUME IInv, NEW d \in Ctx
  PROVE  op[d] \notin Prints \/ pc[d] \in {"wipe", "homeStart", "homeLoad", "homeCursor"} => d = "keyboard"
<1>1. CASE d = "keyboard"
  BY <1>1
<1>2. CASE d # "keyboard"
  BY <1>2 DEF IInv, Kinds, KindAt, Prints
<1>3. QED
  BY <1>1, <1>2

\* What the invariant says of the start of the screen and of those who scroll.
LEMMA Scrolling ==
  ASSUME IInv
  PROVE  /\ start \in Origin..StartReach(1) /\ Aligned(start) /\ start \in Nat /\ start >= Origin
         /\ \A d \in Ctx : pc[d] = "scrollLoad" /\ op[d] = "up" => start > Origin
         /\ \A p \in 1..Len(stack) :
              /\ pc[stack[p]] \in {"scrollLoad", "scrollStore"} /\ op[stack[p]] # "up" =>
                   /\ start <= StartReach(p + 1)
                   /\ \A q \in p..Len(stack) :
                        pc[stack[q]] = "scrollStore" => reg[stack[q]] <= StartReach(p + 1)
              /\ pc[stack[p]] = "homeLoad" => start <= StartReach(p + 1)
<1>1. StartBound /\ start \in Nat
  BY DEF IInv, TypeOK
<1>2. StartReach(1) \in Int
  BY Reaches
<1>3. start >= Origin
  BY <1>1, <1>2, Constants DEF StartBound
<1>4. QED
  BY <1>1, <1>3 DEF StartBound, StartOf, StartAt

LEMMA ScrollTestInv == ASSUME IInv, NEW c \in Ctx, ScrollTest(c) PROVE IInv'
<1> DEFINE n == Len(stack)
           next == IF CanScroll(op[c]) THEN "scrollLoad" ELSE "showStart"
<1>1. Does(c, "scroll") /\ UNCHANGED <<consoleVars, screenVars, histVars>> /\ Goto(c, next)
  BY DEF ScrollTest, Choose
<1>2. /\ pc[c] = "scroll" /\ op[c] # "clear" /\ n \in 1..Depth /\ stack[n] = c
      /\ ~overlapped => AloneOf(c) /\ cursor <= End - 1
      /\ last # "none" => SingleOf(c)
      /\ cursor \in Nat /\ start \in Nat /\ inked \in Nat /\ hwCursor \in Nat /\ hwStart \in Nat
  BY <1>1, Running DEF KindAt
<1>3. TypeOK /\ n \in Nat
  BY DEF IInv, TypeOK
<1>4. /\ Walks(c, "scroll", next) /\ pc'[c] = next /\ op' = op /\ stack' = stack
  <2>1. next \in Points /\ next # "idle"
    BY DEF Points
  <2> HIDE DEF next
  <2>2. QED
    BY <2>1, <1>1, <1>3, GotoWalks
<1>5. KindAt(next, op[c]) /\ "scroll" \in Points \ {"idle"} /\ next \in Points \ {"idle"}
  BY <1>2 DEF KindAt, Points
<1>6. cursor' = cursor /\ start' = start /\ inked' = inked /\ hwCursor' = hwCursor /\ hwStart' = hwStart
  BY <1>1 DEF consoleVars, screenVars
<1>7. ~overlapped => AloneOf(c)'
  BY <1>2, <1>4, <1>6 DEF AloneOf, HasTested
<1>8. last # "none" => SingleOf(c)'
  BY <1>1, <1>2, <1>4 DEF SingleOf, histVars
<1>9. CASE ~CanScroll(op[c])
  <2>1. next = "showStart"
    BY <1>9
  <2>2. QED
    BY <2>1, <1>1, <1>2, <1>4, <1>5, <1>6, <1>7, <1>8, QuietInv
<1>10. CASE CanScroll(op[c])
  <2>1. next = "scrollLoad"
    BY <1>10
  <2>2. StartOf(c)'
    <3>1. op'[c] = "up" => start' > Origin
      BY <1>4, <1>6, <1>10 DEF CanScroll
    <3>2. QED
      BY <3>1, <2>1, <1>4 DEF StartOf
  <2>3. StartAt(n)'
    <3>1. op[c] # "up" => start <= StartReach(n + 1)
      <4>1. StartReach(n + 1) \in Int /\ StartReach(n + 1) >= End - Screen - 1
        BY <1>2, <1>3, Constants, Reaches
      <4>2. QED
        BY <4>1, <1>2, <1>10, Constants DEF CanScroll
    <3>2. \A q \in n..n : q = n
      BY <1>3
    <3>3. /\ pc'[stack'[n]] \in {"scrollLoad", "scrollStore"} /\ op'[stack'[n]] # "up" =>
               /\ start' <= StartReach(n + 1)
               /\ \A q \in n..Len(stack') :
                    pc'[stack'[q]] = "scrollStore" => reg'[stack'[q]] <= StartReach(n + 1)
          /\ pc'[stack'[n]] = "homeLoad" => start' <= StartReach(n + 1)
          /\ pc'[stack'[n]] = "homeCursor" => reg'[stack'[n]] <= StartReach(n + 1)
      BY <3>1, <3>2, <2>1, <1>2, <1>4, <1>6
    <3>4. n' = n
      BY <1>4
    <3>5. QED
      BY <3>3, <3>4 DEF StartAt
  <2>4. ASSUME NEW p \in 1..n-1
        PROVE  /\ pc[stack[p]] \in {"scrollLoad", "scrollStore"} /\ op[stack[p]] # "up" =>
                    start' <= StartReach(p + 1)
               /\ pc[stack[p]] = "homeLoad" => start' <= StartReach(p + 1)
    <3>1. p \in 1..n
      BY <1>3
    <3>2. QED
      BY <3>1, <1>6, Scrolling
  <2>5. /\ start' \in Origin..StartReach(1) /\ Aligned(start')
        /\ \A d \in Ctx : pc[d] = "scrollLoad" /\ op[d] = "up" => start' > Origin
    BY <1>6, Scrolling
  <2>6. StartBound'
    BY <2>1, <2>2, <2>3, <2>4, <2>5, <1>4, <1>5, WalkStart
  <2>7. CursorBound'
    BY <2>1, <1>4, <1>5, <1>6, WalkKeepsCursor
  <2>8. QED
    BY <2>1, <2>6, <2>7, <1>1, <1>2, <1>4, <1>5, <1>6, <1>7, <1>8, WalkInv
<1>11. QED
  BY <1>9, <1>10

LEMMA ScrollLoadInv == ASSUME IInv, NEW c \in Ctx, ScrollLoad(c) PROVE IInv'
<1> DEFINE n == Len(stack)
<1>1. Does(c, "scrollLoad") /\ Load(c, "scrollLoad", start, "scrollStore")
  BY DEF ScrollLoad, Load
<1>2. /\ pc[c] = "scrollLoad" /\ op[c] # "clear" /\ n \in 1..Depth /\ stack[n] = c
      /\ ~overlapped => AloneOf(c) /\ cursor <= End - 1
      /\ last # "none" => SingleOf(c)
      /\ cursor \in Nat /\ start \in Nat /\ inked \in Nat /\ hwCursor \in Nat /\ hwStart \in Nat
  BY <1>1, Running DEF KindAt
<1>3. TypeOK /\ n \in Nat
  BY DEF IInv, TypeOK
<1>4. KindAt("scrollStore", op[c]) /\ "scrollLoad" \in Points \ {"idle"} /\ "scrollStore" \in Points \ {"idle"}
  BY <1>2 DEF KindAt, Points
<1>5. /\ Walks(c, "scrollLoad", "scrollStore") /\ pc'[c] = "scrollStore" /\ op' = op
      /\ stack' = stack /\ reg'[c] = start
      /\ UNCHANGED <<consoleVars, screenVars, histVars>>
  BY <1>1, <1>2, <1>3, <1>4, LoadWalks
<1>6. cursor' = cursor /\ start' = start /\ inked' = inked /\ hwCursor' = hwCursor /\ hwStart' = hwStart
  BY <1>5 DEF consoleVars, screenVars
<1>7. ~overlapped => AloneOf(c)'
  BY <1>2, <1>5, <1>6 DEF AloneOf, HasTested
<1>8. last # "none" => SingleOf(c)'
  BY <1>2, <1>5 DEF SingleOf, histVars
<1>9. StartOf(c)'
  <2>1. reg'[c] \in Origin..StartReach(1) /\ Aligned(reg'[c]) /\ (op'[c] = "up" => reg'[c] > Origin)
    BY <1>2, <1>5, Scrolling
  <2>2. pc'[c] = "scrollStore" => /\ reg'[c] \in Origin..StartReach(1) /\ Aligned(reg'[c])
                                  /\ op'[c] = "up" => reg'[c] > Origin
    BY <2>1
  <2>3. QED
    BY <2>2, <1>5 DEF StartOf
<1>10. StartAt(n)'
  <2>1. op[c] # "up" => start <= StartReach(n + 1)
    <3>1. n \in 1..n
      BY <1>2, <1>3
    <3>2. QED
      BY <3>1, <1>2, Scrolling
  <2>2. \A q \in n..n : q = n
    BY <1>3
  <2>3. /\ pc'[stack'[n]] \in {"scrollLoad", "scrollStore"} /\ op'[stack'[n]] # "up" =>
             /\ start' <= StartReach(n + 1)
             /\ \A q \in n..Len(stack') :
                  pc'[stack'[q]] = "scrollStore" => reg'[stack'[q]] <= StartReach(n + 1)
        /\ pc'[stack'[n]] = "homeLoad" => start' <= StartReach(n + 1)
        /\ pc'[stack'[n]] = "homeCursor" => reg'[stack'[n]] <= StartReach(n + 1)
    BY <2>1, <2>2, <1>2, <1>5, <1>6
  <2>4. n' = n
    BY <1>5
  <2>5. QED
    BY <2>3, <2>4 DEF StartAt
<1>11. ASSUME NEW p \in 1..n-1
       PROVE  /\ pc[stack[p]] \in {"scrollLoad", "scrollStore"} /\ op[stack[p]] # "up" =>
                   start' <= StartReach(p + 1) /\ reg'[c] <= StartReach(p + 1)
              /\ pc[stack[p]] = "homeLoad" => start' <= StartReach(p + 1)
  <2>1. p \in 1..n
    BY <1>3
  <2>2. QED
    BY <2>1, <1>5, <1>6, Scrolling
<1>12. /\ start' \in Origin..StartReach(1) /\ Aligned(start')
       /\ \A d \in Ctx : pc[d] = "scrollLoad" /\ op[d] = "up" => start' > Origin
  BY <1>6, Scrolling
<1>13. StartBound'
  BY <1>4, <1>5, <1>9, <1>10, <1>11, <1>12, WalkStart
<1>14. CursorBound'
  BY <1>4, <1>5, <1>6, WalkKeepsCursor
<1>15. QED
  BY <1>13, <1>14, <1>2, <1>4, <1>5, <1>6, <1>7, <1>8, WalkInv

LEMMA ScrollStoreInv == ASSUME IInv, NEW c \in Ctx, ScrollStore(c) PROVE IInv'
<1> DEFINE n == Len(stack)
           r == reg[c]
<1>1. /\ Does(c, "scrollStore") /\ Goto(c, "showStart")
      /\ UNCHANGED <<cursor, screenVars, histVars>>
      /\ start' = IF op[c] = "up" THEN r - Width ELSE r + Width
  BY DEF ScrollStore
<1>2. /\ pc[c] = "scrollStore" /\ StartOf(c) /\ n \in 1..Depth /\ stack[n] = c
      /\ ~overlapped => AloneOf(c) /\ cursor <= End - 1
      /\ last # "none" => SingleOf(c)
      /\ cursor \in Nat /\ r \in Nat /\ inked \in Nat /\ hwCursor \in Nat /\ hwStart \in Nat
  BY <1>1, Running
<1>3. TypeOK /\ n \in Nat /\ n \in 1..n
  BY <1>2 DEF IInv, TypeOK
<1>4. KindAt("showStart", op[c]) /\ "scrollStore" \in Points \ {"idle"} /\ "showStart" \in Points \ {"idle"}
  BY DEF KindAt, Points
<1>5. Walks(c, "scrollStore", "showStart") /\ pc'[c] = "showStart" /\ op' = op /\ stack' = stack
  BY <1>1, <1>3, <1>4, GotoWalks
<1>6. cursor' = cursor /\ inked' = inked /\ hwCursor' = hwCursor /\ hwStart' = hwStart
  BY <1>1 DEF screenVars
<1>7. ~overlapped => AloneOf(c)'
  BY <1>2, <1>5, <1>6 DEF AloneOf, HasTested
<1>8. last # "none" => SingleOf(c)'
  BY <1>1, <1>2, <1>5 DEF SingleOf, histVars
<1>9. StartOf(c)'
  BY <1>5 DEF StartOf
<1>10. StartAt(n)'
  <2>1. n' = n /\ pc'[stack'[n]] = "showStart"
    BY <1>2, <1>5
  <2>2. QED
    BY <2>1 DEF StartAt
<1>11. /\ r \in Origin..StartReach(1) /\ Aligned(r) /\ (op[c] = "up" => r > Origin) /\ StartReach(1) \in Int
  BY <1>2, Reaches DEF StartOf
<1>12. CASE op[c] = "up"
  <2>1. start' = r - Width /\ start' \in Nat /\ start' >= Origin /\ start' <= r /\ Aligned(start')
    <3>1. Aligned(r - Width) /\ r - Width >= Origin
      BY <1>2, <1>11, <1>12, Aligning
    <3>2. start' = r - Width
      BY <1>1, <1>12
    <3>3. QED
      BY <3>1, <3>2, <1>2, Constants
  <2>2. start' \in Origin..StartReach(1)
    BY <2>1, <1>2, <1>11, Constants
  <2>3. \A d \in Ctx : d # c => ~(pc[d] = "scrollLoad" /\ op[d] = "up") /\ pc[d] # "homeLoad"
    <3>1. c = "keyboard"
      BY <1>12, KeyboardOnly DEF Prints
    <3>2. QED
      BY <3>1, KeyboardOnly DEF Prints
  <2>4. ASSUME NEW p \in 1..n-1
        PROVE  /\ pc[stack[p]] \in {"scrollLoad", "scrollStore"} /\ op[stack[p]] # "up" =>
                    start' <= StartReach(p + 1)
               /\ pc[stack[p]] = "homeLoad" => start' <= StartReach(p + 1)
    <3>1. p \in 1..n /\ n \in p..n /\ p + 1 \in Nat /\ StartReach(p + 1) \in Int /\ p # n
      <4>1. p \in 1..n /\ n \in p..n /\ p + 1 \in Nat /\ p # n
        BY <1>3
      <4>2. QED
        BY <4>1, Reaches
    <3>2. stack[p] \in Ctx /\ stack[p] # c
      <4>1. stack \in Seq(Ctx) /\ Distinct
        BY <1>3 DEF TypeOK, IInv
      <4>2. stack[p] \in Ctx
        BY <3>1, <4>1
      <4>3. stack[p] # stack[n]
        BY <3>1, <4>1 DEF Distinct
      <4>4. QED
        BY <4>2, <4>3, <1>2
    <3>3. pc[stack[p]] \in {"scrollLoad", "scrollStore"} /\ op[stack[p]] # "up" => r <= StartReach(p + 1)
      BY <3>1, <1>2, Scrolling
    <3>4. QED
      BY <3>1, <3>2, <3>3, <2>1, <2>3, <1>2, Constants
  <2>5. StartBound'
    BY <2>1, <2>2, <2>3, <2>4, <1>4, <1>5, <1>9, <1>10, WalkStart
  <2>6. CursorBound'
    BY <1>4, <1>5, <1>6, WalkKeepsCursor
  <2>7. QED
    BY <2>1, <2>5, <2>6, <1>1, <1>2, <1>4, <1>5, <1>6, <1>7, <1>8, WalkInv
<1>13. CASE op[c] # "up"
  <2>1. start' = r + Width /\ start' \in Nat /\ start' > Origin /\ Aligned(start')
    <3>1. Aligned(r + Width) /\ r >= Origin
      BY <1>2, <1>11, Aligning
    <3>2. start' = r + Width
      BY <1>1, <1>13
    <3>3. QED
      BY <3>1, <3>2, <1>2, Constants
  <2>2. start' <= StartReach(n) /\ StartReach(n) \in Int /\ StartReach(n) <= StartReach(1)
    <3>1. n \in n..n
      BY <1>3
    <3>2. r <= StartReach(n + 1)
      BY <3>1, <1>2, <1>3, <1>13, Scrolling
    <3>3. /\ StartReach(n) = StartReach(n + 1) + Width /\ StartReach(n) \in Int
          /\ StartReach(n) <= StartReach(1)
      <4>1. 1 <= n
        BY <1>2, Constants
      <4>2. QED
        BY <4>1, <1>3, Reaches
    <3>4. StartReach(n + 1) \in Int
      BY <1>3, Reaches
    <3>5. QED
      BY <3>2, <3>3, <3>4, <2>1, <1>2, Constants
  <2>3. start' \in Origin..StartReach(1)
    BY <2>1, <2>2, <1>11, Constants
  <2>4. ASSUME NEW p \in 1..n-1 PROVE start' <= StartReach(p + 1)
    <3>1. p + 1 \in Nat /\ p + 1 <= n
      BY <1>3
    <3>2. StartReach(n) <= StartReach(p + 1) /\ StartReach(p + 1) \in Int
      BY <3>1, <1>3, Reaches
    <3>3. QED
      BY <3>2, <2>1, <2>2
  <2>5. StartBound'
    BY <2>1, <2>3, <2>4, <1>4, <1>5, <1>9, <1>10, WalkStart
  <2>6. CursorBound'
    BY <1>4, <1>5, <1>6, WalkKeepsCursor
  <2>7. QED
    BY <2>1, <2>5, <2>6, <1>1, <1>2, <1>4, <1>5, <1>6, <1>7, <1>8, WalkInv
<1>14. QED
  BY <1>12, <1>13

LEMMA HomeStartInv == ASSUME IInv, NEW c \in Ctx, HomeStart(c) PROVE IInv'
<1> DEFINE n == Len(stack)
<1>1. /\ Does(c, "homeStart") /\ Goto(c, "homeLoad") /\ start' = Origin
      /\ UNCHANGED <<cursor, screenVars, histVars>>
  BY DEF HomeStart
<1>2. /\ pc[c] = "homeStart" /\ op[c] = "clear" /\ n \in 1..Depth /\ stack[n] = c
      /\ ~overlapped => AloneOf(c) /\ cursor <= End - 1
      /\ last # "none" => SingleOf(c)
      /\ cursor \in Nat /\ inked \in Nat /\ hwCursor \in Nat /\ hwStart \in Nat
  BY <1>1, Running DEF KindAt
<1>3. TypeOK /\ n \in Nat
  BY DEF IInv, TypeOK
<1>4. KindAt("homeLoad", op[c]) /\ "homeStart" \in Points \ {"idle"} /\ "homeLoad" \in Points \ {"idle"}
  BY <1>2 DEF KindAt, Points
<1>5. Walks(c, "homeStart", "homeLoad") /\ pc'[c] = "homeLoad" /\ op' = op /\ stack' = stack
  BY <1>1, <1>3, <1>4, GotoWalks
<1>6. cursor' = cursor /\ inked' = inked /\ hwCursor' = hwCursor /\ hwStart' = hwStart
  BY <1>1 DEF screenVars
<1>7. ~overlapped => AloneOf(c)'
  BY <1>1, <1>2, <1>5, <1>6 DEF AloneOf, HasTested
<1>8. last # "none" => SingleOf(c)'
  BY <1>1, <1>2, <1>5 DEF SingleOf, histVars
<1>9. \A p \in 1..n : Origin <= StartReach(p + 1)
  <2>1. \A p \in 1..n : p \in Nat /\ p <= Depth
    BY <1>2, <1>3, Constants
  <2>2. QED
    BY <2>1, Reaches
<1>10. StartOf(c)'
  BY <1>5 DEF StartOf
<1>11. StartAt(n)'
  <2>1. n' = n /\ pc'[stack'[n]] = "homeLoad" /\ n \in 1..n
    BY <1>2, <1>3, <1>5, Constants
  <2>2. pc'[stack'[n]] = "homeLoad" => start' <= StartReach(n + 1)
    BY <2>1, <1>1, <1>9
  <2>3. QED
    BY <2>1, <2>2 DEF StartAt
<1>12. start' \in Origin..StartReach(1) /\ Aligned(start')
  <2>1. StartReach(1) \in Int /\ Origin <= StartReach(1)
    <3>1. StartReach(1) = StartReach(1 + 1) + Width /\ StartReach(1 + 1) >= Origin
          /\ StartReach(1) \in Int /\ StartReach(1 + 1) \in Int
      BY Constants, Reaches
    <3>2. QED
      BY <3>1, Constants
  <2>2. Origin = Origin + Width * 0
    BY Constants
  <2>3. QED
    BY <2>1, <2>2, <1>1, Constants DEF Aligned
<1>13. \A d \in Ctx : d # c => ~(pc[d] = "scrollLoad" /\ op[d] = "up")
  <2>1. c = "keyboard"
    BY <1>2, KeyboardOnly
  <2>2. QED
    BY <2>1, KeyboardOnly DEF Prints
<1>14. \A p \in 1..n-1 : start' <= StartReach(p + 1)
  <2>1. \A p \in 1..n-1 : p \in 1..n
    BY <1>3
  <2>2. QED
    BY <2>1, <1>1, <1>9
<1>15. StartBound'
  BY <1>4, <1>5, <1>10, <1>11, <1>12, <1>13, <1>14, WalkStart
<1>16. CursorBound'
  BY <1>4, <1>5, <1>6, WalkKeepsCursor
<1>17. start' \in Nat
  BY <1>1, Constants
<1>18. QED
  BY <1>15, <1>16, <1>17, <1>1, <1>2, <1>4, <1>5, <1>6, <1>7, <1>8, WalkInv

LEMMA HomeLoadInv == ASSUME IInv, NEW c \in Ctx, HomeLoad(c) PROVE IInv'
<1> DEFINE n == Len(stack)
<1>1. Does(c, "homeLoad") /\ Load(c, "homeLoad", start, "homeCursor")
  BY DEF HomeLoad, Load
<1>2. /\ pc[c] = "homeLoad" /\ op[c] = "clear" /\ n \in 1..Depth /\ stack[n] = c
      /\ ~overlapped => AloneOf(c) /\ cursor <= End - 1
      /\ last # "none" => SingleOf(c)
      /\ cursor \in Nat /\ start \in Nat /\ inked \in Nat /\ hwCursor \in Nat /\ hwStart \in Nat
  BY <1>1, Running DEF KindAt
<1>3. TypeOK /\ n \in Nat
  BY DEF IInv, TypeOK
<1>4. KindAt("homeCursor", op[c]) /\ "homeLoad" \in Points \ {"idle"} /\ "homeCursor" \in Points \ {"idle"}
  BY <1>2 DEF KindAt, Points
<1>5. /\ Walks(c, "homeLoad", "homeCursor") /\ pc'[c] = "homeCursor" /\ op' = op
      /\ stack' = stack /\ reg'[c] = start
      /\ UNCHANGED <<consoleVars, screenVars, histVars>>
  <2>1. start \in Nat /\ "homeCursor" \in Points \ {"idle"}
    BY <1>2, <1>4
  <2>2. QED
    BY <2>1, <1>1, <1>3, LoadWalks
<1>6. cursor' = cursor /\ start' = start /\ inked' = inked /\ hwCursor' = hwCursor /\ hwStart' = hwStart
  BY <1>5 DEF consoleVars, screenVars
<1>7. ~overlapped => AloneOf(c)'
  BY <1>2, <1>5, <1>6 DEF AloneOf, HasTested
<1>8. last # "none" => SingleOf(c)'
  BY <1>2, <1>5 DEF SingleOf, histVars
<1>9. StartOf(c)'
  <2>1. reg'[c] >= Origin
    BY <1>5, Scrolling
  <2>2. QED
    BY <2>1, <1>5 DEF StartOf
<1>10. StartAt(n)'
  <2>1. n \in 1..n
    BY <1>2, <1>3, Constants
  <2>2. start <= StartReach(n + 1)
    BY <2>1, <1>2, Scrolling
  <2>3. n' = n /\ pc'[stack'[n]] = "homeCursor" /\ reg'[stack'[n]] <= StartReach(n + 1)
    BY <2>2, <1>2, <1>5
  <2>4. QED
    BY <2>3 DEF StartAt
<1>11. ASSUME NEW p \in 1..n-1
       PROVE  /\ pc[stack[p]] \in {"scrollLoad", "scrollStore"} /\ op[stack[p]] # "up" =>
                   start' <= StartReach(p + 1)
              /\ pc[stack[p]] = "homeLoad" => start' <= StartReach(p + 1)
  <2>1. p \in 1..n
    BY <1>3
  <2>2. QED
    BY <2>1, <1>6, Scrolling
<1>12. /\ start' \in Origin..StartReach(1) /\ Aligned(start')
       /\ \A d \in Ctx : pc[d] = "scrollLoad" /\ op[d] = "up" => start' > Origin
  BY <1>6, Scrolling
<1>13. StartBound'
  BY <1>4, <1>5, <1>9, <1>10, <1>11, <1>12, WalkStart
<1>14. CursorBound'
  BY <1>4, <1>5, <1>6, WalkKeepsCursor
<1>15. QED
  BY <1>13, <1>14, <1>2, <1>4, <1>5, <1>6, <1>7, <1>8, WalkInv

LEMMA HomeCursorInv == ASSUME IInv, NEW c \in Ctx, HomeCursor(c) PROVE IInv'
<1> DEFINE n == Len(stack)
           r == reg[c]
<1>1. /\ Does(c, "homeCursor") /\ Goto(c, "showStart") /\ cursor' = r /\ inked' = Origin
      /\ UNCHANGED <<start, hwCursor, hwStart, histVars>>
  BY DEF HomeCursor, Ink
<1>2. /\ pc[c] = "homeCursor" /\ op[c] = "clear" /\ n \in 1..Depth /\ stack[n] = c
      /\ StartOf(c) /\ StartAt(n) /\ CursorOf(c)
      /\ ~overlapped => AloneOf(c)
      /\ last # "none" => SingleOf(c)
      /\ cursor \in Nat /\ start \in Nat /\ r \in Nat /\ hwCursor \in Nat /\ hwStart \in Nat
  BY <1>1, Running DEF KindAt
<1>3. TypeOK /\ n \in Nat
  BY DEF IInv, TypeOK
<1>4. KindAt("showStart", op[c]) /\ "homeCursor" \in Points \ {"idle"} /\ "showStart" \in Points \ {"idle"}
  BY <1>2 DEF KindAt, Points
<1>5. Walks(c, "homeCursor", "showStart") /\ pc'[c] = "showStart" /\ op' = op /\ stack' = stack /\ aim' = aim
  BY <1>1, <1>3, <1>4, GotoWalks
<1>6. ~overlapped => AloneOf(c)' /\ cursor' <= End - 1
  <2>1. ~overlapped => r = Origin
    BY <1>2 DEF AloneOf
  <2>2. QED
    BY <2>1, <1>1, <1>2, <1>5, Constants DEF AloneOf, HasTested
<1>7. last # "none" => SingleOf(c)'
  BY <1>1, <1>2, <1>5 DEF SingleOf, histVars
<1>8. r >= Origin /\ r <= CursorReach(n) - Screen /\ CursorReach(n) \in Int
  <2>1. r <= StartReach(n + 1)
    BY <1>2 DEF StartAt
  <2>2. StartReach(n + 1) = CursorReach(n) - Screen /\ CursorReach(n) \in Int
    BY <1>3, Reaches
  <2>3. QED
    BY <2>1, <2>2, <1>2 DEF StartOf
<1>9. cursor' \in Origin..CursorReach(1)
  <2>1. 1 <= n
    BY <1>2, Constants
  <2>2. CursorReach(n) <= CursorReach(1) /\ CursorReach(1) \in Int
    BY <2>1, <1>3, Reaches
  <2>3. QED
    BY <2>2, <1>1, <1>2, <1>8, Constants
<1>10. CursorOf(c)'
  BY <1>2, <1>5 DEF CursorOf, HasTested
<1>11. CursorAt(n)'
  <2>1. n' = n /\ pc'[stack'[n]] = "showStart"
    BY <1>2, <1>5
  <2>2. QED
    BY <2>1 DEF CursorAt, HasTested
<1>12. \A d \in Ctx : d # c => op[d] # "backspace"
  <2>1. c = "keyboard"
    BY <1>2, KeyboardOnly
  <2>2. QED
    BY <2>1, KeyboardOnly DEF Prints
<1>13. ASSUME NEW p \in 1..n-1, op[stack[p]] \in Prints
       PROVE  cursor' + Gain(op[stack[p]]) <= CursorReach(p)
  <2>1. p \in Nat /\ p + 1 \in Nat /\ p + 1 <= n
    BY <1>3
  <2>2. /\ CursorReach(n) <= CursorReach(p + 1) /\ CursorReach(p) = CursorReach(p + 1) + Width
        /\ CursorReach(p) \in Int /\ CursorReach(p + 1) \in Int
    BY <2>1, <1>3, Reaches
  <2>3. Gain(op[stack[p]]) \in Nat /\ Gain(op[stack[p]]) <= Width
    BY Constants DEF Gain
  <2>4. QED
    BY <2>2, <2>3, <1>1, <1>2, <1>8, Constants
<1>14. CursorBound'
  BY <1>4, <1>5, <1>9, <1>10, <1>11, <1>12, <1>13, WalkCursor
<1>15. StartBound'
  BY <1>1, <1>4, <1>5, WalkKeepsStart
<1>16. cursor' \in Nat /\ inked' \in Nat /\ UNCHANGED histVars
  BY <1>1, <1>2, Constants
<1>17. QED
  BY <1>14, <1>15, <1>16, <1>1, <1>2, <1>4, <1>5, <1>6, <1>7, WalkInv

-----------------------------------------------------------------------------
(* An operation begins.                                                    *)

LEMMA BeginInv ==
  ASSUME IInv, NEW c \in Ctx, NEW o \in Ops, c # "keyboard" => o \in Prints, Begin(c, o)
  PROVE  IInv'
<1> DEFINE n == Len(stack)
           first == IF o \in Writes THEN "room" ELSE IF o = "clear" THEN "wipe" ELSE "scroll"
<1>1. TypeOK /\ Distinct /\ Kinds /\ CursorBound /\ StartBound /\ Alone /\ Single
  BY DEF IInv
<1>2. /\ pc[c] = "idle" /\ stack' = Append(stack, c) /\ op' = [op EXCEPT ![c] = o]
      /\ aim' = aim \/ aim' = [aim EXCEPT ![c] = cursor]
      /\ o \in Writes => aim' = [aim EXCEPT ![c] = cursor]
      /\ pc' = [pc EXCEPT ![c] = first]
      /\ last' = (IF stack = <<>> THEN o ELSE "none")
      /\ overlapped' = (overlapped \/ stack # <<>>)
      /\ cursor' = cursor /\ start' = start /\ hwCursor' = hwCursor /\ hwStart' = hwStart
      /\ reg' = reg
      /\ inked' \in {Origin, inked} /\ (~overlapped' => inked' = inked)
  BY DEF Begin, consoleVars
<1>3. first \in {"room", "wipe", "scroll"} /\ first \in Points /\ KindAt(first, o)
  BY DEF Points, KindAt, Ops, Writes, Prints
<1> HIDE DEF first
<1>4. /\ n \in Nat /\ stack' \in Seq(Ctx) /\ Len(stack') = n + 1 /\ stack'[n+1] = c
      /\ \A p \in 1..n : stack'[p] = stack[p] /\ stack[p] \in Ctx
      /\ \A p \in 1..n+1 : p \in 1..n \/ p = n + 1
      /\ 1..n+1 = 1..Len(stack')
  BY <1>1, <1>2 DEF TypeOK
<1>5. \A p \in 1..n : stack[p] # c
  BY <1>1, <1>2 DEF TypeOK, Contains
<1>6. /\ pc' \in [Ctx -> Points] /\ op' \in [Ctx -> Ops] /\ aim' \in [Ctx -> Nat]
      /\ reg' \in [Ctx -> Nat]
  BY <1>1, <1>2, <1>3 DEF TypeOK
<1>7. /\ pc'[c] = first /\ op'[c] = o /\ (o \in Writes => aim'[c] = cursor)
      /\ aim'[c] \in {aim[c], cursor}
      /\ \A d \in Ctx : d # c => pc'[d] = pc[d] /\ op'[d] = op[d] /\ aim'[d] = aim[d]
  BY <1>1, <1>2 DEF TypeOK
<1>8. Distinct'
  <2> SUFFICES ASSUME NEW p \in 1..n+1, NEW q \in 1..n+1, stack'[p] = stack'[q] PROVE p = q
    BY <1>4 DEF Distinct
  <2>1. CASE p \in 1..n /\ q \in 1..n
    BY <2>1, <1>1, <1>4 DEF Distinct
  <2>2. QED
    BY <2>1, <1>4, <1>5
<1>9. ASSUME NEW d \in Ctx PROVE pc'[d] = "idle" <=> ~ Contains(stack', d)
  <2>1. CASE d = c
    <3>1. n + 1 \in 1..n+1
      BY <1>4
    <3>2. QED
      BY <3>1, <2>1, <1>3, <1>4, <1>7 DEF Contains
  <2>2. CASE d # c
    <3>1. (\E p \in 1..Len(stack') : stack'[p] = d) <=> \E p \in 1..n : stack[p] = d
      <4>1. \A p \in 1..n : p \in 1..n+1
        BY <1>4
      <4>2. QED
        BY <4>1, <2>2, <1>4
    <3>2. QED
      BY <3>1, <2>2, <1>1, <1>7 DEF TypeOK, Contains
  <2>3. QED
    BY <2>1, <2>2
<1>10. TypeOK'
  <2>1. cursor' \in Nat /\ hwCursor' \in Nat /\ start' \in Nat /\ hwStart' \in Nat /\ inked' \in Nat
    BY <1>1, <1>2, Constants DEF TypeOK
  <2>2. last' \in Ops \union {"none"}
    BY <1>2
  <2>3. overlapped' \in BOOLEAN
    BY <1>2
  <2>4. QED
    BY <2>1, <2>2, <2>3, <1>4, <1>6, <1>9 DEF TypeOK
<1>11. Kinds'
  <2> SUFFICES ASSUME NEW d \in Ctx
               PROVE  (d # "keyboard" => op'[d] \in Prints) /\ KindAt(pc'[d], op'[d])
    BY DEF Kinds, KindAt
  <2>1. CASE d = c
    BY <2>1, <1>3, <1>7
  <2>2. CASE d # c
    BY <2>2, <1>1, <1>7 DEF Kinds
  <2>3. QED
    BY <2>1, <2>2
<1>12. CursorBound'
  <2>1. cursor' \in Origin..CursorReach(1)
    BY <1>1, <1>2 DEF CursorBound
  <2>2. ASSUME NEW d \in Ctx PROVE CursorOf(d)'
    <3>1. CursorOf(d) /\ cursor \in Origin..CursorReach(1)
      BY <1>1 DEF CursorBound
    <3>2. aim'[d] \in Origin..CursorReach(1)
      BY <3>1, <1>7 DEF CursorOf
    <3>3. pc'[d] \in {"store", "load", "move"} => pc'[d] = pc[d] /\ op'[d] = op[d] /\ reg'[d] = reg[d]
      BY <1>2, <1>3, <1>7
    <3>4. QED
      BY <3>1, <3>2, <3>3, <1>2 DEF CursorOf, HasTested
  <2>3. ASSUME NEW p \in 1..n+1 PROVE CursorAt(p)'
    <3> SUFFICES ASSUME pc'[stack'[p]] \in {"store", "load", "move"}, op'[stack'[p]] \in Prints
                 PROVE  /\ cursor' + Gain(op'[stack'[p]]) <= CursorReach(p)
                        /\ \A q \in p..Len(stack') : pc'[stack'[q]] = "move" =>
                             reg'[stack'[q]] + Gain(op'[stack'[p]]) <= CursorReach(p)
      BY DEF CursorAt, HasTested
    <3>1. p \in 1..n
      BY <1>3, <1>4, <1>7
    <3>2. /\ stack'[p] = stack[p] /\ stack[p] \in Ctx /\ stack[p] # c
          /\ pc'[stack[p]] = pc[stack[p]] /\ op'[stack[p]] = op[stack[p]]
      BY <3>1, <1>4, <1>5, <1>7
    <3>3. \A q \in p..n+1 : q = n + 1 \/ (q \in p..n /\ q \in 1..n)
      BY <3>1, <1>4
    <3>4. \A q \in p..Len(stack') : pc'[stack'[q]] = "move" =>
            /\ q \in p..n /\ pc[stack[q]] = "move" /\ reg'[stack'[q]] = reg[stack[q]]
      BY <3>3, <1>2, <1>3, <1>4, <1>5, <1>7
    <3>5. CursorAt(p)
      BY <3>1, <1>1 DEF CursorBound
    <3>6. QED
      BY <3>2, <3>4, <3>5, <1>2 DEF CursorAt, HasTested
  <2>4. QED
    BY <2>1, <2>2, <2>3, <1>4 DEF CursorBound
<1>13. StartBound'
  <2>1. start' \in Origin..StartReach(1) /\ Aligned(start')
    BY <1>1, <1>2 DEF StartBound
  <2>2. \A d \in Ctx : pc'[d] \in {"scrollLoad", "scrollStore", "homeLoad", "homeCursor"} =>
          pc'[d] = pc[d] /\ op'[d] = op[d] /\ reg'[d] = reg[d]
    BY <1>2, <1>3, <1>7
  <2>3. ASSUME NEW d \in Ctx PROVE StartOf(d)'
    <3>1. StartOf(d)
      BY <1>1 DEF StartBound
    <3>2. /\ pc'[d] = "scrollStore" => /\ reg'[d] \in Origin..StartReach(1) /\ Aligned(reg'[d])
                                       /\ op'[d] = "up" => reg'[d] > Origin
          /\ pc'[d] = "scrollLoad" /\ op'[d] = "up" => start' > Origin
          /\ pc'[d] = "homeCursor" => reg'[d] >= Origin
      BY <3>1, <2>2, <1>2 DEF StartOf
    <3>3. QED
      BY <3>2 DEF StartOf
  <2>4. ASSUME NEW p \in 1..n+1 PROVE StartAt(p)'
    <3>1. CASE p \in 1..n
      <4>1. stack'[p] = stack[p] /\ stack[p] \in Ctx
        BY <3>1, <1>4
      <4>2. \A q \in p..n+1 : q = n + 1 \/ (q \in p..n /\ q \in 1..n)
        BY <3>1, <1>4
      <4>3. \A q \in p..Len(stack') : pc'[stack'[q]] = "scrollStore" =>
              /\ q \in p..n /\ pc[stack[q]] = "scrollStore" /\ reg'[stack'[q]] = reg[stack[q]]
        BY <4>2, <1>2, <1>3, <1>4, <1>5, <1>7
      <4>4. StartAt(p)
        BY <3>1, <1>1 DEF StartBound
      <4>5. /\ pc'[stack'[p]] \in {"scrollLoad", "scrollStore"} /\ op'[stack'[p]] # "up" =>
                 /\ start' <= StartReach(p + 1)
                 /\ \A q \in p..Len(stack') :
                      pc'[stack'[q]] = "scrollStore" => reg'[stack'[q]] <= StartReach(p + 1)
            /\ pc'[stack'[p]] = "homeLoad" => start' <= StartReach(p + 1)
            /\ pc'[stack'[p]] = "homeCursor" => reg'[stack'[p]] <= StartReach(p + 1)
        BY <4>1, <4>3, <4>4, <2>2, <1>2 DEF StartAt
      <4>6. QED
        BY <4>5 DEF StartAt
    <3>2. CASE p = n + 1
      <4>1. pc'[stack'[p]] \in {"room", "wipe", "scroll"}
        BY <3>2, <1>3, <1>4, <1>7
      <4>2. QED
        BY <4>1 DEF StartAt
    <3>3. QED
      BY <3>1, <3>2, <1>4
  <2>5. QED
    BY <2>1, <2>3, <2>4, <1>4 DEF StartBound
<1>14. stack = <<>> => \A d \in Ctx : d # c => pc'[d] = "idle"
  BY <1>1, <1>7 DEF TypeOK, Contains
<1>15. stack = <<>> => n = 0 /\ Len(stack') <= 1
  BY <1>4
<1>16. stack' # <<>>
  BY <1>4
<1>17. Alone'
  <2> SUFFICES ASSUME ~overlapped'
               PROVE  /\ Len(stack') <= 1 /\ cursor' <= End - 1
                      /\ stack' = <<>> => inked' <= cursor'
                      /\ \A d \in Ctx : AloneOf(d)'
    BY DEF Alone, End
  <2>1. ~overlapped /\ stack = <<>>
    BY <1>2
  <2>2. cursor' <= End - 1 /\ inked' <= cursor'
    BY <2>1, <1>1, <1>2 DEF Alone
  <2>3. ASSUME NEW d \in Ctx PROVE AloneOf(d)'
    <3>1. CASE d = c
      <4>1. pc'[c] = "room" => aim'[c] = cursor'
        BY <1>2, <1>7 DEF first
      <4>2. pc'[c] \in {"room", "wipe", "scroll"}
        BY <1>3, <1>7
      <4>3. QED
        BY <4>1, <4>2, <3>1, <2>2 DEF AloneOf, HasTested
    <3>2. CASE d # c
      <4>1. pc'[d] = "idle"
        BY <3>2, <2>1, <1>14
      <4>2. QED
        BY <4>1 DEF AloneOf, HasTested
    <3>3. QED
      BY <3>1, <3>2
  <2>4. QED
    BY <2>1, <2>2, <2>3, <1>15
<1>18. Single'
  <2> SUFFICES ASSUME last' # "none"
               PROVE  /\ Len(stack') <= 1
                      /\ stack' = <<>> => Settled'
                      /\ \A d \in Ctx : SingleOf(d)'
    BY DEF Single
  <2>1. stack = <<>> /\ last' = o
    BY <1>2
  <2>2. ASSUME NEW d \in Ctx PROVE SingleOf(d)'
    <3>1. CASE d = c
      BY <3>1, <2>1, <1>3, <1>7 DEF SingleOf
    <3>2. CASE d # c
      <4>1. pc'[d] = "idle"
        BY <3>2, <2>1, <1>14
      <4>2. QED
        BY <4>1 DEF SingleOf
    <3>3. QED
      BY <3>1, <3>2
  <2>3. QED
    BY <2>1, <2>2, <1>15, <1>16
<1>19. QED
  BY <1>8, <1>10, <1>11, <1>12, <1>13, <1>17, <1>18 DEF IInv

LEMMA InitInv == Init => IInv
<1> SUFFICES ASSUME Init PROVE IInv
  OBVIOUS
<1>1. /\ cursor = Origin /\ start = Origin /\ inked = Origin /\ stack = <<>> /\ last = "none"
      /\ overlapped = FALSE
      /\ pc = [c \in Ctx |-> "idle"] /\ op = [c \in Ctx |-> "char"]
      /\ aim = [c \in Ctx |-> Origin] /\ reg = [c \in Ctx |-> Origin]
  BY DEF Init
<1>2. Len(stack) = 0 /\ 1..Len(stack) = {} /\ stack \in Seq(Ctx)
  BY <1>1
<1>3. TypeOK
  <2>1. hwCursor \in Nat /\ hwStart \in Nat
    BY Constants DEF Init
  <2>2. \A c \in Ctx : pc[c] = "idle" <=> ~ Contains(stack, c)
    BY <1>1, <1>2 DEF Contains
  <2>3. pc \in [Ctx -> Points] /\ op \in [Ctx -> Ops] /\ last \in Ops \union {"none"}
    BY <1>1 DEF Points, Ops, Writes, Prints
  <2>4. aim \in [Ctx -> Nat] /\ reg \in [Ctx -> Nat]
    BY <1>1, Constants
  <2>5. overlapped \in BOOLEAN
    BY <1>1
  <2>6. QED
    BY <2>1, <2>2, <2>3, <2>4, <2>5, <1>1, <1>2, Constants DEF TypeOK
<1>4. Distinct
  BY <1>2 DEF Distinct
<1>5. Kinds
  BY <1>1 DEF Kinds, KindAt, Prints
<1>6. /\ CursorReach(1) \in Int /\ StartReach(1) \in Int
      /\ CursorReach(1) >= End - 1 /\ StartReach(1) >= Origin
  <2>1. /\ CursorReach(1) \in Int /\ CursorReach(1) >= End - 1
        /\ StartReach(1) \in Int /\ StartReach(1) = StartReach(1 + 1) + Width
        /\ StartReach(1 + 1) >= Origin /\ StartReach(1 + 1) \in Int
    BY Constants, Reaches
  <2>2. QED
    BY <2>1, Constants
<1>7. CursorBound
  <2>1. Origin \in Origin..CursorReach(1)
    BY <1>6, Constants
  <2>2. QED
    BY <2>1, <1>1, <1>2 DEF CursorBound, CursorOf, HasTested
<1>8. StartBound
  <2>1. Origin \in Origin..StartReach(1)
    BY <1>6, Constants
  <2>2. Aligned(Origin)
    <3>1. Origin = Origin + Width * 0
      BY Constants
    <3>2. QED
      BY <3>1 DEF Aligned
  <2>3. QED
    BY <2>1, <2>2, <1>1, <1>2 DEF StartBound, StartOf
<1>9. Alone
  <2>1. Origin <= End - 1
    BY Constants
  <2>2. \A c \in Ctx : AloneOf(c)
    BY <1>1 DEF AloneOf, HasTested
  <2>3. QED
    BY <2>1, <2>2, <1>1, <1>2, Constants DEF Alone
<1>10. Single
  BY <1>1 DEF Single
<1>11. QED
  BY <1>3, <1>4, <1>5, <1>7, <1>8, <1>9, <1>10 DEF IInv

-----------------------------------------------------------------------------
(* Every step.                                                             *)

LEMMA WorkInv == IInv /\ Work => IInv'
<1> SUFFICES ASSUME IInv, NEW c \in Ctx,
                    OutChar(c) \/ Flush(c) \/ Show(c) \/ Scroll(c) \/ Clear(c)
             PROVE  IInv'
  BY DEF Work
<1>1. CASE OutChar(c)
  BY <1>1, TestRoomInv, StoreInv, LoadCursorInv, MoveInv, EraseInv, LoopLoadInv, LoopTestInv
     DEF OutChar
<1>2. CASE Flush(c)
  BY <1>2, FlushCursorInv, FlushSetCursorInv, FlushStartInv, FlushSetStartInv DEF Flush
<1>3. CASE Show(c)
  BY <1>3, ShowStartInv, ShowSetStartInv, ShowCursorInv, ShowSetCursorInv DEF Show
<1>4. CASE Scroll(c)
  BY <1>4, ScrollTestInv, ScrollLoadInv, ScrollStoreInv DEF Scroll
<1>5. CASE Clear(c)
  BY <1>5, WipeInv, HomeStartInv, HomeLoadInv, HomeCursorInv DEF Clear
<1>6. QED
  BY <1>1, <1>2, <1>3, <1>4, <1>5

LEMMA NextInv == IInv /\ [Next]_vars => IInv'
<1> SUFFICES ASSUME IInv, [Next]_vars PROVE IInv'
  OBVIOUS
<1>1. ASSUME NEW c \in Printers, NEW o \in Prints, Begin(c, o) PROVE IInv'
  <2>1. c \in Ctx /\ o \in Ops
    BY DEF Ctx, Ops, Writes
  <2>2. QED
    BY <2>1, <1>1, BeginInv
<1>2. ASSUME NEW o \in Ops, Begin("keyboard", o) PROVE IInv'
  <2>1. "keyboard" \in Ctx
    BY Constants
  <2>2. QED
    BY <2>1, <1>2, BeginInv
<1>3. CASE Work
  BY <1>3, WorkInv
<1>4. CASE UNCHANGED vars
  <2>1. /\ cursor' = cursor /\ start' = start /\ hwCursor' = hwCursor /\ hwStart' = hwStart
        /\ inked' = inked /\ stack' = stack /\ pc' = pc /\ op' = op /\ aim' = aim /\ reg' = reg
        /\ last' = last /\ overlapped' = overlapped
    BY <1>4 DEF vars, consoleVars, screenVars, ctxVars, histVars
  <2>2. TypeOK' /\ Distinct' /\ Kinds'
    BY <2>1 DEF IInv, TypeOK, Distinct, Kinds, KindAt
  <2>3. CursorBound'
    BY <2>1 DEF IInv, CursorBound, CursorOf, CursorAt, HasTested
  <2>4. StartBound'
    BY <2>1 DEF IInv, StartBound, StartOf, StartAt
  <2>5. Alone'
    BY <2>1 DEF IInv, Alone, AloneOf, HasTested, HasRoom
  <2>6. Single'
    BY <2>1 DEF IInv, Single, SingleOf, Settled
  <2>7. QED
    BY <2>2, <2>3, <2>4, <2>5, <2>6 DEF IInv
<1>5. QED
  BY <1>1, <1>2, <1>3, <1>4 DEF Next

LEMMA Invariance == Spec => []IInv
<1>1. Init => IInv
  BY InitInv
<1>2. IInv /\ [Next]_vars => IInv'
  BY NextInv
<1>3. QED
  BY <1>1, <1>2, PTL DEF Spec

-----------------------------------------------------------------------------
(* What the invariant says of the console.                                 *)

\* However many operations begin inside each other, the cursor passes the end of
\* the console by at most a line for each further context, and what
\* console_out_char stores or erases lies no further; alone, it stays inside.
THEOREM CursorBounded == Spec => []OverrunBounded
<1>1. IInv => OverrunBounded
  <2> SUFFICES ASSUME IInv PROVE OverrunBounded
    OBVIOUS
  <2>1. TypeOK /\ CursorBound /\ Alone /\ Kinds
    BY DEF IInv
  <2>2. Highest = CursorReach(1) /\ CursorReach(1) \in Int
    BY Reaches DEF Highest, CursorReach, Depth
  <2>3. StoresInRegion
    <3> SUFFICES ASSUME ~overlapped, NEW c \in Ctx
                 PROVE  /\ pc[c] = "store" => aim[c] \in Region
                        /\ pc[c] = "erase" => aim[c] - 1 \in Region
      BY DEF StoresInRegion
    <3>1. AloneOf(c) /\ cursor <= End - 1 /\ cursor \in Nat /\ cursor >= Origin
      BY <2>1, <2>2, Constants DEF Alone, CursorBound, TypeOK
    <3>2. pc[c] = "store" => aim[c] = cursor
      BY <3>1 DEF AloneOf
    <3>3. pc[c] = "erase" => aim[c] = cursor + 1
      BY <3>1 DEF AloneOf
    <3>4. QED
      BY <3>1, <3>2, <3>3, Constants DEF Region
  <2>4. cursor \in Origin..Highest /\ \A c \in Ctx : aim[c] \in Origin..Highest
    BY <2>1, <2>2 DEF CursorBound, CursorOf
  <2>5. QED
    BY <2>1, <2>3, <2>4 DEF OverrunBounded
<1>2. QED
  BY <1>1, Invariance, PTL

\* As long as no operation has begun inside another, nothing is printed over the
\* text: the cursor stays behind its end.
THEOREM NothingOverprinted == Spec => []TextBeforeCursor
<1>1. IInv => TextBeforeCursor
  BY DEF IInv, Alone, TextBeforeCursor
<1>2. QED
  BY <1>1, Invariance, PTL

\* An operation of console_out_char, scroll_screen or clear_screen that nothing
\* interrupted ends with the CRT controller in agreement with the console,
\* whatever earlier races left in its registers.
THEOREM ControllerFollows == Spec => []RegistersFollow
<1>1. IInv => RegistersFollow
  BY DEF IInv, Single, Settled, RegistersFollow
<1>2. QED
  BY <1>1, Invariance, PTL

\* The loop of console_out_char scrolls until the cursor is on the screen: it is
\* there after every character that nothing interrupted.
THEOREM CursorOnScreen == Spec => []CursorNotBelowScreen
<1>1. IInv => CursorNotBelowScreen
  <2>1. "none" \notin Writes
    BY DEF Writes, Prints
  <2>2. QED
    BY <2>1 DEF IInv, Single, Settled, CursorNotBelowScreen
<1>2. QED
  BY <1>1, Invariance, PTL

-----------------------------------------------------------------------------
(* The keyboard: its invariant.                                             *)

\* After the bytes of s, is the modifier of code c set, if it was (set) before?
SetAfter(s, c, set) ==
  \/ \E i \in DOMAIN s : s[i] = c /\ \A j \in i+1..Len(s) : s[j] # c + 128
  \/ set /\ \A j \in DOMAIN s : s[j] # c + 128

\* Modifier m is set once the byte in the ring is decoded, and a key accounts for
\* it: for one whose break code was lost only that byte, if it is the make code.
SetNow(m) ==
  IF reading THEN decoded = Code[m] \/ (m \in modifiers \ swallowed /\ decoded # Code[m] + 128)
             ELSE m \in modifiers \ swallowed

\* Key k sets the modifier of code c when it is pressed, and clears it when it
\* is released.
Governs(k, c) ==
  /\ \E i \in DOMAIN ScanCodes[k].make : ScanCodes[k].make[i] = c
  /\ \E i \in DOMAIN ScanCodes[k].brk : ScanCodes[k].brk[i] = c + 128

Tracked ==
  \A m \in DOMAIN Code :
    SetAfter(wire, Code[m], SetNow(m)) => \E k \in held : Governs(k, Code[m])

\* What is echoed and stored.
Names == {"l", "L", "letter", "LETTER", "symbol", "shifted", "digit", "none", "function",
          "ENTER", "BACKSPACE", "GUI", "PAGEUP", "PAGEDOWN", "MOVE"}
           \cup PadKeys \cup Modifiers \cup Locks

Echoes == /\ stored \in Seq(Names) /\ echoed \in Seq(Names)
          /\ InputIsEchoPrefix

KeyInv == RingDrained /\ Tracked /\ Echoes

-----------------------------------------------------------------------------
(* Sequences.                                                              *)

LEMMA AppendFacts ==
  ASSUME NEW S, NEW s \in Seq(S), NEW e \in S
  PROVE  /\ Append(s, e) \in Seq(S) /\ Len(Append(s, e)) = Len(s) + 1
         /\ \A i \in 1..Len(s) : Append(s, e)[i] = s[i]
         /\ Append(s, e)[Len(s) + 1] = e
OBVIOUS

LEMMA ConcatFacts ==
  ASSUME NEW S, NEW s \in Seq(S), NEW t \in Seq(S)
  PROVE  /\ s \o t \in Seq(S) /\ Len(s \o t) = Len(s) + Len(t)
         /\ \A i \in 1..Len(s) : (s \o t)[i] = s[i]
         /\ \A i \in 1..Len(t) : (s \o t)[Len(s) + i] = t[i]
OBVIOUS

LEMMA HeadTailFacts ==
  ASSUME NEW S, NEW s \in Seq(S), s # <<>>
  PROVE  /\ Head(s) = s[1] /\ s[1] \in S /\ Len(s) \in Nat \ {0}
         /\ Tail(s) \in Seq(S) /\ Len(Tail(s)) = Len(s) - 1
         /\ \A i \in 1..Len(s)-1 : Tail(s)[i] = s[i + 1]
OBVIOUS

LEMMA DropFacts ==
  ASSUME NEW S, NEW s \in Seq(S), NEW n \in Nat
  PROVE  /\ n <= Len(s) => DropFirst(s, n) \in Seq(S)
         /\ n = 0 => DropFirst(s, n) = s
         /\ n >= Len(s) => DropFirst(s, n) = <<>>
<1>1. Len(s) \in Nat /\ \A i \in 1..Len(s) : s[i] \in S
  OBVIOUS
<1>2. ASSUME n <= Len(s) PROVE DropFirst(s, n) \in Seq(S)
  <2>1. \A i \in n+1..Len(s) : s[i] \in S
    BY <1>1
  <2>2. QED
    BY <1>1, <1>2, <2>1 DEF DropFirst
<1>3. ASSUME n = 0 PROVE DropFirst(s, n) = s
  BY <1>3 DEF DropFirst
<1>4. ASSUME n >= Len(s) PROVE DropFirst(s, n) = <<>>
  BY <1>1, <1>4 DEF DropFirst
<1>5. QED
  BY <1>2, <1>3, <1>4

LEMMA PrefixFacts ==
  ASSUME NEW S, NEW s \in Seq(S), NEW t \in Seq(S)
  PROVE  IsPrefix(s, t) <=> /\ Len(s) <= Len(t)
                            /\ \A i \in 1..Len(s) : s[i] = t[i]
<1>1. Len(s) \in Nat /\ Len(t) \in Nat
  OBVIOUS
<1>2. ASSUME Len(s) <= Len(t)
      PROVE  SubSeq(s, 1, Len(s)) = SubSeq(t, 1, Len(s)) <=> \A i \in 1..Len(s) : s[i] = t[i]
  <2>1. SubSeq(s, 1, Len(s)) = [i \in 1..Len(s) |-> s[i]]
    BY <1>1
  <2>2. SubSeq(t, 1, Len(s)) = [i \in 1..Len(s) |-> t[i]]
    BY <1>1, <1>2
  <2>3. QED
    BY <2>1, <2>2
<1>3. QED
  BY <1>1, <1>2 DEF IsPrefix

\* What the bytes of s \o t leave set, those of t leave set after those of s.
LEMMA SetAfterConcat ==
  ASSUME NEW s \in Seq(Byte), NEW t \in Seq(Byte), NEW c, NEW set,
         SetAfter(s \o t, c, set)
  PROVE  SetAfter(t, c, SetAfter(s, c, set))
<1> DEFINE n == Len(s)
           o == Len(t)
           u == s \o t
<1>1. /\ n \in Nat /\ o \in Nat /\ Len(u) = n + o
      /\ DOMAIN s = 1..n /\ DOMAIN t = 1..o /\ DOMAIN u = 1..(n + o)
      /\ \A i \in 1..n : u[i] = s[i]
      /\ \A i \in 1..o : u[n + i] = t[i]
  BY ConcatFacts
<1>2. SetAfter(u, c, set)
  OBVIOUS
<1> HIDE DEF n, o, u
<1>3. CASE \E i \in 1..(n + o) : u[i] = c /\ \A j \in i+1..(n + o) : u[j] # c + 128
  <2>1. PICK i \in 1..(n + o) : u[i] = c /\ \A j \in i+1..(n + o) : u[j] # c + 128
    BY <1>3
  <2>2. CASE i > n
    <3>1. i - n \in 1..o /\ n + (i - n) = i
      BY <2>2, <1>1
    <3>2. t[i - n] = c
      BY <3>1, <2>1, <1>1
    <3>3. ASSUME NEW j \in (i - n)+1..o PROVE t[j] # c + 128
      <4>1. j \in 1..o /\ n + j \in i+1..(n + o)
        BY <1>1, <2>2
      <4>2. QED
        BY <4>1, <1>1, <2>1
    <3>4. QED
      BY <3>1, <3>2, <3>3, <1>1 DEF SetAfter, o
  <2>3. CASE i <= n
    <3>1. i \in 1..n
      BY <2>3, <1>1
    <3>2. ASSUME NEW j \in i+1..n PROVE s[j] # c + 128
      <4>1. j \in 1..n /\ j \in i+1..(n + o)
        BY <1>1, <2>3
      <4>2. QED
        BY <4>1, <1>1, <2>1
    <3>3. ASSUME NEW j \in 1..o PROVE t[j] # c + 128
      <4>1. n + j \in i+1..(n + o)
        BY <1>1, <2>3
      <4>2. QED
        BY <4>1, <1>1, <2>1
    <3>4. s[i] = c
      BY <3>1, <2>1, <1>1
    <3>5. SetAfter(s, c, set)
      BY <3>1, <3>2, <3>4, <1>1 DEF SetAfter, n
    <3>6. QED
      BY <3>5, <3>3, <1>1 DEF SetAfter
  <2>4. QED
    BY <2>2, <2>3, <1>1
<1>4. CASE set /\ \A j \in 1..(n + o) : u[j] # c + 128
  <2>1. ASSUME NEW j \in 1..n PROVE s[j] # c + 128
    <3>1. j \in 1..(n + o)
      BY <1>1
    <3>2. QED
      BY <3>1, <1>1, <1>4
  <2>2. ASSUME NEW j \in 1..o PROVE t[j] # c + 128
    <3>1. n + j \in 1..(n + o)
      BY <1>1
    <3>2. QED
      BY <3>1, <1>1, <1>4
  <2>3. SetAfter(s, c, set)
    BY <2>1, <1>1, <1>4 DEF SetAfter
  <2>4. QED
    BY <2>3, <2>2, <1>1 DEF SetAfter
<1>5. QED
  BY <1>1, <1>2, <1>3, <1>4 DEF SetAfter

\* What the bytes of s leave set, the first and then the rest leave set.
LEMMA SetAfterTail ==
  ASSUME NEW s \in Seq(Byte), s # <<>>, NEW c, NEW set,
         SetAfter(Tail(s), c, Head(s) = c \/ (set /\ Head(s) # c + 128))
  PROVE  SetAfter(s, c, set)
<1> DEFINE n == Len(s)
           t == Tail(s)
<1>1. /\ n \in Nat \ {0} /\ Len(t) = n - 1 /\ Head(s) = s[1]
      /\ DOMAIN s = 1..n /\ DOMAIN t = 1..(n - 1)
      /\ \A i \in 1..n-1 : t[i] = s[i + 1]
  BY HeadTailFacts
<1>2. SetAfter(t, c, Head(s) = c \/ (set /\ Head(s) # c + 128))
  OBVIOUS
<1> HIDE DEF n, t
<1>3. ASSUME NEW i \in 0..n-1, \A j \in i+1..n-1 : t[j] # c + 128
      PROVE  \A j \in i+2..n : s[j] # c + 128
  <2> SUFFICES ASSUME NEW j \in i+2..n PROVE s[j] # c + 128
    OBVIOUS
  <2>1. j - 1 \in i+1..n-1 /\ j - 1 \in 1..n-1 /\ (j - 1) + 1 = j
    BY <1>1
  <2>2. QED
    BY <2>1, <1>1, <1>3
<1>4. CASE \E i \in 1..n-1 : t[i] = c /\ \A j \in i+1..n-1 : t[j] # c + 128
  <2>1. PICK i \in 1..n-1 : t[i] = c /\ \A j \in i+1..n-1 : t[j] # c + 128
    BY <1>4
  <2>2. i \in 0..n-1 /\ i + 1 \in 1..n /\ s[i + 1] = c /\ (i + 1) + 1 = i + 2
    BY <2>1, <1>1
  <2>3. \A j \in i+2..n : s[j] # c + 128
    BY <2>1, <2>2, <1>3
  <2>4. QED
    BY <2>2, <2>3, <1>1 DEF SetAfter, n
<1>5. CASE /\ Head(s) = c \/ (set /\ Head(s) # c + 128)
           /\ \A j \in 1..n-1 : t[j] # c + 128
  <2>1. \A j \in 2..n : s[j] # c + 128
    <3>1. 0 \in 0..n-1 /\ 0 + 1 = 1 /\ 0 + 2 = 2
      BY <1>1
    <3>2. QED
      BY <3>1, <1>3, <1>5
  <2>2. 1 \in 1..n /\ 1 + 1 = 2 /\ \A j \in 1..n : j = 1 \/ j \in 2..n
    BY <1>1
  <2>3. CASE s[1] = c
    BY <2>1, <2>2, <2>3, <1>1 DEF SetAfter, n
  <2>4. CASE s[1] # c
    BY <2>1, <2>2, <2>4, <1>1, <1>5 DEF SetAfter
  <2>5. QED
    BY <2>3, <2>4
<1>6. QED
  BY <1>1, <1>2, <1>4, <1>5 DEF SetAfter, t

\* What the bytes behind the first n leave set, all of them leave set, unless one
\* of the first n clears it.
LEMMA SetAfterDrop ==
  ASSUME NEW s \in Seq(Byte), NEW n \in 0..Len(s), NEW c, NEW rest, NEW set,
         SetAfter(DropFirst(s, n), c, rest),
         rest => set /\ \A i \in 1..n : s[i] # c + 128
  PROVE  SetAfter(s, c, set)
<1> DEFINE o == Len(s)
           t == DropFirst(s, n)
<1>1. /\ o \in Nat /\ n \in 0..o /\ Len(t) = o - n
      /\ DOMAIN s = 1..o /\ DOMAIN t = 1..(o - n)
      /\ \A i \in 1..(o - n) : t[i] = s[n + i]
  BY DEF DropFirst
<1>2. SetAfter(t, c, rest)
  OBVIOUS
<1> HIDE DEF o, t
<1>3. ASSUME NEW i \in 0..(o - n), \A j \in i+1..(o - n) : t[j] # c + 128
      PROVE  \A j \in n+i+1..o : s[j] # c + 128
  <2> SUFFICES ASSUME NEW j \in n+i+1..o PROVE s[j] # c + 128
    OBVIOUS
  <2>1. j - n \in i+1..(o - n) /\ j - n \in 1..(o - n) /\ n + (j - n) = j
    BY <1>1
  <2>2. QED
    BY <2>1, <1>1, <1>3
<1>4. CASE \E i \in 1..(o - n) : t[i] = c /\ \A j \in i+1..(o - n) : t[j] # c + 128
  <2>1. PICK i \in 1..(o - n) : t[i] = c /\ \A j \in i+1..(o - n) : t[j] # c + 128
    BY <1>4
  <2>2. i \in 0..(o - n) /\ n + i \in 1..o /\ s[n + i] = c
    BY <2>1, <1>1
  <2>3. \A j \in n+i+1..o : s[j] # c + 128
    BY <2>1, <2>2, <1>3
  <2>4. QED
    BY <2>2, <2>3, <1>1 DEF SetAfter, o
<1>5. CASE rest /\ \A j \in 1..(o - n) : t[j] # c + 128
  <2>1. 0 \in 0..(o - n) /\ 0 + 1 = 1 /\ n + 0 + 1 = n + 1
    BY <1>1
  <2>2. \A j \in n+1..o : s[j] # c + 128
    BY <2>1, <1>3, <1>5
  <2>3. \A j \in 1..o : j \in 1..n \/ j \in n+1..o
    BY <1>1
  <2>4. QED
    BY <2>2, <2>3, <1>1, <1>5 DEF SetAfter
<1>6. QED
  BY <1>1, <1>2, <1>4, <1>5 DEF SetAfter

\* Nothing of the kind happens without bytes.
LEMMA SetAfterNone ==
  ASSUME NEW c, NEW set
  PROVE  SetAfter(<<>>, c, set) <=> set
BY DEF SetAfter

-----------------------------------------------------------------------------
(* The tables.                                                             *)

\* A modifier that one of the first two columns names, its row names.
LEMMA KeymapModifiers ==
  ASSUME NEW row \in 0..127, NEW i \in 1..2
  PROVE  /\ \A m \in DOMAIN Code : keymap(row)[i] = m <=> row = Code[m]
         /\ keymap(row)[i] \notin {"CTRL_R", "ALT_R"}
BY DEF keymap, Code, LetterRows, SymbolRows

LEMMA KeymapNames ==
  ASSUME NEW row \in 0..127, NEW i \in 1..3
  PROVE  keymap(row)[i] \in Names
BY DEF keymap, Names, PadKeys, Modifiers, Locks, LetterRows, SymbolRows

LEMMA Codes ==
  /\ DOMAIN Code = {"SHIFT_L", "SHIFT_R", "CTRL_L", "ALT_L"}
  /\ \A m \in DOMAIN Code : Code[m] \in {\h2A, \h36, \h1D, \h38}
BY DEF Code

LEMMA RowRange ==
  ASSUME NEW byte \in Byte
  PROVE /\ byte % 128 \in 0..127
        /\ byte < 128 => byte % 128 = byte
        /\ byte >= 128 => byte % 128 = byte - 128
BY DEF Byte

\* The four shapes of the sequences of a key.
IsPlain(k) ==
  \E c \in 1..127 : ScanCodes[k].make = <<c>> /\ ScanCodes[k].brk = <<c + 128>>
IsExtended(k) ==
  \E c \in 1..127 : ScanCodes[k].make = <<\hE0, c>> /\ ScanCodes[k].brk = <<\hE0, c + 128>>
IsPrintScreen(k) ==
  /\ ScanCodes[k].make = <<\hE0, \h2A, \hE0, \h37>>
  /\ ScanCodes[k].brk = <<\hE0, \hB7, \hE0, \hAA>>
IsPause(k) ==
  /\ ScanCodes[k].make = <<\hE1, \h1D, \h45, \hE1, \h9D, \hC5>>
  /\ ScanCodes[k].brk = <<>>

\* Every key has one of them.
LEMMA ScanForms ==
  ASSUME NEW k \in DOMAIN ScanCodes
  PROVE  IsPlain(k) \/ IsExtended(k) \/ IsPrintScreen(k) \/ IsPause(k)
<1>1. DOMAIN ScanCodes = {"A", "L", "ENTER", "BKSP", "LSHIFT", "RSHIFT", "LCTRL", "LALT",
          "CAPS", "NUM", "SCROLL", "KP8", "RCTRL", "RALT", "PGUP", "POWER", "PRTSCRN", "PAUSE"}
  BY DEF ScanCodes
<1>2. CASE k \in {"A", "L", "ENTER", "BKSP", "LSHIFT", "RSHIFT", "LCTRL", "LALT",
                  "CAPS", "NUM", "SCROLL", "KP8"}
  <2>1. \E c \in 1..127 : ScanCodes[k] = Plain(c)
    <3>1. k = "A" => ScanCodes[k] = Plain(\h1E)
      BY DEF ScanCodes
    <3>2. k = "L" => ScanCodes[k] = Plain(\h26)
      BY DEF ScanCodes
    <3>3. k = "ENTER" => ScanCodes[k] = Plain(\h1C)
      BY DEF ScanCodes
    <3>4. k = "BKSP" => ScanCodes[k] = Plain(\h0E)
      BY DEF ScanCodes
    <3>5. k = "LSHIFT" => ScanCodes[k] = Plain(\h2A)
      BY DEF ScanCodes
    <3>6. k = "RSHIFT" => ScanCodes[k] = Plain(\h36)
      BY DEF ScanCodes
    <3>7. k = "LCTRL" => ScanCodes[k] = Plain(\h1D)
      BY DEF ScanCodes
    <3>8. k = "LALT" => ScanCodes[k] = Plain(\h38)
      BY DEF ScanCodes
    <3>9. k = "CAPS" => ScanCodes[k] = Plain(\h3A)
      BY DEF ScanCodes
    <3>10. k = "NUM" => ScanCodes[k] = Plain(\h45)
      BY DEF ScanCodes
    <3>11. k = "SCROLL" => ScanCodes[k] = Plain(\h46)
      BY DEF ScanCodes
    <3>12. k = "KP8" => ScanCodes[k] = Plain(\h48)
      BY DEF ScanCodes
    <3>13. QED
      BY <1>2, <3>1, <3>2, <3>3, <3>4, <3>5, <3>6, <3>7, <3>8, <3>9, <3>10, <3>11, <3>12
  <2>2. QED
    BY <2>1 DEF Plain, IsPlain
<1>3. CASE k \in {"RCTRL", "RALT", "PGUP", "POWER"}
  <2>1. \E c \in 1..127 : ScanCodes[k] = Extended(c)
    <3>1. k = "RCTRL" => ScanCodes[k] = Extended(\h1D)
      BY DEF ScanCodes
    <3>2. k = "RALT" => ScanCodes[k] = Extended(\h38)
      BY DEF ScanCodes
    <3>3. k = "PGUP" => ScanCodes[k] = Extended(\h49)
      BY DEF ScanCodes
    <3>4. k = "POWER" => ScanCodes[k] = Extended(\h5E)
      BY DEF ScanCodes
    <3>5. QED
      BY <1>3, <3>1, <3>2, <3>3, <3>4
  <2>2. QED
    BY <2>1 DEF Extended, IsExtended
<1>4. CASE k = "PRTSCRN"
  BY <1>4 DEF ScanCodes, IsPrintScreen
<1>5. CASE k = "PAUSE"
  BY <1>5 DEF ScanCodes, IsPause
<1>6. QED
  BY <1>1, <1>2, <1>3, <1>4, <1>5

\* Both sequences of a key are bytes.
LEMMA ScanTypes ==
  ASSUME NEW k \in DOMAIN ScanCodes
  PROVE  ScanCodes[k].make \in Seq(Byte) /\ ScanCodes[k].brk \in Seq(Byte)
<1>1. CASE IsPlain(k)
  BY <1>1 DEF Byte, IsPlain
<1>2. CASE IsExtended(k)
  BY <1>2 DEF Byte, IsExtended
<1>3. CASE IsPrintScreen(k)
  BY <1>3, SMTT(30) DEF Byte, IsPrintScreen
<1>4. CASE IsPause(k)
  BY <1>4 DEF Byte, IsPause
<1>5. QED
  BY <1>1, <1>2, <1>3, <1>4, ScanForms

\* What pressing a key leaves set was set before, or the key governs it.
LEMMA PressSets ==
  ASSUME NEW k \in DOMAIN ScanCodes, NEW c \in {\h2A, \h36, \h1D, \h38}, NEW set,
         SetAfter(ScanCodes[k].make, c, set)
  PROVE  set \/ (Governs(k, c) /\ ScanCodes[k].brk # <<>>)
<1>1. CASE IsPlain(k)
  BY <1>1 DEF SetAfter, Governs, IsPlain
<1>2. CASE IsExtended(k)
  BY <1>2 DEF SetAfter, Governs, IsExtended
<1>3. CASE IsPrintScreen(k)
  BY <1>3, SMTT(30) DEF SetAfter, Governs, IsPrintScreen
<1>4. CASE IsPause(k)
  <2>1. \A i \in DOMAIN ScanCodes[k].make :
          ScanCodes[k].make[i] = c => i = 2 /\ c = \h1D
    BY <1>4, SMTT(30) DEF IsPause
  <2>2. DOMAIN ScanCodes[k].make = 1..6 /\ ScanCodes[k].make[5] = \h9D /\ Len(ScanCodes[k].make) = 6
    BY <1>4 DEF IsPause
  <2>3. ~ \E i \in DOMAIN ScanCodes[k].make :
            /\ ScanCodes[k].make[i] = c
            /\ \A j \in i+1..Len(ScanCodes[k].make) : ScanCodes[k].make[j] # c + 128
    BY <2>1, <2>2
  <2>4. QED
    BY <2>3 DEF SetAfter
<1>5. QED
  BY <1>1, <1>2, <1>3, <1>4, ScanForms

\* What releasing a key leaves set was set before, and the key does not govern it.
LEMMA ReleaseClears ==
  ASSUME NEW k \in DOMAIN ScanCodes, NEW c \in {\h2A, \h36, \h1D, \h38}, NEW set,
         SetAfter(ScanCodes[k].brk, c, set)
  PROVE  set /\ ~Governs(k, c)
<1>1. \A i \in DOMAIN ScanCodes[k].brk : ScanCodes[k].brk[i] # c
  <2>1. CASE IsPlain(k)
    BY <2>1 DEF IsPlain
  <2>2. CASE IsExtended(k)
    BY <2>2 DEF IsExtended
  <2>3. CASE IsPrintScreen(k)
    BY <2>3, SMTT(30) DEF IsPrintScreen
  <2>4. CASE IsPause(k)
    BY <2>4 DEF IsPause
  <2>5. QED
    BY <2>1, <2>2, <2>3, <2>4, ScanForms
<1>2. QED
  BY <1>1 DEF SetAfter, Governs

-----------------------------------------------------------------------------
(* The steps.                                                              *)

LEMMA KeyInitInv == KbInit => KeyInv
<1> SUFFICES ASSUME KbInit PROVE KeyInv
  OBVIOUS
<1>1. RingDrained
  <2>1. wire \in Seq(Byte) /\ kb_in \in Seq(Byte)
    BY DEF KbInit
  <2>2. reading \in BOOLEAN /\ swallowed \subseteq DOMAIN Code /\ afterE0 \in BOOLEAN
    BY DEF KbInit
  <2>3. QED
    BY <2>1, <2>2 DEF KbInit, RingDrained, KbTypeOK, Locks, Byte
<1>2. Tracked
  <2> SUFFICES ASSUME NEW m \in DOMAIN Code, SetAfter(wire, Code[m], SetNow(m)) PROVE FALSE
    BY DEF Tracked
  <2>1. ~SetNow(m)
    BY DEF KbInit, SetNow
  <2>2. QED
    BY <2>1 DEF KbInit, SetAfter
<1>3. Echoes
  <2>1. IsPrefix(stored, echoed)
    BY DEF KbInit, IsPrefix
  <2>2. Len(stored) = 0 /\ Len(echoed) = 0
    BY DEF KbInit
  <2>3. QED
    BY <2>1, <2>2, KeyboardAssumption DEF KbInit, Echoes, InputIsEchoPrefix
<1>4. QED
  BY <1>1, <1>2, <1>3 DEF KeyInv

LEMMA PressInv ==
  ASSUME KeyInv, NEW k \in Keys, Press(k)
  PROVE  KeyInv'
<1>1. k \in DOMAIN ScanCodes /\ ScanCodes[k].make \in Seq(Byte) /\ wire \in Seq(Byte)
  BY KeysAssumption, ScanTypes DEF KeyInv, RingDrained, KbTypeOK
<1>2. RingDrained'
  <2>1. wire' \in Seq(Byte) /\ held' \subseteq Keys
    BY <1>1, ConcatFacts DEF Press, KeyInv, RingDrained, KbTypeOK
  <2>2. QED
    BY <2>1 DEF Press, KeyInv, RingDrained, KbTypeOK, state, output, history
<1>3. Tracked'
  <2> SUFFICES ASSUME NEW m \in DOMAIN Code, SetAfter(wire', Code[m], SetNow(m)')
               PROVE  \E h \in held' : Governs(h, Code[m])
    BY DEF Tracked, Press, history
  <2>1. SetNow(m)' = SetNow(m)
    BY DEF SetNow, Press, state, history
  <2>2. SetAfter(wire \o ScanCodes[k].make, Code[m], SetNow(m))
    BY <2>1 DEF Press
  <2> DEFINE c == Code[m]
             was == SetAfter(wire, c, SetNow(m))
  <2>3. SetAfter(ScanCodes[k].make, c, was)
    BY <2>2, <1>1, SetAfterConcat
  <2>7. c \in {\h2A, \h36, \h1D, \h38}
    BY Codes
  <2> HIDE DEF c, was
  <2>8. ASSUME ~was PROVE Governs(k, c) /\ ScanCodes[k].brk # <<>>
    <3>1. SetAfter(ScanCodes[k].make, c, FALSE)
      BY <2>3, <2>8 DEF SetAfter
    <3>2. QED
      BY <3>1, <2>7, <1>1, PressSets
  <2>4. SetAfter(wire, Code[m], SetNow(m)) \/ (Governs(k, Code[m]) /\ ScanCodes[k].brk # <<>>)
    BY <2>8 DEF was, c
  <2>5. held \subseteq held' /\ (ScanCodes[k].brk # <<>> => k \in held')
    BY DEF Press
  <2>6. QED
    BY <2>4, <2>5 DEF KeyInv, Tracked
<1>4. Echoes'
  BY DEF Press, output, KeyInv, Echoes, InputIsEchoPrefix
<1>5. QED
  BY <1>2, <1>3, <1>4 DEF KeyInv

LEMMA ReleaseInv ==
  ASSUME KeyInv, NEW k \in Keys, Release(k)
  PROVE  KeyInv'
<1>1. k \in DOMAIN ScanCodes /\ ScanCodes[k].brk \in Seq(Byte) /\ wire \in Seq(Byte)
  BY KeysAssumption, ScanTypes DEF KeyInv, RingDrained, KbTypeOK
<1>2. RingDrained'
  <2>1. wire' \in Seq(Byte) /\ held' \subseteq Keys
    BY <1>1, ConcatFacts DEF Release, KeyInv, RingDrained, KbTypeOK
  <2>2. QED
    BY <2>1 DEF Release, KeyInv, RingDrained, KbTypeOK, state, output, history
<1>3. Tracked'
  <2> SUFFICES ASSUME NEW m \in DOMAIN Code, SetAfter(wire', Code[m], SetNow(m)')
               PROVE  \E h \in held' : Governs(h, Code[m])
    BY DEF Tracked, Release, history
  <2>1. SetNow(m)' = SetNow(m)
    BY DEF SetNow, Release, state, history
  <2>2. SetAfter(wire \o ScanCodes[k].brk, Code[m], SetNow(m))
    BY <2>1 DEF Release
  <2> DEFINE c == Code[m]
             was == SetAfter(wire, c, SetNow(m))
  <2>3. SetAfter(ScanCodes[k].brk, c, was)
    BY <2>2, <1>1, SetAfterConcat
  <2>7. c \in {\h2A, \h36, \h1D, \h38}
    BY Codes
  <2> HIDE DEF c, was
  <2>8. was /\ ~Governs(k, c)
    BY <2>3, <2>7, <1>1, ReleaseClears
  <2>4. SetAfter(wire, Code[m], SetNow(m)) /\ ~Governs(k, Code[m])
    BY <2>8 DEF was, c
  <2>5. \A h \in held : h = k \/ h \in held'
    BY DEF Release
  <2>6. QED
    BY <2>4, <2>5 DEF KeyInv, Tracked
<1>4. Echoes'
  BY DEF Release, output, KeyInv, Echoes, InputIsEchoPrefix
<1>5. QED
  BY <1>2, <1>3, <1>4 DEF KeyInv

LEMMA HandlerInv ==
  ASSUME KeyInv, keyboard_handler
  PROVE  KeyInv'
<1>1. /\ wire \in Seq(Byte) /\ wire # <<>> /\ ~reading /\ kb_in = <<>>
      /\ Len(kb_in) = 0 /\ KB_IN_BYTES \in Nat \ {0}
  BY KeyboardAssumption DEF keyboard_handler, KeyInv, RingDrained, KbTypeOK
<1>2. Head(wire) \in Byte /\ Tail(wire) \in Seq(Byte)
  BY <1>1, HeadTailFacts
<1>3. kb_in' = <<Head(wire)>> /\ decoded' = Head(wire) /\ reading' = TRUE
  BY <1>1 DEF keyboard_handler
<1>4. RingDrained'
  <2>1. kb_in' \in Seq(Byte)
    BY <1>2, <1>3
  <2>4. wire' \in Seq(Byte) /\ decoded' \in Byte
    BY <1>2, <1>3 DEF keyboard_handler
  <2>2. reading' \in BOOLEAN /\ afterE0' \in BOOLEAN
    BY <1>3, Zenon DEF keyboard_handler
  <2>3. QED
    BY <2>1, <2>2, <2>4, <1>3 DEF keyboard_handler, KeyInv, RingDrained, KbTypeOK, state, output
<1>5. Tracked'
  <2> SUFFICES ASSUME NEW m \in DOMAIN Code, SetAfter(wire', Code[m], SetNow(m)')
               PROVE  \E h \in held' : Governs(h, Code[m])
    BY DEF Tracked, keyboard_handler
  <2>1. SetNow(m)' <=> \/ Head(wire) = Code[m]
                       \/ m \in modifiers \ swallowed /\ Head(wire) # Code[m] + 128
    BY <1>3 DEF SetNow, keyboard_handler, state
  <2>2. SetAfter(Tail(wire), Code[m],
                 \/ Head(wire) = Code[m]
                 \/ m \in modifiers \ swallowed /\ Head(wire) # Code[m] + 128)
    BY <2>1 DEF SetAfter, keyboard_handler
  <2>3. SetAfter(wire, Code[m], m \in modifiers \ swallowed)
    BY <2>2, <1>1, SetAfterTail
  <2>4. SetAfter(wire, Code[m], SetNow(m))
    BY <2>3, <1>1 DEF SetAfter, SetNow
  <2>5. QED
    BY <2>4 DEF KeyInv, Tracked, keyboard_handler
<1>6. Echoes'
  BY DEF keyboard_handler, output, KeyInv, Echoes, InputIsEchoPrefix
<1>7. QED
  BY <1>4, <1>5, <1>6 DEF KeyInv

\* One more character echoed: it is stored exactly while there is room.
LEMMA EchoStep ==
  ASSUME Echoes, NEW key \in Names,
         echoed' = Append(echoed, key),
         stored' = IF inputRoom THEN Append(stored, key) ELSE stored
  PROVE  Echoes'
<1> DEFINE n == Len(stored)
           e == Len(echoed)
           T == TTY_IN_BYTES
<1>1. /\ stored \in Seq(Names) /\ echoed \in Seq(Names)
      /\ n \in Nat /\ e \in Nat /\ T \in Nat
      /\ n = (IF e < T THEN e ELSE T)
  BY KeyboardAssumption DEF Echoes, InputIsEchoPrefix
<1>2. n <= e /\ \A i \in 1..n : stored[i] = echoed[i]
  BY <1>1, PrefixFacts DEF Echoes, InputIsEchoPrefix
<1>3. /\ echoed' \in Seq(Names) /\ Len(echoed') = e + 1
      /\ \A i \in 1..e : echoed'[i] = echoed[i]
      /\ echoed'[e + 1] = key
  BY <1>1, AppendFacts
<1>4. CASE n < T
  <2>1. n = e
    BY <1>1, <1>4
  <2>2. /\ stored' \in Seq(Names) /\ Len(stored') = n + 1
        /\ \A i \in 1..n : stored'[i] = stored[i]
        /\ stored'[n + 1] = key
    BY <1>1, <1>4, AppendFacts DEF inputRoom
  <2>3. \A i \in 1..(n + 1) : i \in 1..n \/ i = n + 1
    BY <1>1
  <2>4. \A i \in 1..Len(stored') : stored'[i] = echoed'[i]
    BY <2>1, <2>2, <2>3, <1>2, <1>3
  <2>5. Len(stored') <= Len(echoed')
    BY <2>1, <2>2, <1>1, <1>3
  <2>6. IsPrefix(stored', echoed')
    BY <2>2, <2>4, <2>5, <1>3, PrefixFacts
  <2>7. Len(stored') = IF Len(echoed') < T THEN Len(echoed') ELSE T
    BY <2>1, <2>2, <1>1, <1>3, <1>4
  <2>8. QED
    BY <2>2, <2>6, <2>7, <1>3 DEF Echoes, InputIsEchoPrefix
<1>5. CASE ~(n < T)
  <2>1. stored' = stored /\ n = T /\ e >= T
    BY <1>1, <1>5 DEF inputRoom
  <2>2. \A i \in 1..Len(stored') : stored'[i] = echoed'[i]
    <3>1. \A i \in 1..n : i \in 1..e
      BY <1>1, <1>2
    <3>2. QED
      BY <3>1, <2>1, <1>2, <1>3
  <2>3. Len(stored') <= Len(echoed')
    BY <2>1, <1>1, <1>3
  <2>4. IsPrefix(stored', echoed')
    BY <2>1, <2>2, <2>3, <1>1, <1>3, PrefixFacts
  <2>5. Len(stored') = IF Len(echoed') < T THEN Len(echoed') ELSE T
    BY <2>1, <1>1, <1>3
  <2>6. QED
    BY <2>1, <2>4, <2>5, <1>1, <1>3 DEF Echoes, InputIsEchoPrefix
<1>6. QED
  BY <1>4, <1>5

LEMMA HandleTtyEchoes ==
  ASSUME Echoes, NEW key \in Names, NEW flags, handle_tty(key, flags)
  PROVE  Echoes'
<1>1. \/ /\ echoed' = Append(echoed, key)
         /\ stored' = IF inputRoom THEN Append(stored, key) ELSE stored
      \/ UNCHANGED output
  BY DEF handle_tty
<1>2. CASE UNCHANGED output
  BY <1>2 DEF output, Echoes, InputIsEchoPrefix
<1>3. QED
  BY <1>1, <1>2, EchoStep

LEMMA ReadInv ==
  ASSUME KeyInv, keyboard_read
  PROVE  KeyInv'
<1> DEFINE byte  == Head(kb_in)
           make  == byte < \h80
           key   == keymap(byte % \h80)[columnOf(byte) + 1]
           pad   == key \in PadKeys
           mods  == setModifier(key, make)
           flags == mods \cup (IF pad THEN {"PAD"} ELSE {})
           stop  == key = "none" /\ (~make \/ mods = {})
           ring  == DropFirst(kb_in, pops(byte) + popsAtEnd(stop))
<1>1. /\ reading
      /\ column' = columnOf(byte)
      /\ modifiers' = mods
      /\ locks' = toggle(key, make)
      /\ IF locks' # locks THEN set_leds ELSE wire' = wire /\ swallowed' = swallowed \ {key}
      /\ IF make THEN handle_tty(IF pad THEN padKey(key) ELSE key, flags) ELSE UNCHANGED output
      /\ kb_in' = ring
      /\ reading' = (~stop /\ ring # <<>>)
      /\ UNCHANGED <<held, decoded, afterE0>>
  BY DEF keyboard_read
<1>2. /\ KbTypeOK /\ Tracked /\ Echoes /\ kb_in = <<decoded>> /\ Len(kb_in) = 1 /\ kb_in \in Seq(Byte)
      /\ byte = decoded /\ byte \in Byte
  BY <1>1 DEF KeyInv, RingDrained, KbTypeOK
<1>3. /\ byte % \h80 \in 0..127
      /\ byte < 128 => byte % \h80 = byte
      /\ byte >= 128 => byte % \h80 = byte - 128
  BY <1>2, RowRange
<1>4. /\ columnOf(byte) \in 0..2 /\ columnOf(byte) + 1 \in 1..3
      /\ byte # \hE0 => columnOf(byte) + 1 \in 1..2
      /\ byte = \hE0 => columnOf(byte) = 2
  BY DEF columnOf
<1>5. key \in Names
  BY <1>3, <1>4, KeymapNames
<1>6. ~make /\ byte = \hE0 => key = "none"
  <2> SUFFICES ASSUME ~make, byte = \hE0 PROVE key = "none"
    OBVIOUS
  <2>1. byte % \h80 = 96 /\ columnOf(byte) + 1 = 3
    BY <1>3, <1>4
  <2>2. keymap(96) = <<"none", "none", "none">>
    BY DEF keymap, LetterRows, SymbolRows
  <2>3. QED
    BY <2>1, <2>2
<1>7. /\ key \notin {"CTRL_R", "ALT_R"}
      /\ \A m \in DOMAIN Code : key = m <=> byte % \h80 = Code[m]
  <2>1. CASE byte # \hE0
    <3> DEFINE row == byte % \h80
               col == columnOf(byte) + 1
    <3>1. row \in 0..127 /\ col \in 1..2 /\ key = keymap(row)[col]
      BY <2>1, <1>3, <1>4
    <3> HIDE DEF row, col, key
    <3>2. /\ \A m \in DOMAIN Code : keymap(row)[col] = m <=> row = Code[m]
          /\ keymap(row)[col] \notin {"CTRL_R", "ALT_R"}
      BY <3>1, KeymapModifiers, Zenon
    <3>3. QED
      BY <3>1, <3>2 DEF row
  <2>2. CASE byte = \hE0
    <3>1. key = "none" /\ byte % \h80 = \h60
      BY <2>2, <1>3, <1>6
    <3>2. \A m \in DOMAIN Code : Code[m] # \h60 /\ m # "none"
      BY Codes
    <3>3. QED
      BY <3>1, <3>2
  <2>3. QED
    BY <2>1, <2>2
<1>8. key \in Modifiers => key \in DOMAIN Code
  BY <1>7, Codes DEF Modifiers
<1>9. stop \in BOOLEAN /\ (byte = \hE0 => stop)
  BY <1>6
<1>10. pad => padKey(key) \in Names
  BY DEF padKey, Names, PadKeys
<1> HIDE DEF key, stop
<1>11. mods = IF key \notin Modifiers THEN modifiers
              ELSE IF make THEN modifiers \cup {key} ELSE modifiers \ {key}
  BY <1>7 DEF setModifier
<1>12. ring = <<>>
  <2>1. pops(byte) + popsAtEnd(stop) \in Nat /\ pops(byte) + popsAtEnd(stop) >= 1
    BY <1>9 DEF pops, popsAtEnd
  <2>2. QED
    BY <2>1, <1>2, DropFacts
<1>13. kb_in' = <<>> /\ reading' = FALSE
  BY <1>1, <1>12
<1>14. \/ wire' = wire /\ swallowed' = swallowed \ {key}
       \/ key \in Locks /\ \E n \in 0..Len(wire) :
            /\ wire' = DropFirst(wire, n)
            /\ swallowed' = swallowed \cup Clears(SubSeq(wire, 1, n))
  <2>1. CASE locks' # locks
    <3>1. key \in Locks
      BY <2>1, <1>1 DEF toggle
    <3>2. set_leds
      BY <2>1, <1>1
    <3>3. QED
      BY <3>1, <3>2 DEF set_leds
  <2>2. CASE ~(locks' # locks)
    BY <2>2, <1>1
  <2>3. QED
    BY <2>1, <2>2
<1>15. RingDrained'
  <2>1. modifiers' \subseteq Modifiers \ {"CTRL_R", "ALT_R"}
    BY <1>1, <1>2, <1>7, <1>11 DEF KbTypeOK
  <2>2. locks' \subseteq Locks
    BY <1>1, <1>2 DEF KbTypeOK, toggle
  <2>3. wire' \in Seq(Byte)
    <3>1. wire \in Seq(Byte) /\ Len(wire) \in Nat
      BY <1>2 DEF KbTypeOK
    <3>2. \A n \in 0..Len(wire) : DropFirst(wire, n) \in Seq(Byte)
      BY <3>1, DropFacts
    <3>3. QED
      BY <3>1, <3>2, <1>14
  <2>8. swallowed' \subseteq DOMAIN Code
    BY <1>14, <1>2 DEF KbTypeOK, Clears
  <2>4. column' \in 0..2 /\ held' \subseteq Keys /\ decoded' \in Byte /\ afterE0' \in BOOLEAN
    BY <1>1, <1>2, <1>4 DEF KbTypeOK
  <2>5. kb_in' \in Seq(Byte)
    BY <1>13
  <2>7. reading' \in BOOLEAN
    BY <1>13
  <2>6. QED
    BY <2>1, <2>2, <2>3, <2>4, <2>5, <2>7, <2>8, <1>13 DEF RingDrained, KbTypeOK
<1>16. Tracked'
  <2> SUFFICES ASSUME NEW m \in DOMAIN Code, SetAfter(wire', Code[m], SetNow(m)')
               PROVE  \E h \in held' : Governs(h, Code[m])
    BY DEF Tracked
  <2>1. SetNow(m)' <=> m \in mods \ swallowed'
    BY <1>1, <1>13 DEF SetNow
  <2>2. SetNow(m) <=> byte = Code[m] \/ (m \in modifiers \ swallowed /\ byte # Code[m] + 128)
    BY <1>1, <1>2 DEF SetNow
  <2>3. Code[m] \in {\h2A, \h36, \h1D, \h38} /\ m \in Modifiers /\ m \notin Locks
    BY Codes DEF Modifiers, Locks
  <2>4. key = m <=> (byte = Code[m] \/ byte = Code[m] + 128)
    BY <1>2, <1>3, <1>7, <2>3 DEF Byte
  <2>5. CASE wire' = wire /\ swallowed' = swallowed \ {key}
    <3>1. ASSUME key = m PROVE SetNow(m)' => SetNow(m)
      <4>1. SetNow(m)' <=> make
        BY <2>1, <2>3, <2>5, <3>1, <1>11
      <4>2. make <=> byte = Code[m]
        BY <2>3, <2>4, <3>1, <1>2 DEF Byte
      <4>3. QED
        BY <4>1, <4>2, <2>2
    <3>2. ASSUME key # m PROVE SetNow(m)' => SetNow(m)
      BY <2>1, <2>2, <2>4, <2>5, <3>2, <1>11
    <3>3. SetAfter(wire, Code[m], SetNow(m)')
      BY <2>5
    <3>4. SetAfter(wire, Code[m], SetNow(m))
      BY <3>1, <3>2, <3>3 DEF SetAfter
    <3>5. QED
      BY <3>4, <1>1, <1>2, Zenon DEF Tracked
  <2>6. CASE key \in Locks /\ \E n \in 0..Len(wire) :
               /\ wire' = DropFirst(wire, n)
               /\ swallowed' = swallowed \cup Clears(SubSeq(wire, 1, n))
    <3>1. PICK n \in 0..Len(wire) : /\ wire' = DropFirst(wire, n)
                                    /\ swallowed' = swallowed \cup Clears(SubSeq(wire, 1, n))
      BY <2>6
    <3>2. wire \in Seq(Byte)
      BY <1>2 DEF KbTypeOK
    <3>3. m \in mods \ swallowed' => m \in modifiers \ swallowed
      BY <3>1, <2>3, <2>6, <1>11 DEF Modifiers, Locks
    <3>4. m \notin swallowed' => \A i \in 1..n : wire[i] # Code[m] + 128
      <4>1. Len(wire) \in Nat /\ n \in 0..Len(wire)
        BY <3>2
      <4>2. DOMAIN SubSeq(wire, 1, n) = 1..n /\ \A i \in 1..n : SubSeq(wire, 1, n)[i] = wire[i]
        BY <3>2, <4>1
      <4>3. QED
        BY <3>1, <4>2 DEF Clears
    <3>5. SetNow(m)' => SetNow(m) /\ \A i \in 1..n : wire[i] # Code[m] + 128
      BY <2>1, <2>2, <2>3, <2>4, <2>6, <3>3, <3>4
    <3>6. SetAfter(DropFirst(wire, n), Code[m], SetNow(m)')
      BY <3>1
    <3>7. ASSUME NEW rest, NEW set, SetAfter(DropFirst(wire, n), Code[m], rest),
                 rest => set /\ \A i \in 1..n : wire[i] # Code[m] + 128
          PROVE  SetAfter(wire, Code[m], set)
      BY <3>2, <3>7, SetAfterDrop
    <3>8. SetAfter(wire, Code[m], SetNow(m))
      BY <3>5, <3>6, <3>7, Zenon
    <3>9. QED
      BY <3>8, <1>1, <1>2, Zenon DEF Tracked
  <2>7. QED
    BY <2>5, <2>6, <1>14
<1>17. Echoes'
  <2>1. CASE make
    <3>1. (IF pad THEN padKey(key) ELSE key) \in Names
      BY <1>5, <1>10
    <3>2. QED
      BY <2>1, <3>1, <1>1, <1>2, HandleTtyEchoes
  <2>2. CASE ~make
    BY <2>2, <1>1, <1>2 DEF output, Echoes, InputIsEchoPrefix
  <2>3. QED
    BY <2>1, <2>2
<1>18. QED
  BY <1>15, <1>16, <1>17 DEF KeyInv

LEMMA KeyNextInv == KeyInv /\ [KbNext]_kbVars => KeyInv'
<1> SUFFICES ASSUME KeyInv, [KbNext]_kbVars PROVE KeyInv'
  OBVIOUS
<1>1. ASSUME NEW k \in Keys, Press(k) PROVE KeyInv'
  BY <1>1, PressInv
<1>2. ASSUME NEW k \in Keys, Release(k) PROVE KeyInv'
  BY <1>2, ReleaseInv
<1>3. CASE keyboard_handler
  BY <1>3, HandlerInv
<1>4. CASE keyboard_read
  BY <1>4, ReadInv
<1>5. CASE UNCHANGED kbVars
  BY <1>5 DEF kbVars, typed, state, output, history, KeyInv, RingDrained, KbTypeOK, Tracked, SetNow,
              Echoes, InputIsEchoPrefix
<1>6. QED
  BY <1>1, <1>2, <1>3, <1>4, <1>5 DEF KbNext

\* The invariant holds in every reachable state.
LEMMA KeyInvariance == KbSpec => []KeyInv
BY KeyInitInv, KeyNextInv, PTL DEF KbSpec

\* Whatever is typed, every interrupt leaves the ring kb_in empty: no byte is
\* dropped for want of room and none is popped before it was looked at.
THEOREM RingIsDrained == KbSpec => []RingDrained
<1>1. KeyInv => RingDrained
  BY DEF KeyInv
<1>2. QED
  BY <1>1, KeyInvariance, PTL

\* When all keys are up and all bytes are decoded, the only modifiers on are those
\* whose own break code set_leds has taken for an answer, and of which no code
\* was decoded since.
THEOREM ModifiersGoOff == KbSpec => []ModifiersReleased
<1>1. KeyInv => ModifiersReleased
  <2> SUFFICES ASSUME KeyInv, held = {}, wire = <<>>, ~reading, NEW m \in modifiers, m \notin swallowed
               PROVE  FALSE
    BY DEF ModifiersReleased
  <2>1. m \in DOMAIN Code
    BY Codes DEF KeyInv, RingDrained, KbTypeOK, Modifiers
  <2>2. SetAfter(wire, Code[m], SetNow(m))
    BY SetAfterNone DEF SetNow
  <2>3. QED
    BY <2>1, <2>2 DEF KeyInv, Tracked
<1>2. QED
  BY <1>1, KeyInvariance, PTL

\* The first TTY_IN_BYTES characters that are echoed are stored, in order, and
\* nothing is ever stored behind them.
THEOREM InputStopsAtRoom == KbSpec => []InputIsEchoPrefix
<1>1. KeyInv => InputIsEchoPrefix
  BY DEF KeyInv, Echoes
<1>2. QED
  BY <1>1, KeyInvariance, PTL

=============================================================================
