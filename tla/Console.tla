-------------------------------- MODULE Console --------------------------------
(***************************************************************************)
(* The text console of tty.c: console_out_char, scroll_screen and          *)
(* clear_screen on the video memory of one tty, and the two registers of   *)
(* the CRT controller.                                                     *)
(*                                                                         *)
(* Nothing protects a console.  The boot thread prints with interrupts on, *)
(* the handlers of the timer and of the network card print too, and the    *)
(* keyboard handler echoes, scrolls and clears; each may begin between any *)
(* two steps of another, and then runs to its end first.                   *)
(***************************************************************************)
EXTENDS Integers, Sequences, SequencesExt, FiniteSets, FiniteSetsExt

CONSTANTS
  Printers,   \* the contexts that call printk
  Origin,     \* original_addr, in characters
  Limit,      \* v_mem_limit: the characters of the console
  Screen,     \* SCREEN_SIZE
  Width       \* SCREEN_WIDTH

ASSUME ConsoleAssumption ==
  /\ IsFiniteSet(Printers) /\ "keyboard" \notin Printers
  /\ Origin \in Nat
  /\ Width \in Nat \ {0} /\ Screen \in Nat \ {0} /\ Screen % Width = 0
  /\ Limit \in Nat /\ Screen <= Limit \div 2

Ctx == Printers \union {"keyboard"}
End == Origin + Limit
Region == Origin..End-1

Prints == {"char", "newline"}           \* what printk prints
Writes == Prints \union {"backspace"}   \* what console_out_char handles
Ops == Writes \union {"up", "down", "clear"}

VARIABLES
  cursor, start,    \* cursor and current_start_addr of the console
  hwCursor, hwStart,  \* the registers of the CRT controller
  inked,            \* the end of the text printed since the last clear_screen:
                    \* the cell after its last character that is not erased
  stack,            \* the contexts at work; the last one runs
  pc, op,           \* each context's next statement and what it is doing
  aim,              \* its p_vmem 
  reg,              \* the value it has loaded
  last,             \* history: the last operation, "none" if another began in it
  overlapped        \* history: has an operation begun inside another?

consoleVars == <<cursor, start>>
screenVars == <<hwCursor, hwStart, inked>>
ctxVars == <<stack, pc, op, aim, reg>>
histVars == <<last, overlapped>>
vars == <<consoleVars, screenVars, ctxVars, histVars>>

\* The boot leaves its own text on the screen and a cursor of its own.
Init ==
  /\ cursor = Origin /\ start = Origin
  /\ hwCursor \in {Origin, Origin + 1} /\ hwStart = Origin
  /\ inked = Origin
  /\ stack = <<>>
  /\ pc = [c \in Ctx |-> "idle"]
  /\ op = [c \in Ctx |-> "char"]
  /\ aim = [c \in Ctx |-> Origin]
  /\ reg = [c \in Ctx |-> Origin]
  /\ last = "none" /\ overlapped = FALSE

-----------------------------------------------------------------------------
(* How a context moves on.                                                 *)

Does(c, here) == stack # <<>> /\ Last(stack) = c /\ pc[c] = here

\* A local that is not read again is forgotten.
Goto(c, next) ==
  /\ pc' = [pc EXCEPT ![c] = next]
  /\ stack' = IF next = "idle" THEN Front(stack) ELSE stack
  /\ op' = IF next = "idle" THEN [op EXCEPT ![c] = "char"] ELSE op
  /\ aim' = IF next \in {"loop", "idle"} THEN [aim EXCEPT ![c] = Origin] ELSE aim
  /\ reg' = [reg EXCEPT ![c] = Origin]

\* The end of the text is kept until operations begin inside each other.
Ink(end) == inked' = IF overlapped THEN Origin ELSE end

Load(c, here, value, next) ==
  /\ Does(c, here)
  /\ reg' = [reg EXCEPT ![c] = value]
  /\ pc' = [pc EXCEPT ![c] = next]
  /\ UNCHANGED <<consoleVars, screenVars, stack, op, aim, histVars>>

Choose(c, here, test, yes, no) ==
  /\ Does(c, here)
  /\ Goto(c, IF test THEN yes ELSE no)
  /\ UNCHANGED <<consoleVars, screenVars, histVars>>

\* An operation begins, on top of whatever is running; p_vmem is taken from the
\* cursor here and not looked at again.
Begin(c, o) ==
  /\ pc[c] = "idle"
  /\ stack' = Append(stack, c)
  /\ op' = [op EXCEPT ![c] = o]
  /\ aim' = IF o \in Writes THEN [aim EXCEPT ![c] = cursor] ELSE aim
  /\ pc' = [pc EXCEPT ![c] =
              IF o \in Writes THEN "room" ELSE IF o = "clear" THEN "wipe" ELSE "scroll"]
  /\ last' = IF stack = <<>> THEN o ELSE "none"
  /\ overlapped' = (overlapped \/ stack # <<>>)
  /\ inked' = IF overlapped' THEN Origin ELSE inked
  /\ UNCHANGED <<consoleVars, hwCursor, hwStart, reg>>

-----------------------------------------------------------------------------
(* Slips: the properties below reject each of them.                        *)

\* console_out_char lets the cursor reach the end of the console, and pass it.
HasRoomInclusive(o) ==
  CASE o = "char" -> cursor <= End
    [] o = "newline" -> cursor <= End
    [] o = "backspace" -> cursor > Origin

\* A newline goes to the beginning of its own line.
MovedToLine(o, from) ==
  CASE o = "char" -> from + 1
    [] o = "newline" -> Origin + Width * ((from - Origin) \div Width)
    [] o = "backspace" -> from - 1

\* console_out_char does not scroll.
LoopTestNot(c) == Choose(c, "test", FALSE, "scroll", "flushCursor")

\* The screen scrolls by whole lines of the console only.
CanScrollWhole(o) ==
  IF o = "up" THEN start > Origin ELSE start + Screen + Width <= End

-----------------------------------------------------------------------------
(* console_out_char.                                                       *)

HasRoom(o) ==
  CASE o = "char" -> cursor < End - 1
    [] o = "newline" -> cursor < End - Width
    [] o = "backspace" -> cursor > Origin

Moved(o, from) ==
  CASE o = "char" -> from + 1
    [] o = "newline" -> Origin + Width * ((from - Origin) \div Width + 1)
    [] o = "backspace" -> from - 1

TestRoom(c) ==
  Choose(c, "room", HasRoom(op[c]), IF op[c] = "char" THEN "store" ELSE "load", "loop")

\* *p_vmem++ = ch
Store(c) ==
  /\ Does(c, "store")
  /\ Ink(Max({inked, aim[c] + 1}))
  /\ Goto(c, "load")
  /\ UNCHANGED <<consoleVars, hwCursor, hwStart, histVars>>

LoadCursor(c) == Load(c, "load", cursor, "move")

Move(c) ==
  /\ Does(c, "move")
  /\ cursor' = Moved(op[c], reg[c])
  /\ Goto(c, IF op[c] = "backspace" THEN "erase" ELSE "loop")
  /\ UNCHANGED <<start, screenVars, histVars>>

\* *(p_vmem-2) = ' '
Erase(c) ==
  /\ Does(c, "erase")
  /\ Ink(IF inked = aim[c] THEN aim[c] - 1 ELSE inked)
  /\ Goto(c, "loop")
  /\ UNCHANGED <<consoleVars, hwCursor, hwStart, histVars>>

\* while (cursor >= current_start_addr + SCREEN_SIZE) scroll_screen(SCR_DN)
LoopLoad(c) == Load(c, "loop", cursor, "test")
LoopTest(c) == Choose(c, "test", reg[c] >= start + Screen, "scroll", "flushCursor")

-----------------------------------------------------------------------------
(* The CRT controller: console_set_cursor and set_console_start_addr run   *)
(* with interrupts off, on an argument loaded before.                      *)

SetCursor(c, here, next) ==
  /\ Does(c, here)
  /\ hwCursor' = reg[c]
  /\ Goto(c, next)
  /\ UNCHANGED <<consoleVars, hwStart, inked, histVars>>

SetStart(c, here, next) ==
  /\ Does(c, here)
  /\ hwStart' = reg[c]
  /\ Goto(c, next)
  /\ UNCHANGED <<consoleVars, hwCursor, inked, histVars>>

\* A slip the properties reject: console_out_char leaves the start register alone.
FlushCursorOnly(c) ==
  \/ Load(c, "flushCursor", cursor, "setCursor")
  \/ SetCursor(c, "setCursor", "idle")

Flush(c) ==
  \/ Load(c, "flushCursor", cursor, "setCursor")
  \/ SetCursor(c, "setCursor", "flushStart")
  \/ Load(c, "flushStart", start, "setStart")
  \/ SetStart(c, "setStart", "idle")

\* The order of scroll_screen and clear_screen.
Show(c) ==
  \/ Load(c, "showStart", start, "outStart")
  \/ SetStart(c, "outStart", "showCursor")
  \/ Load(c, "showCursor", cursor, "outCursor")
  \/ SetCursor(c, "outCursor", IF op[c] \in Writes THEN "loop" ELSE "idle")

-----------------------------------------------------------------------------
(* scroll_screen and clear_screen.                                         *)

CanScroll(o) == IF o = "up" THEN start > Origin ELSE start + Screen < End

ScrollTest(c) == Choose(c, "scroll", CanScroll(op[c]), "scrollLoad", "showStart")
ScrollLoad(c) == Load(c, "scrollLoad", start, "scrollStore")
ScrollStore(c) ==
  /\ Does(c, "scrollStore")
  /\ start' = IF op[c] = "up" THEN reg[c] - Width ELSE reg[c] + Width
  /\ Goto(c, "showStart")
  /\ UNCHANGED <<cursor, screenVars, histVars>>

\* for (i = original_addr; i < v_mem_limit/2; i++): blanks the first half
Wipe(c) == Choose(c, "wipe", TRUE, "homeStart", "homeStart")

HomeStart(c) ==
  /\ Does(c, "homeStart")
  /\ start' = Origin
  /\ Goto(c, "homeLoad")
  /\ UNCHANGED <<cursor, screenVars, histVars>>
HomeLoad(c) == Load(c, "homeLoad", start, "homeCursor")
HomeCursor(c) ==
  /\ Does(c, "homeCursor")
  /\ cursor' = reg[c]
  /\ Ink(Origin)
  /\ Goto(c, "showStart")
  /\ UNCHANGED <<start, hwCursor, hwStart, histVars>>

OutChar(c) == \/ TestRoom(c) \/ Store(c) \/ LoadCursor(c) \/ Move(c) \/ Erase(c)
              \/ LoopLoad(c) \/ LoopTest(c)
Scroll(c) == ScrollTest(c) \/ ScrollLoad(c) \/ ScrollStore(c)
Clear(c) == Wipe(c) \/ HomeStart(c) \/ HomeLoad(c) \/ HomeCursor(c)
Work == \E c \in Ctx : OutChar(c) \/ Flush(c) \/ Show(c) \/ Scroll(c) \/ Clear(c)

Next == \/ \E c \in Printers, o \in Prints : Begin(c, o)
        \/ \E o \in Ops : Begin("keyboard", o)
        \/ Work

Spec == Init /\ [][Next]_vars

\* The processor goes on; nothing makes anybody print.
FairSpec == Spec /\ WF_vars(Work)

-----------------------------------------------------------------------------
(* Correctness.                                                            *)

\* How far operations begun inside each other can push the cursor.
Highest == End - 1 + Width * (Cardinality(Ctx) - 1)

Points == {"idle", "room", "store", "load", "move", "erase", "loop", "test",
           "scroll", "scrollLoad", "scrollStore", "wipe", "homeStart", "homeLoad",
           "homeCursor", "showStart", "outStart", "showCursor", "outCursor",
           "flushCursor", "setCursor", "flushStart", "setStart"}

\* Every variable keeps its kind of value, and the stack holds the busy
\* contexts (a part of OverrunBounded).
TypeOK ==
  /\ cursor \in Nat /\ hwCursor \in Nat
  /\ start \in Nat /\ hwStart \in Nat
  /\ inked \in Nat
  /\ stack \in Seq(Ctx)
  /\ pc \in [Ctx -> Points]
  /\ \A c \in Ctx : pc[c] = "idle" <=> ~ Contains(stack, c)
  /\ op \in [Ctx -> Ops]
  /\ aim \in [Ctx -> Nat] /\ reg \in [Ctx -> Nat]
  /\ last \in Ops \union {"none"} /\ overlapped \in BOOLEAN

\* As long as no operation has begun inside another, console_out_char stores and
\* erases inside the video memory of its own console (a part of OverrunBounded).
StoresInRegion ==
  ~overlapped =>
    \A c \in Ctx : /\ pc[c] = "store" => aim[c] \in Region
                   /\ pc[c] = "erase" => aim[c] - 1 \in Region

\* While nothing interrupts them operations stay in their console; and however
\* they begin inside each other, the cursor passes the end of the console by at
\* most a line for each further context, and a character is stored no further
\* than that, nor erased before the cell that precedes the console.
OverrunBounded ==
  /\ TypeOK /\ StoresInRegion
  /\ cursor \in Origin..Highest
  /\ \A c \in Ctx : pc[c] \in {"store", "erase"} => aim[c] \in Origin..Highest

\* As long as no operation has begun inside another, the text printed since the
\* last clear_screen lies before the cursor: no character is printed over it.
TextBeforeCursor ==
  stack = <<>> /\ ~overlapped => inked <= cursor

\* An operation that nothing interrupted leaves the registers of the controller
\* at the console's cursor and start, whatever earlier races left in them.
RegistersFollow ==
  stack = <<>> /\ last # "none" => hwCursor = cursor /\ hwStart = start

\* A character that nothing interrupted leaves the cursor above the bottom of the
\* screen, even if scrolling up or an earlier race had moved the screen away.
CursorNotBelowScreen ==
  stack = <<>> /\ last \in Writes => cursor < start + Screen

\* Every operation ends, unless one has begun inside another: scrolling brings
\* every position the cursor can reach onto the screen.
OperationEnds == stack # <<>> ~> (stack = <<>> \/ overlapped)
=============================================================================
