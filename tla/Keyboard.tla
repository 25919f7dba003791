------------------------------- MODULE Keyboard -------------------------------
(***************************************************************************)
(* The keyboard driver (drivers/i386/keyboard.c) from the key to the tty:  *)
(* the bytes a key sends, the interrupt that puts one into the ring kb_in, *)
(* keyboard_read, which decodes what is in the ring, and handle_tty.       *)
(*                                                                         *)
(* IRQ 1 stays masked while its handler runs, so an interrupt begins only  *)
(* when keyboard_read has returned; the keyboard keeps what is typed       *)
(* meanwhile.  One step of keyboard_read is one turn of its loop.          *)
(*                                                                         *)
(* Characters are told apart only as far as the driver does, the ring's    *)
(* pointers are the ends of a sequence, and what handle_tty asks of the    *)
(* console is recorded (module Console has the console).                   *)
(*                                                                         *)
(* KbInit, KbNext and KbSpec have names of their own so that a module can  *)
(* extend the two halves of the terminal, this one and Console.            *)
(***************************************************************************)
EXTENDS Integers, Sequences, SequencesExt

CONSTANTS
  KB_IN_BYTES,   \* size of the ring
  TTY_IN_BYTES,  \* size of the tty's input buffer
  Keys,          \* the keys that are used, of those in ScanCodes
  MaxBehind,     \* bytes still to be delivered when a key is next touched
  MaxEcho        \* characters echoed, to keep the model finite

Byte == 0..255

ASSUME KeyboardAssumption ==
  /\ KB_IN_BYTES \in Nat \ {0} /\ TTY_IN_BYTES \in Nat
  /\ MaxBehind \in Nat /\ MaxEcho \in Nat

-----------------------------------------------------------------------------
(* The two tables of the file: what a key sends, and what a byte means      *)

Plain(code) == [make |-> <<code>>, brk |-> <<code + \h80>>]
Extended(code) == [make |-> <<\hE0, code>>, brk |-> <<\hE0, code + \h80>>]

\* Scan code set 1; KP 8 stands for the number pad.
ScanCodes ==
  [A |-> Plain(\h1E), L |-> Plain(\h26), ENTER |-> Plain(\h1C), BKSP |-> Plain(\h0E),
   LSHIFT |-> Plain(\h2A), RSHIFT |-> Plain(\h36), LCTRL |-> Plain(\h1D), LALT |-> Plain(\h38),
   CAPS |-> Plain(\h3A), NUM |-> Plain(\h45), SCROLL |-> Plain(\h46), KP8 |-> Plain(\h48),
   RCTRL |-> Extended(\h1D), RALT |-> Extended(\h38), PGUP |-> Extended(\h49),
   POWER |-> Extended(\h5E),
   PRTSCRN |-> [make |-> <<\hE0, \h2A, \hE0, \h37>>, brk |-> <<\hE0, \hB7, \hE0, \hAA>>],
   PAUSE |-> [make |-> <<\hE1, \h1D, \h45, \hE1, \h9D, \hC5>>, brk |-> <<>>]]

ASSUME KeysAssumption == Keys \subseteq DOMAIN ScanCodes

LetterRows == \h10..\h19 \cup \h1E..\h26 \cup \h2C..\h32
SymbolRows == 2..\h0D \cup {\h1A, \h1B, \h27, \h28, \h29, \h2B, \h33, \h34, \h35, \h37, \h39}

\* A row of the keymap: the key without shift, with shift, and after E0.
keymap(row) ==
  CASE row = \h26 -> <<"l", "L", "none">>
    [] row \in LetterRows \ {\h26} -> <<"letter", "LETTER", "none">>
    [] row \in SymbolRows -> <<"symbol", "shifted", IF row = \h35 THEN "PAD_SLASH" ELSE "none">>
    [] row = \h1C -> <<"ENTER", "ENTER", "PAD_ENTER">>
    [] row = \h0E -> <<"BACKSPACE", "BACKSPACE", "none">>
    [] row = \h1D -> <<"CTRL_L", "CTRL_L", "CTRL_R">>
    [] row = \h2A -> <<"SHIFT_L", "SHIFT_L", "none">>
    [] row = \h36 -> <<"SHIFT_R", "SHIFT_R", "none">>
    [] row = \h38 -> <<"ALT_L", "ALT_L", "ALT_R">>
    [] row = \h3A -> <<"CAPS_LOCK", "CAPS_LOCK", "none">>
    [] row = \h45 -> <<"NUM_LOCK", "NUM_LOCK", "none">>
    [] row = \h46 -> <<"SCROLL_LOCK", "SCROLL_LOCK", "none">>
    [] row \in {\h4A, \h4E} -> <<"PAD_SIGN", "symbol", "none">>
    [] row = \h4C -> <<"PAD_MID", "digit", "none">>
    [] row = \h49 -> <<"PAD_PAGEUP", "digit", "PAGEUP">>
    [] row = \h51 -> <<"PAD_PAGEDOWN", "digit", "PAGEDOWN">>
    [] row \in \h47..\h53 \ {\h49, \h4A, \h4C, \h4E, \h51} -> <<"PAD_MOVE", "digit", "MOVE">>
    [] row \in {1, \h0F} \cup \h3B..\h44 \cup {\h57, \h58} -> <<"function", "function", "none">>
    [] row \in \h5B..\h5D -> <<"none", "none", "GUI">>
    [] OTHER -> <<"none", "none", "none">>

Chars == {"l", "L", "letter", "LETTER", "symbol", "shifted", "digit", "none"}  \* without FLAG_EXT
PadKeys == {"PAD_SLASH", "PAD_SIGN", "PAD_ENTER", "PAD_MID", "PAD_PAGEUP", "PAD_PAGEDOWN", "PAD_MOVE"}
Modifiers == {"SHIFT_L", "SHIFT_R", "CTRL_L", "CTRL_R", "ALT_L", "ALT_R"}
Locks == {"CAPS_LOCK", "NUM_LOCK", "SCROLL_LOCK"}

\* The rows of the modifiers that a byte can set: the left and the right Ctrl and
\* Alt keys share theirs, since E0 is forgotten.
Code == [SHIFT_L |-> \h2A, SHIFT_R |-> \h36, CTRL_L |-> \h1D, ALT_L |-> \h38]

\* The modifiers that a sequence of bytes would clear.
Clears(bytes) == {m \in DOMAIN Code : \E i \in DOMAIN bytes : bytes[i] = Code[m] + \h80}

VARIABLES
  held,       \* the keys that are down
  wire,       \* the bytes the keyboard has still to deliver
  kb_in,      \* the ring
  reading,    \* is keyboard_read running?
  modifiers,  \* those of shift_l ... alt_r that are set
  locks,      \* those of caps_lock, num_lock, scroll_lock that are set
  column,
  stored,     \* the words stored through inbuf_head, oldest first
  echoed,     \* what tty_write was given
  swallowed,  \* history: the modifiers whose break code set_leds has taken for an
              \* answer, with no code of theirs decoded since
  decoded, afterE0  \* history: the last byte delivered, and did E0 precede it?

typed == <<held, wire>>
state == <<modifiers, locks, column>>
output == <<stored, echoed>>
history == <<swallowed, decoded, afterE0>>
kbVars == <<typed, kb_in, reading, state, output, history>>

\* keyboard_init, after tty_create.  (inbuf_head points into the frame of
\* tty_create, which is gone: what is stored goes there, and not to in_buff.)
KbInit ==
  /\ held = {} /\ wire = <<>>
  /\ kb_in = <<>> /\ reading = FALSE
  /\ modifiers = {} /\ locks = {"NUM_LOCK"} /\ column = 0
  /\ stored = <<>> /\ echoed = <<>>
  /\ swallowed = {} /\ decoded = 0 /\ afterE0 = FALSE

-----------------------------------------------------------------------------
(* The keyboard: a key that stays down repeats its make code.               *)

Press(k) ==
  /\ Len(wire) =< MaxBehind
  /\ held' = IF ScanCodes[k].brk = <<>> THEN held ELSE held \cup {k}
  /\ wire' = wire \o ScanCodes[k].make
  /\ UNCHANGED <<kb_in, reading, state, output, history>>

Release(k) ==
  /\ k \in held
  /\ Len(wire) =< MaxBehind
  /\ held' = held \ {k}
  /\ wire' = wire \o ScanCodes[k].brk
  /\ UNCHANGED <<kb_in, reading, state, output, history>>

keyboard_handler ==
  /\ ~reading /\ wire # <<>>
  /\ wire' = Tail(wire)
  /\ kb_in' = IF Len(kb_in) < KB_IN_BYTES THEN Append(kb_in, Head(wire)) ELSE kb_in
  /\ reading' = TRUE
  /\ decoded' = Head(wire) /\ afterE0' = (decoded = \hE0)
  /\ UNCHANGED <<held, state, output, swallowed>>

-----------------------------------------------------------------------------
(* keyboard_read                                                            *)

\* How many bytes a turn pops before it decodes.  get_tail does not consume:
\* after E0 or E1 it answers the prefix byte again, so that neither the Pause
\* nor the two PrintScreen sequences are ever recognised, nothing is popped
\* for E0, and the prefix itself is decoded (row 60h or 61h, a break code).
pops(byte) == CASE byte = \hE1 -> 7 [] byte = \hE0 -> 0 [] OTHER -> 1

\* Mutant of popsAtEnd: a key 0 ends the loop without the pop.
popsNothingAtEnd(stop) == 0

\* A turn that ends the loop pops once more, be there a byte or not.
popsAtEnd(stop) == IF stop THEN 1 ELSE 0

DropFirst(s, n) == SubSeq(s, n + 1, Len(s))

columnOf(byte) ==
  LET letter == byte % \h80 \in LetterRows
      shift == modifiers \cap {"SHIFT_L", "SHIFT_R"} # {}
  IN  IF byte = \hE0 THEN 2
      ELSE IF (shift # ("CAPS_LOCK" \in locks /\ letter)) THEN 1 ELSE 0

\* Mutant of setModifier: the break code of a modifier is ignored too.
setModifierOnly(key, make) == modifiers \cup (IF make THEN {key} \cap Modifiers ELSE {})

\* ALT_R sets alt_l.
setModifier(key, make) ==
  LET m == IF key = "ALT_R" THEN "ALT_L" ELSE key
  IN  IF key \notin Modifiers THEN modifiers
      ELSE IF make THEN modifiers \cup {m} ELSE modifiers \ {m}

toggle(key, make) ==
  IF key \in Locks /\ make
    THEN IF key \in locks THEN locks \ {key} ELSE locks \cup {key}
    ELSE locks

\* What a key of the number pad stands for.
padKey(key) ==
  CASE key \in {"PAD_SLASH", "PAD_SIGN"} -> "symbol"
    [] key = "PAD_ENTER" -> "ENTER"
    [] key \in {"PAD_MID", "PAD_PAGEUP", "PAD_PAGEDOWN", "PAD_MOVE"} /\ "NUM_LOCK" \in locks -> "digit"
    [] key = "PAD_PAGEUP" /\ "NUM_LOCK" \notin locks -> "PAGEUP"
    [] key = "PAD_PAGEDOWN" /\ "NUM_LOCK" \notin locks -> "PAGEDOWN"
    [] key = "PAD_MOVE" /\ "NUM_LOCK" \notin locks -> "MOVE"
    [] OTHER -> key

\* set_leds reads answers until the one it waits for: of the bytes the keyboard
\* had still to deliver, some first ones are lost.
set_leds ==
  \E n \in 0..Len(wire) :
    /\ wire' = DropFirst(wire, n)
    /\ swallowed' = swallowed \cup Clears(SubSeq(wire, 1, n))

\* Mutant of inputRoom: the count is compared with the wrong side of the end.
inputRoomTooLate == Len(stored) =< TTY_IN_BYTES

inputRoom == Len(stored) < TTY_IN_BYTES

\* The flags are compared with the key: Enter and Backspace are echoed, and the
\* page keys scroll, only without any modifier, and never from the number pad.
\* Clearing and scrolling change nothing here.
handle_tty(key, flags) ==
  LET asks == IF "CTRL_L" \in flags /\ key = "l" THEN "clear_screen"
              ELSE IF flags = {} /\ key \in {"PAGEUP", "PAGEDOWN"} THEN "scroll_screen"
              ELSE IF key \in Chars \/ (flags = {} /\ key \in {"ENTER", "BACKSPACE"}) THEN "tty_write"
              ELSE "nothing"
  IN  IF asks = "tty_write"
        THEN /\ Len(echoed) < MaxEcho
             /\ echoed' = Append(echoed, key)
             /\ stored' = IF inputRoom THEN Append(stored, key) ELSE stored
        ELSE UNCHANGED output

\* One turn of the loop; a key 0 without flags ends it, after one more pop.
keyboard_read ==
  /\ reading
  /\ LET byte  == Head(kb_in)
         make  == byte < \h80
         key   == keymap(byte % \h80)[columnOf(byte) + 1]
         pad   == key \in PadKeys
         mods  == setModifier(key, make)
         flags == mods \cup (IF pad THEN {"PAD"} ELSE {})
         stop  == key = "none" /\ (~make \/ mods = {})
         ring  == DropFirst(kb_in, pops(byte) + popsAtEnd(stop))
     IN  /\ column' = columnOf(byte)
         /\ modifiers' = mods
         /\ locks' = toggle(key, make)
         /\ IF locks' # locks THEN set_leds ELSE wire' = wire /\ swallowed' = swallowed \ {key}
         /\ IF make THEN handle_tty(IF pad THEN padKey(key) ELSE key, flags) ELSE UNCHANGED output
         /\ kb_in' = ring
         /\ reading' = (~stop /\ ring # <<>>)
  /\ UNCHANGED <<held, decoded, afterE0>>

KbNext ==
  \/ \E k \in Keys : Press(k) \/ Release(k)
  \/ keyboard_handler
  \/ keyboard_read

KbSpec == KbInit /\ [][KbNext]_kbVars

-----------------------------------------------------------------------------
(* Properties                                                               *)

\* Every variable keeps its kind of value (a part of RingDrained).
KbTypeOK ==
  /\ held \subseteq Keys /\ wire \in Seq(Byte) /\ kb_in \in Seq(Byte)
  /\ reading \in BOOLEAN /\ swallowed \subseteq DOMAIN Code
  /\ modifiers \subseteq Modifiers \ {"CTRL_R", "ALT_R"} /\ locks \subseteq Locks
  /\ column \in 0..2 /\ decoded \in Byte /\ afterE0 \in BOOLEAN

\* Every interrupt leaves the ring empty, whatever bytes have come in whatever
\* order: no byte is dropped for want of room (keyboard.c:284), none is popped
\* before it was looked at (keyboard.c:377-383, 604), and keyboard_read never
\* reads an empty ring.  It holds because each turn, a prefix's too, ends with
\* the one byte consumed.
RingDrained ==
  /\ KbTypeOK
  /\ ~reading => kb_in = <<>>
  /\ reading => kb_in = <<decoded>>

\* When all keys are up and all bytes are decoded, a modifier is on only if its
\* own break code was among the bytes that set_leds took for answers
\* (keyboard.c:731-738), and no code of it was decoded since: the bytes lost with
\* it turn no other modifier on, the modifier goes off with the next release of
\* either of its keys, and without that loss none stays on, however left and
\* right keys, the sequences with a modifier inside them (Pause alone toggles
\* Num Lock between the two codes of its Ctrl) and repeated codes follow one another.
ModifiersReleased ==
  held = {} /\ wire = <<>> /\ ~reading => modifiers \subseteq swallowed

\* What is stored through inbuf_head is the first TTY_IN_BYTES characters that
\* were echoed, in order, and no store follows them: nothing empties the
\* buffer, so input stops there while the echo goes on, and since inbuf_head
\* points into the frame of tty_create, that many words of the boot stack, and
\* no more, are overwritten.
InputIsEchoPrefix ==
  /\ IsPrefix(stored, echoed)
  /\ Len(stored) = (IF Len(echoed) < TTY_IN_BYTES THEN Len(echoed) ELSE TTY_IN_BYTES)

\* The head of the keymap says that its third column is for E0 XX: a byte
\* that follows E0 is looked up in column 2.
PrefixSelectsColumn ==
  ~reading /\ afterE0 /\ decoded \notin {\hE0, \hE1} => column = 2

=============================================================================
