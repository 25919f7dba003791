SPECIFICATION KbSpec
CONSTANTS
  KB_IN_BYTES = 4
  TTY_IN_BYTES = 1
  Keys <- MCKeys
  MaxBehind = 1
  MaxEcho = 2
INVARIANTS RingDrained ModifiersReleased InputIsEchoPrefix
CHECK_DEADLOCK FALSE
