SPECIFICATION KbSpec
CONSTANTS
  KB_IN_BYTES = 4
  TTY_IN_BYTES = 1
  Keys <- MCExtendedKeys
  MaxBehind = 1
  MaxEcho = 2
INVARIANT PrefixSelectsColumn
CHECK_DEADLOCK FALSE
