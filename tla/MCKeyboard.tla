------------------------------ MODULE MCKeyboard ------------------------------
(* The keys for model checking Keyboard: a letter, the two keys that share    *)
(* ctrl_l, a lock, and the two keys whose sequences have a modifier inside; for *)
(* the run about prefixes a letter and three keys whose codes follow an E0.     *)
EXTENDS Keyboard
MCKeys == {"L", "LCTRL", "RCTRL", "NUM", "PRTSCRN", "PAUSE"}
MCExtendedKeys == {"L", "RCTRL", "PGUP", "POWER"}
=============================================================================
