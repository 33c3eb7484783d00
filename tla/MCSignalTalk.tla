--------------------------- MODULE MCSignalTalk ----------------------------
(* The conversation of child-parent.c, with and without a user at the terminal. *)
EXTENDS SignalTalk
============================================================================
