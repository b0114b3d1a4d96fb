------------------------------ MODULE MCChatPanel ------------------------------
(* Two images are enough: one that is shown, one that is not. *)
EXTENDS ChatPanel

CONSTANTS i1, i2, r1, r2
=============================================================================
