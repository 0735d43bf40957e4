--------------------------- MODULE MCFaqQaNotify ---------------------------
(* The TLC instance of FaqQaNotify. *)
EXTENDS FaqQaNotify, TLC
=============================================================================
