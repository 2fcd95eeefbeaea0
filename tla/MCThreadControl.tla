--------------------------- MODULE MCThreadControl ---------------------------
(* Two documents, of one tree after the other or of two trees at once. *)
EXTENDS ThreadControl, TLC

CONSTANTS t1, t2
==============================================================================
