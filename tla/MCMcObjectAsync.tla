--------------------------- MODULE MCMcObjectAsync ---------------------------
(***************************************************************************)
(* Two threads of one allocator for TLC.                                   *)
(***************************************************************************)
EXTENDS McObjectAsync, TLC

CONSTANTS main, stream

MCThreads == {main, stream}
MCSymmetry == Permutations(MCThreads)
=============================================================================
