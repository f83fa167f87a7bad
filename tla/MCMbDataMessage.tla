--------------------------- MODULE MCMbDataMessage ---------------------------
(***************************************************************************)
(* The message class on a small instance: two registers of two words.      *)
(***************************************************************************)
EXTENDS MbDataMessage, TLC

CONSTANTS i1, i2, i3

MCIds == {i1, i2, i3}

IdSymmetry == Permutations(MCIds)
=============================================================================
