---------------------------- MODULE MCUpdateTime ----------------------------
(***************************************************************************)
(* update-time on a small instance: days at both ends of the window it     *)
(* accepts, bodies that are shorter than a time, a time, and two in a row. *)
(***************************************************************************)
EXTENDS UpdateTime

MCDays == {0, 16789, 16790, 16791, 18000, 21899, 21900, 21901}
MCGoodDays == {0, 18000}
=============================================================================
