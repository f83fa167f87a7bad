------------------------------ MODULE MCUuidGen ------------------------------
(***************************************************************************)
(* The uuid generator over digests that take every value in the byte the   *)
(* variant is put in, and the ends of both nibbles in the byte the version *)
(* is put in.                                                              *)
(***************************************************************************)
EXTENDS UuidGen

Ends == {0, 15, 240, 255}

MCDigests ==
    {[i \in 0 .. 15 |-> CASE i = 4 -> b4 [] i = 8 -> b8 [] OTHER -> 17 * i] :
        b4 \in Ends, b8 \in 0 .. 255}
=============================================================================
