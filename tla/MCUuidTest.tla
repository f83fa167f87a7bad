----------------------------- MODULE MCUuidTest -----------------------------
(***************************************************************************)
(* Files of up to four words whose digests differ in one place: in either  *)
(* half of the byte the 3 is written to, in the last byte the 16           *)
(* characters tell of, in the byte behind it, or nowhere.                  *)
(***************************************************************************)
EXTENDS UuidTest

Base == [n \in 0 .. 15 |-> 17 * n]

MCDigests ==
    {Base, [Base EXCEPT ![4] = 20], [Base EXCEPT ![4] = 69],
           [Base EXCEPT ![6] = 103], [Base EXCEPT ![7] = 120]}

MCFiles == UNION {[1 .. n -> MCDigests] : n \in 0 .. 4}
=============================================================================
