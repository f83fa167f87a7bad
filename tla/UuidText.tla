------------------------------ MODULE UuidText ------------------------------
(***************************************************************************)
(* The text of a UUID, as gen_hash_string and add_hyphen of uuid.c make it *)
(* of a digest of 16 bytes.  A hexadecimal digit is a number below 16, and *)
(* the hyphen is the number 16.                                            *)
(***************************************************************************)
EXTENDS Naturals, Sequences

Hyphen == 16

\* Mutant: the bits the variant takes are not cleared first.
StampUncleared(d) ==
    [d EXCEPT ![4] = 48 + (@ % 16), ![8] = 160 + (@ % 32) + 64 * ((@ \div 64) % 2)]

\* digest[4] & 0x0F | 0x30 and digest[8] & 0x3F | 0xA0.
Stamp(d) == [d EXCEPT ![4] = 48 + (@ % 16), ![8] = 160 + (@ % 32)]

\* "%02X" of every byte.
HexText(d) ==
    [k \in 1 .. 32 |-> IF k % 2 = 1 THEN d[(k - 1) \div 2] \div 16
                                    ELSE d[(k - 1) \div 2] % 16]

\* Mutant: the fourth group is copied from one digit too early.
AddHyphenOverlap(h) ==
    SubSeq(h, 1, 8) \o <<Hyphen>> \o SubSeq(h, 9, 12) \o <<Hyphen>> \o
    SubSeq(h, 13, 16) \o <<Hyphen>> \o SubSeq(h, 16, 19) \o <<Hyphen>> \o
    SubSeq(h, 21, 32)

\* Groups of 8, 4, 4, 4 and 12 digits.
AddHyphen(h) ==
    SubSeq(h, 1, 8) \o <<Hyphen>> \o SubSeq(h, 9, 12) \o <<Hyphen>> \o
    SubSeq(h, 13, 16) \o <<Hyphen>> \o SubSeq(h, 17, 20) \o <<Hyphen>> \o
    SubSeq(h, 21, 32)

\* Where it puts the hyphens.
HyphenPlaces == {9, 14, 19, 24}

\* What gen_hash_string makes of a digest.
UuidOf(d) == AddHyphen(HexText(Stamp(d)))
=============================================================================
