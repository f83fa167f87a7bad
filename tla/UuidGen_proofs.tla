--------------------------- MODULE UuidGen_proofs ---------------------------
(***************************************************************************)
(* Proofs about the uuid generator, for any digests of 16 bytes.           *)
(***************************************************************************)
EXTENDS UuidGen, UuidText_proofs, FiniteSetTheorems

\* The text is that of the digest, and the two allocations are there exactly
\* where main needs them.
GenInv ==
    /\ TypeOK
    /\ FormOfUuid
    /\ pc = "mac" => digest = Nil
    /\ pc = "hyphen" => digest \in Digests
    /\ pc \in {"mac", "hash", "hyphen"} => hash = Nil
    /\ hash # Nil => digest \in Digests /\ hash = UuidOf(digest)
    /\ pc \in {"mac", "hash"} => output = "none" /\ hyphen = "none"
    /\ pc = "hyphen" => output = "live" /\ hyphen = "none"
    /\ pc = "print" => output = "freed" /\ hyphen = "live"
    /\ pc = "exit" => output # "live" /\ hyphen # "live"

LEMMA GenInvInit == Init => GenInv
BY DEF Init, GenInv, TypeOK, FormOfUuid, Allocation

LEMMA GenInvStep == GenInv /\ [Next]_vars => GenInv'
<1> SUFFICES ASSUME GenInv, [Next]_vars PROVE GenInv'
  OBVIOUS
<1> USE DEF GenInv
<1>1. CASE GetMacAddr
  BY <1>1 DEF GetMacAddr, TypeOK, FormOfUuid, Allocation
<1>2. CASE GenHashString
  BY <1>2 DEF GenHashString, TypeOK, FormOfUuid, Allocation
<1>3. CASE Hyphenate
  <2>1. digest \in [0 .. 15 -> Bytes]
    BY <1>3, DigestAssumption DEF Hyphenate, Bytes
  <2>2. HasForm(hash', 36, HyphenPlaces) /\ hash'[20] \in 8 .. 11
    BY <1>3, <2>1, UuidForm DEF Hyphenate
  <2>3. FormOfUuid' /\ hash' \in Seq(0 .. Hyphen)
    BY <2>2 DEF FormOfUuid, HasForm
  <2> QED BY <1>3, <2>3 DEF Hyphenate, TypeOK, Allocation
<1>4. CASE PrintHash
  BY <1>4 DEF PrintHash, TypeOK, FormOfUuid, Allocation
<1>5. CASE PrintTruncated
  BY <1>5 DEF PrintTruncated, TypeOK, FormOfUuid, Allocation
<1>6. CASE UNCHANGED vars
  BY <1>6 DEF vars, TypeOK, FormOfUuid, Allocation
<1> QED
  BY <1>1, <1>2, <1>3, <1>4, <1>5, <1>6 DEF Next, Ended

\* Type correctness of the generator.
THEOREM TypeCorrect == Spec => []TypeOK
<1>1. GenInv => TypeOK
  BY DEF GenInv
<1> QED BY <1>1, GenInvInit, GenInvStep, PTL DEF Spec

\* Whatever MD5 yields, the text is 36 characters long, has its hyphens where
\* a UUID has them and the digit of variant 1 behind the third.
THEOREM TextIsUuid == Spec => []FormOfUuid
<1>1. GenInv => FormOfUuid
  BY DEF GenInv
<1> QED BY <1>1, GenInvInit, GenInvStep, PTL DEF Spec

\* main frees what gen_hash_string and add_hyphen allocate.
THEOREM NothingLeft == Spec => []AllFreed
<1>1. GenInv => AllFreed
  BY DEF GenInv, AllFreed
<1> QED BY <1>1, GenInvInit, GenInvStep, PTL DEF Spec

\* What is in a text made of a digest: the digits of its 16 bytes in their
\* places, but for those the stamps change.
LEMMA TextOfDigest ==
    ASSUME NEW d \in [0 .. 15 -> Bytes],
           NEW p \in (1 .. 36) \ HyphenPlaces,
           NEW k, k = p - Cardinality({h \in HyphenPlaces : h < p})
    PROVE  /\ k \notin {9, 17} => UuidOf(d)[p] = HexText(d)[k]
           /\ k = 17 => UuidOf(d)[p] % 2 = HexText(d)[k] % 2
<1> DEFINE H == {h \in HyphenPlaces : h < p}
<1>1. DigitsOf(UuidOf(d), HexText(Stamp(d)))
  BY UuidForm
<1>2. k \in 1 .. 32 /\ UuidOf(d)[p] = HexText(Stamp(d))[k]
  <2>1. k = p - Cardinality(H) /\ Cardinality({}) = 0
    BY FS_EmptySet
  <2>2. /\ Cardinality({9}) = 1 /\ Cardinality({9, 14}) = 2
        /\ Cardinality({9, 14, 19}) = 3 /\ Cardinality({9, 14, 19, 24}) = 4
    <3>1. Cardinality({9}) = 1 /\ IsFiniteSet({9})
      BY FS_Singleton
    <3>2. Cardinality({9, 14}) = 2 /\ IsFiniteSet({9, 14})
      <4>1. {9, 14} = {9} \cup {14} /\ 14 \notin {9}
        OBVIOUS
      <4>2. /\ IsFiniteSet({9} \cup {14})
            /\ Cardinality({9} \cup {14}) = Cardinality({9}) + 1
        BY <3>1, <4>1, FS_AddElement
      <4> QED BY <3>1, <4>1, <4>2
    <3>3. Cardinality({9, 14, 19}) = 3 /\ IsFiniteSet({9, 14, 19})
      <4>1. {9, 14, 19} = {9, 14} \cup {19} /\ 19 \notin {9, 14}
        OBVIOUS
      <4>2. /\ IsFiniteSet({9, 14} \cup {19})
            /\ Cardinality({9, 14} \cup {19}) = Cardinality({9, 14}) + 1
        BY <3>2, <4>1, FS_AddElement
      <4> QED BY <3>2, <4>1, <4>2
    <3>4. Cardinality({9, 14, 19, 24}) = 4
      <4>1. {9, 14, 19, 24} = {9, 14, 19} \cup {24} /\ 24 \notin {9, 14, 19}
        OBVIOUS
      <4>2. Cardinality({9, 14, 19} \cup {24}) = Cardinality({9, 14, 19}) + 1
        BY <3>3, <4>1, FS_AddElement
      <4> QED BY <3>3, <4>1, <4>2
    <3> QED BY <3>1, <3>2, <3>3, <3>4
  <2>3. CASE p \in 1 .. 8
    <3>1. H = {}
      BY <2>3 DEF HyphenPlaces
    <3> HIDE DEF H
    <3>2. k = p /\ p + 0 = p
      BY <2>1, <2>3, <3>1
    <3> QED BY <1>1, <2>3, <3>2 DEF DigitsOf, Copied
  <2>4. CASE p \in 10 .. 13
    <3>1. H = {9}
      BY <2>4 DEF HyphenPlaces
    <3> HIDE DEF H
    <3>2. k \in 9 .. 12 /\ k + 1 = p
      BY <2>1, <2>2, <2>4, <3>1
    <3> QED BY <1>1, <3>2 DEF DigitsOf, Copied
  <2>5. CASE p \in 15 .. 18
    <3>1. H = {9, 14}
      BY <2>5 DEF HyphenPlaces
    <3> HIDE DEF H
    <3>2. k \in 13 .. 16 /\ k + 2 = p
      BY <2>1, <2>2, <2>5, <3>1
    <3> QED BY <1>1, <3>2 DEF DigitsOf, Copied
  <2>6. CASE p \in 20 .. 23
    <3>1. H = {9, 14, 19}
      BY <2>6 DEF HyphenPlaces
    <3> HIDE DEF H
    <3>2. k \in 17 .. 20 /\ k + 3 = p
      BY <2>1, <2>2, <2>6, <3>1
    <3> QED BY <1>1, <3>2 DEF DigitsOf, Copied
  <2>7. CASE p \in 25 .. 36
    <3>1. H = {9, 14, 19, 24}
      BY <2>7 DEF HyphenPlaces
    <3> HIDE DEF H
    <3>2. k \in 21 .. 32 /\ k + 4 = p
      BY <2>1, <2>2, <2>7, <3>1
    <3> QED BY <1>1, <3>2 DEF DigitsOf, Copied
  <2>8. \/ p \in 1 .. 8 \/ p \in 10 .. 13 \/ p \in 15 .. 18
        \/ p \in 20 .. 23 \/ p \in 25 .. 36
    BY DEF HyphenPlaces
  <2> QED BY <2>3, <2>4, <2>5, <2>6, <2>7, <2>8
<1> QED BY <1>2, StampedDigits

\* Whatever MD5 yields, the text holds all of it but seven bits: the version
\* digit and three bits of the variant digit.
THEOREM TextKeepsDigest == Spec => []KeepsDigest
<1>1. GenInv => KeepsDigest
  <2> SUFFICES ASSUME GenInv, hash # Nil PROVE KeepsDigest
    BY DEF KeepsDigest
  <2>1. digest \in [0 .. 15 -> Bytes] /\ hash = UuidOf(digest)
    BY DigestAssumption DEF GenInv, Bytes
  <2> QED BY <2>1, TextOfDigest DEF KeepsDigest
<1> QED BY <1>1, GenInvInit, GenInvStep, PTL DEF Spec
=============================================================================
