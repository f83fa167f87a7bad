--------------------------- MODULE UuidTest_proofs ---------------------------
(***************************************************************************)
(* Proofs about the test program of the uuid generator, for files of any   *)
(* number of words there is room for.                                      *)
(***************************************************************************)
EXTENDS UuidTest, UuidText_proofs, FiniteSetTheorems

\* How far the texts are made, and where the two loops are.
TestInv ==
    /\ TypeOK
    /\ pc \in {"args", "read"} => macs = <<>> /\ reports = <<>>
    /\ pc \in {"args", "read", "hash"} => i = 1 /\ k = 1
    /\ pc = "hash" => Len(hashes) < Len(macs)
    /\ pc = "compare" => /\ Len(hashes) = Len(macs)
                         /\ i \in 1 .. Len(macs) /\ k \in 1 .. Len(macs)

LEMMA TestInvInit == Init => TestInv
<1>1. /\ \A S : <<>> \in Seq(S)
      /\ Len(<<>>) = 0
  BY EmptySeq
<1> QED
  BY <1>1, FileAssumption DEF Init, TestInv, TypeOK

\* The text of a word is a text.
LEMMA TextOfWord ==
    ASSUME TypeOK, NEW n \in 1 .. Len(macs)
    PROVE  UuidOf(macs[n]) \in Seq(0 .. Hyphen)
<1>1. macs[n] \in Digests
  BY ElementOfSeq DEF TypeOK
<1>2. macs[n] \in [0 .. 15 -> Bytes]
  BY <1>1, FileAssumption DEF Bytes
<1> QED BY <1>2, UuidForm DEF HasForm

LEMMA TestInvStep == TestInv /\ [Next]_vars => TestInv'
<1> SUFFICES ASSUME TestInv, [Next]_vars PROVE TestInv'
  OBVIOUS
<1> USE DEF TestInv
<1>1. CASE Args
  BY <1>1 DEF Args, TypeOK
<1>2. CASE ReadWords
  <2>1. macs' \in Seq(Digests) /\ Len(macs') \in 1 .. MAX_TRIAL
    <3>1. PICK file \in Files :
            macs' \in IF file = <<>> THEN {<<d>> : d \in Digests} ELSE {file}
      BY <1>2 DEF ReadWords
    <3>2. CASE file = <<>>
      <4>1. PICK d \in Digests : macs' = <<d>>
        BY <3>1, <3>2
      <4> QED BY <4>1, FileAssumption
    <3>3. CASE file # <<>>
      <4>1. macs' = file /\ file \in Seq(Digests) /\ Len(file) <= MAX_TRIAL
        BY <3>1, <3>3, FileAssumption
      <4>2. Len(file) \in Nat \ {0}
        BY <3>3, <4>1, EmptySeq
      <4> QED BY <4>1, <4>2, FileAssumption
    <3> QED BY <3>2, <3>3
  <2>2. hashes = <<>> /\ reports = <<>>
    BY <1>2, EmptySeq DEF ReadWords, TypeOK
  <2>3. /\ <<>> \in Seq(Seq(0 .. Hyphen)) /\ <<>> \in Seq(DOMAIN macs')
        /\ Len(<<>>) = 0
    BY EmptySeq
  <2> QED BY <1>2, <2>1, <2>2, <2>3, FileAssumption DEF ReadWords, TypeOK
<1>3. CASE OpenFails
  <2>1. hashes = <<>>
    BY <1>3, EmptySeq DEF OpenFails, TypeOK
  <2> QED BY <1>3, <2>1 DEF OpenFails, TypeOK
<1>4. CASE HashWord
  <2> DEFINE n == Len(hashes) + 1
  <2>1. n \in 1 .. Len(macs) /\ Len(hashes) \in Nat /\ Len(macs) \in Nat
    BY <1>4, LenProperties DEF HashWord, TypeOK
  <2>2. UuidOf(macs[n]) \in Seq(0 .. Hyphen)
    BY <2>1, TextOfWord
  <2>3. hashes' \in Seq(Seq(0 .. Hyphen)) /\ Len(hashes') = n
    BY <1>4, <2>2 DEF HashWord, TypeOK
  <2>4. /\ macs' = macs /\ i' = 1 /\ k' = 1 /\ reports' = reports
        /\ err' = err /\ exit' = exit
        /\ pc' = IF Len(hashes') < Len(macs) THEN "hash" ELSE "compare"
    BY <1>4 DEF HashWord
  <2>5. pc' = "compare" => Len(hashes') = Len(macs)
    BY <2>1, <2>3, <2>4
  <2>6. DOMAIN hashes' = 1 .. n
    BY <2>3, LenProperties
  <2> QED BY <2>1, <2>3, <2>4, <2>5, <2>6 DEF TypeOK
<1>5. CASE Compare
  <2>1. /\ pc = "compare" /\ macs' = macs /\ hashes' = hashes /\ exit' = exit
        /\ k' = IF k < Len(macs) THEN k + 1 ELSE 1
        /\ i' = IF k < Len(macs) THEN i ELSE i + 1
        /\ pc' = IF i' > Len(macs) THEN "free" ELSE pc
        /\ \/ reports' = Append(reports, i) /\ err' = 1
           \/ reports' = reports /\ err' = err
    BY <1>5 DEF Compare
  <2>2. Len(macs) \in Nat /\ DOMAIN macs = 1 .. Len(macs)
                          /\ DOMAIN hashes = 1 .. Len(hashes)
    BY LenProperties DEF TypeOK
  <2>3. reports' \in Seq(DOMAIN macs)
    <3>1. i \in DOMAIN macs
      BY <2>1, <2>2
    <3>2. reports \in Seq(DOMAIN macs)
      BY DEF TypeOK
    <3>3. \A S : \A s \in Seq(S), e \in S : Append(s, e) \in Seq(S)
      OBVIOUS
    <3> QED BY <2>1, <3>1, <3>2, <3>3
  <2>4. pc' = "compare" => i' \in 1 .. Len(macs) /\ k' \in 1 .. Len(macs)
    BY <2>1, <2>2
  <2> QED BY <2>1, <2>2, <2>3, <2>4 DEF TypeOK
<1>6. CASE Free
  <2>1. <<>> \in Seq(Seq(0 .. Hyphen)) /\ Len(<<>>) = 0 /\ Len(macs) \in Nat
    BY EmptySeq, LenProperties DEF TypeOK
  <2> QED BY <1>6, <2>1 DEF Free, TypeOK
<1>7. CASE MainReturns
  BY <1>7 DEF MainReturns, TypeOK
<1>8. CASE UNCHANGED vars
  BY <1>8 DEF vars, TypeOK
<1> QED
  BY <1>1, <1>2, <1>3, <1>4, <1>5, <1>6, <1>7, <1>8 DEF Next, Exited

\* The test program never compares a text it has not made or has freed, and
\* frees all of them before it returns, however many words the file has.
THEOREM TypeCorrect == Spec => []TypeOK
<1>1. TestInv => TypeOK
  BY DEF TestInv
<1> QED BY <1>1, TestInvInit, TestInvStep, PTL DEF Spec

\* strncmp finds two texts alike exactly if their digests are told the same.
LEMMA AlikeIsTold ==
    ASSUME NEW d \in [0 .. 15 -> Bytes], NEW e \in [0 .. 15 -> Bytes]
    PROVE  Alike(UuidOf(d), UuidOf(e)) <=> Told(d) = Told(e)
<1> DEFINE D == Stamp(d)
           E == Stamp(e)
<1>1. D \in [0 .. 15 -> Bytes] /\ E \in [0 .. 15 -> Bytes]
  BY StampBytes
<1>2. Alike(UuidOf(d), UuidOf(e)) <=>
         \A j \in 1 .. 14 : HexText(D)[j] = HexText(E)[j]
  BY <1>1, UuidForm, HexTextDigits, SameStart DEF Alike
<1>3. (\A j \in 1 .. 14 : HexText(D)[j] = HexText(E)[j]) <=>
         \A n \in 0 .. 6 : D[n] = E[n]
  <2> HIDE DEF D, E
  <2>1. ASSUME \A j \in 1 .. 14 : HexText(D)[j] = HexText(E)[j], NEW n \in 0 .. 6
        PROVE  D[n] = E[n]
    <3>1. 2 * n + 1 \in 1 .. 14 /\ 2 * n + 2 \in 1 .. 14 /\ n \in 0 .. 15
      OBVIOUS
    <3> QED BY <1>1, <2>1, <3>1, DigitsTellByte
  <2>2. ASSUME \A n \in 0 .. 6 : D[n] = E[n], NEW j \in 1 .. 14
        PROVE  HexText(D)[j] = HexText(E)[j]
    <3> DEFINE n == (j - 1) \div 2
    <3>1. n \in 0 .. 6 /\ n \in 0 .. 15 /\ (j = 2 * n + 1 \/ j = 2 * n + 2)
      OBVIOUS
    <3> HIDE DEF n
    <3> QED BY <1>1, <2>2, <3>1, DigitsTellByte
  <2> QED BY <2>1, <2>2
<1>4. D[4] = E[4] <=> d[4] % 16 = e[4] % 16
  <2>1. D[4] = 48 + (d[4] % 16) /\ E[4] = 48 + (e[4] % 16)
    BY DEF Stamp
  <2>2. d[4] \in Bytes /\ e[4] \in Bytes
    OBVIOUS
  <2> QED BY <2>1, <2>2 DEF Bytes
<1>5. \A n \in (0 .. 6) \ {4} : D[n] = d[n] /\ E[n] = e[n]
  BY DEF Stamp
<1>6. (\A n \in 0 .. 6 : D[n] = E[n]) <=> Told(d) = Told(e)
  <2>1. 0 .. 6 = {0, 1, 2, 3, 4, 5, 6}
    OBVIOUS
  <2>2. (\A n \in 0 .. 6 : D[n] = E[n]) <=>
          /\ D[0] = E[0] /\ D[1] = E[1] /\ D[2] = E[2] /\ D[3] = E[3]
          /\ D[4] = E[4] /\ D[5] = E[5] /\ D[6] = E[6]
    BY <2>1
  <2>3. \A n \in {0, 1, 2, 3, 5, 6} : D[n] = d[n] /\ E[n] = e[n]
    BY <1>5
  <2> HIDE DEF D, E
  <2> QED BY <1>4, <2>2, <2>3 DEF Told
<1> QED BY <1>2, <1>3, <1>6

\* The lines printed about a word, the words like it, and the turns of the two
\* loops that are over.
Reports(n) == {r \in DOMAIN reports : reports[r] = n}
Duplicates(n) == {m \in DOMAIN macs : m # n /\ Told(macs[m]) = Told(macs[n])}
Over(n, m) == n < i \/ (n = i /\ m < k)

\* So far one line is printed for every pair of like words already compared.
CountInv ==
    /\ \A n \in DOMAIN hashes : hashes[n] = UuidOf(macs[n])
    /\ pc \in {"args", "read", "hash"} => reports = <<>>
    /\ pc \in {"compare", "free"} =>
         \A n \in DOMAIN macs :
            Cardinality(Reports(n)) = Cardinality({m \in Duplicates(n) : Over(n, m)})
    /\ pc = "free" => i \in Nat /\ i > Len(macs)
    /\ ReportsDuplicates

LEMMA CountInvInit == Init => CountInv
BY DEF Init, CountInv, ReportsDuplicates

LEMMA CountsFinite ==
    ASSUME TypeOK
    PROVE  /\ Len(macs) \in Nat /\ DOMAIN macs = 1 .. Len(macs)
           /\ Len(reports) \in Nat /\ DOMAIN reports = 1 .. Len(reports)
           /\ \A n : IsFiniteSet(Reports(n)) /\ IsFiniteSet(Duplicates(n))
<1>1. /\ Len(macs) \in Nat /\ DOMAIN macs = 1 .. Len(macs)
      /\ Len(reports) \in Nat /\ DOMAIN reports = 1 .. Len(reports)
  BY LenProperties DEF TypeOK
<1>2. IsFiniteSet(DOMAIN macs) /\ IsFiniteSet(DOMAIN reports)
  BY <1>1, FS_Interval
<1>3. ASSUME NEW n
      PROVE  IsFiniteSet(Reports(n)) /\ IsFiniteSet(Duplicates(n))
  <2>1. Reports(n) \subseteq DOMAIN reports /\ Duplicates(n) \subseteq DOMAIN macs
    BY DEF Reports, Duplicates
  <2> QED BY <1>2, <2>1, FS_Subset
<1> QED BY <1>1, <1>3

\* One turn of the loops: the pair compared is over, and no other.
LEMMA TurnOver ==
    ASSUME TestInv, Compare, NEW n \in DOMAIN macs, NEW m \in DOMAIN macs
    PROVE  Over(n, m)' <=> Over(n, m) \/ (n = i /\ m = k)
<1>1. /\ i \in 1 .. Len(macs) /\ k \in 1 .. Len(macs) /\ Len(macs) \in Nat
      /\ n \in 1 .. Len(macs) /\ m \in 1 .. Len(macs)
  BY CountsFinite DEF TestInv, Compare
<1>2. /\ k' = IF k < Len(macs) THEN k + 1 ELSE 1
      /\ i' = IF k < Len(macs) THEN i ELSE i + 1
  BY DEF Compare
<1> QED BY <1>1, <1>2 DEF Over

\* One turn prints a line about n exactly if it finds a word like n.
LEMMA TurnCounts ==
    ASSUME TestInv, CountInv, Compare, NEW n \in DOMAIN macs
    PROVE  Cardinality(Reports(n))' =
               Cardinality({m \in Duplicates(n) : Over(n, m)}')
<1> DEFINE old == {m \in Duplicates(n) : Over(n, m)}
           new == {m \in Duplicates(n) : Over(n, m)'}
           hit == n = i /\ k \in Duplicates(n)
<1>1. /\ pc = "compare" /\ macs' = macs /\ Duplicates(n)' = Duplicates(n)
      /\ IF i # k /\ Alike(hashes[i], hashes[k])
         THEN reports' = Append(reports, i) ELSE reports' = reports
  BY DEF Compare, Duplicates
<1>2. /\ i \in DOMAIN macs /\ k \in DOMAIN macs
      /\ hashes[i] = UuidOf(macs[i]) /\ hashes[k] = UuidOf(macs[k])
      /\ reports \in Seq(DOMAIN macs)
  BY <1>1, CountsFinite DEF TestInv, TypeOK, CountInv
<1>3. macs[i] \in [0 .. 15 -> Bytes] /\ macs[k] \in [0 .. 15 -> Bytes]
  <2>1. macs[i] \in Digests /\ macs[k] \in Digests
    BY <1>2, CountsFinite, ElementOfSeq DEF TestInv, TypeOK
  <2> QED BY <2>1, FileAssumption DEF Bytes
<1>4. Alike(hashes[i], hashes[k]) <=> Told(macs[i]) = Told(macs[k])
  BY <1>2, <1>3, AlikeIsTold
<1>5. IsFiniteSet(Reports(n)) /\ IsFiniteSet(old)
  <2>1. IsFiniteSet(Reports(n)) /\ IsFiniteSet(Duplicates(n))
    BY CountsFinite DEF TestInv
  <2> QED BY <2>1, FS_Subset
<1>6. Cardinality(Reports(n)) = Cardinality(old)
  BY <1>1 DEF CountInv
<1>7. Duplicates(n) \subseteq DOMAIN macs
  BY DEF Duplicates
<1>8. CASE hit
  <2>1. reports' = Append(reports, n)
    <3>1. i # k /\ Told(macs[i]) = Told(macs[k])
      BY <1>8 DEF Duplicates
    <3> QED BY <1>1, <1>4, <1>8, <3>1
  <2>2. Reports(n)' = Reports(n) \cup {Len(reports) + 1}
    BY <1>2, <2>1, CountsFinite DEF Reports, TestInv
  <2>3. Len(reports) + 1 \notin Reports(n)
    BY CountsFinite DEF Reports, TestInv
  <2>4. new = old \cup {k} /\ k \notin old
    <3>1. \A m \in Duplicates(n) : Over(n, m)' <=> Over(n, m) \/ m = k
      BY <1>7, <1>8, TurnOver
    <3>2. ~ Over(n, k)
      BY <1>2, <1>8, CountsFinite DEF Over, TestInv
    <3> QED BY <1>8, <3>1, <3>2
  <2> HIDE DEF old, new
  <2>5. /\ Cardinality(Reports(n) \cup {Len(reports) + 1}) = Cardinality(Reports(n)) + 1
        /\ Cardinality(old \cup {k}) = Cardinality(old) + 1
    BY <1>5, <2>3, <2>4, FS_AddElement
  <2>6. Cardinality(Reports(n)') = Cardinality(new)
    BY <1>6, <2>2, <2>4, <2>5
  <2> QED BY <1>1, <2>6 DEF new
<1>9. CASE ~ hit
  <2>1. Reports(n)' = Reports(n)
    <3>1. CASE reports' = reports
      BY <3>1 DEF Reports
    <3>2. CASE reports' = Append(reports, i) /\ n # i
      BY <1>2, <3>2, CountsFinite DEF Reports, TestInv
    <3>3. reports' = reports \/ (reports' = Append(reports, i) /\ n # i)
      BY <1>1, <1>2, <1>4, <1>9 DEF Duplicates
    <3> QED BY <3>1, <3>2, <3>3
  <2>2. new = old
    <3>1. \A m \in Duplicates(n) : Over(n, m)' <=> Over(n, m)
      BY <1>7, <1>9, TurnOver
    <3> QED BY <3>1
  <2> HIDE DEF old, new
  <2>3. Cardinality(Reports(n)') = Cardinality(new)
    BY <1>6, <2>1, <2>2
  <2> QED BY <1>1, <2>3 DEF new
<1> QED BY <1>8, <1>9

\* Once both loops are over, all pairs are.
LEMMA AllCounted ==
    ASSUME TypeOK, i > Len(macs), i \in Int, NEW n \in DOMAIN macs,
           Cardinality(Reports(n)) = Cardinality({m \in Duplicates(n) : Over(n, m)})
    PROVE  Cardinality(Reports(n)) = Cardinality(Duplicates(n))
<1>1. \A m \in Duplicates(n) : Over(n, m)
  BY CountsFinite DEF Over
<1>2. {m \in Duplicates(n) : Over(n, m)} = Duplicates(n)
  BY <1>1
<1> QED BY <1>2

LEMMA CountInvStep == TestInv /\ CountInv /\ [Next]_vars => CountInv'
<1> SUFFICES ASSUME TestInv, CountInv, [Next]_vars PROVE CountInv'
  OBVIOUS
<1>1. CASE Args
  BY <1>1 DEF Args, TestInv, CountInv, ReportsDuplicates
<1>2. CASE ReadWords
  <2>1. hashes' = <<>>
    BY <1>2, EmptySeq DEF ReadWords, TestInv, TypeOK
  <2> QED BY <1>2, <2>1 DEF ReadWords, TestInv, CountInv, ReportsDuplicates
<1>3. CASE OpenFails
  BY <1>3 DEF OpenFails, TestInv, CountInv, ReportsDuplicates
<1>4. CASE HashWord
  <2>1. /\ macs' = macs /\ reports' = <<>> /\ i' = 1 /\ k' = 1
        /\ pc' \in {"hash", "compare"}
    BY <1>4 DEF HashWord, TestInv, CountInv
  <2>2. \A n \in DOMAIN hashes' : hashes'[n] = UuidOf(macs[n])
    <3>1. /\ hashes \in Seq(Seq(0 .. Hyphen)) /\ Len(hashes) \in Nat
          /\ DOMAIN hashes = 1 .. Len(hashes)
      BY LenProperties DEF TestInv, TypeOK
    <3>2. Len(hashes) + 1 \in 1 .. Len(macs)
      BY <1>4, <3>1, CountsFinite DEF HashWord, TestInv
    <3>3. UuidOf(macs[Len(hashes) + 1]) \in Seq(0 .. Hyphen)
      BY <3>2, TextOfWord DEF TestInv
    <3>4. /\ DOMAIN hashes' = 1 .. Len(hashes) + 1
          /\ \A n \in 1 .. Len(hashes) : hashes'[n] = hashes[n]
          /\ hashes'[Len(hashes) + 1] = UuidOf(macs[Len(hashes) + 1])
      BY <1>4, <3>1, <3>3 DEF HashWord
    <3> QED BY <3>1, <3>4 DEF CountInv
  <2>3. ASSUME NEW n \in DOMAIN macs
        PROVE  Cardinality(Reports(n))' =
                   Cardinality({m \in Duplicates(n) : Over(n, m)}')
    <3>1. Reports(n)' = {}
      <4>1. DOMAIN <<>> = {}
        OBVIOUS
      <4> QED BY <2>1, <4>1 DEF Reports
    <3>2. {m \in Duplicates(n) : Over(n, m)}' = {}
      <4>1. \A m \in DOMAIN macs : ~ Over(n, m)'
        BY <2>1, CountsFinite DEF Over, TestInv
      <4> QED BY <2>1, <4>1 DEF Duplicates
    <3> QED BY <3>1, <3>2
  <2> QED BY <2>1, <2>2, <2>3 DEF CountInv, ReportsDuplicates
<1>5. CASE Compare
  BY <1>5, TurnCounts DEF Compare, TestInv, CountInv, ReportsDuplicates
<1>6. CASE Free
  <2>1. /\ pc = "free" /\ pc' = "return" /\ macs' = macs /\ reports' = reports
        /\ hashes' = <<>> /\ DOMAIN <<>> = {}
    BY <1>6 DEF Free
  <2>2. \A n \in DOMAIN macs : Cardinality(Reports(n)) = Cardinality(Duplicates(n))
    <3>1. TypeOK /\ i > Len(macs) /\ i \in Int
      BY <2>1 DEF TestInv, CountInv
    <3>2. \A n \in DOMAIN macs :
             Cardinality(Reports(n)) = Cardinality({m \in Duplicates(n) : Over(n, m)})
      BY <2>1 DEF CountInv
    <3> QED BY <3>1, <3>2, AllCounted
  <2>3. ReportsDuplicates'
    BY <2>1, <2>2 DEF ReportsDuplicates, Reports, Duplicates
  <2> QED BY <2>1, <2>3 DEF CountInv
<1>7. CASE MainReturns
  BY <1>7 DEF MainReturns, TestInv, CountInv, ReportsDuplicates
<1>8. CASE UNCHANGED vars
  BY <1>8 DEF vars, CountInv, ReportsDuplicates, Reports, Duplicates, Over
<1> QED
  BY <1>1, <1>2, <1>3, <1>4, <1>5, <1>6, <1>7, <1>8 DEF Next, Exited

\* Of a file of any length, the program prints a line about a word for every
\* other word that the first 16 characters cannot tell from it, and no other.
THEOREM DuplicatesReported == Spec => []ReportsDuplicates
<1>1. CountInv => ReportsDuplicates
  BY DEF CountInv
<1> QED
  BY <1>1, TestInvInit, TestInvStep, CountInvInit, CountInvStep, PTL DEF Spec
=============================================================================
