--------------------------- MODULE UuidText_proofs ---------------------------
(***************************************************************************)
(* What the text of a UUID looks like, for any digest of 16 bytes.         *)
(***************************************************************************)
EXTENDS UuidText, SequenceTheorems, TLAPS

Bytes == 0 .. 255
Digits == 0 .. 15

\* The stamps leave bytes, and the variant byte between 160 and 191.
LEMMA StampBytes ==
    ASSUME NEW d \in [0 .. 15 -> Bytes]
    PROVE  Stamp(d) \in [0 .. 15 -> Bytes] /\ Stamp(d)[8] \in 160 .. 191
<1>1. d[4] \in Bytes /\ d[8] \in Bytes
  OBVIOUS
<1>2. d[4] % 16 \in 0 .. 15 /\ d[8] % 32 \in 0 .. 31
  BY <1>1 DEF Bytes
<1>3. 48 + (d[4] % 16) \in Bytes /\ 160 + (d[8] % 32) \in 160 .. 191
  BY <1>2 DEF Bytes
<1>4. 160 + (d[8] % 32) \in Bytes
  BY <1>3 DEF Bytes
<1> QED BY <1>3, <1>4 DEF Stamp

\* Two digits for every byte; the 17th is the upper half of byte 8.
LEMMA HexTextDigits ==
    ASSUME NEW d \in [0 .. 15 -> Bytes]
    PROVE  /\ HexText(d) \in Seq(Digits) /\ Len(HexText(d)) = 32
           /\ HexText(d)[17] = d[8] \div 16
<1>1. ASSUME NEW k \in 1 .. 32
      PROVE  (IF k % 2 = 1 THEN d[(k - 1) \div 2] \div 16
                           ELSE d[(k - 1) \div 2] % 16) \in Digits
  <2>1. (k - 1) \div 2 \in 0 .. 15
    OBVIOUS
  <2>2. d[(k - 1) \div 2] \in Bytes
    BY <2>1
  <2>3. \A b \in Bytes : b \div 16 \in Digits /\ b % 16 \in Digits
    BY DEF Bytes, Digits
  <2> QED BY <2>2, <2>3
<1>2. HexText(d) \in [1 .. 32 -> Digits]
  BY <1>1 DEF HexText
<1>3. HexText(d) \in Seq(Digits) /\ Len(HexText(d)) = 32
  <2>1. HexText(d) \in Seq(Digits)
    <3>1. [1 .. 32 -> Digits] \in {[1 .. n -> Digits] : n \in Nat}
      OBVIOUS
    <3>2. Seq(Digits) = UNION {[1 .. n -> Digits] : n \in Nat}
      BY SeqDef
    <3> QED BY <1>2, <3>1, <3>2, Zenon
  <2>2. DOMAIN HexText(d) = 1 .. 32
    BY DEF HexText
  <2> QED BY <2>1, <2>2, LenProperties
<1>4. 17 % 2 = 1 /\ (17 - 1) \div 2 = 8 /\ 17 \in 1 .. 32
  OBVIOUS
<1> QED BY <1>3, <1>4 DEF HexText

\* A hyphen and one more group behind a text.
LEMMA OneMoreGroup ==
    ASSUME NEW s \in Seq(0 .. Hyphen), NEW g \in Seq(Digits)
    PROVE  LET q == s \o <<Hyphen>> \o g
           IN  /\ q \in Seq(0 .. Hyphen)
               /\ Len(q) = Len(s) + 1 + Len(g)
               /\ \A k \in 1 .. Len(s) : q[k] = s[k]
               /\ q[Len(s) + 1] = Hyphen
               /\ \A k \in 1 .. Len(g) : q[Len(s) + 1 + k] = g[k]
<1> USE DEF Hyphen, Digits
<1>1. g \in Seq(0 .. Hyphen) /\ <<Hyphen>> \in Seq(0 .. Hyphen)
  OBVIOUS
<1> DEFINE r == s \o <<Hyphen>>
<1>2. r \in Seq(0 .. Hyphen) /\ Len(r) = Len(s) + 1
  BY <1>1
<1>3. \A k \in 1 .. Len(s) : r[k] = s[k]
  OBVIOUS
<1>4. r[Len(s) + 1] = Hyphen
  OBVIOUS
<1> HIDE DEF r
<1>5. r \o g \in Seq(0 .. Hyphen) /\ Len(r \o g) = Len(r) + Len(g)
  BY <1>1, <1>2
<1>6. \A k \in 1 .. Len(r) : (r \o g)[k] = r[k]
  BY <1>1, <1>2
<1>7. \A k \in 1 .. Len(g) : (r \o g)[Len(r) + k] = g[k]
  BY <1>1, <1>2
<1> QED BY <1>2, <1>3, <1>4, <1>5, <1>6, <1>7 DEF r

\* The digits from a to b, none of which is a hyphen.
LEMMA GroupOf ==
    ASSUME NEW h \in Seq(Digits), Len(h) = 32,
           NEW a \in 1 .. 32, NEW b \in a .. 32
    PROVE  /\ SubSeq(h, a, b) \in Seq(Digits)
           /\ Len(SubSeq(h, a, b)) = b - a + 1
           /\ \A k \in 1 .. b - a + 1 :
                /\ SubSeq(h, a, b)[k] = h[a + k - 1]
                /\ SubSeq(h, a, b)[k] # Hyphen
<1>1. ASSUME NEW k \in a .. b
      PROVE  h[k] \in Digits
  <2>1. k \in 1 .. Len(h)
    OBVIOUS
  <2> QED BY <2>1, ElementOfSeq
<1>2. /\ SubSeq(h, a, b) \in Seq(Digits)
      /\ Len(SubSeq(h, a, b)) = b - a + 1
      /\ \A k \in 1 .. b - a + 1 : SubSeq(h, a, b)[k] = h[a + k - 1]
  BY <1>1, SubSeqProperties
<1>3. \A k \in 1 .. b - a + 1 : SubSeq(h, a, b)[k] \in Digits
  BY <1>2, ElementOfSeq
<1>4. Hyphen \notin Digits
  BY DEF Hyphen, Digits
<1> QED BY <1>2, <1>3, <1>4

\* A text of n characters whose hyphens are in the given places.
HasForm(t, n, places) ==
    /\ t \in Seq(0 .. Hyphen) /\ Len(t) = n
    /\ \A k \in 1 .. n : t[k] = Hyphen <=> k \in places

LEMMA GroupKeepsForm ==
    ASSUME NEW n \in Nat, NEW m \in Nat, NEW places \in SUBSET (1 .. n),
           NEW t, HasForm(t, n, places),
           NEW g \in Seq(Digits), Len(g) = m
    PROVE  HasForm(t \o <<Hyphen>> \o g, n + 1 + m, places \cup {n + 1})
<1> DEFINE q == t \o <<Hyphen>> \o g
<1>1. t \in Seq(0 .. Hyphen) /\ Len(t) = n
  BY DEF HasForm
<1>2. /\ q \in Seq(0 .. Hyphen) /\ Len(q) = n + 1 + m
      /\ \A k \in 1 .. n : q[k] = t[k]
      /\ q[n + 1] = Hyphen
      /\ \A k \in 1 .. m : q[n + 1 + k] = g[k]
  BY <1>1, OneMoreGroup
<1> HIDE DEF q
<1>3. \A k \in 1 .. m : g[k] # Hyphen
  <2>1. \A k \in 1 .. m : g[k] \in Digits
    BY ElementOfSeq
  <2>2. Hyphen \notin Digits
    BY DEF Hyphen, Digits
  <2> QED BY <2>1, <2>2
<1>4. ASSUME NEW k \in 1 .. n + 1 + m
      PROVE  q[k] = Hyphen <=> k \in places \cup {n + 1}
  <2>1. CASE k \in 1 .. n
    BY <1>2, <2>1 DEF HasForm
  <2>2. CASE k = n + 1
    BY <1>2, <2>2
  <2>3. CASE k > n + 1
    <3>1. PICK j \in 1 .. m : k = n + 1 + j
      <4>1. k - (n + 1) \in 1 .. m /\ k = n + 1 + (k - (n + 1))
        BY <2>3
      <4> QED BY <4>1
    <3>2. q[k] # Hyphen
      BY <1>2, <1>3, <3>1
    <3>3. k \notin places \cup {n + 1}
      BY <2>3
    <3> QED BY <3>2, <3>3
  <2> QED BY <2>1, <2>2, <2>3
<1>5. HasForm(q, n + 1 + m, places \cup {n + 1})
  BY <1>2, <1>4 DEF HasForm
<1> QED BY <1>5 DEF q

\* The digits a to b of h are in t, s places further.
Copied(t, h, a, b, s) == \A k \in a .. b : t[k + s] = h[k]

\* A text stays what it was when a hyphen and the digits a to b are put behind
\* it, and these are copied.
LEMMA GroupAdded ==
    ASSUME NEW n \in Nat, NEW places \in SUBSET (1 .. n),
           NEW t, HasForm(t, n, places),
           NEW h \in Seq(Digits), Len(h) = 32,
           NEW a \in 1 .. 32, NEW b \in a .. 32
    PROVE  LET q == t \o <<Hyphen>> \o SubSeq(h, a, b)
           IN  /\ HasForm(q, n + 1 + (b - a + 1), places \cup {n + 1})
               /\ \A j \in 1 .. n : q[j] = t[j]
               /\ Copied(q, h, a, b, n + 2 - a)
<1> DEFINE g == SubSeq(h, a, b)
           q == t \o <<Hyphen>> \o g
<1>1. /\ g \in Seq(Digits) /\ Len(g) = b - a + 1 /\ b - a + 1 \in Nat
      /\ \A k \in 1 .. b - a + 1 : g[k] = h[a + k - 1]
  <2>1. b - a + 1 \in Nat
    OBVIOUS
  <2>2. /\ g \in Seq(Digits) /\ Len(g) = b - a + 1
        /\ \A k \in 1 .. b - a + 1 : g[k] = h[a + k - 1]
    BY GroupOf, Zenon
  <2> QED BY <2>1, <2>2
<1>2. t \in Seq(0 .. Hyphen) /\ Len(t) = n
  BY DEF HasForm
<1> HIDE DEF g
<1>3. /\ \A j \in 1 .. n : q[j] = t[j]
      /\ \A k \in 1 .. b - a + 1 : q[n + 1 + k] = g[k]
  <2>1. /\ \A j \in 1 .. Len(t) : q[j] = t[j]
        /\ \A k \in 1 .. Len(g) : q[Len(t) + 1 + k] = g[k]
    BY <1>1, <1>2, OneMoreGroup, Zenon
  <2> QED BY <1>1, <1>2, <2>1, Zenon
<1>4. HasForm(q, n + 1 + (b - a + 1), places \cup {n + 1})
  BY <1>1, GroupKeepsForm
<1> HIDE DEF q
<1>5. ASSUME NEW k \in a .. b
      PROVE  q[k + (n + 2 - a)] = h[k]
  <2>1. k - a + 1 \in 1 .. b - a + 1
    OBVIOUS
  <2>2. q[n + 1 + (k - a + 1)] = h[a + (k - a + 1) - 1]
    BY <1>1, <1>3, <2>1
  <2>3. n + 1 + (k - a + 1) = k + (n + 2 - a) /\ a + (k - a + 1) - 1 = k
    OBVIOUS
  <2> QED BY <2>2, <2>3
<1>6. Copied(q, h, a, b, n + 2 - a)
  BY <1>5 DEF Copied
<1> QED BY <1>3, <1>4, <1>6 DEF g, q

\* Where add_hyphen puts the digits of h.
DigitsOf(t, h) ==
    /\ Copied(t, h, 1, 8, 0)
    /\ Copied(t, h, 9, 12, 1)
    /\ Copied(t, h, 13, 16, 2)
    /\ Copied(t, h, 17, 20, 3)
    /\ Copied(t, h, 21, 32, 4)

\* add_hyphen: 36 characters, hyphens in four places and nowhere else, and the
\* digits between them in their order.
LEMMA AddHyphenForm ==
    ASSUME NEW h \in Seq(Digits), Len(h) = 32
    PROVE  HasForm(AddHyphen(h), 36, HyphenPlaces) /\ DigitsOf(AddHyphen(h), h)
<1> DEFINE t1 == SubSeq(h, 1, 8)
           t2 == t1 \o <<Hyphen>> \o SubSeq(h, 9, 12)
           t3 == t2 \o <<Hyphen>> \o SubSeq(h, 13, 16)
           t4 == t3 \o <<Hyphen>> \o SubSeq(h, 17, 20)
           t5 == t4 \o <<Hyphen>> \o SubSeq(h, 21, 32)
<1>1. HasForm(t1, 8, {}) /\ Copied(t1, h, 1, 8, 0)
  <2>1. 8 - 1 + 1 = 8 /\ 1 \in 1 .. 32 /\ 8 \in 1 .. 32
    OBVIOUS
  <2>2. /\ t1 \in Seq(Digits) /\ Len(t1) = 8 - 1 + 1
        /\ \A k \in 1 .. 8 - 1 + 1 : t1[k] = h[1 + k - 1] /\ t1[k] # Hyphen
    BY <2>1, GroupOf, Zenon
  <2>3. Digits \subseteq 0 .. Hyphen
    BY DEF Digits, Hyphen
  <2> HIDE DEF t1
  <2>4. t1 \in Seq(0 .. Hyphen)
    BY <2>2, <2>3, SeqMonotonic
  <2> QED BY <2>1, <2>2, <2>4 DEF HasForm, Copied
<1> HIDE DEF t1
<1>2. /\ HasForm(t2, 13, {9}) /\ \A j \in 1 .. 8 : t2[j] = t1[j]
      /\ Copied(t2, h, 9, 12, 1)
  <2>1. /\ 8 + 1 + (12 - 9 + 1) = 13 /\ {} \cup {8 + 1} = {9} /\ 8 + 2 - 9 = 1
        /\ {} \in SUBSET (1 .. 8) /\ 9 \in 1 .. 32 /\ 12 \in 9 .. 32
    OBVIOUS
  <2>2. /\ HasForm(t2, 8 + 1 + (12 - 9 + 1), {} \cup {8 + 1})
        /\ \A j \in 1 .. 8 : t2[j] = t1[j]
        /\ Copied(t2, h, 9, 12, 8 + 2 - 9)
    BY <1>1, <2>1, GroupAdded
  <2> QED BY <2>1, <2>2
<1> HIDE DEF t2
<1>3. /\ HasForm(t3, 18, {9, 14}) /\ \A j \in 1 .. 13 : t3[j] = t2[j]
      /\ Copied(t3, h, 13, 16, 2)
  <2>1. /\ 13 + 1 + (16 - 13 + 1) = 18 /\ {9} \cup {13 + 1} = {9, 14}
        /\ 13 + 2 - 13 = 2
        /\ {9} \in SUBSET (1 .. 13) /\ 13 \in 1 .. 32 /\ 16 \in 13 .. 32
    OBVIOUS
  <2>2. /\ HasForm(t3, 13 + 1 + (16 - 13 + 1), {9} \cup {13 + 1})
        /\ \A j \in 1 .. 13 : t3[j] = t2[j]
        /\ Copied(t3, h, 13, 16, 13 + 2 - 13)
    BY <1>2, <2>1, GroupAdded
  <2> QED BY <2>1, <2>2
<1> HIDE DEF t3
<1>4. /\ HasForm(t4, 23, {9, 14, 19}) /\ \A j \in 1 .. 18 : t4[j] = t3[j]
      /\ Copied(t4, h, 17, 20, 3)
  <2>1. /\ 18 + 1 + (20 - 17 + 1) = 23 /\ {9, 14} \cup {18 + 1} = {9, 14, 19}
        /\ 18 + 2 - 17 = 3
        /\ {9, 14} \in SUBSET (1 .. 18) /\ 17 \in 1 .. 32 /\ 20 \in 17 .. 32
    OBVIOUS
  <2>2. /\ HasForm(t4, 18 + 1 + (20 - 17 + 1), {9, 14} \cup {18 + 1})
        /\ \A j \in 1 .. 18 : t4[j] = t3[j]
        /\ Copied(t4, h, 17, 20, 18 + 2 - 17)
    BY <1>3, <2>1, GroupAdded
  <2> QED BY <2>1, <2>2
<1> HIDE DEF t4
<1>5. /\ HasForm(t5, 36, {9, 14, 19, 24}) /\ \A j \in 1 .. 23 : t5[j] = t4[j]
      /\ Copied(t5, h, 21, 32, 4)
  <2>1. /\ 23 + 1 + (32 - 21 + 1) = 36
        /\ {9, 14, 19} \cup {23 + 1} = {9, 14, 19, 24} /\ 23 + 2 - 21 = 4
        /\ {9, 14, 19} \in SUBSET (1 .. 23)
        /\ 21 \in 1 .. 32 /\ 32 \in 21 .. 32
    OBVIOUS
  <2>2. /\ HasForm(t5, 23 + 1 + (32 - 21 + 1), {9, 14, 19} \cup {23 + 1})
        /\ \A j \in 1 .. 23 : t5[j] = t4[j]
        /\ Copied(t5, h, 21, 32, 23 + 2 - 21)
    BY <1>4, <2>1, GroupAdded
  <2> QED BY <2>1, <2>2
<1> HIDE DEF t5
<1>6. DigitsOf(t5, h)
  <2>1. \A j \in 1 .. 18 : t5[j] = t3[j]
    <3>1. \A j \in 1 .. 18 : j \in 1 .. 23
      OBVIOUS
    <3> QED BY <1>4, <1>5, <3>1, Zenon
  <2>2. \A j \in 1 .. 13 : t5[j] = t2[j]
    <3>1. \A j \in 1 .. 13 : j \in 1 .. 18
      OBVIOUS
    <3> QED BY <1>3, <2>1, <3>1, Zenon
  <2>3. \A j \in 1 .. 8 : t5[j] = t1[j]
    <3>1. \A j \in 1 .. 8 : j \in 1 .. 13
      OBVIOUS
    <3> QED BY <1>2, <2>2, <3>1, Zenon
  <2>4. Copied(t5, h, 1, 8, 0)
    BY <1>1, <2>3 DEF Copied
  <2>5. Copied(t5, h, 9, 12, 1)
    <3>1. \A k \in 9 .. 12 : k + 1 \in 1 .. 13
      OBVIOUS
    <3> QED BY <1>2, <2>2, <3>1, Zenon DEF Copied
  <2>6. Copied(t5, h, 13, 16, 2)
    <3>1. \A k \in 13 .. 16 : k + 2 \in 1 .. 18
      OBVIOUS
    <3> QED BY <1>3, <2>1, <3>1, Zenon DEF Copied
  <2>7. Copied(t5, h, 17, 20, 3)
    <3>1. \A k \in 17 .. 20 : k + 3 \in 1 .. 23
      OBVIOUS
    <3> QED BY <1>4, <1>5, <3>1, Zenon DEF Copied
  <2> QED BY <1>5, <2>4, <2>5, <2>6, <2>7 DEF DigitsOf
<1>7. AddHyphen(h) = t5
  BY DEF AddHyphen, t1, t2, t3, t4, t5
<1> QED BY <1>5, <1>6, <1>7 DEF HyphenPlaces

\* What the text of a digest looks like.
LEMMA UuidForm ==
    ASSUME NEW d \in [0 .. 15 -> Bytes]
    PROVE  /\ HasForm(UuidOf(d), 36, HyphenPlaces)
           /\ DigitsOf(UuidOf(d), HexText(Stamp(d)))
           /\ UuidOf(d)[20] \in 8 .. 11
<1>1. Stamp(d) \in [0 .. 15 -> Bytes] /\ Stamp(d)[8] \in 160 .. 191
  BY StampBytes
<1>2. /\ HexText(Stamp(d)) \in Seq(Digits) /\ Len(HexText(Stamp(d))) = 32
      /\ HexText(Stamp(d))[17] = Stamp(d)[8] \div 16
  BY <1>1, HexTextDigits
<1>3. \A b \in 160 .. 191 : b \div 16 \in 8 .. 11
  OBVIOUS
<1>4. HexText(Stamp(d))[17] \in 8 .. 11
  <2>1. Stamp(d)[8] \div 16 \in 8 .. 11
    BY <1>1, <1>3, Zenon
  <2> QED BY <1>2, <2>1
<1>5. /\ HasForm(UuidOf(d), 36, HyphenPlaces)
      /\ DigitsOf(UuidOf(d), HexText(Stamp(d)))
  BY <1>2, AddHyphenForm DEF UuidOf
<1>6. UuidOf(d)[17 + 3] = HexText(Stamp(d))[17]
  BY <1>5 DEF DigitsOf, Copied
<1> QED BY <1>4, <1>5, <1>6

\* The stamps change the 9th digit and the 17th, of which they keep the last
\* bit, and no other.
LEMMA StampedDigits ==
    ASSUME NEW d \in [0 .. 15 -> Bytes]
    PROVE  /\ \A k \in (1 .. 32) \ {9, 17} : HexText(Stamp(d))[k] = HexText(d)[k]
           /\ HexText(Stamp(d))[17] % 2 = HexText(d)[17] % 2
<1>1. \A b \in Bytes : /\ (48 + (b % 16)) % 16 = b % 16
                       /\ (160 + (b % 32)) % 16 = b % 16
                       /\ ((160 + (b % 32)) \div 16) % 2 = (b \div 16) % 2
  BY DEF Bytes
<1>2. /\ d[4] \in Bytes /\ d[8] \in Bytes
      /\ Stamp(d)[4] = 48 + (d[4] % 16) /\ Stamp(d)[8] = 160 + (d[8] % 32)
      /\ \A n \in (0 .. 15) \ {4, 8} : Stamp(d)[n] = d[n]
  BY DEF Stamp
<1>3. ASSUME NEW k \in (1 .. 32) \ {9, 17}
      PROVE  HexText(Stamp(d))[k] = HexText(d)[k]
  <2> DEFINE n == (k - 1) \div 2
  <2>1. n \in 0 .. 15 /\ (n = 4 => k % 2 = 0) /\ (n = 8 => k % 2 = 0)
    OBVIOUS
  <2>2. /\ HexText(d)[k] = IF k % 2 = 1 THEN d[n] \div 16 ELSE d[n] % 16
        /\ HexText(Stamp(d))[k] = IF k % 2 = 1 THEN Stamp(d)[n] \div 16
                                              ELSE Stamp(d)[n] % 16
    BY DEF HexText
  <2> HIDE DEF n
  <2>3. CASE n = 4
    BY <1>1, <1>2, <2>1, <2>2, <2>3
  <2>4. CASE n = 8
    BY <1>1, <1>2, <2>1, <2>2, <2>4
  <2>5. CASE n # 4 /\ n # 8
    BY <1>2, <2>1, <2>2, <2>5
  <2> QED BY <2>3, <2>4, <2>5
<1>4. /\ HexText(d)[17] = d[8] \div 16
      /\ HexText(Stamp(d))[17] = Stamp(d)[8] \div 16
  BY StampBytes, HexTextDigits
<1> QED BY <1>1, <1>2, <1>3, <1>4

\* The two digits of a byte tell all of it.
LEMMA DigitsTellByte ==
    ASSUME NEW d \in [0 .. 15 -> Bytes], NEW e \in [0 .. 15 -> Bytes],
           NEW n \in 0 .. 15
    PROVE  d[n] = e[n] <=> /\ HexText(d)[2 * n + 1] = HexText(e)[2 * n + 1]
                           /\ HexText(d)[2 * n + 2] = HexText(e)[2 * n + 2]
<1>1. /\ 2 * n + 1 \in 1 .. 32 /\ 2 * n + 2 \in 1 .. 32
      /\ (2 * n + 1) % 2 = 1 /\ (2 * n + 2) % 2 = 0
      /\ (2 * n + 1 - 1) \div 2 = n /\ (2 * n + 2 - 1) \div 2 = n
  OBVIOUS
<1>2. /\ HexText(d)[2 * n + 1] = d[n] \div 16 /\ HexText(d)[2 * n + 2] = d[n] % 16
      /\ HexText(e)[2 * n + 1] = e[n] \div 16 /\ HexText(e)[2 * n + 2] = e[n] % 16
  BY <1>1 DEF HexText
<1>3. d[n] \in Bytes /\ e[n] \in Bytes
  OBVIOUS
<1>4. \A a, b \in Bytes : a = b <=> a \div 16 = b \div 16 /\ a % 16 = b % 16
  BY DEF Bytes
<1> QED BY <1>2, <1>3, <1>4

\* The first 16 characters of two texts agree exactly if the first 14 digits do.
LEMMA SameStart ==
    ASSUME NEW h \in Seq(Digits), NEW g \in Seq(Digits),
           NEW t, NEW u, HasForm(t, 36, HyphenPlaces), HasForm(u, 36, HyphenPlaces),
           DigitsOf(t, h), DigitsOf(u, g)
    PROVE  SubSeq(t, 1, 16) = SubSeq(u, 1, 16) <=>
               \A k \in 1 .. 14 : h[k] = g[k]
<1>1. /\ t \in Seq(0 .. Hyphen) /\ Len(t) = 36 /\ u \in Seq(0 .. Hyphen) /\ Len(u) = 36
      /\ t[9] = u[9] /\ t[14] = u[14]
  <2>1. 9 \in 1 .. 36 /\ 14 \in 1 .. 36 /\ 9 \in HyphenPlaces /\ 14 \in HyphenPlaces
    BY DEF HyphenPlaces
  <2> QED BY <2>1 DEF HasForm
<1>2. SubSeq(t, 1, 16) = SubSeq(u, 1, 16) <=>
         \A p \in 1 .. 16 : t[p] = u[p]
  <2>1. ASSUME NEW s \in {t, u}
        PROVE  /\ SubSeq(s, 1, 16) \in Seq(0 .. Hyphen)
               /\ Len(SubSeq(s, 1, 16)) = 16
               /\ \A p \in 1 .. 16 : SubSeq(s, 1, 16)[p] = s[p]
    <3>1. s \in Seq(0 .. Hyphen) /\ Len(s) = 36
      BY <1>1
    <3>2. \A p \in 1 .. 16 : s[p] \in 0 .. Hyphen
      <4>1. \A p \in 1 .. 16 : p \in 1 .. Len(s)
        BY <3>1
      <4> QED BY <3>1, <4>1, ElementOfSeq
    <3> QED BY <3>2, SubSeqProperties
  <2> QED BY <2>1, SeqEqual
<1>3. ASSUME NEW k \in 1 .. 14
      PROVE  \E p \in (1 .. 16) \ {9, 14} : t[p] = h[k] /\ u[p] = g[k]
  <2>1. CASE k \in 1 .. 8
    <3>1. k + 0 \in (1 .. 16) \ {9, 14}
      BY <2>1
    <3> QED BY <2>1, <3>1, Zenon DEF DigitsOf, Copied
  <2>2. CASE k \in 9 .. 12
    <3>1. k + 1 \in (1 .. 16) \ {9, 14}
      BY <2>2
    <3> QED BY <2>2, <3>1, Zenon DEF DigitsOf, Copied
  <2>3. CASE k \in 13 .. 14
    <3>1. k + 2 \in (1 .. 16) \ {9, 14} /\ k \in 13 .. 16
      BY <2>3
    <3> QED BY <2>3, <3>1, Zenon DEF DigitsOf, Copied
  <2> QED BY <2>1, <2>2, <2>3
<1>4. ASSUME NEW p \in (1 .. 16) \ {9, 14}
      PROVE  \E k \in 1 .. 14 : t[p] = h[k] /\ u[p] = g[k]
  <2>1. CASE p \in 1 .. 8
    <3>1. p \in 1 .. 14 /\ p + 0 = p
      BY <2>1
    <3>2. t[p + 0] = h[p] /\ u[p + 0] = g[p]
      BY <2>1, Zenon DEF DigitsOf, Copied
    <3> QED BY <3>1, <3>2, Zenon
  <2>2. CASE p \in 10 .. 13
    <3>1. p - 1 \in 1 .. 14 /\ p - 1 \in 9 .. 12 /\ (p - 1) + 1 = p
      BY <2>2
    <3>2. t[(p - 1) + 1] = h[p - 1] /\ u[(p - 1) + 1] = g[p - 1]
      BY <3>1, Zenon DEF DigitsOf, Copied
    <3> QED BY <3>1, <3>2, Zenon
  <2>3. CASE p \in 15 .. 16
    <3>1. p - 2 \in 1 .. 14 /\ p - 2 \in 13 .. 16 /\ (p - 2) + 2 = p
      BY <2>3
    <3>2. t[(p - 2) + 2] = h[p - 2] /\ u[(p - 2) + 2] = g[p - 2]
      BY <3>1, Zenon DEF DigitsOf, Copied
    <3> QED BY <3>1, <3>2, Zenon
  <2>4. p \in 1 .. 8 \/ p \in 10 .. 13 \/ p \in 15 .. 16
    OBVIOUS
  <2> QED BY <2>1, <2>2, <2>3, <2>4
<1>5. (\A p \in 1 .. 16 : t[p] = u[p]) <=> \A k \in 1 .. 14 : h[k] = g[k]
  <2>1. ASSUME \A k \in 1 .. 14 : h[k] = g[k], NEW p \in 1 .. 16
        PROVE  t[p] = u[p]
    <3>1. CASE p \in {9, 14}
      BY <1>1, <3>1
    <3>2. CASE p \notin {9, 14}
      BY <1>4, <2>1, <3>2, Zenon
    <3> QED BY <3>1, <3>2
  <2>2. ASSUME \A p \in 1 .. 16 : t[p] = u[p], NEW k \in 1 .. 14
        PROVE  h[k] = g[k]
    BY <1>3, <2>2, Zenon
  <2> QED BY <2>1, <2>2, Zenon
<1> QED BY <1>2, <1>5

\* The texts of two digests are the same only if the digests agree in all bits
\* but those the stamps take: the upper half of byte 4 and three bits of byte 8.
THEOREM TextTellsDigest ==
    ASSUME NEW d \in [0 .. 15 -> Bytes], NEW e \in [0 .. 15 -> Bytes]
    PROVE  UuidOf(d) = UuidOf(e) <=>
               /\ \A n \in (0 .. 15) \ {4, 8} : d[n] = e[n]
               /\ d[4] % 16 = e[4] % 16
               /\ d[8] % 32 = e[8] % 32
<1> DEFINE a == Stamp(d)
           b == Stamp(e)
<1>1. a \in [0 .. 15 -> Bytes] /\ b \in [0 .. 15 -> Bytes]
  BY StampBytes
<1>2. /\ d[4] \in Nat /\ e[4] \in Nat /\ d[8] \in Nat /\ e[8] \in Nat
      /\ \A n \in (0 .. 15) \ {4, 8} : a[n] = d[n] /\ b[n] = e[n]
      /\ a[4] = 48 + (d[4] % 16) /\ b[4] = 48 + (e[4] % 16)
      /\ a[8] = 160 + (d[8] % 32) /\ b[8] = 160 + (e[8] % 32)
  <2>1. \A c \in [0 .. 15 -> Bytes] :
            /\ \A n \in (0 .. 15) \ {4, 8} : Stamp(c)[n] = c[n]
            /\ Stamp(c)[4] = 48 + (c[4] % 16)
            /\ Stamp(c)[8] = 160 + (c[8] % 32)
    BY DEF Stamp
  <2>2. \A c \in [0 .. 15 -> Bytes] : c[4] \in Nat /\ c[8] \in Nat
    <3>1. \A c \in [0 .. 15 -> Bytes] : c[4] \in Bytes /\ c[8] \in Bytes
      OBVIOUS
    <3> QED BY <3>1 DEF Bytes
  <2> QED BY <2>1, <2>2
<1>3. a = b <=> \A n \in 0 .. 15 : a[n] = b[n]
  BY <1>1
<1>4. a = b <=> /\ \A n \in (0 .. 15) \ {4, 8} : d[n] = e[n]
                /\ d[4] % 16 = e[4] % 16
                /\ d[8] % 32 = e[8] % 32
  <2>1. a[4] = b[4] <=> d[4] % 16 = e[4] % 16
    BY <1>2
  <2>2. a[8] = b[8] <=> d[8] % 32 = e[8] % 32
    BY <1>2
  <2> HIDE DEF a, b
  <2>3. (\A n \in 0 .. 15 : a[n] = b[n]) <=>
            (\A n \in (0 .. 15) \ {4, 8} : a[n] = b[n]) /\ a[4] = b[4] /\ a[8] = b[8]
    OBVIOUS
  <2> QED BY <1>2, <1>3, <2>1, <2>2, <2>3
<1>5. ASSUME UuidOf(d) = UuidOf(e) PROVE a = b
  <2> DEFINE h == HexText(a)
             g == HexText(b)
  <2>1. DigitsOf(UuidOf(d), h) /\ DigitsOf(UuidOf(d), g)
    BY <1>5, UuidForm
  <2>2. \A n \in 0 .. 15 : a[n] = b[n] <=> /\ h[2 * n + 1] = g[2 * n + 1]
                                           /\ h[2 * n + 2] = g[2 * n + 2]
    <3> HIDE DEF a, b
    <3> QED BY <1>1, DigitsTellByte
  <2> HIDE DEF h, g
  <2>3. \A k \in 1 .. 32 : h[k] = g[k]
    <3>1. \A k \in 1 .. 32 : \/ k \in 1 .. 8 \/ k \in 9 .. 12 \/ k \in 13 .. 16
                             \/ k \in 17 .. 20 \/ k \in 21 .. 32
      OBVIOUS
    <3> QED BY <2>1, <3>1 DEF DigitsOf, Copied
  <2>4. \A n \in 0 .. 15 : 2 * n + 1 \in 1 .. 32 /\ 2 * n + 2 \in 1 .. 32
    OBVIOUS
  <2> QED BY <1>3, <2>2, <2>3, <2>4
<1>6. a = b => UuidOf(d) = UuidOf(e)
  BY DEF UuidOf
<1> QED BY <1>4, <1>5, <1>6
=============================================================================
