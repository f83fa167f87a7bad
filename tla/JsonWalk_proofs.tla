-------------------------- MODULE JsonWalk_proofs --------------------------
(***************************************************************************)
(* Proofs about the walk over the payload_data of a reply, for trees of    *)
(* any width and depth.                                                    *)
(***************************************************************************)
EXTENDS JsonWalk, SequenceTheorems, FiniteSetTheorems, WellFoundedInduction, TLAPS

-----------------------------------------------------------------------------
(* Induction over the natural numbers, with a set for the property.        *)

LEMMA Least ==
    ASSUME NEW T, T \subseteq Nat, T # {}
    PROVE  \E m \in T : \A n \in T : m <= n
<1> DEFINE R == OpToRel(<, Nat)
<1>1. IsWellFoundedOn(R, Nat)
  BY NatLessThanWellFounded
<1>2. \A m, n \in Nat : m < n => <<m, n>> \in R
  BY DEF OpToRel
<1> HIDE DEF R
<1>3. PICK x \in T : \A y \in T : ~ (<<y, x>> \in R)
  BY <1>1, WFMin
<1>4. ASSUME NEW y \in T
      PROVE  x <= y
  <2>1. x \in Nat /\ y \in Nat
    OBVIOUS
  <2>2. ~ (y < x)
    BY <1>2, <1>3, <2>1, Zenon
  <2> QED BY <2>1, <2>2
<1> QED BY <1>4

LEMMA Induction ==
    ASSUME NEW S, 0 \in S, \A n \in Nat : n \in S => n + 1 \in S
    PROVE  Nat \subseteq S
<1> SUFFICES ASSUME Nat \ S # {} PROVE FALSE
  OBVIOUS
<1>1. PICK m \in Nat \ S : \A n \in Nat \ S : m <= n
  BY Least
<1>2. m # 0 /\ m - 1 \in Nat /\ m - 1 \notin Nat \ S
  BY <1>1
<1> QED BY <1>2

-----------------------------------------------------------------------------
(* The ways into a tree.                                                   *)

Frames == [of : Values, at : Nat \ {0}]

\* A way, said without recursion.
IsWay(t, w) ==
    /\ w \in Seq(Frames)
    /\ \A k \in 1 .. Len(w) :
         /\ w[k].of = IF k = 1 THEN t ELSE w[k - 1].of.kids[w[k - 1].at]
         /\ w[k].at \in Reachable(w[k].of)

LEMMA ValueType ==
    ASSUME NEW v \in Values
    PROVE  /\ v.type \in Types /\ v.match \in BOOLEAN /\ v.val \in Int
           /\ v.kids \in Seq(Values) /\ Len(v.kids) \in Nat
           /\ DOMAIN v.kids = 1 .. Len(v.kids)
           /\ \A i \in 1 .. Len(v.kids) : v.kids[i] \in Values
           /\ v.type \notin Containers => v.kids = <<>> /\ Len(v.kids) = 0
           /\ Reachable(v) \subseteq 1 .. Len(v.kids)
           /\ \A i \in Reachable(v) : \A j \in 1 .. i : j \in Reachable(v)
<1>1. PICK n \in 0 .. Depth : v \in Json[n]
  BY DEF Values
<1>2. /\ v.type \in Types /\ v.match \in BOOLEAN /\ v.val \in Int
      /\ v.kids \in Seq(Values)
      /\ v.type \notin Containers => v.kids = <<>>
  BY <1>1, TreeAssumption
<1>3. Len(v.kids) \in Nat /\ DOMAIN v.kids = 1 .. Len(v.kids)
  BY <1>2, LenProperties
<1>4. \A i \in 1 .. Len(v.kids) : v.kids[i] \in Values
  BY <1>2, ElementOfSeq
<1>5. v.type \notin Containers => Len(v.kids) = 0
  BY <1>2
<1>6. Reachable(v) \subseteq 1 .. Len(v.kids)
  BY <1>3 DEF Reachable
<1>7. \A i \in Reachable(v) : \A j \in 1 .. i : j \in Reachable(v)
  BY <1>3 DEF Reachable
<1> QED BY <1>2, <1>3, <1>4, <1>5, <1>6, <1>7

LEMMA TreeValue == ASSUME NEW t \in Trees PROVE t \in Values /\ t.type = "array"
BY TreeAssumption DEF Values

\* The end of a way is a value, and its indices lead to values.
LEMMA WayValues ==
    ASSUME NEW t \in Trees, NEW w, IsWay(t, w)
    PROVE  /\ Len(w) \in Nat /\ DOMAIN w = 1 .. Len(w)
           /\ \A k \in 1 .. Len(w) :
                /\ w[k].of \in Values /\ w[k].at \in Nat \ {0}
                /\ w[k] = [of |-> w[k].of, at |-> w[k].at]
                /\ w[k].of.kids[w[k].at] \in Values
           /\ End(t, w) \in Values
<1>1. Len(w) \in Nat /\ DOMAIN w = 1 .. Len(w)
  BY LenProperties DEF IsWay
<1>2. ASSUME NEW k \in 1 .. Len(w)
      PROVE  /\ w[k].of \in Values /\ w[k].at \in Nat \ {0}
             /\ w[k] = [of |-> w[k].of, at |-> w[k].at]
             /\ w[k].of.kids[w[k].at] \in Values
  <2>1. w[k] \in Frames
    BY ElementOfSeq DEF IsWay
  <2>2. w[k].of \in Values /\ w[k].at \in Nat \ {0} /\ w[k] = [of |-> w[k].of, at |-> w[k].at]
    BY <2>1 DEF Frames
  <2>3. w[k].at \in Reachable(w[k].of)
    BY DEF IsWay
  <2> QED BY <2>2, <2>3, ValueType
<1>3. End(t, w) \in Values
  <2>1. CASE w = <<>>
    BY <2>1, TreeValue DEF End
  <2>2. CASE w # <<>>
    <3>1. Len(w) \in 1 .. Len(w)
      BY <1>1, <2>2, EmptySeq DEF IsWay
    <3> QED BY <1>2, <2>2, <3>1 DEF End
  <2> QED BY <2>1, <2>2
<1> QED BY <1>1, <1>2, <1>3

\* The ways of up to n steps.
WaysUpTo(t, n) == {w \in Seq(Frames) : IsWay(t, w) /\ Len(w) <= n}

\* A way is either empty or a way and one step more.
LEMMA WayExtended ==
    ASSUME NEW t \in Trees, NEW w, IsWay(t, w), NEW i \in Reachable(End(t, w))
    PROVE  LET x == Append(w, [of |-> End(t, w), at |-> i])
           IN  /\ IsWay(t, x) /\ Len(x) = Len(w) + 1
               /\ End(t, x) = End(t, w).kids[i]
<1> DEFINE f == [of |-> End(t, w), at |-> i]
           x == Append(w, f)
<1>1. /\ Len(w) \in Nat /\ w \in Seq(Frames) /\ End(t, w) \in Values
  BY WayValues DEF IsWay
<1>2. f \in Frames
  BY <1>1, ValueType DEF Frames
<1>3. f.of = End(t, w) /\ f.at = i
  OBVIOUS
<1> HIDE DEF f
<1>4. /\ x \in Seq(Frames) /\ Len(x) = Len(w) + 1
      /\ \A k \in 1 .. Len(w) : x[k] = w[k]
      /\ x[Len(w) + 1] = f
  BY <1>1, <1>2, AppendProperties
<1> HIDE DEF x
<1>5. ASSUME NEW k \in 1 .. Len(x)
      PROVE  /\ x[k].of = IF k = 1 THEN t ELSE x[k - 1].of.kids[x[k - 1].at]
             /\ x[k].at \in Reachable(x[k].of)
  <2>1. CASE k \in 1 .. Len(w)
    <3>1. k # 1 => k - 1 \in 1 .. Len(w)
      BY <1>1, <2>1
    <3> QED BY <1>4, <2>1, <3>1 DEF IsWay
  <2>2. CASE k = Len(w) + 1
    <3>1. x[k].of = End(t, w) /\ x[k].at \in Reachable(x[k].of)
      BY <1>3, <1>4, <2>2
    <3>2. CASE w = <<>>
      BY <2>2, <3>1, <3>2 DEF End
    <3>3. CASE w # <<>>
      <4>1. Len(w) # 0 /\ k - 1 = Len(w) /\ k - 1 \in 1 .. Len(w) /\ k # 1
        BY <1>1, <2>2, <3>3, EmptySeq
      <4>2. x[k - 1] = w[Len(w)]
        BY <1>4, <4>1
      <4> QED BY <3>1, <3>3, <4>1, <4>2 DEF End
    <3> QED BY <3>2, <3>3
  <2>3. k \in 1 .. Len(w) \/ k = Len(w) + 1
    BY <1>1, <1>4
  <2> QED BY <2>1, <2>2, <2>3
<1>6. End(t, x) = End(t, w).kids[i]
  <2>1. x # <<>>
    BY <1>1, <1>4, EmptySeq
  <2> QED BY <1>3, <1>4, <2>1 DEF End
<1> QED BY <1>4, <1>5, <1>6 DEF IsWay, x, f

LEMMA Shortened ==
    ASSUME NEW S, NEW w \in Seq(S), NEW n \in 0 .. Len(w)
    PROVE  LET x == SubSeq(w, 1, n)
           IN  x \in Seq(S) /\ Len(x) = n /\ \A k \in 1 .. n : x[k] = w[k]
<1> DEFINE x == SubSeq(w, 1, n)
<1>1. Len(w) \in Nat /\ n \in Nat /\ 1 \in Int /\ n \in Int
  BY LenProperties
<1>2. \A k \in 1 .. n : w[k] \in S
  <2>1. \A k \in 1 .. n : k \in 1 .. Len(w)
    BY <1>1
  <2> QED BY <2>1, ElementOfSeq
<1>3. /\ x \in Seq(S) /\ Len(x) = IF 1 <= n THEN n - 1 + 1 ELSE 0
      /\ \A k \in 1 .. n - 1 + 1 : x[k] = w[1 + k - 1]
  BY <1>1, <1>2, SubSeqProperties
<1> HIDE DEF x
<1>4. x \in Seq(S) /\ Len(x) = n /\ \A k \in 1 .. n : x[k] = w[k]
  BY <1>1, <1>3
<1> QED BY <1>4 DEF x

LEMMA WayShortened ==
    ASSUME NEW t \in Trees, NEW w, IsWay(t, w), NEW n \in 0 .. Len(w)
    PROVE  LET x == SubSeq(w, 1, n)
           IN  /\ IsWay(t, x) /\ Len(x) = n
               /\ \A k \in 1 .. n : x[k] = w[k]
               /\ n < Len(w) => /\ w[n + 1].of = End(t, x)
                                /\ w[n + 1].at \in Reachable(End(t, x))
<1> DEFINE x == SubSeq(w, 1, n)
<1>1. Len(w) \in Nat /\ w \in Seq(Frames) /\ n \in Nat
  BY WayValues DEF IsWay
<1>2. x \in Seq(Frames) /\ Len(x) = n /\ \A k \in 1 .. n : x[k] = w[k]
  BY <1>1, Shortened
<1> HIDE DEF x
<1>3. IsWay(t, x)
  <2>1. ASSUME NEW k \in 1 .. n
        PROVE  /\ x[k].of = IF k = 1 THEN t ELSE x[k - 1].of.kids[x[k - 1].at]
               /\ x[k].at \in Reachable(x[k].of)
    <3>1. k \in 1 .. Len(w) /\ (k # 1 => k - 1 \in 1 .. n)
      BY <1>1
    <3> QED BY <1>2, <3>1 DEF IsWay
  <2> QED BY <1>2, <2>1 DEF IsWay
<1>4. ASSUME n < Len(w)
      PROVE  w[n + 1].of = End(t, x) /\ w[n + 1].at \in Reachable(End(t, x))
  <2>1. n + 1 \in 1 .. Len(w)
    BY <1>1, <1>4
  <2>2. /\ w[n + 1].of = IF n + 1 = 1 THEN t ELSE w[n + 1 - 1].of.kids[w[n + 1 - 1].at]
        /\ w[n + 1].at \in Reachable(w[n + 1].of)
    BY <2>1 DEF IsWay
  <2>3. CASE n = 0
    <3>1. x = <<>>
      BY <1>2, <2>3, EmptySeq
    <3> QED BY <2>2, <2>3, <3>1 DEF End
  <2>4. CASE n # 0
    <3>1. x # <<>> /\ n \in 1 .. n /\ n + 1 - 1 = n /\ n + 1 # 1
      BY <1>1, <1>2, <2>4, EmptySeq
    <3>2. End(t, x) = w[n].of.kids[w[n].at]
      BY <1>2, <3>1 DEF End
    <3> QED BY <2>2, <3>1, <3>2
  <2> QED BY <2>3, <2>4
<1> QED BY <1>2, <1>3, <1>4 DEF x

\* What Further adds: the ways of one step more.
LEMMA FurtherWays ==
    ASSUME NEW t \in Trees, NEW n \in Nat
    PROVE  WaysUpTo(t, n + 1) =
               WaysUpTo(t, n) \cup UNION {Further(t, w) : w \in WaysUpTo(t, n)}
<1>1. ASSUME NEW x \in WaysUpTo(t, n + 1), Len(x) > n
      PROVE  \E w \in WaysUpTo(t, n) : x \in Further(t, w)
  <2>1. IsWay(t, x) /\ Len(x) = n + 1 /\ n \in 0 .. Len(x) /\ n < Len(x)
    BY <1>1, WayValues DEF WaysUpTo
  <2> DEFINE w == SubSeq(x, 1, n)
  <2>2. /\ IsWay(t, w) /\ Len(w) = n
        /\ \A k \in 1 .. n : w[k] = x[k]
        /\ x[n + 1].of = End(t, w) /\ x[n + 1].at \in Reachable(End(t, w))
    BY <2>1, WayShortened
  <2> HIDE DEF w
  <2>3. w \in WaysUpTo(t, n)
    BY <2>2 DEF WaysUpTo, IsWay
  <2> DEFINE f == [of |-> End(t, w), at |-> x[n + 1].at]
  <2>4. x[n + 1] = f
    <3>1. n + 1 \in 1 .. Len(x)
      BY <2>1
    <3>2. x[n + 1] = [of |-> x[n + 1].of, at |-> x[n + 1].at]
      BY <2>1, <3>1, WayValues
    <3> QED BY <2>2, <3>2
  <2> HIDE DEF f
  <2>5. w \in Seq(Frames) /\ x \in Seq(Frames) /\ f \in Frames
    <3>1. n + 1 \in 1 .. Len(x)
      BY <2>1
    <3>2. x[n + 1] \in Frames
      BY <2>1, <3>1, ElementOfSeq DEF IsWay
    <3> QED BY <2>1, <2>2, <2>4, <3>2 DEF IsWay
  <2>6. x = Append(w, f)
    <3>1. /\ Append(w, f) \in Seq(Frames) /\ Len(Append(w, f)) = n + 1
          /\ \A k \in 1 .. n : Append(w, f)[k] = w[k]
          /\ Append(w, f)[n + 1] = f
      BY <2>2, <2>5, AppendProperties
    <3>2. \A k \in 1 .. Len(x) : x[k] = Append(w, f)[k]
      BY <2>1, <2>2, <2>4, <3>1
    <3> QED BY <2>1, <2>5, <3>1, <3>2, SeqEqual
  <2>7. x \in Further(t, w)
    BY <2>2, <2>6 DEF Further, f
  <2> QED BY <2>3, <2>7
<1>2. ASSUME NEW w \in WaysUpTo(t, n), NEW x \in Further(t, w)
      PROVE  x \in WaysUpTo(t, n + 1)
  <2>1. PICK i \in Reachable(End(t, w)) :
            x = Append(w, [of |-> End(t, w), at |-> i])
    BY <1>2 DEF Further
  <2>2. IsWay(t, w) /\ Len(w) <= n /\ Len(w) \in Nat
    BY WayValues DEF WaysUpTo
  <2>3. IsWay(t, x) /\ Len(x) = Len(w) + 1
    BY <2>1, <2>2, WayExtended
  <2> QED BY <2>2, <2>3 DEF WaysUpTo, IsWay
<1>3. ASSUME NEW x \in WaysUpTo(t, n)
      PROVE  x \in WaysUpTo(t, n + 1)
  <2>1. IsWay(t, x) /\ Len(x) <= n /\ Len(x) \in Nat
    BY WayValues DEF WaysUpTo
  <2> QED BY <2>1 DEF WaysUpTo, IsWay
<1>4. ASSUME NEW x \in WaysUpTo(t, n + 1), ~ (Len(x) > n)
      PROVE  x \in WaysUpTo(t, n)
  <2>1. IsWay(t, x) /\ Len(x) \in Nat
    BY WayValues DEF WaysUpTo
  <2> QED BY <1>4, <2>1 DEF WaysUpTo, IsWay
<1> QED BY <1>1, <1>2, <1>3, <1>4

LEMMA NoWay == ASSUME NEW t \in Trees PROVE WaysUpTo(t, 0) = {<<>>}
<1>1. \A w \in WaysUpTo(t, 0) : w = <<>>
  BY EmptySeq DEF WaysUpTo
<1>2. <<>> \in WaysUpTo(t, 0)
  BY EmptySeq DEF WaysUpTo, IsWay
<1> QED BY <1>1, <1>2

\* The ways Ways counts up are the sequences that are ways.
LEMMA WaysAre == ASSUME NEW t \in Trees PROVE Ways(t) = WaysUpTo(t, Depth)
<1> DEFINE Up(f, n) == IF n = 0 THEN {<<>>}
                       ELSE f[n - 1] \cup UNION {Further(t, w) : w \in f[n - 1]}
           W == [n \in Nat |-> WaysUpTo(t, n)]
           u == CHOOSE f : f = [n \in Nat |-> Up(f, n)]
<1>1. W = [n \in Nat |-> Up(W, n)]
  <2>1. ASSUME NEW n \in Nat
        PROVE  W[n] = Up(W, n)
    <3>1. CASE n = 0
      BY <3>1, NoWay
    <3>2. CASE n # 0
      <4>1. n - 1 \in Nat /\ (n - 1) + 1 = n
        BY <3>2
      <4>2. WaysUpTo(t, (n - 1) + 1) =
              WaysUpTo(t, n - 1) \cup UNION {Further(t, w) : w \in WaysUpTo(t, n - 1)}
        BY <4>1, FurtherWays
      <4> QED BY <3>2, <4>1, <4>2
    <3> QED BY <3>1, <3>2
  <2> QED BY <2>1
<1>2. u = [n \in Nat |-> Up(u, n)]
  <2> DEFINE P(f) == f = [n \in Nat |-> Up(f, n)]
  <2>1. P(W)
    BY <1>1
  <2> HIDE DEF W, P
  <2>2. P(CHOOSE f : P(f))
    BY <2>1, Zenon
  <2> QED BY <2>2 DEF P
<1> HIDE DEF u, W
<1>3. \A n \in Nat : u[n] = Up(u, n) /\ W[n] = Up(W, n)
  BY <1>1, <1>2
<1> DEFINE S == {n \in Nat : u[n] = W[n]}
<1>4. 0 \in S
  BY <1>3
<1>5. ASSUME NEW n \in Nat, n \in S
      PROVE  n + 1 \in S
  <2>1. n + 1 \in Nat /\ n + 1 # 0 /\ (n + 1) - 1 = n
    OBVIOUS
  <2>2. u[n + 1] = Up(u, n + 1) /\ W[n + 1] = Up(W, n + 1)
    BY <1>3, <2>1
  <2>3. Up(u, n + 1) = Up(W, n + 1)
    BY <1>5, <2>1
  <2> QED BY <2>1, <2>2, <2>3
<1>6. Nat \subseteq S
  <2> HIDE DEF S
  <2> QED BY <1>4, <1>5, Induction
<1>7. u[Depth] = W[Depth] /\ Depth \in Nat
  BY <1>6, TreeAssumption
<1> QED BY <1>7 DEF Ways, u, W

LEMMA FiniteImage ==
    ASSUME NEW f, IsFiniteSet(DOMAIN f)
    PROVE  IsFiniteSet({f[x] : x \in DOMAIN f})
<1> DEFINE T == {f[x] : x \in DOMAIN f}
           g == [x \in DOMAIN f |-> f[x]]
<1>1. g \in Surjection(DOMAIN f, T)
  BY DEF Surjection
<1> QED BY <1>1, FS_Surjection

LEMMA WaysFinite == ASSUME NEW t \in Trees PROVE IsFiniteSet(Ways(t))
<1> DEFINE S == {n \in Nat : IsFiniteSet(WaysUpTo(t, n))}
<1>1. 0 \in S
  BY NoWay, FS_Singleton
<1>2. ASSUME NEW n \in Nat, n \in S
      PROVE  n + 1 \in S
  <2> DEFINE W == WaysUpTo(t, n)
  <2>1. ASSUME NEW w \in W
        PROVE  IsFiniteSet(Further(t, w))
    <3> DEFINE R == Reachable(End(t, w))
               g == [i \in R |-> Append(w, [of |-> End(t, w), at |-> i])]
    <3>1. End(t, w) \in Values
      BY WayValues DEF WaysUpTo
    <3>2. R \subseteq 1 .. Len(End(t, w).kids) /\ Len(End(t, w).kids) \in Nat
      BY <3>1, ValueType
    <3>3. IsFiniteSet(1 .. Len(End(t, w).kids))
      BY <3>2, FS_Interval
    <3>4. IsFiniteSet(R)
      BY <3>2, <3>3, FS_Subset
    <3>5. DOMAIN g = R /\ Further(t, w) = {g[i] : i \in DOMAIN g}
      BY DEF Further
    <3> HIDE DEF g
    <3>6. IsFiniteSet({g[i] : i \in DOMAIN g})
      BY <3>4, <3>5, FiniteImage
    <3> QED BY <3>5, <3>6
  <2> DEFINE C == [w \in W |-> Further(t, w)]
             Steps == {Further(t, w) : w \in W}
  <2>2. DOMAIN C = W /\ Steps = {C[w] : w \in DOMAIN C}
    OBVIOUS
  <2>3. IsFiniteSet(W)
    BY <1>2
  <2>4. IsFiniteSet(Steps)
    BY <2>2, <2>3, FiniteImage
  <2>5. \A T \in Steps : IsFiniteSet(T)
    BY <2>1
  <2> HIDE DEF C, W, Steps
  <2>6. IsFiniteSet(UNION Steps)
    BY <2>4, <2>5, FS_UNION
  <2>7. IsFiniteSet(W \cup UNION Steps)
    BY <2>3, <2>6, FS_Union
  <2>8. WaysUpTo(t, n + 1) = W \cup UNION Steps
    BY FurtherWays DEF W, Steps
  <2>9. IsFiniteSet(WaysUpTo(t, n + 1))
    BY <2>7, <2>8, Zenon
  <2> QED BY <2>9
<1>3. Nat \subseteq S
  <2> HIDE DEF S
  <2> QED BY <1>1, <1>2, Induction
<1>4. Depth \in Nat
  BY TreeAssumption
<1> QED BY <1>3, <1>4, WaysAre

-----------------------------------------------------------------------------
(* The order of the numbers.                                               *)

LEMMA NumberWay ==
    ASSUME NEW t \in Trees, NEW x \in Numbers(t)
    PROVE  /\ IsWay(t, x) /\ Len(x) \in Nat /\ DOMAIN x = 1 .. Len(x)
           /\ x # <<>> /\ Len(x) # 0
           /\ End(t, x).type = "integer" /\ End(t, x).match
           /\ End(t, x).val \in Int /\ Reachable(End(t, x)) = {}
<1>1. IsWay(t, x) /\ End(t, x).type = "integer" /\ End(t, x).match
  BY WaysAre DEF Numbers, WaysUpTo
<1>2. Len(x) \in Nat /\ DOMAIN x = 1 .. Len(x) /\ End(t, x) \in Values
  BY <1>1, WayValues
<1>3. x # <<>>
  BY <1>1, TreeValue DEF End
<1>4. Len(x) # 0
  BY <1>1, <1>2, <1>3, EmptySeq DEF IsWay
<1>5. End(t, x).val \in Int /\ Reachable(End(t, x)) = {}
  BY <1>1, <1>2, ValueType DEF Containers
<1> QED BY <1>1, <1>2, <1>3, <1>4, <1>5

LEMMA BeforeTransitive ==
    ASSUME NEW t \in Trees, NEW x, NEW y, NEW z,
           IsWay(t, x), IsWay(t, y), z \in Seq(Frames),
           Before(x, y), Before(y, z)
    PROVE  Before(x, z)
<1>1. /\ Len(x) \in Nat /\ DOMAIN x = 1 .. Len(x)
      /\ Len(y) \in Nat /\ DOMAIN y = 1 .. Len(y)
      /\ Len(z) \in Nat /\ DOMAIN z = 1 .. Len(z)
      /\ \A k \in 1 .. Len(x) : x[k].at \in Nat
      /\ \A k \in 1 .. Len(y) : y[k].at \in Nat
      /\ \A k \in 1 .. Len(z) : z[k].at \in Nat
  <2>1. /\ Len(x) \in Nat /\ DOMAIN x = 1 .. Len(x)
        /\ \A k \in 1 .. Len(x) : x[k].at \in Nat
    BY WayValues
  <2>2. /\ Len(y) \in Nat /\ DOMAIN y = 1 .. Len(y)
        /\ \A k \in 1 .. Len(y) : y[k].at \in Nat
    BY WayValues
  <2>3. Len(z) \in Nat /\ DOMAIN z = 1 .. Len(z)
    BY LenProperties
  <2>4. ASSUME NEW k \in 1 .. Len(z)
        PROVE  z[k].at \in Nat
    <3>1. z[k] \in Frames
      BY ElementOfSeq
    <3> QED BY <3>1 DEF Frames
  <2> QED BY <2>1, <2>2, <2>3, <2>4
<1>2. PICK k \in DOMAIN x \cap DOMAIN y :
          x[k].at < y[k].at /\ \A j \in 1 .. k - 1 : x[j] = y[j]
  BY DEF Before
<1>3. PICK m \in DOMAIN y \cap DOMAIN z :
          y[m].at < z[m].at /\ \A j \in 1 .. m - 1 : y[j] = z[j]
  BY DEF Before
<1>4. k \in 1 .. Len(x) /\ k \in 1 .. Len(y) /\ m \in 1 .. Len(y) /\ m \in 1 .. Len(z)
  BY <1>1
<1>5. CASE k < m
  <2>1. k \in 1 .. m - 1 /\ k \in DOMAIN z /\ \A j \in 1 .. k - 1 : j \in 1 .. m - 1
    BY <1>1, <1>4, <1>5
  <2>2. x[k].at < z[k].at /\ \A j \in 1 .. k - 1 : x[j] = z[j]
    BY <1>2, <1>3, <2>1
  <2> QED BY <2>1, <2>2 DEF Before
<1>6. CASE k = m
  <2>1. x[k].at < z[k].at
    BY <1>1, <1>2, <1>3, <1>4, <1>6
  <2>2. \A j \in 1 .. k - 1 : x[j] = z[j]
    BY <1>2, <1>3, <1>6
  <2> QED BY <1>2, <1>3, <1>6, <2>1, <2>2 DEF Before
<1>7. CASE m < k
  <2>1. m \in 1 .. k - 1 /\ m \in DOMAIN x /\ \A j \in 1 .. m - 1 : j \in 1 .. k - 1
    BY <1>1, <1>4, <1>7
  <2>2. x[m].at < z[m].at /\ \A j \in 1 .. m - 1 : x[j] = z[j]
    BY <1>2, <1>3, <2>1
  <2> QED BY <1>3, <2>1, <2>2 DEF Before
<1> QED BY <1>4, <1>5, <1>6, <1>7

LEMMA BeforeIrreflexive ==
    ASSUME NEW t \in Trees, NEW x, IsWay(t, x)
    PROVE  ~ Before(x, x)
<1>1. DOMAIN x = 1 .. Len(x) /\ \A k \in 1 .. Len(x) : x[k].at \in Nat
  BY WayValues
<1> QED BY <1>1 DEF Before

\* x goes on where s has come to.
Extends(x, s) == Len(s) <= Len(x) /\ \A k \in 1 .. Len(s) : x[k] = s[k]

\* Two ways go the same way, or one of them is in front, or one ends on it.
LEMMA BeforeOrExtends ==
    ASSUME NEW t \in Trees, NEW x, NEW y, IsWay(t, x), IsWay(t, y)
    PROVE  Before(x, y) \/ Before(y, x) \/ Extends(x, y) \/ Extends(y, x)
<1>1. /\ Len(x) \in Nat /\ DOMAIN x = 1 .. Len(x)
      /\ Len(y) \in Nat /\ DOMAIN y = 1 .. Len(y)
  BY WayValues
<1> DEFINE D == {k \in Nat : k \in 1 .. Len(x) /\ k \in 1 .. Len(y) /\ x[k] # y[k]}
<1>2. CASE D = {}
  <2>1. \A k \in 1 .. Len(x) : k \in 1 .. Len(y) => x[k] = y[k]
    BY <1>1, <1>2
  <2>2. CASE Len(x) <= Len(y)
    BY <1>1, <2>1, <2>2 DEF Extends
  <2>3. CASE Len(y) <= Len(x)
    BY <1>1, <2>1, <2>3 DEF Extends
  <2> QED BY <1>1, <2>2, <2>3
<1>3. CASE D # {}
  <2>1. PICK k \in D : \A j \in D : k <= j
    <3>1. D \subseteq Nat
      OBVIOUS
    <3> HIDE DEF D
    <3> QED BY <1>3, <3>1, Least
  <2>2. /\ k \in 1 .. Len(x) /\ k \in 1 .. Len(y) /\ k \in Nat
        /\ x[k] # y[k] /\ \A j \in 1 .. k - 1 : x[j] = y[j]
    BY <1>1, <2>1
  <2>3. x[k].of = y[k].of
    <3>1. k # 1 => k - 1 \in 1 .. k - 1
      BY <2>2
    <3> QED BY <2>2, <3>1 DEF IsWay
  <2>4. /\ x[k].at \in Nat /\ y[k].at \in Nat
        /\ x[k] = [of |-> x[k].of, at |-> x[k].at]
        /\ y[k] = [of |-> y[k].of, at |-> y[k].at]
    BY <2>2, WayValues
  <2>5. x[k].at # y[k].at
    BY <2>2, <2>3, <2>4
  <2>6. x[k].at < y[k].at \/ y[k].at < x[k].at
    BY <2>4, <2>5
  <2> QED BY <1>1, <2>2, <2>6 DEF Before
<1> QED BY <1>2, <1>3

\* Nothing goes on behind a value with nothing in it.
LEMMA EndIsLast ==
    ASSUME NEW t \in Trees, NEW x, IsWay(t, x), x # <<>>, Reachable(End(t, x)) = {},
           NEW y, IsWay(t, y), Extends(y, x)
    PROVE  y = x
<1>1. /\ Len(x) \in Nat /\ Len(y) \in Nat /\ x \in Seq(Frames) /\ y \in Seq(Frames)
      /\ Len(x) \in 1 .. Len(x)
  BY WayValues, EmptySeq DEF IsWay
<1>2. ~ (Len(x) < Len(y))
  <2> SUFFICES ASSUME Len(x) < Len(y) PROVE FALSE
    OBVIOUS
  <2>1. Len(x) + 1 \in 1 .. Len(y) /\ (Len(x) + 1) - 1 = Len(x) /\ Len(x) + 1 # 1
    BY <1>1
  <2>2. /\ y[Len(x) + 1].of = y[Len(x)].of.kids[y[Len(x)].at]
        /\ y[Len(x) + 1].at \in Reachable(y[Len(x) + 1].of)
    BY <2>1 DEF IsWay
  <2>3. y[Len(x)] = x[Len(x)]
    BY <1>1 DEF Extends
  <2>4. y[Len(x) + 1].of = End(t, x)
    BY <2>2, <2>3 DEF End
  <2> QED BY <2>2, <2>4
<1>3. Len(y) = Len(x) /\ \A k \in 1 .. Len(y) : y[k] = x[k]
  BY <1>1, <1>2 DEF Extends
<1> QED BY <1>1, <1>3, SeqEqual

LEMMA NumberIsLast ==
    ASSUME NEW t \in Trees, NEW x \in Numbers(t), NEW y,
           IsWay(t, y), Extends(y, x)
    PROVE  y = x
BY NumberWay, EndIsLast

\* Of two numbers one is in front.
LEMMA NumbersOrdered ==
    ASSUME NEW t \in Trees, NEW x \in Numbers(t), NEW y \in Numbers(t), x # y
    PROVE  Before(x, y) \/ Before(y, x)
BY NumberWay, BeforeOrExtends, NumberIsLast

LEMMA RankGrows ==
    ASSUME NEW t \in Trees, NEW x \in Numbers(t), NEW y \in Numbers(t)
    PROVE  /\ Rank(t, x) \in Nat
           /\ Before(x, y) => Rank(t, x) < Rank(t, y)
<1> DEFINE B(z) == {w \in Numbers(t) : Before(w, z)}
<1>1. IsFiniteSet(Numbers(t))
  <2>1. Numbers(t) \subseteq Ways(t)
    BY DEF Numbers
  <2> QED BY <2>1, WaysFinite, FS_Subset
<1>2. \A z : IsFiniteSet(B(z)) /\ Cardinality(B(z)) \in Nat
  BY <1>1, FS_Subset, FS_CardinalityType
<1>3. Rank(t, x) = Cardinality(B(x)) + 1 /\ Rank(t, y) = Cardinality(B(y)) + 1
  BY DEF Rank
<1>4. ASSUME Before(x, y)
      PROVE  Cardinality(B(x)) < Cardinality(B(y))
  <2>1. x \notin B(x)
    BY NumberWay, BeforeIrreflexive
  <2>2. B(x) \cup {x} \subseteq B(y)
    <3>1. ASSUME NEW w \in B(x)
          PROVE  Before(w, y)
      <4>1. IsWay(t, w) /\ IsWay(t, x) /\ y \in Seq(Frames)
        BY NumberWay DEF IsWay
      <4> QED BY <1>4, <3>1, <4>1, BeforeTransitive
    <3> QED BY <1>4, <3>1
  <2> HIDE DEF B
  <2>3. Cardinality(B(x) \cup {x}) = Cardinality(B(x)) + 1
    BY <1>2, <2>1, FS_AddElement
  <2>4. Cardinality(B(x) \cup {x}) <= Cardinality(B(y))
    BY <1>2, <2>2, FS_Subset
  <2> QED BY <1>2, <2>3, <2>4
<1> HIDE DEF B
<1> QED BY <1>2, <1>3, <1>4

\* No two numbers have the same rank.
LEMMA RankTells ==
    ASSUME NEW t \in Trees, NEW x \in Numbers(t), NEW y \in Numbers(t),
           Rank(t, x) = Rank(t, y)
    PROVE  x = y
<1>1. /\ Rank(t, x) \in Nat /\ Rank(t, y) \in Nat
      /\ Before(x, y) => Rank(t, x) < Rank(t, y)
      /\ Before(y, x) => Rank(t, y) < Rank(t, x)
  BY RankGrows
<1> QED BY <1>1, NumbersOrdered

-----------------------------------------------------------------------------
(* The stack of calls against the ways.                                    *)

\* The frames lead from value to value, what each has passed could be reached,
\* and the callers' indices are at what could.
IsStack(t, s) ==
    /\ s \in Seq(Frames)
    /\ \A k \in 1 .. Len(s) :
         /\ s[k].of = IF k = 1 THEN t ELSE s[k - 1].of.kids[s[k - 1].at]
         /\ k <= Depth + 1 /\ s[k].of \in Json[Depth + 1 - k]
         /\ s[k].of.type \in Containers
         /\ s[k].at <= Len(s[k].of.kids) + 1
         /\ \A j \in 1 .. s[k].at - 1 : j \in Reachable(s[k].of)
         /\ k < Len(s) => s[k].at \in Reachable(s[k].of)

\* The numbers in front of where the walk is.
Done(t, s) == IF s = <<>> THEN Numbers(t) ELSE {x \in Numbers(t) : Before(x, s)}

LEMMA StackFrames ==
    ASSUME NEW t \in Trees, NEW s, IsStack(t, s)
    PROVE  /\ Len(s) \in Nat /\ DOMAIN s = 1 .. Len(s)
           /\ \A k \in 1 .. Len(s) :
                /\ s[k] \in Frames /\ s[k].of \in Values /\ s[k].at \in Nat \ {0}
                /\ s[k] = [of |-> s[k].of, at |-> s[k].at]
           /\ s # <<>> => Len(s) \in 1 .. Len(s)
<1>1. s \in Seq(Frames) /\ Len(s) \in Nat /\ DOMAIN s = 1 .. Len(s)
  BY LenProperties DEF IsStack
<1>2. ASSUME NEW k \in 1 .. Len(s)
      PROVE  /\ s[k] \in Frames /\ s[k].of \in Values /\ s[k].at \in Nat \ {0}
             /\ s[k] = [of |-> s[k].of, at |-> s[k].at]
  <2>1. s[k] \in Frames
    BY <1>1, ElementOfSeq
  <2> QED BY <2>1 DEF Frames
<1>3. s # <<>> => Len(s) \in 1 .. Len(s)
  BY <1>1, EmptySeq
<1> QED BY <1>1, <1>2, <1>3

\* Each call was made for the value its caller's index is at.
LEMMA Called ==
    ASSUME NEW t, NEW s, IsStack(t, s), NEW k \in 1 .. Len(s)
    PROVE  s[k].of = IF k = 1 THEN t ELSE s[k - 1].of.kids[s[k - 1].at]
<1> DEFINE P(i) == s[i].of = IF i = 1 THEN t ELSE s[i - 1].of.kids[s[i - 1].at]
<1>1. \A i \in 1 .. Len(s) : P(i)
  BY Zenon DEF IsStack
<1> QED BY <1>1

LEMMA AdvancedFrames ==
    ASSUME NEW s \in Seq(Frames), s # <<>>
    PROVE  /\ Advanced(s) \in Seq(Frames) /\ Len(Advanced(s)) = Len(s)
           /\ Advanced(s) # <<>>
           /\ \A k \in 1 .. Len(s) - 1 : Advanced(s)[k] = s[k]
           /\ Advanced(s)[Len(s)].of = s[Len(s)].of
           /\ Advanced(s)[Len(s)].at = s[Len(s)].at + 1
<1>1. Len(s) \in Nat /\ Len(s) \in 1 .. Len(s)
  BY EmptySeq
<1>2. s[Len(s)] \in Frames
  BY <1>1, ElementOfSeq
<1> DEFINE f == [s[Len(s)] EXCEPT !.at = @ + 1]
<1>3. f \in Frames /\ f.of = s[Len(s)].of /\ f.at = s[Len(s)].at + 1
  BY <1>2 DEF Frames
<1> HIDE DEF f
<1>4. Advanced(s) = [s EXCEPT ![Len(s)] = f]
  BY DEF Advanced, f
<1>5. /\ Advanced(s) \in Seq(Frames) /\ Len(Advanced(s)) = Len(s)
      /\ \A j \in 1 .. Len(s) : Advanced(s)[j] = IF j = Len(s) THEN f ELSE s[j]
  BY <1>1, <1>3, <1>4, ExceptSeq
<1>6. Advanced(s) # <<>>
  BY <1>1, <1>5, EmptySeq
<1> QED BY <1>1, <1>3, <1>5, <1>6

\* A call made for the value the innermost index is at passes nothing.
LEMMA BeforeCall ==
    ASSUME NEW t \in Trees, NEW x, IsWay(t, x),
           NEW s \in Seq(Frames), NEW f \in Frames, f.at = 1
    PROVE  Before(x, Append(s, f)) <=> Before(x, s)
<1> DEFINE q == Append(s, f)
<1>1. /\ Len(x) \in Nat /\ DOMAIN x = 1 .. Len(x)
      /\ \A k \in 1 .. Len(x) : x[k].at \in Nat \ {0}
  BY WayValues
<1>2. /\ Len(s) \in Nat /\ DOMAIN s = 1 .. Len(s)
      /\ DOMAIN q = 1 .. Len(s) + 1
      /\ \A k \in 1 .. Len(s) : q[k] = s[k]
      /\ q[Len(s) + 1] = f
  BY AppendProperties, LenProperties
<1> HIDE DEF q
<1>3. ASSUME Before(x, q) PROVE Before(x, s)
  <2>1. PICK k \in DOMAIN x \cap DOMAIN q :
            x[k].at < q[k].at /\ \A j \in 1 .. k - 1 : x[j] = q[j]
    BY <1>3 DEF Before
  <2>2. k # Len(s) + 1
    BY <1>1, <1>2, <2>1
  <2>3. k \in 1 .. Len(s) /\ \A j \in 1 .. k - 1 : j \in 1 .. Len(s)
    BY <1>2, <2>1, <2>2
  <2> QED BY <1>2, <2>1, <2>3 DEF Before
<1>4. ASSUME Before(x, s) PROVE Before(x, q)
  <2>1. PICK k \in DOMAIN x \cap DOMAIN s :
            x[k].at < s[k].at /\ \A j \in 1 .. k - 1 : x[j] = s[j]
    BY <1>4 DEF Before
  <2>2. k \in 1 .. Len(s) /\ k \in DOMAIN q /\ \A j \in 1 .. k - 1 : j \in 1 .. Len(s)
    BY <1>2, <2>1
  <2> QED BY <1>2, <2>1, <2>2 DEF Before
<1> QED BY <1>3, <1>4 DEF q

\* Where x and s part from one another, they stand at the same value.
LEMMA SameValue ==
    ASSUME NEW t \in Trees, NEW x, IsWay(t, x), NEW s, IsStack(t, s),
           NEW k \in 1 .. Len(x), k \in 1 .. Len(s),
           \A j \in 1 .. k - 1 : x[j] = s[j]
    PROVE  /\ x[k].of = s[k].of
           /\ x[k].at = s[k].at => x[k] = s[k]
<1>1. k # 1 => k - 1 \in 1 .. k - 1
  BY StackFrames
<1>2. x[k].of = s[k].of
  <2>1. x[k].of = IF k = 1 THEN t ELSE x[k - 1].of.kids[x[k - 1].at]
    BY DEF IsWay
  <2>2. s[k].of = IF k = 1 THEN t ELSE s[k - 1].of.kids[s[k - 1].at]
    BY Called
  <2>3. k # 1 => x[k - 1] = s[k - 1]
    BY <1>1
  <2> QED BY <2>1, <2>2, <2>3
<1>3. /\ x[k] = [of |-> x[k].of, at |-> x[k].at]
      /\ s[k] = [of |-> s[k].of, at |-> s[k].at]
  BY WayValues, StackFrames
<1> QED BY <1>2, <1>3

\* When an index goes on, what it was at has been passed with all that is in it.
LEMMA BeforeAdvanced ==
    ASSUME NEW t \in Trees, NEW x, IsWay(t, x), NEW s, IsStack(t, s), s # <<>>
    PROVE  Before(x, Advanced(s)) <=> Before(x, s) \/ Extends(x, s)
<1> DEFINE q == Advanced(s)
           n == Len(s)
<1>1. /\ Len(x) \in Nat /\ DOMAIN x = 1 .. Len(x)
      /\ \A k \in 1 .. Len(x) : x[k].at \in Nat \ {0}
  BY WayValues
<1>2. /\ n \in Nat /\ n \in 1 .. n /\ DOMAIN s = 1 .. n
      /\ \A k \in 1 .. n : s[k].at \in Nat \ {0}
  BY StackFrames
<1>3. /\ DOMAIN q = 1 .. n /\ \A k \in 1 .. n - 1 : q[k] = s[k]
      /\ q[n].at = s[n].at + 1
  BY AdvancedFrames, LenProperties DEF IsStack
<1> HIDE DEF q, n
<1>4. ASSUME Before(x, q), ~ Before(x, s) PROVE Extends(x, s)
  <2>1. PICK k \in DOMAIN x \cap DOMAIN q :
            x[k].at < q[k].at /\ \A j \in 1 .. k - 1 : x[j] = q[j]
    BY <1>4 DEF Before
  <2>2. k \in 1 .. n /\ k \in 1 .. Len(x) /\ \A j \in 1 .. k - 1 : j \in 1 .. n - 1
    BY <1>1, <1>2, <1>3, <2>1
  <2>3. \A j \in 1 .. k - 1 : x[j] = s[j]
    BY <1>3, <2>1, <2>2
  <2>4. ~ (x[k].at < s[k].at)
    BY <1>1, <1>2, <1>4, <2>2, <2>3 DEF Before
  <2>5. k = n
    <3> SUFFICES ASSUME k # n PROVE FALSE
      OBVIOUS
    <3>1. k \in 1 .. n - 1
      BY <1>2, <2>2
    <3> QED BY <1>3, <2>1, <2>4, <3>1
  <2>6. x[n].at = s[n].at
    BY <1>1, <1>2, <1>3, <2>1, <2>2, <2>4, <2>5
  <2>7. x[n] = s[n]
    BY <2>2, <2>3, <2>5, <2>6, SameValue DEF n
  <2>8. \A j \in 1 .. n : x[j] = s[j]
    BY <1>2, <2>3, <2>5, <2>7
  <2> QED BY <1>1, <1>2, <2>2, <2>5, <2>8 DEF Extends, n
<1>5. ASSUME Before(x, s) PROVE Before(x, q)
  <2>1. PICK k \in DOMAIN x \cap DOMAIN s :
            x[k].at < s[k].at /\ \A j \in 1 .. k - 1 : x[j] = s[j]
    BY <1>5 DEF Before
  <2>2. /\ k \in 1 .. n /\ k \in 1 .. Len(x) /\ k \in DOMAIN q
        /\ \A j \in 1 .. k - 1 : j \in 1 .. n - 1
    BY <1>1, <1>2, <1>3, <2>1
  <2>3. \A j \in 1 .. k - 1 : x[j] = q[j]
    BY <1>3, <2>1, <2>2
  <2>4. x[k].at < q[k].at
    <3>1. CASE k = n
      BY <1>1, <1>2, <1>3, <2>1, <2>2, <3>1
    <3>2. CASE k # n
      <4>1. k \in 1 .. n - 1
        BY <1>2, <2>2, <3>2
      <4> QED BY <1>3, <2>1, <4>1
    <3> QED BY <3>1, <3>2
  <2> QED BY <2>1, <2>2, <2>3, <2>4 DEF Before
<1>6. ASSUME Extends(x, s) PROVE Before(x, q)
  <2>1. n <= Len(x) /\ \A k \in 1 .. n : x[k] = s[k]
    BY <1>6 DEF Extends, n
  <2>2. n \in DOMAIN x \cap DOMAIN q
    BY <1>1, <1>2, <1>3, <2>1
  <2>3. x[n].at < q[n].at
    BY <1>2, <1>3, <2>1
  <2>4. \A j \in 1 .. n - 1 : x[j] = q[j]
    BY <1>2, <1>3, <2>1
  <2> QED BY <2>2, <2>3, <2>4 DEF Before
<1> QED BY <1>4, <1>5, <1>6 DEF q

\* What the innermost call leaves behind when it returns.
LEMMA CallerStack ==
    ASSUME NEW t \in Trees, NEW s, IsStack(t, s), s # <<>>
    PROVE  LET c == SubSeq(s, 1, Len(s) - 1)
           IN  /\ IsStack(t, c) /\ IsWay(t, c) /\ Len(c) = Len(s) - 1
               /\ \A k \in 1 .. Len(s) - 1 : c[k] = s[k]
               /\ End(t, c) = s[Len(s)].of
<1> DEFINE n == Len(s) - 1
           c == SubSeq(s, 1, n)
<1>1. Len(s) \in Nat /\ s \in Seq(Frames) /\ n \in Nat /\ Len(s) = n + 1
  BY StackFrames DEF IsStack
<1>2. c \in Seq(Frames) /\ Len(c) = n /\ \A k \in 1 .. n : c[k] = s[k]
  <2>1. n \in 0 .. Len(s)
    BY <1>1
  <2> HIDE DEF n
  <2> QED BY <1>1, <2>1, Shortened
<1> HIDE DEF c, n
<1>3. ASSUME NEW k \in 1 .. n
      PROVE  /\ c[k].of = IF k = 1 THEN t ELSE c[k - 1].of.kids[c[k - 1].at]
             /\ c[k].at \in Reachable(c[k].of)
             /\ k <= Depth + 1 /\ c[k].of \in Json[Depth + 1 - k]
             /\ c[k].of.type \in Containers
             /\ c[k].at <= Len(c[k].of.kids) + 1
             /\ \A j \in 1 .. c[k].at - 1 : j \in Reachable(c[k].of)
  <2>1. k \in 1 .. Len(s) /\ k < Len(s) /\ (k # 1 => k - 1 \in 1 .. n)
    BY <1>1
  <2>2. c[k] = s[k] /\ (k # 1 => c[k - 1] = s[k - 1])
    BY <1>2, <2>1
  <2> QED BY <2>1, <2>2 DEF IsStack
<1>4. IsWay(t, c) /\ IsStack(t, c)
  BY <1>2, <1>3 DEF IsWay, IsStack
<1>5. End(t, c) = s[n + 1].of
  <2>1. n + 1 \in 1 .. Len(s)
    BY <1>1
  <2>2. \A k \in 1 .. Len(s) :
            s[k].of = IF k = 1 THEN t ELSE s[k - 1].of.kids[s[k - 1].at]
    BY Called
  <2>3. CASE n = 0
    <3>1. c = <<>>
      BY <1>2, <2>3, EmptySeq
    <3>2. s[1].of = t
      BY <2>1, <2>2, <2>3
    <3> QED BY <2>3, <3>1, <3>2 DEF End
  <2>4. CASE n # 0
    <3>1. c # <<>> /\ n \in 1 .. n
      BY <1>1, <1>2, <2>4, EmptySeq
    <3>2. End(t, c) = s[n].of.kids[s[n].at]
      BY <1>2, <3>1 DEF End
    <3>3. s[n + 1].of = s[n].of.kids[s[n].at]
      BY <1>1, <2>1, <2>2, <2>4
    <3> QED BY <3>2, <3>3
  <2> QED BY <2>3, <2>4
<1> QED BY <1>1, <1>2, <1>4, <1>5 DEF c, n

\* An index that is at a value within reach makes a way of the stack.
LEMMA StackWay ==
    ASSUME NEW t \in Trees, NEW s, IsStack(t, s), s # <<>>,
           s[Len(s)].at \in Reachable(s[Len(s)].of)
    PROVE  /\ IsWay(t, s) /\ s \in Ways(t) /\ Len(s) <= Depth
           /\ End(t, s) = s[Len(s)].of.kids[s[Len(s)].at]
           /\ End(t, s) \in Json[Depth - Len(s)]
<1>1. /\ Len(s) \in Nat /\ Len(s) \in 1 .. Len(s) /\ s \in Seq(Frames)
      /\ s[Len(s)].of \in Values
  BY StackFrames DEF IsStack
<1>2. ASSUME NEW k \in 1 .. Len(s) PROVE s[k].at \in Reachable(s[k].of)
  <2>1. k = Len(s) \/ k < Len(s)
    BY <1>1
  <2> QED BY <2>1 DEF IsStack
<1>3. IsWay(t, s)
  BY <1>1, <1>2, Called DEF IsWay
<1>4. End(t, s) = s[Len(s)].of.kids[s[Len(s)].at]
  BY DEF End
<1>5. Len(s) <= Depth /\ End(t, s) \in Json[Depth - Len(s)]
  <2> DEFINE n == Depth + 1 - Len(s)
             v == s[Len(s)].of
  <2>1. Len(s) <= Depth + 1 /\ v \in Json[n]
    BY <1>1 DEF IsStack
  <2>2. Depth \in Nat /\ n \in 0 .. Depth
    BY <1>1, <2>1, TreeAssumption
  <2>3. s[Len(s)].at \in DOMAIN v.kids
    BY DEF Reachable
  <2> HIDE DEF n, v
  <2>4. n > 0 /\ v.kids[s[Len(s)].at] \in Json[n - 1]
    BY <2>1, <2>2, <2>3, TreeAssumption
  <2>5. n - 1 = Depth - Len(s) /\ Len(s) <= Depth
    BY <1>1, <2>2, <2>4 DEF n
  <2> QED BY <1>4, <2>4, <2>5 DEF v
<1>6. s \in Ways(t)
  BY <1>1, <1>3, <1>5, WaysAre DEF WaysUpTo
<1> QED BY <1>3, <1>4, <1>5, <1>6

\* A frame of a stack, or what would be one at its end.
IsFrame(s, k) ==
    /\ k <= Depth + 1 /\ s[k].of \in Json[Depth + 1 - k]
    /\ s[k].of.type \in Containers
    /\ s[k].at <= Len(s[k].of.kids) + 1
    /\ \A j \in 1 .. s[k].at - 1 : j \in Reachable(s[k].of)

LEMMA StackFrame ==
    ASSUME NEW t, NEW s, IsStack(t, s), NEW k \in 1 .. Len(s)
    PROVE  IsFrame(s, k) /\ (k < Len(s) => s[k].at \in Reachable(s[k].of))
BY DEF IsStack, IsFrame

\* A loop that goes on past a value within reach.
LEMMA AdvancedStack ==
    ASSUME NEW t \in Trees, NEW s, IsStack(t, s), s # <<>>,
           s[Len(s)].at \in Reachable(s[Len(s)].of)
    PROVE  IsStack(t, Advanced(s)) /\ Advanced(s) # <<>>
<1> DEFINE q == Advanced(s)
           n == Len(s)
<1>1. /\ n \in Nat /\ n \in 1 .. n /\ s \in Seq(Frames)
      /\ s[n].of \in Values /\ s[n].at \in Nat \ {0}
  BY StackFrames DEF IsStack
<1>2. /\ q \in Seq(Frames) /\ Len(q) = n /\ q # <<>>
      /\ \A k \in 1 .. n - 1 : q[k] = s[k]
      /\ q[n].of = s[n].of /\ q[n].at = s[n].at + 1
  BY <1>1, AdvancedFrames
<1>3. s[n].at \in Reachable(s[n].of)
  OBVIOUS
<1> HIDE DEF q
<1>4. ASSUME NEW k \in 1 .. n
      PROVE  q[k].of = IF k = 1 THEN t ELSE q[k - 1].of.kids[q[k - 1].at]
  <2> HIDE DEF n
  <2>1. q[k].of = s[k].of
    <3>1. k = n \/ k \in 1 .. n - 1
      BY <1>1
    <3> QED BY <1>2, <3>1
  <2>2. k # 1 => q[k - 1] = s[k - 1]
    <3>1. k # 1 => k - 1 \in 1 .. n - 1
      BY <1>1
    <3> QED BY <1>2, <3>1
  <2>3. s[k].of = IF k = 1 THEN t ELSE s[k - 1].of.kids[s[k - 1].at]
    BY Called DEF n
  <2> QED BY <2>1, <2>2, <2>3
<1>5. ASSUME NEW k \in 1 .. n
      PROVE  IsFrame(q, k) /\ (k < n => q[k].at \in Reachable(q[k].of))
  <2>1. IsFrame(s, k) /\ (k < n => s[k].at \in Reachable(s[k].of))
    BY StackFrame
  <2> HIDE DEF n
  <2>2. CASE k = n
    <3>1. s[n].at <= Len(s[n].of.kids) /\ Len(s[n].of.kids) \in Nat
      BY <1>1, <1>3, ValueType
    <3>2. \A j \in 1 .. s[n].at : j \in Reachable(s[n].of)
      BY <1>1, <1>3, ValueType
    <3>3. q[n].at <= Len(q[n].of.kids) + 1
      BY <1>1, <1>2, <3>1
    <3>4. \A j \in 1 .. q[n].at - 1 : j \in Reachable(q[n].of)
      BY <1>1, <1>2, <3>2
    <3> QED BY <1>1, <1>2, <2>1, <2>2, <3>3, <3>4 DEF IsFrame
  <2>3. CASE k # n
    <3>1. k \in 1 .. n - 1
      BY <1>1, <2>3
    <3> QED BY <1>2, <2>1, <3>1 DEF IsFrame
  <2> QED BY <2>2, <2>3
<1>6. IsStack(t, q)
  BY <1>2, <1>4, <1>5 DEF IsStack, IsFrame
<1> QED BY <1>2, <1>6 DEF q

\* A call for the container the innermost index is at.
LEMMA CallStack ==
    ASSUME NEW t \in Trees, NEW s, IsStack(t, s), s # <<>>,
           s[Len(s)].at \in Reachable(s[Len(s)].of),
           NEW v, v = s[Len(s)].of.kids[s[Len(s)].at], v.type \in Containers
    PROVE  /\ IsStack(t, Append(s, Frame(v)))
           /\ Done(t, Append(s, Frame(v))) = Done(t, s)
<1> DEFINE f == Frame(v)
           q == Append(s, f)
           n == Len(s)
<1>1. /\ n \in Nat /\ n \in 1 .. n /\ s \in Seq(Frames) /\ n <= Depth
      /\ v \in Json[Depth - n] /\ Depth \in Nat
  BY StackFrames, StackWay, TreeAssumption DEF IsStack
<1>2. v \in Values /\ Len(v.kids) \in Nat
  <2>1. Depth - n \in 0 .. Depth
    BY <1>1
  <2>2. v \in Values
    BY <1>1, <2>1 DEF Values
  <2> QED BY <2>2, ValueType
<1>3. f \in Frames /\ f.of = v /\ f.at = 1
  BY <1>2 DEF Frame, Frames
<1>4. v = s[n].of.kids[s[n].at] /\ s[n].at \in Reachable(s[n].of)
  OBVIOUS
<1> HIDE DEF f
<1>5. /\ q \in Seq(Frames) /\ Len(q) = n + 1
      /\ \A k \in 1 .. n : q[k] = s[k]
      /\ q[n + 1] = f
  BY <1>1, <1>3, AppendProperties
<1>6. Done(t, q) = Done(t, s)
  <2>1. q # <<>>
    BY <1>1, <1>5, EmptySeq
  <2>2. \A x \in Numbers(t) : Before(x, q) <=> Before(x, s)
    BY <1>1, <1>3, NumberWay, BeforeCall
  <2> HIDE DEF q
  <2> QED BY <2>1, <2>2 DEF Done
<1>7. \A k \in 1 .. n : /\ s[k].of = IF k = 1 THEN t ELSE s[k - 1].of.kids[s[k - 1].at]
                        /\ IsFrame(s, k)
                        /\ k < n => s[k].at \in Reachable(s[k].of)
  BY Called, StackFrame
<1> HIDE DEF q, n
<1>8. ASSUME NEW k \in 1 .. n + 1
      PROVE  q[k].of = IF k = 1 THEN t ELSE q[k - 1].of.kids[q[k - 1].at]
  <2>1. CASE k = n + 1
    <3>1. k # 1 /\ k - 1 = n /\ q[k - 1] = s[n]
      BY <1>1, <1>5, <2>1
    <3>2. q[k].of = v
      BY <1>3, <1>5, <2>1
    <3> QED BY <1>4, <3>1, <3>2
  <2>2. CASE k # n + 1
    <3>1. k \in 1 .. n /\ (k # 1 => k - 1 \in 1 .. n)
      BY <1>1, <2>2
    <3>2. q[k] = s[k] /\ (k # 1 => q[k - 1] = s[k - 1])
      BY <1>5, <3>1
    <3> QED BY <1>7, <3>1, <3>2
  <2> QED BY <2>1, <2>2
<1>9. ASSUME NEW k \in 1 .. n + 1
      PROVE  IsFrame(q, k) /\ (k < n + 1 => q[k].at \in Reachable(q[k].of))
  <2>1. CASE k = n + 1
    <3>1. k <= Depth + 1 /\ Depth + 1 - k = Depth - n
      BY <1>1, <2>1
    <3>2. q[k].of = v /\ q[k].at = 1
      BY <1>3, <1>5, <2>1
    <3>3. q[k].at <= Len(q[k].of.kids) + 1
      <4>1. \A m \in Nat : 1 <= m + 1
        OBVIOUS
      <4> QED BY <1>2, <3>2, <4>1
    <3>4. 1 .. q[k].at - 1 = {}
      BY <3>2
    <3>5. q[k].of \in Json[Depth + 1 - k] /\ q[k].of.type \in Containers
      BY <1>1, <3>1, <3>2
    <3>6. IsFrame(q, k)
      BY <3>1, <3>3, <3>4, <3>5 DEF IsFrame
    <3> QED BY <1>1, <2>1, <3>6
  <2>2. CASE k # n + 1
    <3>1. k \in 1 .. n /\ (k = n \/ k < n)
      BY <1>1, <2>2
    <3>2. q[k] = s[k] /\ IsFrame(s, k) /\ s[k].at \in Reachable(s[k].of)
      BY <1>4, <1>5, <1>7, <3>1
    <3> QED BY <3>2 DEF IsFrame
  <2> QED BY <2>1, <2>2
<1>10. IsStack(t, q)
  BY <1>5, <1>8, <1>9 DEF IsStack, IsFrame
<1> QED BY <1>6, <1>10 DEF q, f

\* What a call that returns has passed is what its caller has passed and all
\* that is in the value it was made for.
LEMMA BeforeReturned ==
    ASSUME NEW t \in Trees, NEW s, IsStack(t, s), s # <<>>,
           s[Len(s)].at \notin Reachable(s[Len(s)].of), NEW x, IsWay(t, x)
    PROVE  LET c == SubSeq(s, 1, Len(s) - 1)
           IN  /\ Before(x, s) => Before(x, c) \/ Extends(x, c)
               /\ x # c /\ (Before(x, c) \/ Extends(x, c)) => Before(x, s)
<1> DEFINE c == SubSeq(s, 1, Len(s) - 1)
           n == Len(s) - 1
<1>1. /\ IsWay(t, x) /\ Len(x) \in Nat /\ DOMAIN x = 1 .. Len(x)
      /\ \A k \in 1 .. Len(x) : x[k].at \in Nat \ {0}
      /\ x \in Seq(Frames)
  BY WayValues DEF IsWay
<1>2. /\ Len(s) = n + 1 /\ n \in Nat /\ DOMAIN s = 1 .. n + 1
      /\ s[n + 1].at \in Nat \ {0} /\ s[n + 1].of \in Values
      /\ s[n + 1].of.type \in Containers
      /\ s[n + 1].at \notin Reachable(s[n + 1].of)
  <2>1. Len(s) \in 1 .. Len(s) /\ Len(s) \in Nat
    BY StackFrames
  <2>2. n + 1 = Len(s) /\ n \in Nat
    BY <2>1
  <2>3. IsFrame(s, Len(s))
    BY <2>1, StackFrame
  <2> HIDE DEF n
  <2> QED BY <2>1, <2>2, <2>3, StackFrames DEF IsFrame
<1>3. /\ c \in Seq(Frames) /\ Len(c) = n /\ DOMAIN c = 1 .. n
      /\ \A k \in 1 .. n : c[k] = s[k]
      /\ End(t, c) = s[n + 1].of
  <2>1. /\ IsWay(t, c) /\ Len(c) = n
        /\ \A k \in 1 .. n : c[k] = s[k]
        /\ End(t, c) = s[Len(s)].of
    BY CallerStack
  <2> HIDE DEF c, n
  <2> QED BY <1>2, <2>1, WayValues DEF IsWay
<1> HIDE DEF c, n
<1>4. ASSUME Before(x, s) PROVE Before(x, c) \/ Extends(x, c)
  <2>1. PICK k \in DOMAIN x \cap DOMAIN s :
            x[k].at < s[k].at /\ \A j \in 1 .. k - 1 : x[j] = s[j]
    BY <1>4 DEF Before
  <2>2. k \in 1 .. n + 1 /\ k \in 1 .. Len(x)
    BY <1>1, <1>2, <2>1
  <2>3. CASE k = n + 1
    <3>1. n <= Len(x) /\ \A j \in 1 .. n : j \in 1 .. k - 1
      BY <1>1, <1>2, <2>2, <2>3
    <3> QED BY <1>3, <2>1, <3>1 DEF Extends
  <2>4. CASE k # n + 1
    <3>1. k \in 1 .. n /\ \A j \in 1 .. k - 1 : j \in 1 .. n
      BY <1>2, <2>2, <2>4
    <3>2. k \in DOMAIN c /\ x[k].at < c[k].at /\ \A j \in 1 .. k - 1 : x[j] = c[j]
      BY <1>3, <2>1, <3>1
    <3> QED BY <2>1, <3>2 DEF Before
  <2> QED BY <2>3, <2>4
<1>5. ASSUME Before(x, c) PROVE Before(x, s)
  <2>1. PICK k \in DOMAIN x \cap DOMAIN c :
            x[k].at < c[k].at /\ \A j \in 1 .. k - 1 : x[j] = c[j]
    BY <1>5 DEF Before
  <2>2. k \in 1 .. n /\ k \in 1 .. n + 1 /\ \A j \in 1 .. k - 1 : j \in 1 .. n
    BY <1>2, <1>3, <2>1
  <2> QED BY <1>2, <1>3, <2>1, <2>2 DEF Before
<1>6. ASSUME Extends(x, c), x # c PROVE Before(x, s)
  <2>1. n <= Len(x) /\ \A k \in 1 .. n : x[k] = s[k]
    BY <1>3, <1>6 DEF Extends
  <2>2. Len(x) # n
    <3> SUFFICES ASSUME Len(x) = n PROVE FALSE
      OBVIOUS
    <3>1. \A k \in 1 .. Len(x) : x[k] = c[k]
      BY <1>3, <2>1
    <3>2. x = c
      BY <1>1, <1>3, <3>1, SeqEqual
    <3> QED BY <1>6, <3>2
  <2>3. /\ n + 1 \in 1 .. Len(x) /\ n + 1 \in 1 .. Len(s)
        /\ \A k \in 1 .. (n + 1) - 1 : k \in 1 .. n
    <3>1. \A a, b \in Nat : a <= b /\ b # a => a + 1 \in 1 .. b
      OBVIOUS
    <3>2. n + 1 \in 1 .. Len(x)
      BY <1>1, <1>2, <2>1, <2>2, <3>1
    <3>3. n + 1 \in 1 .. Len(s) /\ (n + 1) - 1 = n
      BY <1>2
    <3> QED BY <3>2, <3>3
  <2>4. x[n + 1].of = s[n + 1].of
    <3> DEFINE m == n + 1
    <3>1. m \in 1 .. Len(x) /\ m \in 1 .. Len(s) /\ \A k \in 1 .. m - 1 : x[k] = s[k]
      BY <2>1, <2>3
    <3> HIDE DEF m
    <3>2. x[m].of = s[m].of
      BY <1>1, <3>1, SameValue
    <3> QED BY <3>2 DEF m
  <2>5. x[n + 1].at \in Reachable(s[n + 1].of)
    BY <1>1, <2>3, <2>4 DEF IsWay
  <2>6. x[n + 1].at < s[n + 1].at
    <3> SUFFICES ASSUME ~ (x[n + 1].at < s[n + 1].at) PROVE FALSE
      OBVIOUS
    <3>1. s[n + 1].at \in 1 .. x[n + 1].at
      BY <1>1, <1>2, <2>3
    <3>2. s[n + 1].at \in Reachable(s[n + 1].of)
      BY <1>2, <2>5, <3>1, ValueType
    <3> QED BY <1>2, <3>2
  <2> QED BY <1>1, <1>2, <2>1, <2>3, <2>6 DEF Before
<1> QED BY <1>4, <1>5, <1>6 DEF c

\* A call returns: either its loop has no case for the value its index is at,
\* or the index has come to the end.
LEMMA ReturnedStack ==
    ASSUME NEW t \in Trees, NEW s, IsStack(t, s), s # <<>>,
           s[Len(s)].at \notin Reachable(s[Len(s)].of)
    PROVE  LET c == SubSeq(s, 1, Len(s) - 1)
               r == IF c = <<>> THEN <<>> ELSE Advanced(c)
           IN  IsStack(t, r) /\ Done(t, r) = Done(t, s)
<1> DEFINE c == SubSeq(s, 1, Len(s) - 1)
           r == IF c = <<>> THEN <<>> ELSE Advanced(c)
<1>1. IsStack(t, c) /\ IsWay(t, c)
  BY CallerStack
<1>2. \A x \in Numbers(t) : Before(x, s) <=> Before(x, c) \/ Extends(x, c)
  <2>1. ASSUME NEW x \in Numbers(t) PROVE IsWay(t, x) /\ x # c
    <3>1. s[Len(s)].of.type \in Containers /\ End(t, c) = s[Len(s)].of
      BY StackFrames, StackFrame, CallerStack DEF IsFrame
    <3>2. End(t, x).type = "integer" /\ IsWay(t, x)
      BY NumberWay
    <3> HIDE DEF c
    <3> QED BY <3>1, <3>2 DEF Containers
  <2> QED BY <2>1, BeforeReturned
<1>3. \A x \in Numbers(t) : IsWay(t, x) /\ Len(x) \in Nat
  BY NumberWay
<1> HIDE DEF c
<1>4. ASSUME c = <<>> PROVE IsStack(t, r) /\ Done(t, r) = Done(t, s)
  <2>1. \A x \in Numbers(t) : Extends(x, c)
    BY <1>3, <1>4, EmptySeq DEF Extends
  <2>2. Done(t, r) = Numbers(t) /\ Done(t, s) = Numbers(t)
    BY <1>2, <1>4, <2>1 DEF Done
  <2> QED BY <1>1, <1>4, <2>2
<1>5. ASSUME c # <<>> PROVE IsStack(t, r) /\ Done(t, r) = Done(t, s)
  <2>1. Len(c) \in 1 .. Len(c)
    BY <1>1, <1>5, StackFrames
  <2>2. c[Len(c)].at \in Reachable(c[Len(c)].of)
    BY <1>1, <2>1 DEF IsWay
  <2>3. IsStack(t, Advanced(c)) /\ Advanced(c) # <<>>
    BY <1>1, <1>5, <2>2, AdvancedStack
  <2>4. \A x \in Numbers(t) : Before(x, Advanced(c)) <=> Before(x, c) \/ Extends(x, c)
    BY <1>1, <1>3, <1>5, BeforeAdvanced
  <2>5. Done(t, Advanced(c)) = Done(t, s)
    BY <1>2, <2>3, <2>4 DEF Done
  <2> QED BY <1>5, <2>3, <2>5
<1> QED BY <1>4, <1>5 DEF c

\* A loop that goes on past a value with nothing in it.
LEMMA DoneAdvanced ==
    ASSUME NEW t \in Trees, NEW s, IsStack(t, s), s # <<>>,
           s[Len(s)].at \in Reachable(s[Len(s)].of),
           NEW v, v = s[Len(s)].of.kids[s[Len(s)].at], v.type \notin Containers
    PROVE  /\ s \in Numbers(t) <=> v.type = "integer" /\ v.match
           /\ s \notin Done(t, s)
           /\ Done(t, Advanced(s)) =
                IF s \in Numbers(t) THEN Done(t, s) \cup {s} ELSE Done(t, s)
<1>1. IsWay(t, s) /\ s \in Ways(t) /\ End(t, s) = v /\ v \in Values
  BY StackWay, WayValues
<1>2. s \in Numbers(t) <=> v.type = "integer" /\ v.match
  BY <1>1 DEF Numbers
<1>3. s \notin Done(t, s)
  BY <1>1, BeforeIrreflexive DEF Done
<1>4. Reachable(End(t, s)) = {}
  BY <1>1, ValueType
<1>5. \A x \in Numbers(t) : Extends(x, s) <=> x = s
  BY <1>1, <1>4, NumberWay, EndIsLast DEF Extends
<1>6. Advanced(s) # <<>>
  BY AdvancedStack
<1>7. \A x \in Numbers(t) : Before(x, Advanced(s)) <=> Before(x, s) \/ x = s
  BY <1>5, NumberWay, BeforeAdvanced
<1> QED BY <1>2, <1>3, <1>6, <1>7 DEF Done

-----------------------------------------------------------------------------
(* The walk.                                                               *)

\* The n-th value the callback is given is the number of rank n.
InOrder(t, p) ==
    \A n \in 1 .. Len(p) : \E x \in Numbers(t) :
        Rank(t, x) = n /\ p[n] = Short(End(t, x).val)

\* The stack leads from value to value, and the callback has been given the
\* numbers in front of it.
WalkInv ==
    /\ tree \in Trees /\ given \in BOOLEAN /\ passed \in Seq(Shorts)
    /\ IsStack(tree, stack)
    /\ ~ given => passed = <<>>
    /\ given => Len(passed) = Cardinality(Done(tree, stack)) /\ InOrder(tree, passed)

LEMMA ShortOf == \A i \in Int : i % ShortSize \in Shorts
<1>1. ShortSize \in Nat \ {0}
  BY DEF ShortSize
<1>2. \A n \in Nat \ {0}, i \in Int : i % n \in 0 .. n - 1
  OBVIOUS
<1> QED BY <1>1, <1>2 DEF Shorts

LEMMA DoneFinite ==
    ASSUME NEW t \in Trees, NEW s
    PROVE  /\ IsFiniteSet(Numbers(t)) /\ Cardinality(Numbers(t)) \in Nat
           /\ IsFiniteSet(Done(t, s)) /\ Cardinality(Done(t, s)) \in Nat
           /\ Cardinality(Done(t, s)) <= Cardinality(Numbers(t))
<1>1. IsFiniteSet(Numbers(t)) /\ Cardinality(Numbers(t)) \in Nat
  <2>1. Numbers(t) \subseteq Ways(t)
    BY DEF Numbers
  <2> QED BY <2>1, WaysFinite, FS_Subset, FS_CardinalityType
<1>2. Done(t, s) \subseteq Numbers(t)
  BY DEF Done
<1> QED BY <1>1, <1>2, FS_Subset, FS_CardinalityType

\* The stack's innermost frame, and what its index says.
LEMMA InnermostCall ==
    ASSUME WalkInv, stack # <<>>
    PROVE  /\ Top.of \in Values /\ Top.of.type \in Containers
           /\ Top.at \in Nat \ {0} /\ Top.at <= Len(Top.of.kids) + 1
           /\ Reachable(Top.of) \subseteq 1 .. Len(Top.of.kids)
           /\ InLoop => /\ Top.at \in Reachable(Top.of) <=> ~ NoCase
                        /\ Value \in Values
<1>a. tree \in Trees /\ IsStack(tree, stack)
  BY DEF WalkInv
<1>b. Len(stack) \in 1 .. Len(stack)
  BY <1>a, StackFrames
<1>1. Top.of \in Values /\ Top.at \in Nat \ {0}
  BY <1>a, <1>b, StackFrames DEF Top
<1>2. /\ Top.of.type \in Containers /\ Top.at <= Len(Top.of.kids) + 1
      /\ \A j \in 1 .. Top.at - 1 : j \in Reachable(Top.of)
  <2>1. IsFrame(stack, Len(stack))
    BY <1>a, <1>b, StackFrame
  <2> QED BY <2>1 DEF IsFrame, Top
<1>3. /\ Len(Top.of.kids) \in Nat /\ DOMAIN Top.of.kids = 1 .. Len(Top.of.kids)
      /\ \A i \in 1 .. Len(Top.of.kids) : Top.of.kids[i] \in Values
      /\ Reachable(Top.of) \subseteq 1 .. Len(Top.of.kids)
  BY <1>1, ValueType
<1>4. ASSUME InLoop
      PROVE  (Top.at \in Reachable(Top.of) <=> ~ NoCase) /\ Value \in Values
  <2> DEFINE Case(j) == IF Top.of.type = "array" THEN Top.of.kids[j].type \in Containers
                                                 ELSE Top.of.kids[j].type # "other"
  <2>1. Top.at \in 1 .. Len(Top.of.kids)
    BY <1>1, <1>3, <1>4 DEF InLoop
  <2>2. \A i \in 1 .. Len(Top.of.kids) :
            i \in Reachable(Top.of) <=> \A j \in 1 .. i : Case(j)
    BY <1>3 DEF Reachable
  <2>3. ~ NoCase <=> Case(Top.at)
    BY DEF NoCase, Value
  <2> HIDE DEF Case
  <2>4. \A j \in 1 .. Top.at - 1 : Case(j)
    <3>1. ASSUME NEW j \in 1 .. Top.at - 1 PROVE Case(j)
      <4>1. j \in Reachable(Top.of) /\ j \in 1 .. Len(Top.of.kids) /\ j \in 1 .. j
        BY <1>2, <1>3
      <4> QED BY <2>2, <4>1
    <3> QED BY <3>1
  <2>5. Case(Top.at) <=> \A j \in 1 .. Top.at : Case(j)
    <3>1. \A j \in 1 .. Top.at : j = Top.at \/ j \in 1 .. Top.at - 1
      BY <2>1
    <3> QED BY <2>1, <2>4, <3>1
  <2>6. Value \in Values
    BY <1>3, <2>1 DEF Value
  <2> QED BY <2>1, <2>2, <2>3, <2>5, <2>6
<1> QED BY <1>1, <1>2, <1>3, <1>4

LEMMA FirstCall == ASSUME Init PROVE WalkInv
<1>1. /\ tree \in Trees /\ given \in BOOLEAN /\ passed = <<>>
      /\ stack = <<Frame(tree)>>
  BY DEF Init
<1>2. /\ tree \in Values /\ tree.type = "array" /\ Depth \in Nat
      /\ tree \in Json[Depth] /\ Len(tree.kids) \in Nat
  BY <1>1, TreeValue, ValueType, TreeAssumption
<1>3. Frame(tree) \in Frames /\ Frame(tree).of = tree /\ Frame(tree).at = 1
  BY <1>2 DEF Frame, Frames
<1>4. /\ stack \in Seq(Frames) /\ Len(stack) = 1 /\ stack # <<>>
      /\ stack[1] = Frame(tree) /\ DOMAIN stack = 1 .. 1
  BY <1>1, <1>3
<1>5. IsFrame(stack, 1)
  <2>1. 1 <= Depth + 1 /\ Depth + 1 - 1 = Depth /\ 1 <= Len(tree.kids) + 1 /\ 1 .. 1 - 1 = {}
    BY <1>2
  <2>2. stack[1].of = tree /\ stack[1].at = 1
    BY <1>3, <1>4
  <2> QED BY <1>2, <2>1, <2>2 DEF IsFrame, Containers
<1>6. IsStack(tree, stack)
  <2>1. ASSUME NEW k \in 1 .. Len(stack)
        PROVE  /\ k = 1 /\ ~ (k < Len(stack)) /\ IsFrame(stack, k)
               /\ stack[k].of = tree
    BY <1>3, <1>4, <1>5
  <2> QED BY <1>4, <2>1 DEF IsStack, IsFrame
<1>7. Done(tree, stack) = {}
  <2>1. ASSUME NEW x \in Numbers(tree), Before(x, stack) PROVE FALSE
    <3>1. IsWay(tree, x) /\ DOMAIN x = 1 .. Len(x) /\ \A k \in 1 .. Len(x) : x[k].at \in Nat \ {0}
      BY <1>1, NumberWay, WayValues
    <3>2. PICK k \in DOMAIN x \cap DOMAIN stack : x[k].at < stack[k].at
      BY <2>1 DEF Before
    <3> QED BY <1>3, <1>4, <3>1, <3>2
  <2> QED BY <1>4, <2>1 DEF Done
<1>8. Len(passed) = Cardinality(Done(tree, stack)) /\ InOrder(tree, passed)
  <2>1. Len(passed) = 0 /\ 1 .. 0 = {}
    BY <1>1
  <2>2. Cardinality({}) = 0
    BY FS_EmptySet
  <2> QED BY <1>7, <2>1, <2>2 DEF InOrder
<1>9. passed \in Seq(Shorts)
  BY <1>1
<1> QED BY <1>1, <1>6, <1>8, <1>9 DEF WalkInv

\* A step that passes nothing on keeps the invariant if it has gone past no number.
LEMMA NothingPassed ==
    ASSUME WalkInv, UNCHANGED <<tree, given, passed>>,
           IsStack(tree, stack'), Done(tree, stack') = Done(tree, stack)
    PROVE  WalkInv'
<1>1. /\ tree \in Trees /\ given \in BOOLEAN /\ passed \in Seq(Shorts)
      /\ ~ given => passed = <<>>
      /\ given => Len(passed) = Cardinality(Done(tree, stack)) /\ InOrder(tree, passed)
  BY DEF WalkInv
<1>2. tree' = tree /\ given' = given /\ passed' = passed
  OBVIOUS
<1>3. Done(tree', stack') = Done(tree, stack) /\ IsStack(tree', stack')
  BY <1>2
<1>4. given' => Len(passed') = Cardinality(Done(tree', stack')) /\ InOrder(tree', passed')
  BY <1>1, <1>2, <1>3
<1>5. /\ tree' \in Trees /\ given' \in BOOLEAN /\ passed' \in Seq(Shorts)
      /\ ~ given' => passed' = <<>>
  BY <1>1, <1>2
<1> QED BY <1>3, <1>4, <1>5 DEF WalkInv

\* A number under way goes to the callback.
LEMMA NumberPassed ==
    ASSUME WalkInv, stack # <<>>, InLoop, Top.at \in Reachable(Top.of),
           Value.type = "integer",
           UNCHANGED <<tree, given>>, stack' = Advanced(stack),
           passed' = IF Value.match /\ given
                     THEN Append(passed, AsArgument(Value.val)) ELSE passed
    PROVE  WalkInv'
<1> DEFINE d == Done(tree, stack)
           dd == Done(tree, stack')
           a == AsArgument(Value.val)
<1>1. /\ tree \in Trees /\ given \in BOOLEAN /\ passed \in Seq(Shorts)
      /\ IsStack(tree, stack)
      /\ ~ given => passed = <<>>
      /\ given => Len(passed) = Cardinality(d) /\ InOrder(tree, passed)
  BY DEF WalkInv
<1>2. tree' = tree /\ given' = given
  OBVIOUS
<1>3. /\ stack[Len(stack)].at \in Reachable(stack[Len(stack)].of)
      /\ Value = stack[Len(stack)].of.kids[stack[Len(stack)].at]
      /\ Value.type \notin Containers
  BY DEF Top, Value, Containers
<1>4. IsStack(tree, stack')
  BY <1>1, <1>3, AdvancedStack
<1>5. /\ stack \in Numbers(tree) <=> Value.match
      /\ stack \notin d
      /\ dd = IF stack \in Numbers(tree) THEN d \cup {stack} ELSE d
  BY <1>1, <1>3, DoneAdvanced
<1>6. IsFiniteSet(d)
  BY <1>1, DoneFinite
<1>7. Value.val \in Int /\ End(tree, stack) = Value
  BY <1>1, <1>3, InnermostCall, ValueType, StackWay
<1>8. a \in Shorts /\ a = Short(End(tree, stack).val)
  BY <1>7, ShortOf DEF AsArgument, Short
<1>9. CASE Value.match /\ given
  <2>1. passed' = Append(passed, a)
    BY <1>9
  <2> HIDE DEF a, d, dd
  <2>2. /\ passed' \in Seq(Shorts) /\ Len(passed') = Len(passed) + 1
        /\ \A n \in 1 .. Len(passed) : passed'[n] = passed[n]
        /\ passed'[Len(passed) + 1] = a
        /\ Len(passed) \in Nat
    BY <1>1, <1>8, <2>1, AppendProperties, LenProperties
  <2>3. Cardinality(dd) = Cardinality(d) + 1
    BY <1>5, <1>6, <1>9, FS_AddElement
  <2>4. Rank(tree, stack) = Len(passed) + 1
    <3>1. d = {x \in Numbers(tree) : Before(x, stack)}
      BY DEF d, Done
    <3> QED BY <1>1, <1>9, <3>1 DEF Rank
  <2>5. InOrder(tree, passed')
    <3>1. ASSUME NEW n \in 1 .. Len(passed')
          PROVE  \E x \in Numbers(tree) :
                    Rank(tree, x) = n /\ passed'[n] = Short(End(tree, x).val)
      <4>1. CASE n = Len(passed) + 1
        <5>1. Rank(tree, stack) = n /\ passed'[n] = Short(End(tree, stack).val)
          BY <1>8, <2>2, <2>4, <4>1
        <5> QED BY <1>5, <1>9, <5>1
      <4>2. CASE n # Len(passed) + 1
        <5>1. n \in 1 .. Len(passed)
          BY <2>2, <4>2
        <5>2. PICK x \in Numbers(tree) :
                  Rank(tree, x) = n /\ passed[n] = Short(End(tree, x).val)
          BY <1>1, <1>9, <5>1 DEF InOrder
        <5>3. passed'[n] = passed[n]
          BY <2>2, <5>1
        <5>4. Rank(tree, x) = n /\ passed'[n] = Short(End(tree, x).val)
          BY <5>2, <5>3, Zenon
        <5> QED BY <5>4, Zenon
      <4> QED BY <4>1, <4>2
    <3> QED BY <3>1 DEF InOrder
  <2>6. Len(passed') = Cardinality(dd)
    BY <1>1, <1>9, <2>2, <2>3
  <2> QED BY <1>1, <1>2, <1>4, <1>9, <2>2, <2>5, <2>6 DEF WalkInv, dd
<1>10. CASE ~ (Value.match /\ given)
  <2>1. passed' = passed
    BY <1>10
  <2>2. given => dd = d
    BY <1>5, <1>10
  <2> HIDE DEF a, d, dd
  <2>3. given => Len(passed') = Cardinality(dd) /\ InOrder(tree, passed')
    BY <1>1, <2>1, <2>2
  <2> QED BY <1>1, <1>2, <1>4, <2>1, <2>3 DEF WalkInv, dd
<1> QED BY <1>9, <1>10

\* What a loop has a case for is within reach.
LEMMA CaseReachable ==
    ASSUME WalkInv, InLoop
    PROVE  /\ stack # <<>> /\ tree \in Trees /\ IsStack(tree, stack)
           /\ Value = stack[Len(stack)].of.kids[stack[Len(stack)].at]
           /\ stack[Len(stack)].at \in Reachable(stack[Len(stack)].of) <=> ~ NoCase
<1>1. stack # <<>> /\ tree \in Trees /\ IsStack(tree, stack)
  BY DEF InLoop, WalkInv
<1>2. Top.at \in Reachable(Top.of) <=> ~ NoCase
  BY <1>1, InnermostCall
<1> QED BY <1>1, <1>2 DEF Top, Value

LEMMA WalkStep == WalkInv /\ [Next]_vars => WalkInv'
<1> SUFFICES ASSUME WalkInv, [Next]_vars PROVE WalkInv'
  OBVIOUS
<1>1. tree \in Trees /\ IsStack(tree, stack)
  BY DEF WalkInv
<1>2. CASE Descend
  <2>1. /\ InLoop /\ Value.type \in Containers
        /\ stack' = Append(stack, Frame(Value))
        /\ UNCHANGED <<tree, given, passed>>
    BY <1>2 DEF Descend
  <2>2. ~ NoCase
    BY <2>1 DEF NoCase, Containers
  <2>3. IsStack(tree, stack') /\ Done(tree, stack') = Done(tree, stack)
    BY <2>1, <2>2, CaseReachable, CallStack
  <2> QED BY <2>1, <2>3, NothingPassed
<1>3. CASE Integer
  <2>1. /\ InLoop /\ Top.of.type = "object" /\ Value.type = "integer"
        /\ passed' = IF Value.match /\ given
                     THEN Append(passed, AsArgument(Value.val)) ELSE passed
        /\ stack' = Advanced(stack) /\ UNCHANGED <<tree, given>>
    BY <1>3 DEF Integer
  <2>2. ~ NoCase
    BY <2>1 DEF NoCase
  <2>3. stack # <<>> /\ Top.at \in Reachable(Top.of)
    BY <2>1, <2>2, CaseReachable DEF Top
  <2> QED BY <2>1, <2>3, NumberPassed
<1>4. CASE StringOrReal
  <2>1. /\ InLoop /\ Top.of.type = "object" /\ Value.type \in {"string", "real"}
        /\ stack' = Advanced(stack) /\ UNCHANGED <<tree, given, passed>>
    BY <1>4 DEF StringOrReal
  <2>2. ~ NoCase /\ Value.type \notin Containers /\ Value.type # "integer"
    BY <2>1 DEF NoCase, Containers
  <2>3. IsStack(tree, stack')
    BY <2>1, <2>2, CaseReachable, AdvancedStack
  <2>4. Done(tree, stack') = Done(tree, stack)
    BY <2>1, <2>2, CaseReachable, DoneAdvanced
  <2> QED BY <2>1, <2>3, <2>4, NothingPassed
<1>5. ASSUME stack # <<>>, Top.at \notin Reachable(Top.of), stack' = Returned,
             UNCHANGED <<tree, given, passed>>
      PROVE  WalkInv'
  <2>1. IsStack(tree, Returned) /\ Done(tree, Returned) = Done(tree, stack)
    BY <1>1, <1>5, ReturnedStack DEF Returned, Top
  <2> QED BY <1>5, <2>1, NothingPassed
<1>6. CASE Default
  <2>1. InLoop /\ NoCase /\ stack' = Returned /\ UNCHANGED <<tree, given, passed>>
    BY <1>6 DEF Default
  <2>2. stack # <<>> /\ Top.at \notin Reachable(Top.of)
    BY <2>1, CaseReachable DEF Top
  <2> QED BY <1>5, <2>1, <2>2
<1>7. CASE LoopEnds
  <2>1. /\ stack # <<>> /\ ~ InLoop /\ stack' = Returned
        /\ UNCHANGED <<tree, given, passed>>
    BY <1>7 DEF LoopEnds
  <2>2. Top.at \notin 1 .. Len(Top.of.kids)
    BY <2>1 DEF InLoop
  <2>3. Top.at \notin Reachable(Top.of)
    BY <2>1, <2>2, InnermostCall
  <2> QED BY <1>5, <2>1, <2>3
<1>8. CASE UNCHANGED vars
  <2>1. stack' = stack /\ UNCHANGED <<tree, given, passed>>
    BY <1>8 DEF vars
  <2> QED BY <1>1, <2>1, NothingPassed
<1>9. CASE WalkOver
  BY <1>8, <1>9 DEF WalkOver
<1> QED BY <1>2, <1>3, <1>4, <1>6, <1>7, <1>8, <1>9 DEF Next, Walk

\* The inductive invariant of the walk.
THEOREM WalkInvariant == Spec => []WalkInv
BY FirstCall, WalkStep, PTL DEF Spec

LEMMA WalkTyped == WalkInv => TypeOK
<1> SUFFICES ASSUME WalkInv PROVE TypeOK
  OBVIOUS
<1>1. /\ tree \in Trees /\ given \in BOOLEAN /\ passed \in Seq(Shorts)
      /\ IsStack(tree, stack)
  BY DEF WalkInv
<1>2. Len(stack) \in Nat /\ DOMAIN stack = 1 .. Len(stack) /\ stack \in Seq(Frames)
  BY <1>1, StackFrames DEF IsStack
<1>3. ASSUME NEW k \in DOMAIN stack
      PROVE  /\ stack[k].of.type \in Containers
             /\ stack[k].at \in 1 .. Len(stack[k].of.kids) + 1
             /\ stack[k].of = End(tree, SubSeq(stack, 1, k - 1))
  <2> DEFINE c == SubSeq(stack, 1, k - 1)
  <2>1. k \in 1 .. Len(stack) /\ k - 1 \in 0 .. Len(stack)
    BY <1>2
  <2>2. /\ IsFrame(stack, k) /\ stack[k].of \in Values /\ stack[k].at \in Nat \ {0}
    BY <1>1, <2>1, StackFrame, StackFrames
  <2>3. /\ stack[k].of.type \in Containers
        /\ stack[k].at \in 1 .. Len(stack[k].of.kids) + 1
    BY <2>2, ValueType DEF IsFrame
  <2>4. c \in Seq(Frames) /\ Len(c) = k - 1 /\ \A j \in 1 .. k - 1 : c[j] = stack[j]
    BY <1>2, <2>1, Shortened
  <2>5. stack[k].of = IF k = 1 THEN tree ELSE stack[k - 1].of.kids[stack[k - 1].at]
    BY <1>1, <2>1, Called
  <2> HIDE DEF c
  <2>6. CASE k = 1
    <3>1. c = <<>>
      BY <2>4, <2>6, EmptySeq
    <3> QED BY <2>3, <2>5, <2>6, <3>1 DEF End, c
  <2>7. CASE k # 1
    <3>1. k - 1 \in 1 .. k - 1 /\ Len(c) # 0 /\ c # <<>>
      BY <2>1, <2>4, <2>7, EmptySeq
    <3>2. End(tree, c) = stack[k - 1].of.kids[stack[k - 1].at]
      BY <2>4, <3>1 DEF End
    <3> QED BY <2>3, <2>5, <2>7, <3>2 DEF c
  <2> QED BY <2>6, <2>7
<1> QED BY <1>1, <1>3 DEF TypeOK

LEMMA PassedExpected == WalkInv => PassesNumbers
<1> SUFFICES ASSUME WalkInv PROVE PassesNumbers
  OBVIOUS
<1>1. /\ tree \in Trees /\ given \in BOOLEAN /\ passed \in Seq(Shorts)
      /\ ~ given => passed = <<>>
      /\ given => Len(passed) = Cardinality(Done(tree, stack)) /\ InOrder(tree, passed)
  BY DEF WalkInv
<1>2. CASE ~ given
  <2>1. passed = <<>> /\ Expected = <<>>
    BY <1>1, <1>2 DEF Expected
  <2>2. IsPrefix(<<>>, <<>>)
    BY DEF IsPrefix
  <2> QED BY <2>1, <2>2 DEF PassesNumbers
<1>3. CASE given
  <2> DEFINE N == Cardinality(Numbers(tree))
             nth(n) == CHOOSE w \in Numbers(tree) : Rank(tree, w) = n
             e == [n \in 1 .. N |-> Short(End(tree, nth(n)).val)]
             S == Shorts \cup {e[n] : n \in 1 .. N}
  <2>1. Expected = e
    BY <1>3 DEF Expected
  <2>2. /\ N \in Nat /\ Len(passed) \in Nat /\ Len(passed) <= N
        /\ stack = <<>> => Len(passed) = N
    <3>1. Len(passed) = Cardinality(Done(tree, stack))
      BY <1>1, <1>3
    <3>2. stack = <<>> => Done(tree, stack) = Numbers(tree)
      BY DEF Done
    <3> QED BY <1>1, <3>1, <3>2, DoneFinite
  <2>3. ASSUME NEW n \in 1 .. Len(passed)
        PROVE  passed[n] = e[n]
    <3>1. PICK x \in Numbers(tree) :
              Rank(tree, x) = n /\ passed[n] = Short(End(tree, x).val)
      BY <1>1, <1>3 DEF InOrder
    <3>2. nth(n) \in Numbers(tree) /\ Rank(tree, nth(n)) = n
      BY <3>1
    <3> HIDE DEF nth
    <3>3. nth(n) = x
      BY <1>1, <3>1, <3>2, RankTells
    <3>4. n \in 1 .. N
      BY <2>2
    <3>5. e[n] = Short(End(tree, nth(n)).val)
      BY <3>4
    <3> QED BY <3>1, <3>3, <3>5
  <2>4. /\ DOMAIN e = 1 .. N /\ e \in [1 .. N -> S]
    OBVIOUS
  <2> HIDE DEF e
  <2>5. e \in Seq(S) /\ Len(e) = N /\ passed \in Seq(S)
    <3>1. e \in Seq(S) /\ Len(e) = N
      BY <2>2, <2>4
    <3>2. \A n \in 1 .. Len(passed) : passed[n] \in S
      BY <1>1, ElementOfSeq
    <3>3. passed \in [1 .. Len(passed) -> S]
      BY <1>1, <3>2, LenProperties
    <3> QED BY <2>2, <3>1, <3>3
  <2> HIDE DEF S, N
  <2>6. SubSeq(passed, 1, Len(passed)) = SubSeq(e, 1, Len(passed))
    <3> DEFINE a == SubSeq(passed, 1, Len(passed))
               b == SubSeq(e, 1, Len(passed))
    <3>1. Len(passed) \in 0 .. Len(passed) /\ Len(passed) \in 0 .. Len(e)
      BY <2>2, <2>5
    <3>2. a \in Seq(S) /\ Len(a) = Len(passed) /\ \A k \in 1 .. Len(passed) : a[k] = passed[k]
      BY <2>5, <3>1, Shortened
    <3>3. b \in Seq(S) /\ Len(b) = Len(passed) /\ \A k \in 1 .. Len(passed) : b[k] = e[k]
      BY <2>5, <3>1, Shortened
    <3> HIDE DEF a, b
    <3>4. a = b
      BY <2>3, <3>2, <3>3, SeqEqual
    <3> QED BY <3>4 DEF a, b
  <2>7. IsPrefix(passed, e)
    BY <2>2, <2>5, <2>6 DEF IsPrefix
  <2>8. stack = <<>> => passed = e
    BY <2>2, <2>3, <2>5, SeqEqual
  <2> QED BY <2>1, <2>7, <2>8 DEF PassesNumbers
<1> QED BY <1>1, <1>2, <1>3

\* Whatever tree a reply holds, a call in progress was made for the value its
\* caller's index is at, no index leaves its array or object by more than one,
\* and the callback is given 16 bits.
THEOREM TypeCorrect == Spec => []TypeOK
BY WalkInvariant, WalkTyped, PTL

\* Whatever tree a reply holds, the callback is given the numbers within reach,
\* once each and in the order of the text.
THEOREM NumbersPassed == Spec => []PassesNumbers
BY WalkInvariant, PassedExpected, PTL

-----------------------------------------------------------------------------
(* The walk runs out of steps.                                             *)

\* The ways that do not end in front of the innermost index.
Waiting(t, s) == {w \in Ways(t) : ~ Before(w, s)}

\* No more steps than this are left: each way still has a call to return from or
\* an index to go on, and there is room for calls.
StepsAt(t, s) ==
    IF s = <<>> THEN 0 ELSE 2 * Cardinality(Waiting(t, s)) + (Depth + 1 - Len(s))

StepsLeft == StepsAt(tree, stack)

LEMMA WaitingFinite ==
    ASSUME NEW t \in Trees, NEW s
    PROVE  IsFiniteSet(Waiting(t, s)) /\ Cardinality(Waiting(t, s)) \in Nat
<1>1. Waiting(t, s) \subseteq Ways(t)
  BY DEF Waiting
<1> QED BY <1>1, WaysFinite, FS_Subset, FS_CardinalityType

LEMMA FewerWaiting ==
    ASSUME NEW t \in Trees, NEW s, NEW q, NEW w,
           Waiting(t, q) \subseteq Waiting(t, s),
           w \in Waiting(t, s), w \notin Waiting(t, q)
    PROVE  Cardinality(Waiting(t, q)) < Cardinality(Waiting(t, s))
<1> DEFINE A == Waiting(t, q)
           B == Waiting(t, s)
<1>1. IsFiniteSet(A) /\ IsFiniteSet(B) /\ Cardinality(A) \in Nat /\ Cardinality(B) \in Nat
  BY WaitingFinite
<1>2. A \cup {w} \subseteq B /\ w \notin A
  OBVIOUS
<1> HIDE DEF A, B
<1>3. Cardinality(A \cup {w}) = Cardinality(A) + 1
  BY <1>1, <1>2, FS_AddElement
<1>4. Cardinality(A \cup {w}) <= Cardinality(B)
  BY <1>1, <1>2, FS_Subset
<1>5. Cardinality(A) < Cardinality(B)
  BY <1>1, <1>3, <1>4
<1> QED BY <1>5 DEF A, B

LEMMA StepsType ==
    ASSUME NEW t \in Trees, NEW s, IsStack(t, s)
    PROVE  /\ StepsAt(t, s) \in Nat
           /\ s # <<>> => Len(s) \in Nat /\ Depth + 1 - Len(s) \in Nat
<1>1. CASE s = <<>>
  BY <1>1 DEF StepsAt
<1>2. CASE s # <<>>
  <2>1. Len(s) \in Nat /\ Len(s) <= Depth + 1 /\ Depth \in Nat
    BY <1>2, StackFrames, StackFrame, TreeAssumption DEF IsFrame
  <2> QED BY <1>2, <2>1, WaitingFinite DEF StepsAt
<1> QED BY <1>1, <1>2

LEMMA AllWays == ASSUME NEW t \in Trees, NEW w PROVE w \in Ways(t) => IsWay(t, w)
BY WaysAre DEF WaysUpTo

\* A call takes up room.
LEMMA CallCounts ==
    ASSUME NEW t \in Trees, NEW s, IsStack(t, s), s # <<>>, NEW f \in Frames, f.at = 1
    PROVE  StepsAt(t, Append(s, f)) < StepsAt(t, s)
<1>1. s \in Seq(Frames) /\ Len(s) \in Nat /\ Depth + 1 - Len(s) \in Nat /\ Depth \in Nat
  BY StepsType, TreeAssumption DEF IsStack
<1>2. \A w \in Ways(t) : Before(w, Append(s, f)) <=> Before(w, s)
  BY <1>1, AllWays, BeforeCall
<1>3. Waiting(t, Append(s, f)) = Waiting(t, s)
  BY <1>2 DEF Waiting
<1>4. Append(s, f) # <<>> /\ Len(Append(s, f)) = Len(s) + 1
  BY <1>1, AppendProperties
<1> QED BY <1>1, <1>3, <1>4, WaitingFinite DEF StepsAt

\* An index that goes on leaves the way it was at behind.
LEMMA AdvanceCounts ==
    ASSUME NEW t \in Trees, NEW s, IsStack(t, s), s # <<>>,
           s[Len(s)].at \in Reachable(s[Len(s)].of)
    PROVE  /\ Cardinality(Waiting(t, Advanced(s))) < Cardinality(Waiting(t, s))
           /\ StepsAt(t, Advanced(s)) < StepsAt(t, s)
<1> DEFINE q == Advanced(s)
<1>1. /\ s \in Seq(Frames) /\ Len(s) \in Nat /\ Depth + 1 - Len(s) \in Nat /\ Depth \in Nat
      /\ q # <<>> /\ Len(q) = Len(s)
  BY StepsType, AdvancedFrames, TreeAssumption DEF IsStack
<1>2. \A w \in Ways(t) : Before(w, q) <=> Before(w, s) \/ Extends(w, s)
  BY AllWays, BeforeAdvanced
<1>3. s \in Ways(t) /\ ~ Before(s, s) /\ Extends(s, s)
  BY <1>1, StackWay, BeforeIrreflexive DEF Extends
<1> HIDE DEF q
<1>4. Waiting(t, q) \subseteq Waiting(t, s) /\ s \in Waiting(t, s) /\ s \notin Waiting(t, q)
  BY <1>2, <1>3 DEF Waiting
<1>5. Cardinality(Waiting(t, q)) < Cardinality(Waiting(t, s))
  BY <1>4, FewerWaiting
<1>6. StepsAt(t, q) < StepsAt(t, s)
  BY <1>1, <1>5, WaitingFinite DEF StepsAt
<1> QED BY <1>5, <1>6 DEF q

\* A call that returns leaves the way to the value it was made for behind.
LEMMA ReturnCounts ==
    ASSUME NEW t \in Trees, NEW s, IsStack(t, s), s # <<>>,
           s[Len(s)].at \notin Reachable(s[Len(s)].of)
    PROVE  LET c == SubSeq(s, 1, Len(s) - 1)
               r == IF c = <<>> THEN <<>> ELSE Advanced(c)
           IN  StepsAt(t, r) < StepsAt(t, s)
<1> DEFINE c == SubSeq(s, 1, Len(s) - 1)
           r == IF c = <<>> THEN <<>> ELSE Advanced(c)
<1>1. /\ Len(s) \in Nat /\ Depth + 1 - Len(s) \in Nat /\ Depth \in Nat
      /\ DOMAIN s = 1 .. Len(s) /\ \A k \in 1 .. Len(s) : s[k].at \in Nat
  BY StepsType, StackFrames, TreeAssumption
<1>2. /\ IsStack(t, c) /\ IsWay(t, c) /\ Len(c) = Len(s) - 1
      /\ \A k \in 1 .. Len(s) - 1 : c[k] = s[k]
  BY CallerStack
<1>3. \A w \in Ways(t) : Before(w, s) => Before(w, c) \/ Extends(w, c)
  BY AllWays, BeforeReturned
<1> HIDE DEF c
<1>4. c \in Ways(t) /\ c \in Seq(Frames) /\ DOMAIN c = 1 .. Len(s) - 1
  <2>1. Len(s) <= Depth + 1 /\ c \in Seq(Frames) /\ Len(c) <= Depth
    BY <1>1, <1>2 DEF IsWay
  <2> QED BY <1>2, <2>1, WaysAre, LenProperties DEF WaysUpTo
<1>5. ~ Before(c, s)
  <2> SUFFICES ASSUME Before(c, s) PROVE FALSE
    OBVIOUS
  <2>1. PICK k \in DOMAIN c \cap DOMAIN s : c[k].at < s[k].at
    BY DEF Before
  <2> QED BY <1>1, <1>2, <1>4, <2>1
<1>6. ASSUME c = <<>> PROVE StepsAt(t, r) < StepsAt(t, s)
  <2>1. c \in Waiting(t, s)
    BY <1>4, <1>5 DEF Waiting
  <2>2. Cardinality(Waiting(t, s)) \in Nat /\ Cardinality(Waiting(t, s)) # 0
    BY <2>1, WaitingFinite, FS_EmptySet
  <2> QED BY <1>1, <1>6, <2>2 DEF StepsAt
<1>7. ASSUME c # <<>> PROVE StepsAt(t, r) < StepsAt(t, s)
  <2>1. c[Len(c)].at \in Reachable(c[Len(c)].of)
    BY <1>2, <1>7, StackFrames DEF IsWay
  <2>2. \A w \in Ways(t) : Before(w, Advanced(c)) <=> Before(w, c) \/ Extends(w, c)
    BY <1>2, <1>7, AllWays, BeforeAdvanced
  <2>3. Extends(c, c)
    BY <1>1, <1>2 DEF Extends
  <2>4. /\ Waiting(t, Advanced(c)) \subseteq Waiting(t, s)
        /\ c \in Waiting(t, s) /\ c \notin Waiting(t, Advanced(c))
    BY <1>3, <1>4, <1>5, <2>2, <2>3 DEF Waiting
  <2>5. Cardinality(Waiting(t, Advanced(c))) < Cardinality(Waiting(t, s))
    BY <2>4, FewerWaiting
  <2>6. Advanced(c) # <<>> /\ Len(Advanced(c)) = Len(s) - 1
    BY <1>2, <1>4, <1>7, AdvancedFrames
  <2> QED BY <1>1, <1>7, <2>5, <2>6, WaitingFinite DEF StepsAt
<1> QED BY <1>6, <1>7 DEF c

LEMMA StepCounts == WalkInv /\ [Next]_vars => [StepsLeft' < StepsLeft]_vars
<1> SUFFICES ASSUME WalkInv, Walk PROVE StepsLeft' < StepsLeft
  BY DEF Next, WalkOver, vars
<1>1. tree \in Trees /\ IsStack(tree, stack)
  BY DEF WalkInv
<1>2. StepsLeft = StepsAt(tree, stack) /\ (tree' = tree => StepsLeft' = StepsAt(tree, stack'))
  BY DEF StepsLeft
<1>3. CASE Descend
  <2>1. /\ InLoop /\ stack' = Append(stack, Frame(Value)) /\ tree' = tree
    BY <1>3 DEF Descend
  <2>2. stack # <<>> /\ Value \in Values
    BY <2>1, InnermostCall DEF InLoop
  <2>3. Frame(Value) \in Frames /\ Frame(Value).at = 1
    BY <2>2 DEF Frame, Frames
  <2> QED BY <1>1, <1>2, <2>1, <2>2, <2>3, CallCounts
<1>4. CASE Integer \/ StringOrReal
  <2>1. /\ InLoop /\ ~ NoCase /\ stack' = Advanced(stack) /\ tree' = tree
    BY <1>4 DEF Integer, StringOrReal, NoCase
  <2> QED BY <1>1, <1>2, <2>1, CaseReachable, AdvanceCounts
<1>5. CASE Default \/ LoopEnds
  <2>1. stack # <<>> /\ stack' = Returned /\ tree' = tree
    BY <1>5 DEF Default, LoopEnds, InLoop
  <2>2. Top.at \notin Reachable(Top.of)
    <3>1. CASE Default
      BY <3>1, CaseReachable DEF Default, Top
    <3>2. CASE LoopEnds
      BY <2>1, <3>2, InnermostCall DEF LoopEnds, InLoop
    <3> QED BY <1>5, <3>1, <3>2
  <2>3. StepsAt(tree, Returned) < StepsAt(tree, stack)
    BY <1>1, <2>1, <2>2, ReturnCounts DEF Returned, Top
  <2> QED BY <1>2, <2>1, <2>3
<1> QED BY <1>3, <1>4, <1>5 DEF Walk

\* Whatever tree a reply holds, each step of the two functions brings the walk
\* nearer to its end: there is a natural number of steps left, less after each.
THEOREM WalkShrinks == Spec => [](StepsLeft \in Nat) /\ [][StepsLeft' < StepsLeft]_vars
<1>1. WalkInv => StepsLeft \in Nat
  BY StepsType DEF WalkInv, StepsLeft
<1> QED BY <1>1, WalkInvariant, StepCounts, PTL DEF Spec
=============================================================================
