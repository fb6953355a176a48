-------------------------- MODULE LabelItemsProofs --------------------------
(***************************************************************************)
(* What LabelItems keeps, for labels of any length, items of any width and *)
(* any number of parts.                                                    *)
(***************************************************************************)
EXTENDS LabelItems, SequenceTheorems, FiniteSetTheorems, WellFoundedInduction, TLAPS

Element == [key : Keys \cup Headers, value : Seq(STRING), wide : BOOLEAN, blanks : Nat]

-----------------------------------------------------------------------------
(* The least and the greatest of a set.                                    *)

LEMMA MinOfNats ==
  ASSUME NEW S \in SUBSET Nat, S # {}
  PROVE  Min(S) \in S /\ \A y \in S : Min(S) <= y
<1>1. \E x \in S : \A y \in S : <<y, x>> \notin OpToRel(<, Nat)
  BY NatLessThanWellFounded, WFMin
<1>2. \E x \in S : \A y \in S : ~(y < x)
  BY <1>1 DEF OpToRel
<1>3. \E x \in S : \A y \in S : x <= y
  BY <1>2
<1> QED
  BY <1>3 DEF Min

LEMMA MaxOfBounded ==
  ASSUME NEW bound \in Nat, NEW S \in SUBSET (1 .. bound), S # {}
  PROVE  Max(S) \in S /\ \A y \in S : Max(S) >= y
<1> DEFINE turned == {bound - y : y \in S}
<1>0. \A y \in S : bound - y \in Nat
  OBVIOUS
<1>1. turned \in SUBSET Nat /\ turned # {}
  BY <1>0
<1>2. Min(turned) \in turned /\ \A t \in turned : Min(turned) <= t
  BY <1>1, MinOfNats
<1>3. PICK x \in S : Min(turned) = bound - x
  BY <1>2
<1>4. ASSUME NEW y \in S PROVE x >= y
  <2>1. bound - y \in turned
    OBVIOUS
  <2>2. bound - x <= bound - y
    BY <1>2, <1>3, <2>1
  <2> QED
    BY <2>2
<1> QED
  BY <1>4 DEF Max

-----------------------------------------------------------------------------
(* Places counted from the front.                                          *)

LEMMA FinitePlaces ==
  ASSUME NEW n \in Nat, NEW S \in SUBSET (1 .. n)
  PROVE  /\ IsFiniteSet(S) /\ Cardinality(S) \in Nat
         /\ \A i : /\ IsFiniteSet(UpTo(S, i))
                   /\ Cardinality(UpTo(S, i)) \in Nat
                   /\ Cardinality(UpTo(S, i)) <= Cardinality(S)
<1>1. IsFiniteSet(S) /\ Cardinality(S) \in Nat
  BY FS_Interval, FS_Subset, FS_CardinalityType, 1 \in Int, n \in Int
<1>2. ASSUME NEW i
      PROVE  /\ IsFiniteSet(UpTo(S, i))
             /\ Cardinality(UpTo(S, i)) \in Nat
             /\ Cardinality(UpTo(S, i)) <= Cardinality(S)
  <2>1. UpTo(S, i) \in SUBSET S
    BY DEF UpTo
  <2> QED
    BY <1>1, <2>1, FS_Subset, FS_CardinalityType
<1> QED
  BY <1>1, <1>2

(* A place behind another has more in front of it.                         *)
LEMMA CountGrows ==
  ASSUME NEW n \in Nat, NEW S \in SUBSET (1 .. n),
         NEW i \in 1 .. n, NEW j \in S, i < j
  PROVE  Cardinality(UpTo(S, i)) < Cardinality(UpTo(S, j))
<1> DEFINE less == UpTo(S, i)
           more == UpTo(S, j)
<1>0. j \in 1 .. n /\ \A k \in S : k \in 1 .. n
  OBVIOUS
<1>1. less \in SUBSET more
  <2> SUFFICES ASSUME NEW k \in less PROVE k \in more
    OBVIOUS
  <2>1. k \in S /\ k <= i
    BY DEF UpTo
  <2>2. k <= j
    BY <1>0, <2>1
  <2> QED
    BY <2>1, <2>2 DEF UpTo
<1>a. j \in more /\ j \notin less
  BY <1>0 DEF UpTo
<1>2. IsFiniteSet(more) /\ Cardinality(more) \in Nat /\ Cardinality(less) \in Nat
  BY FinitePlaces
<1>3. Cardinality(less) <= Cardinality(more) /\ Cardinality(less) # Cardinality(more)
  BY <1>1, <1>a, <1>2, FS_Subset
<1> QED
  BY <1>2, <1>3

LEMMA CountIdentifies ==
  ASSUME NEW n \in Nat, NEW S \in SUBSET (1 .. n), NEW i \in S, NEW j \in S,
         Cardinality(UpTo(S, i)) = Cardinality(UpTo(S, j))
  PROVE  i = j
<1>1. Cardinality(UpTo(S, i)) \in Nat /\ i \in 1 .. n /\ j \in 1 .. n
  BY FinitePlaces
<1>2. ~(i < j) /\ ~(j < i)
  BY <1>1, CountGrows
<1> QED
  BY <1>1, <1>2

LEMMA CountRange ==
  ASSUME NEW n \in Nat, NEW S \in SUBSET (1 .. n), NEW i \in S
  PROVE  Cardinality(UpTo(S, i)) \in 1 .. Cardinality(S)
<1>1. i \in UpTo(S, i)
  BY DEF UpTo
<1>2. IsFiniteSet(UpTo(S, i)) /\ Cardinality(UpTo(S, i)) \in Nat
      /\ Cardinality(UpTo(S, i)) <= Cardinality(S) /\ Cardinality(S) \in Nat
  BY FinitePlaces
<1>3. Cardinality(UpTo(S, i)) # 0
  BY <1>1, <1>2, FS_EmptySet
<1> QED
  BY <1>2, <1>3

(* Every number up to how many there are is the number of one.             *)
LEMMA CountIsOnto ==
  ASSUME NEW n \in Nat, NEW S \in SUBSET (1 .. n), NEW k \in 1 .. Cardinality(S)
  PROVE  \E i \in S : Cardinality(UpTo(S, i)) = k
<1> DEFINE T == 1 .. Cardinality(S)
           f == [i \in S |-> Cardinality(UpTo(S, i))]
<1>1. IsFiniteSet(S) /\ Cardinality(S) \in Nat
  BY FinitePlaces
<1>2. IsFiniteSet(T) /\ Cardinality(T) = Cardinality(S)
  <2>1. 1 \in Int /\ Cardinality(S) \in Int
    BY <1>1
  <2>2. IsFiniteSet(T) /\ Cardinality(T) = IF 1 > Cardinality(S) THEN 0 ELSE (Cardinality(S) - 1) + 1
    BY <2>1, FS_Interval
  <2> QED
    BY <1>1, <2>2
<1>3. f \in Injection(S, T)
  BY CountRange, CountIdentifies DEF Injection, IsInjective
<1>4. f \in Surjection(S, T)
  BY <1>2, <1>3, FS_Injection
<1> QED
  BY <1>4 DEF Surjection

-----------------------------------------------------------------------------
(* The length of a label is that of its items with their blanks.           *)

AddsAlong(f, label, n) ==
  f = [m \in 0 .. n |-> IF m = 0 THEN 0 ELSE f[m - 1] + Size(label[m])]

LEMMA TextLenIsNat ==
  ASSUME NEW item \in Element
  PROVE  /\ TextLen(item) \in Nat /\ Size(item) \in Nat
         /\ item.value # <<>> => TextLen(item) > 0
<1>1. Len(item.value) \in Nat /\ item.blanks \in Nat
      /\ (item.value # <<>> => Len(item.value) > 0)
  BY DEF Element
<1>2. TextLen(item) \in {Len(item.value) * 2, Len(item.value) * 1}
  BY DEF TextLen, Wide
<1>3. TextLen(item) \in {Len(item.value) + Len(item.value), Len(item.value)}
  BY <1>1, <1>2
<1> HIDE DEF Element
<1>4. TextLen(item) \in Nat /\ (item.value # <<>> => TextLen(item) > 0)
  BY <1>1, <1>3
<1> QED
  BY <1>1, <1>4 DEF Size

LEMMA LengthExists ==
  ASSUME NEW label \in Seq(Element), NEW n \in 0 .. Len(label)
  PROVE  \E f \in [0 .. n -> Nat] : AddsAlong(f, label, n)
<1> DEFINE Known(m) == \E f \in [0 .. m -> Nat] : AddsAlong(f, label, m)
           lacking == {m \in 0 .. Len(label) : ~Known(m)}
<1> SUFFICES ASSUME lacking # {} PROVE FALSE
  OBVIOUS
<1>0. Len(label) \in Nat
  OBVIOUS
<1>1. lacking \in SUBSET Nat
  BY <1>0
<1> DEFINE m == Min(lacking)
<1>2. m \in lacking /\ \A k \in lacking : m <= k
  BY <1>1, MinOfNats
<1> HIDE DEF m
<1>3. CASE m = 0
  <2> DEFINE g == [k \in 0 .. 0 |-> 0]
  <2>1. g \in [0 .. 0 -> Nat] /\ AddsAlong(g, label, 0)
    BY DEF AddsAlong
  <2> QED
    BY <1>2, <1>3, <2>1
<1>4. CASE m # 0
  <2>1. m \in 1 .. Len(label) /\ m - 1 \in 0 .. Len(label) /\ ~(m <= m - 1)
    BY <1>0, <1>2, <1>4
  <2>2. Known(m - 1)
    BY <1>2, <2>1
  <2>3. PICK f \in [0 .. (m - 1) -> Nat] : AddsAlong(f, label, m - 1)
    BY <2>2
  <2> DEFINE more(k) == Size(label[k])
             g == [k \in 0 .. m |-> IF k = m THEN f[m - 1] + more(m) ELSE f[k]]
  <2>4. \A k \in 1 .. Len(label) : more(k) \in Nat
    <3> TAKE k \in 1 .. Len(label)
    <3>1. label[k] \in Element
      OBVIOUS
    <3> QED
      BY <3>1, TextLenIsNat
  <2>5. f = [k \in 0 .. (m - 1) |-> IF k = 0 THEN 0 ELSE f[k - 1] + more(k)]
    BY <2>3 DEF AddsAlong
  <2> HIDE DEF more
  <2>6. g \in [0 .. m -> Nat]
    BY <2>1, <2>4
  <2>7. g = [k \in 0 .. m |-> IF k = 0 THEN 0 ELSE g[k - 1] + more(k)]
    <3> SUFFICES ASSUME NEW k \in 0 .. m
                 PROVE  g[k] = IF k = 0 THEN 0 ELSE g[k - 1] + more(k)
      OBVIOUS
    <3>1. CASE k = m
      BY <2>1, <3>1, <1>4
    <3>2. CASE k # m
      <4>1. k \in 0 .. (m - 1) /\ (k # 0 => k - 1 \in 0 .. (m - 1))
        BY <2>1, <3>2
      <4>2. f[k] = IF k = 0 THEN 0 ELSE f[k - 1] + more(k)
        BY <2>5, <4>1
      <4> QED
        BY <2>1, <3>2, <4>1, <4>2
    <3> QED
      BY <3>1, <3>2
  <2>8. AddsAlong(g, label, m)
    BY <2>7 DEF AddsAlong, more
  <2> QED
    BY <1>2, <2>6, <2>8
<1> QED
  BY <1>3, <1>4

Agree(s, t, n) == \A k \in 1 .. n : s[k] = t[k]

LEMMA LengthsAgree ==
  ASSUME NEW s, NEW t, NEW m \in Nat, NEW n \in Nat, n <= m,
         NEW f, NEW g, AddsAlong(f, s, m), AddsAlong(g, t, n),
         Agree(s, t, n)
  PROVE  f[n] = g[n]
<1> DEFINE differ == {k \in 0 .. n : f[k] # g[k]}
<1> SUFFICES ASSUME differ # {} PROVE FALSE
  <2>1. n \in 0 .. n
    OBVIOUS
  <2> QED
    BY <2>1
<1>1. differ \in SUBSET Nat
  OBVIOUS
<1> DEFINE j == Min(differ)
<1>2. j \in differ /\ \A k \in differ : j <= k
  BY <1>1, MinOfNats
<1> HIDE DEF j
<1>3. j \in 0 .. n /\ j \in 0 .. m /\ f[j] # g[j]
  BY <1>2
<1> DEFINE more(l, k) == Size(l[k])
<1>4. /\ f = [k \in 0 .. m |-> IF k = 0 THEN 0 ELSE f[k - 1] + more(s, k)]
      /\ g = [k \in 0 .. n |-> IF k = 0 THEN 0 ELSE g[k - 1] + more(t, k)]
  BY DEF AddsAlong
<1>5. \A k \in 1 .. n : more(s, k) = more(t, k)
  BY DEF Agree
<1> HIDE DEF more
<1>6. /\ f[j] = IF j = 0 THEN 0 ELSE f[j - 1] + more(s, j)
      /\ g[j] = IF j = 0 THEN 0 ELSE g[j - 1] + more(t, j)
  BY <1>3, <1>4
<1>7. j # 0
  BY <1>3, <1>6
<1>8. j \in 1 .. n /\ j - 1 \in 0 .. n /\ ~(j <= j - 1)
  BY <1>3, <1>7
<1>9. f[j - 1] = g[j - 1]
  BY <1>2, <1>8
<1> QED
  BY <1>3, <1>5, <1>6, <1>8, <1>9

LEMMA LengthIs ==
  ASSUME NEW label \in Seq(Element), NEW f, AddsAlong(f, label, Len(label))
  PROVE  LengthOf(label) = f[Len(label)]
<1> DEFINE g == CHOOSE h : AddsAlong(h, label, Len(label))
<1>1. LengthOf(label) = g[Len(label)]
  BY DEF LengthOf, AddsAlong
<1>2. AddsAlong(g, label, Len(label))
  OBVIOUS
<1>3. Len(label) \in Nat /\ Len(label) <= Len(label) /\ Agree(label, label, Len(label))
  BY DEF Agree
<1> HIDE DEF g
<1> QED
  BY <1>1, <1>2, <1>3, LengthsAgree

LEMMA LengthOfNothing ==
  LengthOf(<<>>) = 0
<1> DEFINE f == [k \in 0 .. 0 |-> 0]
<1>1. AddsAlong(f, <<>>, 0)
  BY DEF AddsAlong
<1>2. <<>> \in Seq(Element) /\ Len(<<>>) = 0
  OBVIOUS
<1>3. LengthOf(<<>>) = f[0]
  BY <1>1, <1>2, LengthIs
<1> QED
  BY <1>3

LEMMA LengthIsNat ==
  ASSUME NEW label \in Seq(Element)
  PROVE  LengthOf(label) \in Nat
<1>0. Len(label) \in Nat /\ Len(label) \in 0 .. Len(label)
  OBVIOUS
<1>1. PICK f \in [0 .. Len(label) -> Nat] : AddsAlong(f, label, Len(label))
  BY <1>0, LengthExists
<1> QED
  BY <1>0, <1>1, LengthIs

LEMMA LengthOfAppend ==
  ASSUME NEW s \in Seq(Element), NEW item \in Element
  PROVE  LengthOf(Append(s, item)) = LengthOf(s) + Size(item)
<1> DEFINE t == Append(s, item)
           n == Len(s)
<1>1. t \in Seq(Element) /\ Len(t) = n + 1 /\ n \in Nat /\ t[n + 1] = item
      /\ \A k \in 1 .. n : t[k] = s[k]
  OBVIOUS
<1> HIDE DEF t
<1>2. n \in 0 .. n /\ n + 1 \in 0 .. (n + 1)
  BY <1>1
<1>3. PICK f \in [0 .. (n + 1) -> Nat] : AddsAlong(f, t, n + 1)
  BY <1>1, <1>2, LengthExists
<1>4. PICK g \in [0 .. n -> Nat] : AddsAlong(g, s, n)
  BY <1>1, <1>2, LengthExists
<1>5. LengthOf(t) = f[n + 1]
  BY <1>1, <1>3, LengthIs
<1>6. LengthOf(s) = g[n]
  BY <1>4, LengthIs
<1>7. f[n] = g[n]
  <2> DEFINE m == n + 1
  <2>1. n <= m /\ m \in Nat /\ n \in Nat
    BY <1>1
  <2>2. Agree(t, s, n)
    BY <1>1 DEF Agree
  <2>3. AddsAlong(f, t, m) /\ AddsAlong(g, s, n)
    BY <1>3, <1>4
  <2> HIDE DEF n, m
  <2> QED
    BY <2>1, <2>2, <2>3, LengthsAgree
<1>8. f[n + 1] = f[(n + 1) - 1] + Size(t[n + 1])
  <2> DEFINE more(k) == Size(t[k])
  <2>1. f = [k \in 0 .. (n + 1) |-> IF k = 0 THEN 0 ELSE f[k - 1] + more(k)]
    BY <1>3 DEF AddsAlong
  <2> HIDE DEF more
  <2>2. f[n + 1] = f[(n + 1) - 1] + more(n + 1)
    BY <1>1, <1>2, <2>1
  <2> QED
    BY <2>2 DEF more
<1>9. (n + 1) - 1 = n
  BY <1>1
<1> QED
  BY <1>1, <1>5, <1>6, <1>7, <1>8, <1>9 DEF t

-----------------------------------------------------------------------------
(* Labels put together.                                                    *)

LEMMA Joined ==
  ASSUME NEW S, NEW s \in Seq(S), NEW t \in Seq(S)
  PROVE  /\ s \o t \in Seq(S)
         /\ Len(s \o t) = Len(s) + Len(t)
         /\ \A k \in 1 .. Len(s) : (s \o t)[k] = s[k]
         /\ \A k \in 1 .. Len(t) : (s \o t)[Len(s) + k] = t[k]
         /\ \A k \in (Len(s) + 1) .. (Len(s) + Len(t)) : (s \o t)[k] = t[k - Len(s)]
OBVIOUS

LEMMA Part1 ==
  ASSUME NEW S, NEW s \in Seq(S), NEW a \in 1 .. (Len(s) + 1), NEW b \in 0 .. Len(s), a <= b + 1
  PROVE  /\ SubSeq(s, a, b) \in Seq(S)
         /\ Len(SubSeq(s, a, b)) = (b - a) + 1
         /\ \A k \in 1 .. ((b - a) + 1) : SubSeq(s, a, b)[k] = s[(a + k) - 1]
<1>1. a \in Int /\ b \in Int /\ Len(s) \in Nat
  OBVIOUS
<1>2. \A k \in a .. b : s[k] \in S
  BY <1>1
<1>3. SubSeq(s, a, b) \in Seq(S)
  BY <1>1, <1>2, SubSeqProperties
<1> QED
  BY <1>1, <1>2, <1>3, SubSeqProperties

(* The same sequence.                                                      *)
LEMMA SameElements ==
  ASSUME NEW S, NEW s \in Seq(S), NEW t \in Seq(S), Len(s) = Len(t),
         \A k \in 1 .. Len(s) : s[k] = t[k]
  PROVE  s = t
OBVIOUS

LEMMA Split ==
  ASSUME NEW S, NEW s \in Seq(S), NEW n \in 0 .. Len(s), NEW m \in n .. Len(s)
  PROVE  SubSeq(s, 1, n) \o SubSeq(s, n + 1, m) = SubSeq(s, 1, m)
<1> DEFINE a == SubSeq(s, 1, n)
           b == SubSeq(s, n + 1, m)
           c == SubSeq(s, 1, m)
<1>0. Len(s) \in Nat /\ n \in Nat /\ m \in Nat /\ n <= m /\ m <= Len(s)
  OBVIOUS
<1>1. a \in Seq(S) /\ Len(a) = n /\ \A k \in 1 .. n : a[k] = s[k]
  <2>1. 1 \in 1 .. (Len(s) + 1) /\ 1 <= n + 1 /\ (n - 1) + 1 = n /\ \A k \in 1 .. n : (1 + k) - 1 = k
    BY <1>0
  <2> QED
    BY <2>1, Part1
<1>2. c \in Seq(S) /\ Len(c) = m /\ \A k \in 1 .. m : c[k] = s[k]
  <2>1. 1 \in 1 .. (Len(s) + 1) /\ 1 <= m + 1 /\ (m - 1) + 1 = m /\ m \in 0 .. Len(s)
        /\ \A k \in 1 .. m : (1 + k) - 1 = k
    BY <1>0
  <2> QED
    BY <2>1, Part1
<1>3. b \in Seq(S) /\ Len(b) = m - n /\ \A k \in 1 .. (m - n) : b[k] = s[n + k]
  <2>1. n + 1 \in 1 .. (Len(s) + 1) /\ n + 1 <= m + 1 /\ (m - (n + 1)) + 1 = m - n /\ m \in 0 .. Len(s)
        /\ \A k \in 1 .. (m - n) : ((n + 1) + k) - 1 = n + k
    BY <1>0
  <2> QED
    BY <2>1, Part1
<1> HIDE DEF a, b, c
<1>4. /\ a \o b \in Seq(S) /\ Len(a \o b) = m
      /\ \A k \in 1 .. n : (a \o b)[k] = s[k]
      /\ \A k \in (n + 1) .. m : (a \o b)[k] = b[k - n]
  <2>0. a \in Seq(S) /\ b \in Seq(S)
    BY <1>1, <1>3
  <2>1. n + (m - n) = m /\ Len(a) = n /\ Len(b) = m - n
    BY <1>0, <1>1, <1>3
  <2>2. /\ a \o b \in Seq(S) /\ Len(a \o b) = m
        /\ \A k \in 1 .. n : (a \o b)[k] = a[k]
        /\ \A k \in (n + 1) .. m : (a \o b)[k] = b[k - n]
    <3>1. /\ a \o b \in Seq(S)
          /\ Len(a \o b) = Len(a) + Len(b)
          /\ \A k \in 1 .. Len(a) : (a \o b)[k] = a[k]
          /\ \A k \in (Len(a) + 1) .. (Len(a) + Len(b)) : (a \o b)[k] = b[k - Len(a)]
      BY <2>0, Joined
    <3> QED
      BY <2>1, <3>1
  <2> QED
    BY <1>1, <2>2
<1>5. \A k \in 1 .. m : (a \o b)[k] = c[k]
  <2> TAKE k \in 1 .. m
  <2>1. CASE k \in 1 .. n
    BY <1>2, <1>4, <2>1
  <2>2. CASE k \notin 1 .. n
    <3>1. k \in (n + 1) .. m /\ k - n \in 1 .. (m - n) /\ n + (k - n) = k
      BY <1>0, <2>2
    <3> QED
      BY <1>2, <1>3, <1>4, <3>1
  <2> QED
    BY <2>1, <2>2
<1>6. a \o b = c
  BY <1>2, <1>4, <1>5, SameElements
<1> QED
  BY <1>6 DEF a, b, c

LEMMA Whole ==
  ASSUME NEW S, NEW s \in Seq(S)
  PROVE  SubSeq(s, 1, Len(s)) = s
<1>1. Len(s) \in Nat /\ 1 \in 1 .. (Len(s) + 1) /\ Len(s) \in 0 .. Len(s) /\ 1 <= Len(s) + 1
  OBVIOUS
<1>2. SubSeq(s, 1, Len(s)) \in Seq(S) /\ Len(SubSeq(s, 1, Len(s))) = Len(s)
      /\ \A k \in 1 .. Len(s) : SubSeq(s, 1, Len(s))[k] = s[k]
  <2>1. (Len(s) - 1) + 1 = Len(s) /\ \A k \in 1 .. Len(s) : (1 + k) - 1 = k
    BY <1>1
  <2> QED
    BY <1>1, <2>1, Part1
<1> QED
  BY <1>2, SameElements

LEMMA LengthOfOneMore ==
  ASSUME NEW label \in Seq(Element), NEW n \in 1 .. Len(label)
  PROVE  LengthOf(SubSeq(label, 1, n)) = LengthOf(SubSeq(label, 1, n - 1)) + Size(label[n])
<1>0. Len(label) \in Nat /\ n - 1 \in 0 .. Len(label) /\ n \in (n - 1) .. Len(label)
      /\ label[n] \in Element /\ (n - 1) + 1 = n
  OBVIOUS
<1> DEFINE s == SubSeq(label, 1, n - 1)
<1>1. s \in Seq(Element)
  <2>1. 1 \in 1 .. (Len(label) + 1) /\ 1 <= (n - 1) + 1
    BY <1>0
  <2> QED
    BY <1>0, <2>1, Part1
<1>2. SubSeq(label, n, n) = <<label[n]>>
  <2>1. SubSeq(label, n, n) \in Seq(Element) /\ Len(SubSeq(label, n, n)) = 1
        /\ SubSeq(label, n, n)[1] = label[n]
    <3>1. n \in 1 .. (Len(label) + 1) /\ n \in 0 .. Len(label) /\ n <= n + 1 /\ (n - n) + 1 = 1
          /\ (n + 1) - 1 = n /\ 1 \in 1 .. 1
      BY <1>0
    <3> QED
      BY <3>1, Part1
  <2>2. <<label[n]>> \in Seq(Element) /\ Len(<<label[n]>>) = 1 /\ <<label[n]>>[1] = label[n]
    BY <1>0
  <2>3. \A k \in 1 .. 1 : SubSeq(label, n, n)[k] = <<label[n]>>[k]
    BY <2>1, <2>2
  <2> QED
    BY <2>1, <2>2, <2>3, SameElements
<1>3. SubSeq(label, 1, n) = s \o <<label[n]>>
  BY <1>0, <1>2, Split
<1>4. s \o <<label[n]>> = Append(s, label[n])
  BY <1>0, <1>1
<1> QED
  BY <1>0, <1>1, <1>3, <1>4, LengthOfAppend

LEMMA LengthOfJoined ==
  ASSUME NEW s \in Seq(Element), NEW t \in Seq(Element)
  PROVE  LengthOf(s \o t) = LengthOf(s) + LengthOf(t)
<1> DEFINE Adds2(n) == LengthOf(SubSeq(s \o t, 1, Len(s) + n)) = LengthOf(s) + LengthOf(SubSeq(t, 1, n))
           lacking == {n \in 0 .. Len(t) : ~Adds2(n)}
<1>0. Len(s) \in Nat /\ Len(t) \in Nat
  OBVIOUS
<1>1. s \o t \in Seq(Element) /\ Len(s \o t) = Len(s) + Len(t)
  BY Joined
<1>2. lacking = {}
  <2> SUFFICES ASSUME lacking # {} PROVE FALSE
    OBVIOUS
  <2>1. lacking \in SUBSET Nat
    BY <1>0
  <2> DEFINE n == Min(lacking)
  <2>2. n \in lacking /\ \A k \in lacking : n <= k
    BY <2>1, MinOfNats
  <2> HIDE DEF n
  <2>3. CASE n = 0
    <3>1. SubSeq(s \o t, 1, Len(s)) = s
      <4>1. 1 \in 1 .. (Len(s \o t) + 1) /\ Len(s) \in 0 .. Len(s \o t) /\ 1 <= Len(s) + 1
            /\ (Len(s) - 1) + 1 = Len(s) /\ \A k \in 1 .. Len(s) : (1 + k) - 1 = k
        BY <1>0, <1>1
      <4>2. SubSeq(s \o t, 1, Len(s)) \in Seq(Element) /\ Len(SubSeq(s \o t, 1, Len(s))) = Len(s)
            /\ \A k \in 1 .. Len(s) : SubSeq(s \o t, 1, Len(s))[k] = (s \o t)[k]
        BY <1>1, <4>1, Part1
      <4>3. \A k \in 1 .. Len(s) : (s \o t)[k] = s[k]
        BY Joined
      <4> QED
        BY <4>2, <4>3, SameElements
    <3>2. SubSeq(t, 1, 0) = <<>>
      OBVIOUS
    <3>3. Len(s) + 0 = Len(s) /\ LengthOf(s) \in Nat /\ LengthOf(s) + 0 = LengthOf(s)
      BY <1>0, LengthIsNat
    <3>4. Adds2(0)
      BY <3>1, <3>2, <3>3, LengthOfNothing
    <3> QED
      BY <2>2, <2>3, <3>4
  <2>4. CASE n # 0
    <3>1. n \in 1 .. Len(t) /\ n - 1 \in 0 .. Len(t) /\ ~(n <= n - 1) /\ Len(s) + n \in 1 .. Len(s \o t)
          /\ (Len(s) + n) - 1 = Len(s) + (n - 1)
      BY <1>0, <1>1, <2>2, <2>4
    <3>2. Adds2(n - 1)
      BY <2>2, <3>1
    <3>3. (s \o t)[Len(s) + n] = t[n]
      BY <3>1, Joined
    <3>4. LengthOf(SubSeq(s \o t, 1, Len(s) + n)) =
            LengthOf(SubSeq(s \o t, 1, (Len(s) + n) - 1)) + Size(t[n])
      BY <1>1, <3>1, <3>3, LengthOfOneMore
    <3>5. LengthOf(SubSeq(t, 1, n)) = LengthOf(SubSeq(t, 1, n - 1)) + Size(t[n])
      BY <3>1, LengthOfOneMore
    <3>6. LengthOf(s) \in Nat /\ LengthOf(SubSeq(t, 1, n - 1)) \in Nat /\ Size(t[n]) \in Nat
      <4>1. SubSeq(t, 1, n - 1) \in Seq(Element)
        <5>1. 1 \in 1 .. (Len(t) + 1) /\ 1 <= (n - 1) + 1
          BY <1>0, <3>1
        <5> QED
          BY <3>1, <5>1, Part1
      <4>2. t[n] \in Element
        BY <3>1
      <4> QED
        BY <4>1, <4>2, LengthIsNat, TextLenIsNat
    <3>7. Adds2(n)
      BY <3>1, <3>2, <3>4, <3>5, <3>6
    <3> QED
      BY <2>2, <3>7
  <2> QED
    BY <2>3, <2>4
<1>3. Len(t) \in 0 .. Len(t)
  BY <1>0
<1>4. Adds2(Len(t))
  BY <1>2, <1>3
<1> QED
  BY <1>1, <1>4, Whole

(* The front and the back of a label.                                      *)
FrontPart(s, n) == SubSeq(s, 1, n)
BackPart(s, n) == SubSeq(s, n + 1, Len(s))

PartsKnown(s, n) ==
  /\ Len(s) \in Nat
  /\ FrontPart(s, n) \in Seq(Element) /\ Len(FrontPart(s, n)) = n
  /\ \A k \in 1 .. n : FrontPart(s, n)[k] = s[k]
  /\ BackPart(s, n) \in Seq(Element) /\ Len(BackPart(s, n)) = Len(s) - n
  /\ \A k \in 1 .. (Len(s) - n) : BackPart(s, n)[k] = s[n + k]
  /\ LengthOf(FrontPart(s, n)) \in Nat /\ LengthOf(BackPart(s, n)) \in Nat
  /\ LengthOf(s) = LengthOf(FrontPart(s, n)) + LengthOf(BackPart(s, n))

LEMMA PartsAre ==
  ASSUME NEW s \in Seq(Element), NEW n \in 0 .. Len(s)
  PROVE  PartsKnown(s, n)
<1>0. Len(s) \in Nat /\ n \in Nat /\ n <= Len(s) /\ Len(s) \in n .. Len(s)
  OBVIOUS
<1>1. FrontPart(s, n) \in Seq(Element) /\ Len(FrontPart(s, n)) = n /\ \A k \in 1 .. n : FrontPart(s, n)[k] = s[k]
  <2>1. 1 \in 1 .. (Len(s) + 1) /\ n \in 0 .. Len(s) /\ 1 <= n + 1 /\ (n - 1) + 1 = n
        /\ \A k \in 1 .. n : (1 + k) - 1 = k
    BY <1>0
  <2>2. /\ SubSeq(s, 1, n) \in Seq(Element)
        /\ Len(SubSeq(s, 1, n)) = (n - 1) + 1
        /\ \A k \in 1 .. ((n - 1) + 1) : SubSeq(s, 1, n)[k] = s[(1 + k) - 1]
    BY <2>1, Part1
  <2> DEFINE a == SubSeq(s, 1, n)
  <2> HIDE DEF a
  <2>3. a \in Seq(Element) /\ Len(a) = n /\ \A k \in 1 .. n : a[k] = s[k]
    BY <2>1, <2>2 DEF a
  <2> QED
    BY <2>3 DEF FrontPart, a
<1>2. BackPart(s, n) \in Seq(Element) /\ Len(BackPart(s, n)) = Len(s) - n
      /\ \A k \in 1 .. (Len(s) - n) : BackPart(s, n)[k] = s[n + k]
  <2> DEFINE m == n + 1
             l == Len(s)
             b == SubSeq(s, m, l)
  <2>1. m \in 1 .. (Len(s) + 1) /\ l \in 0 .. Len(s) /\ m <= l + 1 /\ (l - m) + 1 = l - n
        /\ \A k \in 1 .. (l - n) : (m + k) - 1 = n + k
    BY <1>0
  <2> HIDE DEF m, l, b
  <2>2. /\ b \in Seq(Element) /\ Len(b) = (l - m) + 1
        /\ \A k \in 1 .. ((l - m) + 1) : b[k] = s[(m + k) - 1]
    BY <2>1, Part1 DEF b
  <2>3. b \in Seq(Element) /\ Len(b) = l - n /\ \A k \in 1 .. (l - n) : b[k] = s[n + k]
    BY <2>1, <2>2
  <2> QED
    BY <2>3 DEF BackPart, b, m, l
<1>3. LengthOf(FrontPart(s, n)) \in Nat /\ LengthOf(BackPart(s, n)) \in Nat
  BY <1>1, <1>2, LengthIsNat
<1>4. FrontPart(s, n) \o BackPart(s, n) = s
  BY <1>0, Split, Whole DEF FrontPart, BackPart
<1>5. LengthOf(FrontPart(s, n) \o BackPart(s, n)) = LengthOf(FrontPart(s, n)) + LengthOf(BackPart(s, n))
  BY <1>1, <1>2, LengthOfJoined
<1> QED
  BY <1>0, <1>1, <1>2, <1>3, <1>4, <1>5 DEF PartsKnown

LEMMA SameFront ==
  ASSUME NEW s \in Seq(Element), NEW t \in Seq(Element), NEW n \in 0 .. Len(s), n <= Len(t),
         \A k \in 1 .. n : s[k] = t[k]
  PROVE  FrontPart(s, n) = FrontPart(t, n)
<1>1. n \in 0 .. Len(t)
  OBVIOUS
<1>2. PartsKnown(s, n) /\ PartsKnown(t, n)
  BY <1>1, PartsAre
<1>3. /\ FrontPart(s, n) \in Seq(Element) /\ Len(FrontPart(s, n)) = n
      /\ FrontPart(t, n) \in Seq(Element) /\ Len(FrontPart(t, n)) = n
      /\ \A k \in 1 .. n : FrontPart(s, n)[k] = FrontPart(t, n)[k]
  BY <1>2 DEF PartsKnown
<1> QED
  BY <1>3, SameElements

LEMMA SameBack ==
  ASSUME NEW s \in Seq(Element), NEW t \in Seq(Element), NEW n \in 0 .. Len(s), NEW m \in 0 .. Len(t),
         Len(s) - n = Len(t) - m,
         \A k \in 1 .. (Len(s) - n) : s[n + k] = t[m + k]
  PROVE  BackPart(s, n) = BackPart(t, m)
<1>2. PartsKnown(s, n) /\ PartsKnown(t, m)
  BY PartsAre
<1>3. /\ BackPart(s, n) \in Seq(Element) /\ Len(BackPart(s, n)) = Len(s) - n
      /\ BackPart(t, m) \in Seq(Element) /\ Len(BackPart(t, m)) = Len(s) - n
      /\ \A k \in 1 .. (Len(s) - n) : BackPart(s, n)[k] = BackPart(t, m)[k]
  BY <1>2 DEF PartsKnown
<1> QED
  BY <1>3, SameElements

(* Where the items of a label are.                                         *)
ItemsKnown(label) ==
  /\ Len(label) \in Nat /\ LengthOf(label) \in Nat
  /\ \A i \in 1 .. (Len(label) + 1) : StartOf(label, i) \in Nat
  /\ StartOf(label, Len(label) + 1) = LengthOf(label)
  /\ \A i \in 1 .. Len(label) :
       /\ label[i] \in Element
       /\ TextLen(label[i]) \in Nat /\ label[i].blanks \in Nat
       /\ StopOf(label, i) = StartOf(label, i) + TextLen(label[i])
       /\ StartOf(label, i + 1) = StopOf(label, i) + label[i].blanks
       /\ label[i].value # <<>> => TextLen(label[i]) > 0

LEMMA ItemsAre ==
  ASSUME NEW label \in Seq(Element)
  PROVE  ItemsKnown(label)
<1>1. Len(label) \in Nat /\ LengthOf(label) \in Nat
  BY LengthIsNat
<1>2. ASSUME NEW i \in 1 .. (Len(label) + 1) PROVE StartOf(label, i) \in Nat
  <2>1. i - 1 \in 0 .. Len(label)
    BY <1>1
  <2>2. PartsKnown(label, i - 1)
    BY <2>1, PartsAre
  <2> QED
    BY <2>2 DEF PartsKnown, FrontPart, StartOf
<1>3. StartOf(label, Len(label) + 1) = LengthOf(label)
  <2>1. (Len(label) + 1) - 1 = Len(label)
    BY <1>1
  <2> QED
    BY <2>1, Whole DEF StartOf
<1>4. ASSUME NEW i \in 1 .. Len(label)
      PROVE  /\ label[i] \in Element
             /\ TextLen(label[i]) \in Nat /\ label[i].blanks \in Nat
             /\ StopOf(label, i) = StartOf(label, i) + TextLen(label[i])
             /\ StartOf(label, i + 1) = StopOf(label, i) + label[i].blanks
             /\ label[i].value # <<>> => TextLen(label[i]) > 0
  <2>1. label[i] \in Element /\ i \in 1 .. (Len(label) + 1) /\ (i + 1) - 1 = i
    BY <1>1
  <2>2. TextLen(label[i]) \in Nat /\ (label[i].value # <<>> => TextLen(label[i]) > 0)
    BY <2>1, TextLenIsNat
  <2>3. label[i].blanks \in Nat
    BY <2>1 DEF Element
  <2>4. StartOf(label, i) \in Nat
    BY <1>2, <2>1
  <2>5. StartOf(label, i + 1) = StartOf(label, i) + (TextLen(label[i]) + label[i].blanks)
    BY <2>1, LengthOfOneMore DEF StartOf, Size
  <2> QED
    BY <2>1, <2>2, <2>3, <2>4, <2>5 DEF StopOf
<1> QED
  BY <1>1, <1>2, <1>3, <1>4 DEF ItemsKnown

ItemKnown(label, i) ==
  /\ label[i] \in Element
  /\ StartOf(label, i) \in Nat /\ TextLen(label[i]) \in Nat /\ label[i].blanks \in Nat
  /\ StopOf(label, i) \in Nat /\ StopOf(label, i) = StartOf(label, i) + TextLen(label[i])
  /\ StartOf(label, i + 1) = StopOf(label, i) + label[i].blanks
  /\ label[i].value # <<>> => TextLen(label[i]) > 0

LEMMA ItemIs ==
  ASSUME NEW label \in Seq(Element), NEW i \in 1 .. Len(label)
  PROVE  ItemKnown(label, i)
<1>1. ItemsKnown(label) /\ i \in 1 .. (Len(label) + 1)
  BY ItemsAre
<1>2. StartOf(label, i) \in Nat /\ TextLen(label[i]) \in Nat
      /\ StopOf(label, i) = StartOf(label, i) + TextLen(label[i])
  BY <1>1 DEF ItemsKnown
<1>3. StopOf(label, i) \in Nat
  BY <1>2
<1> QED
  BY <1>1, <1>2, <1>3 DEF ItemsKnown, ItemKnown

LEMMA Ordered ==
  ASSUME NEW label \in Seq(Element), NEW i \in 1 .. (Len(label) + 1),
         NEW j \in i .. (Len(label) + 1)
  PROVE  StartOf(label, i) <= StartOf(label, j)
<1>0. Len(label) \in Nat /\ i - 1 \in 0 .. (j - 1) /\ j - 1 \in 0 .. Len(label) /\ j \in 1 .. (Len(label) + 1)
  OBVIOUS
<1> DEFINE t == FrontPart(label, j - 1)
<1>1. t \in Seq(Element) /\ Len(t) = j - 1 /\ \A k \in 1 .. (j - 1) : t[k] = label[k]
  BY <1>0, PartsAre DEF PartsKnown
<1>2. LengthOf(t) = LengthOf(FrontPart(t, i - 1)) + LengthOf(BackPart(t, i - 1))
      /\ LengthOf(FrontPart(t, i - 1)) \in Nat /\ LengthOf(BackPart(t, i - 1)) \in Nat
  BY <1>0, <1>1, PartsAre DEF PartsKnown
<1>3. FrontPart(t, i - 1) = FrontPart(label, i - 1)
  <2>1. i - 1 \in 0 .. Len(t) /\ i - 1 <= Len(label) /\ \A k \in 1 .. (i - 1) : t[k] = label[k]
    BY <1>0, <1>1
  <2> QED
    BY <1>1, <2>1, SameFront
<1>4. StartOf(label, j) = LengthOf(t) /\ StartOf(label, i) = LengthOf(FrontPart(t, i - 1))
  BY <1>3 DEF StartOf, FrontPart
<1> QED
  BY <1>2, <1>4

-----------------------------------------------------------------------------
(* Labels that are edited.                                                 *)

InsertKnown(label, i, item) ==
  /\ Inserted(label, i, item) \in Seq(Element)
  /\ Len(label) \in Nat /\ Len(Inserted(label, i, item)) = Len(label) + 1
  /\ \A k \in 1 .. (i - 1) : Inserted(label, i, item)[k] = label[k]
  /\ Inserted(label, i, item)[i] = item
  /\ \A k \in i .. Len(label) : Inserted(label, i, item)[k + 1] = label[k]
  /\ LengthOf(Inserted(label, i, item)) = LengthOf(label) + Size(item)

LEMMA InsertIs ==
  ASSUME NEW label \in Seq(Element), NEW i \in 1 .. (Len(label) + 1), NEW item \in Element
  PROVE  InsertKnown(label, i, item)
<1> DEFINE a == FrontPart(label, i - 1)
           b == BackPart(label, i - 1)
           c == a \o <<item>>
           n == Len(label)
<1>0. n \in Nat /\ i \in Nat /\ i - 1 \in 0 .. n /\ (i - 1) + 1 = i
  OBVIOUS
<1>1. PartsKnown(label, i - 1)
  BY <1>0, PartsAre
<1>2. /\ a \in Seq(Element) /\ Len(a) = i - 1 /\ \A k \in 1 .. (i - 1) : a[k] = label[k]
      /\ b \in Seq(Element) /\ Len(b) = n - (i - 1)
      /\ \A k \in 1 .. (n - (i - 1)) : b[k] = label[(i - 1) + k]
      /\ LengthOf(label) = LengthOf(a) + LengthOf(b)
      /\ LengthOf(a) \in Nat /\ LengthOf(b) \in Nat
  BY <1>1 DEF PartsKnown
<1>3. Inserted(label, i, item) = c \o b
  BY <1>0 DEF Inserted, InsertAt, FrontPart, BackPart
<1> HIDE DEF a, b, n
<1>4. <<item>> \in Seq(Element) /\ Len(<<item>>) = 1 /\ <<item>>[1] = item
  OBVIOUS
<1>5. /\ c \in Seq(Element) /\ Len(c) = i
      /\ \A k \in 1 .. (i - 1) : c[k] = label[k]
      /\ c[i] = item
  <2> DEFINE d == <<item>>
  <2>0. a \in Seq(Element) /\ d \in Seq(Element)
    BY <1>2, <1>4
  <2>a. Len(d) = 1 /\ d[1] = item
    BY <1>4
  <2> HIDE DEF d
  <2>1. /\ a \o d \in Seq(Element) /\ Len(a \o d) = Len(a) + Len(d)
        /\ \A k \in 1 .. Len(a) : (a \o d)[k] = a[k]
        /\ \A k \in 1 .. Len(d) : (a \o d)[Len(a) + k] = d[k]
    BY <2>0, Joined
  <2>2. 1 \in 1 .. Len(d) /\ Len(a) + 1 = i /\ Len(a) + Len(d) = i
    BY <1>0, <1>2, <2>a
  <2>3. (a \o d)[i] = item
    BY <2>1, <2>2, <2>a
  <2>4. Len(a) = i - 1
    BY <1>2
  <2> QED
    BY <1>2, <2>1, <2>2, <2>3, <2>4 DEF d
<1>6. LengthOf(c) = LengthOf(a) + Size(item)
  <2>1. c = Append(a, item)
    BY <1>2
  <2> QED
    BY <1>2, <2>1, LengthOfAppend
<1> HIDE DEF c
<1>a. c \in Seq(Element) /\ b \in Seq(Element)
  BY <1>2, <1>5
<1>7. /\ c \o b \in Seq(Element) /\ Len(c \o b) = Len(c) + Len(b)
      /\ \A k \in 1 .. Len(c) : (c \o b)[k] = c[k]
      /\ \A k \in 1 .. Len(b) : (c \o b)[Len(c) + k] = b[k]
  BY <1>a, Joined
<1>8. Len(c \o b) = n + 1
  <2>1. Len(c \o b) = Len(c) + Len(b)
    BY <1>7
  <2>2. Len(c) = i /\ Len(b) = n - (i - 1)
    BY <1>2, <1>5
  <2> QED
    BY <1>0, <2>1, <2>2
<1>9. \A k \in 1 .. i : (c \o b)[k] = c[k]
  BY <1>5, <1>7
<1>10. ASSUME NEW k \in i .. n PROVE (c \o b)[k + 1] = label[k]
  <2>1. k - (i - 1) \in 1 .. (n - (i - 1)) /\ i + (k - (i - 1)) = k + 1 /\ (i - 1) + (k - (i - 1)) = k
    BY <1>0
  <2>2. (c \o b)[i + (k - (i - 1))] = b[k - (i - 1)]
    BY <1>2, <1>5, <1>7, <2>1
  <2> QED
    BY <1>2, <2>1, <2>2
<1>11. LengthOf(c \o b) = LengthOf(label) + Size(item)
  <2>1. LengthOf(c \o b) = LengthOf(c) + LengthOf(b)
    BY <1>2, <1>5, LengthOfJoined
  <2>2. Size(item) \in Nat
    BY TextLenIsNat
  <2> QED
    BY <1>2, <1>6, <2>1, <2>2
<1>12. \A k \in 1 .. (i - 1) : (c \o b)[k] = label[k]
  BY <1>0, <1>5, <1>9
<1>13. (c \o b)[i] = item
  BY <1>0, <1>5, <1>9
<1> QED
  BY <1>0, <1>3, <1>7, <1>8, <1>10, <1>11, <1>12, <1>13 DEF InsertKnown, n

(* An item put in the place of another.                                    *)
PutKnown(label, i, item) ==
  /\ [label EXCEPT ![i] = item] \in Seq(Element)
  /\ Len([label EXCEPT ![i] = item]) = Len(label)
  /\ \A k \in 1 .. Len(label) : [label EXCEPT ![i] = item][k] = IF k = i THEN item ELSE label[k]
  /\ StartOf([label EXCEPT ![i] = item], i) = StartOf(label, i)
  /\ BackPart([label EXCEPT ![i] = item], i) = BackPart(label, i)
  /\ LengthOf(label) = StartOf(label, i) + Size(label[i]) + LengthOf(BackPart(label, i))
  /\ LengthOf([label EXCEPT ![i] = item]) = StartOf(label, i) + Size(item) + LengthOf(BackPart(label, i))
  /\ LengthOf(BackPart(label, i)) \in Nat /\ StartOf(label, i) \in Nat

LEMMA PutIs ==
  ASSUME NEW label \in Seq(Element), NEW i \in 1 .. Len(label), NEW item \in Element
  PROVE  PutKnown(label, i, item)
<1> DEFINE t == [label EXCEPT ![i] = item]
           n == Len(label)
<1>0. n \in Nat /\ i \in Nat /\ i \in 0 .. n /\ i - 1 \in 0 .. n /\ i \in 1 .. n
  OBVIOUS
<1>1. t \in Seq(Element) /\ Len(t) = n
      /\ \A k \in 1 .. n : t[k] = IF k = i THEN item ELSE label[k]
  OBVIOUS
<1> HIDE DEF t, n
<1>2. FrontPart(t, i - 1) = FrontPart(label, i - 1)
  <2>1. i - 1 \in 0 .. Len(t) /\ i - 1 <= Len(label) /\ \A k \in 1 .. (i - 1) : t[k] = label[k]
    BY <1>0, <1>1 DEF n
  <2> QED
    BY <1>1, <2>1, SameFront
<1>3. BackPart(t, i) = BackPart(label, i)
  <2>1. i \in 0 .. Len(t) /\ i \in 0 .. Len(label) /\ Len(t) - i = Len(label) - i
        /\ \A k \in 1 .. (Len(t) - i) : t[i + k] = label[i + k]
    BY <1>0, <1>1 DEF n
  <2> QED
    BY <1>1, <2>1, SameBack
<1>4. StartOf(t, i) = StartOf(label, i)
  BY <1>2 DEF StartOf, FrontPart
<1>5. ASSUME NEW s \in Seq(Element), Len(s) = n
      PROVE  /\ LengthOf(s) = StartOf(s, i) + Size(s[i]) + LengthOf(BackPart(s, i))
             /\ LengthOf(BackPart(s, i)) \in Nat /\ StartOf(s, i) \in Nat
  <2>1. LengthOf(s) = LengthOf(FrontPart(s, i)) + LengthOf(BackPart(s, i)) /\ LengthOf(BackPart(s, i)) \in Nat
    BY <1>0, <1>5, PartsAre DEF PartsKnown
  <2>2. LengthOf(FrontPart(s, i)) = StartOf(s, i) + Size(s[i])
    BY <1>0, <1>5, LengthOfOneMore DEF StartOf, FrontPart
  <2>3. StartOf(s, i) \in Nat
    BY <1>0, <1>5, ItemsAre DEF ItemsKnown
  <2>4. Size(s[i]) \in Nat
    <3>1. s[i] \in Element
      BY <1>0, <1>5
    <3> QED
      BY <3>1, TextLenIsNat
  <2> QED
    BY <2>1, <2>2, <2>3, <2>4
<1>6. t[i] = item
  BY <1>0, <1>1
<1>7. LengthOf(t) = StartOf(t, i) + Size(t[i]) + LengthOf(BackPart(t, i))
  BY <1>1, <1>5
<1>8. LengthOf(label) = StartOf(label, i) + Size(label[i]) + LengthOf(BackPart(label, i))
      /\ LengthOf(BackPart(label, i)) \in Nat /\ StartOf(label, i) \in Nat
  BY <1>5 DEF n
<1> QED
  BY <1>1, <1>3, <1>4, <1>6, <1>7, <1>8 DEF PutKnown, t, n

(* The item in front of one that is cut out.                               *)
Before(label, i) == [label[i - 1] EXCEPT !.blanks = @ + label[i].blanks]

CutKnown(label, i) ==
  /\ Cut(label, i) \in Seq(Element)
  /\ Len(label) \in Nat /\ Len(Cut(label, i)) = Len(label) - 1
  /\ \A k \in 1 .. (i - 2) : Cut(label, i)[k] = label[k]
  /\ Cut(label, i)[i - 1] = Before(label, i)
  /\ \A k \in i .. (Len(label) - 1) : Cut(label, i)[k] = label[k + 1]
  /\ StartOf(Cut(label, i), i - 1) = StartOf(label, i - 1)
  /\ StopOf(Cut(label, i), i - 1) = StopOf(label, i - 1)
  /\ StartOf(Cut(label, i), i) = StopOf(label, i - 1) + label[i - 1].blanks + label[i].blanks
  /\ BackPart(Cut(label, i), i - 1) = BackPart(label, i)
  /\ LengthOf(Cut(label, i)) = LengthOf(label) - TextLen(label[i])

LEMMA CutIs ==
  ASSUME NEW label \in Seq(Element), NEW i \in 2 .. Len(label)
  PROVE  CutKnown(label, i)
<1> DEFINE n == Len(label)
           t == [label EXCEPT ![i - 1] = Before(label, i)]
           c == Cut(label, i)
<1>0. n \in Nat /\ i \in Nat /\ i \in 1 .. n /\ i - 1 \in 1 .. n /\ i # 1
      /\ i - 1 \in 0 .. n /\ i \in 0 .. n /\ (i - 1) + 1 = i /\ (i - 1) - 1 = i - 2
  OBVIOUS
<1>1. label[i] \in Element /\ label[i - 1] \in Element
  BY <1>0
<1>2. Before(label, i) \in Element /\ TextLen(Before(label, i)) = TextLen(label[i - 1])
      /\ Before(label, i).blanks = label[i - 1].blanks + label[i].blanks
  <2> DEFINE x == label[i - 1]
             more == label[i - 1].blanks + label[i].blanks
             y == [x EXCEPT !.blanks = more]
  <2>0. label[i].blanks \in Nat /\ x.blanks \in Nat
    BY <1>1 DEF Element
  <2>1. x \in Element /\ more \in Nat
    BY <1>1, <2>0
  <2>2. Before(label, i) = y
    BY DEF Before
  <2> HIDE DEF x, more
  <2>3. y \in Element /\ y.value = x.value /\ y.wide = x.wide /\ y.blanks = more
    BY <2>1 DEF Element
  <2> QED
    BY <2>2, <2>3 DEF TextLen, x, more
<1>3. c = FrontPart(t, i - 1) \o BackPart(t, i)
  <2>1. t = [label EXCEPT ![i - 1].blanks = @ + label[i].blanks]
    BY DEF Before
  <2> HIDE DEF t
  <2> QED
    BY <2>1 DEF Cut, RemoveAt, FrontPart, BackPart
<1>4. PutKnown(label, i - 1, Before(label, i))
  BY <1>0, <1>2, PutIs
<1>5. /\ t \in Seq(Element) /\ Len(t) = n
      /\ \A k \in 1 .. n : t[k] = IF k = i - 1 THEN Before(label, i) ELSE label[k]
      /\ StartOf(t, i - 1) = StartOf(label, i - 1)
  BY <1>4 DEF PutKnown
<1> HIDE DEF t, c
<1>6. PartsKnown(t, i - 1) /\ PartsKnown(t, i)
  BY <1>0, <1>5, PartsAre
<1>7. /\ FrontPart(t, i - 1) \in Seq(Element) /\ Len(FrontPart(t, i - 1)) = i - 1
      /\ \A k \in 1 .. (i - 1) : FrontPart(t, i - 1)[k] = t[k]
      /\ BackPart(t, i) \in Seq(Element) /\ Len(BackPart(t, i)) = n - i
      /\ \A k \in 1 .. (n - i) : BackPart(t, i)[k] = t[i + k]
  BY <1>5, <1>6 DEF PartsKnown
<1>a. FrontPart(t, i - 1) \in Seq(Element) /\ BackPart(t, i) \in Seq(Element)
  BY <1>7
<1>8. /\ c \in Seq(Element) /\ Len(c) = Len(FrontPart(t, i - 1)) + Len(BackPart(t, i))
      /\ \A k \in 1 .. Len(FrontPart(t, i - 1)) : c[k] = FrontPart(t, i - 1)[k]
      /\ \A k \in 1 .. Len(BackPart(t, i)) : c[Len(FrontPart(t, i - 1)) + k] = BackPart(t, i)[k]
  BY <1>3, <1>a, Joined
<1>9. Len(c) = n - 1
  <2>1. Len(c) = (i - 1) + (n - i)
    BY <1>7, <1>8
  <2> QED
    BY <1>0, <2>1
<1>10. \A k \in 1 .. (i - 1) : c[k] = t[k]
  BY <1>7, <1>8
<1>11. ASSUME NEW k \in i .. (n - 1) PROVE c[k] = label[k + 1]
  <2>1. k - (i - 1) \in 1 .. (n - i) /\ (i - 1) + (k - (i - 1)) = k /\ i + (k - (i - 1)) = k + 1
        /\ k + 1 \in 1 .. n /\ k + 1 # i - 1
    BY <1>0
  <2>2. c[k] = BackPart(t, i)[k - (i - 1)]
    BY <1>7, <1>8, <2>1
  <2>3. BackPart(t, i)[k - (i - 1)] = t[k + 1]
    BY <1>7, <2>1
  <2> QED
    BY <1>5, <2>1, <2>2, <2>3
<1>12. ASSUME NEW k \in 1 .. (i - 2) PROVE c[k] = label[k]
  <2>1. k \in 1 .. (i - 1) /\ k \in 1 .. n /\ k # i - 1
    BY <1>0
  <2> QED
    BY <1>5, <1>10, <2>1
<1>13. c[i - 1] = Before(label, i)
  <2>1. i - 1 \in 1 .. (i - 1)
    BY <1>0
  <2> QED
    BY <1>0, <1>5, <1>10, <2>1
<1>14. StartOf(c, i - 1) = StartOf(label, i - 1)
  <2>1. i - 2 \in 0 .. Len(c) /\ i - 2 <= Len(label)
    BY <1>0, <1>9
  <2>2. FrontPart(c, i - 2) = FrontPart(label, i - 2)
    BY <1>8, <1>12, <2>1, SameFront
  <2> QED
    BY <1>0, <2>2 DEF StartOf, FrontPart
<1>15. ItemKnown(c, i - 1) /\ ItemKnown(label, i - 1) /\ ItemKnown(label, i)
  <2>1. i - 1 \in 1 .. Len(c)
    BY <1>0, <1>9
  <2> QED
    BY <1>0, <1>8, <2>1, ItemIs
<1>16. StopOf(c, i - 1) = StopOf(label, i - 1)
  BY <1>2, <1>13, <1>14 DEF StopOf
<1>17. StartOf(c, i) = StopOf(label, i - 1) + label[i - 1].blanks + label[i].blanks
  <2>1. StartOf(c, i) = StopOf(c, i - 1) + c[i - 1].blanks
    BY <1>0, <1>15 DEF ItemKnown
  <2>2. StopOf(label, i - 1) \in Nat /\ label[i - 1].blanks \in Nat /\ label[i].blanks \in Nat
    BY <1>15 DEF ItemKnown
  <2> QED
    BY <1>2, <1>13, <1>16, <2>1, <2>2
<1>18. BackPart(c, i - 1) = BackPart(label, i)
  <2>1. i - 1 \in 0 .. Len(c) /\ i \in 0 .. Len(label) /\ Len(c) - (i - 1) = Len(label) - i
    BY <1>0, <1>9
  <2>2. \A k \in 1 .. (Len(c) - (i - 1)) : c[(i - 1) + k] = label[i + k]
    <3> TAKE k \in 1 .. (Len(c) - (i - 1))
    <3>1. (i - 1) + k \in i .. (n - 1) /\ ((i - 1) + k) + 1 = i + k
      BY <1>0, <1>9
    <3> QED
      BY <1>11, <3>1
  <2> QED
    BY <1>8, <2>1, <2>2, SameBack
<1>19. LengthOf(c) = LengthOf(label) - TextLen(label[i])
  <2>1. PartsKnown(c, i - 1) /\ PutKnown(label, i, label[i])
    <3>1. i - 1 \in 0 .. Len(c)
      BY <1>0, <1>9
    <3> QED
      BY <1>0, <1>1, <1>8, <3>1, PartsAre, PutIs
  <2>2. LengthOf(c) = StartOf(c, i) + LengthOf(BackPart(label, i))
    BY <1>18, <2>1 DEF PartsKnown, StartOf, FrontPart
  <2>3. LengthOf(label) = StartOf(label, i) + Size(label[i]) + LengthOf(BackPart(label, i))
        /\ LengthOf(BackPart(label, i)) \in Nat
    BY <2>1 DEF PutKnown
  <2>4. StartOf(label, i) = StopOf(label, i - 1) + label[i - 1].blanks
    BY <1>0, <1>15 DEF ItemKnown
  <2>5. /\ StartOf(label, i) \in Nat /\ TextLen(label[i]) \in Nat /\ label[i].blanks \in Nat
        /\ StopOf(label, i - 1) \in Nat /\ label[i - 1].blanks \in Nat
    BY <1>15 DEF ItemKnown
  <2>6. StartOf(c, i) = StartOf(label, i) + label[i].blanks
    BY <1>17, <2>4, <2>5
  <2> QED
    BY <2>2, <2>3, <2>5, <2>6 DEF Size
<1> QED
  BY <1>0, <1>8, <1>9, <1>11, <1>12, <1>13, <1>14, <1>16, <1>17, <1>18, <1>19 DEF CutKnown, c, n

(* An item written again.                                                  *)
RewriteKnown(label, i, value) ==
  /\ Rewritten(label, i, value) \in Seq(Element)
  /\ Len(Rewritten(label, i, value)) = Len(label)
  /\ \A k \in 1 .. Len(label) : k # i => Rewritten(label, i, value)[k] = label[k]
  /\ \A k \in 1 .. Len(label) : Rewritten(label, i, value)[k].key = label[k].key
  /\ Rewritten(label, i, value)[i].value = value
  /\ Rewritten(label, i, value)[i].blanks = label[i].blanks
  /\ StartOf(Rewritten(label, i, value), i) = StartOf(label, i)
  /\ BackPart(Rewritten(label, i, value), i) = BackPart(label, i)
  /\ LengthOf(Rewritten(label, i, value)) =
       (LengthOf(label) - TextLen(label[i])) + TextLen(Rewritten(label, i, value)[i])
  /\ TextLen(Rewritten(label, i, value)[i]) \in Nat /\ LengthOf(label) - TextLen(label[i]) \in Nat

LEMMA RewriteIs ==
  ASSUME NEW label \in Seq(Element), NEW i \in 1 .. Len(label), NEW value \in Seq(STRING)
  PROVE  RewriteKnown(label, i, value)
<1> DEFINE x == label[i]
           y == [[x EXCEPT !.value = value] EXCEPT !.wide = TRUE]
           t == Rewritten(label, i, value)
<1>1. x \in Element
  OBVIOUS
<1>2. t = [label EXCEPT ![i] = y]
  <2>1. t = [[label EXCEPT ![i].value = value] EXCEPT ![i].wide = TRUE]
    BY DEF Rewritten
  <2>2. [label EXCEPT ![i].value = value] = [label EXCEPT ![i] = [x EXCEPT !.value = value]]
    OBVIOUS
  <2> DEFINE z == [x EXCEPT !.value = value]
             u == [label EXCEPT ![i] = z]
  <2>3. u[i] = z
    OBVIOUS
  <2>4. [u EXCEPT ![i].wide = TRUE] = [u EXCEPT ![i] = [u[i] EXCEPT !.wide = TRUE]]
    OBVIOUS
  <2> HIDE DEF z
  <2>5. [u EXCEPT ![i] = [z EXCEPT !.wide = TRUE]] = [label EXCEPT ![i] = [z EXCEPT !.wide = TRUE]]
    OBVIOUS
  <2> QED
    BY <2>1, <2>2, <2>3, <2>4, <2>5 DEF z
<1>3. y \in Element /\ y.key = x.key /\ y.value = value /\ y.blanks = x.blanks
  BY <1>1 DEF Element
<1> HIDE DEF y
<1>4. PutKnown(label, i, y)
  BY <1>3, PutIs
<1> HIDE DEF t
<1>5. /\ t \in Seq(Element) /\ Len(t) = Len(label)
      /\ \A k \in 1 .. Len(label) : t[k] = IF k = i THEN y ELSE label[k]
      /\ StartOf(t, i) = StartOf(label, i) /\ BackPart(t, i) = BackPart(label, i)
      /\ LengthOf(label) = StartOf(label, i) + Size(x) + LengthOf(BackPart(label, i))
      /\ LengthOf(t) = StartOf(label, i) + Size(y) + LengthOf(BackPart(label, i))
      /\ LengthOf(BackPart(label, i)) \in Nat /\ StartOf(label, i) \in Nat
  BY <1>2, <1>4 DEF PutKnown
<1>6. TextLen(x) \in Nat /\ TextLen(y) \in Nat /\ x.blanks \in Nat
  BY <1>1, <1>3, TextLenIsNat DEF Element
<1>7. Size(x) = TextLen(x) + x.blanks /\ Size(y) = TextLen(y) + x.blanks
  BY <1>3 DEF Size
<1> HIDE DEF x
<1>8. LengthOf(t) = (LengthOf(label) - TextLen(x)) + TextLen(y) /\ LengthOf(label) - TextLen(x) \in Nat
  <2> DEFINE lt == LengthOf(t)
             ll == LengthOf(label)
             at == StartOf(label, i)
             back == LengthOf(BackPart(label, i))
             lx == TextLen(x)
             ly == TextLen(y)
             gap == x.blanks
  <2>1. at \in Nat /\ back \in Nat /\ lx \in Nat /\ ly \in Nat /\ gap \in Nat
    BY <1>5, <1>6
  <2>2. ll = at + Size(x) + back /\ lt = at + Size(y) + back
    BY <1>5
  <2>3. Size(x) = lx + gap /\ Size(y) = ly + gap
    BY <1>7
  <2> HIDE DEF lt, ll, at, back, lx, ly, gap
  <2>4. lt = (ll - lx) + ly /\ ll - lx \in Nat
    BY <2>1, <2>2, <2>3
  <2> QED
    BY <2>4 DEF lt, ll, lx, ly
<1>9. t[i] = y
  BY <1>5
<1>10. \A k \in 1 .. Len(label) : t[k].key = label[k].key
  BY <1>3, <1>5 DEF x
<1> QED
  BY <1>3, <1>5, <1>6, <1>8, <1>9, <1>10 DEF RewriteKnown, t, x

-----------------------------------------------------------------------------
(* Edits that leave a label a label.                                       *)

ItemMade(item, i) ==
  /\ item.key = SystemKey <=> i = 1
  /\ item.value # <<>>
  /\ item.key \in Headers => Len(item.value) = 1

InOrder(label) ==
  \A i, j \in 1 .. Len(label) : label[i].key = PropertyKey /\ label[j].key = TaskKey => i < j

WellMade(label) ==
  /\ \A i \in 1 .. Len(label) : ItemMade(label[i], i)
  /\ InOrder(label)

LEMMA LabelIs ==
  ASSUME NEW label, IsLabel(label)
  PROVE  /\ label \in Seq(Element) /\ Len(label) \in Nat /\ Len(label) >= 1
         /\ DOMAIN label = 1 .. Len(label)
         /\ WellMade(label)
         /\ \A i \in 1 .. Len(label) :
              /\ label[i].key = SystemKey <=> i = 1
              /\ label[i].value # <<>>
              /\ label[i].key \in Headers => Len(label[i].value) = 1
         /\ \A i, j \in 1 .. Len(label) : label[i].key = PropertyKey /\ label[j].key = TaskKey => i < j
<1>1. label \in Seq(Element) /\ label # <<>>
  BY DEF IsLabel, Element
<1>2. DOMAIN label = 1 .. Len(label) /\ Len(label) \in Nat /\ Len(label) >= 1
  BY <1>1
<1>3. WellMade(label)
  BY <1>2 DEF IsLabel, WellMade, ItemMade, InOrder
<1> QED
  BY <1>1, <1>2, <1>3 DEF WellMade, ItemMade, InOrder

LEMMA MakesLabel ==
  ASSUME NEW label \in Seq(Element), Len(label) >= 1, WellMade(label)
  PROVE  IsLabel(label)
<1>1. DOMAIN label = 1 .. Len(label) /\ label # <<>>
  OBVIOUS
<1> QED
  BY <1>1 DEF IsLabel, Element, WellMade, ItemMade, InOrder

LEMMA OrdinaryKey ==
  ASSUME NEW key \in Keys
  PROVE  key \notin Headers /\ key # SystemKey /\ key # PropertyKey /\ key # TaskKey
BY ConstantsAreSane DEF Headers

LEMMA CutStaysLabel ==
  ASSUME NEW label, IsLabel(label), NEW i \in 1 .. Len(label), label[i].key \in Keys
  PROVE  IsLabel(Cut(label, i)) /\ i \in 2 .. Len(label)
<1> DEFINE n == Len(label)
           c == Cut(label, i)
           was(k) == IF k < i THEN k ELSE k + 1
<1>1. label \in Seq(Element) /\ n \in Nat
  BY LabelIs
<1>2. i # 1
  BY <1>1, LabelIs, OrdinaryKey
<1>3. i \in 2 .. n
  BY <1>1, <1>2
<1>4. CutKnown(label, i)
  BY <1>1, <1>3, CutIs
<1>5. c \in Seq(Element) /\ Len(c) = n - 1
  BY <1>4 DEF CutKnown
<1>6. ASSUME NEW k \in 1 .. (n - 1)
      PROVE  was(k) \in 1 .. n /\ c[k].key = label[was(k)].key /\ c[k].value = label[was(k)].value
  <2>1. was(k) \in 1 .. n
    BY <1>1, <1>3
  <2>2. CASE k = i - 1
    <3>1. c[k] = Before(label, i) /\ was(k) = i - 1
      BY <1>3, <1>4, <2>2 DEF CutKnown
    <3>2. label[i - 1] \in Element
      BY <1>1, <1>3
    <3>3. Before(label, i).key = label[i - 1].key /\ Before(label, i).value = label[i - 1].value
      BY <3>2 DEF Before, Element
    <3> QED
      BY <2>1, <3>1, <3>3
  <2>3. CASE k < i - 1
    <3>1. k \in 1 .. (i - 2) /\ was(k) = k
      BY <1>3, <2>3
    <3> QED
      BY <1>4, <2>1, <3>1 DEF CutKnown
  <2>4. CASE k > i - 1
    <3>1. k \in i .. (n - 1) /\ was(k) = k + 1
      BY <1>1, <1>3, <2>4
    <3> QED
      BY <1>4, <2>1, <3>1 DEF CutKnown
  <2> QED
    BY <1>3, <2>2, <2>3, <2>4
<1>7. \A j, k \in 1 .. (n - 1) : (was(j) < was(k) => j < k) /\ (was(k) = 1 <=> k = 1)
  BY <1>1, <1>3
<1> HIDE DEF c, n, was
<1>8. /\ \A k \in 1 .. n : ItemMade(label[k], k)
      /\ \A j, k \in 1 .. n : label[j].key = PropertyKey /\ label[k].key = TaskKey => j < k
  BY LabelIs DEF n, WellMade
<1>9. \A k \in 1 .. Len(c) : ItemMade(c[k], k)
  <2> TAKE k \in 1 .. Len(c)
  <2>1. k \in 1 .. (n - 1)
    BY <1>5
  <2>2. ItemMade(label[was(k)], was(k)) /\ (was(k) = 1 <=> k = 1)
    BY <1>6, <1>7, <1>8, <2>1
  <2> QED
    BY <1>6, <2>1, <2>2 DEF ItemMade
<1>10. \A j, k \in 1 .. Len(c) : c[j].key = PropertyKey /\ c[k].key = TaskKey => j < k
  BY <1>5, <1>6, <1>7, <1>8
<1>11. Len(c) >= 1
  BY <1>1, <1>3, <1>5
<1>12. IsLabel(c)
  <2>1. WellMade(c)
    BY <1>9, <1>10 DEF WellMade, InOrder
  <2> QED
    BY <1>5, <1>11, <2>1, MakesLabel
<1> QED
  BY <1>3, <1>12 DEF c, n

LEMMA RewriteStaysLabel ==
  ASSUME NEW label, IsLabel(label), NEW i \in 1 .. Len(label), label[i].key \in Keys,
         NEW value \in Seq(STRING), value # <<>>
  PROVE  IsLabel(Rewritten(label, i, value))
<1> DEFINE t == Rewritten(label, i, value)
           n == Len(label)
<1>1. label \in Seq(Element) /\ n \in Nat /\ n >= 1
  BY LabelIs
<1>2. RewriteKnown(label, i, value)
  BY <1>1, RewriteIs
<1>3. t \in Seq(Element) /\ Len(t) = n /\ \A k \in 1 .. n : t[k].key = label[k].key
  BY <1>2 DEF RewriteKnown
<1>4. \A k \in 1 .. n : t[k].value = IF k = i THEN value ELSE label[k].value
  BY <1>2 DEF RewriteKnown
<1>5. label[i].key \notin Headers
  BY OrdinaryKey
<1> HIDE DEF t, n
<1>8. /\ \A k \in 1 .. n : ItemMade(label[k], k)
      /\ \A j, k \in 1 .. n : label[j].key = PropertyKey /\ label[k].key = TaskKey => j < k
  BY LabelIs DEF n, WellMade
<1>9. \A k \in 1 .. Len(t) : ItemMade(t[k], k)
  <2> TAKE k \in 1 .. Len(t)
  <2>1. k \in 1 .. n /\ t[k].key = label[k].key /\ t[k].value = IF k = i THEN value ELSE label[k].value
    BY <1>3, <1>4
  <2> QED
    BY <1>5, <1>8, <2>1 DEF ItemMade
<1>10. \A j, k \in 1 .. Len(t) : t[j].key = PropertyKey /\ t[k].key = TaskKey => j < k
  BY <1>3, <1>8
<1>11. WellMade(t)
  BY <1>9, <1>10 DEF WellMade, InOrder
<1> QED
  BY <1>1, <1>3, <1>11, MakesLabel DEF t

(* An item may be inserted where it does not part headers from theirs.     *)
LEMMA InsertStaysLabel ==
  ASSUME NEW label, IsLabel(label), NEW i \in 2 .. (Len(label) + 1), NEW item \in Element,
         item.key # SystemKey, item.value # <<>>,
         item.key \in Headers => Len(item.value) = 1,
         item.key = PropertyKey => \A k \in 1 .. (i - 1) : label[k].key # TaskKey,
         item.key = TaskKey => \A k \in i .. Len(label) : label[k].key # PropertyKey
  PROVE  IsLabel(Inserted(label, i, item))
<1> DEFINE t == Inserted(label, i, item)
           n == Len(label)
           was(k) == IF k < i THEN k ELSE k - 1
<1>1. label \in Seq(Element) /\ n \in Nat /\ n >= 1 /\ i \in 1 .. (n + 1)
  BY LabelIs
<1>2. InsertKnown(label, i, item)
  BY <1>1, InsertIs
<1>3. t \in Seq(Element) /\ Len(t) = n + 1 /\ t[i] = item
  BY <1>2 DEF InsertKnown
<1>4. ASSUME NEW k \in 1 .. (n + 1), k # i
      PROVE  was(k) \in 1 .. n /\ t[k] = label[was(k)]
  <2>1. CASE k < i
    <3>1. k \in 1 .. (i - 1) /\ was(k) = k /\ k \in 1 .. n
      BY <1>1, <2>1
    <3> QED
      BY <1>2, <3>1 DEF InsertKnown
  <2>2. CASE k > i
    <3>1. k - 1 \in i .. n /\ was(k) = k - 1 /\ (k - 1) + 1 = k /\ k - 1 \in 1 .. n
      BY <1>1, <2>2
    <3>2. t[(k - 1) + 1] = label[k - 1]
      BY <1>2, <3>1 DEF InsertKnown
    <3> QED
      BY <3>1, <3>2
  <2> QED
    BY <1>1, <1>4, <2>1, <2>2
<1>5. \A j, k \in 1 .. (n + 1) : j # i /\ k # i => (was(j) < was(k) => j < k) /\ (was(k) = 1 <=> k = 1)
  BY <1>1
<1>6. \A k \in 1 .. (n + 1) : k < i \/ was(k) \in i .. n \/ k = i
  BY <1>1
<1>7. \A k \in 1 .. (n + 1) : k > i \/ was(k) \in 1 .. (i - 1) \/ k = i
  BY <1>1
<1> HIDE DEF t, n, was
<1>8. /\ \A k \in 1 .. n : ItemMade(label[k], k)
      /\ \A j, k \in 1 .. n : label[j].key = PropertyKey /\ label[k].key = TaskKey => j < k
  BY LabelIs DEF n, WellMade
<1>9. ASSUME NEW k \in 1 .. Len(t)
      PROVE  ItemMade(t[k], k)
  <2>1. CASE k = i
    <3>1. k # 1
      BY <2>1
    <3> QED
      BY <1>3, <2>1, <3>1 DEF ItemMade
  <2>2. CASE k # i
    <3>1. k \in 1 .. (n + 1)
      BY <1>3
    <3>2. was(k) \in 1 .. n /\ t[k] = label[was(k)] /\ (was(k) = 1 <=> k = 1)
      BY <1>4, <1>5, <2>2, <3>1
    <3> QED
      BY <1>8, <3>2 DEF ItemMade
  <2> QED
    BY <2>1, <2>2
<1>10. ASSUME NEW j \in 1 .. Len(t), NEW k \in 1 .. Len(t), t[j].key = PropertyKey, t[k].key = TaskKey
       PROVE  j < k
  <2>0. j \in 1 .. (n + 1) /\ k \in 1 .. (n + 1) /\ PropertyKey # TaskKey
    BY <1>3 DEF PropertyKey, TaskKey
  <2>1. CASE j = i
    <3>1. k # i
      BY <1>10, <2>0, <2>1
    <3>2. was(k) \notin 1 .. (i - 1)
      BY <1>3, <1>4, <1>10, <2>0, <2>1, <3>1
    <3> QED
      BY <1>7, <2>0, <2>1, <3>1, <3>2
  <2>2. CASE k = i
    <3>1. j # i
      BY <1>10, <2>0, <2>2
    <3>2. was(j) \notin i .. Len(label)
      BY <1>3, <1>4, <1>10, <2>0, <2>2, <3>1
    <3> QED
      BY <1>6, <2>0, <2>2, <3>1, <3>2 DEF n
  <2>3. CASE j # i /\ k # i
    BY <1>4, <1>5, <1>8, <1>10, <2>0, <2>3
  <2> QED
    BY <2>1, <2>2, <2>3
<1>11. Len(t) >= 1
  BY <1>1, <1>3
<1>12. WellMade(t)
  BY <1>9, <1>10 DEF WellMade, InOrder
<1> QED
  BY <1>3, <1>11, <1>12, MakesLabel DEF t

-----------------------------------------------------------------------------
(* What the calls look for.                                                *)

PartType ==
  {of \in [type : {"SYSTEM", "PROPERTY", "HISTORY"}, name : STRING, instance : Nat] :
     of.type = "SYSTEM" => of = SystemPart}

LEMMA EntryIs ==
  ASSUME NEW label, DOMAIN label = 1 .. Len(label), Len(label) \in Nat,
         NEW from \in 1 .. (Len(label) + 1), NEW key
  PROVE  LET e == FindEntry(label, from, key)
         IN  /\ e \in from .. (Len(label) + 1)
             /\ e <= Len(label) => label[e].key = key
             /\ \A k \in from .. Len(label) : k < e => label[k].key # key
<1> DEFINE S == {Len(label) + 1} \cup {i \in from .. Len(label) : label[i].key = key}
           e == Min(S)
<1>1. FindEntry(label, from, key) = e
  BY DEF FindEntry
<1>2. S \in SUBSET Nat /\ S # {}
  OBVIOUS
<1>3. e \in S /\ \A y \in S : e <= y
  BY <1>2, MinOfNats
<1> HIDE DEF e
<1>4. e \in from .. (Len(label) + 1) /\ (e <= Len(label) => label[e].key = key)
  BY <1>3
<1>5. ASSUME NEW k \in from .. Len(label), k < e PROVE label[k].key # key
  <2>1. k \notin S
    BY <1>3, <1>4, <1>5
  <2> QED
    BY <2>1
<1> QED
  BY <1>1, <1>4, <1>5

LEMMA FirstHistItemIs ==
  ASSUME NEW label, IsLabel(label)
  PROVE  /\ FindFirstHistItem(label) \in 2 .. (Len(label) + 1)
         /\ \A k \in 1 .. (FindFirstHistItem(label) - 1) : label[k].key # TaskKey
         /\ \A k \in FindFirstHistItem(label) .. Len(label) : label[k].key # PropertyKey
<1> DEFINE e == FindEntry(label, 1, TaskKey)
<1>1. Len(label) \in Nat /\ Len(label) >= 1 /\ DOMAIN label = 1 .. Len(label)
  BY LabelIs
<1>2. 1 \in 1 .. (Len(label) + 1)
  BY <1>1
<1>3. /\ e \in 1 .. (Len(label) + 1)
      /\ e <= Len(label) => label[e].key = TaskKey
      /\ \A k \in 1 .. Len(label) : k < e => label[k].key # TaskKey
  BY <1>1, <1>2, EntryIs
<1>4. FindFirstHistItem(label) = e
  BY DEF FindFirstHistItem
<1> HIDE DEF e
<1>5. e # 1
  <2>1. label[1].key = SystemKey /\ SystemKey # TaskKey
    BY <1>1, LabelIs DEF SystemKey, TaskKey
  <2> QED
    BY <1>1, <1>3, <2>1
<1>6. \A k \in 1 .. (e - 1) : label[k].key # TaskKey
  BY <1>1, <1>3
<1>7. ASSUME NEW k \in e .. Len(label) PROVE label[k].key # PropertyKey
  <2>1. e \in 1 .. Len(label) /\ k \in 1 .. Len(label) /\ ~(k < e)
    BY <1>1, <1>3
  <2>2. label[e].key = TaskKey
    BY <1>3, <2>1
  <2> QED
    BY <2>1, <2>2, LabelIs
<1> QED
  BY <1>1, <1>3, <1>4, <1>5, <1>6, <1>7

LEMMA HeadersAre ==
  ASSUME NEW label, IsLabel(label), NEW key, NEW name
  PROVE  /\ HeadersOf(label, key, name) \in SUBSET (1 .. Len(label)) /\ Len(label) \in Nat
         /\ IsFiniteSet(HeadersOf(label, key, name))
         /\ Cardinality(HeadersOf(label, key, name)) \in Nat
<1>1. HeadersOf(label, key, name) \in SUBSET (1 .. Len(label)) /\ Len(label) \in Nat
  BY LabelIs DEF HeadersOf
<1> QED
  BY <1>1, FinitePlaces

(* There is one header of a name and an instance, or none.                 *)
LEMMA HeaderIs ==
  ASSUME NEW label, IsLabel(label), NEW key, NEW name, NEW instance \in Nat
  PROVE  /\ HeaderOf(label, key, name, instance) \in SUBSET HeadersOf(label, key, name)
         /\ \A i, j \in HeaderOf(label, key, name, instance) : i = j
         /\ HeaderOf(label, key, name, instance) # {} <=>
              instance \in 1 .. Cardinality(HeadersOf(label, key, name))
<1> DEFINE S == HeadersOf(label, key, name)
           H == HeaderOf(label, key, name, instance)
<1>1. S \in SUBSET (1 .. Len(label)) /\ Len(label) \in Nat
  BY HeadersAre
<1>2. H = {i \in S : Cardinality(UpTo(S, i)) = instance}
  BY DEF HeaderOf
<1> HIDE DEF S, H
<1>3. H \in SUBSET S
  BY <1>2
<1>4. ASSUME NEW i \in H, NEW j \in H PROVE i = j
  <2>1. i \in S /\ j \in S /\ Cardinality(UpTo(S, i)) = Cardinality(UpTo(S, j))
    BY <1>2
  <2> QED
    BY <1>1, <2>1, CountIdentifies
<1>5. ASSUME H # {} PROVE instance \in 1 .. Cardinality(S)
  <2>1. PICK i \in S : Cardinality(UpTo(S, i)) = instance
    BY <1>2, <1>5
  <2> QED
    BY <1>1, <2>1, CountRange
<1>6. ASSUME instance \in 1 .. Cardinality(S) PROVE H # {}
  <2>1. \E i \in S : Cardinality(UpTo(S, i)) = instance
    BY <1>1, <1>6, CountIsOnto
  <2> QED
    BY <1>2, <2>1
<1> QED
  BY <1>3, <1>4, <1>5, <1>6 DEF S, H

(* The last of the tasks.                                                  *)
LastTasks(label) ==
  {j \in DOMAIN label : label[j].key = TaskKey /\ ~ IsEntry(label, FindEntry(label, j + 1, TaskKey))}

LEMMA LastTaskIs ==
  ASSUME NEW label, IsLabel(label)
  PROVE  /\ LastTasks(label) \in SUBSET (1 .. Len(label))
         /\ \A i, j \in LastTasks(label) : i = j
         /\ LastTasks(label) # {} <=> \E i \in 1 .. Len(label) : label[i].key = TaskKey
<1> DEFINE n == Len(label)
           T == {j \in 1 .. n : label[j].key = TaskKey}
<1>1. n \in Nat /\ DOMAIN label = 1 .. n
  BY LabelIs
<1>2. ASSUME NEW j \in T
      PROVE  j \in LastTasks(label) <=> \A k \in T : k <= j
  <2> DEFINE e == FindEntry(label, j + 1, TaskKey)
  <2>1. j + 1 \in 1 .. (n + 1)
    BY <1>1
  <2>2. /\ e \in (j + 1) .. (n + 1)
        /\ e <= n => label[e].key = TaskKey
        /\ \A k \in (j + 1) .. n : k < e => label[k].key # TaskKey
    BY <1>1, <2>1, EntryIs
  <2>3. j \in LastTasks(label) <=> ~(e <= n)
    BY <1>1 DEF LastTasks, IsEntry
  <2> HIDE DEF e
  <2>4. ASSUME ~(e <= n), NEW k \in T PROVE k <= j
    <3>1. k \in 1 .. n /\ label[k].key = TaskKey /\ e = n + 1
      BY <1>1, <2>1, <2>2, <2>4
    <3>2. ~(k \in (j + 1) .. n)
      BY <1>1, <2>2, <3>1
    <3> QED
      BY <1>1, <3>1, <3>2
  <2>5. ASSUME e <= n, \A k \in T : k <= j PROVE FALSE
    <3>1. e \in T /\ ~(e <= j)
      BY <1>1, <2>1, <2>2, <2>5
    <3> QED
      BY <2>5, <3>1
  <2> QED
    BY <2>3, <2>4, <2>5
<1>3. LastTasks(label) \in SUBSET T
  BY <1>1 DEF LastTasks
<1>4. ASSUME NEW i \in LastTasks(label), NEW j \in LastTasks(label) PROVE i = j
  <2>1. i <= j /\ j <= i /\ i \in Nat /\ j \in Nat
    BY <1>1, <1>2, <1>3
  <2> QED
    BY <2>1
<1>5. ASSUME T # {} PROVE LastTasks(label) # {}
  <2>1. Max(T) \in T /\ \A k \in T : Max(T) >= k
    <3>1. T \in SUBSET (1 .. n)
      OBVIOUS
    <3> HIDE DEF T
    <3> QED
      BY <1>1, <1>5, <3>1, MaxOfBounded
  <2> DEFINE m == Max(T)
  <2> HIDE DEF m
  <2>2. m \in T /\ \A k \in T : k <= m
    <3>1. m \in T /\ \A k \in T : m >= k
      BY <2>1 DEF m
    <3> QED
      BY <3>1
  <2> QED
    BY <1>2, <2>2
<1> QED
  BY <1>3, <1>4, <1>5

(* When a label has the part that a call names.                            *)
HasPart(label, of) ==
  CASE of.type = "SYSTEM" -> TRUE
    [] of.type = "PROPERTY" ->
         of.instance \in 1 .. Cardinality(HeadersOf(label, PropertyKey, of.name))
    [] of.type = "HISTORY" ->
         IF of.name # "" THEN of.instance \in 1 .. Cardinality(HeadersOf(label, TaskKey, of.name))
         ELSE \E i \in 1 .. Len(label) : label[i].key = TaskKey

PartKnown(label, of) ==
  /\ \A p, q \in FindPart(label, of) : p = q
  /\ \A p \in FindPart(label, of) : p.start \in 1 .. (Len(label) + 1) /\ p.stop \in 2 .. (Len(label) + 1)
  /\ FindPart(label, of) # {} <=> HasPart(label, of)

LEMMA SystemIs ==
  ASSUME NEW label, IsLabel(label), NEW of \in PartType, of.type = "SYSTEM"
  PROVE  PartKnown(label, of)
<1> DEFINE n == Len(label)
           p1 == FindEntry(label, 1, PropertyKey)
           p2 == FindEntry(label, 1, TaskKey)
           stop == IF IsEntry(label, p1) THEN p1 ELSE p2
<1>1. n \in Nat /\ n >= 1 /\ DOMAIN label = 1 .. n /\ 1 \in 1 .. (n + 1) /\ 1 \in 1 .. n
  BY LabelIs
<1>2. /\ p1 \in 1 .. (n + 1) /\ (p1 <= n => label[p1].key = PropertyKey)
      /\ p2 \in 1 .. (n + 1) /\ (p2 <= n => label[p2].key = TaskKey)
  BY <1>1, EntryIs
<1>3. FindPart(label, of) = {[start |-> 1, stop |-> stop]}
  BY DEF FindPart, FindSystem
<1> HIDE DEF p1, p2
<1>4. p1 # 1 /\ p2 # 1
  <2>1. label[1].key = SystemKey /\ SystemKey # PropertyKey /\ SystemKey # TaskKey
    BY <1>1, LabelIs DEF SystemKey, PropertyKey, TaskKey
  <2> QED
    BY <1>1, <1>2, <2>1
<1>5. stop \in 2 .. (n + 1)
  BY <1>1, <1>2, <1>4
<1> HIDE DEF stop
<1>6. HasPart(label, of)
  BY DEF HasPart
<1> QED
  BY <1>1, <1>3, <1>5, <1>6 DEF PartKnown

LEMMA PropertyIs ==
  ASSUME NEW label, IsLabel(label), NEW of \in PartType, of.type = "PROPERTY"
  PROVE  PartKnown(label, of)
<1> DEFINE n == Len(label)
           H == HeaderOf(label, PropertyKey, of.name, of.instance)
           stop(i) == LET next == FindEntry(label, i + 1, PropertyKey)
                      IN  IF IsEntry(label, next) THEN next ELSE FindEntry(label, i + 1, TaskKey)
<1>1. n \in Nat /\ n >= 1 /\ DOMAIN label = 1 .. n
  BY LabelIs
<1>2. of.instance \in Nat
  BY DEF PartType
<1>3. /\ H \in SUBSET (1 .. n)
      /\ \A i, j \in H : i = j
      /\ H # {} <=> of.instance \in 1 .. Cardinality(HeadersOf(label, PropertyKey, of.name))
  BY <1>2, HeaderIs, HeadersAre
<1>4. FindPart(label, of) = {[start |-> i, stop |-> stop(i)] : i \in H}
  BY DEF FindPart, FindProperty
<1> HIDE DEF H
<1>5. ASSUME NEW i \in H PROVE stop(i) \in 2 .. (n + 1)
  <2>1. i + 1 \in 1 .. (n + 1) /\ i >= 1 /\ i \in 1 .. n
    BY <1>1, <1>3
  <2>2. /\ FindEntry(label, i + 1, PropertyKey) \in (i + 1) .. (n + 1)
        /\ FindEntry(label, i + 1, TaskKey) \in (i + 1) .. (n + 1)
    BY <1>1, <2>1, EntryIs
  <2> QED
    BY <1>1, <2>1, <2>2
<1> HIDE DEF stop
<1>6. FindPart(label, of) # {} <=> H # {}
  BY <1>4
<1>7. FindPart(label, of) # {} <=> HasPart(label, of)
  BY <1>3, <1>6 DEF HasPart
<1>8. \A p \in FindPart(label, of) : p.start \in 1 .. (n + 1) /\ p.stop \in 2 .. (n + 1)
  BY <1>1, <1>3, <1>4, <1>5
<1>9. \A p, q \in FindPart(label, of) : p = q
  BY <1>3, <1>4
<1> QED
  BY <1>7, <1>8, <1>9 DEF PartKnown

LEMMA TaskIs ==
  ASSUME NEW label, IsLabel(label), NEW of \in PartType, of.type = "HISTORY"
  PROVE  PartKnown(label, of)
<1> DEFINE n == Len(label)
           H == HeaderOf(label, TaskKey, of.name, of.instance)
           L == LastTasks(label)
<1>1. n \in Nat /\ n >= 1 /\ DOMAIN label = 1 .. n
  BY LabelIs
<1>2. of.instance \in Nat
  BY DEF PartType
<1>3. CASE of.name # ""
  <2> DEFINE stop(i) == FindEntry(label, i + 1, TaskKey)
  <2>1. /\ H \in SUBSET (1 .. n)
        /\ \A i, j \in H : i = j
        /\ H # {} <=> of.instance \in 1 .. Cardinality(HeadersOf(label, TaskKey, of.name))
    BY <1>2, HeaderIs, HeadersAre
  <2>2. FindPart(label, of) = {[start |-> i, stop |-> stop(i)] : i \in H}
    BY <1>3 DEF FindPart, FindTask
  <2> HIDE DEF H
  <2>3. ASSUME NEW i \in H PROVE stop(i) \in 2 .. (n + 1)
    <3>1. i + 1 \in 1 .. (n + 1) /\ i >= 1 /\ i \in 1 .. n
      BY <1>1, <2>1
    <3>2. FindEntry(label, i + 1, TaskKey) \in (i + 1) .. (n + 1)
      BY <1>1, <3>1, EntryIs
    <3> QED
      BY <1>1, <3>1, <3>2
  <2> HIDE DEF stop
  <2>4. FindPart(label, of) # {} <=> H # {}
    BY <2>2
  <2>5. FindPart(label, of) # {} <=> HasPart(label, of)
    BY <1>3, <2>1, <2>4 DEF HasPart
  <2>6. \A p \in FindPart(label, of) : p.start \in 1 .. (n + 1) /\ p.stop \in 2 .. (n + 1)
    BY <1>1, <2>1, <2>2, <2>3
  <2>7. \A p, q \in FindPart(label, of) : p = q
    BY <2>1, <2>2
  <2> QED
    BY <2>5, <2>6, <2>7 DEF PartKnown
<1>4. CASE of.name = ""
  <2>1. /\ L \in SUBSET (1 .. n)
        /\ \A i, j \in L : i = j
        /\ L # {} <=> \E i \in 1 .. n : label[i].key = TaskKey
    BY LastTaskIs
  <2>2. FindPart(label, of) = {[start |-> i + 1, stop |-> n + 1] : i \in L}
    BY <1>4 DEF FindPart, FindTask, LastTasks
  <2> HIDE DEF L
  <2>4. FindPart(label, of) # {} <=> L # {}
    BY <2>2
  <2>5. FindPart(label, of) # {} <=> HasPart(label, of)
    BY <1>4, <2>1, <2>4 DEF HasPart
  <2>6. \A p \in FindPart(label, of) : p.start \in 1 .. (n + 1) /\ p.stop \in 2 .. (n + 1)
    BY <1>1, <2>1, <2>2
  <2>7. \A p, q \in FindPart(label, of) : p = q
    BY <2>1, <2>2
  <2> QED
    BY <2>5, <2>6, <2>7 DEF PartKnown
<1> QED
  BY <1>3, <1>4

LEMMA PartIs ==
  ASSUME NEW label, IsLabel(label), NEW of \in PartType
  PROVE  PartKnown(label, of)
<1>1. of.type \in {"SYSTEM", "PROPERTY", "HISTORY"}
  BY DEF PartType
<1> QED
  BY <1>1, SystemIs, PropertyIs, TaskIs

LEMMA FoundIs ==
  ASSUME NEW label, IsLabel(label), NEW of \in PartType, NEW key
  PROVE  /\ \A i \in Find(label, of, key) : i \in 1 .. Len(label) /\ label[i].key = key
         /\ \A i, j \in Find(label, of, key) : i = j
<1> DEFINE n == Len(label)
<1>1. n \in Nat /\ n >= 1 /\ DOMAIN label = 1 .. n
  BY LabelIs
<1>2. PartKnown(label, of)
  BY PartIs
<1>3. ASSUME NEW i \in Find(label, of, key)
      PROVE  \E p \in FindPart(label, of) :
               /\ i = FindEntry(label, p.start, key) /\ i < p.stop
  BY <1>3 DEF Find, FindKey
<1>4. ASSUME NEW i \in Find(label, of, key) PROVE i \in 1 .. n /\ label[i].key = key
  <2>1. PICK p \in FindPart(label, of) : i = FindEntry(label, p.start, key) /\ i < p.stop
    BY <1>3
  <2>2. p.start \in 1 .. (n + 1) /\ p.stop \in 2 .. (n + 1)
    BY <1>2 DEF PartKnown
  <2>3. i \in p.start .. (n + 1) /\ (i <= n => label[i].key = key)
    BY <1>1, <2>1, <2>2, EntryIs
  <2> QED
    BY <1>1, <2>1, <2>2, <2>3
<1>5. ASSUME NEW i \in Find(label, of, key), NEW j \in Find(label, of, key) PROVE i = j
  <2>1. PICK p \in FindPart(label, of) : i = FindEntry(label, p.start, key)
    BY <1>3
  <2>2. PICK q \in FindPart(label, of) : j = FindEntry(label, q.start, key)
    BY <1>3
  <2>3. p = q
    BY <1>2 DEF PartKnown
  <2> QED
    BY <2>1, <2>2, <2>3
<1> QED
  BY <1>4, <1>5

(* Edits of items leave the headers their instances.                       *)
LEMMA SameHeaders ==
  ASSUME NEW label, IsLabel(label), NEW t, IsLabel(t), NEW f,
         f \in [1 .. Len(t) -> 1 .. Len(label)],
         \A j, k \in 1 .. Len(t) : f[j] = f[k] => j = k,
         \A k \in 1 .. Len(t) : t[k].key = label[f[k]].key /\ t[k].value = label[f[k]].value,
         \A i \in 1 .. Len(label) : label[i].key \in Headers => \E k \in 1 .. Len(t) : f[k] = i,
         NEW of \in PartType
  PROVE  HasPart(label, of) <=> HasPart(t, of)
<1>0. DOMAIN label = 1 .. Len(label) /\ DOMAIN t = 1 .. Len(t)
  BY LabelIs
<1>1. ASSUME NEW key \in Headers, NEW name
      PROVE  Cardinality(HeadersOf(t, key, name)) = Cardinality(HeadersOf(label, key, name))
  <2> DEFINE S == HeadersOf(t, key, name)
             T == HeadersOf(label, key, name)
             g == [k \in S |-> f[k]]
  <2>1. S = {k \in 1 .. Len(t) : t[k].key = key /\ t[k].value = <<name>>}
    BY <1>0 DEF HeadersOf
  <2>2. T = {i \in 1 .. Len(label) : label[i].key = key /\ label[i].value = <<name>>}
    BY <1>0 DEF HeadersOf
  <2>3. IsFiniteSet(S)
    BY HeadersAre
  <2> HIDE DEF S, T
  <2>4. g \in [S -> T]
    <3> SUFFICES ASSUME NEW k \in S PROVE f[k] \in T
      OBVIOUS
    <3>1. k \in 1 .. Len(t) /\ t[k].key = key /\ t[k].value = <<name>>
      BY <2>1
    <3>2. f[k] \in 1 .. Len(label) /\ label[f[k]].key = key /\ label[f[k]].value = <<name>>
      BY <3>1
    <3> QED
      BY <2>2, <3>2
  <2>5. ASSUME NEW j \in S, NEW k \in S, g[j] = g[k] PROVE j = k
    BY <2>1, <2>5
  <2>6. ASSUME NEW i \in T PROVE \E k \in S : g[k] = i
    <3>1. i \in 1 .. Len(label) /\ label[i].key = key /\ label[i].value = <<name>>
      BY <2>2
    <3>2. PICK k \in 1 .. Len(t) : f[k] = i
      BY <3>1
    <3>3. t[k].key = key /\ t[k].value = <<name>>
      BY <3>1, <3>2
    <3>4. k \in S
      BY <2>1, <3>3
    <3> QED
      BY <3>2, <3>4
  <2>7. g \in Bijection(S, T)
    BY <2>4, <2>5, <2>6 DEF Bijection, Injection, Surjection, IsInjective
  <2>8. ExistsBijection(S, T)
    BY <2>7 DEF ExistsBijection
  <2> QED
    BY <2>3, <2>8, FS_Bijection DEF S, T
<1>2. (\E i \in 1 .. Len(label) : label[i].key = TaskKey) <=> (\E k \in 1 .. Len(t) : t[k].key = TaskKey)
  <2>1. TaskKey \in Headers
    BY DEF Headers
  <2>2. ASSUME NEW i \in 1 .. Len(label), label[i].key = TaskKey
        PROVE  \E k \in 1 .. Len(t) : t[k].key = TaskKey
    <3>1. PICK k \in 1 .. Len(t) : f[k] = i
      BY <2>1, <2>2
    <3>2. t[k].key = TaskKey
      BY <2>2, <3>1
    <3> QED
      BY <3>2
  <2>3. ASSUME NEW k \in 1 .. Len(t), t[k].key = TaskKey
        PROVE  \E i \in 1 .. Len(label) : label[i].key = TaskKey
    <3>1. f[k] \in 1 .. Len(label) /\ label[f[k]].key = TaskKey
      BY <2>3
    <3> QED
      BY <3>1
  <2> QED
    BY <2>2, <2>3
<1>3. PropertyKey \in Headers /\ TaskKey \in Headers
  BY DEF Headers
<1>4. of.type \in {"SYSTEM", "PROPERTY", "HISTORY"}
  BY DEF PartType
<1>5. CASE of.type = "SYSTEM"
  BY <1>5 DEF HasPart
<1>6. CASE of.type = "PROPERTY"
  BY <1>1, <1>3, <1>6 DEF HasPart
<1>7. CASE of.type = "HISTORY" /\ of.name # ""
  BY <1>1, <1>3, <1>7 DEF HasPart
<1>8. CASE of.type = "HISTORY" /\ of.name = ""
  BY <1>2, <1>8 DEF HasPart
<1> QED
  BY <1>4, <1>5, <1>6, <1>7, <1>8

LEMMA CutKeepsParts ==
  ASSUME NEW label, IsLabel(label), NEW i \in 1 .. Len(label), label[i].key \in Keys,
         NEW of \in PartType, HasPart(label, of)
  PROVE  HasPart(Cut(label, i), of)
<1> DEFINE n == Len(label)
           t == Cut(label, i)
           f == [k \in 1 .. Len(t) |-> IF k < i THEN k ELSE k + 1]
<1>1. label \in Seq(Element) /\ n \in Nat /\ i \in 2 .. n /\ IsLabel(t)
  BY LabelIs, CutStaysLabel
<1>2. CutKnown(label, i)
  BY <1>1, CutIs
<1>3. Len(t) = n - 1
  BY <1>2 DEF CutKnown
<1> HIDE DEF t
<1>4. f \in [1 .. Len(t) -> 1 .. n]
  BY <1>1, <1>3
<1>5. \A j, k \in 1 .. Len(t) : f[j] = f[k] => j = k
  BY <1>1, <1>3
<1>6. ASSUME NEW k \in 1 .. Len(t) PROVE t[k].key = label[f[k]].key /\ t[k].value = label[f[k]].value
  <2>1. CASE k = i - 1
    <3>1. t[k] = Before(label, i) /\ f[k] = i - 1
      BY <1>1, <1>2, <2>1 DEF CutKnown, t
    <3>2. label[i - 1] \in Element
      BY <1>1
    <3>3. Before(label, i).key = label[i - 1].key /\ Before(label, i).value = label[i - 1].value
      BY <3>2 DEF Before, Element
    <3> QED
      BY <3>1, <3>3
  <2>2. CASE k < i - 1
    <3>1. k \in 1 .. (i - 2) /\ f[k] = k
      BY <1>1, <2>2
    <3>2. t[k] = label[k]
      BY <1>2, <3>1 DEF CutKnown, t
    <3> QED
      BY <3>1, <3>2
  <2>3. CASE k > i - 1
    <3>1. k \in i .. (n - 1) /\ f[k] = k + 1
      BY <1>1, <1>3, <2>3
    <3>2. t[k] = label[k + 1]
      BY <1>2, <3>1 DEF CutKnown, t
    <3> QED
      BY <3>1, <3>2
  <2> QED
    BY <1>1, <2>1, <2>2, <2>3
<1>7. ASSUME NEW j \in 1 .. n, label[j].key \in Headers PROVE \E k \in 1 .. Len(t) : f[k] = j
  <2>1. j # i
    BY <1>7, OrdinaryKey
  <2>2. CASE j < i
    <3>1. j \in 1 .. Len(t) /\ f[j] = j
      BY <1>1, <1>3, <2>2
    <3> QED
      BY <3>1
  <2>3. CASE j > i
    <3>1. j - 1 \in 1 .. Len(t) /\ f[j - 1] = j
      BY <1>1, <1>3, <2>3
    <3> QED
      BY <3>1
  <2> QED
    BY <1>1, <2>1, <2>2, <2>3
<1> HIDE DEF f
<1>8. HasPart(label, of) <=> HasPart(t, of)
  BY <1>1, <1>4, <1>5, <1>6, <1>7, SameHeaders
<1> QED
  BY <1>8 DEF t

LEMMA RewriteKeepsParts ==
  ASSUME NEW label, IsLabel(label), NEW i \in 1 .. Len(label), label[i].key \in Keys,
         NEW value \in Seq(STRING), value # <<>>, NEW of \in PartType, HasPart(label, of)
  PROVE  HasPart(Rewritten(label, i, value), of)
<1> DEFINE n == Len(label)
           t == Rewritten(label, i, value)
<1>1. label \in Seq(Element) /\ n \in Nat /\ IsLabel(t)
  BY LabelIs, RewriteStaysLabel
<1>2. RewriteKnown(label, i, value)
  BY <1>1, RewriteIs
<1>3. Len(t) = n /\ \A k \in 1 .. n : t[k].key = label[k].key /\ (k # i => t[k] = label[k])
  BY <1>2 DEF RewriteKnown
<1>4. i \in 1 .. n /\ label[i].key \notin Headers
  BY OrdinaryKey
<1>0. DOMAIN label = 1 .. n /\ DOMAIN t = 1 .. n
  BY <1>1, <1>3, LabelIs
<1> HIDE DEF t, n
<1>5. ASSUME NEW key \in Headers, NEW name PROVE HeadersOf(t, key, name) = HeadersOf(label, key, name)
  <2>1. \A k \in 1 .. n : (t[k].key = key /\ t[k].value = <<name>>) <=>
                          (label[k].key = key /\ label[k].value = <<name>>)
    BY <1>3, <1>4
  <2> QED
    BY <1>0, <2>1 DEF HeadersOf
<1>6. PropertyKey \in Headers /\ TaskKey \in Headers
  BY DEF Headers
<1>7. of.type \in {"SYSTEM", "PROPERTY", "HISTORY"}
  BY DEF PartType
<1>8. HasPart(t, of)
  BY <1>3, <1>5, <1>6, <1>7 DEF HasPart, n
<1> QED
  BY <1>8 DEF t

-----------------------------------------------------------------------------
(* The edits of the calls, and the memory for them.                        *)

(* A label with the memory that it needs.                                  *)
Held(edit) ==
  IsLabel(edit.label) /\ edit.alloc \in Nat /\ LengthOf(edit.label) < edit.alloc

LEMMA AllocHolds ==
  ASSUME NEW alloc \in Nat, NEW length \in Nat, NEW newlen \in Nat, length < alloc
  PROVE  AllocFor(alloc, length, newlen) \in Nat /\ newlen + length < AllocFor(alloc, length, newlen)
<1>1. Extra \in Nat
  BY ConstantsAreSane
<1> QED
  BY <1>1 DEF AllocFor

LEMMA NewItemIs ==
  ASSUME NEW key \in Keys \cup Headers, NEW value \in Seq(STRING)
  PROVE  /\ NewItem(key, value) \in Element
         /\ NewItem(key, value).key = key /\ NewItem(key, value).value = value
<1>1. Blanks \in Nat
  BY DEF Blanks
<1> QED
  BY <1>1 DEF NewItem, Element

LEMMA InsertItemHolds ==
  ASSUME NEW edit, Held(edit), NEW i \in 2 .. (Len(edit.label) + 1), NEW item \in Element,
         IsLabel(Inserted(edit.label, i, item))
  PROVE  Held(InsertItem(edit, i, item))
<1> DEFINE new == InsertItem(edit, i, item)
           length == LengthOf(edit.label)
<1>1. edit.label \in Seq(Element) /\ i \in 1 .. (Len(edit.label) + 1) /\ edit.alloc \in Nat
      /\ length < edit.alloc
  BY LabelIs DEF Held
<1>2. length \in Nat /\ Size(item) \in Nat
  BY <1>1, LengthIsNat, TextLenIsNat
<1>3. new.label = Inserted(edit.label, i, item) /\ new.alloc = AllocFor(edit.alloc, length, Size(item))
  BY DEF InsertItem
<1>4. LengthOf(new.label) = length + Size(item)
  BY <1>1, <1>3, InsertIs DEF InsertKnown
<1>5. new.alloc \in Nat /\ Size(item) + length < new.alloc
  BY <1>1, <1>2, <1>3, AllocHolds
<1> HIDE DEF new, length
<1>6. LengthOf(new.label) < new.alloc
  BY <1>2, <1>4, <1>5
<1>7. IsLabel(new.label)
  BY <1>3
<1>8. Held(new)
  BY <1>5, <1>6, <1>7 DEF Held
<1> QED
  BY <1>8 DEF new

LEMMA WithIs ==
  ASSUME NEW value \in Seq(STRING), NEW at \in 0 .. Len(value), NEW new \in Seq(STRING), new # <<>>
  PROVE  With(value, at, new) \in Seq(STRING) /\ With(value, at, new) # <<>>
<1> DEFINE a == SubSeq(value, 1, at)
           b == SubSeq(value, at + 1, Len(value))
<1>1. Len(value) \in Nat /\ at \in Nat /\ at <= Len(value)
  OBVIOUS
<1>2. a \in Seq(STRING)
  <2>1. 1 \in 1 .. (Len(value) + 1) /\ 1 <= at + 1
    BY <1>1
  <2> QED
    BY <2>1, Part1
<1>3. b \in Seq(STRING)
  <2>1. at + 1 \in 1 .. (Len(value) + 1) /\ Len(value) \in 0 .. Len(value) /\ at + 1 <= Len(value) + 1
    BY <1>1
  <2> QED
    BY <2>1, Part1
<1> HIDE DEF a, b
<1>4. Len(new) > 0 /\ Len(new) \in Nat /\ Len(a) \in Nat /\ Len(b) \in Nat
  BY <1>2, <1>3
<1>5. a \o new \in Seq(STRING) /\ Len(a \o new) = Len(a) + Len(new)
  BY <1>2, Joined
<1>6. (a \o new) \o b \in Seq(STRING) /\ Len((a \o new) \o b) = Len(a \o new) + Len(b)
  BY <1>3, <1>5, Joined
<1>7. Len((a \o new) \o b) > 0
  BY <1>4, <1>5, <1>6
<1>8. With(value, at, new) = (a \o new) \o b
  BY DEF With, a, b
<1> QED
  BY <1>6, <1>7, <1>8

LEMMA WithoutIs ==
  ASSUME NEW value \in Seq(STRING), NEW first \in 0 .. (Len(value) - 1), NEW count \in Nat,
         ~(first = 0 /\ count >= Len(value))
  PROVE  Without(value, first, count) \in Seq(STRING) /\ Without(value, first, count) # <<>>
<1> DEFINE n == Len(value)
           from == first + count + 1
           a == SubSeq(value, 1, first)
           b == SubSeq(value, from, n)
<1>1. n \in Nat /\ first \in Nat /\ first < n /\ from \in Nat /\ from >= 1
  OBVIOUS
<1>2. a \in Seq(STRING) /\ Len(a) = first
  <2>1. 1 \in 1 .. (n + 1) /\ 1 <= first + 1 /\ first \in 0 .. n /\ (first - 1) + 1 = first
    BY <1>1
  <2> QED
    BY <2>1, Part1
<1>3. b \in Seq(STRING) /\ (first = 0 => Len(b) > 0)
  <2>1. CASE from <= n + 1
    <3>1. from \in 1 .. (n + 1) /\ n \in 0 .. n
      BY <1>1, <2>1
    <3>2. b \in Seq(STRING) /\ Len(b) = (n - from) + 1
      BY <2>1, <3>1, Part1
    <3>3. first = 0 => count < n /\ from = count + 1
      BY <1>1
    <3> QED
      BY <1>1, <3>2, <3>3
  <2>2. CASE from > n + 1
    <3>1. b = <<>>
      BY <1>1, <2>2
    <3>2. first # 0
      BY <1>1, <2>2
    <3> QED
      BY <3>1, <3>2
  <2> QED
    BY <1>1, <2>1, <2>2
<1> HIDE DEF a, b
<1>4. Len(a) \in Nat /\ Len(b) \in Nat
  BY <1>2, <1>3
<1>5. a \o b \in Seq(STRING) /\ Len(a \o b) = Len(a) + Len(b)
  BY <1>2, <1>3, Joined
<1>6. Len(a \o b) > 0
  BY <1>1, <1>2, <1>3, <1>4, <1>5
<1>7. Without(value, first, count) = a \o b
  BY DEF Without, a, b
<1> QED
  BY <1>5, <1>6, <1>7

LEMMA AddElementsHolds ==
  ASSUME NEW edit, Held(edit), NEW i \in 1 .. Len(edit.label), edit.label[i].key \in Keys,
         NEW first \in Nat \cup {-1}, NEW new \in Seq(STRING), new # <<>>
  PROVE  Held(AddElements(edit, i, first, new))
<1> DEFINE old == edit.label
           value == old[i].value
           at == IF first = -1 \/ first > Len(value) THEN Len(value) ELSE first
           all == With(value, at, new)
           label == Rewritten(old, i, all)
           length == LengthOf(old) - TextLen(old[i])
           added == AddElements(edit, i, first, new)
<1>1. old \in Seq(Element) /\ edit.alloc \in Nat /\ LengthOf(old) < edit.alloc /\ IsLabel(old)
  BY LabelIs DEF Held
<1>2. old[i] \in Element
  BY <1>1
<1>3. value \in Seq(STRING)
  BY <1>2 DEF Element
<1>4. at \in 0 .. Len(value)
  BY <1>3
<1>5. added = [label |-> label, alloc |-> AllocFor(edit.alloc, length, TextLen(label[i]))]
  BY DEF AddElements
<1> HIDE DEF value, at
<1>6. all \in Seq(STRING) /\ all # <<>>
  BY <1>3, <1>4, WithIs
<1> HIDE DEF all
<1>7. IsLabel(label)
  BY <1>1, <1>6, RewriteStaysLabel
<1>8. /\ LengthOf(label) = length + TextLen(label[i])
      /\ TextLen(label[i]) \in Nat /\ length \in Nat
  <2>1. RewriteKnown(old, i, all)
    BY <1>1, <1>6, RewriteIs
  <2> HIDE DEF old
  <2> QED
    BY <2>1 DEF RewriteKnown
<1>9. length < edit.alloc
  BY <1>1, <1>2, TextLenIsNat, LengthIsNat
<1> HIDE DEF label, length, old
<1>10. /\ AllocFor(edit.alloc, length, TextLen(label[i])) \in Nat
       /\ TextLen(label[i]) + length < AllocFor(edit.alloc, length, TextLen(label[i]))
  BY <1>1, <1>8, <1>9, AllocHolds
<1>11. LengthOf(label) < AllocFor(edit.alloc, length, TextLen(label[i]))
  BY <1>8, <1>10
<1>12. Held(added)
  BY <1>5, <1>7, <1>10, <1>11 DEF Held
<1> QED
  BY <1>12 DEF added

LEMMA AddItemHolds ==
  ASSUME NEW edit, Held(edit), NEW of \in PartType, HasPart(edit.label, of), NEW key \in Keys,
         NEW first \in Nat \cup {-1}, NEW new \in Seq(STRING), new # <<>>
  PROVE  Held(AddItem(edit, of, key, first, new))
<1> DEFINE found == Find(edit.label, of, key)
           added == AddItem(edit, of, key, first, new)
<1>0. IsLabel(edit.label)
  BY DEF Held
<1>1. CASE found # {}
  <2> DEFINE i == CHOOSE k \in found : TRUE
  <2>1. i \in found
    BY <1>1
  <2>2. added = AddElements(edit, i, first, new)
    BY <1>1 DEF AddItem
  <2> HIDE DEF i, added
  <2>3. i \in 1 .. Len(edit.label) /\ edit.label[i].key = key
    BY <1>0, <2>1, FoundIs
  <2>4. Held(added)
    BY <2>2, <2>3, AddElementsHolds
  <2> QED
    BY <2>4 DEF added
<1>2. CASE found = {}
  <2> DEFINE part == CHOOSE p \in FindPart(edit.label, of) : TRUE
             item == NewItem(key, new)
  <2>1. PartKnown(edit.label, of)
    BY <1>0, PartIs
  <2>2. part \in FindPart(edit.label, of)
    BY <2>1 DEF PartKnown
  <2>3. added = InsertItem(edit, part.stop, item)
    BY <1>2 DEF AddItem
  <2> HIDE DEF part
  <2>4. part.stop \in 2 .. (Len(edit.label) + 1)
    BY <2>1, <2>2 DEF PartKnown
  <2>5. item \in Element /\ item.key = key /\ item.value = new
    BY NewItemIs
  <2>6. key \notin Headers /\ key # SystemKey /\ key # PropertyKey /\ key # TaskKey
    BY OrdinaryKey
  <2> HIDE DEF item, added
  <2>7. IsLabel(Inserted(edit.label, part.stop, item))
    BY <1>0, <2>4, <2>5, <2>6, InsertStaysLabel
  <2>8. Held(added)
    BY <2>3, <2>4, <2>5, <2>7, InsertItemHolds
  <2> QED
    BY <2>8 DEF added
<1> QED
  BY <1>1, <1>2

(* A place behind the m-th item of a label, in front of the next.          *)
Behind(label, m, at) ==
  m \in 1 .. Len(label) /\ at \in StopOf(label, m) .. (StopOf(label, m) + label[m].blanks)

(* What delete_label_item leaves: a label that is not longer, in which     *)
(* what comes next is what came behind the item.                           *)
DeleteKnown(label, i, r) ==
  /\ IsLabel(r.label) /\ LengthOf(r.label) <= LengthOf(label)
  /\ \A of \in PartType : HasPart(label, of) => HasPart(r.label, of)
  /\ r.stop \in Nat
  /\ \E m \in 1 .. Len(r.label) : Behind(r.label, m, r.stop) /\ BackPart(r.label, m) = BackPart(label, i)

LEMMA StopIsBehind ==
  ASSUME NEW label \in Seq(Element), NEW i \in 1 .. Len(label)
  PROVE  Behind(label, i, StopOf(label, i)) /\ StopOf(label, i) \in Nat
<1>1. StopOf(label, i) \in Nat /\ label[i].blanks \in Nat
  BY ItemIs DEF ItemKnown
<1> QED
  BY <1>1 DEF Behind

LEMMA CutItemIs ==
  ASSUME NEW label, IsLabel(label), NEW i \in 1 .. Len(label), label[i].key \in Keys
  PROVE  DeleteKnown(label, i, CutItem(label, i))
<1> DEFINE t == Cut(label, i)
           r == CutItem(label, i)
<1>1. label \in Seq(Element) /\ i \in 2 .. Len(label) /\ IsLabel(t) /\ Len(label) \in Nat
  BY LabelIs, CutStaysLabel
<1>2. CutKnown(label, i)
  BY <1>1, CutIs
<1>3. r.label = t /\ r.stop = StartOf(label, i)
  BY DEF CutItem
<1>4. ItemKnown(label, i) /\ ItemKnown(label, i - 1) /\ (i - 1) + 1 = i /\ i - 1 \in 1 .. Len(label)
  <2>1. i - 1 \in 1 .. Len(label) /\ (i - 1) + 1 = i
    BY <1>1
  <2> QED
    BY <1>1, <2>1, ItemIs
<1>5. /\ StartOf(label, i) \in Nat /\ StopOf(label, i - 1) \in Nat /\ label[i - 1].blanks \in Nat
      /\ label[i].blanks \in Nat /\ TextLen(label[i]) \in Nat
      /\ StartOf(label, i) = StopOf(label, i - 1) + label[i - 1].blanks
  BY <1>4 DEF ItemKnown
<1>6. LengthOf(t) <= LengthOf(label)
  <2>1. LengthOf(t) = LengthOf(label) - TextLen(label[i])
    BY <1>2 DEF CutKnown
  <2>2. LengthOf(label) \in Nat
    BY <1>1, LengthIsNat
  <2> QED
    BY <1>5, <2>1, <2>2
<1>7. \A of \in PartType : HasPart(label, of) => HasPart(t, of)
  BY CutKeepsParts
<1>8. i - 1 \in 1 .. Len(t) /\ BackPart(t, i - 1) = BackPart(label, i)
      /\ StopOf(t, i - 1) = StopOf(label, i - 1) /\ t[i - 1] = Before(label, i)
  BY <1>1, <1>2 DEF CutKnown
<1>9. t[i - 1].blanks = label[i - 1].blanks + label[i].blanks
  <2>1. label[i - 1] \in Element
    BY <1>4 DEF ItemKnown
  <2> QED
    BY <1>8, <2>1 DEF Before, Element
<1> HIDE DEF t, r
<1>10. Behind(t, i - 1, StartOf(label, i))
  BY <1>5, <1>8, <1>9 DEF Behind
<1>11. DeleteKnown(label, i, r)
  BY <1>1, <1>3, <1>5, <1>6, <1>7, <1>8, <1>10 DEF DeleteKnown
<1> QED
  BY <1>11 DEF r

LEMMA DeleteItemIs ==
  ASSUME NEW label, IsLabel(label), NEW i \in 1 .. Len(label), label[i].key \in Keys,
         NEW first \in Nat \cup {-1}, NEW nelements \in Nat \cup {-1}
  PROVE  DeleteKnown(label, i, DeleteItem(label, i, first, nelements))
<1> DEFINE value == label[i].value
           n == Len(value)
           count == IF nelements = -1 THEN n ELSE nelements
           r == DeleteItem(label, i, first, nelements)
           same(done) == [label |-> label, stop |-> StopOf(label, i), done |-> done]
<1>1. label \in Seq(Element) /\ label[i] \in Element
  BY LabelIs
<1>2. value \in Seq(STRING)
  BY <1>1 DEF Element
<1>3. n \in Nat /\ count \in Nat
  BY <1>2
<1>4. ASSUME NEW done PROVE DeleteKnown(label, i, same(done))
  <2>1. same(done).label = label /\ same(done).stop = StopOf(label, i)
    OBVIOUS
  <2>2. Behind(label, i, StopOf(label, i)) /\ StopOf(label, i) \in Nat
    BY <1>1, StopIsBehind
  <2>3. LengthOf(label) \in Nat
    BY <1>1, LengthIsNat
  <2> HIDE DEF same
  <2> QED
    BY <2>1, <2>2, <2>3 DEF DeleteKnown
<1>5. CASE first = -1 \/ first >= n
  <2>1. r = same(TRUE)
    BY <1>3, <1>5 DEF DeleteItem
  <2> HIDE DEF same, r
  <2>2. DeleteKnown(label, i, r)
    BY <1>4, <2>1
  <2> QED
    BY <2>2 DEF r
<1>6. CASE first \in 0 .. (n - 1) /\ (n = 1 \/ (first = 0 /\ count >= n))
  <2>1. ~(first = -1 \/ first >= n)
    BY <1>3, <1>6
  <2>2. r = CutItem(label, i)
    BY <1>3, <1>6, <2>1 DEF DeleteItem
  <2> HIDE DEF r
  <2>3. DeleteKnown(label, i, r)
    BY <2>2, CutItemIs
  <2> QED
    BY <2>3 DEF r
<1>7. CASE ~(first = -1 \/ first >= n) /\ ~(first \in 0 .. (n - 1) /\ (n = 1 \/ (first = 0 /\ count >= n)))
  <2> DEFINE left == Without(value, first, count)
             rest == Rewritten(label, i, left)
  <2>1. first \in 0 .. (n - 1) /\ ~(first = 0 /\ count >= n)
    BY <1>3, <1>7
  <2>2. r = DeleteElements(label, i, first, count)
    BY <1>7 DEF DeleteItem
  <2>3. left \in Seq(STRING) /\ left # <<>>
    <3> HIDE DEF value, count
    <3> QED
      BY <1>2, <1>3, <2>1, WithoutIs
  <2>4. r = IF TextLen(rest[i]) > TextLen(label[i]) THEN same(FALSE)
            ELSE [label |-> rest, stop |-> StopOf(rest, i), done |-> TRUE]
    BY <2>2 DEF DeleteElements
  <2> HIDE DEF left, r, same
  <2>5. CASE TextLen(rest[i]) > TextLen(label[i])
    BY <1>4, <2>4, <2>5 DEF r
  <2>6. CASE ~(TextLen(rest[i]) > TextLen(label[i]))
    <3>1. r.label = rest /\ r.stop = StopOf(rest, i)
      BY <2>4, <2>6
    <3>2. IsLabel(rest)
      BY <2>3, RewriteStaysLabel
    <3>3. \A of \in PartType : HasPart(label, of) => HasPart(rest, of)
      BY <2>3, RewriteKeepsParts
    <3>4. RewriteKnown(label, i, left)
      BY <1>1, <2>3, RewriteIs
    <3>5. /\ rest \in Seq(Element) /\ Len(rest) = Len(label)
          /\ BackPart(rest, i) = BackPart(label, i)
          /\ LengthOf(rest) = (LengthOf(label) - TextLen(label[i])) + TextLen(rest[i])
          /\ TextLen(rest[i]) \in Nat /\ LengthOf(label) - TextLen(label[i]) \in Nat
      BY <3>4 DEF RewriteKnown
    <3>6. TextLen(label[i]) \in Nat /\ LengthOf(label) \in Nat
      BY <1>1, TextLenIsNat, LengthIsNat
    <3> HIDE DEF rest
    <3>7. LengthOf(rest) <= LengthOf(label)
      BY <2>6, <3>5, <3>6
    <3>8. i \in 1 .. Len(rest) /\ Behind(rest, i, StopOf(rest, i)) /\ StopOf(rest, i) \in Nat
      BY <3>5, StopIsBehind
    <3>9. DeleteKnown(label, i, r)
      BY <3>1, <3>2, <3>3, <3>5, <3>7, <3>8 DEF DeleteKnown
    <3> QED
      BY <3>9 DEF r
  <2> QED
    BY <2>5, <2>6
<1> QED
  BY <1>3, <1>5, <1>6, <1>7

-----------------------------------------------------------------------------
(* The inductive invariant: the label in memory is a label that fits, and  *)
(* there is none when the file is closed.                                  *)

IInv ==
  /\ TypeOK
  /\ LabelFits
  /\ op = "closed" => labels = <<>>

Calls == {"zladd", "zldel", "zlget", "zlinfo"}

RequestType ==
  [name : Calls, of : PartType, key : Keys, mode : {"ADD", "INSERT", "REPLACE"}, new : Seq(STRING),
   element : Nat \cup {-1}, nelements : Nat \cup {-1}]

LEMMA TextIs ==
  ASSUME IInv
  PROVE  /\ IsLabel(Text) /\ Alloc \in Nat /\ Held(Read)
         /\ Read.label = Text /\ Read.alloc = Alloc /\ LengthOf(Text) < Alloc
<1>1. IsLabel(file) /\ (labels = <<>> \/ IsLabel(labels)) /\ lblalloc \in Nat
      /\ (labels # <<>> => LengthOf(labels) < lblalloc)
  BY DEF IInv, TypeOK, LabelFits
<1>2. LengthOf(file) \in Nat
  BY <1>1, LabelIs, LengthIsNat
<1>3. Extra \in Nat \ {0}
  BY ConstantsAreSane
<1>4. IsLabel(Text) /\ Alloc \in Nat /\ LengthOf(Text) < Alloc
  BY <1>1, <1>2, <1>3 DEF Text, Alloc
<1>5. Read.label = Text /\ Read.alloc = Alloc
  BY DEF Read
<1> QED
  BY <1>4, <1>5 DEF Held

LEMMA FirstIs ==
  ASSUME NEW element \in Nat \cup {-1}
  PROVE  FirstOf(element, -1) \in Nat \cup {-1} /\ FirstOf(element, 0) \in Nat \cup {-1}
BY DEF FirstOf

LEMMA AllIs ==
  ASSUME NEW nelements \in Nat \cup {-1}
  PROVE  AllIfDefault(nelements) \in Nat \cup {-1}
BY DEF AllIfDefault

(* The property that zladd creates is found.                               *)
LEMMA WithPropertyHolds ==
  ASSUME IInv, NEW of \in PartType, of.type = "PROPERTY" \/ FindPart(Text, of) # {}
  PROVE  /\ Held(WithProperty(of)) /\ Named(of) \in PartType
         /\ HasPart(WithProperty(of).label, Named(of))
<1>1. IsLabel(Text) /\ Held(Read) /\ Read.label = Text
  BY TextIs
<1>2. PartKnown(Text, of)
  BY <1>1, PartIs
<1>3. CASE ~IsNewProperty(of)
  <2>1. FindPart(Text, of) # {}
    BY <1>3 DEF IsNewProperty
  <2>2. HasPart(Text, of)
    BY <1>2, <2>1 DEF PartKnown
  <2>3. WithProperty(of) = Read /\ Named(of) = of
    BY <1>3 DEF WithProperty, Named
  <2> QED
    BY <1>1, <2>2, <2>3
<1>4. CASE IsNewProperty(of)
  <2> DEFINE text == Text
             n == Len(text)
             p == FindFirstHistItem(text)
             item == NewItem(PropertyKey, <<of.name>>)
             t == Inserted(text, p, item)
             S == HeadersOf(text, PropertyKey, of.name)
             T == HeadersOf(t, PropertyKey, of.name)
             named == Named(of)
  <2>1. of.type = "PROPERTY" /\ of.name \in STRING
    BY <1>4 DEF IsNewProperty, PartType
  <2>2. /\ item \in Element /\ item.key = PropertyKey /\ item.value = <<of.name>>
    <3>1. PropertyKey \in Keys \cup Headers /\ <<of.name>> \in Seq(STRING)
      BY <2>1 DEF Headers
    <3> QED
      BY <3>1, NewItemIs
  <2>3. text \in Seq(Element) /\ n \in Nat /\ IsLabel(text)
    BY <1>1, LabelIs
  <2>4. /\ p \in 2 .. (n + 1)
        /\ \A k \in 1 .. (p - 1) : text[k].key # TaskKey
        /\ \A k \in p .. n : text[k].key # PropertyKey
    BY <2>3, FirstHistItemIs
  <2>5. PropertyKey # SystemKey /\ PropertyKey # TaskKey
    BY DEF PropertyKey, SystemKey, TaskKey
  <2>6a. <<of.name>> # <<>> /\ Len(<<of.name>>) = 1
    OBVIOUS
  <2> HIDE DEF item
  <2>6. item.value # <<>> /\ Len(item.value) = 1
    BY <2>2, <2>6a
  <2>7. IsLabel(t)
    BY <2>2, <2>3, <2>4, <2>5, <2>6, InsertStaysLabel
  <2>8. WithProperty(of) = InsertItem(Read, p, item)
    BY <1>4 DEF WithProperty, item
  <2>9. Held(WithProperty(of)) /\ WithProperty(of).label = t
    <3>1. p \in 2 .. (Len(Read.label) + 1) /\ IsLabel(Inserted(Read.label, p, item))
      BY <1>1, <2>4, <2>7
    <3>2. Held(InsertItem(Read, p, item))
      BY <1>1, <2>2, <3>1, InsertItemHolds
    <3>3. InsertItem(Read, p, item).label = t
      BY <1>1 DEF InsertItem
    <3> QED
      BY <2>8, <3>2, <3>3
  <2>10. InsertKnown(text, p, item) /\ p \in 1 .. (n + 1)
    <3>1. p \in 1 .. (n + 1)
      BY <2>3, <2>4
    <3> QED
      BY <2>2, <2>3, <3>1, InsertIs
  <2>11. /\ Len(t) = n + 1 /\ t[p] = item
         /\ \A k \in 1 .. (p - 1) : t[k] = text[k]
         /\ \A k \in p .. n : t[k + 1] = text[k]
    BY <2>10 DEF InsertKnown
  <2>12. DOMAIN t = 1 .. (n + 1) /\ DOMAIN text = 1 .. n
    BY <2>3, <2>7, <2>11, LabelIs
  <2> HIDE DEF t, text, n, p
  <2>13. T = S \cup {p} /\ p \notin S
    <3>1. S = {k \in 1 .. n : text[k].key = PropertyKey /\ text[k].value = <<of.name>>}
      BY <2>12 DEF HeadersOf
    <3>2. T = {k \in 1 .. (n + 1) : t[k].key = PropertyKey /\ t[k].value = <<of.name>>}
      BY <2>12 DEF HeadersOf
    <3> HIDE DEF S, T
    <3>3. \A k \in S : k \in 1 .. (p - 1)
      BY <2>3, <2>4, <3>1
    <3>4. p \notin S
      BY <2>4, <3>3
    <3>5. p \in T
      BY <2>2, <2>10, <2>11, <3>2
    <3>6. ASSUME NEW k \in S PROVE k \in T
      <4>1. k \in 1 .. (p - 1) /\ k \in 1 .. (n + 1) /\ t[k] = text[k]
        BY <2>3, <2>11, <3>1, <3>3
      <4> QED
        BY <3>1, <3>2, <4>1
    <3>7. ASSUME NEW k \in T, k # p PROVE k \in S
      <4>1. k \in 1 .. (n + 1)
        BY <3>2
      <4>2. CASE k < p
        <5>1. k \in 1 .. (p - 1) /\ k \in 1 .. n
          BY <2>3, <2>4, <4>1, <4>2
        <5>2. t[k] = text[k]
          BY <2>11, <5>1
        <5> QED
          BY <3>1, <3>2, <5>1, <5>2
      <4>3. CASE k > p
        <5>1. k - 1 \in p .. n /\ (k - 1) + 1 = k
          BY <2>3, <2>4, <4>1, <4>3
        <5>2. t[k].key # PropertyKey
          BY <2>4, <2>11, <5>1
        <5> QED
          BY <3>2, <5>2
      <4> QED
        BY <2>4, <3>7, <4>1, <4>2, <4>3
    <3> QED
      BY <3>4, <3>5, <3>6, <3>7
  <2>14. IsFiniteSet(S) /\ Cardinality(S) \in Nat
    BY <2>3, HeadersAre
  <2>15. Cardinality(T) = Cardinality(S) + 1
    <3> HIDE DEF S, T
    <3> QED
      BY <2>13, <2>14, FS_AddElement
  <2>16. named = [of EXCEPT !.instance = Cardinality(S) + 1]
    BY <1>4 DEF Named, text
  <2>17. named \in PartType /\ named.type = "PROPERTY" /\ named.name = of.name
         /\ named.instance = Cardinality(S) + 1
    <3> HIDE DEF S, named
    <3> QED
      BY <2>1, <2>14, <2>16 DEF PartType
  <2>18. HasPart(t, named)
    <3> HIDE DEF S, T, named
    <3>1. named.instance \in 1 .. Cardinality(T)
      BY <2>14, <2>15, <2>17
    <3> QED
      BY <2>17, <3>1 DEF HasPart, T
  <2> QED
    BY <2>9, <2>17, <2>18
<1> QED
  BY <1>3, <1>4

LEMMA ReplacedAre ==
  ASSUME IInv, NEW request \in RequestType,
         request.of.type = "PROPERTY" \/ FindPart(Text, request.of) # {},
         NEW r \in Replaced(request)
  PROVE  \E i \in 1 .. Len(WithProperty(request.of).label) :
           DeleteKnown(WithProperty(request.of).label, i, r)
<1> DEFINE label == WithProperty(request.of).label
           first == FirstOf(request.element, -1)
           count == AllIfDefault(request.nelements)
<1>1. request.of \in PartType /\ request.key \in Keys /\ first \in Nat \cup {-1} /\ count \in Nat \cup {-1}
  BY FirstIs, AllIs DEF RequestType
<1>2. IsLabel(label) /\ Named(request.of) \in PartType
  BY <1>1, WithPropertyHolds DEF Held
<1>3. PICK i \in Find(label, Named(request.of), request.key) : r = DeleteItem(label, i, first, count)
  BY DEF Replaced
<1> HIDE DEF label, first, count
<1>4. i \in 1 .. Len(label) /\ label[i].key = request.key
  BY <1>2, <1>3, FoundIs
<1>5. DeleteKnown(label, i, DeleteItem(label, i, first, count))
  BY <1>1, <1>2, <1>4, DeleteItemIs
<1> QED
  BY <1>3, <1>4, <1>5 DEF label

LEMMA AfterReplacingHolds ==
  ASSUME IInv, NEW request \in RequestType,
         request.of.type = "PROPERTY" \/ FindPart(Text, request.of) # {}
  PROVE  Held(AfterReplacing(request)) /\ HasPart(AfterReplacing(request).label, Named(request.of))
<1> DEFINE edit == WithProperty(request.of)
           after == AfterReplacing(request)
           r == CHOOSE q \in Replaced(request) : TRUE
<1>1. Held(edit) /\ Named(request.of) \in PartType /\ HasPart(edit.label, Named(request.of))
  BY WithPropertyHolds DEF RequestType
<1>0. edit = [label |-> edit.label, alloc |-> edit.alloc]
  BY DEF WithProperty, Read, InsertItem
<1>2. after = [edit EXCEPT !.label = IF Replaced(request) = {} THEN edit.label ELSE r.label]
  BY DEF AfterReplacing
<1>3. CASE Replaced(request) = {}
  <2> HIDE DEF edit, after, r
  <2>1. after = edit
    BY <1>0, <1>2, <1>3
  <2> QED
    BY <1>1, <2>1 DEF after
<1>4. CASE Replaced(request) # {}
  <2>1. r \in Replaced(request)
    BY <1>4
  <2> HIDE DEF r
  <2>2. PICK i \in 1 .. Len(edit.label) : DeleteKnown(edit.label, i, r)
    BY <2>1, ReplacedAre
  <2> HIDE DEF edit, after
  <2>3. after.label = r.label /\ after.alloc = edit.alloc
    BY <1>0, <1>2, <1>4
  <2>4. edit.label \in Seq(Element) /\ edit.alloc \in Nat /\ LengthOf(edit.label) < edit.alloc
    BY <1>1, LabelIs DEF Held
  <2>5. IsLabel(r.label) /\ LengthOf(r.label) <= LengthOf(edit.label)
        /\ HasPart(r.label, Named(request.of))
    BY <1>1, <2>2 DEF DeleteKnown
  <2>6. LengthOf(r.label) \in Nat /\ LengthOf(edit.label) \in Nat
    BY <2>4, <2>5, LabelIs, LengthIsNat
  <2>7. Held(after)
    BY <2>3, <2>4, <2>5, <2>6 DEF Held
  <2> QED
    BY <2>3, <2>5, <2>7 DEF after
<1> QED
  BY <1>3, <1>4

(* What the calls of Next ask for.                                         *)
Choosing(q, element, nelements) == [q EXCEPT !.element = element, !.nelements = nelements]

LEMMA RequestsAre ==
  ASSUME NEW names \in SUBSET Calls
  PROVE  /\ \A r \in PlainRequests(names) : r \in RequestType
         /\ \A r \in Selecting(names) : r \in RequestType
<1>0. Selecting(names) = {Choosing(r, element, nelements) :
        r \in PlainRequests(names), element \in Elements, nelements \in Counts}
  BY DEF Selecting, Choosing
<1>1. ASSUME NEW r \in PlainRequests(names) PROVE r \in RequestType
  <2>1. PICK name \in names, of \in Parts, key \in Keys : r = Request(name, of, key)
    BY DEF PlainRequests
  <2>2. of \in PartType /\ <<>> \in Seq(STRING) /\ name \in Calls
    BY ConstantsAreSane DEF PartType
  <2> QED
    BY <2>1, <2>2 DEF Request, RequestType
<1>2. ASSUME NEW r \in Selecting(names) PROVE r \in RequestType
  <2>1. PICK q \in PlainRequests(names), element \in Elements, nelements \in Counts :
          r = Choosing(q, element, nelements)
    BY <1>0
  <2>2. q \in RequestType /\ element \in Nat \cup {-1} /\ nelements \in Nat \cup {-1}
    BY <1>1, ConstantsAreSane
  <2> QED
    BY <2>1, <2>2 DEF RequestType, Choosing
<1> QED
  BY <1>1, <1>2

IsAddition(r) == r \in RequestType /\ r.new # <<>>

Asking(q, new) == [q EXCEPT !.new = new, !.nelements = Len(new)]
Inserting(q, element) == [q EXCEPT !.mode = "INSERT", !.element = element]

LEMMA AsksNew ==
  ASSUME NEW q \in RequestType, NEW new \in Seq(STRING)
  PROVE  Asking(q, new) \in RequestType /\ Asking(q, new).new = new
<1>1. Len(new) \in Nat \cup {-1}
  OBVIOUS
<1> QED
  BY <1>1 DEF RequestType, Asking

LEMMA AsksInserting ==
  ASSUME NEW q \in RequestType, NEW element \in Nat \cup {-1}
  PROVE  Inserting(q, element) \in RequestType /\ Inserting(q, element).new = q.new
BY DEF RequestType, Inserting

LEMMA AsksReplacing ==
  ASSUME NEW q \in RequestType
  PROVE  /\ [q EXCEPT !.mode = "REPLACE"] \in RequestType
         /\ [q EXCEPT !.mode = "REPLACE"].new = q.new
         /\ [q EXCEPT !.nelements = 0] \in RequestType
         /\ [q EXCEPT !.nelements = 0].new = q.new
BY DEF RequestType

LEMMA AdditionsAre ==
  \A r \in Additions : IsAddition(r)
<1> DEFINE add == {Asking(r, new) :
                     r \in PlainRequests({"zladd"}), new \in News}
           insert == {Inserting(r, element) : r \in add, element \in Elements}
           replace == {[r EXCEPT !.mode = "REPLACE"] : r \in insert}
           one == {q \in replace : Len(q.new) = 1}
           replaceAll == {[r EXCEPT !.nelements = 0] : r \in one}
<1> HIDE DEF replaceAll, one, replace, insert
<1>0. \A q \in PlainRequests({"zladd"}) : q \in RequestType
  <2>1. {"zladd"} \in SUBSET Calls
    BY DEF Calls
  <2> QED
    BY <2>1, RequestsAre
<1>1. ASSUME NEW r \in add PROVE IsAddition(r)
  <2>1. PICK q \in PlainRequests({"zladd"}), new \in News :
          r = Asking(q, new)
    BY DEF add
  <2>2. new \in Seq(STRING) /\ new # <<>>
    BY ConstantsAreSane
  <2>4. q \in RequestType
    BY <1>0
  <2>5. Asking(q, new) \in RequestType /\ Asking(q, new).new = new
    BY <2>2, <2>4, AsksNew
  <2> QED
    BY <2>1, <2>2, <2>5 DEF IsAddition
<1> HIDE DEF add
<1>2. ASSUME NEW r \in insert PROVE IsAddition(r)
  <2>1. PICK q \in add, element \in Elements : r = Inserting(q, element)
    BY DEF insert
  <2>2. IsAddition(q) /\ element \in Nat \cup {-1}
    BY <1>1, ConstantsAreSane
  <2>3. q \in RequestType
    BY <2>2 DEF IsAddition
  <2>4. Inserting(q, element) \in RequestType
        /\ Inserting(q, element).new = q.new
    BY <2>2, <2>3, AsksInserting
  <2> QED
    BY <2>1, <2>2, <2>4 DEF IsAddition
<1>3. ASSUME NEW r \in replace PROVE IsAddition(r)
  <2>1. PICK q \in insert : r = [q EXCEPT !.mode = "REPLACE"]
    BY DEF replace
  <2>2. IsAddition(q)
    BY <1>2
  <2> QED
    BY <2>1, <2>2, AsksReplacing DEF IsAddition
<1>4. ASSUME NEW r \in replaceAll PROVE IsAddition(r)
  <2>1. PICK q \in one : r = [q EXCEPT !.nelements = 0]
    BY DEF replaceAll
  <2>2. IsAddition(q)
    BY <1>3 DEF one
  <2> QED
    BY <2>1, <2>2, AsksReplacing DEF IsAddition
<1>5. Additions = add \cup insert \cup replace \cup replaceAll
  BY DEF Additions, add, insert, replace, one, replaceAll, Asking, Inserting
<1> QED
  BY <1>1, <1>2, <1>3, <1>4, <1>5

(* A label that is empty is none.                                          *)
LEMMA LabelIsSome ==
  ASSUME NEW label, IsLabel(label)
  PROVE  label # <<>>
BY DEF IsLabel

PositionType == [at : Nat, live : BOOLEAN]

LEMMA PlaceIs ==
  ASSUME NEW at \in Nat
  PROVE  Place(at) \in PositionType /\ NoPosition \in PositionType
BY DEF Place, PositionType, NoPosition

(* A call that edits keeps the invariant when what it makes is a label that*)
(* fits in its memory.                                                     *)
LEMMA EditStep ==
  ASSUME IInv, op = "UPDATE", NEW edit, Held(edit), NEW request, NEW status,
         Edits(request, status, edit), position' \in PositionType, modified' \in BOOLEAN
  PROVE  IInv'
<1>1. /\ labels' = edit.label /\ lblalloc' = edit.alloc /\ file' = file /\ op' = "UPDATE"
  BY DEF Edits
<1>2. IsLabel(edit.label) /\ edit.alloc \in Nat /\ LengthOf(edit.label) < edit.alloc
      /\ edit.label # <<>>
  BY LabelIsSome DEF Held
<1>3. IsLabel(file')
  BY <1>1 DEF IInv, TypeOK
<1>4. IsLabel(labels') /\ labels' # <<>>
  BY <1>1, <1>2
<1>5. TypeOK'
  BY <1>1, <1>2, <1>3, <1>4 DEF TypeOK, PositionType
<1>6. LabelFits'
  BY <1>1, <1>2 DEF LabelFits
<1> QED
  BY <1>1, <1>5, <1>6 DEF IInv

(* So does one that fails half-way.                                        *)
LEMMA FailsStep ==
  ASSUME IInv, op = "UPDATE", NEW edit, Held(edit), NEW request, NEW status,
         Fails(request, status, edit)
  PROVE  IInv'
<1>1. position' \in PositionType
  BY DEF Fails, IInv, TypeOK, PositionType
<1>2. modified' \in BOOLEAN /\ Edits(request, status, edit)
  BY DEF Fails, IInv, TypeOK
<1> QED
  BY <1>1, <1>2, EditStep

(* And one that only reads.                                                *)
LEMMA ReadInStep ==
  ASSUME IInv, IsOpen, ReadIn, UNCHANGED <<file, op, modified>>, position' \in PositionType
  PROVE  IInv'
<1>1. IsLabel(Text) /\ Alloc \in Nat /\ LengthOf(Text) < Alloc /\ Text # <<>>
  BY TextIs, LabelIsSome
<1>2. labels' = Text /\ lblalloc' = Alloc
  BY DEF ReadIn
<1>3. IsLabel(file') /\ IsLabel(labels') /\ labels' # <<>>
  BY <1>1, <1>2 DEF IInv, TypeOK
<1>4. TypeOK'
  BY <1>1, <1>2, <1>3 DEF IInv, TypeOK, PositionType
<1>5. LabelFits'
  BY <1>1, <1>2 DEF LabelFits
<1>6. op' # "closed"
  BY DEF IsOpen
<1> QED
  BY <1>4, <1>5, <1>6 DEF IInv

LEMMA RefusedStep ==
  ASSUME IInv, IsOpen, NEW request, NEW status, Refused(request, status)
  PROVE  IInv'
<1>1. ReadIn /\ UNCHANGED <<file, op, modified>> /\ position' \in PositionType
  BY DEF Refused, IInv, TypeOK, PositionType
<1> QED
  BY <1>1, ReadInStep

LEMMA OpenHolds ==
  ASSUME IInv, NEW mode \in {"READ", "UPDATE"}, NEW program \in Programs, ZvOpen(mode, program)
  PROVE  IInv'
<1> DEFINE item == NewItem(TaskKey, <<program>>)
           task == InsertItem(Read, Len(file) + 1, item)
<1>1. Text = file /\ labels = <<>>
  BY DEF ZvOpen, IsOpen, IInv, Text
<1>2. op' = mode /\ file' = file /\ position' = position
  BY DEF ZvOpen
<1>3. CASE UNCHANGED <<labels, lblalloc, modified>>
  BY <1>2, <1>3 DEF IInv, TypeOK, LabelFits
<1>4. CASE /\ labels' = task.label
           /\ lblalloc' = task.alloc
           /\ modified' = TRUE
  <2>1. item \in Element /\ item.key = TaskKey /\ item.value = <<program>>
    <3>1. TaskKey \in Keys \cup Headers /\ <<program>> \in Seq(STRING)
      BY ConstantsAreSane DEF Headers
    <3> QED
      BY <3>1, NewItemIs
  <2>2. <<program>> # <<>> /\ Len(<<program>>) = 1 /\ TaskKey # SystemKey /\ TaskKey # PropertyKey
    BY DEF TaskKey, SystemKey, PropertyKey
  <2> HIDE DEF item
  <2>3. item.value # <<>> /\ Len(item.value) = 1
    BY <2>1, <2>2
  <2>4. Held(Read) /\ Read.label = file /\ IsLabel(file) /\ Len(file) \in Nat /\ Len(file) >= 1
    BY <1>1, TextIs, LabelIs
  <2>5. Len(file) + 1 \in 2 .. (Len(file) + 1)
    BY <2>4
  <2>6. IsLabel(Inserted(file, Len(file) + 1, item))
    <3>1. \A k \in (Len(file) + 1) .. Len(file) : file[k].key # PropertyKey
      BY <2>4
    <3> QED
      BY <2>1, <2>2, <2>3, <2>4, <2>5, <3>1, InsertStaysLabel
  <2>7. Held(task)
    BY <2>1, <2>4, <2>5, <2>6, InsertItemHolds
  <2> HIDE DEF task
  <2>8. IsLabel(labels') /\ lblalloc' \in Nat /\ LengthOf(labels') < lblalloc' /\ labels' # <<>>
    BY <1>4, <2>7, LabelIsSome DEF Held
  <2>9. TypeOK'
    BY <1>2, <1>4, <2>8 DEF IInv, TypeOK
  <2>10. LabelFits' /\ op' # "closed"
    BY <1>2, <2>8 DEF LabelFits
  <2> QED
    BY <2>9, <2>10 DEF IInv
<1> HIDE DEF task
<1>5. UNCHANGED <<labels, lblalloc, modified>> \/ (labels' = task.label /\ lblalloc' = task.alloc /\ modified' = TRUE)
  BY DEF ZvOpen, task
<1> QED
  BY <1>3, <1>4, <1>5 DEF task

LEMMA CloseHolds ==
  ASSUME IInv, ZvClose
  PROVE  IInv'
<1>1. IsLabel(file')
  BY DEF ZvClose, IInv, TypeOK
<1>2. TypeOK' /\ LabelFits'
  BY <1>1, PlaceIs DEF ZvClose, TypeOK, LabelFits, PositionType
<1> QED
  BY <1>2 DEF ZvClose, IInv

LEMMA GetsHolds ==
  ASSUME IInv, NEW request \in RequestType, Gets(request)
  PROVE  IInv'
<1>1. PICK i \in Find(Text, request.of, request.key) : PositionAt(Text, i)
  BY DEF Gets
<1>2. request.of \in PartType
  BY DEF RequestType
<1>3. IsLabel(Text)
  BY TextIs
<1>4. i \in 1 .. Len(Text) /\ Text \in Seq(Element)
  BY <1>2, <1>3, FoundIs, LabelIs
<1>5. StopOf(Text, i) \in Nat
  BY <1>4, StopIsBehind
<1>6. position' \in PositionType
  BY <1>1, <1>5, PlaceIs DEF PositionAt
<1> QED
  BY <1>6, ReadInStep DEF Gets

(* zlninfo goes on with an item of the label.                              *)
LEMMA NextIs ==
  ASSUME IInv
  PROVE  /\ Text \in Seq(Element) /\ Len(Text) \in Nat
         /\ NextItem \in 1 .. (Len(Text) + 1)
         /\ Rest # <<>> => NextItem \in 1 .. Len(Text)
<1>1. Text \in Seq(Element) /\ Len(Text) \in Nat /\ DOMAIN Text = 1 .. Len(Text)
  BY TextIs, LabelIs
<1> DEFINE S == {Len(Text) + 1} \cup {i \in DOMAIN Text : StartOf(Text, i) >= position.at}
<1>2. S \in SUBSET Nat /\ S # {} /\ S \in SUBSET (1 .. (Len(Text) + 1))
  BY <1>1
<1> HIDE DEF S
<1>3. Min(S) \in S
  BY <1>2, MinOfNats
<1>4. NextItem \in 1 .. (Len(Text) + 1)
  BY <1>2, <1>3 DEF NextItem, S
<1>5. NextItem = Len(Text) + 1 => Rest = <<>>
  <2> SUFFICES ASSUME NextItem = Len(Text) + 1 PROVE Rest = <<>>
    OBVIOUS
  <2>1. Rest = SubSeq(Text, Len(Text) + 1, Len(Text))
    BY DEF Rest
  <2> QED
    BY <1>1, <2>1
<1> QED
  BY <1>1, <1>4, <1>5

LEMMA NInfoHolds ==
  ASSUME IInv, ZlNInfo
  PROVE  IInv'
<1>1. Text \in Seq(Element) /\ (Rest # <<>> => NextItem \in 1 .. Len(Text))
  BY NextIs
<1>2. CASE UNCHANGED position
  <2>1. position' \in PositionType
    BY <1>2 DEF IInv, TypeOK, PositionType
  <2> QED
    BY <2>1, ReadInStep DEF ZlNInfo
<1>3. CASE Rest # <<>> /\ PositionAt(Text, NextItem)
  <2>1. StopOf(Text, NextItem) \in Nat
    BY <1>1, <1>3, StopIsBehind
  <2>2. position' \in PositionType
    BY <1>3, <2>1, PlaceIs DEF PositionAt
  <2> QED
    BY <2>2, ReadInStep DEF ZlNInfo
<1> QED
  BY <1>2, <1>3 DEF ZlNInfo

(* What is left when the memory for a longer label is wanting.             *)
LEMMA LostHolds ==
  ASSUME NEW edit, Held(edit), edit = [label |-> edit.label, alloc |-> edit.alloc],
         NEW i \in 1 .. Len(edit.label), edit.label[i].key \in Keys
  PROVE  Held([edit EXCEPT !.label = Cut(edit.label, i)])
<1> DEFINE label == edit.label
           lost == [edit EXCEPT !.label = Cut(edit.label, i)]
<1>1. lost.label = Cut(label, i) /\ lost.alloc = edit.alloc
  OBVIOUS
<1>2. IsLabel(label) /\ edit.alloc \in Nat /\ LengthOf(label) < edit.alloc
  BY DEF Held
<1> HIDE DEF label, lost
<1>3. IsLabel(Cut(label, i)) /\ i \in 2 .. Len(label)
  BY <1>2, CutStaysLabel DEF label
<1>4. label \in Seq(Element)
  BY <1>2, LabelIs
<1>5. CutKnown(label, i) /\ ItemKnown(label, i)
  <2>1. i \in 1 .. Len(label)
    BY DEF label
  <2> QED
    BY <1>3, <1>4, <2>1, CutIs, ItemIs
<1>6. LengthOf(Cut(label, i)) = LengthOf(label) - TextLen(label[i]) /\ TextLen(label[i]) \in Nat
  BY <1>5 DEF CutKnown, ItemKnown
<1>7. LengthOf(label) \in Nat
  BY <1>4, LengthIsNat
<1>8. LengthOf(Cut(label, i)) < edit.alloc
  BY <1>2, <1>6, <1>7
<1> QED
  BY <1>1, <1>2, <1>3, <1>8 DEF Held, lost

Added(request) ==
  AddItem(AfterReplacing(request), Named(request.of), request.key, FirstOf(request.element, -1), request.new)

Old(request) == Find(AfterReplacing(request).label, Named(request.of), request.key)

Lost(request) ==
  [AfterReplacing(request) EXCEPT !.label =
     IF Old(request) = {} THEN @ ELSE Cut(@, CHOOSE i \in Old(request) : TRUE)]

LEMMA AddOutcomes ==
  ASSUME IInv, NEW request, IsAddition(request), Adds(request)
  PROVE  /\ Named(request.of) \in PartType
         /\ Held(AfterReplacing(request)) /\ Held(Added(request)) /\ Held(Lost(request))
<1> DEFINE of == Named(request.of)
           edit == AfterReplacing(request)
           first == FirstOf(request.element, -1)
<1>1. /\ request \in RequestType /\ request.new \in Seq(STRING) /\ request.new # <<>>
      /\ request.of \in PartType /\ request.key \in Keys /\ request.element \in Nat \cup {-1}
  BY DEF IsAddition, RequestType
<1>2. request.of.type = "PROPERTY" \/ FindPart(Text, request.of) # {}
  BY DEF Adds
<1>3. of \in PartType
  BY <1>1, <1>2, WithPropertyHolds
<1>4. Held(edit) /\ HasPart(edit.label, of)
  BY <1>1, <1>2, AfterReplacingHolds
<1>5. edit = [label |-> edit.label, alloc |-> edit.alloc]
  BY DEF AfterReplacing, WithProperty, Read, InsertItem
<1>6. first \in Nat \cup {-1}
  BY <1>1, FirstIs
<1> HIDE DEF of, edit, first
<1>7. Held(AddItem(edit, of, request.key, first, request.new))
  BY <1>1, <1>3, <1>4, <1>6, AddItemHolds
<1>8. Held(Lost(request))
  <2> DEFINE old == Old(request)
             i == CHOOSE j \in old : TRUE
  <2>1. Lost(request) = [edit EXCEPT !.label = IF old = {} THEN edit.label ELSE Cut(edit.label, i)]
    BY DEF Lost, edit
  <2>2. CASE old = {}
    <3> HIDE DEF old, i
    <3>1. Lost(request) = edit
      BY <1>5, <2>1, <2>2
    <3> QED
      BY <1>4, <3>1
  <2>3. CASE old # {}
    <3>1. i \in old
      BY <2>3
    <3>2. i \in Find(edit.label, of, request.key)
      BY <3>1 DEF Old, edit, of
    <3> HIDE DEF old, i
    <3>3. IsLabel(edit.label)
      BY <1>4 DEF Held
    <3>4. i \in 1 .. Len(edit.label) /\ edit.label[i].key \in Keys
      BY <1>1, <1>3, <3>2, <3>3, FoundIs
    <3>5. Held([edit EXCEPT !.label = Cut(edit.label, i)])
      BY <1>4, <1>5, <3>4, LostHolds
    <3>6. Lost(request) = [edit EXCEPT !.label = Cut(edit.label, i)]
      BY <2>1, <2>3
    <3> QED
      BY <3>5, <3>6
  <2> QED
    BY <2>2, <2>3
<1> QED
  BY <1>3, <1>4, <1>7, <1>8 DEF of, edit, first, Added

(* What zladd comes to.                                                    *)
LEMMA AddIs ==
  ASSUME NEW request, ZlAdd(request)
  PROVE  /\ Adds(request)
         /\ \/ /\ Edits(request, "SUCCESS", Added(request))
               /\ modified' = TRUE
               /\ \E i \in Find(Added(request).label, Named(request.of), request.key) :
                    PositionAt(Added(request).label, i)
            \/ Fails(request, "IMPROPER_LENGTH", AfterReplacing(request))
            \/ Fails(request, "NO_MEMORY_FOR_LABEL_PROCESS", Lost(request))
<1>1. Adds(request)
  BY DEF ZlAdd, MayAdd
<1>2. {"none"} \cup (Failures \ {"argument"}) \subseteq {"none", "length", "memory"}
  BY ConstantsAreSane
<1>3. \E failure \in {"none", "length", "memory"} :
         CASE failure = "none" ->
                /\ Edits(request, "SUCCESS", Added(request))
                /\ modified' = TRUE
                /\ \E i \in Find(Added(request).label, Named(request.of), request.key) :
                     PositionAt(Added(request).label, i)
           [] failure = "length" ->
                Len(request.new) > 1 /\ Fails(request, "IMPROPER_LENGTH", AfterReplacing(request))
           [] failure = "memory" ->
                Added(request).alloc # AfterReplacing(request).alloc
                /\ Fails(request, "NO_MEMORY_FOR_LABEL_PROCESS", Lost(request))
  BY <1>2 DEF ZlAdd, Added, Lost, Old
<1> QED
  BY <1>1, <1>3

LEMMA AddHolds ==
  ASSUME IInv, NEW request, IsAddition(request), ZlAdd(request)
  PROVE  IInv'
<1>1. Adds(request)
  BY AddIs
<1>2. /\ Named(request.of) \in PartType
      /\ Held(AfterReplacing(request)) /\ Held(Added(request)) /\ Held(Lost(request))
  BY <1>1, AddOutcomes
<1>3. op = "UPDATE"
  BY <1>1 DEF Adds
<1>4. CASE /\ Edits(request, "SUCCESS", Added(request))
           /\ modified' = TRUE
           /\ \E i \in Find(Added(request).label, Named(request.of), request.key) :
                PositionAt(Added(request).label, i)
  <2> DEFINE label == Added(request).label
  <2>1. PICK i \in Find(label, Named(request.of), request.key) : PositionAt(label, i)
    BY <1>4
  <2>2. IsLabel(label)
    BY <1>2 DEF Held
  <2> HIDE DEF label
  <2>3. i \in 1 .. Len(label) /\ label \in Seq(Element)
    BY <1>2, <2>1, <2>2, FoundIs, LabelIs
  <2>4. StopOf(label, i) \in Nat
    BY <2>3, StopIsBehind
  <2>5. position' \in PositionType
    BY <2>1, <2>4, PlaceIs DEF PositionAt
  <2> QED
    BY <1>2, <1>3, <1>4, <2>5, EditStep
<1>5. CASE Fails(request, "IMPROPER_LENGTH", AfterReplacing(request))
  BY <1>2, <1>3, <1>5, FailsStep
<1>6. CASE Fails(request, "NO_MEMORY_FOR_LABEL_PROCESS", Lost(request))
  BY <1>2, <1>3, <1>6, FailsStep
<1> QED
  BY <1>4, <1>5, <1>6, AddIs

Deletion(request, i) ==
  DeleteItem(Text, i, FirstOf(request.element, 0), AllIfDefault(request.nelements))

(* What zldel comes to.                                                    *)
LEMMA DelIs ==
  ASSUME IInv, NEW request \in RequestType, ZlDel(request)
  PROVE  \E i \in Find(Text, request.of, request.key) :
           /\ i \in 1 .. Len(Text) /\ DeleteKnown(Text, i, Deletion(request, i))
           /\ Held([Read EXCEPT !.label = Deletion(request, i).label])
           /\ \/ Refused(request, "FAILURE")
              \/ /\ Edits(request, "SUCCESS", [Read EXCEPT !.label = Deletion(request, i).label])
                 /\ modified' = TRUE
                 /\ position' = Place(Deletion(request, i).stop)
<1>1. PICK i \in Find(Text, request.of, request.key) :
             \/ Refused(request, "FAILURE")
             \/ /\ Edits(request, "SUCCESS", [Read EXCEPT !.label = Deletion(request, i).label])
                /\ modified' = TRUE
                /\ position' = Place(Deletion(request, i).stop)
  BY DEF ZlDel, Deletion
<1>2. /\ request.of \in PartType /\ request.key \in Keys
      /\ request.element \in Nat \cup {-1} /\ request.nelements \in Nat \cup {-1}
  BY DEF RequestType
<1>3. IsLabel(Text) /\ Held(Read) /\ Read.label = Text /\ Read.alloc = Alloc
      /\ Alloc \in Nat /\ LengthOf(Text) < Alloc
  BY TextIs
<1>4. i \in 1 .. Len(Text) /\ Text[i].key \in Keys
  BY <1>2, <1>3, FoundIs
<1>5. FirstOf(request.element, 0) \in Nat \cup {-1} /\ AllIfDefault(request.nelements) \in Nat \cup {-1}
  BY <1>2, FirstIs, AllIs
<1>6. DeleteKnown(Text, i, Deletion(request, i))
  BY <1>3, <1>4, <1>5, DeleteItemIs DEF Deletion
<1>7. Held([Read EXCEPT !.label = Deletion(request, i).label])
  <2> DEFINE label == Deletion(request, i).label
             edit == [Read EXCEPT !.label = label]
  <2>1. edit.label = label /\ edit.alloc = Alloc
    BY DEF Read
  <2>2. IsLabel(label) /\ LengthOf(label) <= LengthOf(Text)
    BY <1>6 DEF DeleteKnown
  <2>3. LengthOf(label) \in Nat /\ LengthOf(Text) \in Nat
    BY <1>3, <2>2, LabelIs, LengthIsNat
  <2> HIDE DEF label, edit
  <2>4. LengthOf(label) < Alloc
    BY <1>3, <2>2, <2>3
  <2>5. Held(edit)
    BY <1>3, <2>1, <2>2, <2>4 DEF Held
  <2> QED
    BY <2>5 DEF edit, label
<1> QED
  BY <1>1, <1>4, <1>6, <1>7

LEMMA DelHolds ==
  ASSUME IInv, NEW request \in RequestType, ZlDel(request)
  PROVE  IInv'
<1>1. PICK i \in Find(Text, request.of, request.key) :
        /\ DeleteKnown(Text, i, Deletion(request, i))
        /\ Held([Read EXCEPT !.label = Deletion(request, i).label])
        /\ \/ Refused(request, "FAILURE")
           \/ /\ Edits(request, "SUCCESS", [Read EXCEPT !.label = Deletion(request, i).label])
              /\ modified' = TRUE
              /\ position' = Place(Deletion(request, i).stop)
  BY DelIs
<1>2. op = "UPDATE"
  BY DEF ZlDel
<1>3. CASE Refused(request, "FAILURE")
  BY <1>2, <1>3, RefusedStep DEF IsOpen
<1>4. CASE /\ Edits(request, "SUCCESS", [Read EXCEPT !.label = Deletion(request, i).label])
           /\ modified' = TRUE
           /\ position' = Place(Deletion(request, i).stop)
  <2>1. Deletion(request, i).stop \in Nat
    BY <1>1 DEF DeleteKnown
  <2>2. position' \in PositionType /\ modified' \in BOOLEAN
    BY <1>4, <2>1, PlaceIs
  <2> QED
    BY <1>1, <1>2, <1>4, <2>2, EditStep
<1> QED
  BY <1>1, <1>3, <1>4

Refusals ==
  {"NO_TASKS_IN_LABEL", "NO_SUCH_TASK", "NO_SUCH_PROPERTY", "CANNOT_FIND_KEY", "DUPLICATE_KEY", "FAILURE"}

(* The steps, with what is known of the requests.                          *)
LEMMA Steps ==
  ASSUME Next
  PROVE  \/ \E mode \in {"READ", "UPDATE"}, program \in Programs : ZvOpen(mode, program)
         \/ ZvClose
         \/ ZlNInfo
         \/ ListsNames("zlhinfo", TaskKey) \/ ListsNames("zlpinfo", PropertyKey)
         \/ \E request \in RequestType : ModifiesAnInput(request)
         \/ \E request \in RequestType, status \in Refusals : IsOpen /\ Refused(request, status)
         \/ \E request \in RequestType : Gets(request)
         \/ \E request \in RequestType : AddLacksArgument(request)
         \/ \E request : IsAddition(request) /\ ZlAdd(request)
         \/ \E request \in RequestType : ZlDel(request)
<1>1. /\ \A request \in PlainRequests({"zladd", "zldel", "zlget", "zlinfo"}) : request \in RequestType
      /\ \A request \in PlainRequests({"zlinfo"}) : request \in RequestType
      /\ \A request \in PlainRequests({"zladd"}) : request \in RequestType
      /\ \A request \in Selecting({"zlget"}) : request \in RequestType
      /\ \A request \in Selecting({"zldel"}) : request \in RequestType
  <2>1. /\ {"zladd", "zldel", "zlget", "zlinfo"} \in SUBSET Calls
        /\ {"zlinfo"} \in SUBSET Calls /\ {"zladd"} \in SUBSET Calls
        /\ {"zlget"} \in SUBSET Calls /\ {"zldel"} \in SUBSET Calls
    BY DEF Calls
  <2> QED
    BY <2>1, RequestsAre
<1>2. ASSUME NEW request \in RequestType,
             FindsNoPart(request) \/ FindsNoKey(request) \/ AddFindsDuplicate(request) \/ CannotReplace(request)
      PROVE  \E status \in Refusals : IsOpen /\ Refused(request, status)
  <2>1. IsOpen
    BY <1>2 DEF FindsNoPart, FindsNoKey, AddFindsDuplicate, CannotReplace, MayCall, MayAdd, Adds, IsOpen
  <2>2. \/ Refused(request, "NO_TASKS_IN_LABEL") \/ Refused(request, "NO_SUCH_TASK")
        \/ Refused(request, "NO_SUCH_PROPERTY") \/ Refused(request, "CANNOT_FIND_KEY")
        \/ Refused(request, "DUPLICATE_KEY") \/ Refused(request, "FAILURE")
    BY <1>2 DEF FindsNoPart, FindsNoKey, AddFindsDuplicate, CannotReplace
  <2> QED
    BY <2>1, <2>2 DEF Refusals
<1>3. \A request \in Additions : IsAddition(request) /\ request \in RequestType
  BY AdditionsAre DEF IsAddition
<1>4. CASE \E request \in PlainRequests({"zladd", "zldel", "zlget", "zlinfo"}) :
             ModifiesAnInput(request) \/ FindsNoPart(request) \/ FindsNoKey(request)
  BY <1>1, <1>2, <1>4
<1>5. CASE \E request \in PlainRequests({"zlinfo"}) \cup Selecting({"zlget"}) : Gets(request)
  BY <1>1, <1>5
<1>6. CASE \E request \in PlainRequests({"zladd"}) : AddLacksArgument(request)
  BY <1>1, <1>6
<1>7. CASE \E request \in Additions :
             AddFindsDuplicate(request) \/ CannotReplace(request) \/ ZlAdd(request)
  BY <1>2, <1>3, <1>7
<1>8. CASE \E request \in Selecting({"zldel"}) : ZlDel(request)
  BY <1>1, <1>8
<1> QED
  BY <1>4, <1>5, <1>6, <1>7, <1>8 DEF Next

LEMMA IInvInit == Init => IInv
<1> SUFFICES ASSUME Init PROVE IInv
  OBVIOUS
<1>1. IsLabel(file)
  BY ConstantsAreSane DEF Init
<1>2. NoPosition \in PositionType
  BY DEF NoPosition, PositionType
<1> QED
  BY <1>1, <1>2 DEF Init, IInv, TypeOK, LabelFits, PositionType

LEMMA IInvNext == IInv /\ [Next]_vars => IInv'
<1> SUFFICES ASSUME IInv, [Next]_vars PROVE IInv'
  OBVIOUS
<1>1. CASE UNCHANGED vars
  BY <1>1 DEF vars, IInv, TypeOK, LabelFits
<1>2. ASSUME NEW mode \in {"READ", "UPDATE"}, NEW program \in Programs, ZvOpen(mode, program)
      PROVE  IInv'
  BY <1>2, OpenHolds
<1>3. CASE ZvClose
  BY <1>3, CloseHolds
<1>4. CASE ZlNInfo
  BY <1>4, NInfoHolds
<1>5. ASSUME NEW name, NEW key, ListsNames(name, key) PROVE IInv'
  <2>1. IsOpen /\ ReadIn /\ UNCHANGED <<file, op, modified>> /\ position' \in PositionType
    BY <1>5 DEF ListsNames, IInv, TypeOK, PositionType
  <2> QED
    BY <2>1, ReadInStep
<1>6. ASSUME NEW request \in RequestType, ModifiesAnInput(request) PROVE IInv'
  BY <1>6 DEF ModifiesAnInput, IInv, TypeOK, LabelFits
<1>7. ASSUME NEW request \in RequestType, NEW status, IsOpen, Refused(request, status) PROVE IInv'
  BY <1>7, RefusedStep
<1>8. ASSUME NEW request \in RequestType, Gets(request) PROVE IInv'
  BY <1>8, GetsHolds
<1>9. ASSUME NEW request \in RequestType, AddLacksArgument(request) PROVE IInv'
  <2>1. Adds(request) /\ Fails(request, "FORMAT_OPTIONAL_REQUIRED", WithProperty(request.of))
    BY <1>9 DEF AddLacksArgument
  <2>2. request.of \in PartType /\ (request.of.type = "PROPERTY" \/ FindPart(Text, request.of) # {})
        /\ op = "UPDATE"
    BY <2>1 DEF RequestType, Adds
  <2>3. Held(WithProperty(request.of))
    BY <2>2, WithPropertyHolds
  <2> QED
    BY <2>1, <2>2, <2>3, FailsStep
<1>10. ASSUME NEW request, IsAddition(request), ZlAdd(request) PROVE IInv'
  BY <1>10, AddHolds
<1>11. ASSUME NEW request \in RequestType, ZlDel(request) PROVE IInv'
  BY <1>11, DelHolds
<1>12. CASE Next
  BY <1>2, <1>3, <1>4, <1>5, <1>6, <1>7, <1>8, <1>9, <1>10, <1>11, <1>12, Steps
<1> QED
  BY <1>1, <1>12

(* The label stays one that fits, however it is edited.                    *)
THEOREM Invariance == Spec => []IInv
<1>1. Init => IInv
  BY IInvInit
<1>2. IInv /\ [Next]_vars => IInv'
  BY IInvNext
<1> QED
  BY <1>1, <1>2, PTL DEF Spec

(* The file always holds a label, and memory one or none.                  *)
THEOREM TypeCorrect == Spec => []TypeOK
<1>1. IInv => TypeOK
  BY DEF IInv
<1> QED
  BY <1>1, Invariance, PTL

(* The label and its terminator fit in memory, however calls have edited it*)
(* or failed.                                                              *)
THEOREM NothingOverflows == Spec => []LabelFits
<1>1. IInv => LabelFits
  BY DEF IInv
<1> QED
  BY <1>1, Invariance, PTL

-----------------------------------------------------------------------------
(* POSITION.                                                               *)

LEMMA TextStays ==
  ASSUME IInv, ReadIn, file' = file
  PROVE  Text' = Text /\ labels' # <<>>
<1>1. Text # <<>>
  BY TextIs, LabelIsSome
<1>2. labels' = Text
  BY DEF ReadIn
<1> QED
  BY <1>1, <1>2 DEF Text

LEMMA PositionKept ==
  ASSUME IInv, ReadIn, UNCHANGED <<file, position>>, PositionIsGood
  PROVE  PositionIsGood'
<1>1. Text' = Text /\ labels' # <<>>
  BY TextStays
<1>2. CASE position = NoPosition
  BY <1>2 DEF PositionIsGood
<1>3. CASE position.live /\ Between(position.at)
  <2>1. Between(position.at)'
    BY <1>1, <1>3 DEF Between
  <2> QED
    BY <1>1, <1>3, <2>1 DEF PositionIsGood
<1> QED
  BY <1>2, <1>3 DEF PositionIsGood

LEMMA PositionMoved ==
  ASSUME NEW label, IsLabel(label), labels' = label,
         NEW m, NEW at, Behind(label, m, at), position' = Place(at)
  PROVE  PositionIsGood'
<1>1. label # <<>> /\ DOMAIN label = 1 .. Len(label)
  BY LabelIsSome, LabelIs
<1>2. Text' = label
  BY <1>1 DEF Text
<1>3. position'.live /\ position'.at = at
  BY DEF Place
<1>4. m \in DOMAIN label /\ at \in StopOf(label, m) .. (StopOf(label, m) + label[m].blanks)
  BY <1>1 DEF Behind
<1>5. Between(position.at)'
  BY <1>2, <1>3, <1>4 DEF Between
<1> QED
  BY <1>1, <1>3, <1>5 DEF PositionIsGood

LEMMA PositionAtItem ==
  ASSUME NEW label, IsLabel(label), labels' = label, NEW i \in 1 .. Len(label), PositionAt(label, i)
  PROVE  PositionIsGood'
<1>1. Behind(label, i, StopOf(label, i))
  BY LabelIs, StopIsBehind
<1> QED
  BY <1>1, PositionMoved DEF PositionAt

(* A closed file has no POSITION, and an open one leaves it between two    *)
(* items of the label.                                                     *)
LEMMA PositionStep ==
  ASSUME IInv, Next, SetsPosition \/ (PositionIsGood /\ ~ FailedHalfway)
  PROVE  PositionIsGood'
<1>1. ASSUME NEW mode \in {"READ", "UPDATE"}, NEW program \in Programs, ZvOpen(mode, program)
      PROVE  PositionIsGood'
  <2>1. call'.request.name = "zvopen" /\ labels = <<>> /\ position' = position
    BY <1>1 DEF ZvOpen, IsOpen, IInv, Answered, Plain, Request
  <2>2. PositionIsGood
    BY <2>1 DEF SetsPosition
  <2> QED
    BY <2>1, <2>2 DEF PositionIsGood
<1>2. CASE ZvClose
  BY <1>2 DEF ZvClose, PositionIsGood
<1>3. CASE ZlNInfo
  <2>0. ReadIn /\ file' = file /\ \E status, values : call' = Answered(Plain("zlninfo"), status, values)
    BY <1>3 DEF ZlNInfo
  <2>1. call'.request.name = "zlninfo" /\ ReadIn /\ file' = file
    <3>1. Plain("zlninfo").name = "zlninfo"
      BY DEF Plain, Request
    <3>2. call'.request = Plain("zlninfo")
      BY <2>0 DEF Answered
    <3> QED
      BY <2>0, <3>1, <3>2
  <2>2. PositionIsGood
    BY <2>1 DEF SetsPosition
  <2>3. CASE UNCHANGED position
    BY <2>1, <2>2, <2>3, PositionKept
  <2>4. CASE Rest # <<>> /\ PositionAt(Text, NextItem)
    <3>1. NextItem \in 1 .. Len(Text) /\ IsLabel(Text)
      BY <2>4, NextIs, TextIs
    <3> QED
      BY <2>1, <2>4, <3>1, PositionAtItem DEF ReadIn
  <2> QED
    BY <1>3, <2>3, <2>4 DEF ZlNInfo
<1>4. ASSUME NEW name \in {"zlhinfo", "zlpinfo"}, NEW key, ListsNames(name, key) PROVE PositionIsGood'
  <2>1. call'.request.name = name /\ ReadIn /\ UNCHANGED <<file, position>>
    BY <1>4 DEF ListsNames, Answered, Plain, Request
  <2>2. PositionIsGood
    BY <2>1 DEF SetsPosition
  <2> QED
    BY <2>1, <2>2, PositionKept
<1>5. ASSUME NEW request \in RequestType, ModifiesAnInput(request) PROVE PositionIsGood'
  <2>1. call'.status # "SUCCESS" /\ UNCHANGED <<file, labels, position>>
    BY <1>5 DEF ModifiesAnInput, Answered
  <2>2. PositionIsGood
    BY <2>1 DEF SetsPosition
  <2>3. Text' = Text
    BY <2>1 DEF Text
  <2>4. PositionIsGood' = PositionIsGood
    BY <2>1, <2>3 DEF PositionIsGood, Between
  <2> QED
    BY <2>2, <2>4
<1>6. ASSUME NEW request \in RequestType, NEW status \in Refusals, Refused(request, status)
      PROVE PositionIsGood'
  <2>1. call'.status # "SUCCESS" /\ ReadIn /\ UNCHANGED <<file, position>>
    BY <1>6 DEF Refused, Answered, Refusals
  <2>2. PositionIsGood
    BY <2>1 DEF SetsPosition
  <2> QED
    BY <2>1, <2>2, PositionKept
<1>7. ASSUME NEW request \in RequestType, Gets(request) PROVE PositionIsGood'
  <2>1. PICK i \in Find(Text, request.of, request.key) : PositionAt(Text, i)
    BY <1>7 DEF Gets
  <2>2. IsLabel(Text) /\ request.of \in PartType
    BY TextIs DEF RequestType
  <2>3. i \in 1 .. Len(Text)
    BY <2>1, <2>2, FoundIs
  <2>4. labels' = Text
    BY <1>7 DEF Gets, ReadIn
  <2> QED
    BY <2>1, <2>2, <2>3, <2>4, PositionAtItem
<1>8. ASSUME NEW request, NEW status, NEW edit, Adds(request), status # "SUCCESS",
             Fails(request, status, edit)
      PROVE  FALSE
  <2>1. call'.request.name = "zladd" /\ call'.status # "SUCCESS"
    BY <1>8 DEF Adds, Fails, Edits, Answered
  <2> QED
    BY <2>1 DEF SetsPosition, FailedHalfway
<1>9. ASSUME NEW request \in RequestType, AddLacksArgument(request) PROVE PositionIsGood'
  BY <1>8, <1>9 DEF AddLacksArgument
<1>10. ASSUME NEW request, IsAddition(request), ZlAdd(request) PROVE PositionIsGood'
  <2> DEFINE label == Added(request).label
             of == Named(request.of)
  <2>1. Adds(request)
    BY <1>10, AddIs
  <2>2. of \in PartType /\ IsLabel(label)
    BY <1>10, <2>1, AddOutcomes DEF Held
  <2>3. CASE /\ Edits(request, "SUCCESS", Added(request))
             /\ \E i \in Find(label, of, request.key) : PositionAt(label, i)
    <3>1. PICK i \in Find(label, of, request.key) : PositionAt(label, i)
      BY <2>3
    <3>2. labels' = label
      BY <2>3 DEF Edits
    <3> HIDE DEF label, of
    <3>3. i \in 1 .. Len(label)
      BY <2>2, <3>1, FoundIs
    <3> QED
      BY <2>2, <3>1, <3>2, <3>3, PositionAtItem
  <2>4. CASE Fails(request, "IMPROPER_LENGTH", AfterReplacing(request))
    BY <1>8, <2>1, <2>4
  <2>5. CASE Fails(request, "NO_MEMORY_FOR_LABEL_PROCESS", Lost(request))
    BY <1>8, <2>1, <2>5
  <2> QED
    BY <1>10, <2>3, <2>4, <2>5, AddIs
<1>11. ASSUME NEW request \in RequestType, ZlDel(request) PROVE PositionIsGood'
  <2>1. PICK i \in Find(Text, request.of, request.key) :
          /\ DeleteKnown(Text, i, Deletion(request, i))
          /\ \/ Refused(request, "FAILURE")
             \/ /\ Edits(request, "SUCCESS", [Read EXCEPT !.label = Deletion(request, i).label])
                /\ position' = Place(Deletion(request, i).stop)
    BY <1>11, DelIs
  <2>2. CASE Refused(request, "FAILURE")
    <3>1. "FAILURE" \in Refusals
      BY DEF Refusals
    <3> QED
      BY <1>6, <2>2, <3>1
  <2>3. CASE /\ Edits(request, "SUCCESS", [Read EXCEPT !.label = Deletion(request, i).label])
             /\ position' = Place(Deletion(request, i).stop)
    <3>1. labels' = Deletion(request, i).label
      BY <2>3 DEF Edits, Read
    <3>2. IsLabel(Deletion(request, i).label)
          /\ \E m : Behind(Deletion(request, i).label, m, Deletion(request, i).stop)
      BY <2>1 DEF DeleteKnown
    <3> QED
      BY <2>3, <3>1, <3>2, PositionMoved
  <2> QED
    BY <2>1, <2>2, <2>3
<1>12. "zlhinfo" \in {"zlhinfo", "zlpinfo"} /\ "zlpinfo" \in {"zlhinfo", "zlpinfo"}
  OBVIOUS
<1> QED
  BY <1>1, <1>2, <1>3, <1>4, <1>5, <1>6, <1>7, <1>9, <1>10, <1>11, <1>12, Steps

(* A call that succeeds, or one that found POSITION good, leaves it good.  *)
THEOREM PositionIsKept == Spec => PositionStaysGood
<1>1. IInv /\ [Next]_vars =>
        [SetsPosition \/ (PositionIsGood /\ ~ FailedHalfway) => PositionIsGood']_vars
  BY PositionStep
<1> QED
  BY <1>1, Invariance, PTL DEF Spec, PositionStaysGood

-----------------------------------------------------------------------------
(* Deleting while going through the label.                                 *)

NextIn(label, at) ==
  Min({Len(label) + 1} \cup {i \in DOMAIN label : StartOf(label, i) >= at})

LEMMA NextIsBehind ==
  ASSUME NEW label, IsLabel(label), NEW m, NEW at, Behind(label, m, at)
  PROVE  SubSeq(label, NextIn(label, at), Len(label)) = BackPart(label, m)
<1> DEFINE n == Len(label)
           S == {n + 1} \cup {i \in DOMAIN label : StartOf(label, i) >= at}
<1>1. label \in Seq(Element) /\ n \in Nat /\ DOMAIN label = 1 .. n
  BY LabelIs
<1>2. m \in 1 .. n /\ at \in StopOf(label, m) .. (StopOf(label, m) + label[m].blanks)
  BY DEF Behind
<1>3. ItemKnown(label, m) /\ label[m].value # <<>>
  BY <1>1, <1>2, ItemIs, LabelIs
<1>4. /\ StartOf(label, m) \in Nat /\ TextLen(label[m]) \in Nat /\ TextLen(label[m]) > 0
      /\ label[m].blanks \in Nat
      /\ StopOf(label, m) = StartOf(label, m) + TextLen(label[m])
      /\ StartOf(label, m + 1) = StopOf(label, m) + label[m].blanks
  BY <1>3 DEF ItemKnown
<1>5. at \in Nat /\ StartOf(label, m) < at /\ at <= StartOf(label, m + 1)
  BY <1>2, <1>4
<1>6. S \in SUBSET Nat /\ S # {}
  BY <1>1
<1>7. NextIn(label, at) = Min(S)
  BY DEF NextIn
<1> HIDE DEF n
<1>8. m + 1 \in S
  <2>1. CASE m = n
    BY <2>1
  <2>2. CASE m # n
    <3>1. m + 1 \in DOMAIN label
      BY <1>1, <1>2, <2>2
    <3> QED
      BY <1>1, <1>4, <1>5, <3>1
  <2> QED
    BY <2>1, <2>2
<1>9. ASSUME NEW j \in S, j <= m PROVE FALSE
  <2>1. j \in 1 .. n /\ StartOf(label, j) >= at
    BY <1>1, <1>2, <1>9
  <2>2. m \in j .. (Len(label) + 1) /\ j \in 1 .. (Len(label) + 1)
    BY <1>1, <1>2, <1>9, <2>1 DEF n
  <2>3. StartOf(label, j) <= StartOf(label, m)
    BY <1>1, <2>2, Ordered
  <2>4. StartOf(label, j) \in Nat
    BY <1>1, <2>1, ItemIs DEF ItemKnown, n
  <2> QED
    BY <1>4, <1>5, <2>1, <2>3, <2>4
<1> HIDE DEF S
<1>10. Min(S) \in S /\ Min(S) <= m + 1
  BY <1>6, <1>8, MinOfNats
<1>11. Min(S) = m + 1
  <2>0. \A k \in S : k \in Nat
    BY <1>6
  <2>3. Min(S) \in Nat
    BY <1>10, <2>0
  <2>4. m \in 1 .. n
    BY <1>2
  <2>1. Min(S) \in Nat /\ m \in Nat
    BY <1>1, <2>3, <2>4
  <2>2. ~(Min(S) <= m)
    BY <1>9, <1>10
  <2> QED
    BY <1>10, <2>1, <2>2
<1> QED
  BY <1>7, <1>11 DEF BackPart

LEMMA RestIs ==
  ASSUME NEW m, IsLabel(Text), Behind(Text, m, position.at)
  PROVE  Rest = BackPart(Text, m)
<1>1. NextItem = NextIn(Text, position.at)
  BY DEF NextItem, NextIn
<1> QED
  BY <1>1, NextIsBehind DEF Rest

LEMMA DeletionStep ==
  ASSUME IInv, NEW request \in RequestType, ZlDel(request),
         NEW i \in Find(Text, request.of, request.key), position = Place(StopOf(Text, i))
  PROVE  Rest' = Rest
<1>1. PICK j \in Find(Text, request.of, request.key) :
        /\ j \in 1 .. Len(Text) /\ DeleteKnown(Text, j, Deletion(request, j))
        /\ \/ Refused(request, "FAILURE")
           \/ /\ Edits(request, "SUCCESS", [Read EXCEPT !.label = Deletion(request, j).label])
              /\ position' = Place(Deletion(request, j).stop)
  BY DelIs
<1>2. IsLabel(Text) /\ request.of \in PartType /\ Text \in Seq(Element)
  BY TextIs, LabelIs DEF RequestType
<1>3. i = j /\ i \in 1 .. Len(Text)
  BY <1>1, <1>2, FoundIs
<1>4. CASE Refused(request, "FAILURE")
  <2>1. Text' = Text /\ position' = position
    BY <1>4, TextStays DEF Refused
  <2> QED
    BY <2>1 DEF Rest, NextItem
<1>5. CASE /\ Edits(request, "SUCCESS", [Read EXCEPT !.label = Deletion(request, j).label])
           /\ position' = Place(Deletion(request, j).stop)
  <2> DEFINE r == Deletion(request, j)
  <2>1. labels' = r.label /\ position'.at = r.stop
    BY <1>5 DEF Edits, Read, Place
  <2>2. IsLabel(r.label)
    BY <1>1 DEF DeleteKnown
  <2>3. PICK m : Behind(r.label, m, r.stop) /\ BackPart(r.label, m) = BackPart(Text, j)
    BY <1>1 DEF DeleteKnown
  <2> HIDE DEF r
  <2>4. Text' = r.label
    BY <2>1, <2>2, LabelIsSome DEF Text
  <2>5. Rest' = SubSeq(r.label, NextIn(r.label, r.stop), Len(r.label))
    BY <2>1, <2>4 DEF Rest, NextItem, NextIn
  <2>6. Rest' = BackPart(Text, j)
    BY <2>2, <2>3, <2>5, NextIsBehind
  <2>7. Behind(Text, i, StopOf(Text, i)) /\ position.at = StopOf(Text, i)
    BY <1>2, <1>3, StopIsBehind DEF Place
  <2>8. Rest = BackPart(Text, i)
    BY <1>2, <2>7, RestIs
  <2> QED
    BY <1>3, <2>6, <2>8
<1> QED
  BY <1>1, <1>4, <1>5

(* zldel leaves what is still to come as it is.                            *)
LEMMA DeletingStep ==
  ASSUME IInv, Next, call'.request.name = "zldel",
         NEW i \in Find(Text, call'.request.of, call'.request.key), position = Place(StopOf(Text, i))
  PROVE  Rest' = Rest
<1>1. ASSUME NEW mode \in {"READ", "UPDATE"}, NEW program \in Programs, ZvOpen(mode, program)
      PROVE  FALSE
  BY <1>1 DEF ZvOpen, Answered, Plain, Request
<1>2. CASE ZvClose
  BY <1>2 DEF ZvClose, Answered, Plain, Request
<1>3. CASE ZlNInfo
  <2>1. \E status, values : call' = Answered(Plain("zlninfo"), status, values)
    BY <1>3 DEF ZlNInfo
  <2>2. Plain("zlninfo").name = "zlninfo"
    BY DEF Plain, Request
  <2>3. call'.request = Plain("zlninfo")
    BY <2>1 DEF Answered
  <2> QED
    BY <2>2, <2>3
<1>4. ASSUME NEW name \in {"zlhinfo", "zlpinfo"}, NEW key, ListsNames(name, key) PROVE FALSE
  BY <1>4 DEF ListsNames, Answered, Plain, Request
<1>5. ASSUME NEW request \in RequestType, ModifiesAnInput(request) PROVE Rest' = Rest
  <2>1. UNCHANGED <<file, labels, position>>
    BY <1>5 DEF ModifiesAnInput
  <2>2. Text' = Text
    BY <2>1 DEF Text
  <2> QED
    BY <2>1, <2>2 DEF Rest, NextItem
<1>6. ASSUME NEW request \in RequestType, NEW status, Refused(request, status) PROVE Rest' = Rest
  <2>1. Text' = Text /\ position' = position
    BY <1>6, TextStays DEF Refused
  <2> QED
    BY <2>1 DEF Rest, NextItem
<1>7. ASSUME NEW request \in RequestType, Gets(request) PROVE FALSE
  <2>1. request.name \in {"zlget", "zlinfo"} /\ \E values : call' = Answered(request, "SUCCESS", values)
    BY <1>7 DEF Gets
  <2> QED
    BY <2>1 DEF Answered
<1>8. ASSUME NEW request, NEW status, NEW edit, Adds(request),
             Fails(request, status, edit) \/ Edits(request, status, edit)
      PROVE  FALSE
  BY <1>8 DEF Adds, Fails, Edits, Answered
<1>9. ASSUME NEW request \in RequestType, AddLacksArgument(request) PROVE FALSE
  BY <1>8, <1>9 DEF AddLacksArgument
<1>10. ASSUME NEW request, IsAddition(request), ZlAdd(request) PROVE FALSE
  BY <1>8, <1>10, AddIs
<1>11. ASSUME NEW request \in RequestType, ZlDel(request) PROVE Rest' = Rest
  <2>1. call'.request = request
    BY <1>11 DEF ZlDel, Refused, Edits, Answered
  <2>2. i \in Find(Text, request.of, request.key)
    BY <2>1
  <2> QED
    BY <1>11, <2>2, DeletionStep
<1>12. "zlhinfo" \in {"zlhinfo", "zlpinfo"} /\ "zlpinfo" \in {"zlhinfo", "zlpinfo"}
  OBVIOUS
<1> QED
  BY <1>1, <1>2, <1>3, <1>4, <1>5, <1>6, <1>7, <1>9, <1>10, <1>11, <1>12, Steps

THEOREM DeletionsGoOn == Spec => DeletingGoesOn
<1>1. IInv /\ [Next]_vars =>
        [ call'.request.name = "zldel" =>
            \A i \in Find(Text, call'.request.of, call'.request.key) :
              position = Place(StopOf(Text, i)) => Rest' = Rest ]_vars
  BY DeletingStep
<1> QED
  BY <1>1, Invariance, PTL DEF Spec, DeletingGoesOn

-----------------------------------------------------------------------------
(* The instances that are listed.                                          *)

Same(names, k) == {m \in 1 .. k : names[m] = names[k]}

LEMMA SameIs ==
  ASSUME NEW names, NEW k \in Nat \ {0}
  PROVE  /\ IsFiniteSet(Same(names, k)) /\ Cardinality(Same(names, k)) \in Nat
         /\ SameBefore(names, k) = {} => Cardinality(Same(names, k)) = 1
         /\ SameBefore(names, k) # {} =>
              /\ Max(SameBefore(names, k)) \in 1 .. (k - 1)
              /\ Cardinality(Same(names, k)) = Cardinality(Same(names, Max(SameBefore(names, k)))) + 1
<1> DEFINE before == SameBefore(names, k)
           x == Max(before)
<1>1. before \in SUBSET (1 .. (k - 1)) /\ k - 1 \in Nat
  BY DEF SameBefore
<1>2. IsFiniteSet(before) /\ Cardinality(before) \in Nat
  BY <1>1, FinitePlaces
<1>3. Same(names, k) = before \cup {k} /\ k \notin before
  <2>1. ASSUME NEW m \in Same(names, k), m # k PROVE m \in before
    <3>1. m \in 1 .. k /\ names[m] = names[k]
      BY <2>1 DEF Same
    <3>2. m \in 1 .. (k - 1)
      BY <2>1, <3>1
    <3> QED
      BY <3>1, <3>2 DEF SameBefore
  <2>2. ASSUME NEW m \in before PROVE m \in Same(names, k) /\ m # k
    <3>1. m \in 1 .. (k - 1) /\ names[m] = names[k]
      BY <2>2 DEF SameBefore
    <3>2. m \in 1 .. k /\ m # k
      BY <3>1
    <3> QED
      BY <3>1, <3>2 DEF Same
  <2>3. k \in Same(names, k)
    <3>1. k \in 1 .. k
      OBVIOUS
    <3> QED
      BY <3>1 DEF Same
  <2> HIDE DEF before
  <2> QED
    BY <2>1, <2>2, <2>3
<1> HIDE DEF before
<1>4. IsFiniteSet(Same(names, k)) /\ Cardinality(Same(names, k)) = Cardinality(before) + 1
  BY <1>2, <1>3, FS_AddElement
<1>5. CASE before = {}
  BY <1>2, <1>4, <1>5, FS_EmptySet DEF before
<1>6. CASE before # {}
  <2>1. x \in before /\ \A y \in before : x >= y
    BY <1>1, <1>6, MaxOfBounded
  <2> HIDE DEF x
  <2>2. x \in 1 .. (k - 1) /\ names[x] = names[k]
    BY <2>1 DEF before, SameBefore
  <2>3. before = Same(names, x)
    <3>1. ASSUME NEW m \in before PROVE m \in Same(names, x)
      <4>1. m \in 1 .. (k - 1) /\ names[m] = names[k]
        BY <3>1 DEF before, SameBefore
      <4>2. m \in 1 .. x
        BY <2>1, <2>2, <3>1, <4>1
      <4> QED
        BY <2>2, <4>1, <4>2 DEF Same
    <3>2. ASSUME NEW m \in Same(names, x) PROVE m \in before
      <4>1. m \in 1 .. x /\ names[m] = names[x]
        BY <3>2 DEF Same
      <4>2. m \in 1 .. (k - 1)
        BY <2>2, <4>1
      <4> QED
        BY <2>2, <4>1, <4>2 DEF before, SameBefore
    <3> QED
      BY <3>1, <3>2
  <2>4. Cardinality(Same(names, k)) = Cardinality(Same(names, x)) + 1
    BY <1>4, <2>3
  <2> QED
    BY <1>2, <1>4, <1>6, <2>2, <2>4 DEF before, x
<1> QED
  BY <1>5, <1>6

CountsNames(f, names) ==
  f = [k \in DOMAIN names |->
         IF SameBefore(names, k) = {} THEN 1 ELSE f[Max(SameBefore(names, k))] + 1]

LEMMA CountsAre ==
  ASSUME NEW n \in Nat, NEW names, DOMAIN names = 1 .. n, NEW f, CountsNames(f, names),
         NEW k \in 1 .. n
  PROVE  f[k] = Cardinality(Same(names, k))
<1> DEFINE bad == {m \in 1 .. n : f[m] # Cardinality(Same(names, m))}
           x == Min(bad)
           y == Max(SameBefore(names, x))
<1> SUFFICES ASSUME bad # {} PROVE FALSE
  OBVIOUS
<1>1. bad \in SUBSET Nat
  OBVIOUS
<1>2. x \in bad /\ \A m \in bad : x <= m
  BY <1>1, MinOfNats
<1>3. x \in 1 .. n /\ f[x] # Cardinality(Same(names, x)) /\ x \in Nat \ {0}
  BY <1>2
<1>4. f[x] = IF SameBefore(names, x) = {} THEN 1 ELSE f[y] + 1
  <2> HIDE DEF x
  <2> QED
    BY <1>3 DEF CountsNames
<1> HIDE DEF x
<1>5. SameBefore(names, x) = {} => Cardinality(Same(names, x)) = 1
  BY <1>3, SameIs
<1>6. SameBefore(names, x) # {}
  BY <1>3, <1>4, <1>5
<1>7. y \in 1 .. (x - 1) /\ Cardinality(Same(names, x)) = Cardinality(Same(names, y)) + 1
  BY <1>3, <1>6, SameIs
<1> HIDE DEF y
<1>8. y \in 1 .. n /\ ~(x <= y)
  BY <1>3, <1>7
<1>9. f[y] = Cardinality(Same(names, y))
  BY <1>2, <1>8
<1> QED
  BY <1>3, <1>4, <1>6, <1>7, <1>9

LEMMA CountsExist ==
  ASSUME NEW n \in Nat, NEW names, DOMAIN names = 1 .. n
  PROVE  CountsNames([k \in 1 .. n |-> Cardinality(Same(names, k))], names)
<1> DEFINE g == [k \in 1 .. n |-> Cardinality(Same(names, k))]
           h == [k \in 1 .. n |->
                   IF SameBefore(names, k) = {} THEN 1 ELSE g[Max(SameBefore(names, k))] + 1]
<1>1. ASSUME NEW k \in 1 .. n PROVE g[k] = h[k]
  <2> DEFINE x == Max(SameBefore(names, k))
  <2>1. k \in Nat \ {0}
    OBVIOUS
  <2>2. g[k] = Cardinality(Same(names, k))
    OBVIOUS
  <2>3. h[k] = IF SameBefore(names, k) = {} THEN 1 ELSE g[x] + 1
    OBVIOUS
  <2>4. CASE SameBefore(names, k) = {}
    <3> HIDE DEF g, h, x
    <3> QED
      BY <2>1, <2>2, <2>3, <2>4, SameIs
  <2>5. CASE SameBefore(names, k) # {}
    <3>1. x \in 1 .. (k - 1) /\ Cardinality(Same(names, k)) = Cardinality(Same(names, x)) + 1
      BY <2>1, <2>5, SameIs
    <3> HIDE DEF x
    <3>2. x \in 1 .. n
      BY <3>1
    <3>3. g[x] = Cardinality(Same(names, x))
      BY <3>2
    <3> HIDE DEF g, h
    <3> QED
      BY <2>2, <2>3, <2>5, <3>1, <3>3
  <2> QED
    BY <2>4, <2>5
<1>2. g = h
  <2>1. DOMAIN g = 1 .. n /\ DOMAIN h = 1 .. n
    OBVIOUS
  <2>2. g = [k \in DOMAIN g |-> g[k]] /\ h = [k \in DOMAIN h |-> h[k]]
    OBVIOUS
  <2> HIDE DEF g, h
  <2> QED
    BY <1>1, <2>1, <2>2
<1> HIDE DEF g
<1>3. CountsNames(g, names)
  BY <1>2 DEF CountsNames
<1> QED
  BY <1>3 DEF g

LEMMA InstancesAre ==
  ASSUME NEW n \in Nat, NEW label, NEW key, DOMAIN NamesIn(label, key) = 1 .. n, NEW k \in 1 .. n
  PROVE  InstancesIn(label, key)[k] = Cardinality(Same(NamesIn(label, key), k))
<1> DEFINE names == NamesIn(label, key)
           g == CHOOSE h : CountsNames(h, names)
<1>1. InstancesIn(label, key) = g
  BY DEF InstancesIn, CountsNames
<1>2. \E h : CountsNames(h, names)
  BY CountsExist
<1>3. CountsNames(g, names)
  BY <1>2
<1> HIDE DEF g, names
<1>4. g[k] = Cardinality(Same(names, k))
  BY <1>3, CountsAre DEF names
<1> QED
  BY <1>1, <1>4 DEF names

NamesKnown(label, key) ==
  /\ Listed(label, key) \in SUBSET (1 .. Len(label)) /\ Len(label) \in Nat
  /\ Cardinality(Listed(label, key)) \in Nat
  /\ DOMAIN NamesIn(label, key) = 1 .. Cardinality(Listed(label, key))
  /\ \A i \in Listed(label, key) :
       /\ Cardinality(UpTo(Listed(label, key), i)) \in 1 .. Cardinality(Listed(label, key))
       /\ NamesIn(label, key)[Cardinality(UpTo(Listed(label, key), i))] = label[i].value[1]

(* The names are listed in the order in which the headers stand.           *)
LEMMA NamesAre ==
  ASSUME NEW label, IsLabel(label), NEW key
  PROVE  NamesKnown(label, key)
<1> DEFINE L == Listed(label, key)
           n == Len(label)
           names == NamesIn(label, key)
<1>1. L \in SUBSET (1 .. n) /\ n \in Nat
  BY LabelIs DEF Listed
<1>2. Cardinality(L) \in Nat
  BY <1>1, FinitePlaces
<1>3. names = [k \in 1 .. Cardinality(L) |->
                 label[CHOOSE i \in L : Cardinality(UpTo(L, i)) = k].value[1]]
  BY DEF NamesIn
<1> HIDE DEF L, n, names
<1>4. ASSUME NEW i \in L
      PROVE  /\ Cardinality(UpTo(L, i)) \in 1 .. Cardinality(L)
             /\ names[Cardinality(UpTo(L, i))] = label[i].value[1]
  <2> DEFINE k == Cardinality(UpTo(L, i))
             j == CHOOSE q \in L : Cardinality(UpTo(L, q)) = k
  <2>1. k \in 1 .. Cardinality(L)
    BY <1>1, CountRange
  <2>2. j \in L /\ Cardinality(UpTo(L, j)) = k
    OBVIOUS
  <2>3. j = i
    BY <1>1, <2>2, CountIdentifies
  <2>4. names[k] = label[j].value[1]
    <3> HIDE DEF k
    <3> QED
      BY <1>3, <2>1
  <2> QED
    BY <2>1, <2>3, <2>4
<1>5. DOMAIN names = 1 .. Cardinality(L)
  BY <1>3
<1> QED
  BY <1>1, <1>2, <1>4, <1>5 DEF NamesKnown, L, n, names

LEMMA HeaderNamed ==
  ASSUME NEW label, IsLabel(label), NEW key \in {TaskKey, PropertyKey}, NEW name
  PROVE  HeadersOf(label, key, name) = {i \in Listed(label, key) : label[i].value[1] = name}
<1>1. DOMAIN label = 1 .. Len(label)
      /\ \A i \in 1 .. Len(label) : label[i].key \in Headers => Len(label[i].value) = 1
      /\ label \in Seq(Element)
  BY LabelIs
<1>2. ASSUME NEW i \in Listed(label, key)
      PROVE  label[i].value = <<label[i].value[1]>>
  <2>1. i \in 1 .. Len(label) /\ label[i].key = key
    BY <1>1 DEF Listed
  <2>0. label \in Seq(Element)
    BY LabelIs
  <2>2. label[i] \in Element
    <3>1. ItemKnown(label, i)
      BY <2>0, <2>1, ItemIs
    <3> QED
      BY <3>1 DEF ItemKnown
  <2>3. label[i].value \in Seq(STRING) /\ Len(label[i].value) = 1
    BY <1>1, <2>1, <2>2 DEF Element, Headers
  <2> DEFINE value == label[i].value
  <2> HIDE DEF value
  <2>4. value = <<value[1]>>
    <3>1. value \in Seq(STRING) /\ Len(value) = 1
      BY <2>3 DEF value
    <3> QED
      BY <3>1
  <2> QED
    BY <2>4 DEF value
<1>3. ASSUME NEW i \in HeadersOf(label, key, name)
      PROVE  i \in Listed(label, key) /\ label[i].value[1] = name
  BY <1>3 DEF HeadersOf, Listed
<1>4. ASSUME NEW i \in Listed(label, key), label[i].value[1] = name
      PROVE  i \in HeadersOf(label, key, name)
  BY <1>2, <1>4 DEF HeadersOf, Listed
<1> QED
  BY <1>3, <1>4

LEMMA ListedIsFound ==
  ASSUME NEW label, IsLabel(label), NEW key \in {TaskKey, PropertyKey}, NEW i \in Listed(label, key)
  PROVE  LET k == Cardinality(UpTo(Listed(label, key), i))
         IN  HeaderOf(label, key, NamesIn(label, key)[k], InstancesIn(label, key)[k]) = {i}
<1> DEFINE L == Listed(label, key)
           n == Len(label)
           names == NamesIn(label, key)
           rank(j) == Cardinality(UpTo(L, j))
           k == rank(i)
           name == names[k]
           H == HeadersOf(label, key, name)
           S == UpTo(H, i)
           T == Same(names, k)
           f == [j \in S |-> rank(j)]
<1>1. /\ L \in SUBSET (1 .. n) /\ n \in Nat /\ Cardinality(L) \in Nat
      /\ DOMAIN names = 1 .. Cardinality(L)
      /\ \A j \in L : rank(j) \in 1 .. Cardinality(L) /\ names[rank(j)] = label[j].value[1]
  BY NamesAre DEF NamesKnown
<1>2. H = {j \in L : names[rank(j)] = name}
  <2>1. H = {j \in L : label[j].value[1] = name}
    BY HeaderNamed
  <2> HIDE DEF H, L, names, name, rank
  <2> QED
    BY <1>1, <2>1
<1>3. i \in H /\ k \in 1 .. Cardinality(L) /\ i \in 1 .. n /\ k \in Nat \ {0}
  <2>1. i \in L
    OBVIOUS
  <2> HIDE DEF H, L, names, rank
  <2> QED
    BY <1>1, <1>2, <2>1
<1>4. InstancesIn(label, key)[k] = Cardinality(T)
  <2>1. DOMAIN NamesIn(label, key) = 1 .. Cardinality(L) /\ k \in 1 .. Cardinality(L)
    BY <1>1, <1>3
  <2> HIDE DEF L, k
  <2> QED
    BY <1>1, <2>1, InstancesAre
<1>5. H \in SUBSET (1 .. n) /\ IsFiniteSet(S) /\ Cardinality(S) \in Nat
  <2> HIDE DEF H, L, n, rank, name, names
  <2>1. H \in SUBSET (1 .. n)
    BY <1>1, <1>2
  <2> QED
    BY <1>1, <2>1, FinitePlaces
<1>6. Cardinality(T) = Cardinality(S)
  <2>1. \A j \in L : UpTo(L, j) = UpTo(L, j) /\ j \in 1 .. n
    <3> HIDE DEF L, n
    <3> QED
      BY <1>1
  <2>2. ASSUME NEW j \in S PROVE rank(j) \in T
    <3>1. j \in H /\ j <= i
      BY DEF UpTo
    <3>2. j \in L /\ names[rank(j)] = name /\ rank(j) \in 1 .. Cardinality(L)
      <4> HIDE DEF H, L, names, rank, name
      <4> QED
        BY <1>1, <1>2, <3>1
    <3>3. rank(j) <= k
      <4>1. CASE j = i
        <5>1. rank(j) = k /\ k \in Nat
          BY <1>3, <4>1
        <5> HIDE DEF k, rank
        <5> QED
          BY <5>1
      <4>2. CASE j # i
        <5>1. j \in 1 .. n /\ j < i /\ i \in L
          BY <1>3, <2>1, <3>1, <3>2, <4>2
        <5>2. Cardinality(UpTo(L, j)) < Cardinality(UpTo(L, i))
          <6> HIDE DEF L, n
          <6> QED
            BY <1>1, <5>1, CountGrows
        <5>3. rank(j) \in Nat /\ k \in Nat
          BY <1>3, <3>2
        <5>4. rank(j) < k
          BY <5>2
        <5> HIDE DEF rank, k
        <5> QED
          BY <5>3, <5>4
      <4> QED
        BY <4>1, <4>2
    <3> HIDE DEF rank, k, name, L, names, H, S
    <3>4. rank(j) \in 1 .. k
      BY <1>1, <1>3, <3>2, <3>3
    <3> QED
      BY <3>2, <3>4 DEF Same, name
  <2>3. \A j, l \in S : rank(j) = rank(l) => j = l
    <3> SUFFICES ASSUME NEW j \in S, NEW l \in S, rank(j) = rank(l) PROVE j = l
      OBVIOUS
    <3>1. j \in H /\ l \in H
      BY DEF UpTo
    <3>2. j \in L /\ l \in L
      <4> HIDE DEF H, L, names, rank, name
      <4> QED
        BY <1>2, <3>1
    <3>3. Cardinality(UpTo(L, j)) = Cardinality(UpTo(L, l))
      OBVIOUS
    <3> HIDE DEF L, n, rank
    <3> QED
      BY <1>1, <3>2, <3>3, CountIdentifies
  <2>4. \A m \in T : \E j \in S : rank(j) = m
    <3> SUFFICES ASSUME NEW m \in T PROVE \E j \in S : rank(j) = m
      OBVIOUS
    <3>1. m \in 1 .. k /\ names[m] = name
      BY DEF Same
    <3>2. m \in 1 .. Cardinality(L)
      <4> HIDE DEF k, L
      <4> QED
        BY <1>1, <1>3, <3>1
    <3>3. PICK j \in L : Cardinality(UpTo(L, j)) = m
      <4> HIDE DEF L, n
      <4> QED
        BY <1>1, <3>2, CountIsOnto
    <3>4. rank(j) = m /\ j \in 1 .. n
      BY <2>1, <3>3
    <3>5. j \in H
      <4> HIDE DEF H, L, names, rank, name
      <4> QED
        BY <1>2, <3>1, <3>3, <3>4
    <3>6. j <= i
      <4> SUFFICES ASSUME ~(j <= i) PROVE FALSE
        OBVIOUS
      <4>1. i < j /\ i \in 1 .. n /\ i \in 1 .. n
        BY <1>3, <3>4
      <4>2. Cardinality(UpTo(L, i)) < Cardinality(UpTo(L, j))
        <5> HIDE DEF L, n
        <5> QED
          BY <1>1, <3>3, <4>1, CountGrows
      <4>3. k < m
        BY <3>3, <4>2
      <4> HIDE DEF k, rank
      <4> QED
        BY <1>3, <3>1, <4>3
    <3> QED
      BY <3>4, <3>5, <3>6 DEF UpTo
  <2> HIDE DEF S, T, rank
  <2>5. f \in [S -> T]
    BY <2>2
  <2>6. f \in Injection(S, T)
    BY <2>3, <2>5 DEF Injection, IsInjective
  <2>7. f \in Surjection(S, T)
    BY <2>4, <2>5 DEF Surjection
  <2>8. ExistsBijection(S, T)
    BY <2>6, <2>7 DEF ExistsBijection, Bijection
  <2> QED
    BY <1>5, <2>8, FS_Bijection
<1>7. i \in HeaderOf(label, key, name, InstancesIn(label, key)[k])
  <2>1. Cardinality(UpTo(H, i)) = InstancesIn(label, key)[k]
    BY <1>4, <1>6
  <2> HIDE DEF k, name
  <2> QED
    BY <1>3, <2>1 DEF HeaderOf
<1>8. InstancesIn(label, key)[k] \in Nat
  BY <1>4, <1>5, <1>6
<1> HIDE DEF k, name, H, S, T, f, L, names
<1>9. \A j, l \in HeaderOf(label, key, name, InstancesIn(label, key)[k]) : j = l
  BY <1>8, HeaderIs
<1>10. HeaderOf(label, key, name, InstancesIn(label, key)[k]) = {i}
  BY <1>7, <1>9
<1> QED
  BY <1>10 DEF k, name, L, names

(* A name that is listed, and its instance, find the header they stand for.*)
THEOREM NamesLeadBack == Spec => []ListedInstancesAreFound
<1>1. IInv => ListedInstancesAreFound
  <2> SUFFICES ASSUME IInv PROVE ListedInstancesAreFound
    OBVIOUS
  <2>1. IsLabel(Text) /\ DOMAIN Text = 1 .. Len(Text)
    BY TextIs, LabelIs
  <2>2. ASSUME NEW key \in {TaskKey, PropertyKey}, NEW i \in DOMAIN Text, Text[i].key = key
        PROVE  LET k == Cardinality({j \in 1 .. i : Text[j].key = key})
               IN  HeaderOf(Text, key, NamesIn(Text, key)[k], InstancesIn(Text, key)[k]) = {i}
    <3>1. i \in Listed(Text, key)
      BY <2>2 DEF Listed
    <3>2. UpTo(Listed(Text, key), i) = {j \in 1 .. i : Text[j].key = key}
      <4>1. ASSUME NEW j PROVE j \in DOMAIN Text /\ j <= i <=> j \in 1 .. i
        <5>1. i \in 1 .. Len(Text) /\ Len(Text) \in Nat
          BY <2>1, LabelIs
        <5> QED
          BY <2>1, <5>1
      <4>2. ASSUME NEW j PROVE j \in UpTo(Listed(Text, key), i) <=> j \in DOMAIN Text /\ j <= i /\ Text[j].key = key
        BY DEF UpTo, Listed
      <4> QED
        BY <4>1, <4>2
    <3>3. LET k == Cardinality(UpTo(Listed(Text, key), i))
          IN  HeaderOf(Text, key, NamesIn(Text, key)[k], InstancesIn(Text, key)[k]) = {i}
      BY <2>1, <3>1, ListedIsFound
    <3> QED
      BY <3>2, <3>3
  <2> QED
    BY <2>2 DEF ListedInstancesAreFound
<1> QED
  BY <1>1, Invariance, PTL
=============================================================================
