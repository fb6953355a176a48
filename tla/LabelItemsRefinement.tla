------------------------ MODULE LabelItemsRefinement ------------------------
(***************************************************************************)
(* LabelItems implements LabelTable: for labels of any length and parts of *)
(* any number, the text is a table, as long as zladd does not fail half-way*)
(* and no label in a file has two items with one key in a part.            *)
(***************************************************************************)
EXTENDS LabelItemsProofs

-----------------------------------------------------------------------------
(* Headers and what is behind them.                                        *)
LEMMA HeadersAndItems ==
  ASSUME NEW label, IsLabel(label)
  PROVE  /\ HeadersIn(label) \in SUBSET (1 .. Len(label)) /\ ItemsIn(label) \in SUBSET (2 .. Len(label))
         /\ Len(label) \in Nat /\ 1 \in HeadersIn(label)
         /\ \A i \in 1 .. Len(label) : i \in HeadersIn(label) <=> label[i].key \in Headers
         /\ \A i \in 1 .. Len(label) : i \in ItemsIn(label) <=> label[i].key \notin Headers
         /\ \A i \in ItemsIn(label) : label[i].key \in Keys /\ label[i].value \in Seq(STRING) \ {<<>>}
<1>1. /\ label \in Seq(Element) /\ Len(label) \in Nat /\ Len(label) >= 1 /\ DOMAIN label = 1 .. Len(label)
      /\ \A i \in 1 .. Len(label) : (label[i].key = SystemKey <=> i = 1) /\ label[i].value # <<>>
  BY LabelIs
<1>2. \A i \in 1 .. Len(label) : label[i] \in Element
  BY <1>1
<1>3. \A i \in 1 .. Len(label) : i \in HeadersIn(label) <=> label[i].key \in Headers
  BY <1>1 DEF HeadersIn
<1>4. \A i \in 1 .. Len(label) : i \in ItemsIn(label) <=> label[i].key \notin Headers
  BY <1>1, <1>3 DEF ItemsIn
<1>5. 1 \in HeadersIn(label)
  BY <1>1, <1>3 DEF Headers
<1>6. HeadersIn(label) \in SUBSET (1 .. Len(label)) /\ ItemsIn(label) \in SUBSET (2 .. Len(label))
  BY <1>1, <1>5 DEF HeadersIn, ItemsIn
<1>7. \A i \in ItemsIn(label) : i \in 1 .. Len(label)
  BY <1>6
<1>8. \A i \in ItemsIn(label) : label[i].key \in Keys /\ label[i].value \in Seq(STRING) \ {<<>>}
  BY <1>1, <1>2, <1>4, <1>7 DEF Element
<1> QED
  BY <1>1, <1>3, <1>4, <1>5, <1>6, <1>8

(* h is the header of the part that i is in.                               *)
Heads(label, i, h) ==
  /\ h \in HeadersIn(label) /\ h < i
  /\ \A g \in HeadersIn(label) : g < i => g <= h

LEMMA HeadsOne ==
  ASSUME NEW label, IsLabel(label), NEW i \in 1 .. Len(label), NEW h, Heads(label, i, h)
  PROVE  HeaderBefore(label, i) = h
<1>1. HeadersIn(label) \in SUBSET (1 .. Len(label)) /\ Len(label) \in Nat
  BY HeadersAndItems
<1>2. ASSUME NEW g, Heads(label, i, g) PROVE g = h
  BY <1>1, <1>2 DEF Heads
<1>3. HeaderBefore(label, i) = CHOOSE g \in HeadersIn(label) : Heads(label, i, g)
  BY DEF HeaderBefore, Heads
<1>4. h \in HeadersIn(label)
  BY DEF Heads
<1> QED
  BY <1>2, <1>3, <1>4

LEMMA HeaderBeforeIs ==
  ASSUME NEW label, IsLabel(label), NEW i \in ItemsIn(label)
  PROVE  Heads(label, i, HeaderBefore(label, i))
<1> DEFINE n == Len(label)
           S == {h \in HeadersIn(label) : h < i}
<1>1. HeadersIn(label) \in SUBSET (1 .. n) /\ n \in Nat /\ 1 \in HeadersIn(label) /\ i \in 2 .. n /\ i \in 1 .. n
  BY HeadersAndItems
<1>2. S \in SUBSET (1 .. n) /\ 1 \in S
  BY <1>1
<1>3. Max(S) \in S /\ \A y \in S : Max(S) >= y
  BY <1>1, <1>2, MaxOfBounded
<1>4. \A y \in S : y <= Max(S)
  BY <1>1, <1>2, <1>3
<1>5. Heads(label, i, Max(S))
  BY <1>3, <1>4 DEF Heads
<1> QED
  BY <1>1, <1>5, HeadsOne

(* No header between h and i.                                              *)
LEMMA HeadsBetween ==
  ASSUME NEW label, IsLabel(label), NEW i \in 1 .. Len(label), NEW h \in HeadersIn(label), h < i,
         \A k \in 1 .. Len(label) : h < k /\ k < i => label[k].key \notin Headers
  PROVE  Heads(label, i, h) /\ HeaderBefore(label, i) = h
<1>1. HeadersIn(label) \in SUBSET (1 .. Len(label)) /\ Len(label) \in Nat
      /\ \A k \in HeadersIn(label) : label[k].key \in Headers
  BY HeadersAndItems
<1>2. ASSUME NEW g \in HeadersIn(label), g < i PROVE g <= h
  BY <1>1, <1>2
<1>3. Heads(label, i, h)
  BY <1>2 DEF Heads
<1> QED
  BY <1>3, HeadsOne

-----------------------------------------------------------------------------
(* The part of a header.                                                   *)
HeaderKnown(label, h) ==
  /\ label[h].key \in Headers /\ label[h].value = <<label[h].value[1]>>
  /\ label[h].value[1] \in STRING
  /\ label[h].key = SystemKey <=> h = 1
  /\ h \in HeadersOf(label, label[h].key, label[h].value[1])

LEMMA HeaderFacts ==
  ASSUME NEW label, IsLabel(label), NEW h \in HeadersIn(label)
  PROVE  HeaderKnown(label, h)
<1>1. /\ label \in Seq(Element) /\ DOMAIN label = 1 .. Len(label)
      /\ \A i \in 1 .. Len(label) :
           (label[i].key = SystemKey <=> i = 1) /\ (label[i].key \in Headers => Len(label[i].value) = 1)
  BY LabelIs
<1>2. h \in 1 .. Len(label) /\ label[h].key \in Headers
  BY HeadersAndItems
<1>3. label[h] \in Element
  BY <1>1, <1>2
<1> DEFINE value == label[h].value
<1>4. value \in Seq(STRING) /\ Len(value) = 1
  BY <1>1, <1>2, <1>3 DEF Element
<1> HIDE DEF value
<1>5. value = <<value[1]>> /\ value[1] \in STRING
  BY <1>4
<1>6. label[h].value = <<label[h].value[1]>> /\ label[h].value[1] \in STRING
  BY <1>5 DEF value
<1> QED
  BY <1>1, <1>2, <1>6 DEF HeaderKnown, HeadersOf

NumberOf(label, h) == Cardinality(UpTo(HeadersOf(label, label[h].key, label[h].value[1]), h))

PartAtKnown(label, h) ==
  /\ PartAt(label, h) = SystemPart <=> h = 1
  /\ label[h].key = SystemKey => PartAt(label, h) = SystemPart
  /\ label[h].key = PropertyKey =>
       PartAt(label, h) = [type |-> "PROPERTY", name |-> label[h].value[1], instance |-> NumberOf(label, h)]
  /\ label[h].key = TaskKey =>
       PartAt(label, h) = [type |-> "HISTORY", name |-> label[h].value[1], instance |-> NumberOf(label, h)]
  /\ NumberOf(label, h) \in Nat \ {0}

LEMMA PartAtIs ==
  ASSUME NEW label, IsLabel(label), NEW h \in HeadersIn(label)
  PROVE  PartAtKnown(label, h)
<1> DEFINE S == HeadersOf(label, label[h].key, label[h].value[1])
<1>1. HeaderKnown(label, h)
  BY HeaderFacts
<1>2. /\ label[h].key \in Headers /\ (label[h].key = SystemKey <=> h = 1) /\ h \in S
  BY <1>1 DEF HeaderKnown
<1>3. S \in SUBSET (1 .. Len(label)) /\ Len(label) \in Nat /\ Cardinality(S) \in Nat
  BY HeadersAre
<1>4. NumberOf(label, h) \in 1 .. Cardinality(S)
  BY <1>2, <1>3, CountRange DEF NumberOf
<1> HIDE DEF S
<1>5. SystemKey # PropertyKey /\ SystemKey # TaskKey /\ PropertyKey # TaskKey
  BY DEF SystemKey, PropertyKey, TaskKey
<1>6. CASE label[h].key = SystemKey
  BY <1>2, <1>3, <1>4, <1>5, <1>6 DEF PartAt, PartAtKnown
<1>7. CASE label[h].key = PropertyKey
  <2>1. PartAt(label, h) =
          [type |-> "PROPERTY", name |-> label[h].value[1], instance |-> NumberOf(label, h)]
    BY <1>5, <1>7 DEF PartAt, NumberOf
  <2>a. PartAt(label, h).type = "PROPERTY" /\ SystemPart.type = "SYSTEM"
    BY <2>1 DEF SystemPart
  <2>2. PartAt(label, h) # SystemPart
    BY <2>a
  <2> QED
    BY <1>2, <1>3, <1>4, <1>5, <1>7, <2>1, <2>2 DEF PartAtKnown
<1>8. CASE label[h].key = TaskKey
  <2>1. PartAt(label, h) =
          [type |-> "HISTORY", name |-> label[h].value[1], instance |-> NumberOf(label, h)]
    BY <1>5, <1>8 DEF PartAt, NumberOf
  <2>a. PartAt(label, h).type = "HISTORY" /\ SystemPart.type = "SYSTEM"
    BY <2>1 DEF SystemPart
  <2>2. PartAt(label, h) # SystemPart
    BY <2>a
  <2> QED
    BY <1>2, <1>3, <1>4, <1>5, <1>8, <2>1, <2>2 DEF PartAtKnown
<1> QED
  BY <1>2, <1>6, <1>7, <1>8 DEF Headers

(* Every part has a name of its own.                                       *)
LEMMA PartAtIdentifies ==
  ASSUME NEW label, IsLabel(label), NEW h \in HeadersIn(label), NEW g \in HeadersIn(label),
         PartAt(label, h) = PartAt(label, g)
  PROVE  h = g
<1>1. HeaderKnown(label, h) /\ HeaderKnown(label, g)
  BY HeaderFacts
<1>2. PartAtKnown(label, h) /\ PartAtKnown(label, g)
  BY PartAtIs
<1>3. CASE h = 1 \/ g = 1
  BY <1>2, <1>3 DEF PartAtKnown
<1>4. CASE h # 1 /\ g # 1
  <2>1. label[h].key \in {PropertyKey, TaskKey} /\ label[g].key \in {PropertyKey, TaskKey}
    BY <1>1, <1>4 DEF HeaderKnown, Headers
  <2>2. label[h].key = label[g].key
    BY <1>2, <2>1 DEF PartAtKnown
  <2>3. label[h].value[1] = label[g].value[1] /\ NumberOf(label, h) = NumberOf(label, g)
    BY <1>2, <2>1, <2>2 DEF PartAtKnown
  <2> DEFINE S == HeadersOf(label, label[h].key, label[h].value[1])
  <2>4. h \in S /\ g \in S
    BY <1>1, <2>2, <2>3 DEF HeaderKnown
  <2>5. S \in SUBSET (1 .. Len(label)) /\ Len(label) \in Nat
    BY HeadersAre
  <2>6. Cardinality(UpTo(S, h)) = Cardinality(UpTo(S, g))
    BY <2>2, <2>3 DEF NumberOf
  <2> HIDE DEF S
  <2> QED
    BY <2>4, <2>5, <2>6, CountIdentifies
<1> QED
  BY <1>3, <1>4

-----------------------------------------------------------------------------
(* No key twice in a part.                                                 *)
Distinct(label) ==
  \A i, j \in ItemsIn(label) : EntryOf(label, i) = EntryOf(label, j) => i = j

ItemsOf(label) == TableOf(label).items

TableKnown(label) ==
  /\ DOMAIN ItemsOf(label) = {EntryOf(label, i) : i \in ItemsIn(label)}
  /\ \A i \in ItemsIn(label) : ItemsOf(label)[EntryOf(label, i)] = label[i].value

LEMMA TableIs ==
  ASSUME NEW label, Distinct(label)
  PROVE  TableKnown(label)
<1> DEFINE D == {EntryOf(label, i) : i \in ItemsIn(label)}
<1>1. ItemsOf(label) = [d \in D |-> label[CHOOSE i \in ItemsIn(label) : EntryOf(label, i) = d].value]
  BY DEF TableOf, ItemsOf
<1>2. ASSUME NEW i \in ItemsIn(label)
      PROVE  ItemsOf(label)[EntryOf(label, i)] = label[i].value
  <2> DEFINE d == EntryOf(label, i)
             j == CHOOSE k \in ItemsIn(label) : EntryOf(label, k) = d
  <2>1. d \in D
    OBVIOUS
  <2>2. j \in ItemsIn(label) /\ EntryOf(label, j) = d
    OBVIOUS
  <2>3. j = i
    BY <2>2 DEF Distinct
  <2>4. ItemsOf(label)[d] = label[j].value
    <3> HIDE DEF d, D
    <3> QED
      BY <1>1, <2>1
  <2> QED
    BY <2>3, <2>4
<1> QED
  BY <1>1, <1>2 DEF TableKnown

LEMMA TableFields ==
  ASSUME NEW label
  PROVE  TableOf(label) = [items |-> ItemsOf(label), tasks |-> NamesIn(label, TaskKey)]
BY DEF TableOf, ItemsOf

(* Tables are functions.                                                   *)
LEMMA ItemsAreFunction ==
  ASSUME NEW label
  PROVE  ItemsOf(label) = [d \in DOMAIN ItemsOf(label) |-> ItemsOf(label)[d]]
BY DEF TableOf, ItemsOf

-----------------------------------------------------------------------------
(* Counting is not changed by a renumbering that keeps the order.          *)
Climbs(f, n, m) ==
  /\ n \in Nat /\ m \in Nat
  /\ f \in [1 .. n -> 1 .. m]
  /\ \A j, k \in 1 .. n : j < k => f[j] < f[k]

LEMMA ClimbsBack ==
  ASSUME NEW f, NEW n, NEW m, Climbs(f, n, m), NEW j \in 1 .. n, NEW k \in 1 .. n
  PROVE  /\ f[j] \in 1 .. m /\ f[k] \in 1 .. m
         /\ j < k <=> f[j] < f[k]
         /\ j <= k <=> f[j] <= f[k]
         /\ f[j] = f[k] => j = k
<1>1. f[j] \in 1 .. m /\ f[k] \in 1 .. m /\ n \in Nat /\ m \in Nat
  BY DEF Climbs
<1>2. (j < k => f[j] < f[k]) /\ (k < j => f[k] < f[j])
  BY DEF Climbs
<1>3. f[j] \in Int /\ f[k] \in Int /\ j \in Int /\ k \in Int /\ (j = k => f[j] = f[k])
  BY <1>1
<1> DEFINE a == f[j]
           b == f[k]
<1>4. a \in Int /\ b \in Int /\ (j < k => a < b) /\ (k < j => b < a) /\ (j = k => a = b)
  BY <1>2, <1>3
<1> HIDE DEF a, b
<1>5. (j < k <=> a < b) /\ (j <= k <=> a <= b) /\ (a = b => j = k)
  BY <1>3, <1>4
<1> QED
  BY <1>1, <1>5 DEF a, b

MovedTo(f, S, R, i) ==
  /\ \A j \in S : f[j] \in R
  /\ \A r \in R : r <= f[i] => \E j \in S : r = f[j]

LEMMA CountMoved ==
  ASSUME NEW f, NEW n, NEW m, Climbs(f, n, m),
         NEW S \in SUBSET (1 .. n), NEW R \in SUBSET (1 .. m), NEW i \in 1 .. n,
         MovedTo(f, S, R, i)
  PROVE  Cardinality(UpTo(R, f[i])) = Cardinality(UpTo(S, i))
<1> DEFINE A == UpTo(S, i)
           B == UpTo(R, f[i])
           g == [j \in A |-> f[j]]
<1>1. n \in Nat /\ m \in Nat
  BY DEF Climbs
<1>2. IsFiniteSet(A) /\ IsFiniteSet(B)
  BY <1>1, FinitePlaces
<1>3. A \in SUBSET (1 .. n) /\ \A j \in A : j \in S /\ j <= i
  BY DEF UpTo
<1>4. B = {r \in R : r <= f[i]}
  BY DEF UpTo
<1> HIDE DEF A, B
<1>0. /\ \A j \in S : f[j] \in R
      /\ \A r \in R : r <= f[i] => \E j \in S : r = f[j]
  BY DEF MovedTo
<1>5. \A j \in A : f[j] \in B
  BY <1>0, <1>3, <1>4, ClimbsBack
<1>6. \A r \in B : \E j \in A : r = f[j]
  <2> TAKE r \in B
  <2>1. PICK j \in S : r = f[j]
    BY <1>0, <1>4
  <2>2. j <= i
    BY <1>4, <2>1, ClimbsBack
  <2>3. j \in A
    BY <2>1, <2>2 DEF A, UpTo
  <2> QED
    BY <2>1, <2>3
<1>7. \A j, k \in A : f[j] = f[k] => j = k
  BY <1>3, ClimbsBack
<1>8. g \in Bijection(A, B)
  <2>1. g \in [A -> B] /\ \A j \in A : g[j] = f[j]
    BY <1>5
  <2> HIDE DEF g
  <2> QED
    BY <1>6, <1>7, <2>1 DEF Bijection, Injection, Surjection, IsInjective
<1>9. ExistsBijection(A, B)
  BY <1>8 DEF ExistsBijection
<1> QED
  BY <1>2, <1>9, FS_Bijection DEF A, B

-----------------------------------------------------------------------------
(* A header of t is one of s, or else the last of its kind, with no item   *)
(* of s behind it.                                                         *)
Moved(s, t, f, g) == \E h \in HeadersIn(s) : g = f[h]

Aside(s, t, f, g) ==
  /\ \A h \in HeadersIn(s) : s[h].key = t[g].key => f[h] < g
  /\ \A k \in 1 .. Len(s) : g < f[k] => \E h \in HeadersIn(s) : g < f[h] /\ f[h] <= f[k]

(* The items and headers of s are in t, where f says, and in their order.  *)
Embeds(s, t, f) ==
  /\ IsLabel(s) /\ IsLabel(t)
  /\ Climbs(f, Len(s), Len(t))
  /\ \A k \in 1 .. Len(s) : t[f[k]].key = s[k].key
  /\ \A h \in HeadersIn(s) : t[f[h]].value = s[h].value
  /\ \A g \in HeadersIn(t) : Moved(s, t, f, g) \/ Aside(s, t, f, g)

LEMMA EmbedsKeys ==
  ASSUME NEW s, NEW t, NEW f, Embeds(s, t, f), NEW k \in 1 .. Len(s)
  PROVE  /\ f[k] \in 1 .. Len(t)
         /\ f[k] \in HeadersIn(t) <=> k \in HeadersIn(s)
         /\ f[k] \in ItemsIn(t) <=> k \in ItemsIn(s)
<1>1. IsLabel(s) /\ IsLabel(t) /\ Climbs(f, Len(s), Len(t)) /\ t[f[k]].key = s[k].key
  BY DEF Embeds
<1>2. f[k] \in 1 .. Len(t)
  BY <1>1 DEF Climbs
<1>3. /\ \A i \in 1 .. Len(s) : (i \in HeadersIn(s) <=> s[i].key \in Headers)
                              /\ (i \in ItemsIn(s) <=> s[i].key \notin Headers)
      /\ \A i \in 1 .. Len(t) : (i \in HeadersIn(t) <=> t[i].key \in Headers)
                              /\ (i \in ItemsIn(t) <=> t[i].key \notin Headers)
  BY <1>1, HeadersAndItems
<1> QED
  BY <1>1, <1>2, <1>3

(* A header keeps the name of its part.                                    *)
LEMMA EmbedsParts ==
  ASSUME NEW s, NEW t, NEW f, Embeds(s, t, f), NEW h \in HeadersIn(s)
  PROVE  f[h] \in HeadersIn(t) /\ PartAt(t, f[h]) = PartAt(s, h)
<1> DEFINE key == s[h].key
           name == s[h].value[1]
           S == HeadersOf(s, key, name)
           R == HeadersOf(t, key, name)
<1>1. IsLabel(s) /\ IsLabel(t) /\ Climbs(f, Len(s), Len(t)) /\ t[f[h]].value = s[h].value
  BY DEF Embeds
<1>2. /\ h \in 1 .. Len(s) /\ HeadersIn(s) \in SUBSET (1 .. Len(s))
      /\ DOMAIN s = 1 .. Len(s) /\ DOMAIN t = 1 .. Len(t)
  BY <1>1, HeadersAndItems, LabelIs
<1>3. f[h] \in HeadersIn(t) /\ t[f[h]].key = key
  BY <1>2, EmbedsKeys DEF Embeds
<1>4. S \in SUBSET (1 .. Len(s)) /\ R \in SUBSET (1 .. Len(t))
  BY <1>1, HeadersAre
<1>5. key \in Headers
  BY <1>1, HeaderFacts DEF HeaderKnown
<1>6. \A j \in S : f[j] \in R /\ j \in HeadersIn(s)
  <2> TAKE j \in S
  <2>1. j \in 1 .. Len(s) /\ s[j].key = key /\ s[j].value = <<name>>
    BY <1>4 DEF HeadersOf
  <2>2. j \in HeadersIn(s)
    BY <1>1, <1>5, <2>1, HeadersAndItems
  <2>3. t[f[j]].key = key /\ t[f[j]].value = <<name>> /\ f[j] \in 1 .. Len(t)
    BY <2>1, <2>2, EmbedsKeys DEF Embeds
  <2> QED
    BY <1>2, <2>2, <2>3 DEF HeadersOf
<1>7. \A r \in R : r <= f[h] => \E j \in S : r = f[j]
  <2> SUFFICES ASSUME NEW r \in R, r <= f[h] PROVE \E j \in S : r = f[j]
    OBVIOUS
  <2>1. r \in 1 .. Len(t) /\ t[r].key = key /\ t[r].value = <<name>>
    BY <1>4 DEF HeadersOf
  <2>2. r \in HeadersIn(t)
    BY <1>1, <1>5, <2>1, HeadersAndItems
  <2>3. ~Aside(s, t, f, r)
    <3> SUFFICES ASSUME Aside(s, t, f, r) PROVE FALSE
      OBVIOUS
    <3>1. f[h] < r
      BY <2>1 DEF Aside
    <3>2. f[h] \in 1 .. Len(t)
      BY <1>2, EmbedsKeys
    <3> QED
      BY <2>1, <3>1, <3>2
  <2>4. PICK j \in HeadersIn(s) : r = f[j]
    BY <2>2, <2>3 DEF Embeds, Moved
  <2>5. j \in 1 .. Len(s) /\ t[f[j]].key = s[j].key /\ t[f[j]].value = s[j].value
    BY <1>2 DEF Embeds
  <2>6. j \in S
    BY <1>2, <2>1, <2>4, <2>5 DEF HeadersOf
  <2> QED
    BY <2>4, <2>6
<1>8. Cardinality(UpTo(R, f[h])) = Cardinality(UpTo(S, h))
  <2>1. MovedTo(f, S, R, h)
    BY <1>6, <1>7 DEF MovedTo
  <2>2. Climbs(f, Len(s), Len(t)) /\ h \in 1 .. Len(s)
    BY <1>1, <1>2
  <2> HIDE DEF S, R, key, name
  <2> QED
    BY <1>4, <2>1, <2>2, CountMoved
<1>9. PartAt(t, f[h]) = PartAt(s, h)
  BY <1>1, <1>3, <1>8 DEF PartAt
<1> QED
  BY <1>3, <1>9

(* An item keeps its entry.                                                *)
LEMMA EmbedsEntries ==
  ASSUME NEW s, NEW t, NEW f, Embeds(s, t, f), NEW i \in ItemsIn(s)
  PROVE  f[i] \in ItemsIn(t) /\ EntryOf(t, f[i]) = EntryOf(s, i)
<1> DEFINE h == HeaderBefore(s, i)
<1>1. IsLabel(s) /\ IsLabel(t) /\ Climbs(f, Len(s), Len(t))
  BY DEF Embeds
<1>2. /\ i \in 1 .. Len(s) /\ HeadersIn(s) \in SUBSET (1 .. Len(s))
      /\ HeadersIn(t) \in SUBSET (1 .. Len(t)) /\ Len(s) \in Nat /\ Len(t) \in Nat
      /\ i \notin HeadersIn(s)
  BY <1>1, HeadersAndItems DEF ItemsIn
<1>3. f[i] \in ItemsIn(t) /\ f[i] \in 1 .. Len(t) /\ t[f[i]].key = s[i].key
  BY <1>2, EmbedsKeys DEF Embeds
<1>4. Heads(s, i, h)
  BY <1>1, HeaderBeforeIs
<1> HIDE DEF h
<1>5. h \in HeadersIn(s) /\ h < i /\ h \in 1 .. Len(s)
  BY <1>2, <1>4 DEF Heads
<1>6. f[h] \in HeadersIn(t) /\ PartAt(t, f[h]) = PartAt(s, h)
  BY <1>5, EmbedsParts
<1>7. f[h] < f[i]
  BY <1>1, <1>2, <1>5, ClimbsBack
<1>a. \A j \in HeadersIn(s) : f[j] <= f[i] => f[j] <= f[h]
  <2> SUFFICES ASSUME NEW j \in HeadersIn(s), f[j] <= f[i] PROVE f[j] <= f[h]
    OBVIOUS
  <2>1. j \in 1 .. Len(s) /\ j # i
    BY <1>2
  <2>2. j <= i
    BY <1>1, <1>2, <2>1, ClimbsBack
  <2>3. j < i
    BY <1>2, <2>1, <2>2
  <2>4. j <= h
    BY <1>4, <2>3 DEF Heads
  <2> QED
    BY <1>1, <1>5, <2>1, <2>4, ClimbsBack
<1>8. \A g \in HeadersIn(t) : g < f[i] => g <= f[h]
  <2> SUFFICES ASSUME NEW g \in HeadersIn(t), g < f[i] PROVE g <= f[h]
    OBVIOUS
  <2>0. g \in 1 .. Len(t) /\ f[h] \in 1 .. Len(t)
    BY <1>2, <1>6
  <2>1. CASE Moved(s, t, f, g)
    <3>1. PICK j \in HeadersIn(s) : g = f[j]
      BY <2>1 DEF Moved
    <3>2. f[j] <= f[i]
      BY <1>3, <2>0, <3>1
    <3> QED
      BY <1>a, <3>1, <3>2
  <2>2. CASE Aside(s, t, f, g)
    <3>1. PICK j \in HeadersIn(s) : g < f[j] /\ f[j] <= f[i]
      BY <1>2, <2>2 DEF Aside
    <3>2. f[j] <= f[h] /\ f[j] \in 1 .. Len(t)
      BY <1>2, <1>a, <3>1, EmbedsKeys
    <3> QED
      BY <2>0, <3>1, <3>2
  <2> QED
    BY <2>1, <2>2 DEF Embeds
<1>9. HeaderBefore(t, f[i]) = f[h]
  BY <1>1, <1>3, <1>6, <1>7, <1>8, HeadsOne DEF Heads
<1>10. EntryOf(t, f[i]) = EntryOf(s, i)
  BY <1>3, <1>6, <1>9 DEF EntryOf, h
<1> QED
  BY <1>3, <1>10

-----------------------------------------------------------------------------
(* What becomes of the table.                                              *)
LEMMA EmbedsItems ==
  ASSUME NEW s, NEW t, NEW f, Embeds(s, t, f),
         \A i \in ItemsIn(t) : \E k \in ItemsIn(s) : i = f[k],
         \A k \in ItemsIn(s) : t[f[k]].value = s[k].value,
         Distinct(s)
  PROVE  Distinct(t) /\ ItemsOf(t) = ItemsOf(s)
<1>1. \A k \in ItemsIn(s) : f[k] \in ItemsIn(t) /\ EntryOf(t, f[k]) = EntryOf(s, k)
  BY EmbedsEntries
<1>2. Distinct(t)
  <2> SUFFICES ASSUME NEW i \in ItemsIn(t), NEW j \in ItemsIn(t), EntryOf(t, i) = EntryOf(t, j)
               PROVE  i = j
    BY DEF Distinct
  <2>1. PICK k \in ItemsIn(s) : i = f[k]
    OBVIOUS
  <2>2. PICK l \in ItemsIn(s) : j = f[l]
    OBVIOUS
  <2>3. EntryOf(s, k) = EntryOf(s, l)
    BY <1>1, <2>1, <2>2
  <2> QED
    BY <2>1, <2>2, <2>3 DEF Distinct
<1>3. TableKnown(s) /\ TableKnown(t)
  BY <1>2, TableIs
<1>4. \A d : d \in DOMAIN ItemsOf(t) <=> d \in DOMAIN ItemsOf(s)
  BY <1>1, <1>3 DEF TableKnown
<1>5. \A d \in DOMAIN ItemsOf(s) : ItemsOf(t)[d] = ItemsOf(s)[d]
  BY <1>1, <1>3 DEF TableKnown
<1> DEFINE a == ItemsOf(s)
           b == ItemsOf(t)
<1>6. a = [d \in DOMAIN a |-> a[d]] /\ b = [d \in DOMAIN b |-> b[d]]
  BY ItemsAreFunction
<1> HIDE DEF a, b
<1>7. DOMAIN a = DOMAIN b /\ \A d \in DOMAIN a : b[d] = a[d]
  BY <1>4, <1>5 DEF a, b
<1>8. a = b
  BY <1>6, <1>7
<1> QED
  BY <1>2, <1>8 DEF a, b

(* The table with one item changed, by what it says of every entry.        *)
LEMMA WithItemIs ==
  ASSUME NEW items, NEW entry, NEW value, NEW other,
         other = [d \in DOMAIN other |-> other[d]],
         \A d : d \in DOMAIN other <=> IF d = entry THEN value # <<>> ELSE d \in DOMAIN items,
         \A d \in DOMAIN other : other[d] = IF d = entry THEN value ELSE items[d]
  PROVE  other = Table!WithItem(items, entry, value)
<1> DEFINE D == IF value = <<>> THEN DOMAIN items \ {entry} ELSE DOMAIN items \cup {entry}
<1>1. DOMAIN other = D
  OBVIOUS
<1>2. Table!WithItem(items, entry, value) = [d \in D |-> IF d = entry THEN value ELSE items[d]]
  BY DEF Table!WithItem
<1> QED
  BY <1>1, <1>2

(* An item more.                                                           *)
LEMMA Grows ==
  ASSUME NEW s, NEW t, NEW f, Embeds(s, t, f), Distinct(s), NEW new \in ItemsIn(t),
         \A i \in ItemsIn(t) : i = new \/ \E k \in ItemsIn(s) : i = f[k],
         \A k \in ItemsIn(s) : t[f[k]].value = s[k].value,
         EntryOf(t, new) \notin DOMAIN ItemsOf(s)
  PROVE  /\ Distinct(t)
         /\ ItemsOf(t) = Table!WithItem(ItemsOf(s), EntryOf(t, new), t[new].value)
<1> DEFINE e == EntryOf(t, new)
           a == ItemsOf(s)
           b == ItemsOf(t)
<1>1. \A k \in ItemsIn(s) : f[k] \in ItemsIn(t) /\ EntryOf(t, f[k]) = EntryOf(s, k)
  BY EmbedsEntries
<1>2. TableKnown(s)
  BY TableIs
<1>3. \A k \in ItemsIn(s) : EntryOf(t, f[k]) # e
  BY <1>1, <1>2 DEF TableKnown
<1>4. Distinct(t)
  <2> SUFFICES ASSUME NEW i \in ItemsIn(t), NEW j \in ItemsIn(t), EntryOf(t, i) = EntryOf(t, j)
               PROVE  i = j
    BY DEF Distinct
  <2>1. CASE i = new \/ j = new
    BY <1>3, <2>1
  <2>2. CASE i # new /\ j # new
    <3>1. PICK k \in ItemsIn(s) : i = f[k]
      BY <2>2
    <3>2. PICK l \in ItemsIn(s) : j = f[l]
      BY <2>2
    <3>3. EntryOf(s, k) = EntryOf(s, l)
      BY <1>1, <3>1, <3>2
    <3> QED
      BY <3>1, <3>2, <3>3 DEF Distinct
  <2> QED
    BY <2>1, <2>2
<1>5. TableKnown(t)
  BY <1>4, TableIs
<1>6. IsLabel(t)
  BY DEF Embeds
<1>7. t[new].value # <<>>
  BY <1>6, HeadersAndItems
<1>8. \A d : d \in DOMAIN b <=> d = e \/ d \in DOMAIN a
  <2> TAKE d
  <2>1. ASSUME d \in DOMAIN b PROVE d = e \/ d \in DOMAIN a
    <3>1. PICK i \in ItemsIn(t) : d = EntryOf(t, i)
      BY <1>5, <2>1 DEF TableKnown
    <3>2. CASE i = new
      BY <3>1, <3>2
    <3>3. CASE i # new
      <4>1. PICK k \in ItemsIn(s) : i = f[k]
        BY <3>3
      <4> QED
        BY <1>1, <1>2, <3>1, <4>1 DEF TableKnown
    <3> QED
      BY <3>2, <3>3
  <2>2. ASSUME d = e PROVE d \in DOMAIN b
    BY <1>5, <2>2 DEF TableKnown
  <2>3. ASSUME d \in DOMAIN a PROVE d \in DOMAIN b
    BY <1>1, <1>2, <1>5, <2>3 DEF TableKnown
  <2> QED
    BY <2>1, <2>2, <2>3
<1>9. b[e] = t[new].value
  BY <1>5 DEF TableKnown
<1>10. \A d \in DOMAIN a : b[d] = a[d]
  <2> TAKE d \in DOMAIN a
  <2>1. PICK k \in ItemsIn(s) : d = EntryOf(s, k)
    BY <1>2 DEF TableKnown
  <2>2. a[d] = s[k].value
    BY <1>2, <2>1 DEF TableKnown
  <2>3. b[d] = t[f[k]].value
    BY <1>1, <1>5, <2>1 DEF TableKnown
  <2> QED
    BY <2>2, <2>3
<1>11. b = [d \in DOMAIN b |-> b[d]]
  BY ItemsAreFunction
<1>12. e \notin DOMAIN a
  OBVIOUS
<1> DEFINE v == t[new].value
<1>13. v # <<>> /\ b[e] = v
  BY <1>7, <1>9
<1> HIDE DEF a, b, e, v
<1>14. \A d : d \in DOMAIN b <=> IF d = e THEN v # <<>> ELSE d \in DOMAIN a
  BY <1>8, <1>13
<1>15. \A d \in DOMAIN b : b[d] = IF d = e THEN v ELSE a[d]
  BY <1>8, <1>10, <1>13
<1>16. b = Table!WithItem(a, e, v)
  BY <1>11, <1>14, <1>15, WithItemIs
<1> QED
  BY <1>4, <1>16 DEF a, b, e, v

(* An item less.                                                           *)
LEMMA Shrinks ==
  ASSUME NEW s, NEW t, NEW f, Embeds(s, t, f), Distinct(t), NEW gone \in ItemsIn(t),
         \A i \in ItemsIn(t) : i = gone \/ \E k \in ItemsIn(s) : i = f[k],
         \A k \in ItemsIn(s) : t[f[k]].value = s[k].value /\ f[k] # gone
  PROVE  /\ Distinct(s)
         /\ ItemsOf(s) = Table!WithItem(ItemsOf(t), EntryOf(t, gone), <<>>)
<1> DEFINE e == EntryOf(t, gone)
           a == ItemsOf(t)
           b == ItemsOf(s)
<1>1. \A k \in ItemsIn(s) : f[k] \in ItemsIn(t) /\ EntryOf(t, f[k]) = EntryOf(s, k)
  BY EmbedsEntries
<1>2. TableKnown(t)
  BY TableIs
<1>3. \A k \in ItemsIn(s) : EntryOf(s, k) # e
  BY <1>1 DEF Distinct
<1>4. Distinct(s)
  <2> SUFFICES ASSUME NEW i \in ItemsIn(s), NEW j \in ItemsIn(s), EntryOf(s, i) = EntryOf(s, j)
               PROVE  i = j
    BY DEF Distinct
  <2>1. f[i] = f[j]
    BY <1>1 DEF Distinct
  <2>2. Climbs(f, Len(s), Len(t)) /\ IsLabel(s)
    BY DEF Embeds
  <2>3. i \in 1 .. Len(s) /\ j \in 1 .. Len(s)
    BY <2>2, HeadersAndItems
  <2> QED
    BY <2>1, <2>2, <2>3, ClimbsBack
<1>5. TableKnown(s)
  BY <1>4, TableIs
<1>8. \A d : d \in DOMAIN b <=> d # e /\ d \in DOMAIN a
  <2> TAKE d
  <2>1. ASSUME d \in DOMAIN b PROVE d # e /\ d \in DOMAIN a
    <3>1. PICK k \in ItemsIn(s) : d = EntryOf(s, k)
      BY <1>5, <2>1 DEF TableKnown
    <3> QED
      BY <1>1, <1>2, <1>3, <3>1 DEF TableKnown
  <2>2. ASSUME d \in DOMAIN a, d # e PROVE d \in DOMAIN b
    <3>1. PICK i \in ItemsIn(t) : d = EntryOf(t, i)
      BY <1>2, <2>2 DEF TableKnown
    <3>2. PICK k \in ItemsIn(s) : i = f[k]
      BY <2>2, <3>1
    <3> QED
      BY <1>1, <1>5, <3>1, <3>2 DEF TableKnown
  <2> QED
    BY <2>1, <2>2
<1>10. \A d \in DOMAIN b : b[d] = a[d]
  <2> TAKE d \in DOMAIN b
  <2>1. PICK k \in ItemsIn(s) : d = EntryOf(s, k)
    BY <1>5 DEF TableKnown
  <2>2. b[d] = s[k].value
    BY <1>5, <2>1 DEF TableKnown
  <2>3. a[d] = t[f[k]].value
    BY <1>1, <1>2, <2>1 DEF TableKnown
  <2> QED
    BY <2>2, <2>3
<1>11. b = [d \in DOMAIN b |-> b[d]]
  BY ItemsAreFunction
<1> HIDE DEF a, b, e
<1>14. \A d : d \in DOMAIN b <=> IF d = e THEN <<>> # <<>> ELSE d \in DOMAIN a
  BY <1>8
<1>15. \A d \in DOMAIN b : b[d] = IF d = e THEN <<>> ELSE a[d]
  BY <1>8, <1>10
<1>16. b = Table!WithItem(a, e, <<>>)
  BY <1>11, <1>14, <1>15, WithItemIs
<1> QED
  BY <1>4, <1>16 DEF a, b, e

(* An item with other elements.                                            *)
LEMMA Changes ==
  ASSUME NEW s, NEW t, NEW f, Embeds(s, t, f), Distinct(s), NEW at \in ItemsIn(s),
         \A i \in ItemsIn(t) : \E k \in ItemsIn(s) : i = f[k],
         \A k \in ItemsIn(s) : k # at => t[f[k]].value = s[k].value
  PROVE  /\ Distinct(t)
         /\ ItemsOf(t) = Table!WithItem(ItemsOf(s), EntryOf(s, at), t[f[at]].value)
<1> DEFINE e == EntryOf(s, at)
           a == ItemsOf(s)
           b == ItemsOf(t)
           v == t[f[at]].value
<1>1. \A k \in ItemsIn(s) : f[k] \in ItemsIn(t) /\ EntryOf(t, f[k]) = EntryOf(s, k)
  BY EmbedsEntries
<1>2. Distinct(t)
  <2> SUFFICES ASSUME NEW i \in ItemsIn(t), NEW j \in ItemsIn(t), EntryOf(t, i) = EntryOf(t, j)
               PROVE  i = j
    BY DEF Distinct
  <2>1. PICK k \in ItemsIn(s) : i = f[k]
    OBVIOUS
  <2>2. PICK l \in ItemsIn(s) : j = f[l]
    OBVIOUS
  <2>3. EntryOf(s, k) = EntryOf(s, l)
    BY <1>1, <2>1, <2>2
  <2> QED
    BY <2>1, <2>2, <2>3 DEF Distinct
<1>3. TableKnown(s) /\ TableKnown(t)
  BY <1>2, TableIs
<1>4. \A d : d \in DOMAIN b <=> d \in DOMAIN a
  BY <1>1, <1>3 DEF TableKnown
<1>5. e \in DOMAIN a /\ b[e] = v
  BY <1>1, <1>3 DEF TableKnown
<1>6. IsLabel(t) /\ f[at] \in ItemsIn(t)
  BY <1>1 DEF Embeds
<1>7. v # <<>>
  BY <1>6, HeadersAndItems
<1>10. \A d \in DOMAIN a : d # e => b[d] = a[d]
  <2> SUFFICES ASSUME NEW d \in DOMAIN a, d # e PROVE b[d] = a[d]
    OBVIOUS
  <2>1. PICK k \in ItemsIn(s) : d = EntryOf(s, k)
    BY <1>3 DEF TableKnown
  <2>2. a[d] = s[k].value /\ k # at
    BY <1>3, <2>1 DEF TableKnown
  <2>3. b[d] = t[f[k]].value
    BY <1>1, <1>3, <2>1 DEF TableKnown
  <2> QED
    BY <2>2, <2>3
<1>11. b = [d \in DOMAIN b |-> b[d]]
  BY ItemsAreFunction
<1> HIDE DEF a, b, e, v
<1>14. \A d : d \in DOMAIN b <=> IF d = e THEN v # <<>> ELSE d \in DOMAIN a
  BY <1>4, <1>5, <1>7
<1>15. \A d \in DOMAIN b : b[d] = IF d = e THEN v ELSE a[d]
  BY <1>4, <1>5, <1>10
<1>16. b = Table!WithItem(a, e, v)
  BY <1>11, <1>14, <1>15, WithItemIs
<1> QED
  BY <1>2, <1>16 DEF a, b, e, v

-----------------------------------------------------------------------------
(* The tasks.                                                              *)
LEMMA TasksMoved ==
  ASSUME NEW s, NEW t, NEW f, Embeds(s, t, f), NEW h \in Listed(s, TaskKey)
  PROVE  /\ f[h] \in Listed(t, TaskKey)
         /\ Cardinality(UpTo(Listed(t, TaskKey), f[h])) = Cardinality(UpTo(Listed(s, TaskKey), h))
         /\ t[f[h]].value[1] = s[h].value[1]
<1> DEFINE S == Listed(s, TaskKey)
           R == Listed(t, TaskKey)
<1>1. IsLabel(s) /\ IsLabel(t) /\ Climbs(f, Len(s), Len(t))
  BY DEF Embeds
<1>2. DOMAIN s = 1 .. Len(s) /\ DOMAIN t = 1 .. Len(t)
  BY <1>1, LabelIs
<1>3. TaskKey \in Headers
  BY DEF Headers
<1>4. /\ \A i \in S : i \in 1 .. Len(s) /\ s[i].key = TaskKey
      /\ \A i \in R : i \in 1 .. Len(t) /\ t[i].key = TaskKey
  BY <1>2 DEF Listed
<1>a. /\ \A i \in S : i \in HeadersIn(s)
      /\ \A i \in R : i \in HeadersIn(t)
  BY <1>1, <1>3, <1>4, HeadersAndItems
<1>b. \A i \in S : t[f[i]].key = TaskKey
  BY <1>4 DEF Embeds
<1>c. \A i \in S : f[i] \in 1 .. Len(t)
  BY <1>4, EmbedsKeys
<1>5. /\ \A i \in S : i \in HeadersIn(s) /\ t[f[i]].key = TaskKey /\ f[i] \in 1 .. Len(t)
      /\ \A i \in R : i \in HeadersIn(t)
  BY <1>a, <1>b, <1>c
<1>6. \A i \in S : f[i] \in R
  BY <1>2, <1>5 DEF Listed
<1>7. \A r \in R : r <= f[h] => \E j \in S : r = f[j]
  <2> SUFFICES ASSUME NEW r \in R, r <= f[h] PROVE \E j \in S : r = f[j]
    OBVIOUS
  <2>1. r \in 1 .. Len(t) /\ t[r].key = TaskKey /\ f[h] \in 1 .. Len(t) /\ r \in Nat
    BY <1>4, <1>5
  <2>2. ~Aside(s, t, f, r)
    <3> SUFFICES ASSUME Aside(s, t, f, r) PROVE FALSE
      OBVIOUS
    <3>1. s[h].key = t[r].key /\ h \in HeadersIn(s)
      BY <1>4, <1>5, <2>1
    <3>2. f[h] < r
      BY <3>1 DEF Aside
    <3> QED
      BY <2>1, <3>2
  <2>3. PICK j \in HeadersIn(s) : r = f[j]
    BY <1>5, <2>2 DEF Embeds, Moved
  <2>4. j \in 1 .. Len(s)
    BY <1>1, HeadersAndItems
  <2>5. s[j].key = TaskKey
    BY <2>1, <2>3, <2>4 DEF Embeds
  <2> QED
    BY <1>2, <2>3, <2>4, <2>5 DEF Listed
<1>8. S \in SUBSET (1 .. Len(s)) /\ R \in SUBSET (1 .. Len(t)) /\ MovedTo(f, S, R, h) /\ h \in 1 .. Len(s)
  BY <1>4, <1>6, <1>7 DEF MovedTo
<1>9. Cardinality(UpTo(R, f[h])) = Cardinality(UpTo(S, h))
  <2> HIDE DEF S, R
  <2> QED
    BY <1>1, <1>8, CountMoved
<1>10. t[f[h]].value[1] = s[h].value[1]
  BY <1>5 DEF Embeds
<1> QED
  BY <1>6, <1>9, <1>10

LEMMA NamesAreFunction ==
  ASSUME NEW label, NEW key
  PROVE  NamesIn(label, key) =
           [k \in 1 .. Cardinality(Listed(label, key)) |-> NamesIn(label, key)[k]]
BY DEF NamesIn

(* The names of s are the first of t's.                                    *)
LEMMA NamesMoved ==
  ASSUME NEW s, NEW t, NEW f, Embeds(s, t, f), NEW k \in 1 .. Cardinality(Listed(s, TaskKey))
  PROVE  NamesIn(t, TaskKey)[k] = NamesIn(s, TaskKey)[k]
<1> DEFINE S == Listed(s, TaskKey)
           R == Listed(t, TaskKey)
<1>1. IsLabel(s) /\ IsLabel(t)
  BY DEF Embeds
<1>2. NamesKnown(s, TaskKey) /\ NamesKnown(t, TaskKey)
  BY <1>1, NamesAre
<1>3. S \in SUBSET (1 .. Len(s)) /\ Len(s) \in Nat
  BY <1>2 DEF NamesKnown
<1>4. PICK h \in S : Cardinality(UpTo(S, h)) = k
  <2> HIDE DEF S
  <2>1. k \in 1 .. Cardinality(S)
    BY DEF S
  <2> QED
    BY <1>3, <2>1, CountIsOnto
<1>5. f[h] \in R /\ Cardinality(UpTo(R, f[h])) = k /\ t[f[h]].value[1] = s[h].value[1]
  BY <1>4, TasksMoved
<1>6. NamesIn(s, TaskKey)[k] = s[h].value[1]
  BY <1>2, <1>4 DEF NamesKnown
<1>7. NamesIn(t, TaskKey)[k] = t[f[h]].value[1]
  BY <1>2, <1>5 DEF NamesKnown
<1> QED
  BY <1>5, <1>6, <1>7

LEMMA NamesStay ==
  ASSUME NEW s, NEW t, NEW f, Embeds(s, t, f),
         \A g \in Listed(t, TaskKey) : \E h \in Listed(s, TaskKey) : g = f[h]
  PROVE  NamesIn(t, TaskKey) = NamesIn(s, TaskKey)
<1> DEFINE S == Listed(s, TaskKey)
           R == Listed(t, TaskKey)
           n == Len(s)
<1>1. IsLabel(s) /\ IsLabel(t) /\ Climbs(f, Len(s), Len(t))
  BY DEF Embeds
<1>2. n \in Nat /\ n >= 1 /\ n \in 1 .. n
  BY <1>1, LabelIs
<1>3. S \in SUBSET (1 .. n) /\ R \in SUBSET (1 .. Len(t))
  BY <1>1, NamesAre DEF NamesKnown
<1>4. \A h \in S : f[h] \in R
  BY TasksMoved
<1>5. MovedTo(f, S, R, n)
  BY <1>4 DEF MovedTo
<1>6. \A r \in R : r <= f[n]
  <2> TAKE r \in R
  <2>1. PICK h \in S : r = f[h]
    OBVIOUS
  <2>2. h <= n /\ h \in 1 .. n
    BY <1>2, <1>3
  <2> QED
    BY <1>1, <1>2, <2>1, <2>2, ClimbsBack
<1>7. UpTo(S, n) = S /\ UpTo(R, f[n]) = R
  <2>1. \A h \in S : h <= n
    BY <1>2, <1>3
  <2> QED
    BY <1>6, <2>1 DEF UpTo
<1>8. Cardinality(R) = Cardinality(S)
  <2>1. Climbs(f, n, Len(t))
    BY <1>1
  <2> HIDE DEF S, R, n
  <2>2. Cardinality(UpTo(R, f[n])) = Cardinality(UpTo(S, n))
    BY <1>2, <1>3, <1>5, <2>1, CountMoved
  <2> QED
    BY <1>7, <2>2
<1> DEFINE a == NamesIn(s, TaskKey)
           b == NamesIn(t, TaskKey)
           c == Cardinality(S)
<1>9. a = [k \in 1 .. c |-> a[k]] /\ b = [k \in 1 .. c |-> b[k]]
  BY <1>8, NamesAreFunction
<1>10. \A k \in 1 .. c : b[k] = a[k]
  BY NamesMoved
<1> HIDE DEF a, b, c
<1>11. a = b
  BY <1>9, <1>10
<1> QED
  BY <1>11 DEF a, b

-----------------------------------------------------------------------------
(* Edits, as renumberings.                                                 *)
Staying(n) == [k \in 1 .. n |-> k]
Shifting(n, j) == [k \in 1 .. n |-> IF k < j THEN k ELSE k + 1]

LEMMA StayingClimbs ==
  ASSUME NEW n \in Nat
  PROVE  Climbs(Staying(n), n, n) /\ \A k \in 1 .. n : Staying(n)[k] = k
BY DEF Climbs, Staying

ShiftKnown(f, n, j) ==
  /\ \A k \in 1 .. n : k < j => f[k] = k
  /\ \A k \in 1 .. n : k >= j => f[k] = k + 1
  /\ \A k \in 1 .. n : f[k] # j
  /\ \A i \in 1 .. (n + 1) : i # j => \E k \in 1 .. n : i = f[k]

LEMMA ShiftingClimbs ==
  ASSUME NEW n \in Nat, NEW j \in 1 .. (n + 1)
  PROVE  Climbs(Shifting(n, j), n, n + 1) /\ ShiftKnown(Shifting(n, j), n, j)
<1> DEFINE f == Shifting(n, j)
<1>1. \A k \in 1 .. n : f[k] = IF k < j THEN k ELSE k + 1
  BY DEF Shifting
<1>2. f \in [1 .. n -> 1 .. (n + 1)]
  BY DEF Shifting
<1> HIDE DEF f
<1>3. \A i, k \in 1 .. n : i < k => f[i] < f[k]
  BY <1>1
<1>4. ASSUME NEW i \in 1 .. (n + 1), i # j PROVE \E k \in 1 .. n : i = f[k]
  <2>1. CASE i < j
    <3>1. i \in 1 .. n /\ f[i] = i
      BY <1>1, <2>1
    <3> QED
      BY <3>1
  <2>2. CASE i > j
    <3>1. i - 1 \in 1 .. n /\ f[i - 1] = i
      BY <1>1, <2>2
    <3> QED
      BY <3>1
  <2> QED
    BY <1>4, <2>1, <2>2
<1>5. \A k \in 1 .. n : f[k] # j
  BY <1>1
<1>6. ShiftKnown(f, n, j)
  BY <1>1, <1>4, <1>5 DEF ShiftKnown
<1>7. Climbs(f, n, n + 1)
  BY <1>2, <1>3 DEF Climbs
<1> QED
  BY <1>6, <1>7 DEF f

Carries(s, t, f) ==
  \A k \in 1 .. Len(s) : t[f[k]].key = s[k].key /\ t[f[k]].value = s[k].value

Widens(s, t, f, j) ==
  /\ Embeds(s, t, f)
  /\ \A i \in ItemsIn(t) : i = j \/ \E k \in ItemsIn(s) : i = f[k]
  /\ \A k \in ItemsIn(s) : f[k] # j /\ k \in 1 .. Len(s)

(* Items and headers of t that are those of s, with one more.              *)
LEMMA ShiftEmbeds ==
  ASSUME NEW s, NEW t, IsLabel(s), IsLabel(t), NEW n, n = Len(s), Len(t) = n + 1, NEW j \in 2 .. (n + 1),
         NEW f, f = Shifting(n, j),
         Carries(s, t, f),
         t[j].key \in Headers => Aside(s, t, f, j)
  PROVE  Widens(s, t, f, j)
<1>1. n \in Nat /\ j \in 1 .. (n + 1)
  BY LabelIs
<1>c. \A k \in 1 .. n : t[f[k]].key = s[k].key /\ t[f[k]].value = s[k].value
  BY DEF Carries
<1>2. Climbs(f, n, n + 1) /\ ShiftKnown(f, n, j)
  BY <1>1, ShiftingClimbs
<1>3. /\ HeadersIn(s) \in SUBSET (1 .. n) /\ HeadersIn(t) \in SUBSET (1 .. (n + 1))
      /\ ItemsIn(s) \in SUBSET (2 .. n) /\ ItemsIn(t) \in SUBSET (2 .. (n + 1))
      /\ \A i \in 1 .. n : (i \in HeadersIn(s) <=> s[i].key \in Headers)
                         /\ (i \in ItemsIn(s) <=> s[i].key \notin Headers)
      /\ \A i \in 1 .. (n + 1) : (i \in HeadersIn(t) <=> t[i].key \in Headers)
                               /\ (i \in ItemsIn(t) <=> t[i].key \notin Headers)
  BY HeadersAndItems
<1>a. \A k \in 1 .. n : f[k] # j
  BY <1>2 DEF ShiftKnown
<1>b. \A i \in 1 .. (n + 1) : i # j => \E k \in 1 .. n : i = f[k]
  BY <1>2 DEF ShiftKnown
<1>4. ASSUME NEW g \in HeadersIn(t) PROVE Moved(s, t, f, g) \/ Aside(s, t, f, g)
  <2>1. g \in 1 .. (n + 1) /\ t[g].key \in Headers
    BY <1>3
  <2>2. CASE g = j
    BY <2>1, <2>2
  <2>3. CASE g # j
    <3>1. PICK k \in 1 .. n : g = f[k]
      BY <1>b, <2>1, <2>3
    <3>2. k \in HeadersIn(s)
      BY <1>3, <1>c, <2>1, <3>1
    <3> QED
      BY <3>1, <3>2 DEF Moved
  <2> QED
    BY <2>2, <2>3
<1>5. Embeds(s, t, f)
  BY <1>2, <1>3, <1>4, <1>c DEF Embeds
<1>6. ASSUME NEW i \in ItemsIn(t), i # j PROVE \E k \in ItemsIn(s) : i = f[k]
  <2>1. i \in 1 .. (n + 1) /\ t[i].key \notin Headers
    BY <1>3
  <2>2. PICK k \in 1 .. n : i = f[k]
    BY <1>6, <1>b, <2>1
  <2>3. k \in ItemsIn(s)
    BY <1>3, <1>c, <2>1, <2>2
  <2> QED
    BY <2>2, <2>3
<1>7. \A k \in ItemsIn(s) : f[k] # j /\ k \in 1 .. n
  BY <1>3, <1>a
<1> QED
  BY <1>5, <1>6, <1>7 DEF Widens

InsertMoved(label, n, j, item) ==
  /\ Len(Inserted(label, j, item)) = n + 1 /\ Inserted(label, j, item)[j] = item
  /\ \A k \in 1 .. n : Inserted(label, j, item)[Shifting(n, j)[k]] = label[k]

LEMMA InsertMoves ==
  ASSUME NEW label, IsLabel(label), NEW n, n = Len(label), NEW j \in 2 .. (n + 1), NEW item \in Element
  PROVE  InsertMoved(label, n, j, item)
<1>1. label \in Seq(Element) /\ n \in Nat /\ j \in 1 .. (Len(label) + 1) /\ j \in 1 .. (n + 1)
  BY LabelIs
<1>2. InsertKnown(label, j, item)
  BY <1>1, InsertIs
<1>3. ShiftKnown(Shifting(n, j), n, j)
  BY <1>1, ShiftingClimbs
<1> DEFINE t == Inserted(label, j, item)
           f == Shifting(n, j)
<1>4. Len(t) = n + 1 /\ t[j] = item
  BY <1>2 DEF InsertKnown
<1>5. /\ \A k \in 1 .. (j - 1) : t[k] = label[k]
      /\ \A k \in j .. n : t[k + 1] = label[k]
  BY <1>2 DEF InsertKnown
<1>6. /\ \A k \in 1 .. n : k < j => f[k] = k
      /\ \A k \in 1 .. n : k >= j => f[k] = k + 1
  BY <1>3 DEF ShiftKnown
<1> HIDE DEF t, f
<1>7. ASSUME NEW k \in 1 .. n PROVE t[f[k]] = label[k]
  <2>1. CASE k < j
    BY <1>1, <1>5, <1>6, <2>1
  <2>2. CASE k >= j
    BY <1>1, <1>5, <1>6, <2>2
  <2> QED
    BY <1>1, <2>1, <2>2
<1> QED
  BY <1>4, <1>7 DEF t, f, InsertMoved

-----------------------------------------------------------------------------
(* An item put in behind the header h, or items of its part.               *)
LEMMA InsertTable ==
  ASSUME NEW label, IsLabel(label), Distinct(label), NEW j \in 2 .. (Len(label) + 1),
         NEW item \in Element, item.key \in Keys, item.value # <<>>,
         NEW h \in HeadersIn(label), h < j,
         \A k \in 1 .. Len(label) : h < k /\ k < j => label[k].key \notin Headers,
         <<PartAt(label, h), item.key>> \notin DOMAIN ItemsOf(label)
  PROVE  /\ IsLabel(Inserted(label, j, item)) /\ Distinct(Inserted(label, j, item))
         /\ ItemsOf(Inserted(label, j, item)) =
              Table!WithItem(ItemsOf(label), <<PartAt(label, h), item.key>>, item.value)
         /\ NamesIn(Inserted(label, j, item), TaskKey) = NamesIn(label, TaskKey)
<1> DEFINE n == Len(label)
           t == Inserted(label, j, item)
           f == Shifting(n, j)
<1>1. item.key \notin Headers /\ item.key # SystemKey /\ item.key # PropertyKey /\ item.key # TaskKey
  BY OrdinaryKey
<1>2. IsLabel(t)
  BY <1>1, InsertStaysLabel
<1>3. n \in Nat /\ HeadersIn(label) \in SUBSET (1 .. n) /\ j \in 1 .. (n + 1) /\ DOMAIN t = 1 .. Len(t)
  BY <1>2, HeadersAndItems, LabelIs
<1>4. Len(t) = n + 1 /\ t[j] = item /\ \A k \in 1 .. n : t[f[k]] = label[k]
  <2>1. InsertMoved(label, n, j, item)
    BY InsertMoves
  <2> QED
    BY <2>1 DEF InsertMoved
<1>5. ShiftKnown(f, n, j)
  BY <1>3, ShiftingClimbs
<1> HIDE DEF t, f
<1>6. /\ Embeds(label, t, f)
      /\ \A i \in ItemsIn(t) : i = j \/ \E k \in ItemsIn(label) : i = f[k]
      /\ \A k \in ItemsIn(label) : f[k] # j /\ k \in 1 .. n
  <2>1. f = Shifting(n, j) /\ t[j].key \notin Headers
    BY <1>1, <1>4 DEF f
  <2>2. Carries(label, t, f)
    BY <1>4 DEF Carries
  <2>3. Len(t) = n + 1 /\ n = Len(label) /\ j \in 2 .. (n + 1)
    BY <1>4
  <2> HIDE DEF n
  <2>4. t[j].key \in Headers => Aside(label, t, f, j)
    BY <2>1
  <2>5. Widens(label, t, f, j)
    BY <1>2, <2>1, <2>2, <2>3, <2>4, ShiftEmbeds
  <2> QED
    BY <2>3, <2>5 DEF Widens
<1>7. j \in ItemsIn(t)
  BY <1>1, <1>2, <1>3, <1>4, HeadersAndItems
<1>8. f[h] = h /\ h \in HeadersIn(t) /\ PartAt(t, h) = PartAt(label, h)
  <2>1. f[h] = h
    BY <1>3, <1>5 DEF ShiftKnown
  <2> QED
    BY <1>6, <2>1, EmbedsParts
<1>9. \A k \in 1 .. Len(t) : h < k /\ k < j => t[k].key \notin Headers
  <2> SUFFICES ASSUME NEW k \in 1 .. Len(t), h < k, k < j PROVE t[k].key \notin Headers
    OBVIOUS
  <2>1. k \in 1 .. n
    BY <1>3, <1>4
  <2>2. f[k] = k
    BY <1>5, <2>1 DEF ShiftKnown
  <2>3. t[k] = label[k]
    BY <1>4, <2>1, <2>2
  <2> QED
    BY <2>1, <2>3
<1>10. HeaderBefore(t, j) = h
  <2>1. j \in 1 .. Len(t)
    BY <1>3, <1>4
  <2> QED
    BY <1>2, <1>8, <1>9, <2>1, HeadsBetween
<1>11. EntryOf(t, j) = <<PartAt(label, h), item.key>>
  BY <1>4, <1>8, <1>10 DEF EntryOf
<1>12. Distinct(t) /\ ItemsOf(t) = Table!WithItem(ItemsOf(label), EntryOf(t, j), t[j].value)
  BY <1>4, <1>6, <1>7, <1>11, Grows
<1>13. NamesIn(t, TaskKey) = NamesIn(label, TaskKey)
  <2>1. \A g \in Listed(t, TaskKey) : \E k \in Listed(label, TaskKey) : g = f[k]
    <3> TAKE g \in Listed(t, TaskKey)
    <3>1. g \in 1 .. (n + 1) /\ t[g].key = TaskKey
      BY <1>3, <1>4 DEF Listed
    <3>2. g # j
      BY <1>1, <1>4, <3>1
    <3>3. PICK k \in 1 .. n : g = f[k]
      BY <1>5, <3>1, <3>2 DEF ShiftKnown
    <3>4. label[k].key = TaskKey /\ DOMAIN label = 1 .. n
      BY <1>4, <3>1, <3>3, LabelIs
    <3> QED
      BY <3>3, <3>4 DEF Listed
  <2> QED
    BY <1>6, <2>1, NamesStay
<1> QED
  BY <1>2, <1>4, <1>11, <1>12, <1>13 DEF t

-----------------------------------------------------------------------------
(* An item written again.                                                  *)
LEMMA RewriteTable ==
  ASSUME NEW label, IsLabel(label), Distinct(label), NEW i \in ItemsIn(label),
         NEW value \in Seq(STRING), value # <<>>
  PROVE  /\ IsLabel(Rewritten(label, i, value)) /\ Distinct(Rewritten(label, i, value))
         /\ ItemsOf(Rewritten(label, i, value)) =
              Table!WithItem(ItemsOf(label), EntryOf(label, i), value)
         /\ NamesIn(Rewritten(label, i, value), TaskKey) = NamesIn(label, TaskKey)
<1> DEFINE n == Len(label)
           t == Rewritten(label, i, value)
           f == Staying(n)
<1>1. /\ label \in Seq(Element) /\ n \in Nat /\ i \in 1 .. n /\ label[i].key \in Keys
      /\ DOMAIN label = 1 .. n
      /\ HeadersIn(label) \in SUBSET (1 .. n) /\ ItemsIn(label) \in SUBSET (2 .. n)
      /\ \A k \in 1 .. n : (k \in HeadersIn(label) <=> label[k].key \in Headers)
                         /\ (k \in ItemsIn(label) <=> label[k].key \notin Headers)
  BY HeadersAndItems, LabelIs
<1>2. IsLabel(t)
  BY <1>1, RewriteStaysLabel
<1>3. RewriteKnown(label, i, value)
  BY <1>1, RewriteIs
<1>4. /\ Len(t) = n /\ t[i].value = value
      /\ \A k \in 1 .. n : k # i => t[k] = label[k]
      /\ \A k \in 1 .. n : t[k].key = label[k].key
  BY <1>3 DEF RewriteKnown
<1>5. Climbs(f, n, n) /\ \A k \in 1 .. n : f[k] = k
  BY <1>1, StayingClimbs
<1> HIDE DEF t, f
<1>6. /\ HeadersIn(t) \in SUBSET (1 .. n) /\ ItemsIn(t) \in SUBSET (2 .. n) /\ DOMAIN t = 1 .. n
      /\ \A k \in 1 .. n : (k \in HeadersIn(t) <=> t[k].key \in Headers)
                         /\ (k \in ItemsIn(t) <=> t[k].key \notin Headers)
  BY <1>2, <1>4, HeadersAndItems, LabelIs
<1>7. Embeds(label, t, f)
  <2>1. \A k \in 1 .. n : t[f[k]].key = label[k].key
    BY <1>4, <1>5
  <2>2. \A h \in HeadersIn(label) : t[f[h]].value = label[h].value
    <3> TAKE h \in HeadersIn(label)
    <3>1. h \in 1 .. n /\ h # i
      BY <1>1
    <3> QED
      BY <1>4, <1>5, <3>1
  <2>3. \A g \in HeadersIn(t) : Moved(label, t, f, g)
    <3> TAKE g \in HeadersIn(t)
    <3>1. g \in 1 .. n /\ g \in HeadersIn(label)
      BY <1>1, <1>4, <1>6
    <3> QED
      BY <1>5, <3>1 DEF Moved
  <2> QED
    BY <1>2, <1>4, <1>5, <2>1, <2>2, <2>3 DEF Embeds
<1>8. \A k \in ItemsIn(t) : \E l \in ItemsIn(label) : k = f[l]
  <2> TAKE k \in ItemsIn(t)
  <2>1. k \in 1 .. n /\ k \in ItemsIn(label)
    BY <1>1, <1>4, <1>6
  <2> QED
    BY <1>5, <2>1
<1>9. \A k \in ItemsIn(label) : k # i => t[f[k]].value = label[k].value
  <2> TAKE k \in ItemsIn(label)
  <2>1. k \in 1 .. n
    BY <1>1
  <2> QED
    BY <1>4, <1>5, <2>1
<1>10. Distinct(t) /\ ItemsOf(t) = Table!WithItem(ItemsOf(label), EntryOf(label, i), t[f[i]].value)
  BY <1>7, <1>8, <1>9, Changes
<1>11. t[f[i]].value = value
  BY <1>1, <1>4, <1>5
<1>12. NamesIn(t, TaskKey) = NamesIn(label, TaskKey)
  <2>1. \A g \in Listed(t, TaskKey) : \E k \in Listed(label, TaskKey) : g = f[k]
    BY <1>1, <1>4, <1>5, <1>6 DEF Listed
  <2> QED
    BY <1>7, <2>1, NamesStay
<1> QED
  BY <1>2, <1>10, <1>11, <1>12 DEF t

-----------------------------------------------------------------------------
(* An item cut out.                                                        *)
LEMMA CutMoves ==
  ASSUME NEW label, IsLabel(label), NEW n, n + 1 = Len(label), NEW i \in 2 .. (n + 1), n \in Nat
  PROVE  Len(Cut(label, i)) = n /\ Carries(Cut(label, i), label, Shifting(n, i))
<1>1. label \in Seq(Element) /\ i \in 2 .. Len(label) /\ i \in 1 .. (n + 1)
  BY LabelIs
<1>2. CutKnown(label, i)
  BY <1>1, CutIs
<1>3. ShiftKnown(Shifting(n, i), n, i)
  BY <1>1, ShiftingClimbs
<1> DEFINE t == Cut(label, i)
           f == Shifting(n, i)
<1>4. Len(t) = n
  BY <1>2 DEF CutKnown
<1>5. /\ \A k \in 1 .. (i - 2) : t[k] = label[k]
      /\ \A k \in i .. n : t[k] = label[k + 1]
      /\ t[i - 1] = Before(label, i)
  BY <1>2 DEF CutKnown
<1>6. /\ \A k \in 1 .. n : k < i => f[k] = k
      /\ \A k \in 1 .. n : k >= i => f[k] = k + 1
  BY <1>3 DEF ShiftKnown
<1>7. i - 1 \in 1 .. Len(label)
  BY <1>1
<1>8. Before(label, i).key = label[i - 1].key /\ Before(label, i).value = label[i - 1].value
  <2>1. label[i - 1] \in Element
    BY <1>1, <1>7
  <2> QED
    BY <2>1 DEF Before, Element
<1> HIDE DEF t, f
<1>9. ASSUME NEW k \in 1 .. n PROVE label[f[k]].key = t[k].key /\ label[f[k]].value = t[k].value
  <2>1. CASE k < i - 1
    BY <1>1, <1>5, <1>6, <2>1
  <2>2. CASE k = i - 1
    BY <1>1, <1>5, <1>6, <1>8, <2>2
  <2>3. CASE k >= i
    BY <1>1, <1>5, <1>6, <2>3
  <2> QED
    BY <1>1, <2>1, <2>2, <2>3
<1>10. Carries(t, label, f)
  BY <1>4, <1>9 DEF Carries
<1> QED
  BY <1>4, <1>10 DEF t, f

LEMMA CutTable ==
  ASSUME NEW label, IsLabel(label), Distinct(label), NEW i \in ItemsIn(label)
  PROVE  /\ IsLabel(Cut(label, i)) /\ Distinct(Cut(label, i))
         /\ ItemsOf(Cut(label, i)) = Table!WithItem(ItemsOf(label), EntryOf(label, i), <<>>)
         /\ NamesIn(Cut(label, i), TaskKey) = NamesIn(label, TaskKey)
<1> DEFINE n == Len(label) - 1
           t == Cut(label, i)
           f == Shifting(n, i)
<1>1. /\ Len(label) \in Nat /\ i \in 2 .. Len(label) /\ i \in 1 .. Len(label) /\ label[i].key \in Keys
      /\ DOMAIN label = 1 .. Len(label)
  BY HeadersAndItems, LabelIs
<1>2. IsLabel(t)
  BY <1>1, CutStaysLabel
<1>3. n \in Nat /\ n + 1 = Len(label) /\ i \in 2 .. (n + 1) /\ i \in 1 .. (n + 1)
  BY <1>1
<1> HIDE DEF n
<1>4. Len(t) = n /\ Carries(t, label, f)
  BY <1>3, CutMoves
<1>5. ShiftKnown(f, n, i)
  BY <1>3, ShiftingClimbs
<1>6. label[i].key \notin Headers /\ label[i].key # TaskKey
  BY <1>1, OrdinaryKey
<1>7. f = Shifting(n, i)
  OBVIOUS
<1> HIDE DEF t, f
<1>8. Widens(t, label, f, i)
  <2>1. n = Len(t) /\ Len(label) = n + 1 /\ (label[i].key \in Headers => Aside(t, label, f, i))
    BY <1>3, <1>4, <1>6
  <2> QED
    BY <1>2, <1>3, <1>4, <1>7, <2>1, ShiftEmbeds
<1>9. /\ Embeds(t, label, f)
      /\ \A k \in ItemsIn(label) : k = i \/ \E l \in ItemsIn(t) : k = f[l]
      /\ \A k \in ItemsIn(t) : f[k] # i /\ k \in 1 .. n
  BY <1>4, <1>8 DEF Widens
<1>10. \A k \in 1 .. n : label[f[k]].key = t[k].key /\ label[f[k]].value = t[k].value
  BY <1>4 DEF Carries
<1>11. \A k \in ItemsIn(t) : label[f[k]].value = t[k].value /\ f[k] # i
  BY <1>9, <1>10
<1>12. Distinct(t) /\ ItemsOf(t) = Table!WithItem(ItemsOf(label), EntryOf(label, i), <<>>)
  BY <1>9, <1>11, Shrinks
<1>13. NamesIn(label, TaskKey) = NamesIn(t, TaskKey)
  <2>1. \A g \in Listed(label, TaskKey) : \E k \in Listed(t, TaskKey) : g = f[k]
    <3> TAKE g \in Listed(label, TaskKey)
    <3>1. g \in 1 .. (n + 1) /\ label[g].key = TaskKey
      BY <1>1, <1>3 DEF Listed
    <3>2. g # i
      BY <1>6, <3>1
    <3>3. PICK k \in 1 .. n : g = f[k]
      BY <1>5, <3>1, <3>2 DEF ShiftKnown
    <3>4. t[k].key = TaskKey /\ DOMAIN t = 1 .. n
      BY <1>2, <1>4, <1>10, <3>1, <3>3, LabelIs
    <3> QED
      BY <3>3, <3>4 DEF Listed
  <2> QED
    BY <1>9, <2>1, NamesStay
<1> QED
  BY <1>2, <1>12, <1>13 DEF t

-----------------------------------------------------------------------------
(* A header put in aside of the others, with nothing behind it, has no     *)
(* part in the table.                                                      *)
LEMMA HeaderTable ==
  ASSUME NEW label, IsLabel(label), Distinct(label), NEW j \in 2 .. (Len(label) + 1),
         NEW item \in Element, item.key \in Headers,
         IsLabel(Inserted(label, j, item)),
         Aside(label, Inserted(label, j, item), Shifting(Len(label), j), j)
  PROVE  /\ Distinct(Inserted(label, j, item))
         /\ ItemsOf(Inserted(label, j, item)) = ItemsOf(label)
         /\ Embeds(label, Inserted(label, j, item), Shifting(Len(label), j))
<1> DEFINE n == Len(label)
           t == Inserted(label, j, item)
           f == Shifting(n, j)
<1>1. n \in Nat /\ j \in 1 .. (n + 1) /\ n = Len(label) /\ j \in 2 .. (n + 1)
  BY LabelIs
<1>2. Len(t) = n + 1 /\ t[j] = item /\ \A k \in 1 .. n : t[f[k]] = label[k]
  <2>1. InsertMoved(label, n, j, item)
    BY <1>1, InsertMoves
  <2> QED
    BY <2>1 DEF InsertMoved
<1>3. f = Shifting(n, j) /\ Aside(label, t, f, j) /\ IsLabel(t)
  OBVIOUS
<1> HIDE DEF t, f, n
<1>4. Carries(label, t, f)
  BY <1>1, <1>2 DEF Carries
<1>a. Len(t) = n + 1
  BY <1>2
<1>5. Widens(label, t, f, j)
  BY <1>1, <1>3, <1>4, <1>a, ShiftEmbeds
<1>6. /\ Embeds(label, t, f)
      /\ \A i \in ItemsIn(t) : i = j \/ \E k \in ItemsIn(label) : i = f[k]
      /\ \A k \in ItemsIn(label) : f[k] # j /\ k \in 1 .. n
  BY <1>1, <1>5 DEF Widens
<1>7. j \notin ItemsIn(t)
  BY <1>1, <1>2, <1>3, HeadersAndItems
<1>8. \A i \in ItemsIn(t) : \E k \in ItemsIn(label) : i = f[k]
  BY <1>6, <1>7
<1>9. \A k \in ItemsIn(label) : t[f[k]].value = label[k].value
  BY <1>2, <1>6
<1>10. Distinct(t) /\ ItemsOf(t) = ItemsOf(label)
  BY <1>6, <1>8, <1>9, EmbedsItems
<1> QED
  BY <1>6, <1>10 DEF t, f, n

LEMMA OneIsSeq ==
  ASSUME NEW S, NEW e \in S
  PROVE  <<e>> \in Seq(S)
OBVIOUS

HeaderItem(key, name) == NewItem(key, <<name>>)

LEMMA HeaderItemIs ==
  ASSUME NEW key \in {PropertyKey, TaskKey}, NEW name \in STRING
  PROVE  /\ HeaderItem(key, name) \in Element /\ HeaderItem(key, name).key = key
         /\ HeaderItem(key, name).value = <<name>> /\ HeaderItem(key, name).value # <<>>
         /\ Len(HeaderItem(key, name).value) = 1
         /\ key \in Headers /\ key # SystemKey
<1>1. key \in Headers /\ key # SystemKey
  BY DEF Headers, SystemKey, PropertyKey, TaskKey
<1>a. <<name>> \in Seq(STRING)
  BY OneIsSeq
<1>b. Len(<<name>>) = 1 /\ <<name>> # <<>>
  OBVIOUS
<1>2. <<name>> \in Seq(STRING) /\ Len(<<name>>) = 1 /\ <<name>> # <<>>
  BY <1>a, <1>b
<1> QED
  BY <1>1, <1>2, NewItemIs DEF HeaderItem

(* A property is created in front of the history.                          *)
LEMMA PropertyTable ==
  ASSUME NEW label, IsLabel(label), Distinct(label), NEW name \in STRING
  PROVE  LET t == Inserted(label, FindFirstHistItem(label), HeaderItem(PropertyKey, name))
         IN  /\ IsLabel(t) /\ Distinct(t)
             /\ ItemsOf(t) = ItemsOf(label)
             /\ NamesIn(t, TaskKey) = NamesIn(label, TaskKey)
<1> DEFINE n == Len(label)
           j == FindFirstHistItem(label)
           item == HeaderItem(PropertyKey, name)
           t == Inserted(label, j, item)
           f == Shifting(n, j)
<1>1. /\ j \in 2 .. (n + 1) /\ j \in 1 .. (n + 1)
      /\ \A k \in 1 .. (j - 1) : label[k].key # TaskKey
      /\ \A k \in j .. n : label[k].key # PropertyKey
  BY FirstHistItemIs, LabelIs
<1>2. /\ item \in Element /\ item.key = PropertyKey /\ item.value # <<>> /\ Len(item.value) = 1
      /\ item.key \in Headers /\ item.key # SystemKey /\ item.key # TaskKey
  <2>1. PropertyKey \in {PropertyKey, TaskKey} /\ PropertyKey # TaskKey
    BY DEF PropertyKey, TaskKey
  <2> QED
    BY <2>1, HeaderItemIs
<1>3. n \in Nat /\ DOMAIN label = 1 .. n /\ HeadersIn(label) \in SUBSET (1 .. n)
  BY LabelIs, HeadersAndItems
<1>4. j <= n => label[j].key = TaskKey
  BY <1>3, EntryIs DEF FindFirstHistItem
<1> HIDE DEF j, item
<1>5. IsLabel(t)
  BY <1>1, <1>2, InsertStaysLabel
<1>6. /\ Len(t) = n + 1 /\ t[j] = item
      /\ \A k \in 1 .. n : t[f[k]] = label[k]
  <2>1. InsertMoved(label, n, j, item)
    <3>1. n = Len(label)
      OBVIOUS
    <3> HIDE DEF j, n
    <3> QED
      BY <1>1, <1>2, <3>1, InsertMoves
  <2> QED
    BY <2>1 DEF InsertMoved
<1>7. /\ \A k \in 1 .. n : k < j => f[k] = k
      /\ \A k \in 1 .. n : k >= j => f[k] = k + 1
  BY <1>1, <1>3, ShiftingClimbs DEF ShiftKnown
<1>7b. \A k \in 1 .. (n + 1) : k # j => \E i \in 1 .. n : k = f[i]
  BY <1>1, <1>3, ShiftingClimbs DEF ShiftKnown
<1> DEFINE tt == t
           ff == f
<1> HIDE DEF tt, ff
<1>8. Aside(label, t, f, j)
  <2>1. \A h \in HeadersIn(label) : label[h].key = t[j].key => f[h] < j
    <3> SUFFICES ASSUME NEW h \in HeadersIn(label), label[h].key = t[j].key PROVE f[h] < j
      OBVIOUS
    <3>1. h \in 1 .. n /\ label[h].key = PropertyKey
      BY <1>2, <1>3, <1>6
    <3>2. h < j
      BY <1>1, <3>1
    <3> QED
      BY <1>7, <3>1, <3>2
  <2>2. ASSUME NEW k \in 1 .. n, j < f[k] PROVE \E h \in HeadersIn(label) : j < f[h] /\ f[h] <= f[k]
    <3>1. k >= j /\ j \in 1 .. n
      BY <1>1, <1>3, <1>7, <2>2
    <3>2. f[j] = j + 1 /\ f[k] = k + 1
      BY <1>7, <3>1
    <3>3. j \in HeadersIn(label)
      BY <1>4, <3>1, HeadersAndItems DEF Headers
    <3> QED
      BY <3>1, <3>2, <3>3
  <2> HIDE DEF t, f
  <2> QED
    BY <2>1, <2>2 DEF Aside
<1>9. Distinct(t) /\ ItemsOf(t) = ItemsOf(label) /\ Embeds(label, t, f)
  BY <1>1, <1>2, <1>5, <1>8, HeaderTable
<1> HIDE DEF t, f
<1>10. NamesIn(t, TaskKey) = NamesIn(label, TaskKey)
  <2>1. \A g \in Listed(t, TaskKey) : \E k \in Listed(label, TaskKey) : g = f[k]
    <3> TAKE g \in Listed(t, TaskKey)
    <3>1. g \in 1 .. (n + 1) /\ t[g].key = TaskKey
      BY <1>5, <1>6, LabelIs DEF Listed
    <3>2. g # j
      BY <1>2, <1>6, <3>1
    <3>3. PICK k \in 1 .. n : g = f[k]
      BY <1>7b, <3>1, <3>2
    <3>4. label[k].key = TaskKey
      BY <1>6, <3>1, <3>3
    <3> QED
      BY <1>3, <3>3, <3>4 DEF Listed
  <2> QED
    BY <1>9, <2>1, NamesStay
<1> QED
  BY <1>5, <1>9, <1>10 DEF t, item, j

LEMMA FunctionIsSeq ==
  ASSUME NEW c \in Nat, NEW T, NEW f \in [1 .. c -> T]
  PROVE  f \in Seq(T) /\ Len(f) = c
<1>1. f \in Seq(T)
  BY SeqDef
<1>2. DOMAIN f = 1 .. c
  OBVIOUS
<1>3. Len(f) \in Nat /\ DOMAIN f = 1 .. Len(f)
  BY <1>1, LenProperties
<1> QED
  BY <1>2, <1>3

LEMMA AppendIs ==
  ASSUME NEW c \in Nat, NEW a, NEW b, NEW e, a = [k \in 1 .. c |-> a[k]],
         b = [k \in 1 .. (c + 1) |-> b[k]], b[c + 1] = e,
         Agree(b, a, c)
  PROVE  b = Append(a, e)
<1> DEFINE T == {a[k] : k \in 1 .. c} \cup {e}
<1>1. a \in [1 .. c -> T]
  OBVIOUS
<1>2. e \in T
  OBVIOUS
<1>3. b \in [1 .. (c + 1) -> T]
  <2>1. \A k \in 1 .. (c + 1) : k = c + 1 \/ k \in 1 .. c
    OBVIOUS
  <2>2. \A k \in 1 .. (c + 1) : b[k] \in T
    BY <2>1 DEF Agree
  <2> HIDE DEF T
  <2> QED
    BY <2>2
<1> HIDE DEF T
<1>4. a \in Seq(T) /\ Len(a) = c
  BY <1>1, FunctionIsSeq
<1>5. b \in Seq(T) /\ Len(b) = c + 1
  <2>1. c + 1 \in Nat
    OBVIOUS
  <2> QED
    BY <1>3, <2>1, FunctionIsSeq
<1> DEFINE d == Append(a, e)
<1>6. d \in Seq(T) /\ Len(d) = c + 1 /\ d[c + 1] = e /\ \A k \in 1 .. c : d[k] = a[k]
  BY <1>2, <1>4
<1> HIDE DEF d
<1>7. \A k \in 1 .. (c + 1) : b[k] = d[k]
  <2> TAKE k \in 1 .. (c + 1)
  <2>1. CASE k = c + 1
    BY <1>6, <2>1
  <2>2. CASE k # c + 1
    <3>1. k \in 1 .. c
      BY <2>2
    <3> QED
      BY <1>6, <3>1 DEF Agree
  <2> QED
    BY <2>1, <2>2
<1>8. b = d
  BY <1>5, <1>6, <1>7, SameElements
<1> QED
  BY <1>8 DEF d

(* A task is added behind the last.                                        *)
LEMMA TaskTable ==
  ASSUME NEW label, IsLabel(label), Distinct(label), NEW name \in STRING
  PROVE  LET t == Inserted(label, Len(label) + 1, HeaderItem(TaskKey, name))
         IN  /\ IsLabel(t) /\ Distinct(t)
             /\ ItemsOf(t) = ItemsOf(label)
             /\ NamesIn(t, TaskKey) = Append(NamesIn(label, TaskKey), name)
<1> DEFINE n == Len(label)
           j == n + 1
           item == HeaderItem(TaskKey, name)
           t == Inserted(label, j, item)
           f == Shifting(n, j)
<1>0. n \in Nat /\ n >= 1 /\ DOMAIN label = 1 .. n /\ HeadersIn(label) \in SUBSET (1 .. n)
  BY LabelIs, HeadersAndItems
<1>1. /\ j \in 2 .. (n + 1) /\ j \in 1 .. (n + 1)
      /\ \A k \in j .. n : label[k].key # PropertyKey
  BY <1>0
<1>2. /\ item \in Element /\ item.key = TaskKey /\ item.value # <<>> /\ Len(item.value) = 1
      /\ item.key \in Headers /\ item.key # SystemKey /\ item.key # PropertyKey /\ item.value[1] = name
  <2>1. TaskKey \in {PropertyKey, TaskKey} /\ PropertyKey # TaskKey
    BY DEF PropertyKey, TaskKey
  <2>2. /\ item \in Element /\ item.key = TaskKey /\ item.value # <<>> /\ Len(item.value) = 1
        /\ item.key \in Headers /\ item.key # SystemKey /\ item.value = <<name>>
    BY <2>1, HeaderItemIs
  <2> HIDE DEF item
  <2> QED
    BY <2>1, <2>2
<1> HIDE DEF item
<1>5. IsLabel(t)
  BY <1>1, <1>2, InsertStaysLabel
<1>6. /\ Len(t) = n + 1 /\ t[j] = item
      /\ \A k \in 1 .. n : t[f[k]] = label[k]
  <2>1. InsertMoved(label, n, j, item)
    <3>1. n = Len(label)
      OBVIOUS
    <3> HIDE DEF j, n
    <3> QED
      BY <1>1, <1>2, <3>1, InsertMoves
  <2> QED
    BY <2>1 DEF InsertMoved
<1>7. \A k \in 1 .. n : f[k] = k
  BY <1>0, <1>1, ShiftingClimbs DEF ShiftKnown
<1>8. Aside(label, t, f, j)
  <2>1. \A h \in HeadersIn(label) : f[h] < j
    BY <1>0, <1>7
  <2>2. \A k \in 1 .. n : ~(j < f[k])
    BY <1>0, <1>7
  <2> HIDE DEF t, f, j
  <2> QED
    BY <2>1, <2>2 DEF Aside
<1>9. Distinct(t) /\ ItemsOf(t) = ItemsOf(label) /\ Embeds(label, t, f)
  BY <1>1, <1>2, <1>5, <1>8, HeaderTable
<1> DEFINE S == Listed(label, TaskKey)
           R == Listed(t, TaskKey)
           c == Cardinality(S)
           a == NamesIn(label, TaskKey)
           b == NamesIn(t, TaskKey)
<1> HIDE DEF t, f
<1>10. NamesKnown(label, TaskKey) /\ NamesKnown(t, TaskKey)
  BY <1>5, NamesAre
<1>11. /\ S \in SUBSET (1 .. n) /\ c \in Nat /\ DOMAIN a = 1 .. c
       /\ R \in SUBSET (1 .. (n + 1))
  BY <1>6, <1>10 DEF NamesKnown
<1>12. R = S \cup {j} /\ j \notin S
  <2>1. \A k \in 1 .. n : k \in R <=> k \in S
    BY <1>0, <1>5, <1>6, <1>7, LabelIs DEF Listed
  <2>2. j \in R
    BY <1>2, <1>5, <1>6, <1>0, LabelIs DEF Listed
  <2>3. \A k \in 1 .. (n + 1) : k = j \/ k \in 1 .. n
    BY <1>0
  <2>4. j \notin 1 .. n
    BY <1>0
  <2> HIDE DEF S, R, j
  <2> QED
    BY <1>11, <2>1, <2>2, <2>3, <2>4
<1>13. Cardinality(R) = c + 1
  <2>1. IsFiniteSet(S)
    BY <1>0, <1>11, FinitePlaces
  <2> HIDE DEF S, R, j
  <2> QED
    BY <1>12, <2>1, FS_AddElement DEF c
<1>14. UpTo(R, j) = R
  <2>1. \A k \in R : k <= j
    BY <1>0, <1>11
  <2> QED
    BY <2>1 DEF UpTo
<1>15. b[c + 1] = name
  <2>1. j \in R
    BY <1>12
  <2>2. b[Cardinality(UpTo(R, j))] = t[j].value[1]
    BY <1>10, <2>1 DEF NamesKnown
  <2> QED
    BY <1>2, <1>6, <1>13, <1>14, <2>2
<1>16. Agree(b, a, c)
  BY <1>9, NamesMoved DEF Agree
<1>17. b = [k \in 1 .. (c + 1) |-> b[k]] /\ a = [k \in 1 .. c |-> a[k]]
  BY <1>13, NamesAreFunction
<1> HIDE DEF a, b, c
<1>18. c \in Nat
  BY <1>11
<1>19. b = Append(a, name)
  BY <1>15, <1>16, <1>17, <1>18, AppendIs
<1> QED
  BY <1>5, <1>9, <1>19 DEF t, item, j, a, b

-----------------------------------------------------------------------------
(* How many tasks have a name.                                             *)
LEMMA TaskCount ==
  ASSUME NEW label, IsLabel(label), NEW name
  PROVE  Table!Instances(NamesIn(label, TaskKey), name) = Cardinality(HeadersOf(label, TaskKey, name))
<1> DEFINE n == Len(label)
           S == Listed(label, TaskKey)
           names == NamesIn(label, TaskKey)
           A == HeadersOf(label, TaskKey, name)
           B == {k \in DOMAIN names : names[k] = name}
           rank(i) == Cardinality(UpTo(S, i))
           g == [i \in A |-> rank(i)]
<1>1. NamesKnown(label, TaskKey)
  BY NamesAre
<1>2. /\ S \in SUBSET (1 .. n) /\ n \in Nat /\ Cardinality(S) \in Nat
      /\ DOMAIN names = 1 .. Cardinality(S)
      /\ \A i \in S : rank(i) \in 1 .. Cardinality(S) /\ names[rank(i)] = label[i].value[1]
  BY <1>1 DEF NamesKnown
<1>3. A = {i \in S : label[i].value[1] = name}
  <2>1. TaskKey \in {TaskKey, PropertyKey}
    OBVIOUS
  <2> QED
    BY <2>1, HeaderNamed
<1>4. \A i, j \in S : rank(i) = rank(j) => i = j
  <2> SUFFICES ASSUME NEW i \in S, NEW j \in S, rank(i) = rank(j) PROVE i = j
    OBVIOUS
  <2> HIDE DEF S
  <2> QED
    BY <1>2, CountIdentifies
<1>5. \A k \in 1 .. Cardinality(S) : \E i \in S : rank(i) = k
  <2> TAKE k \in 1 .. Cardinality(S)
  <2> HIDE DEF S
  <2> QED
    BY <1>2, CountIsOnto
<1> HIDE DEF S, A, names, rank, n
<1>6. \A i \in A : rank(i) \in B
  BY <1>2, <1>3
<1>7. \A k \in B : \E i \in A : rank(i) = k
  <2> TAKE k \in B
  <2>1. k \in 1 .. Cardinality(S) /\ names[k] = name
    BY <1>2
  <2>2. PICK i \in S : rank(i) = k
    BY <1>5, <2>1
  <2>3. i \in A
    BY <1>2, <1>3, <2>1, <2>2
  <2> QED
    BY <2>2, <2>3
<1>8. g \in [A -> B] /\ \A i \in A : g[i] = rank(i)
  BY <1>6
<1>9. \A i \in A : i \in S
  BY <1>3
<1>10. g \in Bijection(A, B)
  <2> HIDE DEF g, B
  <2> QED
    BY <1>4, <1>7, <1>8, <1>9 DEF Bijection, Injection, Surjection, IsInjective
<1>11. IsFiniteSet(A) /\ IsFiniteSet(B)
  <2>1. A \in SUBSET (1 .. n) /\ B \in SUBSET (1 .. Cardinality(S))
    BY <1>2, <1>3
  <2> HIDE DEF B
  <2>2. IsFiniteSet(A)
    BY <1>2, <2>1, FinitePlaces
  <2>3. IsFiniteSet(B)
    <3> DEFINE c == Cardinality(S)
    <3>1. c \in Nat /\ B \in SUBSET (1 .. c)
      BY <1>2, <2>1
    <3> HIDE DEF c
    <3> QED
      BY <3>1, FinitePlaces
  <2> QED
    BY <2>2, <2>3
<1>12. ExistsBijection(A, B)
  BY <1>10 DEF ExistsBijection
<1>13. Cardinality(A) = Cardinality(B)
  <2> HIDE DEF B
  <2> QED
    BY <1>11, <1>12, FS_Bijection
<1> QED
  BY <1>13 DEF Table!Instances, Table!Cardinality, Cardinality, A, names

-----------------------------------------------------------------------------
(* The items from start to stop are the header h and those behind it.      *)
Spans(label, h, p) ==
  /\ h \in HeadersIn(label) /\ p.start \in {h, h + 1} /\ h < p.stop
  /\ p.start \in 1 .. (Len(label) + 1) /\ p.stop \in 2 .. (Len(label) + 1)
  /\ \A k \in 1 .. Len(label) : h < k /\ k < p.stop => label[k].key \notin Headers
  /\ p.stop <= Len(label) => label[p.stop].key \in Headers

NextHeader(label, from) ==
  LET next == FindEntry(label, from, PropertyKey)
  IN  IF IsEntry(label, next) THEN next ELSE FindEntry(label, from, TaskKey)

(* The next header, when all of the others are in front.                   *)
LEMMA NextHeaderIs ==
  ASSUME NEW label, IsLabel(label), NEW from \in 1 .. (Len(label) + 1)
  PROVE  /\ NextHeader(label, from) \in from .. (Len(label) + 1)
         /\ \A k \in from .. Len(label) : 1 < k /\ k < NextHeader(label, from) => label[k].key \notin Headers
         /\ NextHeader(label, from) <= Len(label) => label[NextHeader(label, from)].key \in {PropertyKey, TaskKey}
<1> DEFINE n == Len(label)
           p == FindEntry(label, from, PropertyKey)
           t == FindEntry(label, from, TaskKey)
           e == NextHeader(label, from)
<1>1. /\ n \in Nat /\ DOMAIN label = 1 .. n
      /\ \A i \in 1 .. n : label[i].key = SystemKey <=> i = 1
      /\ \A i, j \in 1 .. n : label[i].key = PropertyKey /\ label[j].key = TaskKey => i < j
  BY LabelIs
<1>2. /\ p \in from .. (n + 1) /\ t \in from .. (n + 1)
      /\ p <= n => label[p].key = PropertyKey
      /\ t <= n => label[t].key = TaskKey
      /\ \A k \in from .. n : k < p => label[k].key # PropertyKey
      /\ \A k \in from .. n : k < t => label[k].key # TaskKey
  BY <1>1, EntryIs
<1>3. e = IF p <= n THEN p ELSE t
  BY DEF NextHeader, IsEntry
<1> HIDE DEF p, t, e
<1>4. e \in from .. (n + 1)
  BY <1>2, <1>3
<1>5. e <= n => label[e].key \in {PropertyKey, TaskKey}
  BY <1>2, <1>3
<1>6. ASSUME NEW k \in from .. n, 1 < k, k < e PROVE label[k].key \notin Headers
  <2>1. k \in 1 .. n /\ k \in Nat /\ from \in Nat
    BY <1>1
  <2>2. label[k].key # SystemKey
    BY <1>1, <1>6, <2>1
  <2>3. CASE p <= n
    <3>1. label[k].key # PropertyKey
      BY <1>2, <1>3, <1>6, <2>3
    <3>2. p \in 1 .. n /\ label[p].key = PropertyKey /\ ~(p < k)
      BY <1>1, <1>2, <1>3, <1>6, <2>1, <2>3
    <3>3. label[k].key # TaskKey
      BY <1>1, <2>1, <3>2
    <3> QED
      BY <2>2, <3>1, <3>3 DEF Headers
  <2>4. CASE ~(p <= n)
    <3>1. e = t /\ k < p
      BY <1>1, <1>2, <1>3, <1>6, <2>1, <2>4
    <3>2. label[k].key # PropertyKey /\ label[k].key # TaskKey
      BY <1>2, <1>6, <3>1
    <3> QED
      BY <2>2, <3>2 DEF Headers
  <2> QED
    BY <2>3, <2>4
<1> QED
  BY <1>4, <1>5, <1>6 DEF e

(* The part that a call means, and where it is in the text.                *)
Located(label, of, p) ==
  \E h \in HeadersIn(label) :
    Spans(label, h, p) /\ Table!Meant(NamesIn(label, TaskKey), of) = {PartAt(label, h)}

LEMMA SystemLocated ==
  ASSUME NEW label, IsLabel(label), NEW of \in PartType, of.type = "SYSTEM",
         NEW p \in FindPart(label, of)
  PROVE  Located(label, of, p)
<1> DEFINE n == Len(label)
           e == NextHeader(label, 1)
<1>1. n \in Nat /\ n >= 1 /\ 1 \in HeadersIn(label) /\ 1 \in 1 .. (n + 1) /\ label[1].key = SystemKey
  BY HeadersAndItems, LabelIs
<1>2. p = [start |-> 1, stop |-> e]
  BY DEF FindPart, FindSystem, NextHeader
<1>3. /\ e \in 1 .. (n + 1)
      /\ \A k \in 1 .. n : 1 < k /\ k < e => label[k].key \notin Headers
      /\ e <= n => label[e].key \in {PropertyKey, TaskKey}
  BY <1>1, NextHeaderIs
<1> HIDE DEF e
<1>4. e # 1
  <2>1. SystemKey # PropertyKey /\ SystemKey # TaskKey
    BY DEF SystemKey, PropertyKey, TaskKey
  <2> QED
    BY <1>1, <1>3, <2>1
<1>5. e \in 2 .. (n + 1) /\ (e <= n => label[e].key \in Headers)
  BY <1>1, <1>3, <1>4 DEF Headers
<1>6. Spans(label, 1, p)
  BY <1>1, <1>2, <1>3, <1>5 DEF Spans
<1>7. PartAt(label, 1) = SystemPart
  BY <1>1, PartAtIs DEF PartAtKnown
<1>8. of = SystemPart
  BY DEF PartType
<1>9. Table!Meant(NamesIn(label, TaskKey), of) = {of}
  BY DEF Table!Meant
<1> QED
  BY <1>1, <1>6, <1>7, <1>8, <1>9 DEF Located

LEMMA PartFields ==
  ASSUME NEW of \in PartType
  PROVE  of = [type |-> of.type, name |-> of.name, instance |-> of.instance] /\ of.instance \in Nat
BY DEF PartType

LEMMA HeaderLocated ==
  ASSUME NEW label, IsLabel(label), NEW key \in {PropertyKey, TaskKey}, NEW name, NEW instance,
         NEW h \in HeaderOf(label, key, name, instance)
  PROVE  /\ h \in HeadersIn(label) /\ h \in 2 .. Len(label) /\ label[h].key = key
         /\ PartAt(label, h) = [type |-> IF key = PropertyKey THEN "PROPERTY" ELSE "HISTORY",
                                name |-> name, instance |-> instance]
<1> DEFINE S == HeadersOf(label, key, name)
<1>1. h \in S /\ Cardinality(UpTo(S, h)) = instance
  BY DEF HeaderOf
<1>2. h \in 1 .. Len(label) /\ label[h].key = key /\ label[h].value = <<name>> /\ Len(label) \in Nat
  BY <1>1, HeadersAre DEF HeadersOf
<1>3. key \in Headers /\ key # SystemKey
  BY DEF Headers, SystemKey, PropertyKey, TaskKey
<1>4. h \in HeadersIn(label) /\ h # 1
  BY <1>2, <1>3, HeadersAndItems, LabelIs
<1>5. label[h].value[1] = name
  BY <1>2
<1>6. NumberOf(label, h) = instance
  BY <1>1, <1>2, <1>5 DEF NumberOf
<1>7. PartAtKnown(label, h)
  BY <1>4, PartAtIs
<1>8. PropertyKey # TaskKey
  BY DEF PropertyKey, TaskKey
<1> QED
  BY <1>2, <1>4, <1>5, <1>6, <1>7, <1>8 DEF PartAtKnown

LEMMA PropertyLocated ==
  ASSUME NEW label, IsLabel(label), NEW of \in PartType, of.type = "PROPERTY",
         NEW p \in FindPart(label, of)
  PROVE  Located(label, of, p)
<1> DEFINE n == Len(label)
           H == HeaderOf(label, PropertyKey, of.name, of.instance)
<1>1. PICK h \in H : p = [start |-> h, stop |-> NextHeader(label, h + 1)]
  BY DEF FindPart, FindProperty, NextHeader
<1>2. /\ h \in HeadersIn(label) /\ h \in 2 .. n
      /\ PartAt(label, h) = [type |-> "PROPERTY", name |-> of.name, instance |-> of.instance]
  BY HeaderLocated
<1>3. PartAt(label, h) = of
  BY <1>2, PartFields
<1>4. n \in Nat /\ h + 1 \in 1 .. (n + 1) /\ h \in Nat
  BY <1>2, LabelIs
<1> DEFINE e == NextHeader(label, h + 1)
<1>5. /\ e \in (h + 1) .. (n + 1)
      /\ \A k \in (h + 1) .. n : 1 < k /\ k < e => label[k].key \notin Headers
      /\ e <= n => label[e].key \in {PropertyKey, TaskKey}
  BY <1>4, NextHeaderIs
<1>6. p = [start |-> h, stop |-> e]
  BY <1>1
<1> HIDE DEF e
<1>7. \A k \in 1 .. n : h < k /\ k < e => label[k].key \notin Headers
  BY <1>2, <1>4, <1>5
<1>8. e \in 2 .. (n + 1) /\ h < e /\ h \in 1 .. (n + 1) /\ (e <= n => label[e].key \in Headers)
  BY <1>2, <1>4, <1>5 DEF Headers
<1>9. Spans(label, h, p)
  BY <1>2, <1>6, <1>7, <1>8 DEF Spans
<1>10. Table!Meant(NamesIn(label, TaskKey), of) = {of}
  BY DEF Table!Meant
<1> QED
  BY <1>2, <1>3, <1>9, <1>10 DEF Located

-----------------------------------------------------------------------------
Unnamed(of) == of.name = ""

LEMMA NextTaskIs ==
  ASSUME NEW label, IsLabel(label), NEW h \in 1 .. Len(label), label[h].key = TaskKey
  PROVE  LET e == FindEntry(label, h + 1, TaskKey)
         IN  /\ e \in (h + 1) .. (Len(label) + 1)
             /\ \A k \in 1 .. Len(label) : h < k /\ k < e => label[k].key \notin Headers
             /\ e <= Len(label) => label[e].key = TaskKey
<1> DEFINE n == Len(label)
           e == FindEntry(label, h + 1, TaskKey)
<1>1. /\ n \in Nat /\ DOMAIN label = 1 .. n
      /\ \A i \in 1 .. n : label[i].key = SystemKey <=> i = 1
      /\ \A i, j \in 1 .. n : label[i].key = PropertyKey /\ label[j].key = TaskKey => i < j
  BY LabelIs
<1>2. h + 1 \in 1 .. (n + 1) /\ h \in Nat /\ h >= 1
  BY <1>1
<1>3. /\ e \in (h + 1) .. (n + 1)
      /\ e <= n => label[e].key = TaskKey
      /\ \A k \in (h + 1) .. n : k < e => label[k].key # TaskKey
  BY <1>1, <1>2, EntryIs
<1> HIDE DEF e
<1>4. ASSUME NEW k \in 1 .. n, h < k, k < e PROVE label[k].key \notin Headers
  <2>1. k \in (h + 1) .. n /\ k # 1 /\ ~(k < h)
    BY <1>1, <1>2, <1>4
  <2>2. label[k].key # SystemKey /\ label[k].key # PropertyKey /\ label[k].key # TaskKey
    BY <1>1, <1>3, <1>4, <2>1
  <2> QED
    BY <2>2 DEF Headers
<1> QED
  BY <1>3, <1>4 DEF e

LEMMA NamedTaskLocated ==
  ASSUME NEW label, IsLabel(label), NEW of \in PartType, of.type = "HISTORY", ~Unnamed(of),
         NEW p \in FindPart(label, of)
  PROVE  Located(label, of, p)
<1> DEFINE n == Len(label)
           H == HeaderOf(label, TaskKey, of.name, of.instance)
<1>1. PICK h \in H : p = [start |-> h, stop |-> FindEntry(label, h + 1, TaskKey)]
  BY DEF FindPart, FindTask, Unnamed
<1>2. /\ h \in HeadersIn(label) /\ h \in 2 .. n /\ label[h].key = TaskKey
      /\ PartAt(label, h) = [type |-> "HISTORY", name |-> of.name, instance |-> of.instance]
  <2>1. PropertyKey # TaskKey
    BY DEF PropertyKey, TaskKey
  <2> QED
    BY <2>1, HeaderLocated
<1>3. PartAt(label, h) = of
  BY <1>2, PartFields
<1>4. n \in Nat /\ h \in 1 .. n /\ h \in Nat
  BY <1>2, LabelIs
<1> DEFINE e == FindEntry(label, h + 1, TaskKey)
<1>5. /\ e \in (h + 1) .. (n + 1)
      /\ \A k \in 1 .. n : h < k /\ k < e => label[k].key \notin Headers
      /\ e <= n => label[e].key = TaskKey
  BY <1>2, <1>4, NextTaskIs
<1>6. p = [start |-> h, stop |-> e]
  BY <1>1
<1> HIDE DEF e
<1>8. e \in 2 .. (n + 1) /\ h < e /\ h \in 1 .. (n + 1) /\ (e <= n => label[e].key \in Headers)
  BY <1>2, <1>4, <1>5 DEF Headers
<1>9. Spans(label, h, p)
  BY <1>2, <1>5, <1>6, <1>8 DEF Spans
<1>10. of.instance \in 1 .. Table!Instances(NamesIn(label, TaskKey), of.name)
  <2>1. of.instance \in 1 .. Cardinality(HeadersOf(label, TaskKey, of.name))
    BY PartIs DEF PartKnown, HasPart, Unnamed
  <2> QED
    BY <2>1, TaskCount
<1>11. Table!Meant(NamesIn(label, TaskKey), of) = {of}
  BY <1>10 DEF Table!Meant, Unnamed
<1> QED
  BY <1>2, <1>3, <1>9, <1>11 DEF Located

(* The last task of the list is that of the text.                          *)
LEMMA LastNameIs ==
  ASSUME NEW label, IsLabel(label), NEW j \in 1 .. Len(label), label[j].key = TaskKey,
         \A k \in 1 .. Len(label) : j < k => label[k].key # TaskKey
  PROVE  LET tasks == NamesIn(label, TaskKey)
         IN  /\ Len(tasks) \in Nat \ {0} /\ tasks[Len(tasks)] = label[j].value[1]
             /\ NumberOf(label, j) = Table!Instances(tasks, label[j].value[1])
             /\ Listed(label, TaskKey) # {}
<1> DEFINE n == Len(label)
           S == Listed(label, TaskKey)
           tasks == NamesIn(label, TaskKey)
           c == Cardinality(S)
           name == label[j].value[1]
           A == HeadersOf(label, TaskKey, name)
<1>1. n \in Nat /\ DOMAIN label = 1 .. n
  BY LabelIs
<1>2. j \in S
  BY <1>1 DEF Listed
<1>3. NamesKnown(label, TaskKey)
  BY NamesAre
<1>4. /\ S \in SUBSET (1 .. n) /\ c \in Nat /\ DOMAIN tasks = 1 .. c
      /\ Cardinality(UpTo(S, j)) \in 1 .. c
      /\ tasks[Cardinality(UpTo(S, j))] = name
  BY <1>2, <1>3 DEF NamesKnown
<1>5. \A k \in S : k <= j
  <2> TAKE k \in S
  <2>1. k \in 1 .. n /\ label[k].key = TaskKey
    BY <1>1 DEF Listed
  <2> QED
    BY <1>1, <2>1
<1>6. UpTo(S, j) = S
  BY <1>5 DEF UpTo
<1>7. c \in Nat \ {0} /\ tasks[c] = name
  BY <1>4, <1>6
<1>8. Len(tasks) = c
  <2>1. tasks = [k \in 1 .. c |-> tasks[k]]
    BY NamesAreFunction
  <2> HIDE DEF tasks, c
  <2> QED
    BY <1>4, <2>1
<1>9. UpTo(A, j) = A
  <2>1. \A k \in A : k \in S
    BY DEF HeadersOf, Listed
  <2> QED
    BY <1>5, <2>1 DEF UpTo
<1>10. NumberOf(label, j) = Cardinality(A)
  BY <1>9 DEF NumberOf
<1>11. Cardinality(A) = Table!Instances(tasks, name)
  BY TaskCount
<1> QED
  BY <1>2, <1>7, <1>8, <1>10, <1>11

LEMMA LastTaskLocated ==
  ASSUME NEW label, IsLabel(label), NEW of \in PartType, of.type = "HISTORY", Unnamed(of),
         NEW p \in FindPart(label, of)
  PROVE  Located(label, of, p)
<1> DEFINE n == Len(label)
           tasks == NamesIn(label, TaskKey)
<1>1. PICK j \in LastTasks(label) : p = [start |-> j + 1, stop |-> n + 1]
  BY DEF FindPart, FindTask, LastTasks, Unnamed
<1>2. j \in 1 .. n /\ label[j].key = TaskKey /\ ~IsEntry(label, FindEntry(label, j + 1, TaskKey))
  BY LabelIs DEF LastTasks
<1>3. n \in Nat /\ j \in Nat /\ j \in HeadersIn(label)
  BY <1>2, HeadersAndItems DEF Headers
<1> DEFINE e == FindEntry(label, j + 1, TaskKey)
<1>4. /\ e \in (j + 1) .. (n + 1)
      /\ \A k \in 1 .. n : j < k /\ k < e => label[k].key \notin Headers
  BY <1>2, NextTaskIs
<1>5. ~(e <= n)
  BY <1>2 DEF IsEntry
<1> HIDE DEF e
<1>6. e = n + 1
  BY <1>3, <1>4, <1>5
<1>7. \A k \in 1 .. n : j < k => label[k].key \notin Headers
  BY <1>3, <1>4, <1>6
<1>8. n + 1 \in 2 .. (n + 1) /\ j < n + 1 /\ j + 1 \in 1 .. (n + 1) /\ ~(n + 1 <= n)
  BY <1>2, <1>3
<1>9. Spans(label, j, p)
  BY <1>1, <1>3, <1>7, <1>8 DEF Spans
<1> DEFINE name == label[j].value[1]
           c == Len(tasks)
<1>10. /\ c \in Nat \ {0} /\ tasks[c] = name
       /\ NumberOf(label, j) = Table!Instances(tasks, name)
  <2>1. \A k \in 1 .. n : j < k => label[k].key # TaskKey
    BY <1>7 DEF Headers
  <2> QED
    BY <1>2, <2>1, LastNameIs
<1>11. PartAt(label, j) = [type |-> "HISTORY", name |-> name, instance |-> Table!Instances(tasks, name)]
  BY <1>2, <1>3, <1>10, PartAtIs DEF PartAtKnown
<1> HIDE DEF tasks, name, c
<1>12. Table!Meant(tasks, of) =
         {[type |-> "HISTORY", name |-> x, instance |-> Table!Instances(tasks, x)] : x \in {name}}
  <2>1. {tasks[k] : k \in {c} \ {0}} = {name}
    BY <1>10
  <2> QED
    BY <2>1 DEF Table!Meant, c, Unnamed
<1>14. Table!Meant(tasks, of) = {PartAt(label, j)}
  BY <1>11, <1>12
<1> QED
  BY <1>3, <1>9, <1>14 DEF Located, tasks

LEMMA PartLocated ==
  ASSUME NEW label, IsLabel(label), NEW of \in PartType, NEW p \in FindPart(label, of)
  PROVE  Located(label, of, p)
<1>1. of.type \in {"SYSTEM", "PROPERTY", "HISTORY"}
  BY DEF PartType
<1> QED
  BY <1>1, SystemLocated, PropertyLocated, NamedTaskLocated, LastTaskLocated

(* A task that is not found is not meant.                                  *)
LEMMA NoTaskMeant ==
  ASSUME NEW label, IsLabel(label), NEW of \in PartType, of.type = "HISTORY", FindPart(label, of) = {}
  PROVE  Table!Meant(NamesIn(label, TaskKey), of) = {}
<1> DEFINE tasks == NamesIn(label, TaskKey)
<1>1. ~HasPart(label, of)
  BY PartIs DEF PartKnown
<1>2. CASE ~Unnamed(of)
  <2>1. of.instance \notin 1 .. Cardinality(HeadersOf(label, TaskKey, of.name))
    BY <1>1, <1>2 DEF HasPart, Unnamed
  <2>2. of.instance \notin 1 .. Table!Instances(tasks, of.name)
    BY <2>1, TaskCount
  <2> HIDE DEF tasks
  <2>3. Table!Meant(tasks, of) = {}
    BY <1>2, <2>2 DEF Table!Meant, Unnamed
  <2> QED
    BY <2>3 DEF tasks
<1>3. CASE Unnamed(of)
  <2>1. Listed(label, TaskKey) = {}
    BY <1>1, <1>3, LabelIs DEF HasPart, Listed, Unnamed
  <2>2. Cardinality(Listed(label, TaskKey)) = 0
    BY <2>1, FS_EmptySet
  <2>3. tasks = [k \in 1 .. 0 |-> tasks[k]]
    BY <2>2, NamesAreFunction
  <2> HIDE DEF tasks
  <2>4. Len(tasks) = 0
    BY <2>3
  <2>5. Table!Meant(tasks, of) = {}
    BY <1>3, <2>4 DEF Table!Meant, Unnamed
  <2> QED
    BY <2>5 DEF tasks
<1> QED
  BY <1>2, <1>3

(* A property that is not found has no header.                             *)
LEMMA NoProperty ==
  ASSUME NEW label, IsLabel(label), NEW of \in PartType, of.type = "PROPERTY", FindPart(label, of) = {},
         NEW h \in HeadersIn(label)
  PROVE  PartAt(label, h) # of
<1> SUFFICES ASSUME PartAt(label, h) = of PROVE FALSE
  OBVIOUS
<1>1. of.instance \notin 1 .. Cardinality(HeadersOf(label, PropertyKey, of.name))
  BY PartIs DEF PartKnown, HasPart
<1>2. PartAtKnown(label, h) /\ HeaderKnown(label, h)
  BY PartAtIs, HeaderFacts
<1>3. label[h].key = PropertyKey
  <2>1. SystemPart.type = "SYSTEM"
    BY DEF SystemPart
  <2>2. label[h].key # SystemKey
    <3> SUFFICES ASSUME label[h].key = SystemKey PROVE FALSE
      OBVIOUS
    <3>1. of = SystemPart
      BY <1>2 DEF PartAtKnown
    <3> QED
      BY <2>1, <3>1
  <2>3. label[h].key # TaskKey
    <3> SUFFICES ASSUME label[h].key = TaskKey PROVE FALSE
      OBVIOUS
    <3>1. of.type = "HISTORY"
      BY <1>2 DEF PartAtKnown
    <3> QED
      BY <3>1
  <2> QED
    BY <1>2, <2>2, <2>3 DEF HeaderKnown, Headers
<1>4. of.name = label[h].value[1] /\ of.instance = NumberOf(label, h)
  BY <1>2, <1>3 DEF PartAtKnown
<1> DEFINE S == HeadersOf(label, PropertyKey, of.name)
<1>5. h \in S /\ NumberOf(label, h) = Cardinality(UpTo(S, h))
  BY <1>2, <1>3, <1>4 DEF HeaderKnown, NumberOf
<1>6. S \in SUBSET (1 .. Len(label)) /\ Len(label) \in Nat
  BY HeadersAre
<1>7. NumberOf(label, h) \in 1 .. Cardinality(S)
  <2> HIDE DEF S
  <2> QED
    BY <1>5, <1>6, CountRange
<1> QED
  BY <1>1, <1>4, <1>7

-----------------------------------------------------------------------------
(* What is found in a part is what the table has there.                    *)
FoundIn(label, of, key, part) ==
  \/ Find(label, of, key) = {} /\ <<part, key>> \notin DOMAIN ItemsOf(label)
  \/ \E i \in ItemsIn(label) : Find(label, of, key) = {i} /\ EntryOf(label, i) = <<part, key>>

LEMMA LookUp ==
  ASSUME NEW label, IsLabel(label), Distinct(label), NEW of \in PartType, NEW key \in Keys,
         NEW p \in FindPart(label, of), NEW h, Spans(label, h, p)
  PROVE  FoundIn(label, of, key, PartAt(label, h))
<1> DEFINE n == Len(label)
           e == FindEntry(label, p.start, key)
<1>1. /\ n \in Nat /\ DOMAIN label = 1 .. n
      /\ HeadersIn(label) \in SUBSET (1 .. n) /\ ItemsIn(label) \in SUBSET (2 .. n)
      /\ \A i \in 1 .. n : (i \in HeadersIn(label) <=> label[i].key \in Headers)
                         /\ (i \in ItemsIn(label) <=> label[i].key \notin Headers)
  BY HeadersAndItems, LabelIs
<1>2. key \notin Headers
  BY OrdinaryKey
<1>3. /\ h \in HeadersIn(label) /\ h \in 1 .. n /\ p.start \in {h, h + 1} /\ h < p.stop
      /\ p.start \in 1 .. (n + 1) /\ p.stop \in 2 .. (n + 1)
      /\ \A k \in 1 .. n : h < k /\ k < p.stop => label[k].key \notin Headers
      /\ p.stop <= n => label[p.stop].key \in Headers
  BY <1>1 DEF Spans
<1>4. /\ e \in p.start .. (n + 1)
      /\ e <= n => label[e].key = key
      /\ \A k \in p.start .. n : k < e => label[k].key # key
  BY <1>1, <1>3, EntryIs
<1>5. Find(label, of, key) = {i \in {e} : i < p.stop}
  <2>1. FindPart(label, of) = {p}
    BY PartIs DEF PartKnown
  <2>2. FindKey(label, p, key) = {i \in {e} : i < p.stop}
    BY DEF FindKey
  <2> HIDE DEF e
  <2> QED
    BY <2>1, <2>2 DEF Find
<1> HIDE DEF e
<1>6. CASE e < p.stop
  <2>1. e \in 1 .. n /\ label[e].key = key /\ e # h
    BY <1>1, <1>2, <1>3, <1>4, <1>6
  <2>2. e \in ItemsIn(label) /\ h < e
    BY <1>1, <1>2, <1>3, <1>4, <2>1
  <2>3. HeaderBefore(label, e) = h
    <3>1. \A k \in 1 .. n : h < k /\ k < e => label[k].key \notin Headers
      BY <1>3, <1>4, <1>6, <2>1
    <3> QED
      BY <1>3, <2>1, <2>2, <3>1, HeadsBetween
  <2>4. EntryOf(label, e) = <<PartAt(label, h), key>>
    BY <2>1, <2>3 DEF EntryOf
  <2>5. Find(label, of, key) = {e}
    BY <1>5, <1>6
  <2> QED
    BY <2>2, <2>4, <2>5 DEF FoundIn
<1>7. CASE ~(e < p.stop)
  <2>1. Find(label, of, key) = {}
    BY <1>5, <1>7
  <2>2. ASSUME NEW i \in ItemsIn(label), EntryOf(label, i) = <<PartAt(label, h), key>> PROVE FALSE
    <3> DEFINE g == HeaderBefore(label, i)
    <3>1. label[i].key = key /\ PartAt(label, g) = PartAt(label, h)
      BY <2>2 DEF EntryOf
    <3>2. Heads(label, i, g)
      BY HeaderBeforeIs
    <3> HIDE DEF g
    <3>3. g = h
      BY <1>3, <3>1, <3>2, PartAtIdentifies DEF Heads
    <3>4. i \in 1 .. n /\ h < i
      BY <1>1, <3>2, <3>3 DEF Heads
    <3>5. ~(p.stop <= i)
      <4> SUFFICES ASSUME p.stop <= i PROVE FALSE
        OBVIOUS
      <4>1. p.stop \in 1 .. n
        BY <1>1, <1>3, <3>4
      <4>2. p.stop \in HeadersIn(label)
        BY <1>1, <1>3, <4>1
      <4>3. p.stop # i
        BY <1>1, <1>2, <1>3, <3>1, <4>1
      <4>4. p.stop < i
        BY <3>4, <4>1, <4>3
      <4>5. p.stop <= h
        BY <3>2, <3>3, <4>2, <4>4 DEF Heads
      <4> QED
        BY <1>3, <4>1, <4>5
    <3>6. i \in p.start .. n /\ i < e
      BY <1>1, <1>3, <1>4, <1>7, <3>4, <3>5
    <3> QED
      BY <1>4, <3>1, <3>6
  <2>3. <<PartAt(label, h), key>> \notin DOMAIN ItemsOf(label)
    BY <2>2, TableIs DEF TableKnown
  <2> QED
    BY <2>1, <2>3 DEF FoundIn
<1> QED
  BY <1>6, <1>7

-----------------------------------------------------------------------------
(* What a call sees of the table.                                          *)
Has(label, entry) == Table!ValueOf(ItemsOf(label), entry)

SeesNoPart(label, of, key) ==
  /\ FindPart(label, of) = {} /\ Find(label, of, key) = {}
  /\ \A part \in Table!Meant(NamesIn(label, TaskKey), of) : Has(label, <<part, key>>) = <<>>
  /\ of.type = "HISTORY" => Table!Meant(NamesIn(label, TaskKey), of) = {}

SeesNoKey(label, of, key, part) ==
  /\ FindPart(label, of) # {} /\ Find(label, of, key) = {}
  /\ Table!Meant(NamesIn(label, TaskKey), of) = {part}
  /\ <<part, key>> \notin DOMAIN ItemsOf(label)
  /\ Has(label, <<part, key>>) = <<>>

SeesItem(label, of, key, part, i) ==
  /\ FindPart(label, of) # {} /\ Find(label, of, key) = {i}
  /\ Table!Meant(NamesIn(label, TaskKey), of) = {part}
  /\ i \in ItemsIn(label) /\ EntryOf(label, i) = <<part, key>>
  /\ Has(label, <<part, key>>) = label[i].value

Sees(label, of, key) ==
  \/ SeesNoPart(label, of, key)
  \/ \E part : SeesNoKey(label, of, key, part)
  \/ \E part, i : SeesItem(label, of, key, part, i)

LEMMA CallSees ==
  ASSUME NEW label, IsLabel(label), Distinct(label), NEW of \in PartType, NEW key \in Keys
  PROVE  Sees(label, of, key)
<1>1. TableKnown(label)
  BY TableIs
<1>2. CASE FindPart(label, of) = {}
  <2>1. Find(label, of, key) = {}
    BY <1>2 DEF Find
  <2>2. of.type # "SYSTEM"
    BY <1>2, PartIs DEF PartKnown, HasPart
  <2>3. CASE of.type = "HISTORY"
    BY <1>2, <2>1, <2>3, NoTaskMeant DEF Sees, SeesNoPart
  <2>4. CASE of.type = "PROPERTY"
    <3>1. Table!Meant(NamesIn(label, TaskKey), of) = {of}
      BY <2>4 DEF Table!Meant
    <3>2. <<of, key>> \notin DOMAIN ItemsOf(label)
      <4> SUFFICES ASSUME <<of, key>> \in DOMAIN ItemsOf(label) PROVE FALSE
        OBVIOUS
      <4>1. PICK i \in ItemsIn(label) : <<of, key>> = EntryOf(label, i)
        BY <1>1 DEF TableKnown
      <4>2. PartAt(label, HeaderBefore(label, i)) = of
        BY <4>1 DEF EntryOf
      <4>3. HeaderBefore(label, i) \in HeadersIn(label)
        BY HeaderBeforeIs DEF Heads
      <4> QED
        BY <1>2, <2>4, <4>2, <4>3, NoProperty
    <3>3. Has(label, <<of, key>>) = <<>>
      BY <3>2 DEF Has, Table!ValueOf
    <3> QED
      BY <1>2, <2>1, <2>4, <3>1, <3>3 DEF Sees, SeesNoPart
  <2> QED
    BY <2>2, <2>3, <2>4 DEF PartType
<1>3. CASE FindPart(label, of) # {}
  <2>1. PICK p \in FindPart(label, of) : TRUE
    BY <1>3
  <2>2. PICK h \in HeadersIn(label) :
          Spans(label, h, p) /\ Table!Meant(NamesIn(label, TaskKey), of) = {PartAt(label, h)}
    BY PartLocated DEF Located
  <2> DEFINE part == PartAt(label, h)
  <2>3. FoundIn(label, of, key, part)
    BY <2>2, LookUp
  <2>4. Table!Meant(NamesIn(label, TaskKey), of) = {part}
    BY <2>2
  <2> HIDE DEF part
  <2>5. CASE Find(label, of, key) = {} /\ <<part, key>> \notin DOMAIN ItemsOf(label)
    <3>1. Has(label, <<part, key>>) = <<>>
      BY <2>5 DEF Has, Table!ValueOf
    <3>2. SeesNoKey(label, of, key, part)
      BY <1>3, <2>4, <2>5, <3>1 DEF SeesNoKey
    <3> QED
      BY <3>2 DEF Sees
  <2>6. ASSUME NEW i \in ItemsIn(label), Find(label, of, key) = {i}, EntryOf(label, i) = <<part, key>>
        PROVE  Sees(label, of, key)
    <3>1. Has(label, <<part, key>>) = label[i].value
      <4>1. <<part, key>> \in DOMAIN ItemsOf(label) /\ ItemsOf(label)[<<part, key>>] = label[i].value
        BY <1>1, <2>6 DEF TableKnown
      <4> QED
        BY <4>1 DEF Has, Table!ValueOf
    <3>2. SeesItem(label, of, key, part, i)
      BY <1>3, <2>4, <2>6, <3>1 DEF SeesItem
    <3> QED
      BY <3>2 DEF Sees
  <2> QED
    BY <2>3, <2>5, <2>6 DEF FoundIn
<1> QED
  BY <1>2, <1>3

-----------------------------------------------------------------------------
(* Tables with an item given other elements.                               *)
LEMMA WithItemSame ==
  ASSUME NEW label, Distinct(label), NEW i \in ItemsIn(label), label[i].value # <<>>
  PROVE  Table!WithItem(ItemsOf(label), EntryOf(label, i), label[i].value) = ItemsOf(label)
<1> DEFINE a == ItemsOf(label)
           e == EntryOf(label, i)
           v == label[i].value
<1>1. e \in DOMAIN a /\ a[e] = v
  BY TableIs DEF TableKnown
<1>2. a = [d \in DOMAIN a |-> a[d]]
  BY ItemsAreFunction
<1>3. v # <<>>
  OBVIOUS
<1> HIDE DEF a, e, v
<1>4. \A d : d \in DOMAIN a <=> IF d = e THEN v # <<>> ELSE d \in DOMAIN a
  BY <1>1, <1>3
<1>5. \A d \in DOMAIN a : a[d] = IF d = e THEN v ELSE a[d]
  BY <1>1
<1>6. a = Table!WithItem(a, e, v)
  BY <1>2, <1>4, <1>5, WithItemIs
<1> QED
  BY <1>6 DEF a, e, v

LEMMA WithItemFields ==
  ASSUME NEW items, NEW e, NEW v
  PROVE  /\ Table!WithItem(items, e, v) =
              [d \in DOMAIN Table!WithItem(items, e, v) |-> Table!WithItem(items, e, v)[d]]
         /\ \A d : d \in DOMAIN Table!WithItem(items, e, v) <=>
                     IF d = e THEN v # <<>> ELSE d \in DOMAIN items
         /\ \A d \in DOMAIN Table!WithItem(items, e, v) :
              Table!WithItem(items, e, v)[d] = IF d = e THEN v ELSE items[d]
         /\ Table!ValueOf(Table!WithItem(items, e, v), e) = v
<1> DEFINE D == IF v = <<>> THEN DOMAIN items \ {e} ELSE DOMAIN items \cup {e}
           t == Table!WithItem(items, e, v)
<1>1. t = [d \in D |-> IF d = e THEN v ELSE items[d]]
  BY DEF Table!WithItem
<1>2. \A d : d \in D <=> IF d = e THEN v # <<>> ELSE d \in DOMAIN items
  OBVIOUS
<1> HIDE DEF D, t
<1>3. DOMAIN t = D /\ \A d \in D : t[d] = IF d = e THEN v ELSE items[d]
  BY <1>1
<1>4. t = [d \in DOMAIN t |-> t[d]]
  BY <1>1
<1>5. Table!ValueOf(t, e) = v
  <2>1. CASE v = <<>>
    BY <1>2, <1>3, <2>1 DEF Table!ValueOf
  <2>2. CASE v # <<>>
    <3>1. e \in DOMAIN t /\ t[e] = v
      BY <1>2, <1>3, <2>2
    <3> QED
      BY <3>1 DEF Table!ValueOf
  <2> QED
    BY <2>1, <2>2
<1> QED
  BY <1>2, <1>3, <1>4, <1>5 DEF t

LEMMA WithItemTwice ==
  ASSUME NEW items, NEW e, NEW u, NEW v, v # <<>>
  PROVE  Table!WithItem(Table!WithItem(items, e, u), e, v) = Table!WithItem(items, e, v)
<1> DEFINE a == Table!WithItem(items, e, u)
           b == Table!WithItem(a, e, v)
<1>1. /\ \A d : d \in DOMAIN a <=> IF d = e THEN u # <<>> ELSE d \in DOMAIN items
      /\ \A d \in DOMAIN a : a[d] = IF d = e THEN u ELSE items[d]
  BY WithItemFields
<1> HIDE DEF a
<1>2. /\ b = [d \in DOMAIN b |-> b[d]]
      /\ \A d : d \in DOMAIN b <=> IF d = e THEN v # <<>> ELSE d \in DOMAIN a
      /\ \A d \in DOMAIN b : b[d] = IF d = e THEN v ELSE a[d]
  BY WithItemFields
<1> HIDE DEF b
<1>3. \A d : d \in DOMAIN b <=> IF d = e THEN v # <<>> ELSE d \in DOMAIN items
  BY <1>1, <1>2
<1>4. \A d \in DOMAIN b : b[d] = IF d = e THEN v ELSE items[d]
  BY <1>1, <1>2
<1>5. b = Table!WithItem(items, e, v)
  BY <1>2, <1>3, <1>4, WithItemIs
<1> QED
  BY <1>5 DEF a, b

-----------------------------------------------------------------------------
(* Elements.                                                               *)
LEMMA MinOfTwo ==
  ASSUME NEW a \in Int, NEW b \in Int
  PROVE  Table!Min({a, b}) = IF a <= b THEN a ELSE b
<1> DEFINE m == IF a <= b THEN a ELSE b
<1>1. m \in {a, b} /\ \A y \in {a, b} : m <= y
  OBVIOUS
<1>2. \A x \in {a, b} : (\A y \in {a, b} : x <= y) => x = m
  OBVIOUS
<1>3. Table!Min({a, b}) = CHOOSE x \in {a, b} : \A y \in {a, b} : x <= y
  BY DEF Table!Min
<1> HIDE DEF m
<1>4. Table!Min({a, b}) = m
  BY <1>1, <1>2, <1>3
<1> QED
  BY <1>4 DEF m

LEMMA Nothing ==
  ASSUME NEW S, NEW value \in Seq(S), NEW from \in Nat, from > Len(value)
  PROVE  SubSeq(value, from, Len(value)) = <<>>
<1>1. Len(value) \in Nat
  OBVIOUS
<1>2. SubSeq(value, from, Len(value)) = [k \in 1 .. 0 |-> value[(from + k) - 1]]
  BY <1>1
<1> QED
  BY <1>2

DropKnown(value, from, count) ==
  /\ from > Len(value) => Table!Dropped(value, from, count) = value
  /\ from = 1 /\ count >= Len(value) => Table!Dropped(value, from, count) = <<>>
  /\ from \in 1 .. Len(value) => Table!Dropped(value, from, count) = Without(value, from - 1, count)

LEMMA DroppedIs ==
  ASSUME NEW value \in Seq(STRING), NEW from \in Nat \ {0}, NEW count \in Nat
  PROVE  DropKnown(value, from, count)
<1> DEFINE n == Len(value)
           d == Table!Dropped(value, from, count)
           m == IF from - 1 <= n THEN from - 1 ELSE n
<1>1. n \in Nat /\ from - 1 \in Int /\ from \in Nat /\ from >= 1
  OBVIOUS
<1>2. Table!Min({from - 1, n}) = m
  BY <1>1, MinOfTwo
<1> HIDE DEF m
<1>3. d = SubSeq(value, 1, m) \o SubSeq(value, from + count, n)
  BY <1>2 DEF Table!Dropped
<1>4. from > n => d = value
  <2> SUFFICES ASSUME from > n PROVE d = value
    OBVIOUS
  <2>1. m = n
    BY <1>1 DEF m
  <2>2. SubSeq(value, 1, n) = value
    BY Whole
  <2>3. SubSeq(value, from + count, n) = <<>>
    BY <1>1, Nothing
  <2>4. d = value \o <<>>
    BY <1>3, <2>1, <2>2, <2>3
  <2> QED
    BY <2>4
<1>5. from = 1 /\ count >= n => d = <<>>
  <2> SUFFICES ASSUME from = 1, count >= n PROVE d = <<>>
    OBVIOUS
  <2>1. m = 0
    BY <1>1 DEF m
  <2>2. SubSeq(value, 1, 0) = <<>>
    OBVIOUS
  <2>3. SubSeq(value, from + count, n) = <<>>
    BY <1>1, Nothing
  <2>4. d = <<>> \o <<>>
    BY <1>3, <2>1, <2>2, <2>3
  <2> QED
    BY <2>4
<1>6. from \in 1 .. n => d = Without(value, from - 1, count)
  <2> SUFFICES ASSUME from \in 1 .. n PROVE d = Without(value, from - 1, count)
    OBVIOUS
  <2>1. m = from - 1
    BY <1>1 DEF m
  <2>2. ((from - 1) + count) + 1 = from + count
    BY <1>1
  <2>3. Without(value, from - 1, count) = SubSeq(value, 1, from - 1) \o SubSeq(value, from + count, n)
    BY <2>2 DEF Without
  <2> QED
    BY <1>3, <2>1, <2>3
<1> QED
  BY <1>4, <1>5, <1>6 DEF DropKnown

-----------------------------------------------------------------------------
(* Edits of an item, and the table.                                        *)
SetsItem(label, t, entry, value) ==
  /\ IsLabel(t) /\ Distinct(t)
  /\ ItemsOf(t) = Table!WithItem(ItemsOf(label), entry, value)
  /\ NamesIn(t, TaskKey) = NamesIn(label, TaskKey)

Left(value, first, nelements) ==
  IF first = -1 THEN value
  ELSE Table!Dropped(value, first + 1, IF nelements = -1 THEN Len(value) ELSE nelements)

LEMMA DeletionTable ==
  ASSUME NEW label, IsLabel(label), Distinct(label), NEW i \in ItemsIn(label),
         NEW first \in Nat \cup {-1}, NEW nelements \in (Nat \ {0}) \cup {-1},
         DeleteItem(label, i, first, nelements).done
  PROVE  SetsItem(label, DeleteItem(label, i, first, nelements).label, EntryOf(label, i),
                  Left(label[i].value, first, nelements))
<1> DEFINE value == label[i].value
           n == Len(value)
           count == IF nelements = -1 THEN n ELSE nelements
           r == DeleteItem(label, i, first, nelements)
           e == EntryOf(label, i)
<1>1. value \in Seq(STRING) /\ value # <<>> /\ n \in Nat \ {0}
  BY HeadersAndItems
<1>2. count \in Nat \ {0}
  BY <1>1
<1>3. r.done /\ r = (CASE first = -1 \/ first >= n -> [label |-> label, stop |-> StopOf(label, i), done |-> TRUE]
               [] first \in 0 .. (n - 1) /\ (n = 1 \/ (first = 0 /\ count >= n)) -> CutItem(label, i)
               [] OTHER -> DeleteElements(label, i, first, count))
  BY DEF DeleteItem
<1>a. Left(value, first, nelements) = IF first = -1 THEN value ELSE Table!Dropped(value, first + 1, count)
  BY DEF Left
<1> HIDE DEF value, n, count, r, e
<1>4. first # -1 => DropKnown(value, first + 1, count)
  <2> SUFFICES ASSUME first # -1 PROVE DropKnown(value, first + 1, count)
    OBVIOUS
  <2>1. first + 1 \in Nat \ {0} /\ count \in Nat
    BY <1>2
  <2> QED
    BY <1>1, <2>1, DroppedIs
<1>5. n = Len(value)
  BY DEF n
<1>6. CASE first = -1 \/ first >= n
  <2>0. ~(first \in 0 .. (n - 1))
    BY <1>1, <1>6
  <2>a. r = [label |-> label, stop |-> StopOf(label, i), done |-> TRUE]
    BY <1>3, <1>6, <2>0
  <2>1. r.label = label
    BY <2>a
  <2>2. Left(value, first, nelements) = value
    <3>1. CASE first = -1
      BY <1>a, <3>1
    <3>2. CASE first # -1
      <4>1. first + 1 > n
        BY <1>1, <1>6, <3>2
      <4> QED
        BY <1>4, <1>5, <1>a, <3>2, <4>1 DEF DropKnown
    <3> QED
      BY <3>1, <3>2
  <2>3. Table!WithItem(ItemsOf(label), e, value) = ItemsOf(label)
    BY <1>1, WithItemSame DEF e, value
  <2> QED
    BY <2>1, <2>2, <2>3 DEF SetsItem, r, e, value
<1>7. CASE ~(first = -1 \/ first >= n) /\ (n = 1 \/ (first = 0 /\ count >= n))
  <2>1. first \in 0 .. (n - 1) /\ first # -1
    BY <1>1, <1>7
  <2>2. r = CutItem(label, i)
    BY <1>3, <1>7, <2>1
  <2>3. r.label = Cut(label, i)
    BY <2>2 DEF CutItem
  <2>4. first + 1 = 1 /\ count >= n
    BY <1>1, <1>2, <1>7, <2>1
  <2>5. Left(value, first, nelements) = <<>>
    BY <1>4, <1>5, <1>a, <2>1, <2>4 DEF DropKnown
  <2>6. SetsItem(label, Cut(label, i), e, <<>>)
    BY CutTable DEF SetsItem, e
  <2> QED
    BY <2>3, <2>5, <2>6 DEF r, e, value
<1>8. CASE ~(first = -1 \/ first >= n) /\ ~(n = 1 \/ (first = 0 /\ count >= n))
  <2>1. first \in 0 .. (n - 1) /\ first # -1 /\ first + 1 \in 1 .. n /\ (first + 1) - 1 = first
    BY <1>1, <1>8
  <2>2. r = DeleteElements(label, i, first, count)
    BY <1>3, <1>8
  <2> DEFINE w == Without(value, first, count)
  <2>3. r.label = Rewritten(label, i, w)
    <3> DEFINE rest == Rewritten(label, i, w)
    <3>1. r = IF TextLen(rest[i]) > TextLen(label[i])
              THEN [label |-> label, stop |-> StopOf(label, i), done |-> FALSE]
              ELSE [label |-> rest, stop |-> StopOf(rest, i), done |-> TRUE]
      BY <2>2 DEF DeleteElements, value
    <3> HIDE DEF rest
    <3>2. r.label = rest
      BY <1>3, <3>1
    <3> QED
      BY <3>2 DEF rest
  <2>4. w \in Seq(STRING) /\ w # <<>>
    <3>1. ~(first = 0 /\ count >= Len(value)) /\ first \in 0 .. (Len(value) - 1) /\ count \in Nat
      BY <1>2, <1>5, <1>8, <2>1
    <3> QED
      BY <1>1, <3>1, WithoutIs
  <2>5. Left(value, first, nelements) = w
    <3>1. DropKnown(value, first + 1, count) /\ first + 1 \in 1 .. Len(value)
      BY <1>4, <1>5, <2>1
    <3>2. Table!Dropped(value, first + 1, count) = Without(value, (first + 1) - 1, count)
      BY <3>1 DEF DropKnown
    <3> QED
      BY <1>a, <2>1, <3>2
  <2> HIDE DEF w
  <2>6. SetsItem(label, Rewritten(label, i, w), e, w)
    BY <2>4, RewriteTable DEF SetsItem, e
  <2> QED
    BY <2>3, <2>5, <2>6 DEF r, e, value
<1> QED
  BY <1>6, <1>7, <1>8

(* Where add_complex_label_item puts new elements.                         *)
Extended(value, first, new) ==
  With(value, IF first = -1 \/ first > Len(value) THEN Len(value) ELSE first, new)

LEMMA ExtendedIs ==
  ASSUME NEW value \in Seq(STRING), NEW first \in Nat \cup {-1}, NEW new \in Seq(STRING), new # <<>>
  PROVE  /\ Extended(value, first, new) \in Seq(STRING) /\ Extended(value, first, new) # <<>>
         /\ value = <<>> => Extended(value, first, new) = new
<1> DEFINE at == IF first = -1 \/ first > Len(value) THEN Len(value) ELSE first
<1>1. at \in 0 .. Len(value)
  OBVIOUS
<1>2. Extended(value, first, new) = With(value, at, new)
  BY DEF Extended
<1>3. value = <<>> => at = 0
  BY <1>1
<1> HIDE DEF at
<1>4. With(value, at, new) \in Seq(STRING) /\ With(value, at, new) # <<>>
  BY <1>1, WithIs
<1>5. ASSUME value = <<>> PROVE With(value, at, new) = new
  <2>1. With(value, at, new) = SubSeq(<<>>, 1, 0) \o new \o SubSeq(<<>>, 1, 0)
    BY <1>3, <1>5 DEF With
  <2>2. SubSeq(<<>>, 1, 0) = <<>>
    OBVIOUS
  <2>3. With(value, at, new) = <<>> \o new \o <<>>
    BY <2>1, <2>2
  <2>4. <<>> \o new = new
    OBVIOUS
  <2>5. new \o <<>> = new
    OBVIOUS
  <2> QED
    BY <2>3, <2>4, <2>5
<1> QED
  BY <1>2, <1>4, <1>5

LEMMA AddItemTable ==
  ASSUME NEW edit, IsLabel(edit.label), Distinct(edit.label), NEW of \in PartType,
         FindPart(edit.label, of) # {}, NEW key \in Keys, NEW first \in Nat \cup {-1},
         NEW new \in Seq(STRING), new # <<>>
  PROVE  \E part : /\ Table!Meant(NamesIn(edit.label, TaskKey), of) = {part}
                   /\ SetsItem(edit.label, AddItem(edit, of, key, first, new).label, <<part, key>>,
                               Extended(Has(edit.label, <<part, key>>), first, new))
<1> DEFINE label == edit.label
           found == Find(label, of, key)
<1>1. IsLabel(label) /\ Distinct(label) /\ FindPart(label, of) # {}
  OBVIOUS
<1>2. AddItem(edit, of, key, first, new) =
        IF found # {}
        THEN AddElements(edit, CHOOSE i \in found : TRUE, first, new)
        ELSE InsertItem(edit, (CHOOSE part \in FindPart(label, of) : TRUE).stop, NewItem(key, new))
  BY DEF AddItem
<1>3. \A i : AddElements(edit, i, first, new).label =
               Rewritten(label, i, Extended(label[i].value, first, new))
  BY DEF AddElements, Extended
<1>4. \A j, item : InsertItem(edit, j, item).label = Inserted(label, j, item)
  BY DEF InsertItem
<1> HIDE DEF label
<1>5. CASE found # {}
  <2>1. PICK part, i : SeesItem(label, of, key, part, i)
    BY <1>1, <1>5, CallSees DEF Sees, SeesNoPart, SeesNoKey
  <2>2. /\ found = {i} /\ Table!Meant(NamesIn(label, TaskKey), of) = {part}
        /\ i \in ItemsIn(label) /\ EntryOf(label, i) = <<part, key>>
        /\ Has(label, <<part, key>>) = label[i].value
    BY <2>1 DEF SeesItem
  <2>3. (CHOOSE x \in found : TRUE) = i
    BY <2>2
  <2> DEFINE v == Extended(label[i].value, first, new)
  <2>4. AddItem(edit, of, key, first, new).label = Rewritten(label, i, v)
    BY <1>2, <1>3, <1>5, <2>3
  <2>5. v \in Seq(STRING) /\ v # <<>>
    BY <1>1, <2>2, HeadersAndItems, ExtendedIs
  <2> HIDE DEF v
  <2>6. SetsItem(label, Rewritten(label, i, v), EntryOf(label, i), v)
    BY <1>1, <2>2, <2>5, RewriteTable DEF SetsItem
  <2> QED
    BY <2>2, <2>4, <2>6 DEF label, v
<1>6. CASE found = {}
  <2> DEFINE p == CHOOSE part \in FindPart(label, of) : TRUE
             item == NewItem(key, new)
  <2>1. p \in FindPart(label, of)
    BY <1>1
  <2> HIDE DEF p
  <2>2. PICK h \in HeadersIn(label) :
          Spans(label, h, p) /\ Table!Meant(NamesIn(label, TaskKey), of) = {PartAt(label, h)}
    BY <1>1, <2>1, PartLocated DEF Located
  <2> DEFINE part == PartAt(label, h)
  <2>3. PICK other : SeesNoKey(label, of, key, other)
    <3>1. Sees(label, of, key)
      BY <1>1, CallSees
    <3>2. ~SeesNoPart(label, of, key)
      BY <1>1 DEF SeesNoPart
    <3>3. \A x, i : ~SeesItem(label, of, key, x, i)
      BY <1>6 DEF SeesItem
    <3> QED
      BY <3>1, <3>2, <3>3 DEF Sees
  <2>4. part = other
    BY <2>2, <2>3 DEF SeesNoKey
  <2>5. <<part, key>> \notin DOMAIN ItemsOf(label) /\ Has(label, <<part, key>>) = <<>>
    BY <2>3, <2>4 DEF SeesNoKey
  <2>6. item \in Element /\ item.key = key /\ item.value = new
    BY NewItemIs
  <2> HIDE DEF item
  <2> DEFINE j == p.stop
  <2>7. /\ h < j /\ j \in 2 .. (Len(label) + 1)
        /\ \A k \in 1 .. Len(label) : h < k /\ k < j => label[k].key \notin Headers
    BY <2>2 DEF Spans
  <2> HIDE DEF j
  <2>8. SetsItem(label, Inserted(label, j, item), <<part, item.key>>, item.value)
    BY <1>1, <2>5, <2>6, <2>7, InsertTable DEF SetsItem
  <2>9. AddItem(edit, of, key, first, new).label = Inserted(label, j, item)
    BY <1>2, <1>4, <1>6 DEF p, item, j
  <2>10. Extended(Has(label, <<part, key>>), first, new) = new
    <3>1. <<>> \in Seq(STRING)
      OBVIOUS
    <3> QED
      BY <2>5, <3>1, ExtendedIs
  <2> QED
    BY <2>2, <2>6, <2>8, <2>9, <2>10 DEF label
<1> QED
  BY <1>5, <1>6

-----------------------------------------------------------------------------
(* The elements that zladd keeps and adds.                                 *)
LEMMA LeftIs ==
  ASSUME NEW value \in Seq(STRING), NEW first \in Nat \cup {-1}, NEW nelements \in Nat \cup {-1}
  PROVE  Left(value, first, nelements) \in Seq(STRING)
<1> DEFINE count == IF nelements = -1 THEN Len(value) ELSE nelements
<1>1. Left(value, first, nelements) = IF first = -1 THEN value ELSE Table!Dropped(value, first + 1, count)
  BY DEF Left
<1>2. count \in Nat /\ Len(value) \in Nat /\ <<>> \in Seq(STRING)
  OBVIOUS
<1> HIDE DEF count
<1>3. CASE first = -1
  BY <1>1, <1>3
<1>4. CASE first # -1
  <2>1. first \in Nat /\ first + 1 \in Nat \ {0} /\ (first + 1) - 1 = first
    BY <1>4
  <2>2. DropKnown(value, first + 1, count)
    BY <1>2, <2>1, DroppedIs
  <2> DEFINE d == Table!Dropped(value, first + 1, count)
  <2>3. CASE first >= Len(value)
    <3>1. first + 1 > Len(value)
      BY <1>2, <2>1, <2>3
    <3>2. d = value
      BY <2>2, <3>1 DEF DropKnown
    <3> QED
      BY <1>1, <1>4, <3>2
  <2>4. CASE first = 0 /\ count >= Len(value)
    <3>1. first + 1 = 1
      BY <2>4
    <3>2. d = <<>>
      BY <2>2, <2>4, <3>1 DEF DropKnown
    <3> QED
      BY <1>1, <1>2, <1>4, <3>2
  <2>5. CASE ~(first >= Len(value)) /\ ~(first = 0 /\ count >= Len(value))
    <3>1. first \in 0 .. (Len(value) - 1) /\ first + 1 \in 1 .. Len(value)
      BY <1>2, <2>1, <2>5
    <3>2. d = Without(value, (first + 1) - 1, count)
      BY <2>2, <3>1 DEF DropKnown
    <3>3. d = Without(value, first, count)
      BY <2>1, <3>2
    <3>4. Without(value, first, count) \in Seq(STRING)
      BY <1>2, <2>5, <3>1, WithoutIs
    <3> QED
      BY <1>1, <1>4, <3>3, <3>4
  <2> QED
    BY <2>3, <2>4, <2>5
<1> QED
  BY <1>3, <1>4

Kept(value, request) ==
  IF request.mode = "REPLACE"
  THEN Left(value, FirstOf(request.element, -1), AllIfDefault(request.nelements))
  ELSE value

LEMMA ElementsAre ==
  ASSUME NEW value \in Seq(STRING), NEW request \in RequestType
  PROVE  /\ Kept(value, request) \in Seq(STRING)
         /\ value = <<>> => Kept(value, request) = <<>>
         /\ Extended(Kept(value, request), FirstOf(request.element, -1), request.new) =
              Table!AfterAddition(value, request)
<1> DEFINE el == request.element
           nel == request.nelements
           named == el \notin {0, -1}
           first == FirstOf(el, -1)
           all == AllIfDefault(nel)
           new == request.new
<1>1. el \in Nat \cup {-1} /\ nel \in Nat \cup {-1}
  BY DEF RequestType
<1>2. first \in Nat \cup {-1} /\ all \in Nat \cup {-1}
  BY <1>1, FirstIs, AllIs
<1>3. /\ named => first = el - 1 /\ first # -1 /\ first + 1 = el /\ el \in Nat \ {0}
      /\ ~named => first = -1
  BY <1>1 DEF FirstOf
<1>4. (IF all = -1 THEN Len(value) ELSE all) = Table!Counted(value, nel)
  BY <1>1 DEF AllIfDefault, Table!Counted
<1>5. named => Table!AfterDeletion(value, request) = Table!Dropped(value, el, Table!Counted(value, nel))
  BY <1>1, <1>3 DEF Table!AfterDeletion
<1>6. Kept(value, request) =
        IF request.mode = "REPLACE" /\ named THEN Table!AfterDeletion(value, request) ELSE value
  <2> HIDE DEF first, all, el, nel
  <2>1. Kept(value, request) = IF request.mode = "REPLACE" THEN Left(value, first, all) ELSE value
    BY DEF Kept, first, all, el, nel
  <2>2. CASE named
    <3>1. Left(value, first, all) = Table!Dropped(value, el, Table!Counted(value, nel))
      BY <1>3, <1>4, <2>2 DEF Left
    <3> QED
      BY <1>5, <2>1, <2>2, <3>1
  <2>3. CASE ~named
    <3>1. Left(value, first, all) = value
      BY <1>3, <2>3 DEF Left
    <3> QED
      BY <2>1, <2>3, <3>1
  <2> QED
    BY <2>2, <2>3
<1> DEFINE k == Kept(value, request)
           at == IF named /\ el <= Len(k) THEN el - 1 ELSE Len(k)
<1>7. k \in Seq(STRING)
  BY <1>2, LeftIs DEF Kept
<1>8. Table!AfterAddition(value, request) = SubSeq(k, 1, at) \o new \o SubSeq(k, at + 1, Len(k))
  BY <1>6 DEF Table!AfterAddition
<1> HIDE DEF k
<1>9. (IF first = -1 \/ first > Len(k) THEN Len(k) ELSE first) = at
  <2>1. Len(k) \in Nat
    BY <1>7
  <2> HIDE DEF first, el
  <2>2. CASE named
    BY <1>3, <2>1, <2>2
  <2>3. CASE ~named
    BY <1>3, <2>1, <2>3
  <2> QED
    BY <2>2, <2>3
<1>10. Extended(k, first, new) = SubSeq(k, 1, at) \o new \o SubSeq(k, at + 1, Len(k))
  <2> HIDE DEF at, first, new
  <2> QED
    BY <1>9 DEF Extended, With
<1>11. value = <<>> => k = <<>>
  <2> SUFFICES ASSUME value = <<>>, request.mode = "REPLACE", named PROVE k = <<>>
    BY <1>6 DEF k
  <2> HIDE DEF el, nel, first
  <2>1. Table!Counted(value, nel) \in Nat
    BY <1>1 DEF Table!Counted, nel
  <2>2. el > Len(value) /\ el \in Nat \ {0}
    BY <1>3
  <2>3. Table!Dropped(value, el, Table!Counted(value, nel)) = value
    BY <2>1, <2>2, DroppedIs DEF DropKnown
  <2> QED
    BY <1>5, <1>6, <2>3 DEF k
<1> QED
  BY <1>7, <1>8, <1>10, <1>11 DEF k

-----------------------------------------------------------------------------
(* zladd, and the table.                                                   *)
SameTable(label, t) ==
  /\ IsLabel(t) /\ Distinct(t)
  /\ ItemsOf(t) = ItemsOf(label) /\ NamesIn(t, TaskKey) = NamesIn(label, TaskKey)

LEMMA NewPropertyIs ==
  ASSUME NEW of \in PartType, IsNewProperty(of)
  PROVE  /\ of.type = "PROPERTY" /\ FindPart(Text, of) = {}
         /\ Named(of) = [type |-> "PROPERTY", name |-> of.name,
                         instance |-> Cardinality(HeadersOf(Text, PropertyKey, of.name)) + 1]
         /\ WithProperty(of).label =
              Inserted(Text, FindFirstHistItem(Text), HeaderItem(PropertyKey, of.name))
<1>1. of.type = "PROPERTY" /\ FindPart(Text, of) = {}
  BY DEF IsNewProperty
<1> DEFINE c == Cardinality(HeadersOf(Text, PropertyKey, of.name)) + 1
<1>2. Named(of) = [of EXCEPT !.instance = c]
  BY DEF Named
<1> HIDE DEF c
<1>3. [of EXCEPT !.instance = c] = [type |-> of.type, name |-> of.name, instance |-> c]
  BY DEF PartType
<1>4. WithProperty(of) = InsertItem(Read, FindFirstHistItem(Text), HeaderItem(PropertyKey, of.name))
  BY DEF WithProperty, HeaderItem
<1>5. Read.label = Text
  BY DEF Read
<1>6. WithProperty(of).label = Inserted(Read.label, FindFirstHistItem(Text), HeaderItem(PropertyKey, of.name))
  BY <1>4 DEF InsertItem
<1> QED
  BY <1>1, <1>2, <1>3, <1>5, <1>6 DEF c

LEMMA WithPropertyTable ==
  ASSUME IInv, Distinct(Text), NEW of \in PartType, of.type = "PROPERTY" \/ FindPart(Text, of) # {}
  PROVE  /\ SameTable(Text, WithProperty(of).label)
         /\ Named(of) \in PartType /\ FindPart(WithProperty(of).label, Named(of)) # {}
<1>1. IsLabel(Text) /\ Read.label = Text
  BY TextIs
<1>2. SameTable(Text, WithProperty(of).label)
  <2>1. CASE IsNewProperty(of)
    <3>1. of.name \in STRING
      BY DEF PartType
    <3> DEFINE j == FindFirstHistItem(Text)
               item == HeaderItem(PropertyKey, of.name)
               t == Inserted(Text, j, item)
    <3>2. /\ IsLabel(t) /\ Distinct(t)
          /\ ItemsOf(t) = ItemsOf(Text) /\ NamesIn(t, TaskKey) = NamesIn(Text, TaskKey)
      BY <1>1, <3>1, PropertyTable
    <3>3. WithProperty(of).label = t
      BY <2>1, NewPropertyIs
    <3> HIDE DEF t
    <3> QED
      BY <3>2, <3>3 DEF SameTable
  <2>2. CASE ~IsNewProperty(of)
    <3>1. WithProperty(of) = Read
      BY <2>2 DEF WithProperty
    <3> QED
      BY <1>1, <3>1 DEF SameTable
  <2> QED
    BY <2>1, <2>2
<1>3. Named(of) \in PartType /\ HasPart(WithProperty(of).label, Named(of))
  BY WithPropertyHolds
<1>4. IsLabel(WithProperty(of).label)
  BY <1>2 DEF SameTable
<1> QED
  BY <1>2, <1>3, <1>4, PartIs DEF PartKnown

(* What MODE=REPLACE leaves of an item.                                    *)
Leaves(base, t, entry, request) ==
  /\ IsLabel(t) /\ Distinct(t) /\ NamesIn(t, TaskKey) = NamesIn(base, TaskKey)
  /\ Has(t, entry) = Kept(Has(base, entry), request)
  /\ \A value : value # <<>> =>
       Table!WithItem(ItemsOf(t), entry, value) = Table!WithItem(ItemsOf(base), entry, value)

LEMMA AfterReplacingTable ==
  ASSUME IInv, Distinct(Text), NEW request \in RequestType,
         request.of.type = "PROPERTY" \/ FindPart(Text, request.of) # {},
         \A r \in Replaced(request) : r.done
  PROVE  LET base == WithProperty(request.of).label
         IN  \E part : /\ Table!Meant(NamesIn(base, TaskKey), Named(request.of)) = {part}
                       /\ Has(base, <<part, request.key>>) \in Seq(STRING)
                       /\ Leaves(base, AfterReplacing(request).label, <<part, request.key>>, request)
<1> DEFINE base == WithProperty(request.of).label
           of == Named(request.of)
           key == request.key
           first == FirstOf(request.element, -1)
           all == AllIfDefault(request.nelements)
           t == AfterReplacing(request).label
<1>1. request.of \in PartType /\ key \in Keys /\ request.element \in Nat \cup {-1}
      /\ request.nelements \in Nat \cup {-1}
  BY DEF RequestType
<1>2. SameTable(Text, base) /\ of \in PartType /\ FindPart(base, of) # {}
  BY <1>1, WithPropertyTable
<1>3. IsLabel(base) /\ Distinct(base)
  BY <1>2 DEF SameTable
<1>4. first \in Nat \cup {-1} /\ all \in (Nat \ {0}) \cup {-1}
  <2>1. all \in (Nat \ {0}) \cup {-1}
    BY <1>1 DEF AllIfDefault
  <2> QED
    BY <1>1, <2>1, FirstIs
<1>5. /\ request.mode = "REPLACE" =>
           Replaced(request) = {DeleteItem(base, i, first, all) : i \in Find(base, of, key)}
      /\ request.mode # "REPLACE" => Replaced(request) = {}
  BY DEF Replaced
<1>6. /\ Replaced(request) = {} => t = base
      /\ Replaced(request) # {} => t = (CHOOSE r \in Replaced(request) : TRUE).label
  <2>1. WithProperty(request.of) = [label |-> base, alloc |-> WithProperty(request.of).alloc]
    BY DEF WithProperty, Read, InsertItem
  <2> DEFINE edit == WithProperty(request.of)
             l == IF Replaced(request) = {} THEN edit.label ELSE (CHOOSE r \in Replaced(request) : TRUE).label
  <2>2. AfterReplacing(request) = [edit EXCEPT !.label = l]
    BY DEF AfterReplacing
  <2> HIDE DEF l, edit
  <2>3. t = l
    BY <2>1, <2>2 DEF edit
  <2> QED
    BY <2>3 DEF l, edit
<1>7. Sees(base, of, key)
  BY <1>1, <1>2, <1>3, CallSees
<1>8. Kept(<<>>, request) = <<>>
  <2>1. <<>> \in Seq(STRING)
    OBVIOUS
  <2> QED
    BY <2>1, ElementsAre
<1> HIDE DEF base, of, key, first, all, t
<1>9. ~SeesNoPart(base, of, key)
  BY <1>2 DEF SeesNoPart
<1>10. ASSUME NEW part, SeesNoKey(base, of, key, part)
       PROVE  /\ Table!Meant(NamesIn(base, TaskKey), of) = {part}
              /\ Has(base, <<part, key>>) \in Seq(STRING)
              /\ Leaves(base, t, <<part, key>>, request)
  <2>1. /\ Find(base, of, key) = {} /\ Table!Meant(NamesIn(base, TaskKey), of) = {part}
        /\ Has(base, <<part, key>>) = <<>>
    BY <1>10 DEF SeesNoKey
  <2>2. Replaced(request) = {}
    BY <1>5, <2>1
  <2>3. t = base
    BY <1>6, <2>2
  <2>4. <<>> \in Seq(STRING)
    OBVIOUS
  <2> QED
    BY <1>3, <1>8, <2>1, <2>3, <2>4 DEF Leaves
<1>11. ASSUME NEW part, NEW i, SeesItem(base, of, key, part, i)
       PROVE  /\ Table!Meant(NamesIn(base, TaskKey), of) = {part}
              /\ Has(base, <<part, key>>) \in Seq(STRING)
              /\ Leaves(base, t, <<part, key>>, request)
  <2>1. /\ Find(base, of, key) = {i} /\ Table!Meant(NamesIn(base, TaskKey), of) = {part}
        /\ i \in ItemsIn(base) /\ EntryOf(base, i) = <<part, key>>
        /\ Has(base, <<part, key>>) = base[i].value
    BY <1>11 DEF SeesItem
  <2>2. base[i].value \in Seq(STRING)
    BY <1>3, <2>1, HeadersAndItems
  <2>3. CASE request.mode = "REPLACE"
    <3> DEFINE r == DeleteItem(base, i, first, all)
               left == Left(base[i].value, first, all)
    <3>1. Replaced(request) = {r}
      BY <1>5, <2>1, <2>3
    <3> HIDE DEF r
    <3>2. r.done /\ t = r.label
      BY <1>6, <3>1
    <3>3. SetsItem(base, t, <<part, key>>, left)
      BY <1>3, <1>4, <2>1, <3>2, DeletionTable DEF r
    <3>4. left = Kept(Has(base, <<part, key>>), request)
      BY <2>1, <2>3 DEF Kept, first, all
    <3> HIDE DEF left
    <3>5. /\ IsLabel(t) /\ Distinct(t) /\ NamesIn(t, TaskKey) = NamesIn(base, TaskKey)
          /\ ItemsOf(t) = Table!WithItem(ItemsOf(base), <<part, key>>, left)
      BY <3>3 DEF SetsItem
    <3>6. Has(t, <<part, key>>) = left
      BY <3>5, WithItemFields DEF Has
    <3>7. ASSUME NEW value, value # <<>>
          PROVE  Table!WithItem(ItemsOf(t), <<part, key>>, value) =
                   Table!WithItem(ItemsOf(base), <<part, key>>, value)
      BY <3>5, <3>7, WithItemTwice
    <3> QED
      BY <2>1, <2>2, <3>4, <3>5, <3>6, <3>7 DEF Leaves
  <2>4. CASE request.mode # "REPLACE"
    <3>1. Replaced(request) = {}
      BY <1>5, <2>4
    <3>2. t = base
      BY <1>6, <3>1
    <3>3. Kept(Has(base, <<part, key>>), request) = Has(base, <<part, key>>)
      BY <2>4 DEF Kept
    <3> QED
      BY <1>3, <2>1, <2>2, <3>2, <3>3 DEF Leaves
  <2> QED
    BY <2>3, <2>4
<1>12. \E part : /\ Table!Meant(NamesIn(base, TaskKey), of) = {part}
                 /\ Has(base, <<part, key>>) \in Seq(STRING)
                 /\ Leaves(base, t, <<part, key>>, request)
  BY <1>7, <1>9, <1>10, <1>11 DEF Sees
<1> QED
  BY <1>12 DEF base, of, key, t

(* What zladd has added.                                                   *)
LEMMA AddedTable ==
  ASSUME IInv, Distinct(Text), NEW request, IsAddition(request), Adds(request),
         \A r \in Replaced(request) : r.done
  PROVE  \E part : /\ Table!Meant(NamesIn(Text, TaskKey), Named(request.of)) = {part}
                   /\ Has(Text, <<part, request.key>>) \in Seq(STRING)
                   /\ SetsItem(Text, Added(request).label, <<part, request.key>>,
                        Table!AfterAddition(Has(Text, <<part, request.key>>), request))
                   /\ Table!AfterAddition(Has(Text, <<part, request.key>>), request) # <<>>
<1> DEFINE base == WithProperty(request.of).label
           of == Named(request.of)
           key == request.key
           edit == AfterReplacing(request)
           first == FirstOf(request.element, -1)
           new == request.new
<1>1. /\ request \in RequestType /\ request.of \in PartType /\ key \in Keys
      /\ new \in Seq(STRING) /\ new # <<>> /\ first \in Nat \cup {-1}
      /\ request.of.type = "PROPERTY" \/ FindPart(Text, request.of) # {}
  BY FirstIs DEF IsAddition, RequestType, Adds
<1>2. SameTable(Text, base) /\ of \in PartType
  BY <1>1, WithPropertyTable
<1>3. PICK part : /\ Table!Meant(NamesIn(base, TaskKey), of) = {part}
                  /\ Has(base, <<part, key>>) \in Seq(STRING)
                  /\ Leaves(base, edit.label, <<part, key>>, request)
  BY <1>1, AfterReplacingTable
<1>4. HasPart(edit.label, of)
  BY <1>1, AfterReplacingHolds
<1>5. Added(request) = AddItem(edit, of, key, first, new)
  BY DEF Added
<1> DEFINE e == <<part, key>>
           value == Has(Text, e)
           t == Added(request).label
<1> HIDE DEF base, of, key, edit, first, new, t
<1>6. /\ IsLabel(edit.label) /\ Distinct(edit.label)
      /\ NamesIn(edit.label, TaskKey) = NamesIn(base, TaskKey)
      /\ Has(edit.label, e) = Kept(Has(base, e), request)
      /\ \A v : v # <<>> => Table!WithItem(ItemsOf(edit.label), e, v) = Table!WithItem(ItemsOf(base), e, v)
  BY <1>3 DEF Leaves
<1>7. /\ ItemsOf(base) = ItemsOf(Text) /\ NamesIn(base, TaskKey) = NamesIn(Text, TaskKey)
      /\ Has(base, e) = value
  BY <1>2 DEF SameTable, Has
<1>8. FindPart(edit.label, of) # {}
  BY <1>2, <1>4, <1>6, PartIs DEF PartKnown
<1>9. SetsItem(edit.label, t, e, Extended(Has(edit.label, e), first, new))
  <2>1. PICK other : /\ Table!Meant(NamesIn(edit.label, TaskKey), of) = {other}
                     /\ SetsItem(edit.label, AddItem(edit, of, key, first, new).label, <<other, key>>,
                                 Extended(Has(edit.label, <<other, key>>), first, new))
    BY <1>1, <1>2, <1>6, <1>8, AddItemTable DEF key, first, new
  <2>2. other = part
    BY <1>3, <1>6, <2>1
  <2> QED
    BY <1>5, <2>1, <2>2 DEF t
<1>10. value \in Seq(STRING)
  BY <1>3, <1>7
<1> DEFINE sum == Table!AfterAddition(value, request)
           kept == Kept(value, request)
<1>11. kept \in Seq(STRING) /\ Extended(kept, first, new) = sum
  BY <1>1, <1>10, ElementsAre DEF first, new
<1> HIDE DEF sum, kept, value, e
<1>12. sum # <<>>
  BY <1>1, <1>11, ExtendedIs DEF first, new
<1>13. SetsItem(edit.label, t, e, sum)
  BY <1>6, <1>7, <1>9, <1>11 DEF kept
<1>14. SetsItem(Text, t, e, sum)
  <2>1. Table!WithItem(ItemsOf(edit.label), e, sum) = Table!WithItem(ItemsOf(Text), e, sum)
    BY <1>6, <1>7, <1>12
  <2> QED
    BY <1>6, <1>7, <1>13, <2>1 DEF SetsItem
<1> QED
  BY <1>3, <1>7, <1>10, <1>12, <1>14 DEF of, key, t, e, value, sum

-----------------------------------------------------------------------------
(* The table with an item set.                                             *)
LEMMA TableSet ==
  ASSUME NEW label, NEW t, NEW entry, NEW value, SetsItem(label, t, entry, value)
  PROVE  TableOf(t) = [TableOf(label) EXCEPT !.items = Table!WithItem(@, entry, value)]
<1> DEFINE a == ItemsOf(label)
           b == ItemsOf(t)
           names == NamesIn(label, TaskKey)
<1>1. b = Table!WithItem(a, entry, value) /\ NamesIn(t, TaskKey) = names
  BY DEF SetsItem
<1>2. TableOf(t) = [items |-> b, tasks |-> names] /\ TableOf(label) = [items |-> a, tasks |-> names]
  BY <1>1, TableFields
<1> HIDE DEF a, b, names
<1>3. [[items |-> a, tasks |-> names] EXCEPT !.items = Table!WithItem(@, entry, value)] =
        [items |-> Table!WithItem(a, entry, value), tasks |-> names]
  OBVIOUS
<1> QED
  BY <1>1, <1>2, <1>3

LEMMA TablesAgree ==
  ASSUME NEW label, NEW t, SameTable(label, t)
  PROVE  TableOf(t) = TableOf(label)
BY TableFields DEF SameTable

(* The part of a property that is created has nothing in it yet.           *)
LEMMA NewPropertyIsEmpty ==
  ASSUME IInv, Distinct(Text), NEW of \in PartType, IsNewProperty(of), NEW h \in HeadersIn(Text)
  PROVE  PartAt(Text, h) # Named(of)
<1> DEFINE named == Named(of)
           c == Cardinality(HeadersOf(Text, PropertyKey, of.name))
<1>1. IsLabel(Text)
  BY TextIs
<1>2. c \in Nat
  BY <1>1, HeadersAre
<1>3. named = [type |-> "PROPERTY", name |-> of.name, instance |-> c + 1] /\ of.type = "PROPERTY"
  BY NewPropertyIs
<1>4. named \in PartType
  BY <1>3, WithPropertyHolds
<1> HIDE DEF named, c
<1>5. named.type = "PROPERTY" /\ named.name = of.name /\ named.instance = c + 1
  BY <1>3
<1>6. ~HasPart(Text, named)
  <2>1. named.instance \notin 1 .. c
    BY <1>2, <1>5
  <2> QED
    BY <1>5, <2>1 DEF HasPart, c
<1>7. FindPart(Text, named) = {}
  BY <1>1, <1>4, <1>6, PartIs DEF PartKnown
<1>8. PartAt(Text, h) # named
  BY <1>1, <1>4, <1>5, <1>7, NoProperty
<1> QED
  BY <1>8 DEF named

(* An entry of the table is in a part of the label.                        *)
LEMMA EntriesArePlaced ==
  ASSUME NEW label, IsLabel(label), Distinct(label), NEW d \in DOMAIN ItemsOf(label)
  PROVE  \E h \in HeadersIn(label) : d[1] = PartAt(label, h)
<1>1. PICK i \in ItemsIn(label) : d = EntryOf(label, i)
  BY TableIs DEF TableKnown
<1> DEFINE h == HeaderBefore(label, i)
<1>2. h \in HeadersIn(label)
  BY HeaderBeforeIs DEF Heads
<1>3. d = <<PartAt(label, h), label[i].key>>
  BY <1>1 DEF EntryOf
<1> HIDE DEF h
<1>4. d[1] = PartAt(label, h)
  BY <1>3
<1> QED
  BY <1>2, <1>4

(* What zladd may add to.                                                  *)
LEMMA AddsToPart ==
  ASSUME IInv, Distinct(Text), NEW request \in RequestType, NEW t, NEW part, NEW value, value # <<>>,
         Table!Meant(NamesIn(Text, TaskKey), Named(request.of)) = {part},
         SetsItem(Text, t, <<part, request.key>>, value)
  PROVE  /\ part \in Table!PartsToAddTo(TableOf(Text), TableOf(t), request.of)
         /\ IsNewProperty(request.of) => Has(Text, <<part, request.key>>) = <<>>
<1> DEFINE of == request.of
           a == ItemsOf(Text)
           b == ItemsOf(t)
           key == request.key
           parts(items) == {d[1] : d \in DOMAIN items}
<1>1. of \in PartType /\ IsLabel(Text)
  BY TextIs DEF RequestType
<1>2. TableOf(Text).items = a /\ TableOf(t).items = b /\ TableOf(Text).tasks = NamesIn(Text, TaskKey)
  BY TableFields
<1>3. Table!PartsToAddTo(TableOf(Text), TableOf(t), of) =
        IF of.type # "PROPERTY" \/ of \in parts(a)
        THEN Table!Meant(NamesIn(Text, TaskKey), of)
        ELSE {p \in parts(b) \ parts(a) : p.type = "PROPERTY" /\ p.name = of.name}
  BY <1>2 DEF Table!PartsToAddTo
<1>4. ASSUME NEW d \in DOMAIN a PROVE \E h \in HeadersIn(Text) : d[1] = PartAt(Text, h)
  BY <1>1, <1>4, EntriesArePlaced
<1>5. <<part, key>> \in DOMAIN b
  <2>1. b = Table!WithItem(a, <<part, key>>, value)
    BY DEF SetsItem
  <2> HIDE DEF a, b
  <2> QED
    BY <2>1, WithItemFields
<1>6. part \in parts(b)
  <2>1. <<part, key>>[1] = part
    OBVIOUS
  <2> HIDE DEF b
  <2> QED
    BY <1>5, <2>1
<1> HIDE DEF a, b
<1>7. CASE IsNewProperty(of)
  <2>1. of.type = "PROPERTY" /\ FindPart(Text, of) = {}
    BY <1>7 DEF IsNewProperty
  <2>2. of \notin parts(a)
    BY <1>1, <1>4, <2>1, NoProperty
  <2>3. Named(of).type = "PROPERTY" /\ Named(of).name = of.name
    BY <1>1, <1>7, NewPropertyIs
  <2>4. part = Named(of)
    BY <2>3 DEF Table!Meant
  <2>5. \A h \in HeadersIn(Text) : PartAt(Text, h) # part
    BY <1>1, <1>7, <2>4, NewPropertyIsEmpty
  <2>6. part \notin parts(a)
    BY <1>4, <2>5
  <2>7. <<part, key>> \notin DOMAIN a
    <3>1. <<part, key>>[1] = part
      OBVIOUS
    <3> QED
      BY <2>6, <3>1
  <2>8. Has(Text, <<part, key>>) = <<>>
    BY <2>7 DEF Has, Table!ValueOf, a
  <2>9. part.type = "PROPERTY" /\ part.name = of.name
    BY <2>3, <2>4
  <2> QED
    BY <1>3, <1>6, <2>1, <2>2, <2>6, <2>8, <2>9
<1>8. CASE ~IsNewProperty(of)
  <2>1. Named(of) = of
    BY <1>8 DEF Named
  <2>2. CASE of.type # "PROPERTY" \/ of \in parts(a)
    BY <1>3, <1>8, <2>1, <2>2
  <2>3. CASE ~(of.type # "PROPERTY" \/ of \in parts(a))
    <3>1. part = of
      BY <2>1, <2>3 DEF Table!Meant
    <3> QED
      BY <1>3, <1>6, <1>8, <2>3, <3>1
  <2> QED
    BY <2>2, <2>3
<1> QED
  BY <1>7, <1>8

-----------------------------------------------------------------------------
(* What a call makes of the label is what the next one finds.              *)
LEMMA TextBecomes ==
  ASSUME NEW label, IsLabel(label), labels' = label
  PROVE  Text' = label
<1>1. label # <<>>
  BY LabelIsSome
<1> QED
  BY <1>1 DEF Text

LEMMA TableParts ==
  ASSUME NEW label
  PROVE  TableOf(label).items = ItemsOf(label) /\ TableOf(label).tasks = NamesIn(label, TaskKey)
BY TableFields

(* A call that does not edit the label.                                    *)
LEMMA ReadsSame ==
  ASSUME IInv, ReadIn, UNCHANGED <<file, op>>
  PROVE  Text' = Text /\ Table!Same
<1>1. Text' = Text
  BY TextIs, TextBecomes DEF ReadIn
<1>2. TableOf(Text') = TableOf(Text) /\ TableOf(file') = TableOf(file)
  BY <1>1
<1> QED
  BY <1>1, <1>2 DEF Table!Same

(* zladd adds to the part that it is asked to add to.                      *)
LEMMA AddedWhereNothing ==
  ASSUME IInv, Distinct(Text), NEW request \in RequestType, ~IsNewProperty(request.of),
         Find(Text, request.of, request.key) = {}, NEW part,
         Table!Meant(NamesIn(Text, TaskKey), Named(request.of)) = {part}
  PROVE  Has(Text, <<part, request.key>>) = <<>>
<1>1. Named(request.of) = request.of
  BY DEF Named
<1>2. request.of \in PartType /\ request.key \in Keys
  BY DEF RequestType
<1>3. Sees(Text, request.of, request.key)
  BY <1>2, TextIs, CallSees
<1> QED
  BY <1>1, <1>3 DEF Sees, SeesNoPart, SeesNoKey, SeesItem

LEMMA AddStep ==
  ASSUME IInv, Distinct(Text), Failures \subseteq {"argument"},
         NEW request, IsAddition(request), ZlAdd(request)
  PROVE  Table!Add /\ Distinct(Text') /\ modified' = TRUE
<1>1. Adds(request) /\ request.name = "zladd" /\ op = "UPDATE"
  BY DEF ZlAdd, MayAdd, Adds
<1>2. {"none"} \cup (Failures \ {"argument"}) = {"none"}
  OBVIOUS
<1>3. Edits(request, "SUCCESS", Added(request)) /\ modified' = TRUE
  BY <1>2 DEF ZlAdd, Added
<1>4. /\ \A r \in Replaced(request) : r.done
      /\ request.mode = "ADD" => Find(Text, request.of, request.key) = {}
  BY DEF ZlAdd, MayAdd
<1>5. request \in RequestType
  BY DEF IsAddition
<1>6. PICK part : /\ Table!Meant(NamesIn(Text, TaskKey), Named(request.of)) = {part}
                  /\ SetsItem(Text, Added(request).label, <<part, request.key>>,
                       Table!AfterAddition(Has(Text, <<part, request.key>>), request))
                  /\ Table!AfterAddition(Has(Text, <<part, request.key>>), request) # <<>>
  BY <1>1, <1>4, AddedTable
<1> DEFINE label == Added(request).label
           entry == <<part, request.key>>
           value == Table!AfterAddition(Has(Text, entry), request)
<1> HIDE DEF label
<1>7. IsLabel(label) /\ Distinct(label)
  BY <1>6 DEF SetsItem, label
<1>8. labels' = label /\ call' = Answered(request, "SUCCESS", <<>>) /\ UNCHANGED <<file, op>>
  BY <1>3 DEF Edits, label
<1>9. Text' = label
  BY <1>7, <1>8, TextBecomes
<1> HIDE DEF value
<1>10. SetsItem(Text, label, entry, value) /\ value # <<>>
  BY <1>6 DEF label, value
<1>11. /\ part \in Table!PartsToAddTo(TableOf(Text), TableOf(label), request.of)
       /\ IsNewProperty(request.of) => Has(Text, entry) = <<>>
  BY <1>5, <1>6, <1>10, AddsToPart
<1>12. request.mode = "ADD" => Has(Text, entry) = <<>>
  BY <1>4, <1>5, <1>6, <1>11, AddedWhereNothing
<1>13. TableOf(label) = [TableOf(Text) EXCEPT !.items = Table!WithItem(@, entry, value)]
  BY <1>10, TableSet
<1>14. Has(Text, entry) = Table!ValueOf(TableOf(Text).items, entry)
  BY TableParts DEF Has
<1>15. /\ Table!Asked = request /\ Table!Status = "SUCCESS"
  BY <1>8 DEF Table!Asked, Table!Status, Answered
<1>16. TableOf(file') = TableOf(file)
  BY <1>8
<1>17. Table!Add
  BY <1>1, <1>8, <1>9, <1>11, <1>12, <1>13, <1>14, <1>15, <1>16 DEF Table!Add, value, entry
<1> QED
  BY <1>3, <1>7, <1>9, <1>17

-----------------------------------------------------------------------------
(* zldel leaves the elements that the table's deletion leaves.             *)
LEMMA LeftByDeletion ==
  ASSUME NEW value \in Seq(STRING), NEW request \in RequestType
  PROVE  Left(value, FirstOf(request.element, 0), AllIfDefault(request.nelements)) =
           Table!AfterDeletion(value, request)
<1>1. request.element \in Nat \cup {-1} /\ request.nelements \in Nat \cup {-1}
  BY DEF RequestType
<1>2. CASE request.element = -1
  BY <1>2 DEF Left, FirstOf, Table!AfterDeletion
<1>3. CASE request.element # -1
  <2> DEFINE from == IF request.element = 0 THEN 1 ELSE request.element
             count == Table!Counted(value, request.nelements)
             first == FirstOf(request.element, 0)
             nelements == AllIfDefault(request.nelements)
  <2>1. first + 1 = from /\ first # -1
    BY <1>1, <1>3 DEF FirstOf
  <2>2. (IF nelements = -1 THEN Len(value) ELSE nelements) = count
    BY <1>1 DEF AllIfDefault, Table!Counted
  <2>3. Table!AfterDeletion(value, request) = Table!Dropped(value, from, count)
    BY <1>3 DEF Table!AfterDeletion
  <2> HIDE DEF from, count, first, nelements
  <2>4. Left(value, first, nelements) = Table!Dropped(value, from, count)
    BY <2>1, <2>2 DEF Left
  <2> QED
    BY <2>3, <2>4 DEF first, nelements
<1> QED
  BY <1>2, <1>3

(* A deletion is refused only when some elements are to stay.              *)
LEMMA KeepsSome ==
  ASSUME NEW label, NEW i, Len(label[i].value) \in Nat \ {0},
         NEW first \in Nat \cup {-1}, NEW nelements,
         ~DeleteItem(label, i, first, nelements).done
  PROVE  Len(label[i].value) >= 2
<1> DEFINE n == Len(label[i].value)
           count == IF nelements = -1 THEN n ELSE nelements
           r == DeleteItem(label, i, first, nelements)
           end == first = -1 \/ first >= n
           all == first \in 0 .. (n - 1) /\ (n = 1 \/ (first = 0 /\ count >= n))
<1>1. r = CASE end -> [label |-> label, stop |-> StopOf(label, i), done |-> TRUE]
            [] all -> CutItem(label, i)
            [] OTHER -> DeleteElements(label, i, first, count)
  BY DEF DeleteItem
<1>2. ~r.done
  OBVIOUS
<1> HIDE DEF r, count
<1>3. ~(end /\ all)
  OBVIOUS
<1>4. end => r.done
  BY <1>1, <1>3
<1>5. CutItem(label, i).done
  BY DEF CutItem
<1>6. all => r.done
  BY <1>1, <1>3, <1>5
<1>7. ~end /\ ~all
  BY <1>2, <1>4, <1>6
<1>8. n \in Nat \ {0}
  OBVIOUS
<1> HIDE DEF n
<1>9. n # 1
  <2> SUFFICES ASSUME n = 1 PROVE FALSE
    OBVIOUS
  <2>1. first # -1 /\ ~(first >= 1) /\ ~(first \in 0 .. 0)
    BY <1>7
  <2> QED
    BY <2>1
<1>10. n >= 2
  BY <1>8, <1>9
<1> QED
  BY <1>10 DEF n

LEMMA ItemSeen ==
  ASSUME IInv, Distinct(Text), NEW request \in RequestType, NEW i \in Find(Text, request.of, request.key)
  PROVE  \E part :
           /\ Table!Meant(TableOf(Text).tasks, request.of) = {part}
           /\ i \in ItemsIn(Text) /\ EntryOf(Text, i) = <<part, request.key>>
           /\ Has(Text, <<part, request.key>>) = Text[i].value
           /\ Text[i].value \in Seq(STRING) /\ Text[i].value # <<>>
<1>1. request.of \in PartType /\ request.key \in Keys
  BY DEF RequestType
<1>2. IsLabel(Text)
  BY TextIs
<1>3. Sees(Text, request.of, request.key)
  BY <1>1, <1>2, CallSees
<1>4. PICK part, j : SeesItem(Text, request.of, request.key, part, j)
  BY <1>3 DEF Sees, SeesNoPart, SeesNoKey
<1>5. j = i
  BY <1>4 DEF SeesItem
<1>6. i \in ItemsIn(Text)
  BY <1>4, <1>5 DEF SeesItem
<1>7. Text[i].value \in Seq(STRING) /\ Text[i].value # <<>>
  BY <1>2, <1>6, HeadersAndItems
<1>8. TableOf(Text).tasks = NamesIn(Text, TaskKey)
  BY TableParts
<1> QED
  BY <1>4, <1>5, <1>7, <1>8 DEF SeesItem

LEMMA DelStep ==
  ASSUME IInv, Distinct(Text), NEW request \in RequestType, ZlDel(request)
  PROVE  /\ Table!Delete \/ Table!Refuse
         /\ Distinct(Text')
         /\ modified' = TRUE \/ (modified' = modified /\ Text' = Text)
<1>1. PICK i \in Find(Text, request.of, request.key) :
         \/ ~Deletion(request, i).done /\ Refused(request, "FAILURE")
         \/ /\ Deletion(request, i).done
            /\ Edits(request, "SUCCESS", [Read EXCEPT !.label = Deletion(request, i).label])
            /\ modified' = TRUE
  BY DEF ZlDel, Deletion
<1>2. PICK part :
           /\ Table!Meant(TableOf(Text).tasks, request.of) = {part}
           /\ i \in ItemsIn(Text) /\ EntryOf(Text, i) = <<part, request.key>>
           /\ Has(Text, <<part, request.key>>) = Text[i].value
           /\ Text[i].value \in Seq(STRING) /\ Text[i].value # <<>>
  BY ItemSeen
<1> DEFINE entry == <<part, request.key>>
           value == Text[i].value
           first == FirstOf(request.element, 0)
           nelements == AllIfDefault(request.nelements)
           r == Deletion(request, i)
<1>3. /\ request.element \in Nat \cup {-1} /\ request.nelements \in Nat \cup {-1}
      /\ request.name = "zldel" /\ op = "UPDATE" /\ IsLabel(Text)
  BY TextIs DEF ZlDel, RequestType
<1>4. first \in Nat \cup {-1} /\ nelements \in (Nat \ {0}) \cup {-1}
  BY <1>3, FirstIs DEF AllIfDefault
<1>5. r = DeleteItem(Text, i, first, nelements)
  BY DEF Deletion
<1>6. Has(Text, entry) = Table!ValueOf(TableOf(Text).items, entry)
  BY TableParts DEF Has
<1>7. Left(value, first, nelements) = Table!AfterDeletion(value, request)
  BY <1>2, LeftByDeletion
<1> HIDE DEF r, first, nelements
<1>8. CASE ~r.done /\ Refused(request, "FAILURE")
  <2>1. ReadIn /\ UNCHANGED <<file, op, modified>> /\ call' = Answered(request, "FAILURE", <<>>)
    BY <1>8 DEF Refused
  <2>2. Text' = Text /\ Table!Same
    BY <2>1, ReadsSame
  <2>3. Len(value) \in Nat \ {0}
    BY <1>2
  <2>4. Len(value) >= 2
    BY <1>4, <1>5, <1>8, <2>3, KeepsSome
  <2>5. Table!Asked = request /\ Table!Status = "FAILURE"
    BY <2>1 DEF Table!Asked, Table!Status, Answered
  <2>6. Len(Table!ValueOf(TableOf(Text).items, entry)) >= 2
    BY <1>2, <1>6, <2>4
  <2> HIDE DEF value, entry
  <2>7. Table!Refuse
    BY <1>2, <1>3, <2>2, <2>5, <2>6 DEF Table!Refuse, entry
  <2> QED
    BY <2>1, <2>2, <2>7
<1>9. CASE /\ r.done
           /\ Edits(request, "SUCCESS", [Read EXCEPT !.label = r.label])
           /\ modified' = TRUE
  <2>1. SetsItem(Text, r.label, entry, Table!AfterDeletion(value, request))
    <3>1. r.done
      BY <1>9
    <3>2. SetsItem(Text, DeleteItem(Text, i, first, nelements).label, EntryOf(Text, i),
                   Left(Text[i].value, first, nelements))
      BY <1>2, <1>3, <1>4, <1>5, <3>1, DeletionTable
    <3> QED
      BY <1>2, <1>5, <1>7, <3>2
  <2>2. labels' = r.label /\ call' = Answered(request, "SUCCESS", <<>>) /\ UNCHANGED <<file, op>>
    BY <1>9 DEF Edits, Read
  <2>3. IsLabel(r.label) /\ Distinct(r.label)
    BY <2>1 DEF SetsItem
  <2>4. Text' = r.label
    BY <2>2, <2>3, TextBecomes
  <2> DEFINE left == Table!AfterDeletion(value, request)
             label == r.label
  <2> HIDE DEF left, label
  <2>5. SetsItem(Text, label, entry, left)
    BY <2>1 DEF left, label
  <2>6. TableOf(label) = [TableOf(Text) EXCEPT !.items = Table!WithItem(@, entry, left)]
    BY <2>5, TableSet
  <2>7. Table!Asked = request /\ Table!Status = "SUCCESS" /\ TableOf(file') = TableOf(file)
    BY <2>2 DEF Table!Asked, Table!Status, Answered
  <2>8. value = Table!ValueOf(TableOf(Text).items, entry) /\ value # <<>>
    BY <1>2, <1>6
  <2> HIDE DEF value
  <2>9. Table!Delete
    BY <1>2, <1>3, <2>2, <2>4, <2>6, <2>7, <2>8 DEF Table!Delete, entry, left, label
  <2> QED
    BY <1>9, <2>3, <2>4, <2>9
<1> QED
  BY <1>1, <1>8, <1>9 DEF r

-----------------------------------------------------------------------------
(* The elements that zlget reads are the ones wanted.                      *)
Wanted(value, first, count) == {k \in DOMAIN value : k >= first /\ k < first + count}

Reading(value, first, count) ==
  [k \in 1 .. Table!Cardinality(Wanted(value, first, count)) |-> value[first + k - 1]]
FirstWanted(value, element) ==
  CASE element = 0 -> 1 [] element = -1 -> Len(value) + 1 [] OTHER -> element
CountWanted(value, nelements) ==
  CASE nelements = 0 -> 1 [] nelements = -1 -> Len(value) [] OTHER -> nelements

LEMMA WantedAre ==
  ASSUME NEW value \in Seq(STRING), NEW first \in Nat \ {0}, NEW count \in Nat, NEW last,
         last = IF first - 1 + count <= Len(value) THEN first - 1 + count ELSE Len(value)
  PROVE  SubSeq(value, first, last) = Reading(value, first, count)
<1> DEFINE n == Len(value)
           W == Wanted(value, first, count)
<1>1. n \in Nat /\ DOMAIN value = 1 .. n
  OBVIOUS
<1>0. first - 1 + count \in Nat
  OBVIOUS
<1> HIDE DEF n
<1>2. last \in Nat /\ last = IF first - 1 + count <= n THEN first - 1 + count ELSE n
  BY <1>0, <1>1 DEF n
<1>3. W = first .. last
  <2>1. \A k : k \in W <=> k \in 1 .. n /\ k >= first /\ k < first + count
    BY <1>1 DEF Wanted
  <2>2. \A k \in Nat : (k <= n /\ k >= first /\ k < first + count) <=> (k >= first /\ k <= last)
    BY <1>1, <1>2
  <2> HIDE DEF W
  <2>3. \A k : k \in W <=> k \in first .. last
    BY <1>1, <1>2, <2>1, <2>2
  <2> QED
    BY <2>3
<1> HIDE DEF W
<1>4. Cardinality(first .. last) = IF first > last THEN 0 ELSE last - first + 1
  <2>1. first \in Int /\ last \in Int
    BY <1>2
  <2> QED
    BY <2>1, FS_Interval
<1>5. Table!Cardinality(W) = Cardinality(first .. last)
  BY <1>3 DEF Table!Cardinality, Cardinality
<1>6. 1 .. Table!Cardinality(W) = 1 .. (last - first + 1)
  BY <1>2, <1>4, <1>5
<1>7. SubSeq(value, first, last) = [k \in 1 .. (last - first + 1) |-> value[first + k - 1]]
  BY <1>2
<1> QED
  BY <1>6, <1>7 DEF W, Reading

LEMMA GotIs ==
  ASSUME NEW value \in Seq(STRING), NEW element \in Nat \cup {-1}, NEW nelements \in Nat \cup {-1}
  PROVE  Got(value, element, nelements) =
           Reading(value, FirstWanted(value, element), CountWanted(value, nelements))
<1> DEFINE n == Len(value)
           first == FirstWanted(value, element)
           count == CountWanted(value, nelements)
<1>1. n \in Nat
  OBVIOUS
<1>2. first \in Nat \ {0} /\ first - 1 = IF element = -1 THEN n ELSE FirstOf(element, 0)
  BY <1>1 DEF FirstOf, FirstWanted
<1>3. count \in Nat /\ count = IF nelements = 0 THEN 1 ELSE IF nelements = -1 THEN n ELSE nelements
  BY <1>1 DEF CountWanted
<1> HIDE DEF first, count
<1> DEFINE last == IF first - 1 + count <= n THEN first - 1 + count ELSE n
<1>4. Min({first - 1 + count, n}) = last
  <2>1. first - 1 + count \in Int /\ n \in Int
    BY <1>1, <1>2, <1>3
  <2>2. Table!Min({first - 1 + count, n}) = last
    BY <2>1, MinOfTwo
  <2> QED
    BY <2>2 DEF Table!Min, Min
<1>5. Got(value, element, nelements) = SubSeq(value, first - 1 + 1, Min({first - 1 + count, n}))
  BY <1>2, <1>3 DEF Got
<1>6. first - 1 + 1 = first
  BY <1>2
<1>7. Got(value, element, nelements) = SubSeq(value, first, last)
  BY <1>4, <1>5, <1>6
<1>8. last = IF first - 1 + count <= Len(value) THEN first - 1 + count ELSE Len(value)
  OBVIOUS
<1> HIDE DEF last
<1>9. SubSeq(value, first, last) = Reading(value, first, count)
  BY <1>2, <1>3, <1>8, WantedAre
<1> QED
  BY <1>7, <1>9 DEF first, count

LEMMA GetStep ==
  ASSUME IInv, Distinct(Text), NEW request \in RequestType, Gets(request)
  PROVE  Table!Get /\ Text' = Text /\ modified' = modified
<1>1. PICK i \in Find(Text, request.of, request.key) :
        call' = Answered(request, "SUCCESS",
                         IF request.name = "zlinfo" THEN <<>>
                         ELSE Got(Text[i].value, request.element, request.nelements))
  BY DEF Gets
<1>2. PICK part :
           /\ Table!Meant(TableOf(Text).tasks, request.of) = {part}
           /\ i \in ItemsIn(Text) /\ EntryOf(Text, i) = <<part, request.key>>
           /\ Has(Text, <<part, request.key>>) = Text[i].value
           /\ Text[i].value \in Seq(STRING) /\ Text[i].value # <<>>
  BY ItemSeen
<1>3. request.name \in {"zlget", "zlinfo"} /\ ReadIn /\ UNCHANGED <<file, op, modified>>
  BY DEF Gets
<1>4. Text' = Text /\ Table!Same
  BY <1>3, ReadsSame
<1> DEFINE value == Text[i].value
           element == request.element
           nelements == request.nelements
<1>5. element \in Nat \cup {-1} /\ nelements \in Nat \cup {-1}
  BY DEF RequestType
<1>6. value = Table!ValueOf(TableOf(Text).items, <<part, request.key>>) /\ value # <<>>
  BY <1>2, TableParts DEF Has
<1>7. Got(value, element, nelements) =
        Reading(value, FirstWanted(value, element), CountWanted(value, nelements))
  BY <1>2, <1>5, GotIs
<1>8. Table!Asked = request /\ Table!Status = "SUCCESS"
  BY <1>1 DEF Table!Asked, Table!Status, Answered
<1>9. request.name = "zlget" => call'.values = Got(value, element, nelements)
  BY <1>1 DEF Answered
<1> HIDE DEF value
<1> DEFINE v == Table!ValueOf(TableOf(Text).items, <<part, Table!Asked.key>>)
           first == CASE Table!Asked.element = 0 -> 1
                      [] Table!Asked.element = -1 -> Len(v) + 1
                      [] OTHER -> Table!Asked.element
           count == CASE Table!Asked.nelements = 0 -> 1
                      [] Table!Asked.nelements = -1 -> Len(v)
                      [] OTHER -> Table!Asked.nelements
           wanted == {k \in DOMAIN v : k >= first /\ k < first + count}
<1>10. v = value /\ first = FirstWanted(v, element) /\ count = CountWanted(v, nelements)
  BY <1>6, <1>8 DEF FirstWanted, CountWanted
<1> HIDE DEF v, first, count
<1>11. wanted = Wanted(v, first, count)
  BY DEF Wanted
<1> HIDE DEF wanted
<1>12. [k \in 1 .. Table!Cardinality(wanted) |-> v[first + k - 1]] = Reading(v, first, count)
  BY <1>11 DEF Reading
<1>13. Table!Asked.name = "zlget" =>
         call'.values = [k \in 1 .. Table!Cardinality(wanted) |-> v[first + k - 1]]
  BY <1>7, <1>8, <1>9, <1>10, <1>12
<1>14. v # <<>> /\ Table!Asked.name \in {"zlget", "zlinfo"} /\ Table!Status = "SUCCESS"
  BY <1>3, <1>6, <1>8, <1>10
<1>15. part \in Table!Meant(TableOf(Text).tasks, Table!Asked.of)
  BY <1>2, <1>8
<1>16. Table!Get
  BY <1>4, <1>13, <1>14, <1>15, Zenon DEF Table!Get, v, first, count, wanted
<1> QED
  BY <1>3, <1>4, <1>16

-----------------------------------------------------------------------------
(* Every property that has items is listed.                                *)
LEMMA PropertiesListed ==
  ASSUME NEW label, IsLabel(label), Distinct(label), NEW d \in DOMAIN TableOf(label).items,
         d[1].type = "PROPERTY"
  PROVE  d[1].name \in Table!Range(NamesIn(label, PropertyKey))
<1>1. PICK h \in HeadersIn(label) : d[1] = PartAt(label, h)
  BY TableParts, EntriesArePlaced
<1>2. PartAtKnown(label, h) /\ HeaderKnown(label, h)
  BY PartAtIs, HeaderFacts
<1>3. label[h].key \in Headers
  BY <1>2 DEF HeaderKnown
<1>4. label[h].key = PropertyKey
  <2>1. label[h].key # SystemKey
    <3> SUFFICES ASSUME label[h].key = SystemKey PROVE FALSE
      OBVIOUS
    <3>1. d[1] = SystemPart
      BY <1>1, <1>2 DEF PartAtKnown
    <3>2. SystemPart.type = "SYSTEM"
      BY DEF SystemPart
    <3> QED
      BY <3>1, <3>2
  <2>2. label[h].key # TaskKey
    <3> SUFFICES ASSUME label[h].key = TaskKey PROVE FALSE
      OBVIOUS
    <3>1. d[1] = [type |-> "HISTORY", name |-> label[h].value[1], instance |-> NumberOf(label, h)]
      BY <1>1, <1>2 DEF PartAtKnown
    <3>2. d[1].type = "HISTORY"
      BY <3>1
    <3> QED
      BY <3>2
  <2> QED
    BY <1>3, <2>1, <2>2 DEF Headers
<1>5. d[1].name = label[h].value[1]
  <2>1. d[1] = [type |-> "PROPERTY", name |-> label[h].value[1], instance |-> NumberOf(label, h)]
    BY <1>1, <1>2, <1>4 DEF PartAtKnown
  <2> QED
    BY <2>1
<1>6. h \in Listed(label, PropertyKey)
  BY <1>4 DEF Listed, HeadersIn
<1> DEFINE names == NamesIn(label, PropertyKey)
           k == Cardinality(UpTo(Listed(label, PropertyKey), h))
<1>7. NamesKnown(label, PropertyKey)
  BY NamesAre
<1>8. k \in DOMAIN names /\ names[k] = label[h].value[1]
  BY <1>6, <1>7 DEF NamesKnown
<1> HIDE DEF names, k
<1>9. names[k] \in Table!Range(names)
  BY <1>8 DEF Table!Range
<1> QED
  BY <1>5, <1>8, <1>9 DEF names

LEMMA ListStep ==
  ASSUME IInv, Distinct(Text),
         ListsNames("zlhinfo", TaskKey) \/ ListsNames("zlpinfo", PropertyKey) \/ ZlNInfo
  PROVE  Table!List /\ Text' = Text /\ modified' = modified
<1>1. ReadIn /\ UNCHANGED <<file, op, modified>>
  BY DEF ListsNames, ZlNInfo
<1>2. Text' = Text /\ Table!Same
  BY <1>1, ReadsSame
<1>3. CASE ListsNames("zlhinfo", TaskKey)
  <2>1. Table!Asked.name = "zlhinfo" /\ call'.values = NamesIn(Text, TaskKey)
    BY <1>3 DEF ListsNames, Table!Asked, Answered, Plain, Request
  <2>2. call'.values = TableOf(Text).tasks
    BY <2>1, TableParts
  <2> QED
    BY <1>1, <1>2, <2>1, <2>2 DEF Table!List
<1>4. CASE ListsNames("zlpinfo", PropertyKey)
  <2>1. Table!Asked.name = "zlpinfo" /\ call'.values = NamesIn(Text, PropertyKey)
    BY <1>4 DEF ListsNames, Table!Asked, Answered, Plain, Request
  <2>2. \A d \in DOMAIN TableOf(Text).items :
          d[1].type = "PROPERTY" => d[1].name \in Table!Range(call'.values)
    BY <2>1, TextIs, PropertiesListed
  <2> QED
    BY <1>1, <1>2, <2>1, <2>2 DEF Table!List
<1>5. CASE ZlNInfo
  <2>0. \E status, values : call' = Answered(Plain("zlninfo"), status, values)
    BY <1>5 DEF ZlNInfo
  <2>1. PICK status, values : call' = Answered(Plain("zlninfo"), status, values)
    BY <2>0
  <2>2. Table!Asked.name = "zlninfo"
    BY <2>1 DEF Table!Asked, Answered, Plain, Request
  <2> QED
    BY <1>1, <1>2, <2>2 DEF Table!List
<1> QED
  BY <1>3, <1>4, <1>5

-----------------------------------------------------------------------------
(* A call is refused for the reason that it returns.                       *)
Refusing(request, status) ==
  /\ Table!Asked = request /\ Table!Status = status /\ Table!Same
  /\ request.name \in {"zladd", "zldel", "zlget", "zlinfo"}

LEMMA RefusesSame ==
  ASSUME IInv, NEW request \in RequestType, NEW status, Refused(request, status)
  PROVE  Refusing(request, status) /\ Text' = Text /\ modified' = modified
<1>1. ReadIn /\ UNCHANGED <<file, op, modified>> /\ call' = Answered(request, status, <<>>)
  BY DEF Refused
<1>2. request.name \in {"zladd", "zldel", "zlget", "zlinfo"}
  BY DEF RequestType, Calls
<1>3. Table!Asked = request /\ Table!Status = status
  BY <1>1 DEF Table!Asked, Table!Status, Answered
<1> QED
  BY <1>1, <1>2, <1>3, ReadsSame DEF Refusing

(* How many elements a call finds.                                         *)
Holds(request, n) ==
  \E part \in Table!Meant(TableOf(Text).tasks, request.of) :
    Len(Table!ValueOf(TableOf(Text).items, <<part, request.key>>)) >= n

LEMMA HoldsFew ==
  ASSUME IInv, Distinct(Text), NEW request \in RequestType
  PROVE  /\ FindPart(Text, request.of) = {} =>
              /\ ~Holds(request, 1)
              /\ request.of.type = "HISTORY" => Table!Meant(TableOf(Text).tasks, request.of) = {}
         /\ Find(Text, request.of, request.key) = {} => ~Holds(request, 1)
         /\ \A i \in Find(Text, request.of, request.key) :
              Holds(request, 1) /\ (Len(Text[i].value) >= 2 => Holds(request, 2))
<1>1. request.of \in PartType /\ request.key \in Keys
  BY DEF RequestType
<1>2. Sees(Text, request.of, request.key)
  BY <1>1, TextIs, CallSees
<1>3. TableOf(Text).tasks = NamesIn(Text, TaskKey) /\ TableOf(Text).items = ItemsOf(Text)
  BY TableParts
<1>4. ASSUME FindPart(Text, request.of) = {}
      PROVE  /\ Find(Text, request.of, request.key) = {}
             /\ request.of.type = "HISTORY" => Table!Meant(TableOf(Text).tasks, request.of) = {}
  BY <1>2, <1>3, <1>4 DEF Sees, SeesNoPart, SeesNoKey, SeesItem
<1>5. ASSUME Find(Text, request.of, request.key) = {} PROVE ~Holds(request, 1)
  <2>1. \A part \in Table!Meant(NamesIn(Text, TaskKey), request.of) : Has(Text, <<part, request.key>>) = <<>>
    BY <1>2, <1>5 DEF Sees, SeesNoPart, SeesNoKey, SeesItem
  <2>2. Len(<<>>) = 0
    OBVIOUS
  <2> SUFFICES ASSUME NEW part \in Table!Meant(TableOf(Text).tasks, request.of),
                      Len(Table!ValueOf(TableOf(Text).items, <<part, request.key>>)) >= 1
               PROVE  FALSE
    BY DEF Holds
  <2>3. Table!ValueOf(TableOf(Text).items, <<part, request.key>>) = <<>>
    BY <1>3, <2>1 DEF Has
  <2> QED
    BY <2>2, <2>3
<1>6. ASSUME NEW i \in Find(Text, request.of, request.key)
      PROVE  Holds(request, 1) /\ (Len(Text[i].value) >= 2 => Holds(request, 2))
  <2>1. PICK part :
           /\ Table!Meant(TableOf(Text).tasks, request.of) = {part}
           /\ Has(Text, <<part, request.key>>) = Text[i].value
           /\ Text[i].value \in Seq(STRING) /\ Text[i].value # <<>>
    BY ItemSeen
  <2>2. Len(Text[i].value) >= 1
    BY <2>1
  <2> QED
    BY <1>3, <2>1, <2>2 DEF Holds, Has
<1> QED
  BY <1>4, <1>5, <1>6

LEMMA NoPartStep ==
  ASSUME IInv, Distinct(Text), NEW request \in RequestType, FindsNoPart(request)
  PROVE  Table!Refuse /\ Text' = Text /\ modified' = modified
<1>1. FindPart(Text, request.of) = {}
  BY DEF FindsNoPart
<1>2. /\ ~Holds(request, 1)
      /\ request.of.type = "HISTORY" => Table!Meant(TableOf(Text).tasks, request.of) = {}
  BY <1>1, HoldsFew
<1>3. CASE \E status \in {"NO_TASKS_IN_LABEL", "NO_SUCH_TASK"} :
             request.of.type = "HISTORY" /\ Refused(request, status)
  <2>1. PICK status \in {"NO_TASKS_IN_LABEL", "NO_SUCH_TASK"} :
          request.of.type = "HISTORY" /\ Refused(request, status)
    BY <1>3
  <2>2. Refusing(request, status) /\ Text' = Text /\ modified' = modified
    BY <2>1, RefusesSame
  <2> QED
    BY <1>2, <2>1, <2>2 DEF Table!Refuse, Refusing
<1>4. CASE request.name # "zladd" /\ Refused(request, "NO_SUCH_PROPERTY")
  <2>1. Refusing(request, "NO_SUCH_PROPERTY") /\ Text' = Text /\ modified' = modified
    BY <1>4, RefusesSame
  <2> QED
    BY <1>2, <1>4, <2>1 DEF Table!Refuse, Refusing, Holds
<1> QED
  BY <1>3, <1>4 DEF FindsNoPart

LEMMA NoKeyStep ==
  ASSUME IInv, Distinct(Text), NEW request \in RequestType, FindsNoKey(request)
  PROVE  Table!Refuse /\ Text' = Text /\ modified' = modified
<1>1. request.name # "zladd" /\ ~Holds(request, 1) /\ Refused(request, "CANNOT_FIND_KEY")
  BY HoldsFew DEF FindsNoKey
<1>2. Refusing(request, "CANNOT_FIND_KEY") /\ Text' = Text /\ modified' = modified
  BY <1>1, RefusesSame
<1> QED
  BY <1>1, <1>2 DEF Table!Refuse, Refusing, Holds

LEMMA DuplicateStep ==
  ASSUME IInv, Distinct(Text), NEW request \in RequestType, AddFindsDuplicate(request)
  PROVE  Table!Refuse /\ Text' = Text /\ modified' = modified
<1>1. request.mode = "ADD" /\ Refused(request, "DUPLICATE_KEY")
      /\ Find(Text, request.of, request.key) # {}
  BY DEF AddFindsDuplicate
<1>2. Holds(request, 1)
  BY <1>1, HoldsFew
<1>3. Refusing(request, "DUPLICATE_KEY") /\ Text' = Text /\ modified' = modified
  BY <1>1, RefusesSame
<1> QED
  BY <1>1, <1>2, <1>3 DEF Table!Refuse, Refusing, Holds

LEMMA InputStep ==
  ASSUME IInv, NEW request \in RequestType, ModifiesAnInput(request)
  PROVE  Table!Refuse /\ Text' = Text /\ modified' = modified
<1>1. /\ op = "READ" /\ UNCHANGED <<file, op, labels, modified>>
      /\ call' = Answered(request, "CAN_NOT_MODIFY_AN_INPUT_LABEL", <<>>)
      /\ request.name \in {"zladd", "zldel"}
  BY DEF ModifiesAnInput
<1>2. Text' = Text
  BY <1>1 DEF Text
<1>3. TableOf(Text') = TableOf(Text) /\ TableOf(file') = TableOf(file)
  BY <1>1, <1>2
<1>4. Table!Asked = request /\ Table!Status = "CAN_NOT_MODIFY_AN_INPUT_LABEL"
  BY <1>1 DEF Table!Asked, Table!Status, Answered
<1> QED
  BY <1>1, <1>2, <1>3, <1>4 DEF Table!Refuse, Table!Same

LEMMA LacksStep ==
  ASSUME IInv, Distinct(Text), NEW request \in RequestType, AddLacksArgument(request)
  PROVE  /\ Table!Refuse /\ Distinct(Text')
         /\ TableOf(Text') = TableOf(Text) /\ modified' = modified /\ op = "UPDATE"
<1>1. /\ request.of \in PartType
      /\ request.of.type = "PROPERTY" \/ FindPart(Text, request.of) # {}
      /\ request.name = "zladd" /\ op = "UPDATE"
  BY DEF RequestType, AddLacksArgument, Adds
<1> DEFINE label == WithProperty(request.of).label
<1>2. SameTable(Text, label)
  BY <1>1, WithPropertyTable
<1>3. /\ labels' = label /\ UNCHANGED <<file, op, modified>>
      /\ call' = Answered(request, "FORMAT_OPTIONAL_REQUIRED", <<>>)
  BY DEF AddLacksArgument, Fails, Edits
<1> HIDE DEF label
<1>4. IsLabel(label) /\ Distinct(label)
  BY <1>2 DEF SameTable
<1>5. Text' = label
  BY <1>3, <1>4, TextBecomes
<1>6. TableOf(label) = TableOf(Text)
  BY <1>2, TablesAgree
<1>7. Table!Same
  BY <1>3, <1>5, <1>6 DEF Table!Same
<1>8. Table!Asked = request /\ Table!Status = "FORMAT_OPTIONAL_REQUIRED"
  BY <1>3 DEF Table!Asked, Table!Status, Answered
<1>9. Table!Refuse
  BY <1>1, <1>7, <1>8 DEF Table!Refuse
<1> QED
  BY <1>1, <1>3, <1>4, <1>5, <1>6, <1>9

-----------------------------------------------------------------------------
(* There is nothing to replace in a property that is created.              *)
LEMMA NothingInNew ==
  ASSUME IInv, Distinct(Text), NEW request \in RequestType, IsNewProperty(request.of)
  PROVE  Find(WithProperty(request.of).label, Named(request.of), request.key) = {}
<1> DEFINE base == WithProperty(request.of).label
           named == Named(request.of)
           key == request.key
<1>1. request.of \in PartType /\ key \in Keys
  BY DEF RequestType
<1>2. request.of.type = "PROPERTY"
  BY <1>1, NewPropertyIs
<1>3. SameTable(Text, base) /\ named \in PartType
  BY <1>1, <1>2, WithPropertyTable
<1>4. named = [type |-> "PROPERTY", name |-> request.of.name,
               instance |-> Cardinality(HeadersOf(Text, PropertyKey, request.of.name)) + 1]
  BY <1>1, NewPropertyIs
<1>5. \A h \in HeadersIn(Text) : PartAt(Text, h) # named
  BY <1>1, NewPropertyIsEmpty
<1> HIDE DEF base, named, key
<1>6. named.type # "HISTORY"
  BY <1>4
<1>7. Table!Meant(NamesIn(base, TaskKey), named) = {named}
  BY <1>6 DEF Table!Meant
<1>8. IsLabel(base) /\ Distinct(base) /\ ItemsOf(base) = ItemsOf(Text)
  BY <1>3 DEF SameTable
<1>9. Sees(base, named, key)
  BY <1>1, <1>3, <1>8, CallSees
<1>10. ASSUME NEW part, NEW i, SeesItem(base, named, key, part, i) PROVE FALSE
  <2>1. i \in ItemsIn(base) /\ EntryOf(base, i) = <<part, key>> /\ part = named
    BY <1>7, <1>10 DEF SeesItem
  <2>2. <<named, key>> \in DOMAIN ItemsOf(base)
    BY <1>8, <2>1, TableIs DEF TableKnown
  <2>3. <<named, key>> \in DOMAIN ItemsOf(Text) /\ IsLabel(Text)
    BY <1>8, <2>2, TextIs
  <2>4. \E h \in HeadersIn(Text) : <<named, key>>[1] = PartAt(Text, h)
    BY <2>3, EntriesArePlaced
  <2>5. <<named, key>>[1] = named
    OBVIOUS
  <2> QED
    BY <1>5, <2>4, <2>5
<1>11. Find(base, named, key) = {}
  BY <1>9, <1>10 DEF Sees, SeesNoPart, SeesNoKey
<1> QED
  BY <1>11 DEF base, named, key

LEMMA CannotReplaceStep ==
  ASSUME IInv, Distinct(Text), NEW request \in RequestType, CannotReplace(request)
  PROVE  Table!Refuse /\ Text' = Text /\ modified' = modified
<1> DEFINE base == WithProperty(request.of).label
           first == FirstOf(request.element, -1)
           nelements == AllIfDefault(request.nelements)
<1>1. PICK r \in Replaced(request) : ~r.done
  BY DEF CannotReplace
<1>2. Refused(request, "FAILURE")
  BY DEF CannotReplace
<1>3. request.mode = "REPLACE"
  BY <1>1 DEF Replaced
<1>4. PICK i \in Find(base, Named(request.of), request.key) : r = DeleteItem(base, i, first, nelements)
  BY <1>1, <1>3 DEF Replaced
<1>5. ~IsNewProperty(request.of)
  BY <1>4, NothingInNew
<1>6. base = Text /\ Named(request.of) = request.of
  BY <1>5 DEF WithProperty, Named, Read
<1>7. first \in Nat \cup {-1}
  BY FirstIs DEF RequestType
<1> HIDE DEF base, first, nelements
<1>8. i \in Find(Text, request.of, request.key) /\ ~DeleteItem(Text, i, first, nelements).done
  BY <1>1, <1>4, <1>6
<1>9. Len(Text[i].value) \in Nat \ {0}
  <2>1. Text[i].value \in Seq(STRING) /\ Text[i].value # <<>>
    BY <1>8, ItemSeen
  <2> QED
    BY <2>1
<1>10. Len(Text[i].value) >= 2
  BY <1>7, <1>8, <1>9, KeepsSome
<1>11. Holds(request, 2)
  BY <1>8, <1>10, HoldsFew
<1>12. Refusing(request, "FAILURE") /\ Text' = Text /\ modified' = modified
  BY <1>2, RefusesSame
<1> QED
  BY <1>3, <1>11, <1>12 DEF Table!Refuse, Refusing, Holds

-----------------------------------------------------------------------------
(* The items of the file and of the text are told apart, and a label that  *)
(* is not written back holds what the file does.                           *)
TInv ==
  /\ IInv
  /\ Distinct(file) /\ Distinct(Text)
  /\ modified => op = "UPDATE"
  /\ ~modified => TableOf(Text) = TableOf(file)

LEMMA OpenStep ==
  ASSUME TInv, NEW mode \in {"READ", "UPDATE"}, NEW program \in Programs, ZvOpen(mode, program)
  PROVE  /\ Table!Open
         /\ Distinct(Text') /\ file' = file
         /\ modified' => op' = "UPDATE"
         /\ ~modified' => TableOf(Text') = TableOf(file')
<1>1. op = "closed" /\ labels = <<>> /\ Text = file /\ ~modified /\ IsLabel(file) /\ Distinct(file)
  BY TextIs DEF ZvOpen, IsOpen, TInv, IInv, Text
<1>2. op' = mode /\ op' # "closed" /\ file' = file /\ TableOf(file') = TableOf(file)
  BY DEF ZvOpen
<1>3. Table!Asked.name = "zvopen"
  <2>1. call' = Answered(Plain("zvopen"), "SUCCESS", <<>>)
    BY DEF ZvOpen
  <2> QED
    BY <2>1 DEF Table!Asked, Answered, Plain, Request
<1>4. CASE UNCHANGED <<labels, lblalloc, modified>>
  <2>1. Text' = Text
    BY <1>2, <1>4 DEF Text
  <2>2. TableOf(Text') = TableOf(Text)
    BY <2>1
  <2> QED
    BY <1>1, <1>2, <1>3, <1>4, <2>1, <2>2 DEF Table!Open, TInv
<1> DEFINE label == Inserted(file, Len(file) + 1, HeaderItem(TaskKey, program))
<1>5. CASE mode = "UPDATE" /\ labels' = label /\ modified' = TRUE
  <2>1. program \in STRING
    BY ConstantsAreSane
  <2>2. /\ IsLabel(label) /\ Distinct(label) /\ ItemsOf(label) = ItemsOf(file)
        /\ NamesIn(label, TaskKey) = Append(NamesIn(file, TaskKey), program)
    BY <1>1, <2>1, TaskTable
  <2> HIDE DEF label
  <2>3. Text' = label
    BY <1>5, <2>2, TextBecomes
  <2> DEFINE tasks == NamesIn(file, TaskKey)
             items == ItemsOf(file)
  <2>4. TableOf(file) = [items |-> items, tasks |-> tasks]
    BY TableFields
  <2>5. TableOf(label) = [items |-> items, tasks |-> Append(tasks, program)]
    BY <2>2, TableFields
  <2>6. program \in Table!Range(Append(tasks, program))
    <3> DEFINE c == Cardinality(Listed(file, TaskKey))
               T == {tasks[k] : k \in 1 .. c} \cup {program}
    <3>1. c \in Nat /\ tasks = [k \in 1 .. c |-> tasks[k]]
      <4>1. NamesKnown(file, TaskKey)
        BY <1>1, NamesAre
      <4> QED
        BY <4>1, NamesAreFunction DEF NamesKnown
    <3> HIDE DEF tasks, c
    <3>2. tasks \in [1 .. c -> T] /\ program \in T
      BY <3>1
    <3> HIDE DEF T
    <3>3. tasks \in Seq(T)
      BY <3>1, <3>2
    <3> DEFINE longer == Append(tasks, program)
    <3>4. Len(tasks) + 1 \in DOMAIN longer /\ longer[Len(tasks) + 1] = program
      BY <3>2, <3>3
    <3> HIDE DEF longer
    <3>5. program \in Table!Range(longer)
      BY <3>4 DEF Table!Range
    <3> QED
      BY <3>5 DEF longer
  <2> HIDE DEF tasks, items
  <2>7. TableOf(label) = [TableOf(Text) EXCEPT !.tasks = Append(@, program)]
        /\ TableOf(label).tasks = Append(tasks, program)
    <3> DEFINE r == TableOf(Text)
               longer == Append(tasks, program)
    <3>1. r = [items |-> items, tasks |-> tasks]
      BY <1>1, <2>4
    <3>2. TableOf(label) = [items |-> items, tasks |-> longer]
      BY <2>5
    <3> HIDE DEF r, longer
    <3>3. r.tasks = tasks /\ [r EXCEPT !.tasks = longer] = [items |-> items, tasks |-> longer]
      BY <3>1
    <3>4. [r EXCEPT !.tasks = Append(@, program)] = [items |-> items, tasks |-> longer]
      BY <3>3 DEF longer
    <3> QED
      BY <3>2, <3>4 DEF r, longer
  <2>8. Table!Open
    BY <1>1, <1>2, <1>3, <1>5, <2>3, <2>6, <2>7 DEF Table!Open
  <2> QED
    BY <1>2, <1>5, <2>2, <2>3, <2>8
<1>6. \/ UNCHANGED <<labels, lblalloc, modified>>
      \/ mode = "UPDATE" /\ labels' = label /\ modified' = TRUE
  BY <1>1 DEF ZvOpen, InsertItem, Read, HeaderItem
<1> QED
  BY <1>4, <1>5, <1>6

LEMMA CloseStep ==
  ASSUME TInv, ZvClose
  PROVE  /\ Table!Close
         /\ Distinct(Text') /\ Distinct(file') /\ ~modified' /\ Text' = file'
<1>1. /\ op # "closed" /\ op' = "closed" /\ labels' = <<>> /\ modified' = FALSE
      /\ file' = IF op = "UPDATE" /\ modified THEN labels ELSE file
  BY DEF ZvClose, IsOpen
<1>2. Table!Asked.name = "zvclose"
  <2>1. call' = Answered(Plain("zvclose"), "SUCCESS", <<>>)
    BY DEF ZvClose
  <2> QED
    BY <2>1 DEF Table!Asked, Answered, Plain, Request
<1>3. Text' = file'
  BY <1>1 DEF Text
<1>4. TableOf(file') = TableOf(Text) /\ Distinct(file')
  <2>1. CASE modified
    <3>1. op = "UPDATE" /\ labels # <<>>
      BY <2>1 DEF TInv, IInv, TypeOK
    <3>2. file' = Text
      BY <1>1, <2>1, <3>1 DEF Text
    <3> QED
      BY <3>2 DEF TInv
  <2>2. CASE ~modified
    <3>1. file' = file
      BY <1>1, <2>2
    <3> QED
      BY <2>2, <3>1 DEF TInv
  <2> QED
    BY <2>1, <2>2 DEF TInv, IInv, TypeOK
<1>5. TableOf(Text') = TableOf(Text)
  BY <1>3, <1>4
<1> QED
  BY <1>1, <1>2, <1>3, <1>4, <1>5 DEF Table!Close

-----------------------------------------------------------------------------
LEMMA TableSteps ==
  ASSUME Next
  PROVE  \/ \E mode \in {"READ", "UPDATE"}, program \in Programs : ZvOpen(mode, program)
         \/ ZvClose
         \/ ListsNames("zlhinfo", TaskKey) \/ ListsNames("zlpinfo", PropertyKey) \/ ZlNInfo
         \/ \E request \in RequestType :
              \/ ModifiesAnInput(request) \/ FindsNoPart(request) \/ FindsNoKey(request)
              \/ AddFindsDuplicate(request) \/ CannotReplace(request)
              \/ Gets(request) \/ AddLacksArgument(request) \/ ZlDel(request)
         \/ \E request : IsAddition(request) /\ ZlAdd(request)
<1>1. /\ \A request \in PlainRequests({"zladd", "zldel", "zlget", "zlinfo"}) : request \in RequestType
      /\ \A request \in PlainRequests({"zlinfo"}) : request \in RequestType
      /\ \A request \in PlainRequests({"zladd"}) : request \in RequestType
      /\ \A request \in Selecting({"zlget"}) : request \in RequestType
      /\ \A request \in Selecting({"zldel"}) : request \in RequestType
  <2>1. /\ {"zladd", "zldel", "zlget", "zlinfo"} \in SUBSET Calls
        /\ {"zlinfo"} \in SUBSET Calls /\ {"zladd"} \in SUBSET Calls
        /\ {"zlget"} \in SUBSET Calls /\ {"zldel"} \in SUBSET Calls
    BY DEF Calls
  <2> QED
    BY <2>1, RequestsAre
<1>2. \A request \in Additions : IsAddition(request) /\ request \in RequestType
  BY AdditionsAre DEF IsAddition
<1>3. CASE \E request \in PlainRequests({"zladd", "zldel", "zlget", "zlinfo"}) :
             ModifiesAnInput(request) \/ FindsNoPart(request) \/ FindsNoKey(request)
  BY <1>1, <1>3
<1>4. CASE \E request \in PlainRequests({"zlinfo"}) \cup Selecting({"zlget"}) : Gets(request)
  BY <1>1, <1>4
<1>5. CASE \E request \in PlainRequests({"zladd"}) : AddLacksArgument(request)
  BY <1>1, <1>5
<1>6. CASE \E request \in Additions :
             AddFindsDuplicate(request) \/ CannotReplace(request) \/ ZlAdd(request)
  BY <1>2, <1>6
<1>7. CASE \E request \in Selecting({"zldel"}) : ZlDel(request)
  BY <1>1, <1>7
<1> QED
  BY <1>3, <1>4, <1>5, <1>6, <1>7 DEF Next

(* A call that edits nothing.                                              *)
LEMMA TKept ==
  ASSUME TInv, IInv', file' = file, op' = op, Text' = Text, modified' = modified
  PROVE  TInv'
<1>1. /\ Distinct(file') /\ Distinct(Text')
      /\ modified' => op' = "UPDATE"
      /\ ~modified' => TableOf(Text') = TableOf(file')
  BY DEF TInv
<1> QED
  BY <1>1 DEF TInv

LEMMA TableStep ==
  ASSUME TInv, Failures \subseteq {"argument"}, Next
  PROVE  Table!Next /\ TInv'
<1>1. IInv /\ Distinct(Text) /\ Distinct(file) /\ IInv'
  BY IInvNext DEF TInv
<1>2. ASSUME NEW mode \in {"READ", "UPDATE"}, NEW program \in Programs, ZvOpen(mode, program)
      PROVE  Table!Next /\ TInv'
  <2>1. /\ Table!Open
        /\ Distinct(Text') /\ file' = file
        /\ modified' => op' = "UPDATE"
        /\ ~modified' => TableOf(Text') = TableOf(file')
    BY <1>2, OpenStep
  <2> QED
    BY <1>1, <2>1 DEF Table!Next, TInv
<1>3. CASE ZvClose
  <2>1. Table!Close /\ Distinct(Text') /\ Distinct(file') /\ ~modified' /\ Text' = file'
    BY <1>3, CloseStep
  <2>2. TableOf(Text') = TableOf(file')
    BY <2>1
  <2> QED
    BY <1>1, <2>1, <2>2 DEF Table!Next, TInv
<1>4. CASE ListsNames("zlhinfo", TaskKey) \/ ListsNames("zlpinfo", PropertyKey) \/ ZlNInfo
  <2>1. Table!List /\ Text' = Text /\ modified' = modified
    BY <1>1, <1>4, ListStep
  <2>2. file' = file /\ op' = op
    BY <1>4 DEF ListsNames, ZlNInfo
  <2> QED
    BY <1>1, <2>1, <2>2, TKept DEF Table!Next
<1>5. ASSUME NEW request \in RequestType,
             \/ ModifiesAnInput(request) \/ FindsNoPart(request) \/ FindsNoKey(request)
             \/ AddFindsDuplicate(request) \/ CannotReplace(request)
      PROVE  Table!Next /\ TInv'
  <2>1. Table!Refuse /\ Text' = Text /\ modified' = modified
    BY <1>1, <1>5, InputStep, NoPartStep, NoKeyStep, DuplicateStep, CannotReplaceStep
  <2>2. file' = file /\ op' = op
    BY <1>5 DEF ModifiesAnInput, FindsNoPart, FindsNoKey, AddFindsDuplicate, CannotReplace, Refused
  <2> QED
    BY <1>1, <2>1, <2>2, TKept DEF Table!Next
<1>6. ASSUME NEW request \in RequestType, Gets(request) PROVE Table!Next /\ TInv'
  <2>1. Table!Get /\ Text' = Text /\ modified' = modified
    BY <1>1, <1>6, GetStep
  <2>2. file' = file /\ op' = op
    BY <1>6 DEF Gets
  <2> QED
    BY <1>1, <2>1, <2>2, TKept DEF Table!Next
<1>7. ASSUME NEW request \in RequestType, AddLacksArgument(request) PROVE Table!Next /\ TInv'
  <2>1. /\ Table!Refuse /\ Distinct(Text')
        /\ TableOf(Text') = TableOf(Text) /\ modified' = modified /\ op = "UPDATE"
    BY <1>1, <1>7, LacksStep
  <2>2. file' = file /\ op' = op
    BY <1>7 DEF AddLacksArgument, Fails, Edits
  <2>3. ~modified' => TableOf(Text') = TableOf(file')
    BY <2>1, <2>2 DEF TInv
  <2> QED
    BY <1>1, <2>1, <2>2, <2>3 DEF Table!Next, TInv
<1>8. ASSUME NEW request \in RequestType, ZlDel(request) PROVE Table!Next /\ TInv'
  <2>1. /\ Table!Delete \/ Table!Refuse
        /\ Distinct(Text')
        /\ modified' = TRUE \/ (modified' = modified /\ Text' = Text)
    BY <1>1, <1>8, DelStep
  <2>2. file' = file /\ op' = op /\ op = "UPDATE"
    BY <1>8 DEF ZlDel, Refused, Edits
  <2>3. ~modified' => TableOf(Text') = TableOf(file')
    BY <2>1, <2>2 DEF TInv
  <2> QED
    BY <1>1, <2>1, <2>2, <2>3 DEF Table!Next, TInv
<1>9. ASSUME NEW request, IsAddition(request), ZlAdd(request) PROVE Table!Next /\ TInv'
  <2>1. Table!Add /\ Distinct(Text') /\ modified' = TRUE
    BY <1>1, <1>9, AddStep
  <2>2. file' = file /\ op' = op /\ op = "UPDATE"
    <3>1. op = "UPDATE"
      BY <1>9 DEF ZlAdd, MayAdd, Adds
    <3>2. file' = file /\ op' = op
      BY <1>9, AddIs DEF Edits, Fails
    <3> QED
      BY <3>1, <3>2
  <2> QED
    BY <1>1, <2>1, <2>2 DEF Table!Next, TInv
<1> QED
  BY <1>2, <1>3, <1>4, <1>5, <1>6, <1>7, <1>8, <1>9, TableSteps

LEMMA TableInit ==
  ASSUME \A label \in InitialLabels : Distinct(label), Init
  PROVE  Table!Init /\ TInv
<1>1. IInv
  BY IInvInit
<1>2. Text = file /\ Distinct(file) /\ op = "closed" /\ ~modified
  BY DEF Init, Text
<1>3. TableOf(Text) = TableOf(file)
  BY <1>2
<1>4. call.request.name = "start"
  <2>1. call = Answered(Plain("start"), "SUCCESS", <<>>)
    BY DEF Init
  <2> QED
    BY <2>1 DEF Answered, Plain, Request
<1> QED
  BY <1>1, <1>2, <1>3, <1>4 DEF Table!Init, TInv

(* The text of a label is edited, searched and stored so that it is a      *)
(* table of items and a list of tasks: whatever a call changes is what it  *)
(* was asked to change, what it returns is what is there, and nothing is   *)
(* lost when the file is closed - unless an addition fails for its length  *)
(* or for want of memory, or a label in a file has two items with one key  *)
(* in a part.                                                              *)
THEOREM TextIsATable ==
  ASSUME Failures \subseteq {"argument"}, \A label \in InitialLabels : Distinct(label)
  PROVE  Spec => Implements
<1>1. Init => Table!Init /\ TInv
  BY TableInit
<1>2. TInv /\ [Next]_vars => TInv' /\ [Table!Next]_(Table!tvars)
  <2> SUFFICES ASSUME TInv, [Next]_vars
               PROVE  TInv' /\ [Table!Next]_(Table!tvars)
    OBVIOUS
  <2>1. CASE Next
    BY <2>1, TableStep
  <2>2. CASE UNCHANGED vars
    <3>1. file' = file /\ op' = op /\ modified' = modified /\ Text' = Text /\ call' = call
      BY <2>2 DEF vars, Text
    <3>2. IInv'
      BY <2>2, IInvNext DEF TInv
    <3>3. TInv'
      BY <3>1, <3>2, TKept
    <3>4. TableOf(Text') = TableOf(Text) /\ TableOf(file') = TableOf(file)
      BY <3>1
    <3> QED
      BY <3>1, <3>3, <3>4 DEF Table!tvars
  <2> QED
    BY <2>1, <2>2
<1> QED
  BY <1>1, <1>2, PTL DEF Spec, Implements, Table!Spec
=============================================================================
