--------------------------- MODULE ImageFileProofs ---------------------------
(***************************************************************************)
(* What ImageFile keeps, for every size of record, image and label, and    *)
(* whichever calls fail.                                                   *)
(***************************************************************************)
EXTENDS ImageFile, SequenceTheorems, WellFoundedInduction, TLAPS

(* Numbers.                                                                *)

LEMMA DivMod ==
  ASSUME NEW n \in Nat, NEW d \in Nat \ {0}
  PROVE  /\ n \div d \in Nat
         /\ n % d \in 0 .. (d - 1)
         /\ n = d * (n \div d) + (n % d)
OBVIOUS

LEMMA MaxOfTwo ==
  ASSUME NEW a \in Int, NEW b \in Int, NEW S, S = {a, b}
  PROVE  Max(S) \in {a, b} /\ Max(S) >= a /\ Max(S) >= b
<1>1. \E x \in S : \A y \in S : x >= y
  <2>1. CASE a >= b
    BY <2>1
  <2>2. CASE b >= a
    BY <2>2
  <2> QED
    BY <2>1, <2>2
<1>2. Max(S) \in S /\ \A y \in S : Max(S) >= y
  BY <1>1 DEF Max
<1> QED
  BY <1>2

LEMMA MinOfTwo ==
  ASSUME NEW a \in Int, NEW b \in Int, NEW S, S = {a, b}
  PROVE  Min(S) \in {a, b} /\ Min(S) <= a /\ Min(S) <= b
<1>1. \E x \in S : \A y \in S : x <= y
  <2>1. CASE a <= b
    BY <2>1
  <2>2. CASE b <= a
    BY <2>2
  <2> QED
    BY <2>1, <2>2
<1>2. Min(S) \in S /\ \A y \in S : Min(S) <= y
  BY <1>1 DEF Min
<1> QED
  BY <1>2

LEMMA MinOfNats ==
  ASSUME NEW S \in SUBSET Nat, S # {}
  PROVE  Min(S) \in S /\ \A y \in S : Min(S) <= y
<1>1. \E x \in S : \A y \in S : <<y, x>> \notin OpToRel(<, Nat)
  BY NatLessThanWellFounded, WFMin
<1>2. \E x \in S : \A y \in S : ~(y < x)
  BY <1>1 DEF OpToRel
<1>3. \E x \in S : \A y \in S : x <= y
  BY <1>2
<1> QED
  BY <1>3 DEF Min

LEMMA Sizes ==
  /\ PerRec \in Nat /\ PerRec > 1
  /\ NImage \in Nat \ {0}
  /\ MaxText \in Nat
<1>1. N2 \in Nat \ {0} /\ N3 \in Nat \ {0}
  BY LayoutIsSane
<1>2. N2 * N3 \in Nat \ {0}
  BY <1>1
<1> QED
  BY <1>2, LayoutIsSane DEF NImage

LEMMA RecsForType ==
  ASSUME NEW n \in Nat
  PROVE  RecsFor(n) \in Nat /\ (n > 0 => RecsFor(n) > 0)
<1> DEFINE t == n + PerRec - 1
<1>1. t \in Nat /\ PerRec \in Nat \ {0}
  BY Sizes
<1>2. t \div PerRec \in Nat /\ t % PerRec \in 0 .. (PerRec - 1)
      /\ t = PerRec * (t \div PerRec) + (t % PerRec)
  BY <1>1, DivMod
<1>3. n > 0 => t \div PerRec # 0
  <2> SUFFICES ASSUME n > 0, t \div PerRec = 0 PROVE FALSE
    OBVIOUS
  <2>1. PerRec * (t \div PerRec) = 0
    BY <1>1
  <2> QED
    BY <1>1, <1>2, <2>1
<1> QED
  BY <1>2, <1>3 DEF RecsFor

-----------------------------------------------------------------------------
(* Files.                                                                  *)

LEMMA HoleType == Hole \in RecordType
<1>1. <<>> \in Seq(Texts) /\ Len(<<>>) = 0
  OBVIOUS
<1> QED
  BY <1>1, Sizes DEF Hole, Rec, RecordType

LEMMA LineType ==
  ASSUME NEW d \in Texts
  PROVE  Rec(<<d>>, 0) \in RecordType
<1> DEFINE t == <<d>>
           r == [text |-> t, note |-> 0]
<1>1. t \in Seq(Texts) /\ Len(t) = 1
  OBVIOUS
<1> HIDE DEF t
<1>2. r \in [text : Seq(Texts), note : Nat] /\ r.text = t
  BY <1>1
<1> HIDE DEF r
<1>3. Len(r.text) <= PerRec
  <2>1. Len(t) <= PerRec
    BY <1>1, Sizes
  <2> QED
    BY <1>2, <2>1, Zenon
<1>4. r \in RecordType
  BY <1>2, <1>3 DEF RecordType
<1> QED
  BY <1>4 DEF Rec, r, t

LEMMA AtType ==
  ASSUME NEW f \in Seq(RecordType), NEW r \in Nat \ {0}
  PROVE  At(f, r) \in RecordType
BY HoleType DEF At

(* A function on 1 .. n is a sequence.                                     *)
LEMMA SeqIsAt ==
  ASSUME NEW n \in Nat, NEW f, f = [k \in 1 .. n |-> f[k]], \A k \in 1 .. n : f[k] \in RecordType
  PROVE  /\ f \in Seq(RecordType) /\ Len(f) = n
         /\ \A k \in Nat \ {0} : At(f, k) = IF k <= n THEN f[k] ELSE Hole
<1> DEFINE g == [k \in 1 .. n |-> f[k]]
<1>1. g \in Seq(RecordType) /\ Len(g) = n
  BY IsASeq
<1>2. f \in Seq(RecordType) /\ Len(f) = n
  BY <1>1
<1>3. \A k \in Nat \ {0} : At(f, k) = IF k <= n THEN f[k] ELSE Hole
  BY <1>2 DEF At
<1> QED
  BY <1>2, <1>3

LEMMA PutFacts ==
  ASSUME NEW f \in Seq(RecordType), NEW r \in Nat \ {0}, NEW rec \in RecordType
  PROVE  /\ Put(f, r, rec) \in Seq(RecordType) /\ Len(Put(f, r, rec)) >= Len(f)
         /\ At(Put(f, r, rec), r) = rec
         /\ \A k \in (Nat \ {0}) \ {r} : At(Put(f, r, rec), k) = At(f, k)
<1> DEFINE S == {Len(f), r}
           n == Max(S)
           g == [k \in 1 .. n |-> IF k = r THEN rec ELSE At(f, k)]
<1>1. n \in Nat /\ n >= Len(f) /\ n >= r /\ Len(f) \in Nat
  <2>1. Len(f) \in Nat /\ r \in Nat
    OBVIOUS
  <2> DEFINE a == Len(f)
  <2>2. a \in Int /\ r \in Int /\ S = {a, r}
    BY <2>1
  <2> HIDE DEF S, a
  <2>3. Max(S) \in {a, r} /\ Max(S) >= a /\ Max(S) >= r
    BY <2>2, MaxOfTwo
  <2> QED
    BY <2>1, <2>3 DEF a
<1> HIDE DEF n
<1>2. \A k \in 1 .. n : g[k] \in RecordType
  BY <1>1, AtType
<1>3. g = [k \in 1 .. n |-> g[k]]
  OBVIOUS
<1>4. Put(f, r, rec) = g
  BY DEF Put, n
<1> HIDE DEF g
<1>5. /\ g \in Seq(RecordType) /\ Len(g) = n
      /\ \A k \in Nat \ {0} : At(g, k) = IF k <= n THEN g[k] ELSE Hole
  BY <1>1, <1>2, <1>3, SeqIsAt
<1>6. \A k \in (Nat \ {0}) \ {r} : At(g, k) = At(f, k)
  BY <1>1, <1>5 DEF g, At
<1>7. At(g, r) = rec
  BY <1>1, <1>5 DEF g
<1> QED
  BY <1>1, <1>4, <1>5, <1>6, <1>7

LEMMA TruncatedFacts ==
  ASSUME NEW f \in Seq(RecordType), NEW n \in Nat
  PROVE  /\ Truncated(f, n) \in Seq(RecordType) /\ Len(Truncated(f, n)) = n
         /\ \A k \in 1 .. n : At(Truncated(f, n), k) = At(f, k)
<1> DEFINE g == [k \in 1 .. n |-> At(f, k)]
<1>1. \A k \in 1 .. n : g[k] \in RecordType
  BY AtType
<1>2. g = [k \in 1 .. n |-> g[k]] /\ Truncated(f, n) = g
  BY DEF Truncated
<1>3. \A k \in 1 .. n : g[k] = At(f, k)
  OBVIOUS
<1> HIDE DEF g
<1>4. /\ g \in Seq(RecordType) /\ Len(g) = n
      /\ \A k \in Nat \ {0} : At(g, k) = IF k <= n THEN g[k] ELSE Hole
  BY <1>1, <1>2, SeqIsAt
<1>5. \A k \in 1 .. n : At(g, k) = At(f, k)
  BY <1>3, <1>4
<1> QED
  BY <1>2, <1>4, <1>5

-----------------------------------------------------------------------------
(* Labels and their records.                                               *)

LEMMA PartOfType ==
  ASSUME NEW text \in Seq(Texts), NEW i \in Nat \ {0}
  PROVE  PartOf(text, i) \in Seq(Texts) /\ Len(PartOf(text, i)) <= PerRec
<1> DEFINE m == (i - 1) * PerRec + 1
           S == {i * PerRec, Len(text)}
           n == Min(S)
<1>1. PerRec \in Nat /\ Len(text) \in Nat
  BY Sizes
<1>2. i * PerRec \in Nat /\ (i - 1) * PerRec \in Nat /\ (i - 1) * PerRec = i * PerRec - PerRec
  BY <1>1
<1>3. n \in Nat /\ n <= i * PerRec /\ n <= Len(text)
  <2>1. S = {i * PerRec, Len(text)}
    OBVIOUS
  <2> HIDE DEF S
  <2> DEFINE a == i * PerRec
  <2>2. a \in Int /\ Len(text) \in Int /\ S = {a, Len(text)}
    BY <1>1, <1>2, <2>1
  <2> HIDE DEF a
  <2>3. Min(S) \in {a, Len(text)} /\ Min(S) <= a /\ Min(S) <= Len(text)
    BY <2>2, MinOfTwo
  <2> QED
    BY <1>1, <1>2, <2>3 DEF a
<1>4. m \in Nat /\ m >= 1 /\ n - m + 1 <= PerRec
  BY <1>1, <1>2, <1>3
<1> HIDE DEF m, n
<1>5. \A k \in m .. n : text[k] \in Texts
  BY <1>1, <1>3, <1>4
<1>6. /\ SubSeq(text, m, n) \in Seq(Texts)
      /\ Len(SubSeq(text, m, n)) = IF m <= n THEN n - m + 1 ELSE 0
  BY <1>3, <1>4, <1>5, SubSeqProperties
<1>7. Len(SubSeq(text, m, n)) <= PerRec
  BY <1>1, <1>3, <1>4, <1>6
<1> QED
  BY <1>6, <1>7 DEF PartOf, m, n

LEMMA RecordsType ==
  ASSUME NEW text \in Seq(Texts), NEW n \in Nat, NEW note \in Nat
  PROVE  /\ Records(text, n, note) \in Seq(RecordType)
         /\ Len(Records(text, n, note)) = n
<1> DEFINE g == [i \in 1 .. n |-> Rec(PartOf(text, i), IF i = 1 THEN note ELSE 0)]
<1>1. \A i \in 1 .. n : g[i] \in RecordType
  BY PartOfType DEF Rec, RecordType
<1>2. g = [i \in 1 .. n |-> g[i]] /\ Records(text, n, note) = g
  BY DEF Records
<1> HIDE DEF g
<1> QED
  BY <1>1, <1>2, SeqIsAt

LEMMA LastOfFacts ==
  ASSUME NEW recs \in Seq(RecordType), recs # <<>>
  PROVE  /\ LastOf(recs) \in 1 .. Len(recs)
         /\ \A k \in 1 .. (LastOf(recs) - 1) : Len(recs[k].text) = PerRec
<1> DEFINE ends == {k \in DOMAIN recs : Len(recs[k].text) < PerRec} \cup {Len(recs)}
<1>1. Len(recs) \in Nat \ {0} /\ DOMAIN recs = 1 .. Len(recs)
  BY EmptySeq
<1>2. ends \in SUBSET Nat /\ ends # {} /\ ends \subseteq 1 .. Len(recs)
  BY <1>1
<1>3. \A k \in 1 .. Len(recs) : k \notin ends => ~(Len(recs[k].text) < PerRec)
  BY <1>1
<1>4. LastOf(recs) = Min(ends)
  BY DEF LastOf
<1> HIDE DEF ends
<1>5. Min(ends) \in ends /\ \A y \in ends : Min(ends) <= y
  BY <1>2, MinOfNats
<1>6. \A k \in 1 .. Len(recs) : Len(recs[k].text) \in Nat /\ Len(recs[k].text) <= PerRec
  BY <1>1 DEF RecordType
<1>7. ASSUME NEW k \in 1 .. (Min(ends) - 1)
      PROVE  Len(recs[k].text) = PerRec
  <2>0. Min(ends) \in 1 .. Len(recs)
    BY <1>2, <1>5
  <2>1. k \in 1 .. Len(recs) /\ k \notin ends
    BY <1>1, <1>5, <2>0
  <2> QED
    BY <1>3, <1>6, <2>1, Sizes
<1> QED
  BY <1>2, <1>4, <1>5, <1>7

LEMMA TextOfType ==
  ASSUME NEW recs \in Seq(RecordType)
  PROVE  TextOf(recs) \in Seq(Texts)
<1>1. CASE recs = <<>>
  BY <1>1 DEF TextOf
<1>2. CASE recs # <<>>
  <2> DEFINE last == LastOf(recs)
             n == (last - 1) * PerRec + Len(recs[last].text)
             part(i) == recs[((i - 1) \div PerRec) + 1].text
             place(i) == ((i - 1) % PerRec) + 1
  <2>1. last \in 1 .. Len(recs) /\ Len(recs) \in Nat
        /\ \A k \in 1 .. (last - 1) : Len(recs[k].text) = PerRec
    BY <1>2, LastOfFacts
  <2>2. PerRec \in Nat \ {0}
    BY Sizes
  <2>3. \A k \in 1 .. Len(recs) : recs[k].text \in Seq(Texts) /\ Len(recs[k].text) <= PerRec
    BY DEF RecordType
  <2>4. n \in Nat
    BY <2>1, <2>2, <2>3
  <2>5. ASSUME NEW i \in 1 .. n
        PROVE  part(i)[place(i)] \in Texts
    <3> DEFINE q == (i - 1) \div PerRec
               m == (i - 1) % PerRec
    <3>1. i - 1 \in Nat /\ i - 1 < n
      BY <2>4
    <3>2. q \in Nat /\ m \in 0 .. (PerRec - 1) /\ i - 1 = PerRec * q + m
      BY <2>2, <3>1, DivMod
    <3>3. part(i) = recs[q + 1].text /\ place(i) = m + 1
      OBVIOUS
    <3> HIDE DEF q, m
    <3>4. q <= last - 1
      <4> SUFFICES ASSUME q >= last PROVE FALSE
        BY <2>1, <3>2
      <4>1. PerRec * q >= PerRec * last
        BY <2>1, <2>2, <3>2
      <4>2. PerRec * last = (last - 1) * PerRec + PerRec
        BY <2>1, <2>2
      <4>a. Len(recs[last].text) \in Nat /\ Len(recs[last].text) <= PerRec
        BY <2>1, <2>3
      <4>b. (last - 1) * PerRec \in Int /\ PerRec \in Int
        BY <2>1, <2>2
      <4>3. n <= (last - 1) * PerRec + PerRec
        BY <4>a, <4>b
      <4> HIDE DEF n
      <4>4. PerRec * q \in Nat /\ PerRec * last \in Nat /\ (last - 1) * PerRec \in Nat
        BY <2>1, <2>2, <3>2
      <4> QED
        BY <2>2, <2>4, <3>1, <3>2, <4>1, <4>2, <4>3, <4>4
    <3>5. m + 1 <= Len(recs[q + 1].text)
      <4>1. CASE q < last - 1
        <5>1. q + 1 \in 1 .. (last - 1)
          BY <2>1, <3>2, <4>1
        <5> QED
          BY <2>1, <2>2, <3>2, <5>1
      <4>2. CASE q = last - 1
        <5>1. PerRec * q = (last - 1) * PerRec /\ PerRec * q \in Nat
          <6>1. \A a, b \in Nat : a * b = b * a /\ a * b \in Nat
            OBVIOUS
          <6> QED
            BY <2>2, <3>2, <4>2, <6>1
        <5>2. n = (last - 1) * PerRec + Len(recs[q + 1].text) /\ Len(recs[q + 1].text) \in Nat
          BY <2>1, <2>3, <3>2, <4>2
        <5> HIDE DEF n
        <5> DEFINE A == (last - 1) * PerRec
                   B == PerRec * q
                   L == Len(recs[q + 1].text)
        <5>3. /\ n = A + L /\ L \in Nat /\ B = A /\ B \in Nat
              /\ i - 1 = B + m /\ m \in Nat /\ i - 1 < n
          BY <2>2, <3>1, <3>2, <5>1, <5>2
        <5> HIDE DEF A, B, L
        <5>4. m + 1 <= L
          BY <5>3
        <5> QED
          BY <5>4 DEF L
      <4>3. q < last - 1 \/ q = last - 1
        BY <2>1, <3>2, <3>4
      <4> QED
        BY <4>1, <4>2, <4>3, Zenon
    <3>6. q + 1 \in 1 .. Len(recs)
      BY <2>1, <3>2, <3>4
    <3> QED
      BY <2>3, <3>2, <3>3, <3>5, <3>6
  <2>6. TextOf(recs) = [i \in 1 .. n |-> part(i)[place(i)]]
    BY <1>2 DEF TextOf
  <2> QED
    BY <2>4, <2>5, <2>6, IsASeq
<1> QED
  BY <1>1, <1>2

LEMMA StretchType ==
  ASSUME NEW f \in Seq(RecordType), NEW first \in Nat \ {0}, NEW n \in Nat
  PROVE  TextOf([k \in 1 .. n |-> At(f, first + k - 1)]) \in Seq(Texts)
<1> DEFINE g == [k \in 1 .. n |-> At(f, first + k - 1)]
<1>1. \A k \in 1 .. n : g[k] \in RecordType
  BY AtType
<1>2. g = [k \in 1 .. n |-> g[k]]
  OBVIOUS
<1> HIDE DEF g
<1>3. g \in Seq(RecordType)
  BY <1>1, <1>2, SeqIsAt
<1>4. TextOf(g) \in Seq(Texts)
  BY <1>3, TextOfType
<1> QED
  BY <1>4 DEF g

LEMMA ReadInType ==
  ASSUME IInv, NEW flag
  PROVE  ReadIn(flag) \in Seq(Texts) /\ EolSize(flag) \in Nat
<1> DEFINE part(first, n) == TextOf([k \in 1 .. n |-> At(file, first + k - 1)])
           behind == part(FirstEol, EolSize(flag))
<1>1. FirstEol \in Nat \ {0} /\ front \in Nat /\ file \in Seq(RecordType)
  BY Sizes DEF IInv, FirstEol
<1>2. EolSize(flag) \in Nat
  <2>1. At(file, FirstEol).note \in Nat
    BY <1>1, AtType DEF RecordType
  <2> QED
    BY <2>1 DEF EolSize, IInv
<1>3. part(1, front) \in Seq(Texts) /\ behind \in Seq(Texts)
  <2>1. \A first \in Nat \ {0}, n \in Nat : part(first, n) \in Seq(Texts)
    <3> TAKE first \in Nat \ {0}, n \in Nat
    <3> QED
      BY <1>1, StretchType
  <2> HIDE DEF part
  <2>2. part(1, front) \in Seq(Texts)
    BY <1>1, <2>1
  <2>3. part(FirstEol, EolSize(flag)) \in Seq(Texts)
    BY <1>1, <1>2, <2>1
  <2> QED
    BY <2>2, <2>3
<1>4. ReadIn(flag) \in {part(1, front) \o SubSeq(behind, 2, Len(behind)), part(1, front)}
  BY DEF ReadIn
<1> HIDE DEF part, behind
<1>5. SubSeq(behind, 2, Len(behind)) \in Seq(Texts)
  BY <1>3
<1>6. part(1, front) \o SubSeq(behind, 2, Len(behind)) \in Seq(Texts)
  BY <1>3, <1>5
<1> QED
  BY <1>2, <1>3, <1>4, <1>6

LEMMA InMemoryType ==
  ASSUME IInv
  PROVE  InMemory \in Seq(Texts)
BY ReadInType DEF InMemory, IInv

(* The edits keep the first item of the label.                             *)
LEMMA InsertedType ==
  ASSUME NEW s \in Seq(Texts), NEW name \in Names, NEW k \in 2 .. (Len(s) + 1)
  PROVE  InsertAt(s, k, name) \in Seq(Texts) /\ InsertAt(s, k, name) # <<>>
<1> DEFINE head == SubSeq(s, 1, k - 1)
           end == SubSeq(s, k, Len(s))
<1>1. head \in Seq(Texts) /\ end \in Seq(Texts) /\ Len(head) = k - 1
  BY SubSeqProperties
<1>2. <<name>> \in Seq(Texts)
  BY DEF Texts
<1>3. InsertAt(s, k, name) = head \o <<name>> \o end
  BY DEF InsertAt
<1> HIDE DEF head, end
<1>4. head \o <<name>> \in Seq(Texts) /\ Len(head \o <<name>>) = k
  BY <1>1, <1>2
<1>5. (head \o <<name>>) \o end \in Seq(Texts) /\ Len((head \o <<name>>) \o end) >= k
  BY <1>1, <1>4
<1> QED
  BY <1>3, <1>5, EmptySeq

LEMMA RemovedType ==
  ASSUME NEW s \in Seq(Texts), NEW k \in 2 .. Len(s)
  PROVE  RemoveAt(s, k) \in Seq(Texts) /\ RemoveAt(s, k) # <<>>
<1> DEFINE head == SubSeq(s, 1, k - 1)
           end == SubSeq(s, k + 1, Len(s))
<1>1. head \in Seq(Texts) /\ end \in Seq(Texts) /\ Len(head) = k - 1
  BY SubSeqProperties
<1>2. RemoveAt(s, k) = head \o end
  BY DEF RemoveAt
<1> HIDE DEF head, end
<1>3. head \o end \in Seq(Texts) /\ Len(head \o end) >= k - 1
  BY <1>1
<1> QED
  BY <1>2, <1>3, EmptySeq

-----------------------------------------------------------------------------
(* The label that the close writes back.                                   *)

LEMMA MainFacts ==
  ASSUME IInv
  PROVE  /\ Main \in Seq(Texts)
         /\ labels # <<>> => Main # <<>>
<1>1. front \in Nat \ {0} /\ PerRec \in Nat /\ PerRec > 1 /\ labels \in Seq(Texts)
  BY Sizes DEF IInv
<1>2. Room \in Nat /\ Room > 1
  <2>1. (front - 1) * PerRec \in Nat /\ front * PerRec = (front - 1) * PerRec + PerRec
    BY <1>1
  <2> QED
    BY <1>1, <2>1 DEF Room
<1>3. CASE Splits
  <2>1. Len(labels) >= Room
    BY <1>3 DEF Splits
  <2>2. Main = SubSeq(labels, 1, Room - 1)
    BY <1>3 DEF Main
  <2>3. SubSeq(labels, 1, Room - 1) \in Seq(Texts) /\ Len(SubSeq(labels, 1, Room - 1)) = Room - 1
    BY <1>1, <1>2, <2>1, SubSeqProperties
  <2> QED
    BY <1>2, <2>2, <2>3, EmptySeq
<1>4. CASE ~Splits
  BY <1>1, <1>4 DEF Main
<1> QED
  BY <1>3, <1>4

LEMMA RewrittenType ==
  ASSUME IInv
  PROVE  /\ EolRecs \in Nat
         /\ Rewritten \in Seq(RecordType)
<1>1. front \in Nat /\ labels \in Seq(Texts) /\ Main \in Seq(Texts)
  BY MainFacts DEF IInv
<1>2. EolText \in Seq(Texts)
  <2>1. <<"SIZE">> \in Seq(Texts)
    BY DEF Texts
  <2>2. Room \in Nat \ {0}
    <3>1. front \in Nat \ {0} /\ PerRec \in Nat \ {0}
      BY Sizes DEF IInv
    <3>2. front * PerRec \in Nat \ {0}
      BY <3>1
    <3> QED
      BY <3>2 DEF Room
  <2>3. SubSeq(labels, Room, Len(labels)) \in Seq(Texts)
    BY <1>1, <2>2
  <2> QED
    BY <2>1, <2>3 DEF EolText
<1>3. EolRecs \in Nat
  BY <1>2, RecsForType DEF EolRecs
<1> DEFINE first(note) == Records(Main, front, note)
           second == Records(EolText, EolRecs, EolRecs)
<1>4. first(0) \in Seq(RecordType) /\ first(1) \in Seq(RecordType)
      /\ second \in Seq(RecordType) /\ <<>> \in Seq(RecordType)
  BY <1>1, <1>2, <1>3, RecordsType
<1>5. Rewritten \in {first(1) \o second, first(0) \o <<>>}
  BY DEF Rewritten
<1> HIDE DEF first, second
<1>6. first(1) \o second \in Seq(RecordType) /\ first(0) \o <<>> \in Seq(RecordType)
  BY <1>4
<1> QED
  BY <1>3, <1>5, <1>6

(* However many of the records are written: they are placed before and     *)
(* behind the image, and not in it.                                        *)
LEMMA AfterWritingFacts ==
  ASSUME IInv, NEW n \in 0 .. Len(Rewritten)
  PROVE  /\ AfterWriting(n) \in Seq(RecordType) /\ Len(AfterWriting(n)) >= Len(file)
         /\ \A i \in 1 .. n : At(AfterWriting(n), Place(i)) = Rewritten[i]
         /\ \A k \in 1 .. NImage : At(AfterWriting(n), front + k) = At(file, front + k)
<1> DEFINE placed == {i \in 1 .. n : TRUE}
           ends == {Len(file)} \cup {Place(i) : i \in placed}
           last == Max(ends)
           new(k) == {i \in placed : Place(i) = k}
           g == [k \in 1 .. last |-> IF new(k) = {} THEN At(file, k)
                                     ELSE Rewritten[CHOOSE i \in new(k) : TRUE]]
<1>1. /\ front \in Nat \ {0} /\ file \in Seq(RecordType) /\ NImage \in Nat /\ Len(file) \in Nat
      /\ Rewritten \in Seq(RecordType) /\ n \in Nat /\ n <= Len(Rewritten)
  BY Sizes, RewrittenType DEF IInv
<1>2. \A i \in Nat \ {0} : Place(i) = IF i <= front THEN i ELSE NImage + i
  BY <1>1 DEF Place, FirstEol
<1>3. last \in Nat /\ last >= Len(file) /\ \A i \in 1 .. n : Place(i) <= last
  <2>1. placed = 1 .. n
    OBVIOUS
  <2>2. \A x \in ends : x \in Int
    BY <1>1, <1>2
  <2>3. Len(file) \in ends /\ \A i \in 1 .. n : Place(i) \in ends
    OBVIOUS
  <2>4. \A x \in ends : x = Len(file) \/ \E i \in 1 .. n : x = Place(i)
    OBVIOUS
  <2>5. \A i \in 1 .. n : Place(i) <= Place(n) /\ n \in 1 .. n
    BY <1>1, <1>2
  <2>6. \E x \in ends : \A y \in ends : x >= y
    <3> HIDE DEF ends
    <3>1. CASE n > 0 /\ Place(n) >= Len(file)
      <4>1. Place(n) \in ends
        BY <1>1, <2>3, <3>1
      <4>2. \A y \in ends : Place(n) >= y
        BY <1>1, <2>2, <2>4, <2>5, <3>1, <4>1
      <4> QED
        BY <4>1, <4>2
    <3>2. CASE n = 0 \/ (n > 0 /\ ~(Place(n) >= Len(file)))
      <4>1. \A y \in ends : Len(file) >= y
        <5> TAKE y \in ends
        <5>1. CASE y = Len(file)
          BY <1>1, <5>1
        <5>2. CASE \E i \in 1 .. n : y = Place(i)
          <6>1. n > 0
            BY <1>1, <5>2
          <6>2. Place(n) \in Int /\ y <= Place(n)
            BY <1>1, <2>2, <2>3, <2>5, <5>2, <6>1
          <6> QED
            BY <1>1, <2>2, <3>2, <6>1, <6>2
        <5> QED
          BY <2>4, <5>1, <5>2
      <4> QED
        BY <2>3, <4>1
    <3> QED
      BY <1>1, <3>1, <3>2
  <2> HIDE DEF ends
  <2>7. Max(ends) \in ends /\ \A y \in ends : Max(ends) >= y
    BY <2>6 DEF Max
  <2> QED
    BY <1>1, <2>2, <2>3, <2>7
<1>4. AfterWriting(n) = g
  BY DEF AfterWriting
<1> HIDE DEF last
<1>5. \A k \in 1 .. last : g[k] \in RecordType
  <2> TAKE k \in 1 .. last
  <2>1. CASE new(k) = {}
    <3>1. g[k] = At(file, k)
      BY <2>1
    <3> QED
      BY <1>1, <3>1, AtType
  <2>2. CASE new(k) # {}
    <3>1. (CHOOSE i \in new(k) : TRUE) \in new(k)
      BY <2>2
    <3>2. (CHOOSE i \in new(k) : TRUE) \in 1 .. Len(Rewritten)
      BY <1>1, <3>1
    <3>3. g[k] = Rewritten[CHOOSE i \in new(k) : TRUE]
      BY <2>2
    <3> HIDE DEF new
    <3> QED
      BY <1>1, <3>2, <3>3
  <2> QED
    BY <2>1, <2>2
<1>6. \A k \in 1 .. NImage : new(front + k) = {}
  BY <1>1, <1>2
<1>7. \A k \in 1 .. NImage : front + k <= last => g[front + k] = At(file, front + k)
  <2> HIDE DEF new
  <2> TAKE k \in 1 .. NImage
  <2>1. front + k \in Nat \ {0}
    BY <1>1
  <2>2. new(front + k) = {}
    BY <1>6
  <2> QED
    BY <1>3, <2>1, <2>2
<1>8. g = [k \in 1 .. last |-> g[k]]
  OBVIOUS
<1> HIDE DEF g
<1>9. /\ g \in Seq(RecordType) /\ Len(g) = last
      /\ \A k \in Nat \ {0} : At(g, k) = IF k <= last THEN g[k] ELSE Hole
  BY <1>3, <1>5, <1>8, SeqIsAt
<1>11. ASSUME NEW i \in 1 .. n
       PROVE  At(g, Place(i)) = Rewritten[i]
  <2> DEFINE p == Place(i)
  <2>1. p \in Nat \ {0} /\ p \in 1 .. last
    BY <1>1, <1>2, <1>3
  <2>2. \A j \in 1 .. n : Place(j) = p => j = i
    BY <1>1, <1>2
  <2>3. new(p) = {i}
    BY <2>2
  <2>4. (CHOOSE j \in new(p) : TRUE) = i
    BY <2>3
  <2>5. g[p] = Rewritten[i]
    <3>1. new(p) # {}
      BY <2>3
    <3> HIDE DEF new, p
    <3> QED
      BY <2>1, <2>4, <3>1 DEF g
  <2> QED
    BY <1>9, <2>1, <2>5
<1>10. ASSUME NEW k \in 1 .. NImage
       PROVE  At(g, front + k) = At(file, front + k)
  <2>1. front + k \in Nat \ {0}
    BY <1>1
  <2>2. CASE front + k <= last
    BY <1>7, <1>9, <2>1, <2>2
  <2>3. CASE ~(front + k <= last)
    <3>1. ~(front + k <= Len(file))
      BY <1>1, <1>3, <2>1, <2>3
    <3> QED
      BY <1>9, <2>1, <2>3, <3>1 DEF At
  <2> QED
    BY <2>2, <2>3
<1> QED
  BY <1>3, <1>4, <1>9, <1>10, <1>11

-----------------------------------------------------------------------------
(* The steps.                                                              *)

LEMMA NewLabelFacts ==
  ASSUME NEW items \in NewLabels
  PROVE  items \in Seq(Texts) /\ RecsFor(Len(items)) \in Nat \ {0}
<1>1. items \in Seq(Texts) /\ items # <<>>
  BY LayoutIsSane
<1>2. Len(items) \in Nat /\ Len(items) > 0
  BY <1>1, EmptySeq
<1> QED
  BY <1>1, <1>2, RecsForType

LEMMA InitIInv == Init => IInv
<1> SUFFICES ASSUME Init PROVE IInv
  OBVIOUS
<1>1. PICK items \in NewLabels :
        /\ front = RecsFor(Len(items))
        /\ file = Records(items, front, 0) \o [n \in 1 .. NImage |-> Rec(<<"old">>, 0)]
  BY DEF Init
<1> DEFINE g == [n \in 1 .. NImage |-> Rec(<<"old">>, 0)]
<1>2. items \in Seq(Texts) /\ front \in Nat \ {0}
  BY <1>1, NewLabelFacts
<1>3. Records(items, front, 0) \in Seq(RecordType)
  BY <1>2, RecordsType
<1>4. \A n \in 1 .. NImage : g[n] \in RecordType
  <2>1. "old" \in Texts
    BY DEF Texts
  <2> QED
    BY <2>1, LineType
<1>5. g = [n \in 1 .. NImage |-> g[n]]
  OBVIOUS
<1>6. file = Records(items, front, 0) \o g
  BY <1>1
<1> HIDE DEF g
<1>7. g \in Seq(RecordType)
  BY <1>4, <1>5, Sizes, SeqIsAt
<1>8. file \in Seq(RecordType)
  BY <1>3, <1>6, <1>7
<1>9. labels \in Seq(Texts)
  BY DEF Init
<1> QED
  BY <1>2, <1>8, <1>9 DEF Init, IInv, ModifiedIsInMemory

(* What is left of the file at the end.                                    *)
LEMMA FinalFileFacts ==
  ASSUME NEW f \in Seq(RecordType), NEW eols \in Nat, front \in Nat
  PROVE  /\ Truncated(f, FinalSize(eols)) \in Seq(RecordType)
         /\ \A n \in 1 .. NImage : At(Truncated(f, FinalSize(eols)), front + n) = At(f, front + n)
<1>1. FinalSize(eols) \in Nat /\ \A n \in 1 .. NImage : front + n \in 1 .. FinalSize(eols)
  BY Sizes DEF FinalSize
<1> QED
  BY <1>1, TruncatedFacts

LEMMA NamedType ==
  ASSUME NEW slice \in Slices, NEW next \in Nat
  PROVE  Named(slice, next) \in Nat
<1>1. N2 \in Nat \ {0} /\ N3 \in Nat \ {0} /\ slice[1] \in Nat /\ slice[2] \in Nat
      /\ slice = <<slice[1], slice[2]>>
  BY LayoutIsSane DEF Slices
<1>2. CASE NoSlice(slice)
  BY <1>1, <1>2 DEF Named, NoSlice
<1>3. CASE slice[2] = 0 /\ slice[1] # 0
  <2>1. Named(slice, next) = slice[1]
    BY <1>3 DEF Named, NoSlice
  <2> QED
    BY <1>1, <2>1
<1>4. CASE slice[2] # 0
  <2>1. Named(slice, next) = N2 * (slice[2] - 1) + slice[1]
    BY <1>4 DEF Named, NoSlice
  <2>2. N2 * (slice[2] - 1) \in Nat
    <3>1. slice[2] - 1 \in Nat
      BY <1>1, <1>4
    <3> QED
      BY <1>1, <3>1
  <2> QED
    BY <1>1, <2>1, <2>2
<1> QED
  BY <1>1, <1>2, <1>3, <1>4 DEF NoSlice

(* Every line but the one at hand is what it was.                         *)
LinesKept == \A n \in (1 .. NImage) \ {img_rec'} : At(file', front + n) = At(file, front + n)

LEMMA OpenInputStep ==
  ASSUME IInv, NEW mode \in {"READ", "UPDATE"}, NEW hist \in BOOLEAN, OpenInput(mode, hist)
  PROVE  IInv'
<1>1. labels' \in Seq(Texts) /\ (modified' => labels' # <<>>)
  <2>1. CASE hist
    <3>1. ReadIn(eol') \in Seq(Texts) /\ Task \in Texts
      BY ReadInType DEF Texts
    <3> QED
      BY <2>1, <3>1, AppendProperties DEF OpenInput
  <2>2. CASE ~hist
    BY <2>2 DEF OpenInput
  <2> QED
    BY <2>1, <2>2
<1>2. eol_size' \in Nat
  <2>1. EolSize(eol') \in Nat
    BY ReadInType
  <2> QED
    BY <2>1 DEF OpenInput
<1> QED
  BY <1>1, <1>2 DEF OpenInput, IInv, ModifiedIsInMemory

LEMMA OpenOutputStep ==
  ASSUME IInv, NEW items \in NewLabels, OpenOutput(items)
  PROVE  IInv'
<1> DEFINE n == RecsFor(Len(items))
           new == Records(items, n, 0)
           S == {Len(file), n}
           last == Max(S)
           g == [k \in 1 .. last |-> IF k <= n THEN new[k] ELSE file[k]]
<1>1. n \in Nat \ {0} /\ new \in Seq(RecordType) /\ Len(new) = n
  BY NewLabelFacts, RecordsType
<1>2. front' = n /\ file' = g
  BY DEF OpenOutput
<1> HIDE DEF n, new
<1>3. file \in Seq(RecordType) /\ Len(file) \in Nat
  BY DEF IInv
<1>4. last \in Nat /\ (last = Len(file) \/ last = n)
  <2> DEFINE a == Len(file)
  <2>1. a \in Int /\ n \in Int /\ S = {a, n}
    BY <1>1, <1>3
  <2> HIDE DEF S, a
  <2>2. Max(S) \in {a, n}
    BY <2>1, MaxOfTwo
  <2> QED
    BY <1>1, <1>3, <2>2 DEF a
<1> HIDE DEF last
<1>5. \A k \in 1 .. last : g[k] \in RecordType
  <2> TAKE k \in 1 .. last
  <2>1. CASE k <= n
    BY <1>1, <1>4, <2>1
  <2>2. CASE ~(k <= n)
    <3>1. k \in 1 .. Len(file)
      BY <1>1, <1>3, <1>4, <2>2
    <3> QED
      BY <1>3, <2>2, <3>1
  <2> QED
    BY <2>1, <2>2
<1>6. g = [k \in 1 .. last |-> g[k]]
  OBVIOUS
<1> HIDE DEF g
<1>7. g \in Seq(RecordType)
  BY <1>4, <1>5, <1>6, SeqIsAt
<1>8. labels' \in Seq(Texts)
  BY DEF OpenOutput
<1>9. front' \in Nat \ {0} /\ file' \in Seq(RecordType)
  BY <1>1, <1>2, <1>7
<1> QED
  BY <1>8, <1>9 DEF OpenOutput, IInv, ModifiedIsInMemory

LEMMA EditedStep ==
  ASSUME IInv, NEW text \in Seq(Texts), text # <<>>, Edited(text)
  PROVE  IInv' /\ LinesKept
<1>1. eol_size' \in Nat
  BY ReadInType DEF Edited, IInv
<1>2. IInv'
  BY <1>1 DEF Edited, IInv, ModifiedIsInMemory
<1> QED
  BY <1>2 DEF Edited, LinesKept

LEMMA ReadLineStep ==
  ASSUME IInv, NEW slice \in Slices, ReadLine(slice)
  PROVE  IInv' /\ LinesKept
<1>1. Named(slice, img_rec + 1) \in Nat
  BY NamedType DEF IInv
<1>2. /\ img_rec' \in {img_rec, Named(slice, img_rec + 1)}
      /\ UNCHANGED <<file, front, op, eol_size, labels, modified>>
  BY DEF ReadLine, Return, unit
<1>3. img_rec' \in Nat
  BY <1>1, <1>2 DEF IInv
<1>4. IInv'
  BY <1>2, <1>3 DEF IInv, ModifiedIsInMemory
<1>5. LinesKept
  BY <1>2 DEF LinesKept
<1> QED
  BY <1>4, <1>5

LEMMA WriteLineStep ==
  ASSUME IInv, NEW slice \in Slices, NEW d \in Data, WriteLine(slice, d)
  PROVE  IInv' /\ LinesKept
<1> DEFINE n == Named(slice, IF op = "UPDATE" THEN img_rec ELSE img_rec + 1)
           rec == Rec(<<d>>, 0)
           written == Put(file, front + n, rec)
<1>a. img_rec \in Nat /\ img_rec + 1 \in Nat
  BY DEF IInv
<1>b. (IF op = "UPDATE" THEN img_rec ELSE img_rec + 1) \in Nat
  BY <1>a
<1>1. n \in Nat
  BY <1>b, NamedType
<1>2. /\ UNCHANGED <<front, op, eol_size, labels, modified>>
      /\ \/ img_rec' = img_rec /\ file' = file
         \/ img_rec' = n /\ file' \in {file, written}
  BY DEF WriteLine, Return, unit
<1> HIDE DEF n
<1>3. rec \in RecordType
  <2>1. d \in Texts
    BY DEF Texts
  <2> QED
    BY <2>1, LineType
<1> HIDE DEF rec
<1>4. file \in Seq(RecordType) /\ front \in Nat \ {0} /\ front + n \in Nat \ {0}
  BY <1>1 DEF IInv
<1>5. /\ written \in Seq(RecordType)
      /\ \A k \in (Nat \ {0}) \ {front + n} : At(written, k) = At(file, k)
  <2> DEFINE r == front + n
  <2>1. r \in Nat \ {0}
    BY <1>4
  <2> HIDE DEF r
  <2>2. /\ Put(file, r, rec) \in Seq(RecordType)
        /\ \A k \in (Nat \ {0}) \ {r} : At(Put(file, r, rec), k) = At(file, k)
    BY <1>3, <1>4, <2>1, PutFacts
  <2> QED
    BY <2>2 DEF r
<1> HIDE DEF written
<1>6. file' \in Seq(RecordType) /\ img_rec' \in Nat
  BY <1>1, <1>2, <1>5 DEF IInv
<1>7. LinesKept
  <2> SUFFICES ASSUME NEW k \in (1 .. NImage) \ {img_rec'}
               PROVE  At(file', front + k) = At(file, front + k)
    BY DEF LinesKept
  <2>1. CASE file' = file
    BY <2>1
  <2>2. CASE img_rec' = n /\ file' = written
    <3>1. front + k \in (Nat \ {0}) \ {front + n}
      BY <1>1, <1>4, <2>2, Sizes
    <3> QED
      BY <1>5, <2>2, <3>1
  <2> QED
    BY <1>2, <2>1, <2>2
<1> QED
  BY <1>2, <1>6, <1>7 DEF IInv, ModifiedIsInMemory

LEMMA CloseOnlyStep ==
  ASSUME IInv, CloseOnly
  PROVE  IInv' /\ LinesKept
<1>1. file \in Seq(RecordType) /\ eol_size \in Nat /\ front \in Nat
  BY DEF IInv
<1> DEFINE cut == Truncated(file, FinalSize(eol_size))
<1>2. /\ cut \in Seq(RecordType)
      /\ \A n \in 1 .. NImage : At(cut, front + n) = At(file, front + n)
  BY <1>1, FinalFileFacts
<1>3. file' \in {file, cut} /\ labels' = <<>> /\ modified' = FALSE /\ front' = front
  BY DEF CloseOnly, Ended
<1> HIDE DEF cut
<1>4. file' \in Seq(RecordType) /\ labels' \in Seq(Texts)
  BY <1>1, <1>2, <1>3
<1>5. LinesKept
  BY <1>2, <1>3 DEF LinesKept
<1> QED
  BY <1>3, <1>4, <1>5 DEF CloseOnly, Ended, IInv, ModifiedIsInMemory

LEMMA CloseAndRewriteStep ==
  ASSUME IInv, CloseAndRewrite
  PROVE  IInv' /\ LinesKept
<1> DEFINE all == AfterWriting(Len(Rewritten))
           eols == IF Splits THEN EolRecs ELSE eol_size
           cut == Truncated(all, FinalSize(eols))
<1>1. eols \in Nat /\ front \in Nat /\ Len(Rewritten) \in 0 .. Len(Rewritten)
  BY RewrittenType DEF IInv
<1>2. /\ all \in Seq(RecordType)
      /\ \A n \in 1 .. NImage : At(all, front + n) = At(file, front + n)
  BY <1>1, AfterWritingFacts
<1>3. file' = cut /\ labels' = <<>> /\ modified' = FALSE /\ front' = front
  BY DEF CloseAndRewrite, Ended
<1> HIDE DEF all, eols
<1>4. /\ cut \in Seq(RecordType)
      /\ \A n \in 1 .. NImage : At(cut, front + n) = At(all, front + n)
  BY <1>1, <1>2, FinalFileFacts
<1> HIDE DEF cut
<1>5. file' \in Seq(RecordType) /\ labels' \in Seq(Texts)
  BY <1>3, <1>4
<1>6. LinesKept
  BY <1>2, <1>3, <1>4 DEF LinesKept
<1> QED
  BY <1>3, <1>5, <1>6 DEF CloseAndRewrite, Ended, IInv, ModifiedIsInMemory

LEMMA RewriteFailsStep ==
  ASSUME IInv, RewriteFails
  PROVE  IInv' /\ LinesKept
<1>1. PICK n \in 0 .. (Len(Rewritten) - 1) :
        /\ file' \in {AfterWriting(n), AfterWriting(n + 1)}
        /\ eol_size' = IF n >= front THEN EolRecs ELSE eol_size
  BY DEF RewriteFails
<1>2. n \in 0 .. Len(Rewritten) /\ n + 1 \in 0 .. Len(Rewritten)
  BY RewrittenType
<1>3. \A m \in 0 .. Len(Rewritten) :
        /\ AfterWriting(m) \in Seq(RecordType)
        /\ \A k \in 1 .. NImage : At(AfterWriting(m), front + k) = At(file, front + k)
  BY AfterWritingFacts
<1>4. file' \in Seq(RecordType) /\ \A k \in 1 .. NImage : At(file', front + k) = At(file, front + k)
  BY <1>1, <1>2, <1>3
<1>5. eol_size' \in Nat
  BY <1>1, RewrittenType DEF IInv
<1>6. labels' \in Seq(Texts) /\ labels' # <<>>
  BY MainFacts DEF RewriteFails
<1> QED
  BY <1>4, <1>5, <1>6 DEF RewriteFails, Failed, LinesKept, IInv, ModifiedIsInMemory

LEMMA CloseFailsStep ==
  ASSUME IInv, CloseFails
  PROVE  IInv' /\ LinesKept
<1>1. Len(Rewritten) \in 0 .. Len(Rewritten) /\ EolRecs \in Nat
  BY RewrittenType
<1> DEFINE all == AfterWriting(Len(Rewritten))
<1>2. /\ all \in Seq(RecordType)
      /\ \A k \in 1 .. NImage : At(all, front + k) = At(file, front + k)
  BY <1>1, AfterWritingFacts
<1>3. file' \in {file, all} /\ labels' \in {labels, <<>>} /\ eol_size' \in {EolRecs, eol_size}
  BY DEF CloseFails
<1> HIDE DEF all
<1>4. /\ file' \in Seq(RecordType) /\ labels' \in Seq(Texts) /\ eol_size' \in Nat
      /\ \A k \in 1 .. NImage : At(file', front + k) = At(file, front + k)
  <2>1. file' \in Seq(RecordType) /\ eol_size' \in Nat
    BY <1>1, <1>2, <1>3 DEF IInv
  <2>2. labels' \in Seq(Texts)
    <3>1. labels \in Seq(Texts) /\ <<>> \in Seq(Texts)
      BY EmptySeq DEF IInv
    <3> QED
      BY <1>3, <3>1
  <2>3. CASE file' = file
    BY <2>1, <2>2, <2>3
  <2>4. CASE file' = all
    BY <1>2, <2>1, <2>2, <2>4
  <2> QED
    BY <1>3, <2>3, <2>4
<1>5. "rewritten" \notin Failures => UNCHANGED labels
  BY DEF CloseFails
<1> QED
  BY <1>4, <1>5 DEF CloseFails, Failed, LinesKept, IInv, ModifiedIsInMemory

LEMMA LabelStep ==
  ASSUME IInv,
         \/ LabelLook
         \/ \E name \in Names, k \in 2 .. (Len(InMemory) + 1) : LabelAdd(k, name)
         \/ \E k \in 2 .. Len(InMemory) : LabelDelete(k)
  PROVE  IInv' /\ LinesKept
<1>1. CASE LabelLook
  <2>1. labels' \in Seq(Texts) /\ eol_size' \in Nat
    BY <1>1, ReadInType DEF LabelLook
  <2>2. labels = <<>>
    BY <1>1 DEF LabelLook
  <2> QED
    BY <1>1, <2>1, <2>2 DEF LabelLook, LinesKept, IInv, ModifiedIsInMemory
<1>2. CASE \E name \in Names, k \in 2 .. (Len(InMemory) + 1) : LabelAdd(k, name)
  <2>1. PICK name \in Names, k \in 2 .. (Len(InMemory) + 1) : LabelAdd(k, name)
    BY <1>2
  <2>2. InsertAt(InMemory, k, name) \in Seq(Texts) /\ InsertAt(InMemory, k, name) # <<>>
    BY InMemoryType, InsertedType
  <2>3. Edited(InsertAt(InMemory, k, name))
    BY <2>1 DEF LabelAdd
  <2> QED
    BY <2>2, <2>3, EditedStep
<1>3. CASE \E k \in 2 .. Len(InMemory) : LabelDelete(k)
  <2>1. PICK k \in 2 .. Len(InMemory) : LabelDelete(k)
    BY <1>3
  <2>2. RemoveAt(InMemory, k) \in Seq(Texts) /\ RemoveAt(InMemory, k) # <<>>
    BY InMemoryType, RemovedType
  <2>3. Edited(RemoveAt(InMemory, k))
    BY <2>1 DEF LabelDelete
  <2> QED
    BY <2>2, <2>3, EditedStep
<1> QED
  BY <1>1, <1>2, <1>3

(* A step keeps the invariant, and, if the unit is open, the lines.        *)
LEMMA Step ==
  ASSUME IInv, [Next]_vars
  PROVE  IInv' /\ (op # "CLOSED" => LinesKept)
<1>1. CASE \E mode \in {"READ", "UPDATE"} : OpenInput(mode, FALSE)
  BY <1>1, OpenInputStep DEF OpenInput
<1>2. CASE OpenInput("UPDATE", TRUE)
  BY <1>2, OpenInputStep DEF OpenInput
<1>3. CASE \E items \in NewLabels : OpenOutput(items)
  BY <1>3, OpenOutputStep DEF OpenOutput
<1>4. CASE \/ LabelLook
           \/ \E name \in Names, k \in 2 .. (Len(InMemory) + 1) : LabelAdd(k, name)
           \/ \E k \in 2 .. Len(InMemory) : LabelDelete(k)
  BY <1>4, LabelStep
<1>5. CASE \E slice \in Slices : ReadLine(slice)
  BY <1>5, ReadLineStep
<1>6. CASE \E slice \in Slices, d \in Data : WriteLine(slice, d)
  BY <1>6, WriteLineStep
<1>7. CASE CloseOnly
  BY <1>7, CloseOnlyStep
<1>8. CASE CloseAndRewrite
  BY <1>8, CloseAndRewriteStep
<1>9. CASE RewriteFails
  BY <1>9, RewriteFailsStep
<1>10. CASE CloseFails
  BY <1>10, CloseFailsStep
<1>11. CASE UNCHANGED vars
  BY <1>11 DEF vars, unit, IInv, ModifiedIsInMemory, LinesKept
<1> QED
  BY <1>1, <1>2, <1>3, <1>4, <1>5, <1>6, <1>7, <1>8, <1>9, <1>10, <1>11 DEF Next

-----------------------------------------------------------------------------
(* The records of the file stay records, and the label stays one, whatever *)
(* is written and whichever writes fail.                                   *)
THEOREM Invariant == Spec => []IInv
<1>1. Init => IInv
  BY InitIInv
<1>2. IInv /\ [Next]_vars => IInv'
  BY Step
<1> QED
  BY <1>1, <1>2, PTL DEF Spec

(* v2_check_out_lbl_on_close finds a label that has to be written back in  *)
(* memory, unless a close may fail after it has done so once.              *)
THEOREM ModifiedStaysInMemory ==
  ASSUME "rewritten" \notin Failures
  PROVE  Spec => []ModifiedIsInMemory
<1>1. IInv => ModifiedIsInMemory
  BY DEF IInv
<1> QED
  BY <1>1, Invariant, PTL

(* No edit of the label, no write of it before or behind the image, and no *)
(* cut of the file to its size reaches a line; an image write reaches the  *)
(* line it names, and no failure changes that.                             *)
THEOREM LinesStay == Spec => OnlyTheNamedLineChanges
<1>1. IInv /\ [Next]_vars =>
        [op # "CLOSED" =>
           \A n \in (1 .. NImage) \ {img_rec'} : At(file', front + n) = At(file, front + n)]_vars
  BY Step DEF LinesKept
<1> QED
  BY <1>1, Invariant, PTL DEF Spec, OnlyTheNamedLineChanges

-----------------------------------------------------------------------------
(* ImageFile implements LabelledImage, for every size of record, image and *)
(* label, as long as none of the calls fails that are known to lose a part *)
(* of the label.                                                           *)

(* The failures that lose nothing, and callers that read a line before     *)
(* they rewrite it.                                                        *)
Harmless == Failures \subseteq {"line", "front", "flush"} /\ ~UnreadRewrites

(* What n records of a file hold, and the label in a file.                 *)
Stretch(f, first, n) == TextOf([k \in 1 .. n |-> At(f, first + k - 1)])

LabelIn(f, n, flag) ==
  LET behind == Stretch(f, n + NImage + 1, At(f, n + NImage + 1).note)
  IN  IF flag THEN Stretch(f, 1, n) \o SubSeq(behind, 2, Len(behind)) ELSE Stretch(f, 1, n)

-----------------------------------------------------------------------------
(* Texts and their records.                                                *)

(* The length of a part: a whole record's, or what is left.                *)
LEMMA PartOfFacts ==
  ASSUME NEW text \in Seq(Texts), NEW k \in Nat \ {0}
  PROVE  /\ k * PerRec <= Len(text) => Len(PartOf(text, k)) = PerRec
         /\ k * PerRec > Len(text) /\ (k - 1) * PerRec <= Len(text) =>
              Len(PartOf(text, k)) = Len(text) - (k - 1) * PerRec
         /\ \A j \in 1 .. Len(PartOf(text, k)) :
              PartOf(text, k)[j] = text[(k - 1) * PerRec + j]
<1> DEFINE b == (k - 1) * PerRec
           e == k * PerRec
           L == Len(text)
           S == {e, L}
           m == Min(S)
<1>1. PerRec \in Nat /\ PerRec > 1 /\ L \in Nat
  BY Sizes
<1>2. b \in Nat /\ e \in Nat /\ e = b + PerRec
  BY <1>1
<1>3. S = {e, L} /\ PartOf(text, k) = SubSeq(text, b + 1, m) /\ \A i \in 1 .. L : text[i] \in Texts
  BY DEF PartOf
<1> HIDE DEF b, e, S, L
<1>4. m \in {e, L} /\ m <= e /\ m <= L
  <2>1. S = {e, L} /\ e \in Int /\ L \in Int
    BY <1>1, <1>2, <1>3
  <2> QED
    BY <2>1, MinOfTwo
<1> HIDE DEF m
<1>5. \A i \in (b + 1) .. m : text[i] \in Texts
  BY <1>1, <1>2, <1>3, <1>4
<1>6. /\ Len(SubSeq(text, b + 1, m)) = IF b + 1 <= m THEN m - (b + 1) + 1 ELSE 0
      /\ \A i \in 1 .. m - (b + 1) + 1 : SubSeq(text, b + 1, m)[i] = text[(b + 1) + i - 1]
  <2>1. b + 1 \in Int /\ m \in Int
    BY <1>1, <1>2, <1>4
  <2> QED
    BY <1>5, <2>1, SubSeqProperties
<1>7. e <= L => m = e
  BY <1>1, <1>2, <1>4
<1>8. e > L => m = L
  BY <1>1, <1>2, <1>4
<1>9. e <= L => Len(PartOf(text, k)) = PerRec
  BY <1>1, <1>2, <1>3, <1>6, <1>7
<1>10. e > L /\ b <= L => Len(PartOf(text, k)) = L - b
  BY <1>1, <1>2, <1>3, <1>6, <1>8
<1>11. \A j \in 1 .. Len(PartOf(text, k)) : PartOf(text, k)[j] = text[b + j]
  BY <1>1, <1>2, <1>3, <1>4, <1>6
<1> QED
  BY <1>9, <1>10, <1>11 DEF b, e, L

(* A text that is cut into records, and the records folded back: what      *)
(* create_output_label and check_out_lbl_on_close write, read_in_labels    *)
(* reads.                                                                  *)
LEMMA RoundTrip ==
  ASSUME NEW text \in Seq(Texts), NEW n \in Nat \ {0}, Len(text) <= n * PerRec,
         NEW g \in Seq(RecordType), Len(g) = n,
         \A k \in 1 .. n : g[k].text = PartOf(text, k)
  PROVE  TextOf(g) = text
<1> DEFINE L == Len(text)
           last == LastOf(g)
           total == (last - 1) * PerRec + Len(g[last].text)
<1>1. PerRec \in Nat /\ PerRec > 1 /\ L \in Nat /\ n * PerRec \in Nat
  BY Sizes
<1>2. g # <<>>
  BY EmptySeq
<1>3. last \in 1 .. n /\ \A k \in 1 .. (last - 1) : Len(g[k].text) = PerRec
  BY <1>2, LastOfFacts
<1>4. Len(g[last].text) < PerRec \/ last = n
  <2> DEFINE ends == {k \in DOMAIN g : Len(g[k].text) < PerRec} \cup {Len(g)}
  <2>1. ends \in SUBSET Nat /\ ends # {}
    OBVIOUS
  <2>2. last = Min(ends)
    BY DEF LastOf
  <2>3. Min(ends) \in ends
    BY <2>1, MinOfNats
  <2> QED
    BY <2>2, <2>3
<1> HIDE DEF last
<1>5. \A k \in 1 .. n : (k - 1) * PerRec \in Nat /\ k * PerRec = (k - 1) * PerRec + PerRec
  BY <1>1
<1>6. (last - 1) * PerRec <= L
  <2>1. CASE last = 1
    BY <1>1, <2>1
  <2>2. CASE last # 1
    <3> DEFINE k == last - 1
    <3>1. k \in 1 .. n /\ k \in 1 .. (last - 1) /\ k \in Nat \ {0}
      BY <1>3, <2>2
    <3>2. Len(PartOf(text, k)) = PerRec
      BY <1>3, <3>1
    <3> SUFFICES ASSUME k * PerRec > L PROVE FALSE
      BY <1>1, <1>5, <3>1
    <3> HIDE DEF k
    <3>3. CASE (k - 1) * PerRec <= L
      <4>1. Len(PartOf(text, k)) = L - (k - 1) * PerRec
        BY <3>1, <3>3, PartOfFacts
      <4> QED
        BY <1>1, <1>5, <3>1, <3>2, <4>1
    <3>4. CASE (k - 1) * PerRec > L
      <4> DEFINE m == Min({k * PerRec, L})
      <4>1. k * PerRec \in Int /\ L \in Int
        BY <1>1, <1>5, <3>1
      <4>2. m \in {k * PerRec, L} /\ m <= L
        BY <4>1, MinOfTwo
      <4>3. m < (k - 1) * PerRec + 1 /\ m \in Int
        BY <1>1, <1>5, <3>1, <3>4, <4>2
      <4>4. PartOf(text, k) = <<>>
        <5>1. PartOf(text, k) = SubSeq(text, (k - 1) * PerRec + 1, m)
          BY DEF PartOf
        <5> HIDE DEF m
        <5> QED
          BY <1>5, <3>1, <4>3, <5>1, SubSeqEmpty
      <4> QED
        BY <1>1, <3>2, <4>4
    <3> QED
      BY <1>1, <1>5, <3>1, <3>3, <3>4
  <2> QED
    BY <2>1, <2>2
<1>7. total = L
  <2>1. last \in Nat \ {0} /\ g[last].text = PartOf(text, last)
    BY <1>3
  <2>2. CASE last * PerRec > L
    <3>1. Len(PartOf(text, last)) = L - (last - 1) * PerRec
      BY <1>6, <2>1, <2>2, PartOfFacts
    <3> QED
      BY <1>1, <1>3, <1>5, <2>1, <3>1
  <2>3. CASE last * PerRec <= L
    <3>1. Len(PartOf(text, last)) = PerRec
      BY <2>1, <2>3, PartOfFacts
    <3>2. last = n
      BY <1>1, <1>4, <2>1, <3>1
    <3> DEFINE b == (last - 1) * PerRec
               e == last * PerRec
    <3>3. b \in Nat /\ e = b + PerRec /\ e <= L /\ L <= e
      BY <1>3, <1>5, <2>3, <3>2
    <3>4. total = b + PerRec
      BY <2>1, <3>1
    <3> HIDE DEF total, b, e
    <3> QED
      BY <1>1, <3>3, <3>4
  <2>4. last * PerRec \in Int
    BY <1>1, <2>1
  <2> HIDE DEF total
  <2> QED
    BY <1>1, <2>2, <2>3, <2>4
<1>8. ASSUME NEW i \in 1 .. L
      PROVE  g[((i - 1) \div PerRec) + 1].text[((i - 1) % PerRec) + 1] = text[i]
  <2> DEFINE q == (i - 1) \div PerRec
             r == (i - 1) % PerRec
             k == q + 1
  <2>1. i - 1 \in Nat /\ PerRec \in Nat \ {0}
    BY <1>1
  <2>2. q \in Nat /\ r \in 0 .. (PerRec - 1) /\ i - 1 = PerRec * q + r
    BY <2>1, DivMod
  <2> HIDE DEF q, r
  <2>3. (k - 1) * PerRec = PerRec * q /\ PerRec * q \in Nat
    <3>1. \A a, b \in Nat : a * b = b * a /\ a * b \in Nat
      OBVIOUS
    <3>2. k - 1 = q
      BY <2>2
    <3> QED
      BY <2>1, <2>2, <3>1, <3>2
  <2>4. k <= n
    <3> SUFFICES ASSUME q >= n PROVE FALSE
      BY <2>2
    <3>1. PerRec * q >= n * PerRec
      <4>1. PerRec * q = q * PerRec
        BY <2>1, <2>2
      <4>2. q - n \in Nat /\ (q - n) * PerRec \in Nat
        BY <1>1, <2>2
      <4>3. q * PerRec = n * PerRec + (q - n) * PerRec
        BY <1>1, <2>2
      <4> QED
        BY <1>1, <4>1, <4>2, <4>3
    <3> DEFINE B == PerRec * q
               N == n * PerRec
    <3>2. B \in Nat /\ N \in Nat /\ B >= N /\ L <= N /\ i - 1 = B + r /\ r \in Nat /\ i <= L
      BY <1>1, <2>2, <2>3, <3>1
    <3> HIDE DEF B, N
    <3> QED
      BY <1>1, <3>2
  <2>5. k \in 1 .. n /\ k \in Nat \ {0}
    BY <2>2, <2>4
  <2>6. g[k].text = PartOf(text, k) /\ (k - 1) * PerRec <= L
    BY <1>1, <2>2, <2>3, <2>5
  <2> DEFINE b == (k - 1) * PerRec
  <2>7. b \in Nat /\ k * PerRec = b + PerRec /\ i - 1 = b + r
    BY <1>5, <2>2, <2>3, <2>5
  <2>8. r + 1 <= Len(PartOf(text, k))
    <3>1. k * PerRec <= L => Len(PartOf(text, k)) = PerRec
      BY <2>5, PartOfFacts
    <3>2. k * PerRec > L => Len(PartOf(text, k)) = L - b
      BY <2>5, <2>6, PartOfFacts
    <3> HIDE DEF b, k
    <3>3. CASE b + PerRec <= L
      BY <1>1, <2>2, <2>7, <3>1, <3>3
    <3>4. CASE b + PerRec > L
      BY <1>1, <2>2, <2>7, <3>2, <3>4
    <3> QED
      BY <1>1, <2>7, <3>3, <3>4
  <2>9. r + 1 \in 1 .. Len(PartOf(text, k))
    <3>1. Len(PartOf(text, k)) \in Nat
      BY <2>5, PartOfType
    <3> QED
      BY <2>2, <2>8, <3>1
  <2>10. PartOf(text, k)[r + 1] = text[b + (r + 1)]
    BY <2>5, <2>9, PartOfFacts
  <2>11. b + (r + 1) = i
    BY <2>2, <2>7
  <2>12. g[k].text[r + 1] = text[i]
    BY <2>6, <2>10, <2>11
  <2> QED
    BY <2>12 DEF q, r, k
<1>9. TextOf(g) = [i \in 1 .. L |-> text[i]]
  <2>1. TextOf(g) = [i \in 1 .. total |->
                       g[((i - 1) \div PerRec) + 1].text[((i - 1) % PerRec) + 1]]
    BY <1>2 DEF TextOf, last
  <2> HIDE DEF total
  <2> QED
    BY <1>7, <1>8, <2>1
<1>10. [i \in 1 .. L |-> text[i]] = text
  <2>1. text \in [1 .. L -> Texts]
    BY LenProperties
  <2> QED
    BY <2>1
<1> QED
  BY <1>9, <1>10

-----------------------------------------------------------------------------
(* The label in a file.                                                    *)

LEMMA StretchIs ==
  ASSUME NEW f \in Seq(RecordType), NEW first \in Nat \ {0}, NEW n \in Nat \ {0},
         NEW text \in Seq(Texts), Len(text) <= n * PerRec,
         \A k \in 1 .. n : At(f, first + k - 1).text = PartOf(text, k)
  PROVE  Stretch(f, first, n) = text
<1> DEFINE g == [k \in 1 .. n |-> At(f, first + k - 1)]
<1>1. \A k \in 1 .. n : g[k] \in RecordType /\ g[k].text = PartOf(text, k)
  <2> TAKE k \in 1 .. n
  <2>1. first + k - 1 \in Nat \ {0}
    OBVIOUS
  <2> QED
    BY <2>1, AtType
<1>2. g = [k \in 1 .. n |-> g[k]] /\ Stretch(f, first, n) = TextOf(g)
  BY DEF Stretch
<1> HIDE DEF g
<1>3. g \in Seq(RecordType) /\ Len(g) = n
  BY <1>1, <1>2, SeqIsAt
<1> QED
  BY <1>1, <1>2, <1>3, RoundTrip

(* A label that fits the records in front of the image.                    *)
LEMMA FrontLabel ==
  ASSUME NEW f \in Seq(RecordType), NEW n \in Nat \ {0},
         NEW text \in Seq(Texts), Len(text) <= n * PerRec,
         \A k \in 1 .. n : At(f, k).text = PartOf(text, k)
  PROVE  LabelIn(f, n, FALSE) = text
<1>1. \A k \in 1 .. n : 1 + k - 1 = k
  OBVIOUS
<1>2. Stretch(f, 1, n) = text
  BY <1>1, StretchIs
<1> QED
  BY <1>2 DEF LabelIn

(* Two files with the same records before the image, and, if the label     *)
(* goes on there, behind it.                                               *)
LEMMA SameLabel ==
  ASSUME NEW f, NEW g, NEW n \in Nat \ {0}, NEW flag \in BOOLEAN,
         \A k \in 1 .. n : At(g, k) = At(f, k),
         At(f, n + NImage + 1).note \in Nat,
         flag => At(g, n + NImage + 1).note = At(f, n + NImage + 1).note,
         flag => \A k \in 1 .. At(f, n + NImage + 1).note :
                   At(g, n + NImage + k) = At(f, n + NImage + k)
  PROVE  LabelIn(g, n, flag) = LabelIn(f, n, flag)
<1> DEFINE first == n + NImage + 1
           m == At(f, first).note
<1>1. Stretch(g, 1, n) = Stretch(f, 1, n)
  <2>1. \A k \in 1 .. n : 1 + k - 1 = k
    OBVIOUS
  <2>2. [k \in 1 .. n |-> At(g, 1 + k - 1)] = [k \in 1 .. n |-> At(f, 1 + k - 1)]
    BY <2>1
  <2> QED
    BY <2>2 DEF Stretch
<1>2. CASE flag
  <2>1. At(g, first).note = m
    BY <1>2
  <2>2. \A k \in 1 .. m : first + k - 1 = n + NImage + k
    BY Sizes
  <2>3. [k \in 1 .. m |-> At(g, first + k - 1)] = [k \in 1 .. m |-> At(f, first + k - 1)]
    <3>1. \A k \in 1 .. m : At(g, n + NImage + k) = At(f, n + NImage + k)
      BY <1>2
    <3>2. \A k \in 1 .. m : At(g, first + k - 1) = At(f, first + k - 1)
      BY <2>2, <3>1
    <3> HIDE DEF first, m
    <3> QED
      BY <3>2
  <2>4. Stretch(g, first, m) = Stretch(f, first, m)
    BY <2>3 DEF Stretch
  <2> HIDE DEF m
  <2> QED
    BY <1>1, <2>1, <2>4 DEF LabelIn, m
<1>3. CASE ~flag
  BY <1>1, <1>3 DEF LabelIn
<1> QED
  BY <1>2, <1>3

LEMMA ReadInIs ==
  ASSUME NEW flag \in BOOLEAN
  PROVE  ReadIn(flag) = LabelIn(file, front, flag)
<1>1. CASE flag
  BY <1>1 DEF ReadIn, LabelIn, Stretch, EolSize, FirstEol
<1>2. CASE ~flag
  BY <1>2 DEF ReadIn, LabelIn, Stretch
<1> QED
  BY <1>1, <1>2

-----------------------------------------------------------------------------
(* The invariant.  A unit whose label has not been modified knows where    *)
(* the label is, and has it in memory, if at all, as it is in the file;    *)
(* an update knows how long its second part is, without which the close    *)
(* would cut that off.                                                     *)
Clean == op # "CLOSED" /\ ~modified

RInv ==
  /\ IInv
  /\ file # <<>>
  /\ eol \in BOOLEAN
  /\ op = "WRITE" => ~eol
  /\ modified => op \in {"WRITE", "UPDATE"} /\ labels # <<>>
  /\ Clean => /\ eol = (file[1].note = 1)
              /\ labels \in {<<>>, ReadIn(eol)}
              /\ op = "UPDATE" /\ eol => eol_size = At(file, FirstEol).note

Stored == LabelIn(file, front, file[1].note = 1)

Lines == [n \in 1 .. NImage |-> At(file, front + n)]

LabelKnown == Label = IF op # "CLOSED" /\ modified THEN labels ELSE Stored

LEMMA LabelNow == RInv => LabelKnown
<1> SUFFICES ASSUME RInv PROVE LabelKnown
  OBVIOUS
<1> USE DEF LabelKnown
<1>1. CASE op = "CLOSED"
  BY <1>1, ReadInIs DEF Label, Stored
<1>2. CASE op # "CLOSED" /\ modified
  BY <1>2 DEF RInv, Label, InMemory
<1>3. CASE Clean
  <2>1. labels \in {<<>>, ReadIn(eol)} /\ eol = (file[1].note = 1)
    BY <1>3 DEF RInv
  <2>2. ReadIn(eol) = Stored
    <3> DEFINE flag == file[1].note = 1
    <3>1. eol = flag
      BY <2>1
    <3> HIDE DEF flag
    <3>2. flag \in BOOLEAN
      BY <3>1 DEF RInv
    <3>3. ReadIn(flag) = LabelIn(file, front, flag)
      BY <3>2, ReadInIs
    <3> QED
      BY <3>1, <3>3 DEF Stored, flag
  <2>3. Label = ReadIn(eol)
    BY <1>3, <2>1 DEF Label, InMemory, Clean
  <2> QED
    BY <1>3, <2>2, <2>3 DEF Clean
<1> QED
  BY <1>1, <1>2, <1>3 DEF Clean

LEMMA LabelNext ==
  RInv' => Label' = IF op' # "CLOSED" /\ modified' THEN labels' ELSE Stored'
<1>1. RInv' => LabelKnown'
  BY LabelNow, PTL
<1> QED
  BY <1>1 DEF LabelKnown

LEMMA Basics ==
  ASSUME RInv
  PROVE  /\ front \in Nat \ {0} /\ file \in Seq(RecordType) /\ Len(file) \in Nat \ {0}
         /\ file[1] = At(file, 1) /\ eol_size \in Nat /\ labels \in Seq(Texts)
         /\ op \in {"CLOSED", "READ", "WRITE", "UPDATE"} /\ FirstEol \in Nat \ {0}
         /\ img_rec \in Nat
<1>1. file \in Seq(RecordType) /\ Len(file) \in Nat \ {0}
  BY EmptySeq DEF RInv, IInv
<1>2. file[1] = At(file, 1)
  BY <1>1 DEF At
<1> QED
  BY <1>1, <1>2, Sizes DEF RInv, IInv, FirstEol

(* Same records, same label.                                               *)
LEMMA StoredStays ==
  ASSUME RInv, front' = front, file' \in Seq(RecordType), file' # <<>>,
         \A k \in 1 .. front : At(file', k) = At(file, k),
         file[1].note = 1 =>
           /\ At(file', FirstEol).note = At(file, FirstEol).note
           /\ \A k \in 1 .. At(file, FirstEol).note :
                At(file', front + NImage + k) = At(file, front + NImage + k)
  PROVE  Stored' = Stored /\ file'[1] = file[1]
<1>1. file'[1] = file[1]
  <2>1. Len(file') \in Nat \ {0}
    BY EmptySeq
  <2>2. file'[1] = At(file', 1)
    BY <2>1 DEF At
  <2> QED
    BY <2>2, Basics
<1> DEFINE flag == file[1].note = 1
<1>2. flag \in BOOLEAN /\ front \in Nat \ {0} /\ At(file, front + NImage + 1).note \in Nat
  <2>1. At(file, FirstEol) \in RecordType
    BY Basics, AtType
  <2> QED
    BY <2>1, Basics DEF RecordType, FirstEol
<1>3. flag => /\ At(file', front + NImage + 1).note = At(file, front + NImage + 1).note
              /\ \A k \in 1 .. At(file, front + NImage + 1).note :
                   At(file', front + NImage + k) = At(file, front + NImage + k)
  BY DEF FirstEol
<1> HIDE DEF flag
<1>4. LabelIn(file', front, flag) = LabelIn(file, front, flag)
  BY <1>2, <1>3, SameLabel
<1> QED
  BY <1>1, <1>4 DEF Stored, flag

(* The label that is read with the unit's flag.                            *)
EolLabelKnown == eol \in BOOLEAN => ReadIn(eol) = LabelIn(file, front, eol)

LEMMA EolLabelNow == EolLabelKnown
BY ReadInIs DEF EolLabelKnown

LEMMA EolLabelNext == eol' \in BOOLEAN => ReadIn(eol)' = LabelIn(file', front', eol')
<1>1. EolLabelKnown'
  BY EolLabelNow, PTL
<1> QED
  BY <1>1 DEF EolLabelKnown

-----------------------------------------------------------------------------
(* Each step keeps the invariant.                                          *)

LEMMA OpenInputKeeps ==
  ASSUME Harmless, RInv, NEW mode \in {"READ", "UPDATE"}, NEW hist \in BOOLEAN,
         hist => mode = "UPDATE", OpenInput(mode, hist)
  PROVE  RInv'
<1>1. IInv'
  BY OpenInputStep DEF RInv
<1>2. UNCHANGED <<file, front>> /\ op' = mode /\ modified' = hist /\ eol' = (file[1].note = 1)
      /\ labels' = IF hist THEN Append(ReadIn(eol'), Task) ELSE <<>>
  BY DEF OpenInput
<1>3. hist => labels' # <<>>
  <2>1. ReadIn(eol') \in Seq(Texts) /\ Task \in Texts
    BY ReadInType DEF RInv, Texts
  <2> QED
    BY <1>2, <2>1, AppendProperties
<1>4. mode = "UPDATE" /\ eol' => eol_size' = At(file, FirstEol).note
  BY DEF OpenInput, Harmless, EolSize
<1> QED
  BY <1>1, <1>2, <1>3, <1>4 DEF RInv, Clean, FirstEol

LEMMA RecFields == \A text, note : Rec(text, note).text = text /\ Rec(text, note).note = note
BY DEF Rec

(* As many records as a text needs.                                        *)
LEMMA RecsCover ==
  ASSUME NEW length \in Nat
  PROVE  length <= RecsFor(length) * PerRec
<1> DEFINE n == RecsFor(length)
           t == length + PerRec - 1
<1>1. n \in Nat /\ t \in Nat /\ PerRec \in Nat \ {0}
  BY RecsForType, Sizes
<1>2. n = t \div PerRec
  BY DEF RecsFor
<1> HIDE DEF n
<1>3. t % PerRec \in 0 .. (PerRec - 1) /\ t = PerRec * n + (t % PerRec)
  BY <1>1, <1>2, DivMod
<1>4. PerRec * n = n * PerRec /\ n * PerRec \in Nat
  BY <1>1
<1>5. length <= n * PerRec
  BY <1>1, <1>3, <1>4
<1> QED
  BY <1>5 DEF n

(* The new file's label is the one that was asked for.                     *)
LEMMA OpenOutputFile ==
  ASSUME RInv, NEW items \in NewLabels, OpenOutput(items)
  PROVE  /\ file' # <<>> /\ file'[1].note = 0
         /\ LabelIn(file', front', FALSE) = items
<1> DEFINE n == RecsFor(Len(items))
           new == Records(items, n, 0)
           S == {Len(file), n}
           last == Max(S)
<1>1. IInv'
  BY OpenOutputStep DEF RInv
<1>2. items \in Seq(Texts) /\ n \in Nat \ {0} /\ Len(items) <= n * PerRec
  <2>1. items \in Seq(Texts) /\ n \in Nat \ {0}
    BY NewLabelFacts
  <2> QED
    BY <2>1, RecsCover
<1>3. front' = n /\ file' = [k \in 1 .. last |-> IF k <= n THEN new[k] ELSE file[k]]
  BY DEF OpenOutput
<1>4. \A k \in 1 .. n : new[k] = Rec(PartOf(items, k), 0)
  BY DEF Records
<1> HIDE DEF n, new
<1>5. last \in Nat /\ last >= n
  <2> DEFINE a == Len(file)
  <2>1. a \in Int /\ n \in Int /\ S = {a, n}
    BY <1>2, Basics
  <2> HIDE DEF S, a
  <2>2. Max(S) \in {a, n} /\ Max(S) >= n
    BY <2>1, MaxOfTwo
  <2> QED
    BY <1>2, <2>1, <2>2, Basics DEF a
<1> HIDE DEF last
<1>6. file' \in Seq(RecordType) /\ DOMAIN file' = 1 .. last
  BY <1>1, <1>3 DEF IInv
<1>7. Len(file') = last
  BY <1>5, <1>6
<1>8. \A k \in 1 .. n : At(file', k) = Rec(PartOf(items, k), 0) /\ file'[k] = Rec(PartOf(items, k), 0)
  BY <1>2, <1>3, <1>4, <1>5, <1>7 DEF At
<1>9. file' # <<>> /\ file'[1].note = 0
  <2>1. file'[1].note = 0
    BY <1>2, <1>8, RecFields
  <2> QED
    BY <1>2, <1>5, <1>7, <2>1
<1>10. \A k \in 1 .. n : At(file', k).text = PartOf(items, k)
  BY <1>8, RecFields
<1>11. LabelIn(file', n, FALSE) = items
  BY <1>2, <1>6, <1>10, FrontLabel
<1> QED
  BY <1>3, <1>9, <1>11

LEMMA OpenOutputKeeps ==
  ASSUME RInv, NEW items \in NewLabels, OpenOutput(items)
  PROVE  RInv'
<1>1. IInv'
  BY OpenOutputStep DEF RInv
<1>2. op' = "WRITE" /\ eol' = FALSE /\ labels' = <<>> /\ modified' = FALSE
  BY DEF OpenOutput
<1>3. file' # <<>> /\ eol' = (file'[1].note = 1)
  <2>1. file' # <<>> /\ file'[1].note = 0
    BY OpenOutputFile
  <2>2. (file'[1].note = 1) = FALSE
    BY <2>1
  <2> QED
    BY <1>2, <2>1, <2>2
<1> QED
  BY <1>1, <1>2, <1>3 DEF RInv, Clean

LEMMA LabelLookKeeps ==
  ASSUME RInv, LabelLook
  PROVE  RInv'
<1>1. IInv'
  BY LabelStep DEF RInv
<1>2. /\ UNCHANGED <<file, front, op, eol, modified>> /\ labels = <<>>
      /\ labels' = ReadIn(eol) /\ eol_size' = EolSize(eol) /\ op # "CLOSED"
  BY DEF LabelLook
<1>3. Clean /\ eol \in BOOLEAN
  BY <1>2 DEF RInv, Clean
<1>4. ReadIn(eol)' = ReadIn(eol)
  BY <1>2, <1>3, EolLabelNow, EolLabelNext DEF EolLabelKnown
<1>5. eol => eol_size' = At(file, FirstEol).note
  BY <1>2 DEF EolSize
<1> QED
  BY <1>1, <1>2, <1>3, <1>4, <1>5 DEF RInv, Clean, FirstEol

LEMMA EditedKeeps ==
  ASSUME Harmless, RInv, NEW text \in Seq(Texts), text # <<>>, Edited(text)
  PROVE  RInv' /\ modified' /\ result' = Done
<1>1. IInv'
  BY EditedStep DEF RInv
<1>2. modified' = TRUE /\ result' = Done
  BY DEF Edited, Harmless
<1> QED
  BY <1>1, <1>2 DEF Edited, RInv, Clean

(* A call that changes neither the file nor the unit.                      *)
LEMMA NothingKeeps ==
  ASSUME RInv, IInv', UNCHANGED <<file, front, unit>>
  PROVE  RInv' /\ Label' = Label
<1>1. ReadIn(eol)' = ReadIn(eol)
  BY EolLabelNow, EolLabelNext DEF EolLabelKnown, RInv, unit
<1>2. RInv'
  BY <1>1 DEF RInv, Clean, FirstEol, unit
<1>3. Stored' = Stored
  BY DEF Stored
<1> QED
  BY <1>2, <1>3, LabelNow, LabelNext DEF LabelKnown, unit

(* A write reaches none of the label's records.                            *)
LEMMA WriteLineKeeps ==
  ASSUME Harmless, RInv, NEW slice \in Slices, NEW d \in Data, WriteLine(slice, d)
  PROVE  RInv' /\ Label' = Label
<1> DEFINE n == Named(slice, IF op = "UPDATE" THEN img_rec ELSE img_rec + 1)
           r == front + n
           rec == Rec(<<d>>, 0)
           written == Put(file, r, rec)
<1>1. IInv'
  BY WriteLineStep DEF RInv
<1>2. CASE file' = file
  <2>1. UNCHANGED <<file, front, unit>>
    BY <1>2 DEF WriteLine, Return
  <2> QED
    BY <1>1, <2>1, NothingKeeps
<1>3. CASE file' # file
  <2>1. /\ UNCHANGED <<front, unit>> /\ file' = written /\ n <= NImage + 1 /\ n > 0
        /\ op = "UPDATE" => ~PastEnd(n)
        /\ op \in {"WRITE", "UPDATE"}
    BY <1>3 DEF WriteLine, Return, Harmless
  <2>2. n \in Nat
    <3>1. (IF op = "UPDATE" THEN img_rec ELSE img_rec + 1) \in Nat
      BY Basics
    <3> QED
      BY <3>1, NamedType
  <2>3. PastEnd(n) <=> n > NImage
    BY DEF PastEnd
  <2> HIDE DEF n
  <2>4. r \in Nat \ {0} /\ front \in Nat \ {0} /\ file \in Seq(RecordType) /\ NImage \in Nat
    BY <2>2, Basics, Sizes
  <2>5. rec \in RecordType
    <3>1. d \in Texts
      BY DEF Texts
    <3> QED
      BY <3>1, LineType
  <2> HIDE DEF rec
  <2>6. /\ written \in Seq(RecordType) /\ Len(written) >= Len(file)
        /\ \A k \in (Nat \ {0}) \ {r} : At(written, k) = At(file, k)
    <3> HIDE DEF r
    <3> QED
      BY <2>4, <2>5, PutFacts
  <2> HIDE DEF written
  <2>7. file' # <<>> /\ file' \in Seq(RecordType)
    BY <2>1, <2>6, Basics
  <2>8. \A k \in 1 .. front : At(file', k) = At(file, k)
    BY <2>1, <2>2, <2>4, <2>6
  <2>9. op = "UPDATE" => \A k \in Nat \ {0} : At(file', front + NImage + k) = At(file, front + NImage + k)
    BY <2>1, <2>2, <2>3, <2>4, <2>6
  <2>10. (Stored' = Stored /\ file'[1] = file[1]) \/ modified
    <3> SUFFICES ASSUME ~modified PROVE Stored' = Stored /\ file'[1] = file[1]
      OBVIOUS
    <3>1. Clean
      BY <2>1 DEF Clean
    <3>2. file[1].note = 1 => op = "UPDATE"
      BY <2>1, <3>1 DEF RInv
    <3>3. file[1].note = 1 =>
            /\ At(file', FirstEol).note = At(file, FirstEol).note
            /\ \A k \in 1 .. At(file, FirstEol).note :
                 At(file', front + NImage + k) = At(file, front + NImage + k)
      <4> SUFFICES ASSUME file[1].note = 1
                   PROVE  /\ At(file', FirstEol).note = At(file, FirstEol).note
                          /\ \A k \in 1 .. At(file, FirstEol).note :
                               At(file', front + NImage + k) = At(file, front + NImage + k)
        OBVIOUS
      <4>1. \A k \in Nat \ {0} : At(file', front + NImage + k) = At(file, front + NImage + k)
        BY <2>9, <3>2
      <4>2. At(file', front + NImage + 1) = At(file, front + NImage + 1)
        BY <4>1
      <4>3. At(file, FirstEol).note \in Nat
        BY Basics, AtType DEF RecordType
      <4> QED
        BY <4>1, <4>2, <4>3 DEF FirstEol
    <3> QED
      BY <2>1, <2>7, <2>8, <3>3, StoredStays
  <2>11. ~modified => ReadIn(eol)' = ReadIn(eol) /\ (eol => At(file', FirstEol) = At(file, FirstEol))
    <3> SUFFICES ASSUME ~modified
                 PROVE  ReadIn(eol)' = ReadIn(eol) /\ (eol => At(file', FirstEol) = At(file, FirstEol))
      OBVIOUS
    <3>1. Clean /\ eol \in BOOLEAN /\ eol = (file[1].note = 1)
      BY <2>1 DEF Clean, RInv
    <3>2. UNCHANGED <<eol, front>> /\ (eol => op = "UPDATE")
      BY <2>1 DEF unit, RInv
    <3>3. LabelIn(file', front', eol') = LabelIn(file, front, eol)
      <4> DEFINE flag == file[1].note = 1
                 flag2 == file'[1].note = 1
      <4>1. eol = flag /\ eol' = flag2
        BY <2>10, <3>1, <3>2
      <4>2. LabelIn(file', front', flag2) = LabelIn(file, front, flag)
        BY <2>10 DEF Stored
      <4> HIDE DEF flag, flag2
      <4> QED
        BY <4>1, <4>2
    <3>4. eol => At(file', FirstEol) = At(file, FirstEol)
      BY <2>9, <3>2 DEF FirstEol
    <3> QED
      BY <3>1, <3>2, <3>3, <3>4, EolLabelNow, EolLabelNext DEF EolLabelKnown
  <2>12. RInv'
    <3>1. Clean' => Clean /\ ~modified
      BY <2>1 DEF Clean, unit
    <3>2. ~modified => file'[1] = file[1]
      BY <2>10
    <3>3. FirstEol' = FirstEol
      BY <2>1 DEF FirstEol
    <3>4. Clean' => /\ eol' = (file'[1].note = 1)
                    /\ labels' \in {<<>>, ReadIn(eol)'}
                    /\ op' = "UPDATE" /\ eol' => eol_size' = At(file', FirstEol').note
      BY <2>1, <2>11, <3>1, <3>2, <3>3 DEF RInv, unit
    <3> QED
      BY <1>1, <2>1, <2>7, <3>4 DEF RInv, unit
  <2> QED
    BY <2>1, <2>10, <2>12, LabelNow, LabelNext DEF LabelKnown, unit
<1> QED
  BY <1>2, <1>3

-----------------------------------------------------------------------------
(* The close.                                                              *)

LEMMA CloseOnlyKeeps ==
  ASSUME RInv, CloseOnly
  PROVE  RInv' /\ Label' = Label
<1> DEFINE size == FinalSize(eol_size)
<1>1. IInv'
  BY CloseOnlyStep DEF RInv
<1>2. /\ op' = "CLOSED" /\ eol' = FALSE /\ modified' = FALSE /\ front' = front
      /\ op # "CLOSED" /\ ~Rewrites
  BY DEF CloseOnly, Ended
<1>3. Clean
  BY <1>2 DEF RInv, Clean, Rewrites
<1>4. size \in Nat /\ size = front + NImage + eol_size
  BY Basics, Sizes DEF FinalSize
<1>5. \/ file' = file
      \/ op \in {"WRITE", "UPDATE"} /\ file' = Truncated(file, size)
  BY <1>2, Basics DEF CloseOnly
<1> HIDE DEF size
<1>6. CASE file' = file
  <2>1. RInv'
    BY <1>1, <1>2, <1>6 DEF RInv, Clean
  <2>2. Stored' = Stored
    BY <1>2, <1>6 DEF Stored
  <2> QED
    BY <1>2, <1>3, <2>1, <2>2, LabelNow, LabelNext DEF LabelKnown, Clean
<1>7. CASE op \in {"WRITE", "UPDATE"} /\ file' = Truncated(file, size)
  <2>1. /\ file' \in Seq(RecordType) /\ Len(file') = size
        /\ \A k \in 1 .. size : At(file', k) = At(file, k)
    BY <1>4, <1>7, Basics, TruncatedFacts
  <2>2. file' # <<>>
    BY <1>4, <2>1, Basics, Sizes
  <2>3. \A k \in 1 .. front : At(file', k) = At(file, k)
    BY <1>4, <2>1, Basics, Sizes
  <2>4. file[1].note = 1 =>
          /\ At(file', FirstEol).note = At(file, FirstEol).note
          /\ \A k \in 1 .. At(file, FirstEol).note :
               At(file', front + NImage + k) = At(file, front + NImage + k)
    <3> SUFFICES ASSUME file[1].note = 1
                 PROVE  /\ At(file', FirstEol).note = At(file, FirstEol).note
                        /\ \A k \in 1 .. At(file, FirstEol).note :
                             At(file', front + NImage + k) = At(file, front + NImage + k)
      OBVIOUS
    <3> DEFINE m == At(file, FirstEol).note
    <3>1. m \in Nat /\ m = eol_size
      <4>1. op = "UPDATE" /\ eol
        BY <1>3, <1>7 DEF RInv
      <4>2. eol_size = m
        BY <1>3, <4>1 DEF RInv
      <4> QED
        BY <4>2, Basics
    <3> HIDE DEF m
    <3>2. \A k \in 1 .. m : At(file', front + NImage + k) = At(file, front + NImage + k)
      BY <1>4, <2>1, <3>1, Basics, Sizes
    <3>3. CASE m > 0
      <4>1. At(file', front + NImage + 1) = At(file, front + NImage + 1)
        BY <3>1, <3>2, <3>3
      <4> QED
        BY <3>2, <4>1 DEF FirstEol, m
    <3>4. CASE m = 0
      <4>1. At(file', FirstEol) = Hole
        BY <1>4, <2>1, <3>1, <3>4, Basics, Sizes DEF At, FirstEol
      <4>2. At(file', FirstEol).note = 0
        BY <4>1, RecFields DEF Hole
      <4> QED
        BY <3>2, <3>4, <4>2 DEF m
    <3> QED
      BY <3>1, <3>3, <3>4
  <2>5. Stored' = Stored
    BY <1>2, <2>1, <2>2, <2>3, <2>4, StoredStays
  <2>6. RInv'
    BY <1>1, <1>2, <2>2 DEF RInv, Clean
  <2> QED
    BY <1>2, <1>3, <2>5, <2>6, LabelNow, LabelNext DEF LabelKnown, Clean
<1> QED
  BY <1>5, <1>6, <1>7

LEMMA Joined ==
  ASSUME NEW T, NEW s \in Seq(T), NEW t \in Seq(T)
  PROVE  /\ s \o t \in Seq(T) /\ Len(s) \in Nat /\ Len(t) \in Nat
         /\ Len(s \o t) = Len(s) + Len(t)
         /\ \A k \in 1 .. Len(s) : (s \o t)[k] = s[k]
         /\ \A k \in 1 .. Len(t) : (s \o t)[Len(s) + k] = t[k]
OBVIOUS

(* What follows an item.                                                   *)
LEMMA TailOfText ==
  ASSUME NEW t \in Seq(Texts), NEW item \in Texts
  PROVE  SubSeq(<<item>> \o t, 2, Len(<<item>> \o t)) = t
OBVIOUS

LEMMA RoomFacts ==
  ASSUME RInv
  PROVE  Room \in Nat /\ Room > 1 /\ Room = front * PerRec
<1>1. front \in Nat \ {0} /\ PerRec \in Nat /\ PerRec > 1
  BY Sizes, Basics
<1>2. (front - 1) * PerRec \in Nat /\ front * PerRec = (front - 1) * PerRec + PerRec
  BY <1>1
<1> QED
  BY <1>1, <1>2 DEF Room

(* The label is split into parts that fit their records, without loss.     *)
LEMMA PartsOfLabel ==
  ASSUME RInv
  PROVE  /\ Main \in Seq(Texts) /\ Len(Main) <= front * PerRec
         /\ ~Splits => Main = labels /\ EolRecs = 0
         /\ Splits => /\ EolText \in Seq(Texts) /\ EolRecs \in Nat \ {0}
                      /\ Len(EolText) <= EolRecs * PerRec
                      /\ labels = Main \o SubSeq(EolText, 2, Len(EolText))
<1>1. Room \in Nat /\ Room > 1 /\ Room = front * PerRec /\ labels \in Seq(Texts) /\ Len(labels) \in Nat
  BY RoomFacts, Basics
<1>2. CASE ~Splits
  BY <1>1, <1>2 DEF Splits, Main, EolRecs
<1>3. CASE Splits
  <2> DEFINE rest == SubSeq(labels, Room, Len(labels))
  <2>1. Len(labels) >= Room /\ Main = SubSeq(labels, 1, Room - 1) /\ EolText = <<"SIZE">> \o rest
    BY <1>3 DEF Splits, Main, EolText
  <2>2. Main \in Seq(Texts) /\ Len(Main) = Room - 1
    BY <1>1, <2>1, SubSeqProperties
  <2>3. rest \in Seq(Texts) /\ "SIZE" \in Texts
    BY <1>1, SubSeqProperties DEF Texts
  <2>4. labels = Main \o rest
    <3>1. SubSeq(labels, 1, Room - 1) \o SubSeq(labels, (Room - 1) + 1, Len(labels)) = SubSeq(labels, 1, Len(labels))
      <4>1. 1 \in 1 .. Len(labels) + 1 /\ Room - 1 \in 1 - 1 .. Len(labels) /\ Len(labels) \in Room - 1 .. Len(labels)
        BY <1>1, <2>1
      <4> QED
        BY <1>1, <4>1, ConcatAdjacentSubSeq
    <3>2. (Room - 1) + 1 = Room /\ SubSeq(labels, 1, Len(labels)) = labels
      BY <1>1, SubSeqFull
    <3> QED
      BY <2>1, <3>1, <3>2
  <2> HIDE DEF rest
  <2>5. EolText \in Seq(Texts) /\ SubSeq(EolText, 2, Len(EolText)) = rest
    BY <2>1, <2>3, TailOfText
  <2>6. Len(EolText) \in Nat /\ Len(EolText) > 0
    <3>1. <<"SIZE">> \in Seq(Texts) /\ Len(<<"SIZE">>) = 1
      BY <2>3
    <3> QED
      BY <2>1, <2>3, <3>1, ConcatProperties
  <2>7. EolRecs = RecsFor(Len(EolText)) /\ EolRecs \in Nat \ {0}
    BY <1>3, <2>6, RecsForType DEF EolRecs
  <2>8. Len(EolText) <= EolRecs * PerRec
    BY <2>6, <2>7, RecsCover
  <2>9. Len(Main) <= front * PerRec
    <3> DEFINE room == front * PerRec
    <3>1. room \in Nat /\ Len(Main) = room - 1
      BY <1>1, <2>2
    <3> HIDE DEF room
    <3>2. Len(Main) <= room
      BY <3>1
    <3> QED
      BY <3>2 DEF room
  <2>10. labels = Main \o SubSeq(EolText, 2, Len(EolText))
    BY <2>4, <2>5
  <2> QED
    BY <1>3, <2>2, <2>5, <2>7, <2>8, <2>9, <2>10
<1> QED
  BY <1>2, <1>3

(* All of the label, where the next reader will look for it.               *)
LEMMA WrittenLabel ==
  ASSUME RInv, NEW f \in Seq(RecordType),
         \A i \in 1 .. Len(Rewritten) : At(f, Place(i)) = Rewritten[i]
  PROVE  /\ LabelIn(f, front, Splits) = labels
         /\ At(f, 1).note = IF Splits THEN 1 ELSE 0
<1> DEFINE first == Records(Main, front, IF Splits THEN 1 ELSE 0)
           second == Records(EolText, EolRecs, EolRecs)
<1>1. front \in Nat \ {0} /\ NImage \in Nat
  BY Basics, Sizes
<1>2. first \in Seq(RecordType) /\ Len(first) = front
      /\ \A k \in 1 .. front : first[k] = Rec(PartOf(Main, k), IF k = 1 THEN IF Splits THEN 1 ELSE 0 ELSE 0)
  <2>1. (IF Splits THEN 1 ELSE 0) \in Nat
    OBVIOUS
  <2>2. first \in Seq(RecordType) /\ Len(first) = front
    BY <1>1, <2>1, PartsOfLabel, RecordsType
  <2> QED
    BY <2>2 DEF Records
<1>3. Splits => /\ second \in Seq(RecordType) /\ Len(second) = EolRecs
                /\ \A k \in 1 .. EolRecs : second[k] = Rec(PartOf(EolText, k), IF k = 1 THEN EolRecs ELSE 0)
  <2> SUFFICES ASSUME Splits
               PROVE  /\ second \in Seq(RecordType) /\ Len(second) = EolRecs
                      /\ \A k \in 1 .. EolRecs : second[k] = Rec(PartOf(EolText, k), IF k = 1 THEN EolRecs ELSE 0)
    OBVIOUS
  <2>1. second \in Seq(RecordType) /\ Len(second) = EolRecs
    BY PartsOfLabel, RecordsType
  <2> QED
    BY <2>1 DEF Records
<1>4. Rewritten = first \o (IF Splits THEN second ELSE <<>>)
  BY DEF Rewritten
<1> HIDE DEF first, second
<1>5. \A k \in 1 .. front : k \in 1 .. Len(Rewritten) /\ Rewritten[k] = first[k]
  <2> DEFINE other == IF Splits THEN second ELSE <<>>
  <2>1. other \in Seq(RecordType)
    BY <1>3
  <2> HIDE DEF other
  <2>2. Len(first \o other) = front + Len(other) /\ Len(other) \in Nat
        /\ \A k \in 1 .. front : (first \o other)[k] = first[k]
    <3>1. first \in Seq(RecordType) /\ Len(first) = front
      BY <1>2
    <3> QED
      BY <2>1, <3>1, Joined
  <2>3. Rewritten = first \o other
    BY <1>4 DEF other
  <2> QED
    BY <1>1, <2>2, <2>3
<1>6. \A k \in 1 .. front : At(f, k) = first[k]
  <2>1. \A k \in 1 .. front : Place(k) = k
    BY <1>1 DEF Place
  <2> QED
    BY <1>5, <2>1
<1>7. \A k \in 1 .. front : At(f, k).text = PartOf(Main, k)
  BY <1>2, <1>6, RecFields
<1>8. At(f, 1).note = IF Splits THEN 1 ELSE 0
  BY <1>1, <1>2, <1>6, RecFields
<1>9. CASE ~Splits
  <2>1. LabelIn(f, front, FALSE) = Main
    BY <1>1, <1>7, PartsOfLabel, FrontLabel
  <2>2. Splits = FALSE
    BY <1>9 DEF Splits
  <2> QED
    BY <1>8, <1>9, <2>1, <2>2, PartsOfLabel
<1>10. CASE Splits
  <2>1. \A k \in 1 .. EolRecs : At(f, front + NImage + k) = second[k]
    <3> TAKE k \in 1 .. EolRecs
    <3>1. Rewritten = first \o second /\ EolRecs \in Nat
      BY <1>4, <1>10, PartsOfLabel
    <3>2. front + k \in 1 .. Len(Rewritten) /\ Rewritten[front + k] = second[k]
      <4>1. first \in Seq(RecordType) /\ Len(first) = front
        BY <1>2
      <4>2. second \in Seq(RecordType) /\ Len(second) = EolRecs
        BY <1>3, <1>10
      <4>3. Len(Rewritten) = front + EolRecs /\ Rewritten[front + k] = second[k]
        <5>1. k \in 1 .. Len(second)
          BY <4>2
        <5>2. first \in Seq(RecordType) /\ second \in Seq(RecordType)
          BY <4>1, <4>2
        <5>3. Len(first \o second) = Len(first) + Len(second)
              /\ \A i \in 1 .. Len(second) : (first \o second)[Len(first) + i] = second[i]
          BY <5>2, Joined
        <5>4. (first \o second)[Len(first) + k] = second[k]
          BY <5>1, <5>3
        <5> QED
          BY <3>1, <4>1, <4>2, <5>3, <5>4
      <4> QED
        BY <1>1, <3>1, <4>3
    <3>3. Place(front + k) = front + NImage + k
      BY <1>1, <3>1 DEF Place, FirstEol
    <3> QED
      BY <3>2, <3>3
  <2>2. EolRecs \in Nat \ {0}
    BY <1>10, PartsOfLabel
  <2>3. At(f, front + NImage + 1).note = EolRecs
    BY <1>3, <1>10, <2>1, <2>2, RecFields
  <2>4. \A k \in 1 .. EolRecs : At(f, front + NImage + k).text = PartOf(EolText, k)
    BY <1>3, <1>10, <2>1, RecFields
  <2>5. LabelIn(f, front, TRUE) = Main \o SubSeq(EolText, 2, Len(EolText))
    <3>1. /\ Main \in Seq(Texts) /\ Len(Main) <= front * PerRec
          /\ EolText \in Seq(Texts) /\ Len(EolText) <= EolRecs * PerRec
      BY <1>10, PartsOfLabel
    <3> DEFINE start == front + NImage + 1
    <3>2. Stretch(f, 1, front) = Main
      <4>1. \A k \in 1 .. front : At(f, 1 + k - 1).text = PartOf(Main, k)
        BY <1>1, <1>7
      <4> QED
        BY <1>1, <3>1, <4>1, StretchIs
    <3>3. Stretch(f, start, EolRecs) = EolText
      <4>1. start \in Nat \ {0}
        BY <1>1
      <4>2. \A k \in 1 .. EolRecs : At(f, start + k - 1).text = PartOf(EolText, k)
        BY <1>1, <2>2, <2>4
      <4> HIDE DEF start
      <4> QED
        BY <2>2, <3>1, <4>1, <4>2, StretchIs
    <3> QED
      BY <2>3, <3>2, <3>3 DEF LabelIn
  <2>6. Splits = TRUE
    BY <1>10 DEF Splits
  <2> QED
    BY <1>8, <1>10, <2>5, <2>6, PartsOfLabel
<1> QED
  BY <1>9, <1>10

(* The close leaves room for every record that it has written.             *)
LEMMA RewrittenPlaces ==
  ASSUME RInv
  PROVE  \A i \in 1 .. Len(Rewritten) :
           Place(i) \in 1 .. FinalSize(IF Splits THEN EolRecs ELSE eol_size)
<1> DEFINE first == Records(Main, front, IF Splits THEN 1 ELSE 0)
           other == IF Splits THEN Records(EolText, EolRecs, EolRecs) ELSE <<>>
           n == IF Splits THEN EolRecs ELSE 0
<1>1. front \in Nat \ {0} /\ NImage \in Nat /\ eol_size \in Nat
  BY Basics, Sizes
<1>2. EolRecs \in Nat /\ (Splits => EolText \in Seq(Texts)) /\ Main \in Seq(Texts)
  BY PartsOfLabel, RewrittenType DEF RInv
<1>3. first \in Seq(RecordType) /\ Len(first) = front
  <2>1. (IF Splits THEN 1 ELSE 0) \in Nat
    OBVIOUS
  <2> QED
    BY <1>1, <1>2, <2>1, RecordsType
<1>4. other \in Seq(RecordType) /\ Len(other) = n
  <2>1. CASE Splits
    BY <1>2, <2>1, RecordsType
  <2>2. CASE ~Splits
    BY <2>2
  <2> QED
    BY <2>1, <2>2
<1>5. Rewritten = first \o other
  BY DEF Rewritten
<1> HIDE DEF first, other
<1>6. Len(Rewritten) = front + n
  <2>1. first \in Seq(RecordType) /\ other \in Seq(RecordType)
    BY <1>3, <1>4
  <2>2. Len(first \o other) = Len(first) + Len(other)
    BY <2>1, Joined
  <2> QED
    BY <1>3, <1>4, <1>5, <2>2
<1> DEFINE e == IF Splits THEN EolRecs ELSE eol_size
<1>7. e \in Nat /\ n \in Nat /\ n <= e
  BY <1>1, <1>2
<1> HIDE DEF e, n
<1>8. \A i \in 1 .. Len(Rewritten) : Place(i) \in 1 .. (front + NImage + e)
  BY <1>1, <1>6, <1>7 DEF Place, FirstEol
<1> QED
  BY <1>8 DEF FinalSize, e

LEMMA CloseAndRewriteKeeps ==
  ASSUME RInv, CloseAndRewrite
  PROVE  RInv' /\ Label' = Label
<1> DEFINE eols == IF Splits THEN EolRecs ELSE eol_size
           all == AfterWriting(Len(Rewritten))
           size == FinalSize(eols)
<1>1. IInv' /\ IInv
  BY CloseAndRewriteStep DEF RInv
<1>2. /\ op' = "CLOSED" /\ eol' = FALSE /\ modified' = FALSE /\ front' = front
      /\ op # "CLOSED" /\ modified /\ file' = Truncated(all, size)
  BY DEF CloseAndRewrite, Ended, Rewrites
<1>3. size \in Nat /\ \A i \in 1 .. Len(Rewritten) : Place(i) \in 1 .. size
  <2>1. eols \in Nat
    BY <1>1, Basics, RewrittenType
  <2> HIDE DEF eols
  <2>2. size \in Nat
    BY <2>1, Basics, Sizes DEF FinalSize
  <2> QED
    BY <2>2, RewrittenPlaces DEF eols
<1> HIDE DEF size
<1>4. /\ all \in Seq(RecordType)
      /\ \A i \in 1 .. Len(Rewritten) : At(all, Place(i)) = Rewritten[i]
  <2>1. Len(Rewritten) \in 0 .. Len(Rewritten)
    BY <1>1, RewrittenType
  <2> QED
    BY <1>1, <2>1, AfterWritingFacts
<1> HIDE DEF all
<1>5. /\ file' \in Seq(RecordType) /\ Len(file') = size
      /\ \A k \in 1 .. size : At(file', k) = At(all, k)
  BY <1>2, <1>3, <1>4, TruncatedFacts
<1>6. \A i \in 1 .. Len(Rewritten) : At(file', Place(i)) = Rewritten[i]
  BY <1>3, <1>4, <1>5
<1>7. LabelIn(file', front, Splits) = labels /\ At(file', 1).note = IF Splits THEN 1 ELSE 0
  BY <1>5, <1>6, WrittenLabel
<1>8. size > 0
  <2>1. Len(Rewritten) \in Nat /\ Place(1) = 1
    BY <1>1, RewrittenType, Basics DEF Place
  <2>2. size = front + NImage + eols
    BY DEF size, FinalSize
  <2>3. eols \in Nat
    BY <1>1, Basics, RewrittenType
  <2> HIDE DEF eols
  <2> QED
    BY <2>2, <2>3, Basics, Sizes
<1>9. file' # <<>> /\ file'[1] = At(file', 1)
  BY <1>3, <1>5, <1>8 DEF At
<1>10. (file'[1].note = 1) = Splits
  BY <1>7, <1>9 DEF Splits
<1>11. Stored' = labels
  <2> DEFINE flag == file'[1].note = 1
  <2>1. flag = Splits
    BY <1>10
  <2>2. Stored' = LabelIn(file', front, flag)
    BY <1>2 DEF Stored
  <2> HIDE DEF flag
  <2> QED
    BY <1>7, <2>1, <2>2
<1>12. RInv'
  BY <1>1, <1>2, <1>9 DEF RInv, Clean
<1> QED
  BY <1>2, <1>11, <1>12, LabelNow, LabelNext DEF LabelKnown

(* A label that fits its space stays in memory when it cannot be written.  *)
LEMMA RewriteFailsKeeps ==
  ASSUME Harmless, RInv, RewriteFails
  PROVE  RInv' /\ Label' = Label
<1>1. IInv' /\ IInv
  BY RewriteFailsStep DEF RInv
<1>2. op # "CLOSED" /\ modified /\ UNCHANGED <<front, op, eol, modified>> /\ labels' = Main
  BY DEF RewriteFails, Rewrites, Failed
<1>3. ~Splits
  BY DEF RewriteFails, Harmless
<1>4. labels' = labels
  BY <1>2, <1>3, PartsOfLabel
<1>5. file' # <<>>
  <2>1. PICK n \in 0 .. (Len(Rewritten) - 1) : file' \in {AfterWriting(n), AfterWriting(n + 1)}
    BY DEF RewriteFails
  <2>2. n \in 0 .. Len(Rewritten) /\ n + 1 \in 0 .. Len(Rewritten)
    BY <1>1, RewrittenType
  <2>3. Len(file') >= Len(file)
    BY <1>1, <2>1, <2>2, AfterWritingFacts
  <2>4. Len(<<>>) = 0
    OBVIOUS
  <2> QED
    BY <2>3, <2>4, Basics
<1>6. RInv'
  BY <1>1, <1>2, <1>4, <1>5 DEF RInv, Clean
<1> QED
  BY <1>2, <1>4, <1>6, LabelNow, LabelNext DEF LabelKnown

LEMMA CloseFailsKeeps ==
  ASSUME Harmless, RInv, CloseFails
  PROVE  RInv' /\ Label' = Label
<1>1. IInv'
  BY CloseFailsStep DEF RInv
<1>2. ~Rewrites
  BY DEF CloseFails, Harmless
<1>3. UNCHANGED <<file, front, unit>>
  BY <1>2 DEF CloseFails, Failed, unit
<1> QED
  BY <1>1, <1>3, NothingKeeps

-----------------------------------------------------------------------------
(* Each step does what the promise has a step for.                         *)

LEMMA Answers == \A status, line : Promise!Returned(status, line) = Returned(status, line)
BY DEF Promise!Returned, Returned

LEMMA SameEdits ==
  \A s, k, name : /\ Promise!InsertAt(s, k, name) = InsertAt(s, k, name)
                  /\ Promise!RemoveAt(s, k) = RemoveAt(s, k)
BY DEF InsertAt, Promise!InsertAt, RemoveAt, Promise!RemoveAt

LEMMA Blank == Promise!Nothing = Hole /\ \A d : Promise!Line(d) = Rec(<<d>>, 0)
BY DEF Promise!Nothing, Promise!Line, Hole, Rec

(* A step that reaches no line of the image.                               *)
LEMMA LinesAsWere ==
  ASSUME LinesKept, front' = front, img_rec' \notin 1 .. NImage
  PROVE  Lines' = Lines
BY DEF LinesKept, Lines

LEMMA OpenInputRefines ==
  ASSUME RInv, RInv', NEW mode \in {"READ", "UPDATE"}, NEW hist \in BOOLEAN,
         hist => mode = "UPDATE", OpenInput(mode, hist)
  PROVE  Promise!Open(mode)
<1>1. /\ op = "CLOSED" /\ op' = mode /\ img_rec' = 0 /\ result' = Done /\ UNCHANGED <<file, front>>
      /\ eol' = (file[1].note = 1) /\ modified' = hist
      /\ labels' = IF hist THEN Append(ReadIn(eol'), Task) ELSE <<>>
  BY DEF OpenInput
<1>2. Label = Stored /\ Stored' = Stored
  BY <1>1, LabelNow DEF LabelKnown, Stored
<1>3. ReadIn(eol') = Stored
  <2> DEFINE flag == file[1].note = 1
  <2>1. flag \in BOOLEAN /\ eol' = flag
    BY <1>1
  <2>2. Stored = LabelIn(file, front, flag)
    BY DEF Stored
  <2> HIDE DEF flag
  <2> QED
    BY <2>1, <2>2, ReadInIs
<1>4. Label' = IF hist THEN Append(Label, Task) ELSE Label
  BY <1>1, <1>2, <1>3, LabelNext
<1>5. Lines' = Lines
  BY <1>1 DEF Lines
<1>6. op' # "CLOSED"
  BY <1>1
<1> QED
  BY <1>1, <1>4, <1>5, Answers, Blank DEF Promise!Open, Done, Lines

LEMMA OpenOutputRefines ==
  ASSUME RInv, RInv', NEW items \in NewLabels, OpenOutput(items)
  PROVE  Promise!Create(items)
<1>1. op = "CLOSED" /\ op' = "WRITE" /\ img_rec' = 0 /\ result' = Done /\ modified' = FALSE
  BY DEF OpenOutput
<1>2. LabelIn(file', front', FALSE) = items /\ file'[1].note = 0
  BY OpenOutputFile
<1>3. Stored' = items
  <2> DEFINE flag == file'[1].note = 1
  <2>1. flag = FALSE
    BY <1>2
  <2>2. Stored' = LabelIn(file', front', flag)
    BY DEF Stored
  <2> HIDE DEF flag
  <2> QED
    BY <1>2, <2>1, <2>2
<1>4. Label' = items
  BY <1>1, <1>3, LabelNext
<1> QED
  BY <1>1, <1>4, Answers, Blank DEF Promise!Create, Done

LEMMA LabelLookRefines ==
  ASSUME RInv, RInv', LabelLook
  PROVE  Promise!Look
<1>1. /\ UNCHANGED <<file, front, op, eol, modified, img_rec>> /\ op # "CLOSED" /\ labels = <<>>
      /\ result' = Done
  BY DEF LabelLook
<1>2. ~modified
  BY <1>1 DEF RInv
<1>3. Label' = Label
  BY <1>1, <1>2, LabelNow, LabelNext DEF LabelKnown, Stored
<1>4. Lines' = Lines
  BY <1>1 DEF Lines
<1> QED
  BY <1>1, <1>3, <1>4, Answers, Blank DEF Promise!Look, Done, Lines

LEMMA EditedRefines ==
  ASSUME Harmless, RInv, RInv', NEW text \in Seq(Texts), text # <<>>, Edited(text)
  PROVE  /\ op \in {"WRITE", "UPDATE"} /\ Label = InMemory /\ Label' = text
         /\ result' = Done /\ UNCHANGED <<op, img_rec>> /\ Lines' = Lines
<1>1. /\ UNCHANGED <<file, front, op, eol, img_rec>> /\ op \in {"WRITE", "UPDATE"}
      /\ labels' = text
  BY DEF Edited
<1>2. modified' /\ result' = Done
  BY EditedKeeps
<1>3. Label' = text
  BY <1>1, <1>2, LabelNext
<1>4. Label = InMemory
  BY <1>1 DEF Label
<1>5. Lines' = Lines
  BY <1>1 DEF Lines
<1> QED
  BY <1>1, <1>2, <1>3, <1>4, <1>5

LEMMA LabelAddRefines ==
  ASSUME Harmless, RInv, RInv',
         NEW name \in Names, NEW k \in 2 .. (Len(InMemory) + 1), LabelAdd(k, name)
  PROVE  Promise!Edit
<1>1. InsertAt(InMemory, k, name) \in Seq(Texts) /\ InsertAt(InMemory, k, name) # <<>>
  BY InMemoryType, InsertedType DEF RInv
<1>2. Edited(InsertAt(InMemory, k, name))
  BY DEF LabelAdd
<1>3. /\ op \in {"WRITE", "UPDATE"} /\ Label = InMemory /\ Label' = InsertAt(InMemory, k, name)
      /\ result' = Done /\ UNCHANGED <<op, img_rec>> /\ Lines' = Lines
  BY <1>1, <1>2, EditedRefines
<1>4. k \in 2 .. (Len(Label) + 1) /\ Label' = InsertAt(Label, k, name)
  BY <1>3
<1> QED
  BY <1>3, <1>4, Answers, Blank, SameEdits DEF Promise!Edit, Done, Lines

LEMMA LabelDeleteRefines ==
  ASSUME Harmless, RInv, RInv', NEW k \in 2 .. Len(InMemory), LabelDelete(k)
  PROVE  Promise!Edit
<1>1. RemoveAt(InMemory, k) \in Seq(Texts) /\ RemoveAt(InMemory, k) # <<>>
  BY InMemoryType, RemovedType DEF RInv
<1>2. Edited(RemoveAt(InMemory, k))
  BY DEF LabelDelete
<1>3. /\ op \in {"WRITE", "UPDATE"} /\ Label = InMemory /\ Label' = RemoveAt(InMemory, k)
      /\ result' = Done /\ UNCHANGED <<op, img_rec>> /\ Lines' = Lines
  BY <1>1, <1>2, EditedRefines
<1>4. k \in 2 .. Len(Label) /\ Label' = RemoveAt(Label, k)
  BY <1>3
<1> QED
  BY <1>3, <1>4, Answers, Blank, SameEdits DEF Promise!Edit, Done, Lines

LEMMA ReturnRefines ==
  ASSUME RInv, IInv', op # "CLOSED", NEW status, Return(status)
  PROVE  Promise!Refuse(status)
<1>1. UNCHANGED <<file, front, unit, img_rec>> /\ result' = Returned(status, Hole)
  BY DEF Return
<1>2. Label' = Label /\ UNCHANGED op
  BY <1>1, NothingKeeps DEF unit
<1>3. Lines' = Lines
  BY <1>1 DEF Lines
<1> QED
  BY <1>1, <1>2, <1>3, Answers, Blank DEF Promise!Refuse, Lines

(* A line that is named is one of the image's, or comes after the last.    *)
LEMMA NamedLine ==
  ASSUME NEW slice \in Slices, NEW next \in Nat \ {0}, ~Refused(slice)
  PROVE  Named(slice, next) \in Nat \ {0}
<1>1. N2 \in Nat \ {0} /\ N3 \in Nat \ {0} /\ slice[1] \in Nat /\ slice[2] \in Nat
      /\ slice = <<slice[1], slice[2]>>
  BY LayoutIsSane DEF Slices
<1>2. CASE NoSlice(slice)
  BY <1>1, <1>2 DEF Named, NoSlice
<1>3. CASE ~NoSlice(slice) /\ slice[2] = 0
  <2>1. slice[1] # 0
    BY <1>1, <1>3 DEF NoSlice
  <2>2. Named(slice, next) = slice[1]
    BY <1>3, <2>1 DEF Named
  <2> QED
    BY <1>1, <2>1, <2>2
<1>4. CASE ~NoSlice(slice) /\ slice[2] # 0
  <2>1. slice[1] # 0
    BY <1>4 DEF Refused
  <2>2. N2 * (slice[2] - 1) \in Nat
    <3>1. slice[2] - 1 \in Nat
      BY <1>1, <1>4
    <3> QED
      BY <1>1, <3>1
  <2>3. Named(slice, next) = N2 * (slice[2] - 1) + slice[1]
    BY <1>4 DEF Named, NoSlice
  <2> QED
    BY <1>1, <2>1, <2>2, <2>3
<1> QED
  BY <1>2, <1>3, <1>4

LEMMA ReadLineRefines ==
  ASSUME RInv, IInv', NEW slice \in Slices, ReadLine(slice)
  PROVE  Promise!Next
<1> DEFINE n == Named(slice, img_rec + 1)
<1>1. op \in {"READ", "UPDATE"}
  BY DEF ReadLine
<1>2. CASE \E status \in {"START_REC_ERROR", "END_OF_FILE"} : Return(status)
  BY <1>1, <1>2, ReturnRefines DEF Promise!Next
<1>3. CASE /\ ~Refused(slice) /\ ~PastEnd(n) /\ img_rec' = n
           /\ result' = Returned("SUCCESS", At(file, front + n))
           /\ UNCHANGED <<file, front, unit>>
  <2>1. n \in Nat \ {0}
    <3>1. img_rec + 1 \in Nat \ {0}
      BY Basics
    <3> QED
      BY <1>3, <3>1, NamedLine
  <2> HIDE DEF n
  <2>2. n \in 1 .. NImage
    BY <1>3, <2>1, Sizes DEF PastEnd
  <2>3. Label' = Label /\ UNCHANGED op
    BY <1>3, NothingKeeps DEF unit
  <2>4. Lines' = Lines /\ Lines[n] = At(file, front + n)
    BY <1>3, <2>2 DEF Lines
  <2>5. Promise!Read(n)
    BY <1>1, <1>3, <2>3, <2>4, Answers DEF Promise!Read, Lines
  <2> QED
    BY <2>2, <2>5 DEF Promise!Next
<1> QED
  BY <1>2, <1>3 DEF ReadLine

LEMMA WriteLineRefines ==
  ASSUME Harmless, RInv, RInv', NEW slice \in Slices, NEW d \in Data, WriteLine(slice, d)
  PROVE  Promise!Next
<1> DEFINE n == Named(slice, IF op = "UPDATE" THEN img_rec ELSE img_rec + 1)
           r == front + n
           rec == Rec(<<d>>, 0)
           written == Put(file, r, rec)
<1>1. op \in {"WRITE", "UPDATE"} /\ op # "CLOSED"
  BY DEF WriteLine
<1>2. CASE \E status \in {"START_REC_ERROR", "END_OF_FILE"} : Return(status)
  <2>1. IInv'
    BY DEF RInv
  <2> QED
    BY <1>1, <1>2, <2>1, ReturnRefines DEF Promise!Next
<1>3. CASE /\ n <= NImage + 1 /\ (op = "UPDATE" => ~PastEnd(n)) /\ n > 0
           /\ img_rec' = n /\ UNCHANGED <<front, unit>>
           /\ \/ file' = written /\ result' = Done
              \/ file' \in {file, written} /\ result' = Returned("IO_ERROR", Hole)
  <2>1. n \in Nat
    <3>1. (IF op = "UPDATE" THEN img_rec ELSE img_rec + 1) \in Nat
      BY Basics
    <3> QED
      BY <3>1, NamedType
  <2> HIDE DEF n
  <2>2. n \in 1 .. (NImage + 1) /\ (op = "UPDATE" => n <= NImage)
    BY <1>3, <2>1, Sizes DEF PastEnd
  <2>3. Label' = Label
    BY WriteLineKeeps
  <2>4. UNCHANGED op
    BY <1>3 DEF unit
  <2>5. file' = written => Lines' = IF n <= NImage THEN [Lines EXCEPT ![n] = rec] ELSE Lines
    <3> SUFFICES ASSUME file' = written
                 PROVE  Lines' = IF n <= NImage THEN [Lines EXCEPT ![n] = rec] ELSE Lines
      OBVIOUS
    <3>1. front \in Nat \ {0} /\ file \in Seq(RecordType) /\ r \in Nat \ {0} /\ NImage \in Nat
      BY <2>1, Basics, Sizes
    <3>2. rec \in RecordType
      <4>1. d \in Texts
        BY DEF Texts
      <4> QED
        BY <4>1, LineType
    <3> HIDE DEF rec
    <3>3. At(written, r) = rec /\ \A k \in (Nat \ {0}) \ {r} : At(written, k) = At(file, k)
      <4> HIDE DEF r
      <4> QED
        BY <3>1, <3>2, PutFacts
    <3> HIDE DEF written
    <3>4. front' = front
      BY <1>3
    <3>5. \A k \in 1 .. NImage : At(file', front + k) = IF k = n THEN rec ELSE At(file, front + k)
      <4> TAKE k \in 1 .. NImage
      <4>1. CASE k = n
        BY <3>3, <4>1
      <4>2. CASE k # n
        <5>1. front + k \in (Nat \ {0}) \ {r}
          BY <2>1, <3>1, <4>2
        <5> QED
          BY <3>3, <4>2, <5>1
      <4> QED
        BY <4>1, <4>2
    <3>6. Lines' = [k \in 1 .. NImage |-> IF k = n THEN rec ELSE At(file, front + k)]
      BY <3>4, <3>5 DEF Lines
    <3>7. CASE n <= NImage
      <4>1. [Lines EXCEPT ![n] = rec]
              = [k \in 1 .. NImage |-> IF k = n THEN rec ELSE At(file, front + k)]
        BY DEF Lines
      <4> QED
        BY <3>6, <3>7, <4>1
    <3>8. CASE ~(n <= NImage)
      <4>1. \A k \in 1 .. NImage : k # n
        BY <2>2, <3>8
      <4>2. Lines' = [k \in 1 .. NImage |-> At(file, front + k)]
        BY <3>6, <4>1
      <4> QED
        BY <3>8, <4>2 DEF Lines
    <3> QED
      BY <3>7, <3>8
  <2>6. file' = file => Lines' = Lines
    BY <1>3 DEF Lines
  <2>7. rec = Promise!Line(d)
    BY Blank
  <2> HIDE DEF rec, written
  <2>8. CASE file' = written /\ result' = Done
    <3>1. Promise!Write(n, d)
      BY <1>1, <1>3, <2>2, <2>3, <2>4, <2>5, <2>7, <2>8, Answers, Blank
      DEF Promise!Write, Done, Lines
    <3> QED
      BY <2>2, <3>1 DEF Promise!Next
  <2>9. CASE file' \in {file, written} /\ result' = Returned("IO_ERROR", Hole)
    <3>1. Lines' \in {Lines, IF n <= NImage THEN [Lines EXCEPT ![n] = Promise!Line(d)] ELSE Lines}
      BY <2>5, <2>6, <2>7, <2>9
    <3>2. Promise!WriteFails(n, d)
      BY <1>1, <1>3, <2>3, <2>4, <2>9, <3>1, Answers, Blank DEF Promise!WriteFails, Lines
    <3> QED
      BY <2>2, <3>2 DEF Promise!Next
  <2> QED
    BY <1>3, <2>8, <2>9
<1> QED
  BY <1>2, <1>3 DEF WriteLine, Harmless

LEMMA CloseRefines ==
  ASSUME RInv, CloseOnly \/ CloseAndRewrite
  PROVE  Promise!Close
<1>1. op # "CLOSED" /\ op' = "CLOSED" /\ img_rec' = 0 /\ result' = Done /\ front' = front
  BY DEF CloseOnly, CloseAndRewrite, Ended, Rewrites
<1>2. Label' = Label
  BY CloseOnlyKeeps, CloseAndRewriteKeeps
<1>3. Lines' = Lines
  <2>1. LinesKept
    BY CloseOnlyStep, CloseAndRewriteStep DEF RInv
  <2>2. img_rec' \notin 1 .. NImage
    BY <1>1, Sizes
  <2> QED
    BY <1>1, <2>1, <2>2, LinesAsWere
<1> QED
  BY <1>1, <1>2, <1>3, Answers, Blank DEF Promise!Close, Done, Lines

LEMMA CloseFailureRefines ==
  ASSUME Harmless, RInv, RewriteFails \/ CloseFails
  PROVE  Promise!CloseFails
<1>1. /\ op # "CLOSED" /\ result' = Returned("IO_ERROR", Hole)
      /\ UNCHANGED <<front, op, img_rec>>
  BY DEF RewriteFails, CloseFails, Failed, Rewrites
<1>2. Label' = Label
  BY RewriteFailsKeeps, CloseFailsKeeps
<1>3. \A k \in 1 .. NImage : At(file', front + k) = At(file, front + k)
  <2>1. CASE RewriteFails
    <3>1. PICK n \in 0 .. (Len(Rewritten) - 1) : file' \in {AfterWriting(n), AfterWriting(n + 1)}
      BY <2>1 DEF RewriteFails
    <3>2. n \in 0 .. Len(Rewritten) /\ n + 1 \in 0 .. Len(Rewritten) /\ IInv
      BY RewrittenType DEF RInv
    <3> QED
      BY <3>1, <3>2, AfterWritingFacts
  <2>2. CASE CloseFails
    BY <2>2 DEF CloseFails, Harmless
  <2> QED
    BY <2>1, <2>2
<1>4. Lines' = Lines
  BY <1>1, <1>3 DEF Lines
<1> QED
  BY <1>1, <1>2, <1>4, Answers, Blank DEF Promise!CloseFails, Promise!Refuse, Lines

-----------------------------------------------------------------------------
LEMMA InitLabelled ==
  ASSUME Init
  PROVE  RInv /\ Promise!Init
<1>1. IInv
  BY InitIInv
<1>2. PICK items \in NewLabels :
        /\ front = RecsFor(Len(items))
        /\ file = Records(items, front, 0) \o [n \in 1 .. NImage |-> Rec(<<"old">>, 0)]
  BY DEF Init
<1>3. file # <<>>
  <2> DEFINE g == [n \in 1 .. NImage |-> Rec(<<"old">>, 0)]
             f == Records(items, front, 0)
  <2>1. items \in Seq(Texts) /\ front \in Nat \ {0} /\ NImage \in Nat
    BY <1>2, NewLabelFacts, Sizes
  <2>2. f \in Seq(RecordType) /\ Len(f) = front
    BY <2>1, RecordsType
  <2>3. g \in Seq({Rec(<<"old">>, 0)}) /\ file = f \o g
    BY <1>2, <2>1
  <2> HIDE DEF f, g
  <2>4. Len(f \o g) >= front
    BY <2>1, <2>2, <2>3
  <2>5. Len(<<>>) = 0
    OBVIOUS
  <2> QED
    BY <2>1, <2>3, <2>4, <2>5
<1>4. op = "CLOSED" /\ eol = FALSE /\ modified = FALSE /\ img_rec = 0 /\ result = Done
  BY DEF Init
<1>5. RInv
  BY <1>1, <1>3, <1>4 DEF RInv, Clean
<1> QED
  BY <1>4, <1>5, Answers, Blank DEF Promise!Init, Done

LEMMA NextLabelled ==
  ASSUME Harmless, RInv, [Next]_vars
  PROVE  RInv' /\ [Promise!Next]_(Promise!vars)
<1>1. IInv'
  BY Step DEF RInv
<1>2. ASSUME NEW mode \in {"READ", "UPDATE"}, NEW hist \in BOOLEAN,
             hist => mode = "UPDATE", OpenInput(mode, hist)
      PROVE  RInv' /\ Promise!Next
  BY <1>2, OpenInputKeeps, OpenInputRefines DEF Promise!Next
<1>3. ASSUME NEW items \in NewLabels, OpenOutput(items)
      PROVE  RInv' /\ Promise!Next
  BY <1>3, OpenOutputKeeps, OpenOutputRefines DEF Promise!Next
<1>4. ASSUME LabelLook
      PROVE  RInv' /\ Promise!Next
  BY <1>4, LabelLookKeeps, LabelLookRefines DEF Promise!Next
<1>5. ASSUME NEW name \in Names, NEW k \in 2 .. (Len(InMemory) + 1), LabelAdd(k, name)
      PROVE  RInv' /\ Promise!Next
  <2>1. InsertAt(InMemory, k, name) \in Seq(Texts) /\ InsertAt(InMemory, k, name) # <<>>
    BY InMemoryType, InsertedType DEF RInv
  <2>2. RInv'
    BY <1>5, <2>1, EditedKeeps DEF LabelAdd
  <2> QED
    BY <1>5, <2>2, LabelAddRefines DEF Promise!Next
<1>6. ASSUME NEW k \in 2 .. Len(InMemory), LabelDelete(k)
      PROVE  RInv' /\ Promise!Next
  <2>1. RemoveAt(InMemory, k) \in Seq(Texts) /\ RemoveAt(InMemory, k) # <<>>
    BY InMemoryType, RemovedType DEF RInv
  <2>2. RInv'
    BY <1>6, <2>1, EditedKeeps DEF LabelDelete
  <2> QED
    BY <1>6, <2>2, LabelDeleteRefines DEF Promise!Next
<1>7. ASSUME NEW slice \in Slices, ReadLine(slice)
      PROVE  RInv' /\ Promise!Next
  <2>1. UNCHANGED <<file, front, unit>>
    BY <1>7 DEF ReadLine, Return
  <2> QED
    BY <1>1, <1>7, <2>1, NothingKeeps, ReadLineRefines
<1>8. ASSUME NEW slice \in Slices, NEW d \in Data, WriteLine(slice, d)
      PROVE  RInv' /\ Promise!Next
  BY <1>8, WriteLineKeeps, WriteLineRefines
<1>9. ASSUME CloseOnly \/ CloseAndRewrite
      PROVE  RInv' /\ Promise!Next
  BY <1>9, CloseOnlyKeeps, CloseAndRewriteKeeps, CloseRefines DEF Promise!Next
<1>10. ASSUME RewriteFails \/ CloseFails
      PROVE  RInv' /\ Promise!Next
  BY <1>10, RewriteFailsKeeps, CloseFailsKeeps, CloseFailureRefines DEF Promise!Next
<1>11. CASE UNCHANGED vars
  <2>1. UNCHANGED <<file, front, unit, img_rec, result>>
    BY <1>11 DEF vars
  <2>2. RInv' /\ Label' = Label
    BY <1>1, <2>1, NothingKeeps
  <2> QED
    BY <2>1, <2>2 DEF Promise!vars, unit
<1>12. ASSUME Next PROVE RInv' /\ Promise!Next
  <2>1. CASE \/ \E mode \in {"READ", "UPDATE"} : OpenInput(mode, FALSE)
             \/ OpenInput("UPDATE", TRUE)
    BY <1>2, <2>1
  <2>2. CASE \E items \in NewLabels : OpenOutput(items)
    BY <1>3, <2>2
  <2>3. CASE \E name \in Names, k \in 2 .. (Len(InMemory) + 1) : LabelAdd(k, name)
    BY <1>5, <2>3
  <2>4. CASE \E k \in 2 .. Len(InMemory) : LabelDelete(k)
    BY <1>6, <2>4
  <2>5. CASE \E slice \in Slices : ReadLine(slice)
    BY <1>7, <2>5
  <2>6. CASE \E slice \in Slices, d \in Data : WriteLine(slice, d)
    BY <1>8, <2>6
  <2> QED
    BY <1>4, <1>9, <1>10, <1>12, <2>1, <2>2, <2>3, <2>4, <2>5, <2>6 DEF Next
<1> QED
  BY <1>11, <1>12

(* As long as only those calls fail that are known to lose nothing, a      *)
(* labelled image is what its callers have made of it, whatever the sizes  *)
(* of its records, its label and its image are: v2_read_in_labels finds    *)
(* again what v2_update_label has written, before the image and behind it; *)
(* v2_finish_file cuts off no part of either; and v2_read and v2_write     *)
(* reach the lines, and nothing of the label.                              *)
THEOREM ImageKeepsItsPromise ==
  ASSUME Harmless
  PROVE  Spec => Implements
<1>1. Init => RInv /\ Promise!Init
  BY InitLabelled
<1>2. RInv /\ [Next]_vars => RInv' /\ [Promise!Next]_(Promise!vars)
  BY NextLabelled
<1> QED
  BY <1>1, <1>2, PTL DEF Spec, Implements, Promise!Spec

-----------------------------------------------------------------------------
(* Sizes: a label has no more items than callers may give it, wherever its *)
(* parts are, and the sizes in the file are those of such labels.          *)

Most == RecsFor(MaxText + 1)

SmallNotes(f) == \A k \in Nat \ {0} : At(f, k).note \in 0 .. Most

SInv ==
  /\ RInv
  /\ front <= RecsFor(MaxText)
  /\ SmallNotes(file)
  /\ eol_size <= Most
  /\ img_rec <= NImage + 1
  /\ Len(Label) <= MaxText
  /\ modified \in BOOLEAN
  /\ op = "CLOSED" => labels = <<>>

LEMMA RecsGrow ==
  ASSUME NEW m \in Nat, NEW n \in Nat, m <= n
  PROVE  RecsFor(m) <= RecsFor(n)
<1> DEFINE a == RecsFor(m)
           b == RecsFor(n)
           d == PerRec
<1>1. d \in Nat \ {0} /\ a \in Nat /\ b \in Nat
  BY Sizes, RecsForType
<1>2. a = (m + d - 1) \div d /\ b = (n + d - 1) \div d
  BY DEF RecsFor
<1> HIDE DEF a, b, d
<1>3. PICK r \in 0 .. (d - 1) : m + d - 1 = d * a + r
  <2>1. m + d - 1 \in Nat
    BY <1>1
  <2> QED
    BY <1>1, <1>2, <2>1, DivMod
<1>4. PICK s \in 0 .. (d - 1) : n + d - 1 = d * b + s
  <2>1. n + d - 1 \in Nat
    BY <1>1
  <2> QED
    BY <1>1, <1>2, <2>1, DivMod
<1>5. SUFFICES ASSUME b < a PROVE FALSE
  BY <1>1 DEF a, b
<1>6. d * b + d <= d * a
  <2>1. PICK e \in Nat : a = b + 1 + e
    <3>1. a - b - 1 \in Nat /\ a = b + 1 + (a - b - 1)
      BY <1>1, <1>5
    <3> QED
      BY <3>1
  <2>2. d * (b + 1 + e) = d * b + d + d * e /\ d * e \in Nat /\ d * b \in Nat
    BY <1>1
  <2>3. d * a = d * b + d + d * e
    BY <2>1, <2>2
  <2> QED
    BY <1>1, <2>2, <2>3
<1>7. d * a \in Nat /\ d * b \in Nat
  BY <1>1
<1> QED
  BY <1>1, <1>3, <1>4, <1>6, <1>7

LEMMA MostFacts == Most \in Nat \ {0} /\ RecsFor(MaxText) \in Nat
<1>1. MaxText \in Nat /\ MaxText + 1 \in Nat /\ MaxText + 1 > 0
  BY Sizes
<1> QED
  BY <1>1, RecsForType DEF Most

LEMMA LabelLength ==
  ASSUME SInv
  PROVE  labels \in Seq(Texts) /\ Len(labels) <= MaxText
<1>1. labels \in Seq(Texts) /\ MaxText \in Nat /\ Len(<<>>) = 0
  BY Basics, Sizes DEF SInv
<1>2. CASE labels = <<>>
  BY <1>1, <1>2
<1>3. CASE labels # <<>>
  <2>1. Label = labels
    BY <1>3 DEF SInv, Label, InMemory
  <2> QED
    BY <1>1, <2>1 DEF SInv
<1> QED
  BY <1>2, <1>3

(* The records that files are made of.                                     *)
LEMMA SmallRecord ==
  ASSUME NEW f, SmallNotes(f), NEW g, NEW S,
         \A rec \in S : rec.note \in 0 .. Most,
         \A k \in Nat \ {0} : At(g, k) \in S \cup {At(f, k), Hole}
  PROVE  SmallNotes(g)
<1> SUFFICES ASSUME NEW k \in Nat \ {0}
             PROVE  At(g, k).note \in 0 .. Most
  BY DEF SmallNotes
<1>1. Hole.note = 0 /\ 0 \in 0 .. Most
  BY MostFacts, RecFields DEF Hole
<1>2. At(f, k).note \in 0 .. Most
  BY DEF SmallNotes
<1>3. CASE At(g, k) \in S
  BY <1>3
<1>4. CASE At(g, k) = At(f, k)
  BY <1>2, <1>4
<1>5. CASE At(g, k) = Hole
  BY <1>1, <1>5
<1> QED
  BY <1>3, <1>4, <1>5

LEMMA RecordsNotes ==
  ASSUME NEW text, NEW n \in Nat, NEW note \in 0 .. Most, NEW i \in 1 .. n
  PROVE  Records(text, n, note)[i].note \in 0 .. Most
<1>1. Records(text, n, note)[i] = Rec(PartOf(text, i), IF i = 1 THEN note ELSE 0)
  BY DEF Records
<1>2. Records(text, n, note)[i].note = IF i = 1 THEN note ELSE 0
  BY <1>1, RecFields
<1>3. 0 \in 0 .. Most
  BY MostFacts
<1> QED
  BY <1>2, <1>3

LEMMA TruncatedSmall ==
  ASSUME NEW f \in Seq(RecordType), SmallNotes(f), NEW n \in Nat
  PROVE  SmallNotes(Truncated(f, n))
<1> DEFINE g == Truncated(f, n)
<1>1. g \in Seq(RecordType) /\ Len(g) = n /\ \A k \in 1 .. n : At(g, k) = At(f, k)
  BY TruncatedFacts
<1> HIDE DEF g
<1>2. ASSUME NEW k \in Nat \ {0} PROVE At(g, k) \in {} \cup {At(f, k), Hole}
  <2>1. CASE k <= n
    BY <1>1, <2>1
  <2>2. CASE ~(k <= n)
    BY <1>1, <2>2 DEF At
  <2> QED
    BY <2>1, <2>2
<1>3. \A rec \in {} : rec.note \in 0 .. Most
  OBVIOUS
<1>4. SmallNotes(g)
  BY <1>2, <1>3, SmallRecord
<1> QED
  BY <1>4 DEF g

LEMMA EolSizeSmall ==
  ASSUME SInv, NEW flag \in BOOLEAN
  PROVE  EolSize(flag) \in 0 .. Most
<1>1. FirstEol \in Nat \ {0} /\ eol_size \in Nat /\ Most \in Nat
  BY Basics, MostFacts DEF SInv
<1>2. At(file, FirstEol).note \in 0 .. Most
  BY <1>1 DEF SInv, SmallNotes
<1> QED
  BY <1>1, <1>2 DEF EolSize, SInv

-----------------------------------------------------------------------------
(* What the close writes back.                                             *)

LEMMA EolRecsSmall ==
  ASSUME SInv
  PROVE  EolRecs \in 0 .. Most
<1>1. EolRecs \in Nat /\ Most \in Nat
  BY RewrittenType, MostFacts DEF SInv, RInv
<1>2. CASE ~Splits
  BY <1>1, <1>2 DEF EolRecs
<1>3. CASE Splits
  <2> DEFINE rest == SubSeq(labels, Room, Len(labels))
             size == Len(EolText)
  <2>1. Room \in Nat /\ Room > 1 /\ labels \in Seq(Texts) /\ Len(labels) <= MaxText
        /\ Len(labels) \in Nat /\ Len(labels) >= Room /\ MaxText \in Nat
    BY <1>3, RoomFacts, LabelLength, Sizes DEF SInv, Splits
  <2>2. rest \in Seq(Texts) /\ Len(rest) = Len(labels) - Room + 1
    BY <2>1, SubSeqProperties
  <2>3. EolText = <<"SIZE">> \o rest
    BY DEF EolText
  <2> HIDE DEF rest
  <2>4. <<"SIZE">> \in Seq(Texts) /\ Len(<<"SIZE">>) = 1
    BY DEF Texts
  <2>5. size = 1 + Len(rest)
    BY <2>2, <2>3, <2>4, Joined
  <2> HIDE DEF size
  <2>6. size \in Nat /\ size <= MaxText + 1 /\ MaxText + 1 \in Nat
    BY <2>1, <2>2, <2>5
  <2>7. RecsFor(size) <= RecsFor(MaxText + 1)
    BY <2>6, RecsGrow
  <2>8. EolRecs <= Most
    BY <1>3, <2>7 DEF EolRecs, size, Most
  <2> QED
    BY <1>1, <2>8
<1> QED
  BY <1>2, <1>3

LEMMA RewrittenSmall ==
  ASSUME SInv, NEW i \in 1 .. Len(Rewritten)
  PROVE  Rewritten[i].note \in 0 .. Most
<1> DEFINE mark == IF Splits THEN 1 ELSE 0
           first == Records(Main, front, mark)
           second == IF Splits THEN Records(EolText, EolRecs, EolRecs) ELSE <<>>
           n == IF Splits THEN EolRecs ELSE 0
<1>1. /\ front \in Nat /\ EolRecs \in 0 .. Most /\ Most \in Nat \ {0}
      /\ Main \in Seq(Texts) /\ (Splits => EolText \in Seq(Texts))
  BY Basics, EolRecsSmall, MostFacts, PartsOfLabel DEF SInv
<1>2. mark \in 0 .. Most /\ mark \in Nat /\ n \in Nat
  BY <1>1
<1> HIDE DEF mark
<1>3. first \in Seq(RecordType) /\ Len(first) = front
  BY <1>1, <1>2, RecordsType
<1>4. second \in Seq(RecordType) /\ Len(second) = n
  <2>1. CASE Splits
    <3>1. EolRecs \in Nat
      BY <1>1
    <3> QED
      BY <1>1, <2>1, <3>1, RecordsType
  <2>2. CASE ~Splits
    BY <2>2
  <2> QED
    BY <2>1, <2>2
<1>5. \A k \in 1 .. front : first[k].note \in 0 .. Most
  BY <1>1, <1>2, RecordsNotes
<1>6. \A k \in 1 .. n : second[k].note \in 0 .. Most
  <2> TAKE k \in 1 .. n
  <2>1. Splits
    BY <1>2
  <2>2. EolRecs \in Nat /\ k \in 1 .. EolRecs
    BY <1>1, <2>1
  <2>3. Records(EolText, EolRecs, EolRecs)[k].note \in 0 .. Most
    BY <1>1, <2>2, RecordsNotes
  <2> QED
    BY <2>1, <2>3
<1>7. Rewritten = first \o second
  BY DEF Rewritten, mark
<1> HIDE DEF first, second, n
<1>8. Len(first \o second) = front + n
  BY <1>3, <1>4, Joined
<1>9. i \in 1 .. (front + n)
  BY <1>7, <1>8
<1>10. CASE i <= front
  <2>1. i \in 1 .. Len(first)
    BY <1>1, <1>3, <1>10
  <2>2. (first \o second)[i] = first[i]
    BY <1>3, <1>4, <2>1, Joined
  <2> QED
    BY <1>3, <1>5, <1>7, <2>1, <2>2
<1>11. CASE ~(i <= front)
  <2> DEFINE k == i - front
  <2>1. k \in 1 .. n /\ i = front + k
    BY <1>1, <1>2, <1>9, <1>11
  <2> HIDE DEF k
  <2>2. (first \o second)[front + k] = second[k]
    BY <1>3, <1>4, <2>1, Joined
  <2> QED
    BY <1>6, <1>7, <2>1, <2>2
<1> QED
  BY <1>10, <1>11

LEMMA AfterWritingSmall ==
  ASSUME SInv, NEW n \in 0 .. Len(Rewritten)
  PROVE  SmallNotes(AfterWriting(n))
<1> DEFINE placed == {i \in 1 .. n : TRUE}
           last == Max({Len(file)} \cup {Place(i) : i \in placed})
           new(k) == {i \in placed : Place(i) = k}
           S == {Rewritten[i] : i \in 1 .. n}
           g == [k \in 1 .. last |-> IF new(k) = {} THEN At(file, k)
                                     ELSE Rewritten[CHOOSE i \in new(k) : TRUE]]
<1>1. IInv /\ SmallNotes(file) /\ n \in Nat /\ n <= Len(Rewritten)
  BY RewrittenType DEF SInv, RInv
<1>2. AfterWriting(n) = g
  BY DEF AfterWriting
<1> HIDE DEF last
<1>3. ASSUME NEW k \in Nat \ {0} PROVE At(g, k) \in S \cup {At(file, k), Hole}
  <2>1. CASE k <= Len(g)
    <3>1. g \in Seq(RecordType)
      BY <1>1, <1>2, AfterWritingFacts
    <3>2. k \in DOMAIN g
      <4> HIDE DEF g
      <4> QED
        BY <2>1, <3>1
    <3>3. k \in 1 .. last
      BY <3>2
    <3>4. At(g, k) = g[k]
      BY <2>1 DEF At
    <3>5. CASE new(k) = {}
      BY <3>3, <3>4, <3>5
    <3>6. CASE new(k) # {}
      <4>1. (CHOOSE i \in new(k) : TRUE) \in new(k)
        BY <3>6
      <4>2. (CHOOSE i \in new(k) : TRUE) \in 1 .. n
        BY <4>1
      <4> HIDE DEF new
      <4>3. g[k] = Rewritten[CHOOSE i \in new(k) : TRUE]
        BY <3>3, <3>6
      <4> HIDE DEF g
      <4> QED
        BY <3>4, <4>2, <4>3
    <3> QED
      BY <3>5, <3>6
  <2>2. CASE ~(k <= Len(g))
    BY <2>2 DEF At
  <2> QED
    BY <2>1, <2>2
<1>4. \A rec \in S : rec.note \in 0 .. Most
  <2>1. \A i \in 1 .. n : i \in 1 .. Len(Rewritten)
    BY <1>1, RewrittenType
  <2> QED
    BY <2>1, RewrittenSmall
<1> HIDE DEF g, S
<1>5. SmallNotes(g)
  BY <1>1, <1>3, <1>4, SmallRecord
<1> QED
  BY <1>2, <1>5

-----------------------------------------------------------------------------
(* Each step keeps to the sizes.                                           *)

LEMMA TextsJoined ==
  ASSUME NEW s \in Seq(Texts), NEW t \in Seq(Texts)
  PROVE  s \o t \in Seq(Texts) /\ Len(s \o t) = Len(s) + Len(t)
BY Joined

LEMMA SizesStart == Init => SInv
<1> SUFFICES ASSUME Init PROVE SInv
  OBVIOUS
<1>1. RInv
  BY InitLabelled
<1>2. PICK items \in NewLabels :
        /\ front = RecsFor(Len(items))
        /\ file = Records(items, front, 0) \o [n \in 1 .. NImage |-> Rec(<<"old">>, 0)]
  BY DEF Init
<1> DEFINE g == [n \in 1 .. NImage |-> Rec(<<"old">>, 0)]
           f == Records(items, front, 0)
<1>3. /\ items \in Seq(Texts) /\ front \in Nat \ {0} /\ NImage \in Nat
      /\ Len(items) <= MaxText /\ Len(items) \in Nat /\ MaxText \in Nat
      /\ Len(items) <= front * PerRec
  <2>1. items \in Seq(Texts) /\ front \in Nat \ {0}
    BY <1>2, NewLabelFacts
  <2> QED
    BY <1>2, <2>1, Sizes, LayoutIsSane, RecsCover
<1>4. front <= RecsFor(MaxText)
  BY <1>2, <1>3, RecsGrow
<1>5. f \in Seq(RecordType) /\ Len(f) = front
  BY <1>3, RecordsType
<1>6. g \in Seq(RecordType) /\ Len(g) = NImage /\ \A k \in 1 .. NImage : g[k] = Rec(<<"old">>, 0)
  <2>1. \A k \in 1 .. NImage : g[k] = Rec(<<"old">>, 0)
    OBVIOUS
  <2>2. g = [k \in 1 .. NImage |-> g[k]]
    OBVIOUS
  <2>3. Rec(<<"old">>, 0) \in RecordType
    BY LineType DEF Texts
  <2> HIDE DEF g
  <2> QED
    BY <1>3, <2>1, <2>2, <2>3, SeqIsAt
<1>7. \A k \in 1 .. front : f[k] = Rec(PartOf(items, k), 0)
  BY DEF Records
<1>8. file = f \o g
  BY <1>2
<1> HIDE DEF f, g
<1>9. /\ Len(file) = front + NImage
      /\ \A k \in 1 .. front : file[k] = f[k]
      /\ \A k \in 1 .. NImage : file[front + k] = g[k]
  <2>1. /\ Len(f \o g) = Len(f) + Len(g)
        /\ \A k \in 1 .. Len(f) : (f \o g)[k] = f[k]
        /\ \A k \in 1 .. Len(g) : (f \o g)[Len(f) + k] = g[k]
    <3>1. f \in Seq(RecordType) /\ g \in Seq(RecordType)
      BY <1>5, <1>6
    <3> QED
      BY ONLY <3>1, Joined
  <2> QED
    BY <1>5, <1>6, <1>8, <2>1
<1>10. SmallNotes(file)
  <2> SUFFICES ASSUME NEW k \in Nat \ {0}
               PROVE  At(file, k).note \in 0 .. Most
    BY DEF SmallNotes
  <2>1. 0 \in 0 .. Most
    BY MostFacts
  <2>2. CASE k <= front
    <3>1. At(file, k) = Rec(PartOf(items, k), 0)
      BY <1>3, <1>7, <1>9, <2>2 DEF At
    <3> QED
      BY <2>1, <3>1, RecFields
  <2>3. CASE k > front /\ k <= front + NImage
    <3> DEFINE m == k - front
    <3>1. m \in 1 .. NImage /\ k = front + m
      BY <1>3, <2>3
    <3> HIDE DEF m
    <3>2. At(file, k) = Rec(<<"old">>, 0)
      BY <1>6, <1>9, <2>3, <3>1 DEF At
    <3> QED
      BY <2>1, <3>2, RecFields
  <2>4. CASE k > front + NImage
    <3>1. At(file, k) = Hole
      BY <1>3, <1>9, <2>4 DEF At
    <3> QED
      BY <2>1, <3>1, RecFields DEF Hole
  <2> QED
    BY <1>3, <2>2, <2>3, <2>4
<1>11. op = "CLOSED" /\ labels = <<>> /\ eol_size = 0 /\ img_rec = 0 /\ modified = FALSE
  BY DEF Init
<1>12. Label = items
  <2>1. \A k \in 1 .. front : At(file, k) = Rec(PartOf(items, k), 0)
    BY <1>3, <1>7, <1>9 DEF At
  <2>2. \A k \in 1 .. front : At(file, k).text = PartOf(items, k)
    BY <2>1, RecFields
  <2>3. file \in Seq(RecordType) /\ file[1] = At(file, 1)
    BY <1>1, Basics
  <2>4. LabelIn(file, front, FALSE) = items
    BY <1>3, <2>2, <2>3, FrontLabel
  <2>5. file[1].note = 0
    <3>1. file[1] = Rec(PartOf(items, 1), 0)
      BY <1>3, <2>1, <2>3
    <3> QED
      BY <3>1, RecFields
  <2> DEFINE flag == file[1].note = 1
  <2>6. flag = FALSE
    BY <2>5
  <2>7. Stored = LabelIn(file, front, flag)
    BY DEF Stored
  <2> HIDE DEF flag
  <2>8. Stored = items
    BY <2>4, <2>6, <2>7
  <2> QED
    BY <1>1, <1>11, <2>8, LabelNow DEF LabelKnown
<1> QED
  <2>1. 0 <= NImage + 1 /\ 0 <= Most
    BY Sizes, MostFacts
  <2>2. Len(Label) <= MaxText
    BY <1>3, <1>12
  <2> QED
    BY <1>1, <1>4, <1>10, <1>11, <2>1, <2>2 DEF SInv

LEMMA OpenInputSizes ==
  ASSUME SInv, RInv', NEW mode \in {"READ", "UPDATE"}, NEW hist \in BOOLEAN,
         hist => mode = "UPDATE", OpenInput(mode, hist)
  PROVE  SInv'
<1>1. /\ op = "CLOSED" /\ op' = mode /\ img_rec' = 0 /\ UNCHANGED <<file, front>>
      /\ modified' = hist /\ Len(labels') <= MaxText
      /\ eol_size' \in {EolSize(eol'), 0} /\ eol' \in BOOLEAN
  BY DEF OpenInput
<1>2. eol_size' <= Most
  <2>1. EolSize(eol') \in 0 .. Most /\ Most \in Nat
    BY <1>1, EolSizeSmall, MostFacts
  <2> QED
    BY <1>1, <2>1
<1>3. Len(Label') <= MaxText
  <2>1. CASE hist
    <3>1. Label' = labels'
      BY <1>1, <2>1, LabelNext
    <3> QED
      BY <1>1, <3>1
  <2>2. CASE ~hist
    <3>1. Stored' = Stored
      BY <1>1 DEF Stored
    <3>2. Label' = Label
      BY <1>1, <2>2, <3>1, LabelNow, LabelNext DEF LabelKnown, SInv
    <3> QED
      BY <3>2 DEF SInv
  <2> QED
    BY <2>1, <2>2
<1>4. SmallNotes(file')
  BY <1>1 DEF SInv
<1>5. op' # "CLOSED" /\ img_rec' <= NImage + 1 /\ front' <= RecsFor(MaxText) /\ modified' \in BOOLEAN
  BY <1>1, Sizes DEF SInv
<1> QED
  BY <1>2, <1>3, <1>4, <1>5 DEF SInv, SmallNotes

LEMMA OpenOutputSizes ==
  ASSUME SInv, RInv', NEW items \in NewLabels, OpenOutput(items)
  PROVE  SInv'
<1> DEFINE n == RecsFor(Len(items))
           new == Records(items, n, 0)
           last == Max({Len(file), n})
           S == {new[k] : k \in 1 .. n}
<1>1. /\ op' = "WRITE" /\ img_rec' = 0 /\ eol_size' = 0 /\ modified' = FALSE /\ front' = n
      /\ file' = [k \in 1 .. last |-> IF k <= n THEN new[k] ELSE file[k]]
  BY DEF OpenOutput
<1>2. items \in Seq(Texts) /\ n \in Nat \ {0} /\ Len(items) <= MaxText /\ Len(items) \in Nat
  <2>1. items \in Seq(Texts) /\ n \in Nat \ {0}
    BY NewLabelFacts
  <2> QED
    BY <2>1, LayoutIsSane
<1>3. front' <= RecsFor(MaxText)
  BY <1>1, <1>2, Sizes, RecsGrow
<1>4. \A rec \in S : rec.note \in 0 .. Most
  <2>1. 0 \in 0 .. Most
    BY MostFacts
  <2>2. \A k \in 1 .. n : new[k].note \in 0 .. Most
    <3> HIDE DEF n
    <3> QED
      BY <1>2, <2>1, RecordsNotes
  <2> HIDE DEF new, n
  <2> QED
    BY <2>2
<1>5. file' \in Seq(RecordType) /\ file \in Seq(RecordType)
  BY DEF SInv, RInv, IInv
<1> HIDE DEF n, new
<1>6. last \in Nat /\ last >= Len(file)
  <2> DEFINE a == Len(file)
             T == {a, n}
  <2>1. a \in Nat /\ a \in Int /\ n \in Int
    BY <1>2, <1>5
  <2> HIDE DEF a
  <2>2. T = {a, n}
    OBVIOUS
  <2> HIDE DEF T
  <2>3. Max(T) \in {a, n} /\ Max(T) >= a
    BY <2>1, <2>2, MaxOfTwo
  <2> QED
    BY <1>2, <2>1, <2>3 DEF T, a
<1> HIDE DEF last
<1>7. DOMAIN file' = 1 .. last /\ Len(file') = last
  BY <1>1, <1>5, <1>6
<1>8. ASSUME NEW k \in Nat \ {0} PROVE At(file', k) \in S \cup {At(file, k), Hole}
  <2>1. CASE k <= last /\ k <= n
    <3>1. At(file', k) = new[k] /\ k \in 1 .. n
      BY <1>1, <1>2, <1>6, <1>7, <2>1 DEF At
    <3> QED
      BY <3>1
  <2>2. CASE k <= last /\ ~(k <= n) /\ k <= Len(file)
    BY <1>1, <1>6, <1>7, <2>2 DEF At
  <2>3. CASE k <= last /\ ~(k <= n) /\ ~(k <= Len(file))
    <3>1. last \in {Len(file), n}
      <4>1. Len(file) \in Int /\ n \in Int
        BY <1>2, <1>5
      <4> DEFINE a == Len(file)
                 T == {a, n}
      <4>2. T = {a, n} /\ a \in Int
        BY <4>1
      <4> HIDE DEF T
      <4>3. Max(T) \in {a, n}
        <5> HIDE DEF a
        <5> QED
          BY <4>1, <4>2, MaxOfTwo
      <4> QED
        BY <4>3 DEF T, last
    <3>2. Len(file) \in Nat
      BY <1>5
    <3> QED
      BY <1>2, <2>3, <3>1, <3>2
  <2>4. CASE ~(k <= last)
    BY <1>7, <2>4 DEF At
  <2> QED
    BY <2>1, <2>2, <2>3, <2>4
<1> HIDE DEF S
<1>9. SmallNotes(file')
  <2>1. SmallNotes(file)
    BY DEF SInv
  <2> QED
    BY <1>4, <1>8, <2>1, SmallRecord
<1>10. Len(Label') <= MaxText
  <2>1. LabelIn(file', front', FALSE) = items /\ file'[1].note = 0
    BY OpenOutputFile DEF SInv
  <2> DEFINE flag == file'[1].note = 1
  <2>2. flag = FALSE
    BY <2>1
  <2>3. Stored' = LabelIn(file', front', flag)
    BY DEF Stored
  <2> HIDE DEF flag
  <2>4. Label' = items
    BY <1>1, <2>1, <2>2, <2>3, LabelNext
  <2> QED
    BY <1>2, <2>4
<1>11. op' # "CLOSED" /\ img_rec' <= NImage + 1 /\ eol_size' <= Most /\ modified' \in BOOLEAN
  <2>1. op' = "WRITE" /\ img_rec' = 0 /\ eol_size' = 0 /\ modified' = FALSE
    BY <1>1
  <2>2. 0 <= NImage + 1 /\ 0 <= Most
    BY Sizes, MostFacts
  <2> QED
    BY <2>1, <2>2
<1> QED
  BY <1>3, <1>9, <1>10, <1>11 DEF SInv, SmallNotes

(* A call that leaves the file as it is, and makes the label another.      *)
LEMMA LabelSizes ==
  ASSUME SInv, RInv', UNCHANGED <<file, front, img_rec>>, op # "CLOSED", op' = op,
         eol_size' \in {eol_size, EolSize(eol)}, Len(Label') <= MaxText, modified' \in BOOLEAN
  PROVE  SInv'
<1>1. eol_size' <= Most
  <2>1. EolSize(eol) \in 0 .. Most /\ Most \in Nat
    BY EolSizeSmall, MostFacts DEF SInv, RInv
  <2> QED
    BY <2>1 DEF SInv
<1> QED
  BY <1>1 DEF SInv, SmallNotes

LEMMA EditSizes ==
  ASSUME Harmless, SInv, NEW text \in Seq(Texts), text # <<>>, Len(text) <= MaxText, Edited(text)
  PROVE  SInv'
<1>1. RInv'
  BY EditedKeeps DEF SInv
<1>2. Label' = text /\ op \in {"WRITE", "UPDATE"} /\ op' = op
  BY <1>1, EditedRefines DEF SInv
<1>3. UNCHANGED <<file, front, img_rec>> /\ eol_size' \in {eol_size, EolSize(eol)}
  BY DEF Edited
<1>4. op # "CLOSED" /\ Len(Label') <= MaxText /\ modified' \in BOOLEAN
  BY <1>2 DEF Edited
<1> QED
  BY <1>1, <1>2, <1>3, <1>4, LabelSizes

(* The edits make the label longer or shorter by one.                      *)
LEMMA EditLengths ==
  ASSUME NEW s \in Seq(Texts), NEW k \in Nat \ {0}
  PROVE  /\ \A name \in Names : k <= Len(s) + 1 => Len(InsertAt(s, k, name)) = Len(s) + 1
         /\ k <= Len(s) => Len(RemoveAt(s, k)) = Len(s) - 1
<1>1. ASSUME NEW name \in Names, k <= Len(s) + 1 PROVE Len(InsertAt(s, k, name)) = Len(s) + 1
  <2> DEFINE head == SubSeq(s, 1, k - 1)
             end == SubSeq(s, k, Len(s))
  <2>1. /\ head \in Seq(Texts) /\ Len(head) = k - 1
        /\ end \in Seq(Texts) /\ Len(end) = Len(s) - k + 1 /\ Len(s) \in Nat
    BY <1>1, SubSeqProperties
  <2>2. InsertAt(s, k, name) = (head \o <<name>>) \o end
    BY DEF InsertAt
  <2> HIDE DEF head, end
  <2>3. <<name>> \in Seq(Texts) /\ Len(<<name>>) = 1
    BY DEF Texts
  <2>4. head \o <<name>> \in Seq(Texts) /\ Len(head \o <<name>>) = k
    <3>1. Len(head \o <<name>>) = (k - 1) + 1
      BY <2>1, <2>3, TextsJoined
    <3> QED
      BY <2>1, <2>3, <3>1, TextsJoined
  <2>5. Len((head \o <<name>>) \o end) = k + (Len(s) - k + 1)
    <3> DEFINE t == head \o <<name>>
    <3>1. t \in Seq(Texts) /\ Len(t) = k
      BY <2>4
    <3> HIDE DEF t
    <3>2. Len(t \o end) = Len(t) + Len(end)
      BY <2>1, <3>1, TextsJoined
    <3> QED
      BY <2>1, <3>1, <3>2 DEF t
  <2> QED
    BY <2>1, <2>2, <2>5
<1>2. ASSUME k <= Len(s) PROVE Len(RemoveAt(s, k)) = Len(s) - 1
  <2> DEFINE head == SubSeq(s, 1, k - 1)
             end == SubSeq(s, k + 1, Len(s))
  <2>1. /\ head \in Seq(Texts) /\ Len(head) = k - 1
        /\ end \in Seq(Texts) /\ Len(end) = Len(s) - k /\ Len(s) \in Nat
    BY <1>2, SubSeqProperties
  <2>2. RemoveAt(s, k) = head \o end
    BY DEF RemoveAt
  <2> HIDE DEF head, end
  <2>3. Len(head \o end) = (k - 1) + (Len(s) - k)
    <3>1. Len(head \o end) = Len(head) + Len(end)
      BY <2>1, TextsJoined
    <3> QED
      BY <2>1, <3>1
  <2> QED
    BY <2>1, <2>2, <2>3
<1> QED
  BY <1>1, <1>2

(* A call that keeps the label and the numbers of the unit.                *)
LEMMA LineSizes ==
  ASSUME SInv, RInv', Label' = Label, UNCHANGED <<front, unit>>, op # "CLOSED",
         SmallNotes(file'), img_rec' <= NImage + 1
  PROVE  SInv'
BY DEF SInv, SmallNotes, unit

LEMMA ReturnSizes ==
  ASSUME SInv, RInv', Label' = Label, UNCHANGED <<file, front, unit, img_rec>>
  PROVE  SInv'
BY DEF SInv, SmallNotes, unit

LEMMA WriteLineSizes ==
  ASSUME Harmless, SInv, NEW slice \in Slices, NEW d \in Data, WriteLine(slice, d)
  PROVE  SInv'
<1> DEFINE n == Named(slice, IF op = "UPDATE" THEN img_rec ELSE img_rec + 1)
           r == front + n
           rec == Rec(<<d>>, 0)
           written == Put(file, r, rec)
<1>1. RInv' /\ Label' = Label
  BY WriteLineKeeps DEF SInv
<1>2. CASE UNCHANGED <<file, front, unit, img_rec>>
  BY <1>1, <1>2, ReturnSizes
<1>3. CASE ~UNCHANGED <<file, front, unit, img_rec>>
  <2>1. /\ UNCHANGED <<front, unit>> /\ file' \in {file, written} /\ n <= NImage + 1
        /\ img_rec' = n /\ n > 0 /\ op # "CLOSED"
    BY <1>3 DEF WriteLine, Return, Harmless
  <2>2. n \in Nat
    <3>1. (IF op = "UPDATE" THEN img_rec ELSE img_rec + 1) \in Nat
      BY Basics DEF SInv
    <3> QED
      BY <3>1, NamedType
  <2> HIDE DEF n
  <2>3. r \in Nat \ {0} /\ file \in Seq(RecordType) /\ SmallNotes(file)
    BY <2>2, Basics DEF SInv
  <2>4. rec \in RecordType /\ rec.note = 0
    <3>1. d \in Texts
      BY DEF Texts
    <3> QED
      BY <3>1, LineType, RecFields
  <2> HIDE DEF rec, r
  <2>5. At(written, r) = rec /\ \A k \in (Nat \ {0}) \ {r} : At(written, k) = At(file, k)
    BY <2>3, <2>4, PutFacts
  <2> HIDE DEF written
  <2>6. \A k \in Nat \ {0} : At(written, k) \in {rec} \cup {At(file, k), Hole}
    BY <2>5
  <2>7. \A x \in {rec} : x.note \in 0 .. Most
    BY <2>4, MostFacts
  <2>8. SmallNotes(written)
    BY <2>3, <2>6, <2>7, SmallRecord
  <2>9. SmallNotes(file')
    BY <2>1, <2>3, <2>8
  <2> QED
    BY <1>1, <2>1, <2>9, LineSizes
<1> QED
  BY <1>2, <1>3

(* The end of a close.                                                     *)
LEMMA EndSizes ==
  ASSUME SInv, RInv', Label' = Label, Ended, SmallNotes(file')
  PROVE  SInv'
<1>1. front' = front /\ img_rec' = 0 /\ eol_size' = 0 /\ labels' = <<>> /\ modified' = FALSE
  BY DEF Ended
<1>2. 0 <= NImage + 1 /\ 0 <= Most
  BY Sizes, MostFacts
<1> QED
  BY <1>1, <1>2 DEF SInv, SmallNotes

LEMMA CloseSizes ==
  ASSUME SInv, CloseOnly \/ CloseAndRewrite
  PROVE  SInv'
<1>1. RInv' /\ Label' = Label
  BY CloseOnlyKeeps, CloseAndRewriteKeeps DEF SInv
<1>2. Ended
  BY DEF CloseOnly, CloseAndRewrite
<1>3. file \in Seq(RecordType) /\ SmallNotes(file) /\ eol_size \in Nat /\ front \in Nat /\ NImage \in Nat
  BY Basics, Sizes DEF SInv
<1>4. CASE CloseOnly
  <2>1. FinalSize(eol_size) \in Nat
    BY <1>3 DEF FinalSize
  <2>2. SmallNotes(Truncated(file, FinalSize(eol_size)))
    BY <1>3, <2>1, TruncatedSmall
  <2>3. SmallNotes(file')
    BY <1>3, <1>4, <2>2 DEF CloseOnly
  <2> QED
    BY <1>1, <1>2, <2>3, EndSizes
<1>5. CASE CloseAndRewrite
  <2> DEFINE all == AfterWriting(Len(Rewritten))
             eols == IF Splits THEN EolRecs ELSE eol_size
  <2>1. Len(Rewritten) \in 0 .. Len(Rewritten) /\ eols \in Nat
    BY <1>3, RewrittenType DEF SInv, RInv
  <2>2. all \in Seq(RecordType) /\ SmallNotes(all)
    BY <2>1, AfterWritingFacts, AfterWritingSmall DEF SInv, RInv
  <2>3. FinalSize(eols) \in Nat
    BY <1>3, <2>1 DEF FinalSize
  <2> HIDE DEF all
  <2>4. SmallNotes(Truncated(all, FinalSize(eols)))
    BY <2>2, <2>3, TruncatedSmall
  <2>5. SmallNotes(file')
    BY <1>5, <2>4 DEF CloseAndRewrite, all
  <2> QED
    BY <1>1, <1>2, <2>5, EndSizes
<1> QED
  BY <1>4, <1>5

LEMMA RewriteFailsSizes ==
  ASSUME Harmless, SInv, RewriteFails
  PROVE  SInv'
<1>1. RInv' /\ Label' = Label
  BY RewriteFailsKeeps DEF SInv
<1>2. PICK n \in 0 .. (Len(Rewritten) - 1) :
        /\ file' \in {AfterWriting(n), AfterWriting(n + 1)}
        /\ eol_size' = IF n >= front THEN EolRecs ELSE eol_size
  BY DEF RewriteFails
<1>3. n \in 0 .. Len(Rewritten) /\ n + 1 \in 0 .. Len(Rewritten)
  BY RewrittenType DEF SInv, RInv
<1>4. SmallNotes(file')
  BY <1>2, <1>3, AfterWritingSmall
<1>5. eol_size' <= Most
  <2>1. EolRecs \in 0 .. Most /\ Most \in Nat
    BY EolRecsSmall, MostFacts
  <2> QED
    BY <1>2, <2>1 DEF SInv
<1>6. UNCHANGED <<front, op, modified, img_rec>> /\ op # "CLOSED"
  BY DEF RewriteFails, Failed, Rewrites
<1> QED
  BY <1>1, <1>4, <1>5, <1>6 DEF SInv, SmallNotes

LEMMA NextSizes ==
  ASSUME Harmless, SInv, [Next]_vars
  PROVE  SInv'
<1>1. RInv /\ RInv'
  BY NextLabelled DEF SInv
<1>2. ASSUME NEW mode \in {"READ", "UPDATE"}, NEW hist \in BOOLEAN,
             hist => mode = "UPDATE", OpenInput(mode, hist)
      PROVE  SInv'
  BY <1>1, <1>2, OpenInputSizes
<1>3. CASE \E items \in NewLabels : OpenOutput(items)
  BY <1>1, <1>3, OpenOutputSizes
<1>4. CASE LabelLook
  <2>1. /\ UNCHANGED <<file, front, op, modified, img_rec>> /\ op # "CLOSED" /\ labels = <<>>
        /\ eol_size' = EolSize(eol)
    BY <1>4 DEF LabelLook
  <2>2. ~modified
    BY <1>1, <2>1 DEF RInv
  <2>3. Label' = Label
    BY <1>1, <2>1, <2>2, LabelNow, LabelNext DEF LabelKnown, Stored
  <2>4. Len(Label') <= MaxText
    BY <2>3 DEF SInv
  <2> QED
    BY <1>1, <2>1, <2>4, LabelSizes DEF SInv
<1>5. ASSUME NEW name \in Names, NEW k \in 2 .. (Len(InMemory) + 1), LabelAdd(k, name)
      PROVE  SInv'
  <2> DEFINE text == InsertAt(InMemory, k, name)
  <2>1. InMemory \in Seq(Texts) /\ Len(InMemory) \in Nat
    BY <1>1, InMemoryType DEF RInv
  <2>2. text \in Seq(Texts) /\ text # <<>>
    BY <2>1, InsertedType
  <2>3. Len(text) = Len(InMemory) + 1
    <3>1. k \in Nat \ {0} /\ k <= Len(InMemory) + 1
      BY <2>1
    <3> QED
      BY <2>1, <3>1, EditLengths
  <2>4. Edited(text) /\ Len(InMemory) < MaxText
    BY <1>5 DEF LabelAdd
  <2> HIDE DEF text
  <2>5. Len(text) <= MaxText
    BY <2>1, <2>3, <2>4, Sizes
  <2> QED
    BY <2>2, <2>4, <2>5, EditSizes
<1>6. ASSUME NEW k \in 2 .. Len(InMemory), LabelDelete(k)
      PROVE  SInv'
  <2> DEFINE text == RemoveAt(InMemory, k)
  <2>1. InMemory \in Seq(Texts) /\ Len(InMemory) \in Nat
    BY <1>1, InMemoryType DEF RInv
  <2>2. text \in Seq(Texts) /\ text # <<>>
    BY <2>1, RemovedType
  <2>3. Len(text) = Len(InMemory) - 1
    <3>1. k \in Nat \ {0} /\ k <= Len(InMemory)
      BY <2>1
    <3> QED
      BY <2>1, <3>1, EditLengths
  <2>4. Edited(text)
    BY <1>6 DEF LabelDelete
  <2>5. Len(InMemory) <= MaxText
    <3>1. op # "CLOSED"
      BY <2>4 DEF Edited
    <3>2. Label = InMemory
      BY <3>1 DEF Label
    <3> QED
      BY <3>2 DEF SInv
  <2> HIDE DEF text
  <2>6. Len(text) <= MaxText
    BY <2>1, <2>3, <2>5, Sizes
  <2> QED
    BY <2>2, <2>4, <2>6, EditSizes
<1>7. ASSUME NEW slice \in Slices, ReadLine(slice)
      PROVE  SInv'
  <2> DEFINE n == Named(slice, img_rec + 1)
  <2>1. UNCHANGED <<file, front, unit>> /\ op # "CLOSED"
    BY <1>7 DEF ReadLine, Return
  <2>2. Label' = Label
    BY <1>1, <2>1, NothingKeeps DEF RInv
  <2>3. img_rec' <= NImage + 1
    <3>1. img_rec + 1 \in Nat
      BY <1>1, Basics
    <3>2. n \in Nat
      BY <3>1, NamedType
    <3>3. img_rec' = img_rec \/ (img_rec' = n /\ ~PastEnd(n))
      BY <1>7 DEF ReadLine, Return
    <3> HIDE DEF n
    <3>4. ~PastEnd(n) => n <= NImage
      BY <3>2, Sizes DEF PastEnd
    <3> QED
      BY <3>2, <3>3, <3>4, Sizes DEF SInv
  <2>4. SmallNotes(file')
    BY <2>1 DEF SInv
  <2> QED
    BY <1>1, <2>1, <2>2, <2>3, <2>4, LineSizes
<1>8. CASE \E slice \in Slices, d \in Data : WriteLine(slice, d)
  BY <1>8, WriteLineSizes
<1>9. CASE CloseOnly \/ CloseAndRewrite
  BY <1>9, CloseSizes
<1>10. CASE RewriteFails
  BY <1>10, RewriteFailsSizes
<1>11. CASE CloseFails
  <2>1. ~Rewrites
    BY <1>11 DEF CloseFails, Harmless
  <2>2. UNCHANGED <<file, front, unit, img_rec>>
    BY <1>11, <2>1 DEF CloseFails, Failed, unit
  <2>3. Label' = Label
    BY <1>1, <2>2, NothingKeeps DEF RInv
  <2> QED
    BY <1>1, <2>2, <2>3, ReturnSizes
<1>12. CASE UNCHANGED vars
  <2>1. UNCHANGED <<file, front, unit, img_rec>>
    BY <1>12 DEF vars
  <2>2. Label' = Label
    BY <1>1, <2>1, NothingKeeps DEF RInv
  <2> QED
    BY <1>1, <2>1, <2>2, ReturnSizes
<1>13. CASE (\E mode \in {"READ", "UPDATE"} : OpenInput(mode, FALSE)) \/ OpenInput("UPDATE", TRUE)
  BY <1>2, <1>13
<1>14. CASE \E name \in Names, k \in 2 .. (Len(InMemory) + 1) : LabelAdd(k, name)
  BY <1>5, <1>14
<1>15. CASE \E k \in 2 .. Len(InMemory) : LabelDelete(k)
  BY <1>6, <1>15
<1>16. CASE \E slice \in Slices : ReadLine(slice)
  BY <1>7, <1>16
<1> QED
  BY <1>3, <1>4, <1>8, <1>9, <1>10, <1>11, <1>12, <1>13, <1>14, <1>15, <1>16 DEF Next

LEMMA SizesFit == SInv => TypeOK
<1> SUFFICES ASSUME SInv PROVE TypeOK
  OBVIOUS
<1>1. IInv /\ RInv
  BY DEF SInv, RInv
<1>2. front \in 1 .. RecsFor(MaxText) /\ eol_size \in 0 .. RecsFor(MaxText + 1)
  BY <1>1, MostFacts DEF SInv, IInv, Most
<1>3. img_rec \in 0 .. (NImage + 1)
  BY <1>1, Sizes DEF SInv, IInv
<1>4. labels \in Seq(Texts) /\ Len(labels) <= MaxText
  BY LabelLength
<1>5. ASSUME NEW k \in DOMAIN file
      PROVE  /\ file[k].text \in Seq(Texts) /\ Len(file[k].text) <= PerRec
             /\ file[k].note \in 0 .. RecsFor(MaxText + 1)
  <2>1. file \in Seq(RecordType)
    BY <1>1 DEF IInv
  <2>2. k \in Nat \ {0} /\ k <= Len(file) /\ file[k] \in RecordType
    BY <2>1
  <2>3. At(file, k) = file[k]
    BY <2>2 DEF At
  <2>4. file[k].note \in 0 .. Most
    BY <2>2, <2>3 DEF SInv, SmallNotes
  <2> QED
    BY <2>2, <2>4 DEF RecordType, Most
<1>6. op \in {"CLOSED", "READ", "WRITE", "UPDATE"} /\ eol \in BOOLEAN /\ modified \in BOOLEAN
  BY <1>1 DEF SInv, RInv, IInv
<1> QED
  BY <1>2, <1>3, <1>4, <1>5, <1>6 DEF TypeOK

(* As long as only those calls fail that are known to lose nothing, a text *)
(* fits its record, a label in memory and in the file's two parts has no   *)
(* more items than it was given, and the number that v2_get_eol_size finds *)
(* behind the image is of as many records as such a label can need:        *)
(* v2_check_out_lbl_on_close never writes another.                         *)
THEOREM TypeCorrect ==
  ASSUME Harmless
  PROVE  Spec => []TypeOK
<1>1. SInv /\ [Next]_vars => SInv'
  BY NextSizes
<1> QED
  BY <1>1, SizesStart, SizesFit, PTL DEF Spec
=============================================================================
