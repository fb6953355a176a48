------------------------ MODULE PixelTransferProofs -------------------------
(***************************************************************************)
(* PixelTransfer is right for records, pixels and prefixes of every size,  *)
(* and every way to cut a record in two.                                   *)
(***************************************************************************)
EXTENDS PixelTransfer, FiniteSetTheorems, TLAPS

-----------------------------------------------------------------------------
(* Numbers.                                                                *)

LEMMA DivMod ==
  ASSUME NEW n \in Nat, NEW d \in Nat \ {0}
  PROVE  /\ n \div d \in Nat
         /\ n % d \in 0 .. (d - 1)
         /\ n = d * (n \div d) + (n % d)
OBVIOUS

LEMMA MulMono ==
  ASSUME NEW a \in Int, NEW b \in Int, NEW d \in Nat, a <= b
  PROVE  a * d <= b * d
OBVIOUS

LEMMA MulGap ==
  ASSUME NEW a \in Int, NEW b \in Int, NEW d \in Nat, a < b
  PROVE  a * d + d <= b * d
<1>1. (a + 1) * d <= b * d
  BY MulMono
<1>2. (a + 1) * d = a * d + d
  OBVIOUS
<1> QED
  BY <1>1, <1>2

LEMMA MulSums ==
  ASSUME NEW a \in Int, NEW b \in Int, NEW d \in Nat
  PROVE  /\ a * d \in Int
         /\ (a + b) * d = a * d + b * d
         /\ (a - b) * d = a * d - b * d
         /\ (-a) * d = -(a * d)
         /\ d * a = a * d
         /\ a \in Nat => a * d \in Nat
OBVIOUS

(* Bytes of a pixel, and bytes before it, determine each other.            *)
LEMMA PlaceIsUnique ==
  ASSUME NEW a \in Int, NEW b \in Int, NEW d \in Nat \ {0},
         NEW x \in 0 .. (d - 1), NEW y \in 0 .. (d - 1), a * d + x = b * d + y
  PROVE  a = b /\ x = y
<1>1. ~(a < b)
  BY MulGap, MulSums
<1>2. ~(b < a)
  BY MulGap, MulSums
<1> QED
  BY <1>1, <1>2

LEMMA Division ==
  ASSUME NEW q \in Nat, NEW d \in Nat \ {0}, NEW r \in 0 .. (d - 1)
  PROVE  (q * d + r) \div d = q /\ (q * d + r) % d = r
<1> DEFINE n == q * d + r
           k == n \div d
           m == n % d
<1>1. n \in Nat
  BY MulSums
<1>2. k \in Nat /\ m \in 0 .. (d - 1) /\ n = d * k + m
  BY <1>1, DivMod
<1> HIDE DEF k, m
<1>3. q * d + r = k * d + m
  BY <1>2, MulSums
<1>4. q = k /\ r = m
  BY <1>2, <1>3, PlaceIsUnique
<1> QED
  BY <1>4 DEF k, m

(* What is left of a quotient rounded towards zero: the sign of the whole. *)
Remains(q, y, d) ==
  \/ q >= 0 /\ 0 <= y /\ y < d
  \/ q <= 0 /\ -d < y /\ y <= 0

LEMMA QuotRem ==
  ASSUME NEW q \in Int, NEW d \in Nat \ {0}, NEW y \in Int, Remains(q, y, d)
  PROVE  Quot(q * d + y, d) = q /\ Rem(q * d + y, d) = y
<1> DEFINE v == q * d + y
<1>1. v \in Int /\ q * d \in Int
  BY MulSums
<1>2. Quot(v, d) = q
  <2>1. CASE q >= 0 /\ 0 <= y /\ y < d
    <3>1. v >= 0
      BY <2>1, <1>1, MulSums
    <3>2. v \div d = q
      BY <2>1, Division
    <3> QED
      BY <3>1, <3>2 DEF Quot
  <2>2. CASE q <= 0 /\ -d < y /\ y <= 0
    <3>1. (-q) * d = -(q * d) /\ -q \in Nat /\ -y \in 0 .. (d - 1) /\ (-q) * d \in Nat
      BY <2>2, MulSums
    <3>2. -v = (-q) * d + (-y)
      BY <3>1
    <3>3. (-v) \div d = -q
      <4> HIDE DEF v
      <4>1. ((-q) * d + (-y)) \div d = -q
        BY <3>1, Division
      <4> QED
        BY <4>1, <3>2
    <3>4. CASE v >= 0
      <4>1. (-q) * d = 0 /\ y = 0 /\ v = 0
        BY <3>4, <3>1, <3>2, <2>2, <1>1
      <4>2. q = 0
        <5>1. ~(0 < -q)
          BY <4>1, <3>1, MulGap
        <5> QED
          BY <5>1, <3>1
      <4>3. 0 \div d = 0
        OBVIOUS
      <4> QED
        BY <4>1, <4>2, <4>3, <3>4 DEF Quot
    <3>5. CASE ~(v >= 0)
      <4> HIDE DEF v
      <4> QED
        BY <3>5, <3>3, <1>1 DEF Quot
    <3> QED
      BY <3>4, <3>5
  <2> QED
    BY <2>1, <2>2 DEF Remains
<1>3. Rem(v, d) = v - d * q
  BY <1>2 DEF Rem
<1>4. d * q = q * d
  BY MulSums
<1> QED
  BY <1>1, <1>2, <1>3, <1>4

LEMMA RoundsUp ==
  ASSUME NEW a \in Nat, NEW d \in Nat \ {0}, NEW x \in 0 .. (d - 1), x <= a * d
  PROVE  Ceiling(a * d - x, d) = a
<1>1. Ceiling(a * d - x, d) = (a * d - x + d - 1) \div d
  BY DEF Ceiling
<1>2. a * d - x + d - 1 = a * d + (d - 1 - x) /\ d - 1 - x \in 0 .. (d - 1)
  BY MulSums
<1> QED
  BY <1>1, <1>2, Division

(* How far into its pixel a buffer starts, when x bytes of it are there.   *)
LEMMA CutBytes ==
  ASSUME NEW a \in Nat, NEW d \in Nat \ {0}, NEW x \in 0 .. (d - 1), x <= a * d
  PROVE  (a * d - x) % d = IF x = 0 THEN 0 ELSE d - x
<1>1. CASE x = 0
  <2>1. (a * d + 0) % d = 0
    BY Division
  <2> QED
    BY <1>1, <2>1, MulSums
<1>2. CASE x # 0
  <2>1. a # 0
    BY <1>2, MulSums
  <2>2. a - 1 \in Nat /\ d - x \in 0 .. (d - 1)
    BY <1>2, <2>1
  <2>3. a * d - x = (a - 1) * d + (d - x)
    BY MulSums
  <2> DEFINE q == a - 1
             r == d - x
  <2> HIDE DEF q, r
  <2>4. (q * d + r) % d = r
    BY <2>2, Division DEF q, r
  <2> QED
    BY <1>2, <2>3, <2>4 DEF q, r
<1> QED
  BY <1>1, <1>2

-----------------------------------------------------------------------------
(* What a buffer holds of a record: the pixels from the a-th and before    *)
(* the b-th, x bytes of the pixel before them and y of the pixel after     *)
(* them; y is less than 0 if the buffer ends in the prefix.                *)
Side(pos, len, nbb, d, a, b, x, y) ==
  /\ pos \in Nat /\ len \in Nat /\ nbb \in Nat /\ d \in Nat \ {0}
  /\ a \in Nat /\ x \in Nat /\ b \in Int /\ y \in Int
  /\ \/ pos <= nbb /\ a = 0 /\ x = 0
     \/ pos > nbb /\ x < d /\ pos + x = nbb + a * d
  /\ pos + len = nbb + b * d + y
  /\ \/ a <= b /\ 0 <= y /\ x + y < d
     \/ b <= 0 /\ -d < y /\ y <= 0 /\ pos <= nbb

LEMMA SideFirst ==
  ASSUME NEW pos, NEW len, NEW nbb, NEW d, NEW a, NEW b, NEW x, NEW y,
         Side(pos, len, nbb, d, a, b, x, y)
  PROVE  /\ Ceiling(MaxOf(pos - nbb, 0), d) = a
         /\ MaxOf(pos - nbb, 0) % d = (IF x = 0 THEN 0 ELSE d - x)
         /\ MaxOf(pos - nbb, 0) = a * d - x
         /\ x < d /\ x <= a * d
<1> USE DEF Side
<1>1. MaxOf(pos - nbb, 0) = a * d - x /\ x < d /\ x <= a * d
  <2>1. CASE pos <= nbb
    <3>1. a * d = 0
      BY <2>1
    <3> QED
      BY <2>1, <3>1 DEF MaxOf
  <2>2. CASE pos > nbb
    BY <2>2, MulSums DEF MaxOf
  <2> QED
    BY <2>1, <2>2
<1>2. x \in 0 .. (d - 1) /\ a \in Nat /\ d \in Nat \ {0}
  BY <1>1
<1> HIDE DEF Side
<1>3. Ceiling(a * d - x, d) = a
  BY <1>1, <1>2, RoundsUp
<1>4. (a * d - x) % d = (IF x = 0 THEN 0 ELSE d - x)
  BY <1>1, <1>2, CutBytes
<1> QED
  BY <1>1, <1>3, <1>4

LEMMA SideLast ==
  ASSUME NEW pos, NEW len, NEW nbb, NEW d, NEW a, NEW b, NEW x, NEW y,
         Side(pos, len, nbb, d, a, b, x, y)
  PROVE  /\ Quot(len - MaxOf(nbb - pos, 0), d) = b - a
         /\ Rem(len - MaxOf(nbb - pos, 0) - x, d) = y
<1>1. /\ pos \in Nat /\ len \in Nat /\ nbb \in Nat /\ d \in Nat \ {0}
      /\ a \in Nat /\ x \in Nat /\ b \in Int /\ y \in Int
      /\ pos + len = nbb + b * d + y
      /\ pos <= nbb => a = 0 /\ x = 0
      /\ pos > nbb => a <= b /\ 0 <= y
      /\ \/ a <= b /\ 0 <= y /\ x + y < d
         \/ b <= 0 /\ a = 0 /\ x = 0 /\ -d < y /\ y <= 0
  BY DEF Side
<1> DEFINE rest == len - MaxOf(nbb - pos, 0)
<1>2. (b - a) * d = b * d - a * d /\ a * d \in Nat /\ b * d \in Int
  BY <1>1, MulSums
<1>3. rest = (b - a) * d + (x + y)
  <2>1. MaxOf(pos - nbb, 0) = a * d - x
    BY SideFirst
  <2>2. MaxOf(nbb - pos, 0) - MaxOf(pos - nbb, 0) = nbb - pos
    BY <1>1 DEF MaxOf
  <2>3. MaxOf(nbb - pos, 0) \in Int
    BY <1>1 DEF MaxOf
  <2> QED
    BY <1>1, <1>2, <2>1, <2>2, <2>3
<1> HIDE DEF rest
<1>4. Remains(b - a, x + y, d) /\ Remains(b - a, y, d)
  BY <1>1 DEF Remains
<1>5. b - a \in Int /\ x + y \in Int
  BY <1>1
<1>6. Quot((b - a) * d + (x + y), d) = b - a
  BY <1>1, <1>4, <1>5, QuotRem
<1>7. Rem((b - a) * d + y, d) = y
  BY <1>1, <1>4, <1>5, QuotRem
<1>8. rest - x = (b - a) * d + y
  <2>1. (b - a) * d \in Int
    BY <1>5, <1>1, MulSums
  <2> QED
    BY <1>1, <1>3, <2>1
<1> QED
  BY <1>3, <1>6, <1>7, <1>8 DEF rest

(* Where v2_movetrans finds things.                                        *)
Bounds(s, d, t, sa, sb, sx, sy, da, db, dx, dy) ==
  /\ Side(s.pos, s.len, t.notrans, t.spix, sa, sb, sx, sy)
  /\ Side(d.pos, d.len, t.notrans, t.dpix, da, db, dx, dy)

LEMMA GeometryIs ==
  ASSUME NEW s, NEW d, NEW t,
         NEW sa, NEW sb, NEW sx, NEW sy, NEW da, NEW db, NEW dx, NEW dy,
         Bounds(s, d, t, sa, sb, sx, sy, da, db, dx, dy)
  PROVE  LET start == MaxOf(sa, da)
             end   == MinOf(sb, db)
         IN  Geometry(s, d, t) =
               [len       |-> end - start,
                sstart    |-> start * t.spix + t.notrans - s.pos,
                dstart    |-> start * t.dpix + t.notrans - d.pos,
                slength   |-> (end - start) * t.spix,
                dlength   |-> (end - start) * t.dpix,
                extrasst  |-> sx,
                extradst  |-> dx,
                extrasend |-> sy,
                extradend |-> dy]
<1> DEFINE sPrefix == MaxOf(t.notrans - s.pos, 0)
           dPrefix == MaxOf(t.notrans - d.pos, 0)
           sFirst  == Ceiling(MaxOf(s.pos - t.notrans, 0), t.spix)
           dFirst  == Ceiling(MaxOf(d.pos - t.notrans, 0), t.dpix)
           sCut    == CutBefore(s.pos, t.spix, t)
           dCut    == CutBefore(d.pos, t.dpix, t)
           sStart  == IF sCut = 0 THEN 0 ELSE t.spix - sCut
           dStart  == IF dCut = 0 THEN 0 ELSE t.dpix - dCut
           start   == MaxOf(sFirst, dFirst)
           end     == MinOf(sFirst + Quot(s.len - sPrefix, t.spix),
                            dFirst + Quot(d.len - dPrefix, t.dpix))
<1>1. /\ sa \in Nat /\ sx \in Nat /\ sb \in Int /\ t.spix \in Nat \ {0}
      /\ da \in Nat /\ dx \in Nat /\ db \in Int /\ t.dpix \in Nat \ {0}
  BY DEF Bounds, Side
<1>2. sFirst = sa /\ sCut = (IF sx = 0 THEN 0 ELSE t.spix - sx) /\ sx < t.spix
  BY SideFirst DEF Bounds, CutBefore
<1>3. dFirst = da /\ dCut = (IF dx = 0 THEN 0 ELSE t.dpix - dx) /\ dx < t.dpix
  BY SideFirst DEF Bounds, CutBefore
<1>4. Quot(s.len - sPrefix, t.spix) = sb - sa /\ Rem(s.len - sPrefix - sx, t.spix) = sy
  BY SideLast DEF Bounds
<1>5. Quot(d.len - dPrefix, t.dpix) = db - da /\ Rem(d.len - dPrefix - dx, t.dpix) = dy
  BY SideLast DEF Bounds
<1>6. Geometry(s, d, t) =
        [len       |-> end - start,
         sstart    |-> start * t.spix + t.notrans - s.pos,
         dstart    |-> start * t.dpix + t.notrans - d.pos,
         slength   |-> (end - start) * t.spix,
         dlength   |-> (end - start) * t.dpix,
         extrasst  |-> sStart,
         extradst  |-> dStart,
         extrasend |-> Rem(s.len - sPrefix - sStart, t.spix),
         extradend |-> Rem(d.len - dPrefix - dStart, t.dpix)]
  BY Zenon DEF Geometry
<1> HIDE DEF sPrefix, dPrefix, sFirst, dFirst, sCut, dCut
<1>7. sStart = sx /\ dStart = dx
  BY <1>1, <1>2, <1>3
<1>8. start = MaxOf(sa, da)
  BY <1>2, <1>3
<1>9. end = MinOf(sb, db)
  <2>1. sFirst + Quot(s.len - sPrefix, t.spix) = sb
    BY <1>1, <1>2, <1>4
  <2>2. dFirst + Quot(d.len - dPrefix, t.dpix) = db
    BY <1>1, <1>3, <1>5
  <2> QED
    BY <2>1, <2>2
<1> HIDE DEF sStart, dStart, start, end
<1> QED
  BY <1>4, <1>5, <1>6, <1>7, <1>8, <1>9

LEMMA SidePixel ==
  ASSUME NEW pos, NEW len, NEW nbb, NEW d, NEW a, NEW b, NEW x, NEW y,
         Side(pos, len, nbb, d, a, b, x, y), NEW q \in Int, a <= q, q < b
  PROVE  /\ q \in Nat /\ pos <= nbb + q * d
         /\ nbb + q * d + d <= pos + len
<1>1. /\ pos \in Nat /\ len \in Nat /\ nbb \in Nat /\ d \in Nat \ {0}
      /\ a \in Nat /\ x \in Nat /\ b \in Int /\ y \in Int
      /\ pos <= nbb \/ pos + x = nbb + a * d
      /\ pos + len = nbb + b * d + y
      /\ a <= b => 0 <= y
  BY DEF Side
<1>2. a * d <= q * d
  BY <1>1, MulMono
<1>3. q * d + d <= b * d
  BY <1>1, MulGap
<1>4. a * d \in Nat /\ q * d \in Nat /\ b * d \in Int
  BY <1>1, MulSums
<1> QED
  BY <1>1, <1>2, <1>3, <1>4

-----------------------------------------------------------------------------
(* Bytes.                                                                  *)

PixelOf(b, nbb, d) == (b - nbb) \div d
PlaceIn(b, nbb, d) == (b - nbb) % d

LEMMA PixelFacts ==
  ASSUME NEW b \in Int, NEW nbb \in Nat, NEW d \in Nat \ {0}, b >= nbb
  PROVE  /\ PixelOf(b, nbb, d) \in Nat
         /\ PlaceIn(b, nbb, d) \in 0 .. (d - 1)
         /\ b = nbb + PixelOf(b, nbb, d) * d + PlaceIn(b, nbb, d)
<1>1. b - nbb \in Nat
  OBVIOUS
<1> DEFINE q == (b - nbb) \div d
           k == (b - nbb) % d
<1>2. q \in Nat /\ k \in 0 .. (d - 1) /\ b - nbb = d * q + k
  BY <1>1, DivMod
<1> HIDE DEF q, k
<1>3. d * q = q * d /\ q * d \in Nat
  BY <1>2, MulSums
<1>4. b = nbb + q * d + k
  BY <1>2, <1>3
<1> QED
  BY <1>2, <1>4 DEF q, k, PixelOf, PlaceIn

ByteOf(q, k, nbb, d) == nbb + q * d + k

LEMMA PixelIs ==
  ASSUME NEW q \in Nat, NEW nbb \in Nat, NEW d \in Nat \ {0}, NEW k \in 0 .. (d - 1)
  PROVE  /\ PixelOf(ByteOf(q, k, nbb, d), nbb, d) = q
         /\ PlaceIn(ByteOf(q, k, nbb, d), nbb, d) = k
         /\ ByteOf(q, k, nbb, d) \in Nat
         /\ ByteOf(q, k, nbb, d) >= nbb
<1>1. nbb + q * d + k - nbb = q * d + k /\ q * d \in Nat
  BY MulSums
<1>2. (q * d + k) \div d = q /\ (q * d + k) % d = k
  BY Division
<1> QED
  BY <1>1, <1>2 DEF PixelOf, PlaceIn, ByteOf

(* A source holds the record's bytes.                                      *)
Source(s, nbb, d) ==
  \A b \in Int : s.pos <= b /\ b < s.pos + s.len =>
    ByteAt(s.bytes, b - s.pos) = RecordByte(b, nbb, d)

LEMMA FullIsSource ==
  ASSUME NEW place, place.pos \in Nat, place.len \in Nat, NEW nbb, NEW d
  PROVE  /\ Full(place, nbb, d).pos = place.pos
         /\ Full(place, nbb, d).len = place.len
         /\ Source(Full(place, nbb, d), nbb, d)
<1> DEFINE f == Full(place, nbb, d)
           bytes == [i \in 0 .. (place.len - 1) |-> RecordByte(place.pos + i, nbb, d)]
<1>1. f.pos = place.pos /\ f.len = place.len /\ f.bytes = bytes
  BY DEF Full
<1>2. ASSUME NEW b \in Int, place.pos <= b, b < place.pos + place.len
      PROVE  ByteAt(bytes, b - place.pos) = RecordByte(b, nbb, d)
  <2>1. b - place.pos \in 0 .. (place.len - 1) /\ place.pos + (b - place.pos) = b
    BY <1>2
  <2> QED
    BY <2>1 DEF ByteAt
<1> HIDE DEF f, bytes
<1>3. Source(f, nbb, d)
  BY <1>1, <1>2 DEF Source
<1> QED
  BY <1>1, <1>3 DEF f

(* A whole pixel of a source.                                              *)
LEMMA SourcePixel ==
  ASSUME NEW s, NEW nbb \in Nat, NEW d \in Nat \ {0}, Source(s, nbb, d),
         s.pos \in Nat, s.len \in Nat,
         NEW q \in Nat, NEW k \in 0 .. (d - 1),
         s.pos <= ByteOf(q, k, nbb, d), ByteOf(q, k, nbb, d) < s.pos + s.len
  PROVE  ByteAt(s.bytes, ByteOf(q, k, nbb, d) - s.pos) = Raw(q, k)
<1> DEFINE b == ByteOf(q, k, nbb, d)
<1>1. PixelOf(b, nbb, d) = q /\ PlaceIn(b, nbb, d) = k /\ b \in Nat /\ b >= nbb
  BY PixelIs
<1> HIDE DEF b
<1>2. b \in Int /\ ~(b < nbb) /\ s.pos <= b /\ b < s.pos + s.len
  BY <1>1 DEF b
<1>3. ByteAt(s.bytes, b - s.pos) = RecordByte(b, nbb, d)
  BY <1>2 DEF Source
<1>4. ByteAt(s.bytes, b - s.pos) = Raw(q, k)
  BY <1>1, <1>2, <1>3 DEF RecordByte, PixelOf, PlaceIn
<1> QED
  BY <1>4 DEF b

LEMMA TranslateWhole ==
  ASSUME NEW src, NEW from \in Int, NEW q, NEW k, NEW t, t.spix \in Nat \ {0},
         \A n \in 0 .. (t.spix - 1) : ByteAt(src, from + n) = Raw(q, n)
  PROVE  Translate(src, from, k, t) = Cooked(q, k)
<1>1. 0 \in 0 .. (t.spix - 1) /\ from + 0 = from
  OBVIOUS
<1>2. ByteAt(src, from) = Raw(q, 0)
  BY <1>1
<1>3. Raw(q, 0)[1] = "raw" /\ Raw(q, 0)[2] = q /\ Raw(q, 0)[3] = 0
  BY DEF Raw
<1> QED
  BY <1>2, <1>3, Zenon DEF Translate

(* Pixels that go from byte `from' of src to pixel c of a record of which  *)
(* dst holds the bytes from pos on.                                        *)
MovedByte(dst, src, from, c, n, nbb, pos, t, i) ==
  LET q == PixelOf(pos + i, nbb, t.dpix)
  IN  IF pos + i >= nbb /\ c <= q /\ q < c + n
        THEN Translate(src, from + (q - c) * t.spix, PlaceIn(pos + i, nbb, t.dpix), t)
        ELSE dst[i]

LEMMA PixelsMoved ==
  ASSUME NEW dst, NEW src, NEW from, NEW c \in Nat, NEW n \in Nat, NEW t,
         NEW nbb \in Nat, NEW pos \in Nat, t.dpix \in Nat \ {0},
         NEW to, to = c * t.dpix + nbb - pos, NEW i \in Int, i \in DOMAIN dst
  PROVE  TransFn(dst, to, src, from, n, t)[i] = MovedByte(dst, src, from, c, n, nbb, pos, t, i)
<1> DEFINE q == PixelOf(pos + i, nbb, t.dpix)
           k == PlaceIn(pos + i, nbb, t.dpix)
           d == t.dpix
           res == TransFn(dst, to, src, from, n, t)
<1>1. res[i] = IF to <= i /\ i < to + n * d
                 THEN Translate(src, from + ((i - to) \div d) * t.spix, (i - to) % d, t)
                 ELSE dst[i]
  BY DEF TransFn
<1>2. c * d \in Nat /\ n * d \in Nat /\ to \in Int
  BY MulSums
<1>3. CASE ~(pos + i >= nbb)
  <2>1. ~(to <= i)
    BY <1>2, <1>3
  <2> HIDE DEF res
  <2> QED
    BY <1>1, <1>3, <2>1 DEF res, MovedByte
<1>4. CASE pos + i >= nbb
  <2>0. pos + i \in Int /\ d \in Nat \ {0}
    OBVIOUS
  <2> HIDE DEF d
  <2>1. /\ PixelOf(pos + i, nbb, d) \in Nat
        /\ PlaceIn(pos + i, nbb, d) \in 0 .. (d - 1)
        /\ pos + i = nbb + PixelOf(pos + i, nbb, d) * d + PlaceIn(pos + i, nbb, d)
    BY <1>4, <2>0, PixelFacts
  <2> USE DEF d
  <2>11. q \in Nat /\ k \in 0 .. (d - 1) /\ pos + i = nbb + q * d + k
    BY <2>1
  <2> HIDE DEF q, k
  <2>2. q * d \in Nat /\ (q - c) * d = q * d - c * d /\ (c + n) * d = c * d + n * d
    BY <2>11, MulSums
  <2>3. i - to = (q - c) * d + k
    BY <1>2, <2>11, <2>2
  <2>4. CASE q < c
    <3>1. q * d + d <= c * d
      BY <2>11, <2>4, MulGap
    <3>2. ~(to <= i)
      BY <1>2, <2>11, <2>2, <3>1
    <3> HIDE DEF res
    <3> QED
      BY <1>1, <1>4, <2>11, <2>4, <3>2 DEF res, MovedByte, q, k
  <2>5. CASE ~(q < c + n)
    <3>1. (c + n) * d <= q * d
      BY <2>11, <2>5, MulMono
    <3>2. ~(i < to + n * d)
      BY <1>2, <2>11, <2>2, <3>1
    <3> HIDE DEF res
    <3> QED
      BY <1>1, <1>4, <2>11, <2>5, <3>2 DEF res, MovedByte, q, k
  <2>6. CASE c <= q /\ q < c + n
    <3>1. c * d <= q * d
      BY <2>11, <2>6, MulMono
    <3>2. q * d + d <= (c + n) * d
      BY <2>11, <2>6, MulGap
    <3>3. to <= i /\ i < to + n * d
      BY <1>2, <2>11, <2>2, <3>1, <3>2
    <3>4. ((q - c) * d + k) \div d = q - c /\ ((q - c) * d + k) % d = k
      <4> DEFINE e == q - c
      <4>1. e \in Nat
        BY <2>11, <2>6
      <4> HIDE DEF e, d
      <4>2. (e * d + k) \div d = e /\ (e * d + k) % d = k
        BY <2>0, <2>11, <4>1, Division
      <4> QED
        BY <4>2 DEF e
    <3> HIDE DEF res
    <3> QED
      BY <1>1, <1>4, <2>3, <2>6, <3>3, <3>4 DEF res, MovedByte, q, k
  <2> QED
    BY <2>11, <2>4, <2>5, <2>6
<1> QED
  BY <1>3, <1>4

-----------------------------------------------------------------------------
(* One call of v2_movetrans.                                               *)

(* The destination with the overlap's prefix, and its pixels from lo on    *)
(* and before hi.                                                          *)
Copied(s, d, t, lo, hi) ==
  [i \in DOMAIN d.bytes |->
     LET b == d.pos + i
         q == PixelOf(b, t.notrans, t.dpix)
     IN  IF b < t.notrans
           THEN IF MaxOf(s.pos, d.pos) <= b /\ b < MinOf(s.pos + s.len, d.pos + d.len)
                  THEN Prefix(b) ELSE d.bytes[i]
           ELSE IF lo <= q /\ q < hi THEN Cooked(q, PlaceIn(b, t.notrans, t.dpix))
                ELSE d.bytes[i]]

Ready(s, d, t) ==
  /\ Source(s, t.notrans, t.spix)
  /\ \A i \in DOMAIN d.bytes : i \in Int

LEMMA PrefixMoved ==
  ASSUME NEW s, NEW d, NEW t, NEW pp,
         NEW sa, NEW sb, NEW sx, NEW sy, NEW da, NEW db, NEW dx, NEW dy,
         Bounds(s, d, t, sa, sb, sx, sy, da, db, dx, dy), Ready(s, d, t)
  PROVE  MovePrefix(State(d.bytes, pp), s, d, t) = State(Copied(s, d, t, 0, 0), pp)
<1> DEFINE start == MaxOf(s.pos, d.pos)
           end == MinOf(t.notrans, MinOf(s.pos + s.len, d.pos + d.len))
           res == Move(d.bytes, start - d.pos, s.bytes, start - s.pos, end - start)
           goal == Copied(s, d, t, 0, 0)
<1>1. /\ s.pos \in Nat /\ s.len \in Nat /\ d.pos \in Nat /\ d.len \in Nat
      /\ t.notrans \in Nat /\ t.dpix \in Nat \ {0}
  BY DEF Bounds, Side
<1>2. MovePrefix(State(d.bytes, pp), s, d, t) = State(res, pp)
  BY DEF MovePrefix, State
<1>3. res = [i \in DOMAIN d.bytes |-> res[i]] /\ goal = [i \in DOMAIN d.bytes |-> goal[i]]
  BY DEF Move, Copied
<1>4. ASSUME NEW i \in DOMAIN d.bytes PROVE res[i] = goal[i]
  <2> DEFINE b == d.pos + i
  <2>1. i \in Int /\ b \in Int
    BY <1>1 DEF Ready
  <2>2. start \in Nat /\ end \in Nat
    BY <1>1 DEF MaxOf, MinOf
  <2>3. res[i] = IF start - d.pos <= i /\ i < start - d.pos + (end - start)
                   THEN ByteAt(s.bytes, start - s.pos + i - (start - d.pos))
                   ELSE d.bytes[i]
    BY DEF Move
  <2>4. goal[i] = IF b < t.notrans
                    THEN IF start <= b /\ b < MinOf(s.pos + s.len, d.pos + d.len)
                           THEN Prefix(b) ELSE d.bytes[i]
                    ELSE d.bytes[i]
    <3>1. b >= t.notrans => ~(PixelOf(b, t.notrans, t.dpix) < 0)
      BY <1>1, <2>1, PixelFacts
    <3>2. goal[i] = IF b < t.notrans
                      THEN IF start <= b /\ b < MinOf(s.pos + s.len, d.pos + d.len)
                             THEN Prefix(b) ELSE d.bytes[i]
                      ELSE IF 0 <= PixelOf(b, t.notrans, t.dpix)
                                /\ PixelOf(b, t.notrans, t.dpix) < 0
                        THEN Cooked(PixelOf(b, t.notrans, t.dpix),
                                    PlaceIn(b, t.notrans, t.dpix))
                        ELSE d.bytes[i]
      BY DEF Copied
    <3> HIDE DEF goal, b, start
    <3> QED
      BY <1>1, <2>1, <3>1, <3>2
  <2>5. /\ start - d.pos <= i <=> start <= b
        /\ i < start - d.pos + (end - start) <=> b < end
        /\ start - s.pos + i - (start - d.pos) = b - s.pos
    <3> HIDE DEF start, end
    <3> QED
      BY <1>1, <2>1, <2>2
  <2>6. b < end <=> b < t.notrans /\ b < MinOf(s.pos + s.len, d.pos + d.len)
    BY <1>1, <2>1 DEF MinOf
  <2>7. ASSUME start <= b, b < end
        PROVE  ByteAt(s.bytes, b - s.pos) = Prefix(b)
    <3>1. s.pos <= b /\ b < s.pos + s.len /\ b < t.notrans
      BY <1>1, <2>1, <2>7 DEF MinOf, MaxOf
    <3>2. ByteAt(s.bytes, b - s.pos) = RecordByte(b, t.notrans, t.spix)
      <4> HIDE DEF b
      <4> QED
        BY <2>1, <3>1 DEF Ready, Source
    <3> QED
      BY <3>1, <3>2 DEF RecordByte
  <2> HIDE DEF res, goal, b, start, end
  <2> QED
    BY <2>3, <2>4, <2>5, <2>6, <2>7
<1> HIDE DEF res, goal
<1>5. res = goal
  BY <1>3, <1>4
<1> QED
  BY <1>2, <1>5 DEF goal

LEMMA PixelsCopied ==
  ASSUME NEW s, NEW d, NEW t, NEW pp,
         NEW sa, NEW sb, NEW sx, NEW sy, NEW da, NEW db, NEW dx, NEW dy,
         Bounds(s, d, t, sa, sb, sx, sy, da, db, dx, dy), Ready(s, d, t),
         NEW lo, NEW hi, lo = MaxOf(sa, da), hi = MinOf(sb, db), lo <= hi
  PROVE  MovePixels(State(Copied(s, d, t, 0, 0), pp), s, Geometry(s, d, t), t)
           = State(Copied(s, d, t, lo, hi), pp)
<1> DEFINE g == Geometry(s, d, t)
           base == Copied(s, d, t, 0, 0)
           res == TransFn(base, g.dstart, s.bytes, g.sstart, g.len, t)
           goal == Copied(s, d, t, lo, hi)
<1>1. /\ s.pos \in Nat /\ s.len \in Nat /\ d.pos \in Nat /\ d.len \in Nat
      /\ t.notrans \in Nat /\ t.dpix \in Nat \ {0} /\ t.spix \in Nat \ {0}
      /\ sa \in Nat /\ da \in Nat /\ sb \in Int /\ db \in Int
  BY DEF Bounds, Side
<1>2. lo \in Nat /\ hi \in Int /\ sa <= lo /\ hi <= sb /\ hi - lo \in Nat
  BY <1>1 DEF MaxOf, MinOf
<1>3. /\ g.len = hi - lo /\ g.sstart = lo * t.spix + t.notrans - s.pos
      /\ g.dstart = lo * t.dpix + t.notrans - d.pos
  BY GeometryIs
<1>4. MovePixels(State(base, pp), s, g, t) = State(res, pp)
  BY DEF MovePixels, State
<1>5. /\ DOMAIN base = DOMAIN d.bytes
      /\ res = [i \in DOMAIN d.bytes |-> res[i]]
      /\ goal = [i \in DOMAIN d.bytes |-> goal[i]]
  BY DEF TransFn, Copied
<1>6. ASSUME NEW i \in DOMAIN d.bytes PROVE res[i] = goal[i]
  <2> DEFINE b == d.pos + i
             q == PixelOf(b, t.notrans, t.dpix)
             k == PlaceIn(b, t.notrans, t.dpix)
  <2>1. i \in Int /\ b \in Int
    BY <1>1 DEF Ready
  <2>2. res[i] = IF b >= t.notrans /\ lo <= q /\ q < lo + (hi - lo)
                   THEN Translate(s.bytes, g.sstart + (q - lo) * t.spix, k, t)
                   ELSE base[i]
    <3> DEFINE n == hi - lo
               to == g.dstart
    <3>1. n \in Nat /\ n = g.len /\ to = lo * t.dpix + t.notrans - d.pos
      BY <1>2, <1>3
    <3> HIDE DEF base, g, n, to
    <3>2. TransFn(base, to, s.bytes, g.sstart, n, t)[i]
            = MovedByte(base, s.bytes, g.sstart, lo, n, t.notrans, d.pos, t, i)
      BY <1>1, <1>2, <1>5, <2>1, <3>1, PixelsMoved
    <3> QED
      BY <3>1, <3>2 DEF to, n, MovedByte
  <2>3. b >= t.notrans => q \in Nat /\ k \in 0 .. (t.dpix - 1)
    BY <1>1, <2>1, PixelFacts
  <2>4. base[i] = IF b < t.notrans
                    THEN IF MaxOf(s.pos, d.pos) <= b /\ b < MinOf(s.pos + s.len, d.pos + d.len)
                           THEN Prefix(b) ELSE d.bytes[i]
                    ELSE IF 0 <= q /\ q < 0 THEN Cooked(q, k) ELSE d.bytes[i]
    BY DEF Copied
  <2>5. goal[i] = IF b < t.notrans
                    THEN IF MaxOf(s.pos, d.pos) <= b /\ b < MinOf(s.pos + s.len, d.pos + d.len)
                           THEN Prefix(b) ELSE d.bytes[i]
                    ELSE IF lo <= q /\ q < hi THEN Cooked(q, k) ELSE d.bytes[i]
    BY DEF Copied
  <2>6. ASSUME b >= t.notrans, lo <= q, q < hi
        PROVE  Translate(s.bytes, g.sstart + (q - lo) * t.spix, k, t) = Cooked(q, k)
    <3> DEFINE from == g.sstart + (q - lo) * t.spix
    <3>1. q \in Nat /\ sa <= q /\ q < sb
      BY <1>1, <1>2, <2>3, <2>6
    <3>2. s.pos <= t.notrans + q * t.spix /\ t.notrans + q * t.spix + t.spix <= s.pos + s.len
      <4> HIDE DEF q
      <4> QED
        BY <3>1, SidePixel DEF Bounds
    <3>3. (q - lo) * t.spix = q * t.spix - lo * t.spix /\ q * t.spix \in Nat
            /\ lo * t.spix \in Nat
      <4> HIDE DEF q
      <4> QED
        BY <1>1, <1>2, <3>1, MulSums
    <3>4. from = t.notrans + q * t.spix - s.pos /\ from \in Int
      <4> HIDE DEF q, g
      <4> QED
        BY <1>1, <1>3, <3>1, <3>3
    <3>5. ASSUME NEW n \in 0 .. (t.spix - 1)
          PROVE  ByteAt(s.bytes, from + n) = Raw(q, n)
      <4>1. from + n = ByteOf(q, n, t.notrans, t.spix) - s.pos
        <5> HIDE DEF from, q
        <5> QED
          BY <1>1, <3>1, <3>3, <3>4 DEF ByteOf
      <4>2. /\ s.pos <= ByteOf(q, n, t.notrans, t.spix)
            /\ ByteOf(q, n, t.notrans, t.spix) < s.pos + s.len
        <5> HIDE DEF from, q
        <5> QED
          BY <1>1, <3>1, <3>2, <3>3 DEF ByteOf
      <4>3. Source(s, t.notrans, t.spix)
        BY DEF Ready
      <4>4. ByteAt(s.bytes, ByteOf(q, n, t.notrans, t.spix) - s.pos) = Raw(q, n)
        <5> HIDE DEF from, q
        <5> QED
          BY <1>1, <3>1, <4>2, <4>3, SourcePixel
      <4> QED
        BY <4>1, <4>4
    <3> HIDE DEF from, q, k
    <3>6. Translate(s.bytes, from, k, t) = Cooked(q, k)
      BY <1>1, <3>4, <3>5, TranslateWhole
    <3> QED
      BY <3>6 DEF from
  <2> HIDE DEF res, goal, base, b, q, k
  <2>7. lo + (hi - lo) = hi
    BY <1>2
  <2>8. b >= t.notrans <=> ~(b < t.notrans)
    BY <1>1, <2>1
  <2> QED
    BY <1>2, <2>2, <2>3, <2>4, <2>5, <2>6, <2>7, <2>8
<1> HIDE DEF res, goal
<1>7. res = goal
  BY <1>5, <1>6
<1> QED
  BY <1>4, <1>7 DEF goal, base, g

(* At most one edge of either buffer cuts a pixel.                         *)
OneCut(sx, sy, dx, dy) ==
  \/ sx = 0 /\ sy = 0 /\ dx = 0
  \/ sx = 0 /\ sy = 0 /\ dy = 0
  \/ sx = 0 /\ dx = 0 /\ dy = 0
  \/ sy = 0 /\ dx = 0 /\ dy = 0

(* The overlap in pixels.                                                  *)
Overlap(sa, sb, da, db, lo, hi) == lo = MaxOf(sa, da) /\ hi = MinOf(sb, db)

(* What comes after the whole pixels.                                      *)
Rest(m, s, d, t, lo, hi, sx, sy, dx, dy) ==
  LET g == Geometry(s, d, t)
  IN  IF sx # 0 THEN IF lo * t.dpix + t.notrans - d.pos - t.dpix >= 0
                       THEN SourceStart(m, s, g, t) ELSE m
      ELSE IF sy # 0 THEN IF hi * t.dpix + t.notrans - d.pos + t.dpix < d.len
                            THEN SourceEnd(m, s, g, t) ELSE m
      ELSE IF dx # 0 THEN IF lo * t.spix + t.notrans - s.pos - t.spix >= 0
                            THEN DestStart(m, s, g, t) ELSE m
      ELSE IF dy # 0 THEN DestEnd(m, s, g, t)
      ELSE m

LEMMA MoveTransIs ==
  ASSUME NEW s, NEW d, NEW t, NEW pp,
         NEW sa, NEW sb, NEW sx, NEW sy, NEW da, NEW db, NEW dx, NEW dy,
         Bounds(s, d, t, sa, sb, sx, sy, da, db, dx, dy), Ready(s, d, t),
         OneCut(sx, sy, dx, dy), t.translates,
         NEW lo, NEW hi, Overlap(sa, sb, da, db, lo, hi)
  PROVE  MoveTrans(s, d, t, pp) =
           IF hi < lo THEN State(Copied(s, d, t, 0, 0), pp)
           ELSE Rest(State(Copied(s, d, t, lo, hi), pp), s, d, t, lo, hi, sx, sy, dx, dy)
<1> DEFINE g == Geometry(s, d, t)
           m0 == State(Copied(s, d, t, 0, 0), pp)
           m == State(Copied(s, d, t, lo, hi), pp)
<1>1. /\ sa \in Nat /\ da \in Nat /\ sb \in Int /\ db \in Int /\ d.pos \in Nat
      /\ t.dpix \in Nat \ {0} /\ d.len \in Nat /\ t.notrans \in Nat
      /\ t.spix \in Nat \ {0} /\ s.pos \in Nat /\ lo \in Nat /\ hi \in Int
  BY DEF Bounds, Side, Overlap, MaxOf, MinOf
<1>2. MovePrefix(State(d.bytes, pp), s, d, t) = m0
  BY PrefixMoved
<1>3. MoveTrans(s, d, t, pp) = MoveTranslated(m0, s, d, g, t)
  BY <1>2 DEF MoveTrans
<1>4. /\ g.len = hi - lo /\ g.sstart = lo * t.spix + t.notrans - s.pos
      /\ g.dstart = lo * t.dpix + t.notrans - d.pos
      /\ g.dlength = (hi - lo) * t.dpix
      /\ g["extrasst"] = sx /\ g["extrasend"] = sy /\ g["extradst"] = dx /\ g["extradend"] = dy
  BY GeometryIs DEF Overlap
<1>5. CASE hi < lo
  <2>1. g.len < 0
    BY <1>1, <1>4, <1>5
  <2>2. MoveTranslated(m0, s, d, g, t) = m0
    BY <2>1 DEF MoveTranslated
  <2> QED
    BY <1>3, <1>5, <2>2
<1>6. CASE lo <= hi
  <2>1. ~(g.len < 0) /\ ~(hi < lo)
    BY <1>1, <1>4, <1>6
  <2>2. MovePixels(m0, s, g, t) = m
    BY <1>6, PixelsCopied DEF Overlap
  <2> DEFINE all == {"extrasst", "extradst", "extrasend", "extradend"}
  <2>3. Extras(g) = {x \in all : g[x] # 0}
    BY DEF Extras
  <2> HIDE DEF g, m, m0
  <2>4. \A x, y \in Extras(g) : x = y
    BY <1>4, <2>3 DEF OneCut
  <2>5. MoveTranslated(m0, s, d, g, t) = MovePartial(m, s, d, g, t)
    BY <2>1, <2>2, <2>4 DEF MoveTranslated
  <2>6. g.dstart + g.dlength = hi * t.dpix + t.notrans - d.pos
    <3>1. (hi - lo) * t.dpix = hi * t.dpix - lo * t.dpix /\ hi * t.dpix \in Int
            /\ lo * t.dpix \in Int
      BY <1>1, MulSums
    <3> QED
      BY <1>1, <1>4, <3>1
  <2>7. /\ Extras(g) = {"extrasst"} <=> sx # 0
        /\ Extras(g) = {"extrasend"} <=> sy # 0
        /\ Extras(g) = {"extradst"} <=> dx # 0
        /\ Extras(g) = {"extradend"} <=> dy # 0
    <3>1. \A e \in all : Extras(g) = {e} <=> g[e] # 0
      BY <2>3, <2>4
    <3> QED
      BY <1>4, <3>1
  <2>8. MovePartial(m, s, d, g, t) =
          IF sx # 0 /\ g.dstart - t.dpix >= 0 THEN SourceStart(m, s, g, t)
          ELSE IF sy # 0 /\ g.dstart + g.dlength + t.dpix < d.len THEN SourceEnd(m, s, g, t)
          ELSE IF dx # 0 /\ g.sstart - t.spix >= 0 THEN DestStart(m, s, g, t)
          ELSE IF dy # 0 THEN DestEnd(m, s, g, t)
          ELSE m
    BY <2>7 DEF MovePartial
  <2>9. MovePartial(m, s, d, g, t) = Rest(m, s, d, t, lo, hi, sx, sy, dx, dy)
    <3>1. CASE sx # 0
      <4>1. sy = 0 /\ dx = 0 /\ dy = 0
        BY <3>1 DEF OneCut
      <4>2. g.dstart - t.dpix >= 0 <=> lo * t.dpix + t.notrans - d.pos - t.dpix >= 0
        <5>1. lo * t.dpix \in Int
          BY <1>1, MulSums
        <5> QED
          BY <1>1, <1>4, <5>1
      <4> QED
        BY <2>8, <3>1, <4>1, <4>2 DEF Rest, g
    <3>2. CASE sx = 0 /\ sy # 0
      <4>1. dx = 0 /\ dy = 0
        BY <3>2 DEF OneCut
      <4> QED
        BY <2>6, <2>8, <3>2, <4>1 DEF Rest, g
    <3>3. CASE sx = 0 /\ sy = 0 /\ dx # 0
      <4>1. dy = 0
        BY <3>3 DEF OneCut
      <4>2. g.sstart - t.spix >= 0 <=> lo * t.spix + t.notrans - s.pos - t.spix >= 0
        <5>1. lo * t.spix \in Int
          BY <1>1, MulSums
        <5> QED
          BY <1>1, <1>4, <5>1
      <4> QED
        BY <2>8, <3>3, <4>1, <4>2 DEF Rest, g
    <3>4. CASE sx = 0 /\ sy = 0 /\ dx = 0
      BY <2>8, <3>4 DEF Rest, g
    <3> QED
      BY <3>1, <3>2, <3>3, <3>4
  <2> QED
    BY <1>3, <2>1, <2>5, <2>9 DEF m
<1> QED
  BY <1>1, <1>5, <1>6

LEMMA NothingCopied ==
  ASSUME NEW s, NEW d, NEW t, NEW lo \in Int, NEW hi \in Int, hi <= lo,
         d.pos \in Nat, t.notrans \in Nat, t.dpix \in Nat \ {0}, Ready(s, d, t)
  PROVE  Copied(s, d, t, 0, 0) = Copied(s, d, t, lo, hi)
<1>1. ASSUME NEW i \in DOMAIN d.bytes
      PROVE  Copied(s, d, t, 0, 0)[i] = Copied(s, d, t, lo, hi)[i]
  <2> DEFINE b == d.pos + i
             q == PixelOf(b, t.notrans, t.dpix)
  <2>1. b \in Int
    BY DEF Ready
  <2>2. b >= t.notrans => q \in Nat
    BY <2>1, PixelFacts
  <2>3. b >= t.notrans => ~(0 <= q /\ q < 0) /\ ~(lo <= q /\ q < hi)
    <3> HIDE DEF b, q
    <3> QED
      BY <2>2
  <2>4. ~(b < t.notrans) => b >= t.notrans
    BY <2>1
  <2> QED
    BY <2>3, <2>4 DEF Copied
<1>2. /\ Copied(s, d, t, 0, 0) = [i \in DOMAIN d.bytes |-> Copied(s, d, t, 0, 0)[i]]
      /\ Copied(s, d, t, lo, hi) = [i \in DOMAIN d.bytes |-> Copied(s, d, t, lo, hi)[i]]
  BY DEF Copied
<1> QED
  BY <1>1, <1>2

(* The bytes of pixel c that a destination has room for are added.         *)
WithPixel(bytes, d, t, c) ==
  [i \in DOMAIN bytes |->
     LET b == d.pos + i
     IN  IF 0 <= i /\ i < d.len /\ b >= t.notrans /\ PixelOf(b, t.notrans, t.dpix) = c
           THEN Cooked(c, PlaceIn(b, t.notrans, t.dpix)) ELSE bytes[i]]

(* Bytes of pixel c, or of its translation, that partpix holds.            *)
RawPart(pix, c, from, to) ==
  \A k \in from .. (to - 1) : k \in DOMAIN pix /\ pix[k] = Raw(c, k)
CookedPart(pix, c, from, to) ==
  \A k \in from .. (to - 1) : k \in DOMAIN pix /\ pix[k] = Cooked(c, k)

LEMMA MoveFacts ==
  ASSUME NEW dst, NEW to, NEW src, NEW from, NEW n
  PROVE  /\ DOMAIN Move(dst, to, src, from, n) = DOMAIN dst
         /\ \A i \in DOMAIN dst :
              Move(dst, to, src, from, n)[i] =
                IF to <= i /\ i < to + n THEN ByteAt(src, from + i - to) ELSE dst[i]
         /\ Move(dst, to, src, from, n) =
              [i \in DOMAIN dst |-> Move(dst, to, src, from, n)[i]]
BY DEF Move

LEMMA TransFnDomain ==
  ASSUME NEW dst, NEW to, NEW src, NEW from, NEW n, NEW t
  PROVE  /\ DOMAIN TransFn(dst, to, src, from, n, t) = DOMAIN dst
         /\ TransFn(dst, to, src, from, n, t) =
              [i \in DOMAIN dst |-> TransFn(dst, to, src, from, n, t)[i]]
BY DEF TransFn

LEMMA OnePixel ==
  ASSUME NEW bytes, NEW d, NEW t, NEW c \in Nat, NEW pix, RawPart(pix, c, 0, t.spix),
         t.spix \in Nat \ {0}, t.dpix \in Nat \ {0}, t.notrans \in Nat,
         d.pos \in Nat, d.len \in Nat, \A i \in DOMAIN bytes : i \in Int,
         d.pos <= t.notrans + c * t.dpix, t.notrans + c * t.dpix + t.dpix <= d.pos + d.len,
         NEW to, to = c * t.dpix + t.notrans - d.pos
  PROVE  TransFn(bytes, to, pix, 0, 1, t) = WithPixel(bytes, d, t, c)
<1> DEFINE res == TransFn(bytes, to, pix, 0, 1, t)
           goal == WithPixel(bytes, d, t, c)
<1>1. \A k : Translate(pix, 0, k, t) = Cooked(c, k)
  <2>1. \A n \in 0 .. (t.spix - 1) : 0 + n = n
    OBVIOUS
  <2>2. ASSUME NEW n \in 0 .. (t.spix - 1) PROVE ByteAt(pix, 0 + n) = Raw(c, n)
    BY <2>1 DEF RawPart, ByteAt
  <2> QED
    BY <2>2, TranslateWhole
<1>2. ASSUME NEW i \in DOMAIN bytes PROVE res[i] = goal[i]
  <2> DEFINE b == d.pos + i
             q == PixelOf(b, t.notrans, t.dpix)
             k == PlaceIn(b, t.notrans, t.dpix)
  <2>1. i \in Int /\ b \in Int
    OBVIOUS
  <2>2. res[i] = MovedByte(bytes, pix, 0, c, 1, t.notrans, d.pos, t, i)
    BY <2>1, PixelsMoved
  <2>3. res[i] = IF b >= t.notrans /\ c <= q /\ q < c + 1
                   THEN Translate(pix, 0 + (q - c) * t.spix, k, t) ELSE bytes[i]
    BY <2>2 DEF MovedByte
  <2>4. b >= t.notrans => /\ q \in Nat /\ k \in 0 .. (t.dpix - 1)
                          /\ b = t.notrans + q * t.dpix + k
    BY <2>1, PixelFacts
  <2>5. goal[i] = IF 0 <= i /\ i < d.len /\ b >= t.notrans /\ q = c
                    THEN Cooked(c, k) ELSE bytes[i]
    BY DEF WithPixel
  <2>6. ASSUME b >= t.notrans, q = c
        PROVE  0 <= i /\ i < d.len /\ 0 + (q - c) * t.spix = 0
    <3>1. c * t.dpix \in Nat
      BY MulSums
    <3>2. k \in 0 .. (t.dpix - 1) /\ b = t.notrans + c * t.dpix + k
      BY <2>4, <2>6
    <3> HIDE DEF q, k
    <3>3. q - c = 0
      BY <2>6
    <3> QED
      BY <2>1, <3>1, <3>2, <3>3
  <2> HIDE DEF res, goal, b, q, k
  <2>7. b >= t.notrans => (c <= q /\ q < c + 1 <=> q = c)
    BY <2>4
  <2> QED
    BY <1>1, <2>3, <2>5, <2>6, <2>7
<1>3. res = [i \in DOMAIN bytes |-> res[i]] /\ goal = [i \in DOMAIN bytes |-> goal[i]]
  BY DEF TransFn, WithPixel
<1> HIDE DEF res, goal
<1>4. res = goal
  BY <1>2, <1>3
<1> QED
  BY <1>4 DEF res, goal

LEMMA StateIs ==
  ASSUME NEW bytes, NEW pp
  PROVE  /\ State(bytes, pp).pplen = pp.pplen /\ State(bytes, pp).pix = pp.pix
         /\ State(bytes, pp).bytes = bytes /\ State(bytes, pp).status = "SUCCESS"
BY DEF State

LEMMA FirstPartIs ==
  ASSUME NEW bytes, NEW pp, NEW pix, NEW n
  PROVE  FirstPart(State(bytes, pp), pix, n) = State(bytes, [pplen |-> n, pix |-> pix])
BY StateIs, Zenon DEF FirstPart

LEMMA SecondPartIs ==
  ASSUME NEW bytes, NEW pp, NEW pix, NEW n, NEW to, NEW t, pp.pplen + n = t.spix
  PROVE  SecondPart(State(bytes, pp), pix, n, to, t) =
           State(TransFn(bytes, to, pix, 0, 1, t), [pplen |-> pp.pplen, pix |-> pix])
<1> DEFINE m == State(bytes, pp)
<1>1. m.pplen = pp.pplen /\ m.bytes = bytes
  BY StateIs
<1> HIDE DEF m
<1>2. SecondPart(m, pix, n, to, t) =
        State(TransFn(m.bytes, to, pix, 0, 1, t), [pplen |-> m.pplen, pix |-> pix])
  BY <1>1 DEF SecondPart
<1> QED
  BY <1>1, <1>2, Zenon DEF m

(* partpix, as the calls find it.                                          *)
Partial(pp) == DOMAIN pp.pix = 0 .. (MaxPixel - 1) /\ pp.pplen \in Int

(* After part of pixel c: those bytes of it are in partpix.                *)
SawFirst(m, bytes, c, from, to) ==
  \E pix : /\ m = State(bytes, [pplen |-> to - from, pix |-> pix])
           /\ DOMAIN pix = 0 .. (MaxPixel - 1)
           /\ RawPart(pix, c, from, to)

(* After the other part: the pixel is in the destination.                  *)
SawSecond(m, bytes, d, t, c, pp) ==
  \E pix : /\ m = State(WithPixel(bytes, d, t, c), [pplen |-> pp.pplen, pix |-> pix])
           /\ DOMAIN pix = 0 .. (MaxPixel - 1)

(* What the two calls that see the parts of a pixel of the source do.      *)
SourcePart(m, bytes, d, t, c, from, to, pp) ==
  /\ pp.pplen = 0 => SawFirst(m, bytes, c, from, to)
  /\ /\ pp.pplen # 0 /\ pp.pplen + (to - from) = t.spix
     /\ RawPart(pp.pix, c, 0, from) /\ RawPart(pp.pix, c, to, t.spix)
     => SawSecond(m, bytes, d, t, c, pp)

LEMMA PartAdded ==
  ASSUME NEW pp, Partial(pp), NEW s, NEW d, NEW t, NEW c \in Nat, NEW bytes,
         NEW from \in Nat, NEW to \in Nat, from <= to, to <= t.spix,
         t.spix \in 1 .. MaxPixel, t.dpix \in Nat \ {0}, t.notrans \in Nat,
         d.pos \in Nat, d.len \in Nat, \A i \in DOMAIN bytes : i \in Int,
         d.pos <= t.notrans + c * t.dpix, t.notrans + c * t.dpix + t.dpix <= d.pos + d.len,
         NEW first \in Int,
         \A k \in from .. (to - 1) : ByteAt(s.bytes, first + k - from) = Raw(c, k),
         NEW dest, dest = c * t.dpix + t.notrans - d.pos,
         NEW n, n = to - from
  PROVE  LET pix == Move(pp.pix, from, s.bytes, first, n)
         IN  SourcePart(IF pp.pplen = 0 THEN FirstPart(State(bytes, pp), pix, n)
                        ELSE SecondPart(State(bytes, pp), pix, n, dest, t),
                        bytes, d, t, c, from, to, pp)
<1> DEFINE pix == Move(pp.pix, from, s.bytes, first, n)
           m == IF pp.pplen = 0 THEN FirstPart(State(bytes, pp), pix, n)
                ELSE SecondPart(State(bytes, pp), pix, n, dest, t)
<1>1. DOMAIN pix = 0 .. (MaxPixel - 1)
  BY MoveFacts DEF Partial
<1>2. ASSUME NEW k \in 0 .. (MaxPixel - 1)
      PROVE  pix[k] = IF k \in from .. (to - 1) THEN Raw(c, k) ELSE pp.pix[k]
  <2>1. pix[k] = IF from <= k /\ k < from + n
                   THEN ByteAt(s.bytes, first + k - from) ELSE pp.pix[k]
    <3>1. k \in DOMAIN pp.pix
      BY DEF Partial
    <3> QED
      BY <3>1 DEF Move
  <2>2. from <= k /\ k < from + n <=> k \in from .. (to - 1)
    OBVIOUS
  <2> HIDE DEF pix
  <2> QED
    BY <2>1, <2>2
<1>3. RawPart(pix, c, from, to)
  <2> SUFFICES ASSUME NEW k \in from .. (to - 1)
               PROVE  k \in DOMAIN pix /\ pix[k] = Raw(c, k)
    BY DEF RawPart
  <2>1. k \in 0 .. (MaxPixel - 1)
    BY BytesAreSmall
  <2> HIDE DEF pix
  <2> QED
    BY <1>1, <1>2, <2>1
<1>4. CASE pp.pplen = 0
  <2>1. m = State(bytes, [pplen |-> to - from, pix |-> pix])
    <3>1. m = FirstPart(State(bytes, pp), pix, n)
      BY <1>4
    <3>2. FirstPart(State(bytes, pp), pix, n) = State(bytes, [pplen |-> n, pix |-> pix])
      <4> HIDE DEF m, pix
      <4> QED
        BY FirstPartIs
    <3> HIDE DEF m, pix
    <3> QED
      BY <3>1, <3>2
  <2> HIDE DEF m, pix
  <2>2. SawFirst(m, bytes, c, from, to)
    BY <1>1, <1>3, <2>1 DEF SawFirst
  <2> QED
    BY <1>4, <2>2 DEF SourcePart, m, pix
<1>5. CASE pp.pplen # 0
  <2>1. ASSUME pp.pplen + (to - from) = t.spix,
               RawPart(pp.pix, c, 0, from), RawPart(pp.pix, c, to, t.spix)
        PROVE  SawSecond(m, bytes, d, t, c, pp)
    <3>1. RawPart(pix, c, 0, t.spix)
      <4> SUFFICES ASSUME NEW k \in 0 .. (t.spix - 1)
                   PROVE  k \in DOMAIN pix /\ pix[k] = Raw(c, k)
        BY DEF RawPart
      <4>1. k \in 0 .. (MaxPixel - 1)
        BY BytesAreSmall
      <4>2. k \in 0 .. (from - 1) \/ k \in from .. (to - 1) \/ k \in to .. (t.spix - 1)
        OBVIOUS
      <4> HIDE DEF pix
      <4> QED
        BY <1>1, <1>2, <2>1, <4>1, <4>2 DEF RawPart
    <3>2. m = State(TransFn(bytes, dest, pix, 0, 1, t), [pplen |-> pp.pplen, pix |-> pix])
      <4>1. pp.pplen + n = t.spix
        BY <2>1
      <4> QED
        <5>1. m = SecondPart(State(bytes, pp), pix, n, dest, t)
          BY <1>5
        <5>2. SecondPart(State(bytes, pp), pix, n, dest, t) =
                State(TransFn(bytes, dest, pix, 0, 1, t), [pplen |-> pp.pplen, pix |-> pix])
          <6> HIDE DEF m, pix
          <6> QED
            BY <4>1, SecondPartIs
        <5> HIDE DEF m, pix
        <5> QED
          BY <5>1, <5>2
    <3> HIDE DEF m, pix
    <3>3. t.spix \in Nat \ {0}
      BY BytesAreSmall
    <3>4. TransFn(bytes, dest, pix, 0, 1, t) = WithPixel(bytes, d, t, c)
      BY <3>1, <3>3, OnePixel
    <3> QED
      BY <1>1, <3>2, <3>4 DEF SawSecond
  <2> HIDE DEF m, pix
  <2>2. SourcePart(m, bytes, d, t, c, from, to, pp)
    BY <1>5, <2>1 DEF SourcePart
  <2> QED
    BY <2>2 DEF m, pix
<1> QED
  BY <1>4, <1>5 DEF Partial

(* A buffer whose start cuts a pixel holds the end of the one before a.    *)
LEMMA StartCut ==
  ASSUME NEW pos, NEW len, NEW nbb, NEW d, NEW a, NEW b, NEW x, NEW y,
         Side(pos, len, nbb, d, a, b, x, y), x # 0
  PROVE  /\ a - 1 \in Nat /\ x \in 1 .. (d - 1) /\ a <= b
         /\ a * d = (a - 1) * d + d /\ (a - 1) * d \in Nat
         /\ pos = nbb + (a - 1) * d + d - x
         /\ nbb + (a - 1) * d + d <= pos + len
<1>1. /\ pos \in Nat /\ len \in Nat /\ nbb \in Nat /\ d \in Nat \ {0}
      /\ a \in Nat /\ x \in Nat /\ b \in Int /\ y \in Int
      /\ pos > nbb /\ x < d /\ pos + x = nbb + a * d
      /\ pos + len = nbb + b * d + y
      /\ a <= b /\ 0 <= y
  BY DEF Side
<1>2. a # 0
  BY <1>1
<1>3. (a - 1) * d = a * d - d /\ a * d \in Nat /\ b * d \in Int
  BY <1>1, MulSums
<1>4. a - 1 \in Nat
  BY <1>1, <1>2
<1>5. (a - 1) * d \in Nat
  BY <1>1, <1>4, MulSums
<1>6. a * d <= b * d
  BY <1>1, MulMono
<1> QED
  BY <1>1, <1>3, <1>4, <1>5, <1>6

LEMMA StartOfSource ==
  ASSUME NEW s, NEW d, NEW t, NEW pp, Partial(pp), NEW bytes,
         NEW sa, NEW sb, NEW sx, NEW sy, NEW da, NEW db, NEW dx, NEW dy,
         Bounds(s, d, t, sa, sb, sx, sy, da, db, dx, dy), Ready(s, d, t),
         t.spix \in 1 .. MaxPixel, \A i \in DOMAIN bytes : i \in Int,
         sx # 0, da < sa, sa <= db,
         NEW lo, NEW hi, Overlap(sa, sb, da, db, lo, hi)
  PROVE  /\ lo = sa /\ ~(hi < lo) /\ lo * t.dpix + t.notrans - d.pos - t.dpix >= 0
         /\ SourcePart(SourceStart(State(bytes, pp), s, Geometry(s, d, t), t),
                       bytes, d, t, sa - 1, t.spix - sx, t.spix, pp)
<1> DEFINE c == sa - 1
           g == Geometry(s, d, t)
<1>1. /\ s.pos \in Nat /\ s.len \in Nat /\ d.pos \in Nat /\ d.len \in Nat
      /\ t.notrans \in Nat /\ t.dpix \in Nat \ {0} /\ t.spix \in Nat \ {0}
      /\ sa \in Nat /\ da \in Nat /\ sb \in Int /\ db \in Int
  BY DEF Bounds, Side
<1>2. /\ c \in Nat /\ sx \in 1 .. (t.spix - 1) /\ sa <= sb
      /\ sa * t.spix = c * t.spix + t.spix /\ c * t.spix \in Nat
      /\ s.pos = t.notrans + c * t.spix + t.spix - sx
      /\ t.notrans + c * t.spix + t.spix <= s.pos + s.len
  BY StartCut DEF Bounds
<1>3. lo = sa /\ hi \in Int /\ ~(hi < lo)
  BY <1>1, <1>2 DEF Overlap, MaxOf, MinOf
<1>4. d.pos <= t.notrans + c * t.dpix /\ t.notrans + c * t.dpix + t.dpix <= d.pos + d.len
  <2>1. da <= c /\ c < db
    BY <1>1
  <2> HIDE DEF c
  <2> QED
    BY <1>2, <2>1, SidePixel DEF Bounds
<1>5. sa * t.dpix = c * t.dpix + t.dpix /\ c * t.dpix \in Nat
  BY <1>1, <1>2, MulSums
<1>6. /\ g.sstart = lo * t.spix + t.notrans - s.pos
      /\ g.dstart = lo * t.dpix + t.notrans - d.pos
      /\ g.extrasst = sx
  BY GeometryIs DEF Overlap
<1>7. g.sstart - g.extrasst = 0
  <2> HIDE DEF g, c
  <2> QED
    BY <1>1, <1>2, <1>3, <1>6
<1>8. g.dstart - t.dpix = c * t.dpix + t.notrans - d.pos
  <2> HIDE DEF g, c
  <2> QED
    BY <1>1, <1>2, <1>3, <1>5, <1>6
<1>9. lo * t.dpix + t.notrans - d.pos - t.dpix >= 0
  <2> HIDE DEF c
  <2> QED
    BY <1>1, <1>3, <1>4, <1>5
<1> DEFINE from == t.spix - sx
<1>10. from \in Nat /\ from <= t.spix /\ t.spix \in Nat /\ sx = t.spix - from
  BY <1>1, <1>2
<1>11. ASSUME NEW k \in from .. (t.spix - 1)
       PROVE  ByteAt(s.bytes, 0 + k - from) = Raw(c, k)
  <2>1. k \in 0 .. (t.spix - 1)
    BY <1>10
  <2>2. ByteOf(c, k, t.notrans, t.spix) - s.pos = 0 + k - from
    <3> HIDE DEF c
    <3> QED
      BY <1>1, <1>2, <2>1 DEF ByteOf
  <2>3. s.pos <= ByteOf(c, k, t.notrans, t.spix) /\ ByteOf(c, k, t.notrans, t.spix) < s.pos + s.len
    <3> HIDE DEF c
    <3> QED
      BY <1>1, <1>2, <2>1 DEF ByteOf
  <2>4. Source(s, t.notrans, t.spix)
    BY DEF Ready
  <2> HIDE DEF c, from
  <2>5. ByteAt(s.bytes, ByteOf(c, k, t.notrans, t.spix) - s.pos) = Raw(c, k)
    BY <1>1, <1>2, <2>1, <2>3, <2>4, SourcePixel
  <2> QED
    BY <2>2, <2>5
<1> DEFINE dest == g.dstart - t.dpix
           pix == Move(pp.pix, from, s.bytes, 0, sx)
           m == IF pp.pplen = 0 THEN FirstPart(State(bytes, pp), pix, sx)
                ELSE SecondPart(State(bytes, pp), pix, sx, dest, t)
<1>12. SourcePart(m, bytes, d, t, c, from, t.spix, pp)
  <2> HIDE DEF g, c, from, dest
  <2>1. dest = c * t.dpix + t.notrans - d.pos
    BY <1>8 DEF dest
  <2>2. 0 \in Int /\ t.spix <= t.spix
    BY <1>1
  <2> QED
    BY <1>1, <1>2, <1>4, <1>10, <1>11, <2>1, <2>2, PartAdded
<1>13. SourceStart(State(bytes, pp), s, g, t) = m
  <2>1. SourceStart(State(bytes, pp), s, g, t) =
          IF State(bytes, pp).pplen = 0
            THEN FirstPart(State(bytes, pp),
                   Move(State(bytes, pp).pix, t.spix - g.extrasst, s.bytes,
                        g.sstart - g.extrasst, g.extrasst), g.extrasst)
            ELSE SecondPart(State(bytes, pp),
                   Move(State(bytes, pp).pix, t.spix - g.extrasst, s.bytes,
                        g.sstart - g.extrasst, g.extrasst), g.extrasst, g.dstart - t.dpix, t)
    BY DEF SourceStart
  <2> HIDE DEF g
  <2> QED
    BY <1>6, <1>7, <2>1, StateIs
<1> HIDE DEF m, g
<1> QED
  BY <1>3, <1>9, <1>12, <1>13 DEF g

(* A read of a part of the record that starts in a pixel.                  *)
LEMMA ReadFromACut ==
  ASSUME NEW s, NEW d, NEW t, NEW pp, Partial(pp),
         NEW sa, NEW sb, NEW sx, NEW da, NEW db,
         Bounds(s, d, t, sa, sb, sx, 0, da, db, 0, 0), Ready(s, d, t),
         t.translates, t.spix \in 1 .. MaxPixel, sx # 0,
         NEW lo, NEW hi, Overlap(sa, sb, da, db, lo, hi)
  PROVE  /\ da < sa /\ sa <= db =>
              SourcePart(MoveTrans(s, d, t, pp), Copied(s, d, t, lo, hi), d, t,
                         sa - 1, t.spix - sx, t.spix, pp)
         /\ ~(da < sa /\ sa <= db) => MoveTrans(s, d, t, pp) = State(Copied(s, d, t, lo, hi), pp)
<1> DEFINE bytes == Copied(s, d, t, lo, hi)
           guard == lo * t.dpix + t.notrans - d.pos - t.dpix >= 0
<1>1. /\ s.pos \in Nat /\ s.len \in Nat /\ d.pos \in Nat /\ d.len \in Nat
      /\ t.notrans \in Nat /\ t.dpix \in Nat \ {0} /\ t.spix \in Nat \ {0}
      /\ sa \in Nat /\ da \in Nat /\ sb \in Int /\ db \in Int
      /\ lo \in Nat /\ hi \in Int
  BY DEF Bounds, Side, Overlap, MaxOf, MinOf
<1>2. MoveTrans(s, d, t, pp) =
        IF hi < lo THEN State(Copied(s, d, t, 0, 0), pp)
        ELSE IF guard THEN SourceStart(State(bytes, pp), s, Geometry(s, d, t), t)
        ELSE State(bytes, pp)
  <2>1. OneCut(sx, 0, 0, 0)
    BY DEF OneCut
  <2>2. MoveTrans(s, d, t, pp) =
          IF hi < lo THEN State(Copied(s, d, t, 0, 0), pp)
          ELSE Rest(State(bytes, pp), s, d, t, lo, hi, sx, 0, 0, 0)
    BY <2>1, MoveTransIs
  <2>3. Rest(State(bytes, pp), s, d, t, lo, hi, sx, 0, 0, 0) =
          IF guard THEN SourceStart(State(bytes, pp), s, Geometry(s, d, t), t)
          ELSE State(bytes, pp)
    BY DEF Rest
  <2> QED
    BY <2>2, <2>3
<1>3. \A i \in DOMAIN bytes : i \in Int
  BY DEF Copied, Ready
<1>4. ASSUME da < sa, sa <= db
      PROVE  SourcePart(MoveTrans(s, d, t, pp), bytes, d, t, sa - 1, t.spix - sx, t.spix, pp)
  <2> HIDE DEF bytes
  <2>1. /\ ~(hi < lo) /\ guard
        /\ SourcePart(SourceStart(State(bytes, pp), s, Geometry(s, d, t), t),
                      bytes, d, t, sa - 1, t.spix - sx, t.spix, pp)
    BY <1>3, <1>4, StartOfSource
  <2> QED
    BY <1>2, <2>1
<1>5. ASSUME ~(da < sa /\ sa <= db)
      PROVE  MoveTrans(s, d, t, pp) = State(bytes, pp)
  <2>1. CASE hi < lo
    <3>1. Copied(s, d, t, 0, 0) = bytes
      BY <1>1, <2>1, NothingCopied
    <3> QED
      BY <1>2, <2>1, <3>1
  <2>2. CASE ~(hi < lo)
    <3>1. sa <= da /\ lo = da
      BY <1>1, <1>5, <2>2 DEF Overlap, MaxOf, MinOf
    <3>2. sa # 0
      BY StartCut, <1>1 DEF Bounds
    <3>3. d.pos + 0 = t.notrans + da * t.dpix
      BY <1>1, <3>1, <3>2 DEF Bounds, Side
    <3>4. da * t.dpix \in Nat
      BY <1>1, MulSums
    <3>5. ~guard
      BY <1>1, <3>1, <3>3, <3>4
    <3> HIDE DEF guard, bytes
    <3> QED
      BY <1>2, <2>2, <3>5
  <2> QED
    BY <2>1, <2>2
<1> QED
  BY <1>4, <1>5

(* A buffer whose end cuts a pixel holds the start of pixel b.             *)
LEMMA EndCut ==
  ASSUME NEW pos, NEW len, NEW nbb, NEW d, NEW a, NEW b, NEW x, NEW y,
         Side(pos, len, nbb, d, a, b, x, y), y > 0
  PROVE  /\ b \in Nat /\ y \in 1 .. (d - 1) /\ a <= b /\ b * d \in Nat
         /\ pos <= nbb + b * d
         /\ pos + len = nbb + b * d + y
<1>1. /\ pos \in Nat /\ len \in Nat /\ nbb \in Nat /\ d \in Nat \ {0}
      /\ a \in Nat /\ x \in Nat /\ b \in Int /\ y \in Int
      /\ pos <= nbb \/ pos + x = nbb + a * d
      /\ pos + len = nbb + b * d + y
      /\ a <= b /\ 0 <= y /\ x + y < d
  BY DEF Side
<1>2. b \in Nat
  BY <1>1
<1>3. a * d \in Nat /\ b * d \in Nat
  BY <1>1, <1>2, MulSums
<1>4. a * d <= b * d
  BY <1>1, MulMono
<1> QED
  BY <1>1, <1>2, <1>3, <1>4

LEMMA EndOfSource ==
  ASSUME NEW s, NEW d, NEW t, NEW pp, Partial(pp), NEW bytes,
         NEW sa, NEW sb, NEW sx, NEW sy, NEW da, NEW db, NEW dx,
         Bounds(s, d, t, sa, sb, sx, sy, da, db, dx, 0), Ready(s, d, t),
         t.spix \in 1 .. MaxPixel, \A i \in DOMAIN bytes : i \in Int,
         sy > 0, da <= sb, sb + 1 < db,
         NEW lo, NEW hi, Overlap(sa, sb, da, db, lo, hi)
  PROVE  /\ hi = sb /\ ~(hi < lo) /\ hi * t.dpix + t.notrans - d.pos + t.dpix < d.len
         /\ SourcePart(SourceEnd(State(bytes, pp), s, Geometry(s, d, t), t),
                       bytes, d, t, sb, 0, sy, pp)
<1> DEFINE g == Geometry(s, d, t)
<1>1. /\ s.pos \in Nat /\ s.len \in Nat /\ d.pos \in Nat /\ d.len \in Nat
      /\ t.notrans \in Nat /\ t.dpix \in Nat \ {0} /\ t.spix \in Nat \ {0}
      /\ sa \in Nat /\ da \in Nat /\ sb \in Int /\ db \in Int
      /\ d.pos + d.len = t.notrans + db * t.dpix + 0
  BY DEF Bounds, Side
<1>2. /\ sb \in Nat /\ sy \in 1 .. (t.spix - 1) /\ sa <= sb /\ sb * t.spix \in Nat
      /\ s.pos <= t.notrans + sb * t.spix
      /\ s.pos + s.len = t.notrans + sb * t.spix + sy
  BY EndCut DEF Bounds
<1>3. hi = sb /\ lo \in Int /\ ~(hi < lo)
  BY <1>1, <1>2 DEF Overlap, MaxOf, MinOf
<1>4. d.pos <= t.notrans + sb * t.dpix /\ t.notrans + sb * t.dpix + t.dpix <= d.pos + d.len
  <2>1. da <= sb /\ sb < db
    BY <1>1
  <2> QED
    BY <1>2, <2>1, SidePixel DEF Bounds
<1>5. /\ (sb + 1) * t.dpix = sb * t.dpix + t.dpix /\ sb * t.dpix \in Nat
      /\ (sb + 1) * t.dpix + t.dpix <= db * t.dpix /\ db * t.dpix \in Int
  <2>1. (sb + 1) * t.dpix = sb * t.dpix + 1 * t.dpix /\ sb * t.dpix \in Nat /\ db * t.dpix \in Int
    BY <1>1, <1>2, MulSums
  <2>2. (sb + 1) * t.dpix + t.dpix <= db * t.dpix
    BY <1>1, MulGap
  <2> QED
    BY <1>1, <2>1, <2>2
<1>6. hi * t.dpix + t.notrans - d.pos + t.dpix < d.len
  BY <1>1, <1>3, <1>5
<1>7. /\ g.sstart = lo * t.spix + t.notrans - s.pos
      /\ g.dstart = lo * t.dpix + t.notrans - d.pos
      /\ g.slength = (hi - lo) * t.spix /\ g.dlength = (hi - lo) * t.dpix
      /\ g.extrasend = sy
  BY GeometryIs DEF Overlap
<1>8. /\ g.sstart + g.slength = sb * t.spix + t.notrans - s.pos
      /\ g.dstart + g.dlength = sb * t.dpix + t.notrans - d.pos
  <2>1. /\ (hi - lo) * t.spix = hi * t.spix - lo * t.spix /\ lo * t.spix \in Int
        /\ (hi - lo) * t.dpix = hi * t.dpix - lo * t.dpix /\ lo * t.dpix \in Int
    BY <1>1, <1>2, <1>3, MulSums
  <2> HIDE DEF g
  <2> QED
    BY <1>1, <1>2, <1>3, <1>5, <1>7, <2>1
<1> DEFINE first == sb * t.spix + t.notrans - s.pos
           dest == sb * t.dpix + t.notrans - d.pos
           pix == Move(pp.pix, 0, s.bytes, first, sy)
           m == IF pp.pplen = 0 THEN FirstPart(State(bytes, pp), pix, sy)
                ELSE SecondPart(State(bytes, pp), pix, sy, dest, t)
<1>9. ASSUME NEW k \in 0 .. (sy - 1)
      PROVE  ByteAt(s.bytes, first + k - 0) = Raw(sb, k)
  <2>1. k \in 0 .. (t.spix - 1)
    BY <1>2
  <2>2. ByteOf(sb, k, t.notrans, t.spix) - s.pos = first + k - 0
    BY <1>1, <1>2, <2>1 DEF ByteOf
  <2>3. /\ s.pos <= ByteOf(sb, k, t.notrans, t.spix)
        /\ ByteOf(sb, k, t.notrans, t.spix) < s.pos + s.len
    BY <1>1, <1>2, <2>1 DEF ByteOf
  <2>4. Source(s, t.notrans, t.spix)
    BY DEF Ready
  <2> HIDE DEF first
  <2>5. ByteAt(s.bytes, ByteOf(sb, k, t.notrans, t.spix) - s.pos) = Raw(sb, k)
    BY <1>1, <1>2, <2>1, <2>3, <2>4, SourcePixel
  <2> QED
    BY <2>2, <2>5
<1>10. SourcePart(m, bytes, d, t, sb, 0, sy, pp)
  <2>1. first \in Int
    BY <1>1, <1>2
  <2>2. sy = sy - 0 /\ 0 \in Nat /\ 0 <= sy /\ sy <= t.spix /\ sy \in Nat
    BY <1>1, <1>2
  <2>3. dest = sb * t.dpix + t.notrans - d.pos
    OBVIOUS
  <2> HIDE DEF first, dest
  <2> QED
    BY <1>1, <1>2, <1>4, <1>9, <2>1, <2>2, <2>3, PartAdded
<1>11. SourceEnd(State(bytes, pp), s, g, t) = m
  <2>1. SourceEnd(State(bytes, pp), s, g, t) =
          IF State(bytes, pp).pplen = 0
            THEN FirstPart(State(bytes, pp),
                   Move(State(bytes, pp).pix, 0, s.bytes, g.sstart + g.slength,
                        g.extrasend), g.extrasend)
            ELSE SecondPart(State(bytes, pp),
                   Move(State(bytes, pp).pix, 0, s.bytes, g.sstart + g.slength,
                        g.extrasend), g.extrasend, g.dstart + g.dlength, t)
    BY DEF SourceEnd
  <2> HIDE DEF g
  <2> QED
    BY <1>7, <1>8, <2>1, StateIs
<1> HIDE DEF m, g
<1> QED
  BY <1>3, <1>6, <1>10, <1>11 DEF g

(* A read of a part of the record that ends in a pixel, or in the prefix.  *)
LEMMA ReadToAnEnd ==
  ASSUME NEW s, NEW d, NEW t, NEW pp,
         NEW sa, NEW sb, NEW sy, NEW da, NEW db,
         Bounds(s, d, t, sa, sb, 0, sy, da, db, 0, 0), Ready(s, d, t),
         t.translates, sy # 0,
         NEW lo, NEW hi, Overlap(sa, sb, da, db, lo, hi)
  PROVE  LET bytes == Copied(s, d, t, lo, hi)
         IN  /\ lo \in Nat /\ hi \in Int
             /\ MoveTrans(s, d, t, pp) =
                  IF ~(hi < lo) /\ hi * t.dpix + t.notrans - d.pos + t.dpix < d.len
                    THEN SourceEnd(State(bytes, pp), s, Geometry(s, d, t), t)
                    ELSE State(bytes, pp)
<1> DEFINE bytes == Copied(s, d, t, lo, hi)
           guard == hi * t.dpix + t.notrans - d.pos + t.dpix < d.len
<1>1. /\ d.pos \in Nat /\ t.notrans \in Nat /\ t.dpix \in Nat \ {0}
      /\ lo \in Nat /\ hi \in Int
  BY DEF Bounds, Side, Overlap, MaxOf, MinOf
<1>2. OneCut(0, sy, 0, 0)
  BY DEF OneCut
<1>3. MoveTrans(s, d, t, pp) =
        IF hi < lo THEN State(Copied(s, d, t, 0, 0), pp)
        ELSE Rest(State(bytes, pp), s, d, t, lo, hi, 0, sy, 0, 0)
  BY <1>2, MoveTransIs
<1>4. Rest(State(bytes, pp), s, d, t, lo, hi, 0, sy, 0, 0) =
        IF guard THEN SourceEnd(State(bytes, pp), s, Geometry(s, d, t), t)
        ELSE State(bytes, pp)
  BY DEF Rest
<1>5. hi < lo => Copied(s, d, t, 0, 0) = bytes
  BY <1>1, NothingCopied
<1> HIDE DEF bytes, guard
<1>6. MoveTrans(s, d, t, pp) =
        IF ~(hi < lo) /\ guard THEN SourceEnd(State(bytes, pp), s, Geometry(s, d, t), t)
        ELSE State(bytes, pp)
  BY <1>3, <1>4, <1>5
<1> QED
  BY <1>1, <1>6 DEF bytes, guard

LEMMA ReadToACut ==
  ASSUME NEW s, NEW d, NEW t, NEW pp, Partial(pp),
         NEW sa, NEW sb, NEW sy, NEW da, NEW db,
         Bounds(s, d, t, sa, sb, 0, sy, da, db, 0, 0), Ready(s, d, t),
         t.translates, t.spix \in 1 .. MaxPixel, sy > 0,
         NEW lo, NEW hi, Overlap(sa, sb, da, db, lo, hi)
  PROVE  /\ da <= sb /\ sb + 1 < db =>
              SourcePart(MoveTrans(s, d, t, pp), Copied(s, d, t, lo, hi), d, t, sb, 0, sy, pp)
         /\ ~(da <= sb /\ sb + 1 < db) =>
              MoveTrans(s, d, t, pp) = State(Copied(s, d, t, lo, hi), pp)
<1> DEFINE bytes == Copied(s, d, t, lo, hi)
           guard == hi * t.dpix + t.notrans - d.pos + t.dpix < d.len
<1>1. /\ d.pos \in Nat /\ d.len \in Nat /\ t.notrans \in Nat /\ t.dpix \in Nat \ {0}
      /\ sa \in Nat /\ da \in Nat /\ sb \in Int /\ db \in Int /\ sy \in Int
      /\ d.pos + d.len = t.notrans + db * t.dpix + 0
  BY DEF Bounds, Side
<1>2. /\ lo \in Nat /\ hi \in Int
      /\ MoveTrans(s, d, t, pp) =
           IF ~(hi < lo) /\ guard THEN SourceEnd(State(bytes, pp), s, Geometry(s, d, t), t)
           ELSE State(bytes, pp)
  <2>1. sy # 0
    BY <1>1
  <2> QED
    BY <2>1, ReadToAnEnd
<1>3. \A i \in DOMAIN bytes : i \in Int
  BY DEF Copied, Ready
<1>4. ASSUME da <= sb, sb + 1 < db
      PROVE  SourcePart(MoveTrans(s, d, t, pp), bytes, d, t, sb, 0, sy, pp)
  <2> HIDE DEF bytes
  <2>1. /\ ~(hi < lo) /\ guard
        /\ SourcePart(SourceEnd(State(bytes, pp), s, Geometry(s, d, t), t),
                      bytes, d, t, sb, 0, sy, pp)
    BY <1>3, <1>4, EndOfSource
  <2> QED
    BY <1>2, <2>1
<1>5. ASSUME ~(da <= sb /\ sb + 1 < db)
      PROVE  MoveTrans(s, d, t, pp) = State(bytes, pp)
  <2>1. CASE da > sb
    <3>1. hi < lo
      BY <1>1, <2>1 DEF Overlap, MaxOf, MinOf
    <3> QED
      BY <1>2, <3>1
  <2>2. CASE ~(sb + 1 < db)
    <3>1. db <= hi + 1
      BY <1>1, <2>2 DEF Overlap, MinOf
    <3>2. db * t.dpix <= (hi + 1) * t.dpix
      BY <1>1, <1>2, <3>1, MulMono
    <3>3. (hi + 1) * t.dpix = hi * t.dpix + 1 * t.dpix /\ hi * t.dpix \in Int /\ db * t.dpix \in Int
      BY <1>1, <1>2, MulSums
    <3>4. ~guard
      BY <1>1, <1>2, <3>2, <3>3
    <3> HIDE DEF guard, bytes
    <3> QED
      BY <1>2, <3>4
  <2> QED
    BY <1>1, <1>5, <2>1, <2>2
<1> QED
  BY <1>4, <1>5

LEMMA ReadToThePrefix ==
  ASSUME NEW s, NEW d, NEW t, NEW pp, Partial(pp), pp.pplen = 0,
         NEW sa, NEW sb, NEW sy, NEW da, NEW db,
         Bounds(s, d, t, sa, sb, 0, sy, da, db, 0, 0), Ready(s, d, t),
         t.translates, sy < 0,
         NEW lo, NEW hi, Overlap(sa, sb, da, db, lo, hi)
  PROVE  \E seen : /\ Partial(seen)
                   /\ MoveTrans(s, d, t, pp) = State(Copied(s, d, t, lo, hi), seen)
<1> DEFINE bytes == Copied(s, d, t, lo, hi)
           guard == ~(hi < lo) /\ hi * t.dpix + t.notrans - d.pos + t.dpix < d.len
           g == Geometry(s, d, t)
<1>1. sy \in Int /\ sy # 0
  BY DEF Bounds, Side
<1>2. MoveTrans(s, d, t, pp) =
        IF guard THEN SourceEnd(State(bytes, pp), s, g, t) ELSE State(bytes, pp)
  BY <1>1, ReadToAnEnd
<1>3. g.extrasend = sy
  BY GeometryIs DEF Overlap
<1> DEFINE pix == Move(pp.pix, 0, s.bytes, g.sstart + g.slength, sy)
           seen == [pplen |-> sy, pix |-> pix]
<1>4. SourceEnd(State(bytes, pp), s, g, t) = FirstPart(State(bytes, pp), pix, sy)
  <2>1. SourceEnd(State(bytes, pp), s, g, t) =
          IF State(bytes, pp).pplen = 0
            THEN FirstPart(State(bytes, pp),
                   Move(State(bytes, pp).pix, 0, s.bytes, g.sstart + g.slength,
                        g.extrasend), g.extrasend)
            ELSE SecondPart(State(bytes, pp),
                   Move(State(bytes, pp).pix, 0, s.bytes, g.sstart + g.slength,
                        g.extrasend), g.extrasend, g.dstart + g.dlength, t)
    BY DEF SourceEnd
  <2> HIDE DEF g, bytes
  <2> QED
    BY <1>3, <2>1, StateIs
<1>5. Partial(seen)
  <2>1. DOMAIN pix = 0 .. (MaxPixel - 1)
    BY MoveFacts DEF Partial
  <2> HIDE DEF pix
  <2> QED
    BY <1>1, <2>1 DEF Partial
<1> HIDE DEF bytes, g, pix, guard
<1>6. FirstPart(State(bytes, pp), pix, sy) = State(bytes, seen)
  BY FirstPartIs
<1> HIDE DEF seen
<1>7. MoveTrans(s, d, t, pp) \in {State(bytes, pp), State(bytes, seen)}
  BY <1>2, <1>4, <1>6
<1> QED
  BY <1>5, <1>7 DEF bytes

(* What the calls that have a part of a pixel of the destination to fill   *)
(* do.                                                                     *)
DestPart(m, bytes, d, t, c, n, pp) ==
  /\ pp.pplen = 0 =>
       \E pix : /\ m = State(WithPixel(bytes, d, t, c), [pplen |-> n, pix |-> pix])
                /\ DOMAIN pix = 0 .. (MaxPixel - 1)
                /\ CookedPart(pix, c, 0, t.dpix)
  /\ pp.pplen # 0 /\ pp.pplen + n = t.dpix /\ CookedPart(pp.pix, c, 0, t.dpix) =>
       m = State(WithPixel(bytes, d, t, c), pp)

(* The bytes of pixel c that a destination has room for are n, from byte   *)
(* k of the pixel on, at byte `to'.                                        *)
HasRoom(d, t, c, n, k, to) ==
  /\ n \in Nat /\ k \in Nat /\ to \in Int /\ k + n <= t.dpix
  /\ 0 <= to /\ to + n <= d.len
  /\ d.pos + to = t.notrans + c * t.dpix + k
  /\ k = 0 \/ to = 0
  /\ k + n = t.dpix \/ to + n = d.len

LEMMA PixelIsCooked ==
  ASSUME NEW s, NEW t, NEW c \in Nat, t.spix \in Nat \ {0}, t.notrans \in Nat,
         Source(s, t.notrans, t.spix), s.pos \in Nat, s.len \in Nat,
         s.pos <= t.notrans + c * t.spix, t.notrans + c * t.spix + t.spix <= s.pos + s.len,
         NEW from, from = c * t.spix + t.notrans - s.pos
  PROVE  from \in Int /\ \A k : Translate(s.bytes, from, k, t) = Cooked(c, k)
<1>1. c * t.spix \in Nat /\ from \in Int
  BY MulSums
<1>2. ASSUME NEW n \in 0 .. (t.spix - 1)
      PROVE  ByteAt(s.bytes, from + n) = Raw(c, n)
  <2>1. /\ ByteOf(c, n, t.notrans, t.spix) - s.pos = from + n
        /\ s.pos <= ByteOf(c, n, t.notrans, t.spix)
        /\ ByteOf(c, n, t.notrans, t.spix) < s.pos + s.len
    BY <1>1 DEF ByteOf
  <2>2. ByteAt(s.bytes, ByteOf(c, n, t.notrans, t.spix) - s.pos) = Raw(c, n)
    BY <2>1, SourcePixel
  <2> QED
    BY <2>1, <2>2
<1> QED
  BY <1>1, <1>2, TranslateWhole

IsPartPix(pix) == DOMAIN pix = 0 .. (MaxPixel - 1)

LEMMA CookedPixel ==
  ASSUME NEW pix, IsPartPix(pix), NEW s, NEW t, NEW c \in Nat,
         t.spix \in Nat \ {0}, t.dpix \in 1 .. MaxPixel, t.notrans \in Nat,
         Source(s, t.notrans, t.spix), s.pos \in Nat, s.len \in Nat,
         s.pos <= t.notrans + c * t.spix, t.notrans + c * t.spix + t.spix <= s.pos + s.len,
         NEW from, from = c * t.spix + t.notrans - s.pos
  PROVE  LET cooked == TransFn(pix, 0, s.bytes, from, 1, t)
         IN  IsPartPix(cooked) /\ CookedPart(cooked, c, 0, t.dpix)
<1> DEFINE cooked == TransFn(pix, 0, s.bytes, from, 1, t)
<1>1. DOMAIN cooked = 0 .. (MaxPixel - 1)
  BY DEF TransFn, IsPartPix
<1>2. from \in Int /\ \A k : Translate(s.bytes, from, k, t) = Cooked(c, k)
  BY PixelIsCooked
<1>3. ASSUME NEW k \in 0 .. (t.dpix - 1)
      PROVE  k \in DOMAIN cooked /\ cooked[k] = Cooked(c, k)
  <2>1. k \in 0 .. (MaxPixel - 1) /\ k \in Nat /\ t.dpix \in Nat \ {0}
    BY BytesAreSmall
  <2>2. cooked[k] = IF 0 <= k /\ k < 0 + 1 * t.dpix
                      THEN Translate(s.bytes, from + ((k - 0) \div t.dpix) * t.spix,
                                     (k - 0) % t.dpix, t)
                      ELSE pix[k]
    BY <2>1 DEF TransFn, IsPartPix
  <2>3. (k - 0) \div t.dpix = 0 /\ (k - 0) % t.dpix = k
    <3>1. (0 * t.dpix + k) \div t.dpix = 0 /\ (0 * t.dpix + k) % t.dpix = k
      BY <2>1, Division
    <3>2. 0 * t.dpix + k = k /\ k - 0 = k
      BY <2>1
    <3> QED
      BY <3>1, <3>2
  <2>4. from + 0 * t.spix = from /\ 0 <= k /\ k < 0 + 1 * t.dpix
    BY <1>2, <2>1
  <2> HIDE DEF cooked
  <2>5. cooked[k] = Translate(s.bytes, from, k, t)
    BY <2>2, <2>3, <2>4
  <2> QED
    BY <1>1, <1>2, <2>1, <2>5
<1> HIDE DEF cooked
<1>4. CookedPart(cooked, c, 0, t.dpix)
  BY <1>3 DEF CookedPart
<1> QED
  BY <1>1, <1>4 DEF cooked, IsPartPix

LEMMA PartPlaced ==
  ASSUME NEW bytes, NEW d, NEW t, NEW c \in Nat, NEW pix, CookedPart(pix, c, 0, t.dpix),
         t.dpix \in Nat \ {0}, t.notrans \in Nat, d.pos \in Nat, d.len \in Nat,
         \A i \in DOMAIN bytes : i \in Int,
         NEW n, NEW k, NEW to, HasRoom(d, t, c, n, k, to)
  PROVE  Move(bytes, to, pix, k, n) = WithPixel(bytes, d, t, c)
<1> DEFINE res == Move(bytes, to, pix, k, n)
           goal == WithPixel(bytes, d, t, c)
<1>1. /\ n \in Nat /\ k \in Nat /\ to \in Int /\ k + n <= t.dpix
      /\ 0 <= to /\ to + n <= d.len
      /\ d.pos + to = t.notrans + c * t.dpix + k
      /\ k = 0 \/ to = 0
      /\ k + n = t.dpix \/ to + n = d.len
      /\ c * t.dpix \in Nat
  BY MulSums DEF HasRoom
<1>2. ASSUME NEW i \in DOMAIN bytes PROVE res[i] = goal[i]
  <2> DEFINE b == d.pos + i
             q == PixelOf(b, t.notrans, t.dpix)
             p == PlaceIn(b, t.notrans, t.dpix)
             j == k + i - to
  <2>1. i \in Int /\ b \in Int
    OBVIOUS
  <2>2. res[i] = IF to <= i /\ i < to + n THEN ByteAt(pix, j) ELSE bytes[i]
    BY DEF Move
  <2>3. goal[i] = IF 0 <= i /\ i < d.len /\ b >= t.notrans /\ q = c
                    THEN Cooked(c, p) ELSE bytes[i]
    BY DEF WithPixel
  <2>4. b >= t.notrans => q \in Nat /\ p \in 0 .. (t.dpix - 1) /\ b = t.notrans + q * t.dpix + p
    BY <2>1, PixelFacts
  <2>5. ASSUME to <= i, i < to + n
        PROVE  /\ 0 <= i /\ i < d.len /\ b >= t.notrans /\ q = c
               /\ p = j /\ ByteAt(pix, j) = Cooked(c, j)
    <3>1. j \in 0 .. (t.dpix - 1)
      BY <1>1, <2>1, <2>5
    <3>2. b = ByteOf(c, j, t.notrans, t.dpix)
      BY <1>1, <2>1 DEF ByteOf
    <3> HIDE DEF b, j
    <3>3. q = c /\ p = j /\ b >= t.notrans
      <4>1. /\ PixelOf(ByteOf(c, j, t.notrans, t.dpix), t.notrans, t.dpix) = c
            /\ PlaceIn(ByteOf(c, j, t.notrans, t.dpix), t.notrans, t.dpix) = j
            /\ ByteOf(c, j, t.notrans, t.dpix) >= t.notrans
        BY ONLY c \in Nat, t.notrans \in Nat, t.dpix \in Nat \ {0}, <3>1, PixelIs
      <4> QED
        BY <3>2, <4>1, Zenon
    <3>4. ByteAt(pix, j) = Cooked(c, j)
      <4>1. j \in DOMAIN pix /\ pix[j] = Cooked(c, j)
        BY <3>1 DEF CookedPart
      <4> QED
        BY <4>1, Zenon DEF ByteAt
    <3>5. 0 <= i /\ i < d.len
      BY <1>1, <2>1, <2>5
    <3> QED
      BY <3>3, <3>4, <3>5
  <2>6. ASSUME 0 <= i, i < d.len, b >= t.notrans, q = c
        PROVE  to <= i /\ i < to + n
    <3>1. p \in 0 .. (t.dpix - 1) /\ b = t.notrans + c * t.dpix + p
      BY <2>4, <2>6
    <3> HIDE DEF p, q
    <3> QED
      BY <1>1, <2>1, <2>6, <3>1
  <2> HIDE DEF res, goal, b, q, p, j
  <2> QED
    BY <2>2, <2>3, <2>5, <2>6
<1>3. res = [i \in DOMAIN bytes |-> res[i]] /\ goal = [i \in DOMAIN bytes |-> goal[i]]
  BY DEF Move, WithPixel
<1> HIDE DEF res, goal
<1>4. res = goal
  BY <1>2, <1>3
<1> QED
  BY <1>4 DEF res, goal

LEMMA PartOfPixelIs ==
  ASSUME NEW bytes, NEW pp, NEW s, NEW from, NEW n, NEW k, NEW to, NEW t
  PROVE  LET cooked == TransFn(pp.pix, 0, s.bytes, from, 1, t)
         IN  /\ pp.pplen = 0 =>
                  PartOfPixel(State(bytes, pp), s, from, n, k, to, t) =
                    State(Move(bytes, to, cooked, k, n), [pplen |-> n, pix |-> cooked])
             /\ pp.pplen # 0 /\ pp.pplen + n = t.dpix =>
                  PartOfPixel(State(bytes, pp), s, from, n, k, to, t) =
                    State(Move(bytes, to, pp.pix, k, n), pp)
<1> DEFINE cooked == TransFn(pp.pix, 0, s.bytes, from, 1, t)
           m == State(bytes, pp)
           seen == IF m.pplen = 0
                     THEN FirstPart(m, TransFn(m.pix, 0, s.bytes, from, 1, t), n) ELSE m
           filled == State(Move(seen.bytes, to, seen.pix, k, n), seen)
<1>1. PartOfPixel(m, s, from, n, k, to, t) =
        IF m.pplen # 0 /\ m.pplen + n # t.dpix THEN Fails(m) ELSE filled
  BY Zenon DEF PartOfPixel
<1>2. m.pplen = pp.pplen /\ m.pix = pp.pix /\ m.bytes = bytes
  BY StateIs
<1>3. ASSUME NEW b, NEW b2, NEW q PROVE State(b, State(b2, q)) = State(b, q)
  BY DEF State
<1>4. CASE pp.pplen = 0
  <2>1. seen = FirstPart(m, cooked, n)
    <3> HIDE DEF m
    <3> QED
      BY <1>2, <1>4
  <2> HIDE DEF seen, cooked
  <2>2. FirstPart(m, cooked, n) = State(bytes, [pplen |-> n, pix |-> cooked])
    BY FirstPartIs
  <2> DEFINE q == [pplen |-> n, pix |-> cooked]
  <2>3. q.pix = cooked
    OBVIOUS
  <2> HIDE DEF q
  <2>4. seen = State(bytes, q)
    BY <2>1, <2>2 DEF q
  <2>5. seen.bytes = bytes /\ seen.pix = cooked
    BY <2>3, <2>4, StateIs
  <2>6. filled = State(Move(bytes, to, cooked, k, n), q)
    BY <1>3, <2>4, <2>5
  <2>7. PartOfPixel(m, s, from, n, k, to, t) = filled
    <3> HIDE DEF m, filled
    <3> QED
      BY <1>1, <1>2, <1>4
  <2> QED
    BY <1>4, <2>6, <2>7 DEF q, cooked
<1>5. CASE pp.pplen # 0 /\ pp.pplen + n = t.dpix
  <2>1. seen = m
    <3> HIDE DEF m
    <3> QED
      BY <1>2, <1>5
  <2>2. filled = State(Move(bytes, to, pp.pix, k, n), pp)
    <3> HIDE DEF seen
    <3> QED
      BY <1>2, <1>3, <2>1
  <2>3. PartOfPixel(m, s, from, n, k, to, t) = filled
    <3> HIDE DEF m, filled
    <3> QED
      BY <1>1, <1>2, <1>5
  <2> HIDE DEF seen, filled
  <2> QED
    BY <1>5, <2>2, <2>3
<1> QED
  BY <1>4, <1>5

LEMMA PartOfPixelSecond ==
  ASSUME NEW bytes, NEW pp, NEW s, NEW from, NEW n, NEW k, NEW to, NEW t,
         pp.pplen # 0, pp.pplen + n = t.dpix
  PROVE  PartOfPixel(State(bytes, pp), s, from, n, k, to, t) =
           State(Move(bytes, to, pp.pix, k, n), pp)
<1> DEFINE cooked == TransFn(pp.pix, 0, s.bytes, from, 1, t)
<1>1. /\ pp.pplen = 0 =>
           PartOfPixel(State(bytes, pp), s, from, n, k, to, t) =
             State(Move(bytes, to, cooked, k, n), [pplen |-> n, pix |-> cooked])
      /\ pp.pplen # 0 /\ pp.pplen + n = t.dpix =>
           PartOfPixel(State(bytes, pp), s, from, n, k, to, t) =
             State(Move(bytes, to, pp.pix, k, n), pp)
  BY PartOfPixelIs
<1> HIDE DEF cooked
<1> QED
  BY <1>1

LEMMA PartFilled ==
  ASSUME NEW pp, Partial(pp), NEW s, NEW d, NEW t, NEW c \in Nat, NEW bytes,
         t.spix \in Nat \ {0}, t.dpix \in 1 .. MaxPixel, t.notrans \in Nat,
         Source(s, t.notrans, t.spix), s.pos \in Nat, s.len \in Nat,
         s.pos <= t.notrans + c * t.spix, t.notrans + c * t.spix + t.spix <= s.pos + s.len,
         d.pos \in Nat, d.len \in Nat, \A i \in DOMAIN bytes : i \in Int,
         NEW from, from = c * t.spix + t.notrans - s.pos,
         NEW n, NEW k, NEW to, HasRoom(d, t, c, n, k, to)
  PROVE  DestPart(PartOfPixel(State(bytes, pp), s, from, n, k, to, t), bytes, d, t, c, n, pp)
<1> DEFINE cooked == TransFn(pp.pix, 0, s.bytes, from, 1, t)
           m == PartOfPixel(State(bytes, pp), s, from, n, k, to, t)
<1>1. IsPartPix(pp.pix)
  BY DEF Partial, IsPartPix
<1>2. IsPartPix(cooked) /\ CookedPart(cooked, c, 0, t.dpix)
  BY <1>1, CookedPixel
<1>3. t.dpix \in Nat \ {0}
  BY BytesAreSmall
<1>4. ASSUME NEW pix, CookedPart(pix, c, 0, t.dpix)
      PROVE  Move(bytes, to, pix, k, n) = WithPixel(bytes, d, t, c)
  BY <1>3, <1>4, PartPlaced
<1>5. pp.pplen = 0 => m = State(Move(bytes, to, cooked, k, n), [pplen |-> n, pix |-> cooked])
  BY PartOfPixelIs
<1>6. pp.pplen # 0 /\ pp.pplen + n = t.dpix => m = State(Move(bytes, to, pp.pix, k, n), pp)
  BY PartOfPixelSecond
<1> HIDE DEF cooked, m
<1>7. DestPart(m, bytes, d, t, c, n, pp)
  <2>1. pp.pplen = 0 =>
          m = State(WithPixel(bytes, d, t, c), [pplen |-> n, pix |-> cooked])
    BY <1>2, <1>4, <1>5
  <2>2. pp.pplen # 0 /\ pp.pplen + n = t.dpix /\ CookedPart(pp.pix, c, 0, t.dpix) =>
          m = State(WithPixel(bytes, d, t, c), pp)
    BY <1>4, <1>6
  <2> QED
    BY <1>2, <2>1, <2>2 DEF DestPart, IsPartPix
<1> QED
  BY <1>7 DEF m

LEMMA PixelBefore ==
  ASSUME NEW v \in Nat, NEW w \in Nat, NEW d \in Nat, NEW n \in Nat, NEW pos \in Nat,
         v = w + d
  PROVE  v + n - pos - d = w + n - pos
OBVIOUS

LEMMA StartOfDest ==
  ASSUME NEW s, NEW d, NEW t, NEW pp, Partial(pp), NEW bytes,
         NEW sa, NEW sb, NEW sx, NEW sy, NEW da, NEW db, NEW dx, NEW dy,
         Bounds(s, d, t, sa, sb, sx, sy, da, db, dx, dy), Ready(s, d, t),
         t.dpix \in 1 .. MaxPixel, \A i \in DOMAIN bytes : i \in Int,
         dx # 0, sa < da, da <= sb,
         NEW lo, NEW hi, Overlap(sa, sb, da, db, lo, hi)
  PROVE  /\ lo = da /\ ~(hi < lo) /\ lo * t.spix + t.notrans - s.pos - t.spix >= 0
         /\ DestPart(DestStart(State(bytes, pp), s, Geometry(s, d, t), t),
                     bytes, d, t, da - 1, dx, pp)
<1> DEFINE c == da - 1
           g == Geometry(s, d, t)
<1>1. /\ s.pos \in Nat /\ s.len \in Nat /\ d.pos \in Nat /\ d.len \in Nat
      /\ t.notrans \in Nat /\ t.dpix \in Nat \ {0} /\ t.spix \in Nat \ {0}
      /\ sa \in Nat /\ da \in Nat /\ sb \in Int /\ db \in Int
  BY DEF Bounds, Side
<1>2. /\ c \in Nat /\ dx \in 1 .. (t.dpix - 1) /\ da <= db
      /\ da * t.dpix = c * t.dpix + t.dpix /\ c * t.dpix \in Nat
      /\ d.pos = t.notrans + c * t.dpix + t.dpix - dx
      /\ t.notrans + c * t.dpix + t.dpix <= d.pos + d.len
  BY StartCut DEF Bounds
<1>3. lo = da /\ hi \in Int /\ ~(hi < lo)
  BY <1>1, <1>2 DEF Overlap, MaxOf, MinOf
<1>4. s.pos <= t.notrans + c * t.spix /\ t.notrans + c * t.spix + t.spix <= s.pos + s.len
  <2>1. sa <= c /\ c < sb
    BY <1>1
  <2> HIDE DEF c
  <2> QED
    BY <1>2, <2>1, SidePixel DEF Bounds
<1>5. da * t.spix = c * t.spix + t.spix /\ c * t.spix \in Nat
  BY <1>1, <1>2, MulSums
<1>6. /\ g.sstart = lo * t.spix + t.notrans - s.pos
      /\ g.dstart = lo * t.dpix + t.notrans - d.pos
      /\ g.extradst = dx
  BY GeometryIs DEF Overlap
<1>7. g.sstart - t.spix = c * t.spix + t.notrans - s.pos
  <2> HIDE DEF g, c
  <2>1. g.sstart = da * t.spix + t.notrans - s.pos
    BY <1>3, <1>6
  <2>2. da * t.spix \in Nat
    BY <1>1, MulSums
  <2>3. (da * t.spix + t.notrans - s.pos) - t.spix = c * t.spix + t.notrans - s.pos
    BY <1>1, <1>5, <2>2, PixelBefore
  <2> QED
    BY ONLY <2>1, <2>3, Zenon
<1>8. g.dstart - g.extradst = 0
  <2> HIDE DEF g, c
  <2> QED
    BY <1>1, <1>2, <1>3, <1>6
<1>9. lo * t.spix + t.notrans - s.pos - t.spix >= 0
  <2> HIDE DEF c
  <2> QED
    BY <1>1, <1>3, <1>4, <1>5
<1>10. HasRoom(d, t, c, dx, t.dpix - dx, 0)
  <2> HIDE DEF c
  <2> QED
    BY <1>1, <1>2 DEF HasRoom
<1> DEFINE from == g.sstart - t.spix
           m == PartOfPixel(State(bytes, pp), s, from, dx, t.dpix - dx, 0, t)
<1>11. DestPart(m, bytes, d, t, c, dx, pp)
  <2> HIDE DEF g, c, from
  <2>1. from = c * t.spix + t.notrans - s.pos
    BY <1>7 DEF from
  <2>2. Source(s, t.notrans, t.spix)
    BY DEF Ready
  <2> QED
    BY <1>1, <1>2, <1>4, <1>10, <2>1, <2>2, PartFilled
<1>12. DestStart(State(bytes, pp), s, g, t) = m
  <2> HIDE DEF g
  <2> QED
    BY <1>6, <1>8 DEF DestStart
<1> HIDE DEF m, g
<1> QED
  BY <1>3, <1>9, <1>11, <1>12 DEF g

(* A write to a part of the record that starts in a pixel.                 *)
LEMMA WriteFromACut ==
  ASSUME NEW s, NEW d, NEW t, NEW pp, Partial(pp),
         NEW sa, NEW sb, NEW da, NEW db, NEW dx,
         Bounds(s, d, t, sa, sb, 0, 0, da, db, dx, 0), Ready(s, d, t),
         t.translates, t.dpix \in 1 .. MaxPixel, dx # 0,
         NEW lo, NEW hi, Overlap(sa, sb, da, db, lo, hi)
  PROVE  /\ sa < da /\ da <= sb =>
              DestPart(MoveTrans(s, d, t, pp), Copied(s, d, t, lo, hi), d, t, da - 1, dx, pp)
         /\ ~(sa < da /\ da <= sb) => MoveTrans(s, d, t, pp) = State(Copied(s, d, t, lo, hi), pp)
<1> DEFINE bytes == Copied(s, d, t, lo, hi)
           guard == lo * t.spix + t.notrans - s.pos - t.spix >= 0
<1>1. /\ s.pos \in Nat /\ s.len \in Nat /\ d.pos \in Nat /\ d.len \in Nat
      /\ t.notrans \in Nat /\ t.dpix \in Nat \ {0} /\ t.spix \in Nat \ {0}
      /\ sa \in Nat /\ da \in Nat /\ sb \in Int /\ db \in Int
      /\ lo \in Nat /\ hi \in Int
  BY DEF Bounds, Side, Overlap, MaxOf, MinOf
<1>2. MoveTrans(s, d, t, pp) =
        IF hi < lo THEN State(Copied(s, d, t, 0, 0), pp)
        ELSE IF guard THEN DestStart(State(bytes, pp), s, Geometry(s, d, t), t)
        ELSE State(bytes, pp)
  <2>1. OneCut(0, 0, dx, 0)
    BY DEF OneCut
  <2>2. MoveTrans(s, d, t, pp) =
          IF hi < lo THEN State(Copied(s, d, t, 0, 0), pp)
          ELSE Rest(State(bytes, pp), s, d, t, lo, hi, 0, 0, dx, 0)
    BY <2>1, MoveTransIs
  <2>3. Rest(State(bytes, pp), s, d, t, lo, hi, 0, 0, dx, 0) =
          IF guard THEN DestStart(State(bytes, pp), s, Geometry(s, d, t), t)
          ELSE State(bytes, pp)
    BY DEF Rest
  <2> QED
    BY <2>2, <2>3
<1>3. \A i \in DOMAIN bytes : i \in Int
  BY DEF Copied, Ready
<1>4. ASSUME sa < da, da <= sb
      PROVE  DestPart(MoveTrans(s, d, t, pp), bytes, d, t, da - 1, dx, pp)
  <2> HIDE DEF bytes
  <2>1. /\ ~(hi < lo) /\ guard
        /\ DestPart(DestStart(State(bytes, pp), s, Geometry(s, d, t), t),
                    bytes, d, t, da - 1, dx, pp)
    BY <1>3, <1>4, StartOfDest
  <2> QED
    BY <1>2, <2>1
<1>5. ASSUME ~(sa < da /\ da <= sb)
      PROVE  MoveTrans(s, d, t, pp) = State(bytes, pp)
  <2>1. CASE hi < lo
    <3>1. Copied(s, d, t, 0, 0) = bytes
      BY <1>1, <2>1, NothingCopied
    <3> QED
      BY <1>2, <2>1, <3>1
  <2>2. CASE ~(hi < lo)
    <3>1. da <= sa /\ lo = sa
      BY <1>1, <1>5, <2>2 DEF Overlap, MaxOf, MinOf
    <3>2. da # 0
      BY StartCut, <1>1 DEF Bounds
    <3>3. s.pos + 0 = t.notrans + sa * t.spix
      BY <1>1, <3>1, <3>2 DEF Bounds, Side
    <3>4. sa * t.spix \in Nat
      BY <1>1, MulSums
    <3>5. ~guard
      BY <1>1, <3>1, <3>3, <3>4
    <3> HIDE DEF guard, bytes
    <3> QED
      BY <1>2, <2>2, <3>5
  <2> QED
    BY <2>1, <2>2
<1> QED
  BY <1>4, <1>5

LEMMA EndOfDest ==
  ASSUME NEW s, NEW d, NEW t, NEW pp, Partial(pp), NEW bytes,
         NEW sa, NEW sb, NEW sx, NEW sy, NEW da, NEW db, NEW dx, NEW dy,
         Bounds(s, d, t, sa, sb, sx, sy, da, db, dx, dy), Ready(s, d, t),
         t.dpix \in 1 .. MaxPixel, \A i \in DOMAIN bytes : i \in Int,
         dy > 0, sa <= db, db < sb,
         NEW lo, NEW hi, Overlap(sa, sb, da, db, lo, hi)
  PROVE  /\ ~(hi < lo)
         /\ DestPart(DestEnd(State(bytes, pp), s, Geometry(s, d, t), t),
                     bytes, d, t, db, dy, pp)
<1> DEFINE g == Geometry(s, d, t)
<1>1. /\ s.pos \in Nat /\ s.len \in Nat /\ d.pos \in Nat /\ d.len \in Nat
      /\ t.notrans \in Nat /\ t.dpix \in Nat \ {0} /\ t.spix \in Nat \ {0}
      /\ sa \in Nat /\ da \in Nat /\ sb \in Int /\ db \in Int
  BY DEF Bounds, Side
<1>2. /\ db \in Nat /\ dy \in 1 .. (t.dpix - 1) /\ da <= db /\ db * t.dpix \in Nat
      /\ d.pos <= t.notrans + db * t.dpix
      /\ d.pos + d.len = t.notrans + db * t.dpix + dy
  BY EndCut DEF Bounds
<1>3. hi = db /\ lo \in Int /\ ~(hi < lo)
  BY <1>1, <1>2 DEF Overlap, MaxOf, MinOf
<1>4. s.pos <= t.notrans + db * t.spix /\ t.notrans + db * t.spix + t.spix <= s.pos + s.len
  BY <1>2, SidePixel DEF Bounds
<1>5. /\ g.sstart = lo * t.spix + t.notrans - s.pos
      /\ g.dstart = lo * t.dpix + t.notrans - d.pos
      /\ g.slength = (hi - lo) * t.spix /\ g.dlength = (hi - lo) * t.dpix
      /\ g.extradend = dy
  BY GeometryIs DEF Overlap
<1>6. /\ g.sstart + g.slength = db * t.spix + t.notrans - s.pos
      /\ g.dstart + g.dlength = db * t.dpix + t.notrans - d.pos
  <2>1. /\ (hi - lo) * t.spix = hi * t.spix - lo * t.spix /\ lo * t.spix \in Int
        /\ (hi - lo) * t.dpix = hi * t.dpix - lo * t.dpix /\ lo * t.dpix \in Int
        /\ hi * t.spix \in Int /\ hi * t.dpix \in Int
    BY <1>1, <1>2, <1>3, MulSums
  <2> HIDE DEF g
  <2> QED
    BY <1>1, <1>3, <1>5, <2>1
<1> DEFINE from == g.sstart + g.slength
           to == g.dstart + g.dlength
           m == PartOfPixel(State(bytes, pp), s, from, dy, 0, to, t)
<1>7. HasRoom(d, t, db, dy, 0, to)
  <2>1. to = db * t.dpix + t.notrans - d.pos
    BY <1>6
  <2> HIDE DEF to
  <2>2. /\ to \in Int /\ 0 <= to /\ to + dy = d.len
        /\ d.pos + to = t.notrans + db * t.dpix + 0
    <3>1. dy \in Int
      BY <1>2
    <3> DEFINE w == db * t.dpix
    <3>2. /\ w \in Nat /\ dy \in Int /\ d.pos \in Nat /\ d.len \in Nat /\ t.notrans \in Nat
          /\ d.pos <= t.notrans + w /\ d.pos + d.len = t.notrans + w + dy
      BY <1>1, <1>2, <3>1
    <3>3. to = w + t.notrans - d.pos
      BY <2>1
    <3> HIDE DEF w
    <3>4. /\ w + t.notrans - d.pos \in Int /\ 0 <= w + t.notrans - d.pos
          /\ (w + t.notrans - d.pos) + dy = d.len
          /\ d.pos + (w + t.notrans - d.pos) = t.notrans + w + 0
      <4>1. w + t.notrans - d.pos \in Int
        BY ONLY <3>2
      <4>2. 0 <= w + t.notrans - d.pos
        BY ONLY <3>2
      <4>3. (w + t.notrans - d.pos) + dy = d.len
        BY ONLY <3>2
      <4>4. d.pos + (w + t.notrans - d.pos) = t.notrans + w + 0
        BY ONLY <3>2
      <4> QED
        BY <4>1, <4>2, <4>3, <4>4
    <3>5. to \in Int /\ 0 <= to /\ to + dy = d.len /\ d.pos + to = t.notrans + w + 0
      BY ONLY <3>3, <3>4, Zenon
    <3> QED
      BY <3>5 DEF w
  <2>3. dy \in Nat /\ 0 + dy <= t.dpix /\ to + dy <= d.len
    BY <1>1, <1>2, <2>2
  <2> QED
    BY <2>2, <2>3 DEF HasRoom
<1>8. DestPart(m, bytes, d, t, db, dy, pp)
  <2>1. from = db * t.spix + t.notrans - s.pos
    BY <1>6
  <2>2. Source(s, t.notrans, t.spix)
    BY DEF Ready
  <2> HIDE DEF g, from, to
  <2> QED
    BY <1>1, <1>2, <1>4, <1>7, <2>1, <2>2, PartFilled
<1>9. DestEnd(State(bytes, pp), s, g, t) = m
  <2> HIDE DEF g
  <2> QED
    BY <1>5 DEF DestEnd
<1> HIDE DEF m, g
<1> QED
  BY <1>3, <1>8, <1>9 DEF g

(* A write to a part of the record that ends in a pixel, or in the prefix. *)
LEMMA WriteToAnEnd ==
  ASSUME NEW s, NEW d, NEW t, NEW pp,
         NEW sa, NEW sb, NEW da, NEW db, NEW dy,
         Bounds(s, d, t, sa, sb, 0, 0, da, db, 0, dy), Ready(s, d, t),
         t.translates, dy # 0,
         NEW lo, NEW hi, Overlap(sa, sb, da, db, lo, hi)
  PROVE  LET bytes == Copied(s, d, t, lo, hi)
         IN  MoveTrans(s, d, t, pp) =
               IF hi < lo THEN State(bytes, pp)
               ELSE DestEnd(State(bytes, pp), s, Geometry(s, d, t), t)
<1> DEFINE bytes == Copied(s, d, t, lo, hi)
<1>1. /\ d.pos \in Nat /\ t.notrans \in Nat /\ t.dpix \in Nat \ {0}
      /\ lo \in Nat /\ hi \in Int
  BY DEF Bounds, Side, Overlap, MaxOf, MinOf
<1>2. OneCut(0, 0, 0, dy)
  BY DEF OneCut
<1>3. MoveTrans(s, d, t, pp) =
        IF hi < lo THEN State(Copied(s, d, t, 0, 0), pp)
        ELSE Rest(State(bytes, pp), s, d, t, lo, hi, 0, 0, 0, dy)
  BY <1>2, MoveTransIs
<1>4. Rest(State(bytes, pp), s, d, t, lo, hi, 0, 0, 0, dy) =
        DestEnd(State(bytes, pp), s, Geometry(s, d, t), t)
  BY DEF Rest
<1>5. hi < lo => Copied(s, d, t, 0, 0) = bytes
  BY <1>1, NothingCopied
<1> HIDE DEF bytes
<1> QED
  BY <1>3, <1>4, <1>5 DEF bytes

LEMMA WriteToACut ==
  ASSUME NEW s, NEW d, NEW t, NEW pp, Partial(pp),
         NEW sa, NEW sb, NEW da, NEW db, NEW dy,
         Bounds(s, d, t, sa, sb, 0, 0, da, db, 0, dy), Ready(s, d, t),
         t.translates, t.dpix \in 1 .. MaxPixel, dy > 0, db < sb,
         NEW lo, NEW hi, Overlap(sa, sb, da, db, lo, hi)
  PROVE  /\ sa <= db =>
              DestPart(MoveTrans(s, d, t, pp), Copied(s, d, t, lo, hi), d, t, db, dy, pp)
         /\ ~(sa <= db) => MoveTrans(s, d, t, pp) = State(Copied(s, d, t, lo, hi), pp)
<1> DEFINE bytes == Copied(s, d, t, lo, hi)
<1>1. sa \in Nat /\ da \in Nat /\ sb \in Int /\ db \in Int /\ dy \in Int
  BY DEF Bounds, Side
<1>2. MoveTrans(s, d, t, pp) =
        IF hi < lo THEN State(bytes, pp)
        ELSE DestEnd(State(bytes, pp), s, Geometry(s, d, t), t)
  <2>1. dy # 0
    BY <1>1
  <2> QED
    BY <2>1, WriteToAnEnd
<1>3. \A i \in DOMAIN bytes : i \in Int
  BY DEF Copied, Ready
<1>4. ASSUME sa <= db
      PROVE  DestPart(MoveTrans(s, d, t, pp), bytes, d, t, db, dy, pp)
  <2> HIDE DEF bytes
  <2>1. /\ ~(hi < lo)
        /\ DestPart(DestEnd(State(bytes, pp), s, Geometry(s, d, t), t),
                    bytes, d, t, db, dy, pp)
    BY <1>3, <1>4, EndOfDest
  <2> QED
    BY <1>2, <2>1
<1>5. ASSUME ~(sa <= db)
      PROVE  MoveTrans(s, d, t, pp) = State(bytes, pp)
  <2>1. hi < lo
    BY <1>1, <1>5 DEF Overlap, MaxOf, MinOf
  <2> QED
    BY <1>2, <2>1
<1> QED
  BY <1>4, <1>5

LEMMA WriteToThePrefix ==
  ASSUME NEW s, NEW d, NEW t, NEW pp, Partial(pp), pp.pplen = 0,
         NEW sa, NEW sb, NEW da, NEW db, NEW dy,
         Bounds(s, d, t, sa, sb, 0, 0, da, db, 0, dy), Ready(s, d, t),
         t.translates, dy < 0,
         NEW lo, NEW hi, Overlap(sa, sb, da, db, lo, hi)
  PROVE  \E seen : /\ Partial(seen)
                   /\ MoveTrans(s, d, t, pp) = State(Copied(s, d, t, lo, hi), seen)
<1> DEFINE bytes == Copied(s, d, t, lo, hi)
           g == Geometry(s, d, t)
           from == g.sstart + g.slength
           to == g.dstart + g.dlength
           cooked == TransFn(pp.pix, 0, s.bytes, from, 1, t)
           seen == [pplen |-> dy, pix |-> cooked]
<1>1. dy \in Int /\ dy # 0
  BY DEF Bounds, Side
<1>2. MoveTrans(s, d, t, pp) =
        IF hi < lo THEN State(bytes, pp) ELSE DestEnd(State(bytes, pp), s, g, t)
  BY <1>1, WriteToAnEnd
<1>3. g.extradend = dy /\ g.dstart = lo * t.dpix + t.notrans - d.pos
        /\ g.dlength = (hi - lo) * t.dpix
  BY GeometryIs DEF Overlap
<1>4. to \in Int
  <2>1. /\ lo \in Int /\ hi \in Int /\ d.pos \in Nat /\ t.notrans \in Nat
        /\ t.dpix \in Nat \ {0}
    BY DEF Bounds, Side, Overlap, MaxOf, MinOf
  <2>2. lo * t.dpix \in Int /\ (hi - lo) * t.dpix \in Int
    BY <2>1, MulSums
  <2> HIDE DEF g
  <2> QED
    BY <1>3, <2>1, <2>2
<1>5. DestEnd(State(bytes, pp), s, g, t) = PartOfPixel(State(bytes, pp), s, from, dy, 0, to, t)
  <2> HIDE DEF g, bytes
  <2> QED
    BY <1>3 DEF DestEnd
<1>6. Partial(seen)
  <2>1. DOMAIN cooked = 0 .. (MaxPixel - 1)
    BY TransFnDomain DEF Partial
  <2> HIDE DEF cooked
  <2> QED
    BY <1>1, <2>1 DEF Partial
<1>7. PartOfPixel(State(bytes, pp), s, from, dy, 0, to, t) =
        State(Move(bytes, to, cooked, 0, dy), [pplen |-> dy, pix |-> cooked])
  <2> HIDE DEF bytes, g, from, to
  <2> QED
    BY PartOfPixelIs
<1>8. Move(bytes, to, cooked, 0, dy) = bytes
  <2> HIDE DEF to, cooked
  <2>1. /\ bytes = [i \in DOMAIN bytes |-> bytes[i]]
        /\ \A i \in DOMAIN bytes : i \in Int
    BY DEF Copied, Ready
  <2> HIDE DEF bytes
  <2>2. \A i \in DOMAIN bytes : ~(to <= i /\ i < to + dy)
    BY <1>1, <1>4, <2>1
  <2>3. Move(bytes, to, cooked, 0, dy) = [i \in DOMAIN bytes |-> bytes[i]]
    BY <2>2 DEF Move
  <2> QED
    BY <2>1, <2>3
<1> HIDE DEF bytes, g, from, to, cooked
<1>9. PartOfPixel(State(bytes, pp), s, from, dy, 0, to, t) = State(bytes, seen)
  BY <1>7, <1>8
<1> HIDE DEF seen
<1>10. MoveTrans(s, d, t, pp) \in {State(bytes, pp), State(bytes, seen)}
  BY <1>2, <1>5, <1>9
<1> QED
  BY <1>6, <1>10 DEF bytes

-----------------------------------------------------------------------------
(* The calls.                                                              *)

LEMMA JobIs ==
  ASSUME NEW j \in Jobs
  PROVE  /\ j.write \in BOOLEAN /\ j.binary \in BOOLEAN /\ j.translates \in BOOLEAN
         /\ j.nbb \in Nat /\ j.n1 \in Nat \ {0} /\ j.samp \in Nat /\ j.nsamps \in Nat
         /\ j.fpix \in 1 .. MaxPixel /\ j.upix \in 1 .. MaxPixel /\ MaxPixel \in Nat \ {0}
         /\ j.fpix \in Nat \ {0} /\ j.upix \in Nat \ {0}
         /\ j.translates \/ j.fpix = j.upix
         /\ j.samp <= j.n1 + (IF j.binary THEN j.nbb ELSE 0)
         /\ j.pieces \in Parts
         /\ RecLen(j) = j.nbb + j.n1 * j.fpix /\ j.n1 * j.fpix \in Nat
         /\ j.cut \in Nat \ {0} /\ j.cut < RecLen(j)
<1>1. /\ {j.write, j.binary, j.translates} \subseteq BOOLEAN
      /\ j.nbb \in Nat /\ j.n1 \in Nat \ {0}
      /\ {j.fpix, j.upix} \subseteq 1 .. MaxPixel
      /\ j.translates \/ j.fpix = j.upix
      /\ j.samp \in 0 .. (j.n1 + (IF j.binary THEN j.nbb ELSE 0))
      /\ j.nsamps \in 0 .. (j.n1 + j.nbb)
      /\ j.pieces \in Parts
      /\ j.cut \in 1 .. (RecLen(j) - 1)
  BY JobsAreCalls
<1>2. j.write \in BOOLEAN /\ j.binary \in BOOLEAN /\ j.translates \in BOOLEAN
  BY <1>1
<1>3. j.fpix \in 1 .. MaxPixel /\ j.upix \in 1 .. MaxPixel /\ MaxPixel \in Nat \ {0}
  BY <1>1, BytesAreSmall
<1>4. j.fpix \in Nat \ {0} /\ j.upix \in Nat \ {0}
  BY <1>3
<1>5. RecLen(j) = j.nbb + j.n1 * j.fpix /\ j.n1 * j.fpix \in Nat
  BY <1>1, <1>4, MulSums DEF RecLen
<1>6. j.cut \in Nat \ {0} /\ j.cut < RecLen(j)
  BY <1>1, <1>5
<1>7. /\ j.samp \in Nat /\ j.nsamps \in Nat
      /\ j.samp <= j.n1 + (IF j.binary THEN j.nbb ELSE 0)
  BY <1>1
<1> QED
  BY <1>1, <1>2, <1>3, <1>4, <1>5, <1>6, <1>7

(* The pixels of a record that a call asks for: from StartPixel on, and    *)
(* before LastPixel; the caller's buffer has room up to EndPixel.          *)
StartPixel(j) == MaxOf(FirstSample(j) - j.nbb, 0)
EndPixel(j) ==
  IF j.nsamps # 0 THEN FirstSample(j) - j.nbb + j.nsamps
  ELSE IF j.binary THEN j.n1 ELSE FirstSample(j) - j.nbb + j.n1
LastPixel(j) == MinOf(EndPixel(j), j.n1)

LEMMA FirstSampleIs ==
  ASSUME NEW j \in Jobs
  PROVE  /\ FirstSample(j) \in Nat
         /\ FirstSample(j) = (IF j.binary THEN 0 ELSE j.nbb)
                               + (IF j.samp = 0 THEN 0 ELSE j.samp - 1)
         /\ StartPixel(j) \in Nat /\ EndPixel(j) \in Int /\ LastPixel(j) \in Int
BY JobIs DEF FirstSample, StartPixel, EndPixel, LastPixel, MaxOf, MinOf

LEMMA NumberIs ==
  ASSUME NEW j \in Jobs, NEW u \in Visible(j)
  PROVE  Cardinality({v \in Visible(j) : v <= u}) = u + 1 - (IF j.binary THEN 0 ELSE j.nbb)
<1> DEFINE from == IF j.binary THEN 0 ELSE j.nbb
<1>1. j.nbb \in Nat /\ j.n1 \in Nat /\ j.binary \in BOOLEAN /\ from \in Int
  BY JobIs
<1>2. u \in Int /\ from <= u /\ u <= j.nbb + j.n1 - 1
  BY <1>1 DEF Visible, Units, IsPixel
<1>3. {v \in Visible(j) : v <= u} = from .. u
  BY <1>1, <1>2 DEF Visible, Units, IsPixel
<1> HIDE DEF from
<1>4. Cardinality(from .. u) = IF from > u THEN 0 ELSE u - from + 1
  BY <1>1, <1>2, FS_Interval
<1>5. (IF from > u THEN 0 ELSE u - from + 1) = u + 1 - from
  BY <1>1, <1>2
<1>6. Cardinality({v \in Visible(j) : v <= u}) = u + 1 - from
  BY <1>3, <1>4, <1>5, Zenon
<1> QED
  BY <1>6 DEF from

LEMMA AskedIs ==
  ASSUME NEW j \in Jobs, InRecord(j), ~RunsToTheEnd(j)
  PROVE  Asked(j) = FirstSample(j) .. (j.nbb + LastPixel(j) - 1)
<1> DEFINE from == IF j.binary THEN 0 ELSE j.nbb
           fs == FirstSample(j)
           last == LastPixel(j)
<1>1. /\ j.nbb \in Nat /\ j.n1 \in Nat /\ j.binary \in BOOLEAN /\ from \in Nat
      /\ j.samp \in Nat /\ j.nsamps \in Nat
  BY JobIs
<1>2. /\ fs \in Nat /\ last \in Int /\ from <= j.nbb /\ from <= fs
      /\ fs = from + (IF j.samp = 0 THEN 0 ELSE j.samp - 1)
  BY <1>1, FirstSampleIs
<1>3. \A u : u \in Visible(j) <=> u \in Int /\ from <= u /\ u <= j.nbb + j.n1 - 1
  BY <1>1 DEF Visible, Units, IsPixel
<1>4. ASSUME NEW u \in Visible(j)
      PROVE  u \in Asked(j) <=> fs <= u /\ u <= j.nbb + last - 1
  <2>1. Cardinality({v \in Visible(j) : v <= u}) = u + 1 - from
    BY NumberIs
  <2>2. u \in Asked(j) <=> /\ u + 1 - from >= j.samp
                           /\ j.nsamps # 0 => u + 1 - from < MaxOf(j.samp, 1) + j.nsamps
    BY <2>1 DEF Asked
  <2>3. u \in Int /\ from <= u /\ u <= j.nbb + j.n1 - 1
    BY <1>3
  <2>4. u + 1 - from >= j.samp <=> fs <= u
    BY <1>1, <1>2, <2>3
  <2>5. CASE j.nsamps # 0
    <3>1. last = fs - j.nbb + j.nsamps
      BY <1>1, <1>2, <2>5 DEF InRecord, LastPixel, EndPixel, MaxOf, MinOf
    <3> HIDE DEF from, fs, last
    <3> QED
      BY <1>1, <1>2, <2>2, <2>3, <2>4, <2>5, <3>1 DEF MaxOf
  <2>6. CASE j.nsamps = 0
    <3>1. last = j.n1
      BY <1>1, <1>2, <2>6 DEF LastPixel, EndPixel, MinOf
    <3> HIDE DEF from, fs, last
    <3> QED
      BY <1>1, <2>2, <2>3, <2>4, <2>6, <3>1
  <2> QED
    BY <2>5, <2>6
<1>5. last <= j.n1
  BY <1>1, FirstSampleIs DEF LastPixel, MinOf
<1>6. Asked(j) \subseteq Visible(j)
  BY DEF Asked
<1> HIDE DEF from, fs, last
<1>7. ASSUME NEW u \in Int, fs <= u, u <= j.nbb + last - 1
      PROVE  u \in Visible(j)
  BY <1>1, <1>2, <1>3, <1>5, <1>7
<1>8. ASSUME NEW u PROVE u \in Asked(j) <=> u \in fs .. (j.nbb + last - 1)
  <2>1. CASE u \in Visible(j)
    <3>1. u \in Int
      BY <1>3, <2>1
    <3> QED
      BY <1>1, <1>2, <1>4, <2>1, <3>1
  <2>2. CASE u \notin Visible(j)
    BY <1>1, <1>2, <1>6, <1>7, <2>2
  <2> QED
    BY <2>1, <2>2
<1>9. Asked(j) = fs .. (j.nbb + last - 1)
  BY <1>8
<1> QED
  BY <1>9 DEF fs, last

LEMMA SomePixels ==
  ASSUME NEW j \in Jobs, Sound(j)
  PROVE  /\ Asked(j) = FirstSample(j) .. (j.nbb + LastPixel(j) - 1)
         /\ StartPixel(j) < LastPixel(j) /\ LastPixel(j) <= EndPixel(j)
         /\ LastPixel(j) <= j.n1
<1>1. Asked(j) = FirstSample(j) .. (j.nbb + LastPixel(j) - 1)
  BY AskedIs DEF Sound
<1>2. PICK u \in Asked(j) : u >= j.nbb
  BY DEF Sound, EndsInPrefix, IsPixel
<1>3. j.nbb \in Nat /\ j.n1 \in Nat /\ FirstSample(j) \in Nat /\ LastPixel(j) \in Int
  BY JobIs, FirstSampleIs
<1>4. u \in Int /\ FirstSample(j) <= u /\ u <= j.nbb + LastPixel(j) - 1
  BY <1>1, <1>3
<1>5. StartPixel(j) < LastPixel(j)
  BY <1>2, <1>3, <1>4 DEF StartPixel, MaxOf
<1>6. LastPixel(j) <= EndPixel(j) /\ LastPixel(j) <= j.n1
  BY <1>3, FirstSampleIs DEF LastPixel, MinOf
<1> QED
  BY <1>1, <1>5, <1>6

(* The caller's buffer starts and ends at whole samples.                   *)
LEMMA RequestSide ==
  ASSUME NEW j \in Jobs, Sound(j)
  PROVE  /\ Side(StartByte(j), NBytes(j), j.nbb, j.upix, StartPixel(j), EndPixel(j), 0, 0)
         /\ FirstSample(j) < j.nbb => StartByte(j) = FirstSample(j)
         /\ FirstSample(j) >= j.nbb => StartByte(j) >= j.nbb
<1> DEFINE fs == FirstSample(j)
           a == StartPixel(j)
           b == EndPixel(j)
           d == j.upix
           nbb == j.nbb
<1>1. /\ nbb \in Nat /\ j.n1 \in Nat /\ d \in Nat \ {0} /\ j.samp \in Nat /\ j.nsamps \in Nat
      /\ j.binary \in BOOLEAN
  BY JobIs
<1>2. /\ fs \in Nat /\ a \in Nat /\ b \in Int /\ a < b
      /\ fs = (IF j.binary THEN 0 ELSE nbb) + (IF j.samp = 0 THEN 0 ELSE j.samp - 1)
  BY FirstSampleIs, SomePixels
<1>3. a = IF fs < nbb THEN 0 ELSE fs - nbb
  BY <1>1, <1>2 DEF StartPixel, MaxOf
<1>4. /\ a * d \in Nat /\ b * d \in Int /\ (b - a) * d = b * d - a * d
      /\ 0 * d = 0 /\ a = 0 => a * d = 0
  BY <1>1, <1>2, MulSums
<1>5. StartByte(j) = IF fs < nbb THEN fs ELSE nbb + a * d
  <2>1. CASE j.samp = 0
    <3>1. StartByte(j) = fs
      BY <2>1 DEF StartByte
    <3>2. fs < nbb \/ (fs = nbb /\ a = 0)
      BY <1>1, <1>2, <1>3, <2>1
    <3> HIDE DEF fs, a, b, d, nbb
    <3> QED
      BY <1>1, <1>4, <3>1, <3>2
  <2>2. CASE j.samp # 0
    <3>1. StartByte(j) = MinOf(nbb, fs) + MaxOf(fs - MinOf(nbb, fs), 0) * d
      BY <2>2 DEF StartByte
    <3> HIDE DEF fs, a, b, d, nbb
    <3>2. CASE fs < nbb
      <4>1. MinOf(nbb, fs) = fs /\ MaxOf(fs - fs, 0) = 0
        BY <1>1, <1>2, <3>2 DEF MinOf, MaxOf
      <4> QED
        BY <1>1, <1>2, <1>4, <3>1, <3>2, <4>1
    <3>3. CASE ~(fs < nbb)
      <4>1. MinOf(nbb, fs) = nbb /\ MaxOf(fs - nbb, 0) = a
        BY <1>1, <1>2, <1>3, <3>3 DEF MinOf, MaxOf
      <4> QED
        BY <3>1, <3>3, <4>1
    <3> QED
      BY <3>2, <3>3
  <2> QED
    BY <2>1, <2>2
<1>6. NBytes(j) = IF fs < nbb THEN nbb - fs + b * d ELSE (b - a) * d
  <2>1. CASE j.nsamps = 0
    <3>1. NBytes(j) = j.n1 * d + (IF j.binary THEN nbb ELSE 0)
      BY <2>1 DEF NBytes
    <3>2. CASE j.binary
      <4>1. fs = 0 /\ b = j.n1
        BY <1>1, <1>2, <2>1, <3>2 DEF Sound, RunsToTheEnd, EndPixel
      <4>2. a = 0
        BY <1>1, <1>2, <1>3, <4>1
      <4> HIDE DEF fs, a, b, d, nbb
      <4>3. (b - a) * d = b * d
        BY <1>2, <1>4, <4>2
      <4>4. NBytes(j) = b * d + nbb
        BY <3>1, <3>2, <4>1
      <4> QED
        BY <1>1, <1>2, <1>4, <4>1, <4>3, <4>4
    <3>3. CASE ~j.binary
      <4>1. ~(fs < nbb) /\ b - a = j.n1
        BY <1>1, <1>2, <1>3, <2>1, <3>3 DEF EndPixel
      <4>2. NBytes(j) = j.n1 * d
        BY <3>1, <3>3, <1>1, MulSums
      <4> HIDE DEF fs, a, b, d, nbb
      <4> QED
        BY <4>1, <4>2
    <3> QED
      BY <3>2, <3>3
  <2>2. CASE j.nsamps # 0
    <3> DEFINE nsbin == MaxOf(MinOf(nbb, fs + j.nsamps) - fs, 0)
    <3>1. NBytes(j) = nsbin + MaxOf(j.nsamps - nsbin, 0) * d
      BY <2>2 DEF NBytes
    <3>2. b = fs - nbb + j.nsamps
      BY <2>2 DEF EndPixel
    <3> HIDE DEF fs, a, b, d, nbb
    <3>3. CASE fs < nbb
      <4>1. nsbin = nbb - fs /\ MaxOf(j.nsamps - (nbb - fs), 0) = b
        BY <1>1, <1>2, <3>2, <3>3 DEF MinOf, MaxOf
      <4> HIDE DEF nsbin
      <4> QED
        BY <3>1, <3>3, <4>1
    <3>4. CASE ~(fs < nbb)
      <4>1. MinOf(nbb, fs + j.nsamps) = nbb /\ MaxOf(nbb - fs, 0) = 0
        BY <1>1, <1>2, <3>4 DEF MinOf, MaxOf
      <4>2. MaxOf(j.nsamps - 0, 0) = b - a
        BY <1>1, <1>2, <1>3, <3>2, <3>4 DEF MaxOf
      <4>3. nsbin = 0
        BY <4>1
      <4> HIDE DEF nsbin
      <4>4. NBytes(j) = 0 + (b - a) * d
        BY <3>1, <4>2, <4>3
      <4>5. (b - a) * d \in Int
        BY <1>4
      <4> QED
        BY <3>4, <4>4, <4>5
    <3> QED
      BY <3>3, <3>4
  <2> QED
    BY <2>1, <2>2
<1> HIDE DEF fs, a, b, d, nbb
<1>7. a <= b /\ b \in Nat /\ (b - a) * d \in Nat /\ b * d \in Nat
  BY <1>1, <1>2, MulSums
<1>8. StartByte(j) \in Nat /\ NBytes(j) \in Nat
  <2>1. nbb + a * d \in Nat
    BY <1>1, <1>4, <1>2, MulSums
  <2>2. fs < nbb => nbb - fs + b * d \in Nat
    BY <1>1, <1>2, <1>7
  <2> QED
    BY <1>2, <1>5, <1>6, <1>7, <2>1, <2>2
<1>9. StartByte(j) + NBytes(j) = nbb + b * d + 0
  BY <1>1, <1>2, <1>4, <1>5, <1>6, <1>7
<1>10. \/ StartByte(j) <= nbb /\ a = 0
       \/ StartByte(j) > nbb /\ StartByte(j) + 0 = nbb + a * d
  <2>1. CASE fs < nbb
    BY <1>1, <1>2, <1>3, <1>5, <2>1
  <2>2. CASE ~(fs < nbb)
    <3>1. StartByte(j) = nbb + a * d
      BY <1>5, <2>2
    <3>2. a # 0 => a * d > 0
      <4>1. 0 < a => 0 * d + d <= a * d
        BY <1>1, <1>2, MulGap
      <4> QED
        BY <1>1, <1>2, <1>4, <4>1
    <3> QED
      BY <1>1, <1>2, <1>4, <3>1, <3>2
  <2> QED
    BY <2>1, <2>2
<1>11. Side(StartByte(j), NBytes(j), nbb, d, a, b, 0, 0)
  BY <1>1, <1>2, <1>7, <1>8, <1>9, <1>10 DEF Side
<1>12. /\ fs < nbb => StartByte(j) = fs
       /\ fs >= nbb => StartByte(j) >= nbb
  BY <1>1, <1>2, <1>4, <1>5
<1> QED
  BY <1>11, <1>12 DEF fs, a, b, d, nbb

(* The pixel at the cut, how many of its bytes come before the cut, and    *)
(* the first pixel that comes after it.                                    *)
CutAt(j) == Quot(j.cut - j.nbb, j.fpix)
CutAfter(j) == Rem(j.cut - j.nbb, j.fpix)
NextPixel(j) == IF CutAfter(j) > 0 THEN CutAt(j) + 1 ELSE MaxOf(CutAt(j), 0)
BytesLeft(j) == IF CutAfter(j) > 0 THEN j.fpix - CutAfter(j) ELSE 0

LEMMA QuotRemIs ==
  ASSUME NEW v \in Int, NEW d \in Nat \ {0}
  PROVE  /\ Quot(v, d) \in Int /\ Rem(v, d) \in Int
         /\ v = Quot(v, d) * d + Rem(v, d)
         /\ Remains(Quot(v, d), Rem(v, d), d)
         /\ v > 0 => Quot(v, d) >= 0 /\ Rem(v, d) >= 0
         /\ v <= 0 => Quot(v, d) <= 0 /\ Rem(v, d) <= 0
<1> DEFINE q == Quot(v, d)
           r == Rem(v, d)
<1>1. CASE v >= 0
  <2> DEFINE k == v \div d
             m == v % d
  <2>0. v \in Nat
    BY <1>1
  <2>1. k \in Nat /\ m \in 0 .. (d - 1) /\ v = d * k + m
    BY <2>0, DivMod
  <2>2. q = k
    BY <1>1 DEF Quot
  <2>3. r = v - d * q
    BY DEF Rem
  <2>4. v = 0 => k = 0
    OBVIOUS
  <2> HIDE DEF q, r, k, m
  <2>5. d * k = k * d /\ k * d \in Nat
    BY <2>1, MulSums
  <2>6. r = m
    BY <2>1, <2>2, <2>3, <2>5
  <2>7. v = 0 => m = 0
    <3>1. k = 0 => k * d = 0
      OBVIOUS
    <3> QED
      BY <2>1, <2>4, <2>5, <3>1
  <2>8. /\ q \in Int /\ r \in Int /\ v = q * d + r /\ Remains(q, r, d)
        /\ v > 0 => q >= 0 /\ r >= 0
        /\ v <= 0 => q <= 0 /\ r <= 0
    BY <1>1, <2>1, <2>2, <2>4, <2>5, <2>6, <2>7 DEF Remains
  <2> QED
    BY <2>8 DEF q, r
<1>2. CASE v < 0
  <2> DEFINE k == (-v) \div d
             m == (-v) % d
  <2>0. -v \in Nat
    BY <1>2
  <2>1. k \in Nat /\ m \in 0 .. (d - 1) /\ -v = d * k + m
    BY <2>0, DivMod
  <2>2. q = -k
    BY <1>2 DEF Quot
  <2>3. r = v - d * q
    BY DEF Rem
  <2> HIDE DEF q, r, k, m
  <2>4. d * k = k * d /\ k * d \in Nat /\ (-k) * d = -(k * d) /\ d * (-k) = (-k) * d
    BY <2>1, MulSums
  <2>5. r = -m
    BY <2>1, <2>2, <2>3, <2>4
  <2>6. v = q * d + r
    BY <2>1, <2>2, <2>4, <2>5
  <2>7. q \in Int /\ r \in Int /\ Remains(q, r, d) /\ q <= 0 /\ r <= 0
    BY <2>1, <2>2, <2>5 DEF Remains
  <2> QED
    BY <1>2, <2>6, <2>7 DEF q, r
<1> QED
  BY <1>1, <1>2

LEMMA CutIs ==
  ASSUME NEW j \in Jobs
  PROVE  /\ CutAt(j) \in Int /\ CutAfter(j) \in Int
         /\ j.cut = j.nbb + CutAt(j) * j.fpix + CutAfter(j)
         /\ Remains(CutAt(j), CutAfter(j), j.fpix)
         /\ j.cut > j.nbb => CutAt(j) >= 0 /\ CutAfter(j) >= 0
         /\ j.cut <= j.nbb => CutAt(j) <= 0 /\ CutAfter(j) <= 0
         /\ CutAt(j) < j.n1
         /\ NextPixel(j) \in Nat /\ NextPixel(j) <= j.n1
         /\ BytesLeft(j) \in 0 .. (j.fpix - 1)
<1> DEFINE q == CutAt(j)
           r == CutAfter(j)
           d == j.fpix
           v == j.cut - j.nbb
           w == q * d
<1>1. /\ j.nbb \in Nat /\ j.n1 \in Nat \ {0} /\ d \in Nat \ {0} /\ j.cut \in Nat
      /\ j.cut < j.nbb + j.n1 * d /\ j.n1 * d \in Nat
  BY JobIs
<1>2. v \in Int
  BY <1>1
<1>3. /\ q \in Int /\ r \in Int /\ v = q * d + r /\ Remains(q, r, d)
      /\ v > 0 => q >= 0 /\ r >= 0
      /\ v <= 0 => q <= 0 /\ r <= 0
  BY <1>1, <1>2, QuotRemIs DEF CutAt, CutAfter
<1> HIDE DEF q, r, d
<1>4. w \in Int
  BY <1>1, <1>3, MulSums
<1>5. q < j.n1
  <2>1. CASE q <= 0
    BY <1>1, <1>3, <2>1
  <2>2. CASE q > 0
    <3>1. r >= 0
      BY <1>3, <2>2 DEF Remains
    <3>2. j.n1 <= q => j.n1 * d <= w
      BY <1>1, <1>3, MulMono
    <3> HIDE DEF w
    <3>3. v = w + r
      BY <1>3 DEF w
    <3> QED
      BY <1>1, <1>3, <1>4, <3>1, <3>2, <3>3
  <2> QED
    BY <1>3, <2>1, <2>2
<1>6. j.cut = j.nbb + q * d + r
  <2>1. v = w + r
    BY <1>3
  <2> HIDE DEF w
  <2>2. j.cut - j.nbb = w + r /\ r \in Int
    BY <1>3, <2>1
  <2>3. j.cut = j.nbb + w + r
    BY ONLY <1>1, <1>4, <2>2
  <2> QED
    BY <2>3 DEF w
<1>7. /\ NextPixel(j) = IF r > 0 THEN q + 1 ELSE MaxOf(q, 0)
      /\ BytesLeft(j) = IF r > 0 THEN d - r ELSE 0
  BY DEF NextPixel, BytesLeft, q, r, d
<1>8. r > 0 => q >= 0 /\ r < d
  BY <1>1, <1>3 DEF Remains
<1>9. /\ NextPixel(j) \in Nat /\ NextPixel(j) <= j.n1
      /\ BytesLeft(j) \in 0 .. (d - 1)
  BY <1>1, <1>3, <1>5, <1>7, <1>8 DEF MaxOf
<1>10. /\ j.cut > j.nbb => q >= 0 /\ r >= 0
       /\ j.cut <= j.nbb => q <= 0 /\ r <= 0
  BY <1>1, <1>3
<1> QED
  BY <1>3, <1>5, <1>6, <1>9, <1>10 DEF q, r, d

LEMMA PartIs ==
  ASSUME NEW j
  PROVE  /\ PartOf(j, "whole").pos = 0 /\ PartOf(j, "whole").len = RecLen(j)
         /\ PartOf(j, "first").pos = 0 /\ PartOf(j, "first").len = j.cut
         /\ PartOf(j, "last").pos = j.cut /\ PartOf(j, "last").len = RecLen(j) - j.cut
<1>1. /\ PartOf(j, "whole") = [pos |-> 0, len |-> RecLen(j)]
      /\ PartOf(j, "first") = [pos |-> 0, len |-> j.cut]
      /\ PartOf(j, "last") = [pos |-> j.cut, len |-> RecLen(j) - j.cut]
  BY DEF PartOf
<1> QED
  BY <1>1

LEMMA PartPlace ==
  ASSUME NEW j \in Jobs, NEW part \in {"whole", "first", "last"}
  PROVE  PartOf(j, part).pos \in Nat /\ PartOf(j, part).len \in Nat
<1>1. RecLen(j) \in Nat /\ j.cut \in Nat /\ j.cut < RecLen(j)
  BY JobIs
<1>2. CASE part = "whole"
  <2>1. PartOf(j, "whole").pos = 0 /\ PartOf(j, "whole").len = RecLen(j)
    BY PartIs
  <2> QED
    BY <1>1, <1>2, <2>1
<1>3. CASE part = "first"
  <2>1. PartOf(j, "first").pos = 0 /\ PartOf(j, "first").len = j.cut
    BY PartIs
  <2> QED
    BY <1>1, <1>3, <2>1
<1>4. CASE part = "last"
  <2>1. PartOf(j, "last").pos = j.cut /\ PartOf(j, "last").len = RecLen(j) - j.cut
    BY PartIs
  <2>2. RecLen(j) - j.cut \in Nat
    BY <1>1
  <2> QED
    BY <1>1, <1>4, <2>1, <2>2
<1> QED
  BY <1>2, <1>3, <1>4

(* What each part holds.                                                   *)
LEMMA PartSides ==
  ASSUME NEW j \in Jobs
  PROVE  /\ Side(0, RecLen(j), j.nbb, j.fpix, 0, j.n1, 0, 0)
         /\ Side(0, j.cut, j.nbb, j.fpix, 0, CutAt(j), 0, CutAfter(j))
         /\ Side(j.cut, RecLen(j) - j.cut, j.nbb, j.fpix,
                 NextPixel(j), j.n1, BytesLeft(j), 0)
<1> DEFINE q == CutAt(j)
           r == CutAfter(j)
           d == j.fpix
           w == q * d
           n == j.n1 * d
           len == RecLen(j)
<1>1. /\ j.nbb \in Nat /\ j.n1 \in Nat \ {0} /\ d \in Nat \ {0} /\ j.cut \in Nat \ {0}
      /\ len = j.nbb + n /\ j.cut < len /\ n \in Nat
  BY JobIs
<1>2. /\ q \in Int /\ r \in Int /\ j.cut = j.nbb + w + r
      /\ Remains(q, r, d)
      /\ j.cut > j.nbb => q >= 0 /\ r >= 0
      /\ j.cut <= j.nbb => q <= 0 /\ r <= 0
      /\ NextPixel(j) \in Nat /\ NextPixel(j) <= j.n1
      /\ BytesLeft(j) \in 0 .. (d - 1)
  BY CutIs
<1>3. w \in Int
  BY <1>1, <1>2, MulSums
<1>4. /\ NextPixel(j) = IF r > 0 THEN q + 1 ELSE MaxOf(q, 0)
      /\ BytesLeft(j) = IF r > 0 THEN d - r ELSE 0
  BY DEF NextPixel, BytesLeft
<1> HIDE DEF q, r, d, len
<1>5. len \in Nat /\ len - j.cut \in Nat
  BY <1>1
<1>6. Side(0, len, j.nbb, d, 0, j.n1, 0, 0)
  <2>1. 0 + len = j.nbb + j.n1 * d + 0
    <3> HIDE DEF n
    <3>1. 0 + len = j.nbb + n + 0
      BY <1>1, <1>5
    <3> QED
      BY <3>1 DEF n
  <2> QED
    BY <1>1, <1>5, <2>1 DEF Side
<1>7. Side(0, j.cut, j.nbb, d, 0, q, 0, r)
  <2>1. 0 + j.cut = j.nbb + q * d + r
    BY <1>1, <1>2
  <2>2. \/ 0 <= q /\ 0 <= r /\ 0 + r < d
        \/ q <= 0 /\ -d < r /\ r <= 0 /\ 0 <= j.nbb
    BY <1>1, <1>2 DEF Remains
  <2> QED
    BY <1>1, <1>2, <2>1, <2>2 DEF Side
<1>8. Side(j.cut, len - j.cut, j.nbb, d, NextPixel(j), j.n1, BytesLeft(j), 0)
  <2>1. j.cut + (len - j.cut) = j.nbb + j.n1 * d + 0
    <3> HIDE DEF n
    <3>1. j.cut + (len - j.cut) = j.nbb + n + 0
      BY <1>1, <1>5
    <3> QED
      BY <3>1 DEF n
  <2>2. CASE j.cut <= j.nbb
    <3>1. NextPixel(j) = 0 /\ BytesLeft(j) = 0
      BY <1>2, <1>4, <2>2 DEF MaxOf
    <3> QED
      BY <1>1, <1>2, <1>5, <2>1, <2>2, <3>1 DEF Side
  <2>3. CASE j.cut > j.nbb
    <3>1. (q + 1) * d = w + d
      BY <1>1, <1>2, MulSums
    <3>2. j.cut + BytesLeft(j) = j.nbb + NextPixel(j) * d
      <4>1. CASE r > 0
        <5> HIDE DEF w
        <5>1. j.cut + (d - r) = j.nbb + (w + d)
          BY <1>1, <1>2, <1>3
        <5> QED
          BY <1>4, <3>1, <4>1, <5>1
      <4>2. CASE ~(r > 0)
        <5>1. NextPixel(j) = q /\ BytesLeft(j) = 0 /\ r = 0
          BY <1>2, <1>4, <2>3, <4>2 DEF MaxOf
        <5>2. j.cut + 0 = j.nbb + w
          <6> HIDE DEF w
          <6> QED
            BY <1>1, <1>2, <1>3, <5>1
        <5> QED
          BY <5>1, <5>2
      <4> QED
        BY <4>1, <4>2
    <3>3. BytesLeft(j) < d /\ BytesLeft(j) + 0 < d /\ BytesLeft(j) \in Nat
      BY <1>1, <1>2
    <3> QED
      BY <1>1, <1>2, <1>5, <2>1, <2>3, <3>2, <3>3 DEF Side
  <2> QED
    BY <1>1, <2>2, <2>3
<1> QED
  BY <1>6, <1>7, <1>8 DEF q, r, d, len

-----------------------------------------------------------------------------
(* The destination with the overlap's prefix and the pixels in S.          *)

Given(s, d, t, S) ==
  [i \in DOMAIN d.bytes |->
     LET b == d.pos + i
         q == PixelOf(b, t.notrans, t.dpix)
     IN  IF b < t.notrans
           THEN IF MaxOf(s.pos, d.pos) <= b /\ b < MinOf(s.pos + s.len, d.pos + d.len)
                  THEN Prefix(b) ELSE d.bytes[i]
           ELSE IF 0 <= i /\ i < d.len /\ q \in S
                  THEN Cooked(q, PlaceIn(b, t.notrans, t.dpix)) ELSE d.bytes[i]]

Between(lo, hi) == lo .. (hi - 1)

LEMMA CopiedIsGiven ==
  ASSUME NEW s, NEW d, NEW t, Ready(s, d, t), NEW da, NEW db, NEW dx, NEW dy,
         Side(d.pos, d.len, t.notrans, t.dpix, da, db, dx, dy),
         NEW lo \in Int, NEW hi \in Int, da <= lo, hi <= db
  PROVE  Copied(s, d, t, lo, hi) = Given(s, d, t, Between(lo, hi))
<1> DEFINE S == lo .. (hi - 1)
<1>1. /\ d.pos \in Nat /\ d.len \in Nat /\ t.notrans \in Nat /\ t.dpix \in Nat \ {0}
      /\ da \in Nat
  BY DEF Side
<1>2. ASSUME NEW i \in DOMAIN d.bytes
      PROVE  Copied(s, d, t, lo, hi)[i] = Given(s, d, t, S)[i]
  <2> DEFINE b == d.pos + i
             q == PixelOf(b, t.notrans, t.dpix)
             k == PlaceIn(b, t.notrans, t.dpix)
  <2>1. i \in Int /\ b \in Int
    BY <1>1 DEF Ready
  <2>2. ASSUME ~(b < t.notrans)
        PROVE  lo <= q /\ q < hi <=> 0 <= i /\ i < d.len /\ q \in S
    <3>1. q \in Nat /\ k \in 0 .. (t.dpix - 1) /\ b = t.notrans + q * t.dpix + k
      BY <1>1, <2>1, <2>2, PixelFacts
    <3> HIDE DEF q, k
    <3>2. ASSUME lo <= q, q < hi PROVE 0 <= i /\ i < d.len
      <4>1. da <= q /\ q < db
        BY <1>1, <3>1, <3>2 DEF Side
      <4>2. d.pos <= t.notrans + q * t.dpix /\ t.notrans + q * t.dpix + t.dpix <= d.pos + d.len
        BY <3>1, <4>1, SidePixel
      <4>3. q * t.dpix \in Nat
        BY <1>1, <3>1, MulSums
      <4>4. d.pos <= b /\ b < d.pos + d.len
        BY <1>1, <3>1, <4>2, <4>3
      <4> QED
        BY <1>1, <2>1, <4>4
    <3> HIDE DEF b
    <3> QED
      BY <3>1, <3>2
  <2>3. Copied(s, d, t, lo, hi)[i] =
          IF b < t.notrans
            THEN IF MaxOf(s.pos, d.pos) <= b /\ b < MinOf(s.pos + s.len, d.pos + d.len)
                   THEN Prefix(b) ELSE d.bytes[i]
            ELSE IF lo <= q /\ q < hi THEN Cooked(q, k) ELSE d.bytes[i]
    BY Zenon DEF Copied
  <2>4. Given(s, d, t, S)[i] =
          IF b < t.notrans
            THEN IF MaxOf(s.pos, d.pos) <= b /\ b < MinOf(s.pos + s.len, d.pos + d.len)
                   THEN Prefix(b) ELSE d.bytes[i]
            ELSE IF 0 <= i /\ i < d.len /\ q \in S THEN Cooked(q, k) ELSE d.bytes[i]
    BY Zenon DEF Given
  <2> HIDE DEF b, q, k, S
  <2> QED
    BY <2>2, <2>3, <2>4
<1>3. /\ Copied(s, d, t, lo, hi) = [i \in DOMAIN d.bytes |-> Copied(s, d, t, lo, hi)[i]]
      /\ Given(s, d, t, S) = [i \in DOMAIN d.bytes |-> Given(s, d, t, S)[i]]
  BY Zenon DEF Copied, Given
<1> HIDE DEF S
<1>4. Copied(s, d, t, lo, hi) = Given(s, d, t, S)
  BY <1>2, <1>3
<1> QED
  BY <1>4 DEF S, Between

LEMMA WithPixelIsGiven ==
  ASSUME NEW s, NEW d, NEW t, Ready(s, d, t), NEW S, NEW c, d.pos \in Nat, t.notrans \in Nat
  PROVE  WithPixel(Given(s, d, t, S), d, t, c) = Given(s, d, t, S \cup {c})
<1> DEFINE G == Given(s, d, t, S)
           H == Given(s, d, t, S \cup {c})
<1>1. ASSUME NEW i \in DOMAIN d.bytes
      PROVE  WithPixel(G, d, t, c)[i] = H[i]
  <2> DEFINE b == d.pos + i
             q == PixelOf(b, t.notrans, t.dpix)
             k == PlaceIn(b, t.notrans, t.dpix)
             prefix == IF MaxOf(s.pos, d.pos) <= b /\ b < MinOf(s.pos + s.len, d.pos + d.len)
                         THEN Prefix(b) ELSE d.bytes[i]
             here == 0 <= i /\ i < d.len
  <2>1. b \in Int
    BY DEF Ready
  <2>2. G[i] = IF b < t.notrans THEN prefix
               ELSE IF here /\ q \in S THEN Cooked(q, k) ELSE d.bytes[i]
    BY Zenon DEF Given
  <2>3. H[i] = IF b < t.notrans THEN prefix
               ELSE IF here /\ q \in S \cup {c} THEN Cooked(q, k) ELSE d.bytes[i]
    BY Zenon DEF Given
  <2>4. DOMAIN G = DOMAIN d.bytes
    BY Zenon DEF Given
  <2>5. WithPixel(G, d, t, c)[i] =
          IF here /\ b >= t.notrans /\ q = c THEN Cooked(c, k) ELSE G[i]
    BY <2>4 DEF WithPixel
  <2>6. b >= t.notrans <=> ~(b < t.notrans)
    BY <2>1
  <2> HIDE DEF G, H, b, q, k, prefix, here
  <2> QED
    BY <2>2, <2>3, <2>5, <2>6
<1>2. /\ WithPixel(G, d, t, c) = [i \in DOMAIN G |-> WithPixel(G, d, t, c)[i]]
      /\ DOMAIN G = DOMAIN d.bytes
      /\ H = [i \in DOMAIN d.bytes |-> H[i]]
  BY Zenon DEF WithPixel, Given
<1> HIDE DEF G, H
<1>3. WithPixel(G, d, t, c) = H
  BY <1>1, <1>2
<1> QED
  BY <1>3 DEF G, H

(* No pixel is cut.                                                        *)
LEMMA MovesWhole ==
  ASSUME NEW s, NEW d, NEW t, NEW pp,
         NEW sa, NEW sb, NEW da, NEW db,
         Bounds(s, d, t, sa, sb, 0, 0, da, db, 0, 0), Ready(s, d, t), t.translates,
         NEW lo, NEW hi, Overlap(sa, sb, da, db, lo, hi)
  PROVE  MoveTrans(s, d, t, pp) = State(Copied(s, d, t, lo, hi), pp)
<1>1. /\ d.pos \in Nat /\ t.notrans \in Nat /\ t.dpix \in Nat \ {0}
      /\ lo \in Nat /\ hi \in Int
  BY DEF Bounds, Side, Overlap, MaxOf, MinOf
<1>2. OneCut(0, 0, 0, 0)
  BY DEF OneCut
<1> DEFINE m == State(Copied(s, d, t, lo, hi), pp)
<1>3. MoveTrans(s, d, t, pp) =
        IF hi < lo THEN State(Copied(s, d, t, 0, 0), pp)
        ELSE Rest(m, s, d, t, lo, hi, 0, 0, 0, 0)
  BY <1>2, MoveTransIs
<1>4. Rest(m, s, d, t, lo, hi, 0, 0, 0, 0) = m
  BY DEF Rest
<1>5. hi < lo => Copied(s, d, t, 0, 0) = Copied(s, d, t, lo, hi)
  BY <1>1, NothingCopied
<1> QED
  BY <1>3, <1>4, <1>5

-----------------------------------------------------------------------------
(* The steps of a call that translates.                                    *)

ReadFormats(j) ==
  [spix |-> j.fpix, dpix |-> j.upix, notrans |-> j.nbb, translates |-> j.translates]
WriteFormats(j) ==
  [spix |-> j.upix, dpix |-> j.fpix, notrans |-> j.nbb, translates |-> j.translates]

ReadFrom(j, part) == Full(PartOf(j, part), j.nbb, j.fpix)
ReadInto(j, bytes) == Into(Request(j), bytes)
WriteFrom(j) == Full(Request(j), j.nbb, j.upix)
WriteInto(j, part, bytes) == Into(PartOf(j, part), bytes)

(* The call asks for the pixel that is cut.                                *)
AskedCut(j) ==
  CutAfter(j) > 0 /\ StartPixel(j) <= CutAt(j) /\ CutAt(j) < LastPixel(j)

AskedPixels(j) == StartPixel(j) .. (LastPixel(j) - 1)

(* The pixels that all bytes of a part are of.                             *)
WholePixels(j, part) ==
  CASE part = "whole" -> StartPixel(j) .. (LastPixel(j) - 1)
    [] part = "first" -> StartPixel(j) .. (MinOf(CutAt(j), EndPixel(j)) - 1)
    [] part = "last"  -> MaxOf(NextPixel(j), StartPixel(j)) .. (LastPixel(j) - 1)

LEMMA WholePixelsAre ==
  ASSUME NEW j
  PROVE  /\ WholePixels(j, "whole") = StartPixel(j) .. (LastPixel(j) - 1)
         /\ WholePixels(j, "first") = StartPixel(j) .. (MinOf(CutAt(j), EndPixel(j)) - 1)
         /\ WholePixels(j, "last") =
              MaxOf(NextPixel(j), StartPixel(j)) .. (LastPixel(j) - 1)
BY DEF WholePixels

LEMMA InWholePixels ==
  ASSUME NEW j \in Jobs, Sound(j), NEW q
  PROVE  /\ q \in WholePixels(j, "whole") <=> q \in AskedPixels(j)
         /\ q \in WholePixels(j, "first") <=> q \in AskedPixels(j) /\ q < CutAt(j)
         /\ q \in WholePixels(j, "last") <=> q \in AskedPixels(j) /\ q >= NextPixel(j)
<1>1. /\ StartPixel(j) \in Int /\ LastPixel(j) \in Int /\ EndPixel(j) \in Int
      /\ CutAt(j) \in Int /\ NextPixel(j) \in Int /\ j.n1 \in Int
      /\ CutAt(j) < j.n1
  BY FirstSampleIs, CutIs, JobIs
<1>2. LastPixel(j) = IF EndPixel(j) > j.n1 THEN j.n1 ELSE EndPixel(j)
  BY DEF LastPixel, MinOf
<1>3. q \in WholePixels(j, "whole") <=> q \in AskedPixels(j)
  BY WholePixelsAre DEF AskedPixels
<1>4. q \in WholePixels(j, "first") <=> q \in AskedPixels(j) /\ q < CutAt(j)
  BY <1>1, <1>2, WholePixelsAre DEF AskedPixels, MinOf
<1>5. q \in WholePixels(j, "last") <=> q \in AskedPixels(j) /\ q >= NextPixel(j)
  BY <1>1, WholePixelsAre DEF AskedPixels, MaxOf
<1> QED
  BY <1>3, <1>4, <1>5

LEMMA IntoIs ==
  ASSUME NEW place, NEW bytes
  PROVE  /\ Into(place, bytes).pos = place.pos /\ Into(place, bytes).len = place.len
         /\ Into(place, bytes).bytes = bytes
BY DEF Into

LEMMA FormatsAre ==
  ASSUME NEW j
  PROVE  /\ ReadFormats(j).spix = j.fpix /\ ReadFormats(j).dpix = j.upix
         /\ ReadFormats(j).notrans = j.nbb /\ ReadFormats(j).translates = j.translates
         /\ WriteFormats(j).spix = j.upix /\ WriteFormats(j).dpix = j.fpix
         /\ WriteFormats(j).notrans = j.nbb /\ WriteFormats(j).translates = j.translates
BY DEF ReadFormats, WriteFormats

LEMMA RequestIs ==
  ASSUME NEW j
  PROVE  Request(j).pos = StartByte(j) /\ Request(j).len = NBytes(j)
BY DEF Request

(* What a part holds, as PartSides finds it.                               *)
PartSide(j, part, a, b, x, y) ==
  \/ part = "whole" /\ a = 0 /\ b = j.n1 /\ x = 0 /\ y = 0
  \/ part = "first" /\ a = 0 /\ b = CutAt(j) /\ x = 0 /\ y = CutAfter(j)
  \/ part = "last" /\ a = NextPixel(j) /\ b = j.n1 /\ x = BytesLeft(j) /\ y = 0

LEMMA PartSideIs ==
  ASSUME NEW j \in Jobs, NEW part, NEW a, NEW b, NEW x, NEW y,
         PartSide(j, part, a, b, x, y)
  PROVE  Side(PartOf(j, part).pos, PartOf(j, part).len, j.nbb, j.fpix, a, b, x, y)
<1>1. CASE part = "whole"
  <2>1. a = 0 /\ b = j.n1 /\ x = 0 /\ y = 0
    BY <1>1 DEF PartSide
  <2>2. PartOf(j, part).pos = 0 /\ PartOf(j, part).len = RecLen(j)
    BY <1>1, PartIs
  <2> QED
    BY <2>1, <2>2, PartSides
<1>2. CASE part = "first"
  <2>1. a = 0 /\ b = CutAt(j) /\ x = 0 /\ y = CutAfter(j)
    BY <1>2 DEF PartSide
  <2>2. PartOf(j, part).pos = 0 /\ PartOf(j, part).len = j.cut
    BY <1>2, PartIs
  <2> QED
    BY <2>1, <2>2, PartSides
<1>3. CASE part = "last"
  <2>1. a = NextPixel(j) /\ b = j.n1 /\ x = BytesLeft(j) /\ y = 0
    BY <1>3 DEF PartSide
  <2>2. PartOf(j, part).pos = j.cut /\ PartOf(j, part).len = RecLen(j) - j.cut
    BY <1>3, PartIs
  <2> QED
    BY <2>1, <2>2, PartSides
<1> QED
  BY <1>1, <1>2, <1>3 DEF PartSide

LEMMA ReadBounds ==
  ASSUME NEW j \in Jobs, Sound(j), NEW part, NEW bytes, \A i \in DOMAIN bytes : i \in Int,
         NEW a, NEW b, NEW x, NEW y, PartSide(j, part, a, b, x, y)
  PROVE  /\ Bounds(ReadFrom(j, part), ReadInto(j, bytes), ReadFormats(j),
                   a, b, x, y, StartPixel(j), EndPixel(j), 0, 0)
         /\ Ready(ReadFrom(j, part), ReadInto(j, bytes), ReadFormats(j))
<1> DEFINE s == ReadFrom(j, part)
           d == ReadInto(j, bytes)
           t == ReadFormats(j)
           place == PartOf(j, part)
<1>1. Side(place.pos, place.len, j.nbb, j.fpix, a, b, x, y)
  BY PartSideIs
<1>2. place.pos \in Nat /\ place.len \in Nat
  BY <1>1 DEF Side
<1>3. s.pos = place.pos /\ s.len = place.len /\ Source(s, j.nbb, j.fpix)
  BY <1>2, FullIsSource DEF ReadFrom
<1>4. d.pos = StartByte(j) /\ d.len = NBytes(j) /\ d.bytes = bytes
  BY IntoIs, RequestIs DEF ReadInto
<1>5. t.spix = j.fpix /\ t.dpix = j.upix /\ t.notrans = j.nbb
  BY FormatsAre
<1>6. Side(StartByte(j), NBytes(j), j.nbb, j.upix, StartPixel(j), EndPixel(j), 0, 0)
  BY RequestSide
<1> HIDE DEF s, d, t, place
<1>7. Bounds(s, d, t, a, b, x, y, StartPixel(j), EndPixel(j), 0, 0)
  BY <1>1, <1>3, <1>4, <1>5, <1>6 DEF Bounds
<1>8. Ready(s, d, t)
  BY <1>3, <1>4, <1>5 DEF Ready
<1> QED
  BY <1>7, <1>8 DEF s, d, t

LEMMA WriteBounds ==
  ASSUME NEW j \in Jobs, Sound(j), NEW part, NEW bytes, \A i \in DOMAIN bytes : i \in Int,
         NEW a, NEW b, NEW x, NEW y, PartSide(j, part, a, b, x, y)
  PROVE  /\ Bounds(WriteFrom(j), WriteInto(j, part, bytes), WriteFormats(j),
                   StartPixel(j), EndPixel(j), 0, 0, a, b, x, y)
         /\ Ready(WriteFrom(j), WriteInto(j, part, bytes), WriteFormats(j))
<1> DEFINE s == WriteFrom(j)
           d == WriteInto(j, part, bytes)
           t == WriteFormats(j)
           place == PartOf(j, part)
<1>1. Side(place.pos, place.len, j.nbb, j.fpix, a, b, x, y)
  BY PartSideIs
<1>2. Side(StartByte(j), NBytes(j), j.nbb, j.upix, StartPixel(j), EndPixel(j), 0, 0)
  BY RequestSide
<1>3. Request(j).pos = StartByte(j) /\ Request(j).len = NBytes(j)
  BY RequestIs
<1>4. StartByte(j) \in Nat /\ NBytes(j) \in Nat
  BY <1>2 DEF Side
<1>5. s.pos = StartByte(j) /\ s.len = NBytes(j) /\ Source(s, j.nbb, j.upix)
  BY <1>3, <1>4, FullIsSource DEF WriteFrom
<1>6. d.pos = place.pos /\ d.len = place.len /\ d.bytes = bytes
  BY IntoIs DEF WriteInto
<1>7. t.spix = j.upix /\ t.dpix = j.fpix /\ t.notrans = j.nbb
  BY FormatsAre
<1> HIDE DEF s, d, t, place
<1>8. Bounds(s, d, t, StartPixel(j), EndPixel(j), 0, 0, a, b, x, y)
  BY <1>1, <1>2, <1>5, <1>6, <1>7 DEF Bounds
<1>9. Ready(s, d, t)
  BY <1>5, <1>6, <1>7 DEF Ready
<1> QED
  BY <1>8, <1>9 DEF s, d, t

LEMMA SpanIs ==
  ASSUME NEW j \in Jobs, NEW part, NEW a, NEW b, NEW x, NEW y,
         PartSide(j, part, a, b, x, y)
  PROVE  \E lo, hi \in Int :
           /\ Overlap(a, b, StartPixel(j), EndPixel(j), lo, hi)
           /\ Overlap(StartPixel(j), EndPixel(j), a, b, lo, hi)
           /\ lo .. (hi - 1) = WholePixels(j, part)
           /\ a <= lo /\ hi <= b /\ StartPixel(j) <= lo /\ hi <= EndPixel(j)
<1> DEFINE lo == MaxOf(a, StartPixel(j))
           hi == MinOf(b, EndPixel(j))
<1>1. /\ StartPixel(j) \in Nat /\ EndPixel(j) \in Int
      /\ CutAt(j) \in Int /\ NextPixel(j) \in Nat /\ j.n1 \in Nat
  BY FirstSampleIs, CutIs, JobIs
<1>2. a \in Nat /\ b \in Int
  BY <1>1 DEF PartSide
<1>3. /\ lo \in Int /\ hi \in Int
      /\ lo = MaxOf(StartPixel(j), a) /\ hi = MinOf(EndPixel(j), b)
      /\ a <= lo /\ hi <= b /\ StartPixel(j) <= lo /\ hi <= EndPixel(j)
  BY <1>1, <1>2 DEF MaxOf, MinOf
<1>4. lo .. (hi - 1) = WholePixels(j, part)
  <2>1. CASE part = "whole"
    <3>1. lo = StartPixel(j) /\ hi = LastPixel(j)
      BY <1>1, <2>1 DEF PartSide, LastPixel, MaxOf, MinOf
    <3> HIDE DEF lo, hi
    <3> QED
      BY <2>1, <3>1, WholePixelsAre
  <2>2. CASE part = "first"
    <3>1. lo = StartPixel(j) /\ hi = MinOf(CutAt(j), EndPixel(j))
      BY <1>1, <2>2 DEF PartSide, MaxOf
    <3> HIDE DEF lo, hi
    <3> QED
      BY <2>2, <3>1, WholePixelsAre
  <2>3. CASE part = "last"
    <3>1. lo = MaxOf(NextPixel(j), StartPixel(j)) /\ hi = LastPixel(j)
      BY <1>1, <2>3 DEF PartSide, LastPixel, MinOf
    <3> HIDE DEF lo, hi
    <3> QED
      BY <2>3, <3>1, WholePixelsAre
  <2> QED
    BY <2>1, <2>2, <2>3 DEF PartSide
<1>5. /\ Overlap(a, b, StartPixel(j), EndPixel(j), lo, hi)
      /\ Overlap(StartPixel(j), EndPixel(j), a, b, lo, hi)
  BY <1>3 DEF Overlap
<1> HIDE DEF lo, hi
<1> QED
  BY <1>3, <1>4, <1>5

(* One call of v2_movetrans for a read, and what it copies whole.          *)
ReadCall(j, part, bytes, pp) ==
  MoveTrans(ReadFrom(j, part), ReadInto(j, bytes), ReadFormats(j), pp)
ReadGiven(j, part, bytes) ==
  Given(ReadFrom(j, part), ReadInto(j, bytes), ReadFormats(j), WholePixels(j, part))

(* What a lemma about v2_movetrans needs to know of a read.                *)
ReadSpan(j, part, bytes, a, b, x, y, lo, hi) ==
  /\ Bounds(ReadFrom(j, part), ReadInto(j, bytes), ReadFormats(j),
            a, b, x, y, StartPixel(j), EndPixel(j), 0, 0)
  /\ Ready(ReadFrom(j, part), ReadInto(j, bytes), ReadFormats(j))
  /\ ReadFormats(j).translates /\ ReadFormats(j).spix \in 1 .. MaxPixel
  /\ Overlap(a, b, StartPixel(j), EndPixel(j), lo, hi)
  /\ Copied(ReadFrom(j, part), ReadInto(j, bytes), ReadFormats(j), lo, hi)
       = ReadGiven(j, part, bytes)

LEMMA ReadSpans ==
  ASSUME NEW j \in Jobs, Sound(j), j.translates,
         NEW part, NEW bytes, \A i \in DOMAIN bytes : i \in Int,
         NEW a, NEW b, NEW x, NEW y, PartSide(j, part, a, b, x, y)
  PROVE  \E lo, hi \in Int : ReadSpan(j, part, bytes, a, b, x, y, lo, hi)
<1> DEFINE s == ReadFrom(j, part)
           d == ReadInto(j, bytes)
           t == ReadFormats(j)
<1>1. PICK lo, hi \in Int :
        /\ Overlap(a, b, StartPixel(j), EndPixel(j), lo, hi)
        /\ lo .. (hi - 1) = WholePixels(j, part)
        /\ StartPixel(j) <= lo /\ hi <= EndPixel(j)
  BY SpanIs
<1>2. /\ Bounds(s, d, t, a, b, x, y, StartPixel(j), EndPixel(j), 0, 0)
      /\ Ready(s, d, t)
  BY ReadBounds
<1>3. t.translates /\ t.spix \in 1 .. MaxPixel
  BY FormatsAre, JobIs
<1> HIDE DEF s, d, t
<1>4. Side(d.pos, d.len, t.notrans, t.dpix, StartPixel(j), EndPixel(j), 0, 0)
  BY <1>2 DEF Bounds
<1>5. Copied(s, d, t, lo, hi) = Given(s, d, t, Between(lo, hi))
  <2>1. lo \in Int /\ hi \in Int /\ StartPixel(j) <= lo /\ hi <= EndPixel(j) /\ Ready(s, d, t)
    BY <1>1, <1>2
  <2> QED
    BY <1>4, <2>1, CopiedIsGiven
<1>6. Copied(s, d, t, lo, hi) = ReadGiven(j, part, bytes)
  BY <1>1, <1>5 DEF ReadGiven, s, d, t, Between
<1> QED
  BY <1>1, <1>2, <1>3, <1>6 DEF ReadSpan, s, d, t

LEMMA ReadUncut ==
  ASSUME NEW j \in Jobs, Sound(j), j.translates,
         NEW part, NEW bytes, \A i \in DOMAIN bytes : i \in Int, NEW pp,
         NEW a, NEW b, PartSide(j, part, a, b, 0, 0)
  PROVE  ReadCall(j, part, bytes, pp) = State(ReadGiven(j, part, bytes), pp)
<1>1. PICK lo, hi \in Int : ReadSpan(j, part, bytes, a, b, 0, 0, lo, hi)
  BY ReadSpans
<1> QED
  BY <1>1, MovesWhole DEF ReadSpan, ReadCall

InTwoParts(j) == j.pieces \in {<<"first", "last">>, <<"last", "first">>}

LEMMA CutPixelIs ==
  ASSUME NEW j \in Jobs, j.translates, InTwoParts(j), CutAfter(j) > 0
  PROVE  CutsAPixel(j) /\ CutPixel(j) = j.nbb + CutAt(j) /\ CutAt(j) \in Nat
<1> DEFINE q == CutAt(j)
           r == CutAfter(j)
           d == j.fpix
<1>1. /\ q \in Int /\ r \in Int /\ j.nbb \in Nat /\ d \in Nat \ {0} /\ j.cut \in Nat
      /\ j.cut = j.nbb + q * d + r /\ Remains(q, r, d) /\ ~(j.cut <= j.nbb)
  BY CutIs, JobIs
<1>2. q \in Nat /\ r \in 0 .. (d - 1) /\ r # 0
  BY <1>1 DEF Remains
<1> HIDE DEF q, r, d
<1>3. (q * d + r) \div d = q /\ (q * d + r) % d = r
  BY <1>1, <1>2, Division
<1>4. j.cut - j.nbb = q * d + r
  <2>1. q * d \in Nat
    BY <1>1, <1>2, MulSums
  <2> QED
    BY <1>1, <1>2, <2>1
<1>5. (j.cut - j.nbb) \div d = q /\ (j.cut - j.nbb) % d = r
  BY <1>3, <1>4, Zenon
<1>6. j.cut > j.nbb
  BY <1>1
<1>7. CutsAPixel(j) /\ CutPixel(j) = j.nbb + q
  BY <1>2, <1>5, <1>6 DEF CutsAPixel, CutPixel, InTwoParts, d
<1> QED
  BY <1>2, <1>7 DEF q

(* A call that comes out right, and asks for the pixel that is cut, reads  *)
(* a pixel after it.                                                       *)
LEMMA ReadsOn ==
  ASSUME NEW j \in Jobs, Sound(j), j.translates, ~j.write, InTwoParts(j), AskedCut(j)
  PROVE  CutAt(j) + 1 < LastPixel(j)
<1>1. /\ CutsAPixel(j) /\ CutPixel(j) = j.nbb + CutAt(j) /\ CutAt(j) \in Nat
      /\ j.nbb \in Nat
  BY CutPixelIs, JobIs DEF AskedCut
<1>2. ~ReadEndsAtTheCut(j)
  BY <1>1 DEF Sound, EndsAtTheCut
<1>3. Asked(j) = FirstSample(j) .. (j.nbb + LastPixel(j) - 1)
  BY SomePixels
<1>4. /\ FirstSample(j) \in Nat /\ LastPixel(j) \in Int
      /\ CutAt(j) < LastPixel(j) /\ FirstSample(j) <= j.nbb + CutAt(j)
  BY <1>1, FirstSampleIs DEF AskedCut, StartPixel, MaxOf
<1>5. CutPixel(j) \in Asked(j)
  BY <1>1, <1>3, <1>4
<1>6. PICK u \in Asked(j) : ~(u <= CutPixel(j))
  BY <1>2, <1>5 DEF ReadEndsAtTheCut
<1> QED
  BY <1>1, <1>3, <1>4, <1>6

(* A write that comes out right reaches the pixel that is cut.             *)
LEMMA WritesTheCut ==
  ASSUME NEW j \in Jobs, Sound(j), j.translates, j.write, InTwoParts(j), CutAfter(j) > 0
  PROVE  CutAt(j) < LastPixel(j)
<1>1. /\ CutsAPixel(j) /\ CutPixel(j) = j.nbb + CutAt(j) /\ CutAt(j) \in Nat
      /\ j.nbb \in Nat
  BY CutPixelIs, JobIs
<1>2. ~WriteEndsBeforeTheCut(j)
  BY <1>1 DEF Sound, EndsAtTheCut
<1>3. Asked(j) = FirstSample(j) .. (j.nbb + LastPixel(j) - 1)
  BY SomePixels
<1>4. FirstSample(j) \in Nat /\ LastPixel(j) \in Int
  BY FirstSampleIs
<1>5. PICK u \in Asked(j) : ~(u < CutPixel(j))
  BY <1>2 DEF WriteEndsBeforeTheCut
<1> QED
  BY <1>1, <1>3, <1>4, <1>5

(* The first part of a record, read.                                       *)
LEMMA ReadFirst ==
  ASSUME NEW j \in Jobs, Sound(j), j.translates, ~j.write,
         NEW bytes, \A i \in DOMAIN bytes : i \in Int, NEW pp, Partial(pp)
  PROVE  LET m == ReadCall(j, "first", bytes, pp)
             given == ReadGiven(j, "first", bytes)
         IN  /\ CutAfter(j) = 0 => m = State(given, pp)
             /\ CutAfter(j) < 0 /\ pp.pplen = 0 =>
                  \E seen : Partial(seen) /\ m = State(given, seen)
             /\ InTwoParts(j) /\ CutAfter(j) > 0 /\ ~AskedCut(j) => m = State(given, pp)
             /\ InTwoParts(j) /\ AskedCut(j) =>
                  SourcePart(m, given, ReadInto(j, bytes), ReadFormats(j),
                             CutAt(j), 0, CutAfter(j), pp)
<1> DEFINE m == ReadCall(j, "first", bytes, pp)
           given == ReadGiven(j, "first", bytes)
           s == ReadFrom(j, "first")
           d == ReadInto(j, bytes)
           t == ReadFormats(j)
           r == CutAfter(j)
           c == CutAt(j)
<1>1. PartSide(j, "first", 0, c, 0, r)
  BY DEF PartSide
<1>2. PICK lo, hi \in Int : ReadSpan(j, "first", bytes, 0, c, 0, r, lo, hi)
  BY <1>1, ReadSpans
<1>3. /\ Bounds(s, d, t, 0, c, 0, r, StartPixel(j), EndPixel(j), 0, 0)
      /\ Ready(s, d, t) /\ t.translates /\ t.spix \in 1 .. MaxPixel
      /\ Overlap(0, c, StartPixel(j), EndPixel(j), lo, hi)
      /\ Copied(s, d, t, lo, hi) = given
  BY <1>2 DEF ReadSpan
<1>4. m = MoveTrans(s, d, t, pp)
  BY DEF ReadCall
<1>5. /\ c \in Int /\ r \in Int /\ StartPixel(j) \in Int /\ EndPixel(j) \in Int
      /\ LastPixel(j) <= EndPixel(j) /\ c < j.n1 /\ j.n1 \in Int
  BY CutIs, FirstSampleIs, SomePixels, JobIs
<1> HIDE DEF m, given, s, d, t, r, c
<1>6. r = 0 => m = State(given, pp)
  BY <1>3, <1>4, MovesWhole
<1>7. ASSUME r < 0, pp.pplen = 0
      PROVE  \E seen : Partial(seen) /\ m = State(given, seen)
  BY <1>3, <1>4, <1>7, ReadToThePrefix
<1>8. ASSUME r > 0
      PROVE  /\ StartPixel(j) <= c /\ c + 1 < EndPixel(j) => SourcePart(m, given, d, t, c, 0, r, pp)
             /\ ~(StartPixel(j) <= c /\ c + 1 < EndPixel(j)) => m = State(given, pp)
  BY <1>3, <1>4, <1>8, ReadToACut
<1>9. AskedCut(j) => r > 0 /\ StartPixel(j) <= c
  BY DEF AskedCut, r, c
<1>10. InTwoParts(j) /\ AskedCut(j) => c + 1 < EndPixel(j)
  <2>1. InTwoParts(j) /\ AskedCut(j) => c + 1 < LastPixel(j)
    BY ReadsOn DEF c
  <2>2. LastPixel(j) \in Int
    BY FirstSampleIs
  <2> QED
    BY <1>5, <2>1, <2>2
<1>11. r > 0 /\ ~AskedCut(j) => ~(StartPixel(j) <= c /\ c + 1 < EndPixel(j))
  <2>1. r > 0 /\ ~AskedCut(j) => ~(StartPixel(j) <= c /\ c < LastPixel(j))
    BY DEF AskedCut, r, c
  <2>2. LastPixel(j) = IF EndPixel(j) > j.n1 THEN j.n1 ELSE EndPixel(j)
    BY DEF LastPixel, MinOf
  <2> QED
    BY <1>5, <2>1, <2>2
<1>12. /\ r = 0 => m = State(given, pp)
       /\ r < 0 /\ pp.pplen = 0 => \E seen : Partial(seen) /\ m = State(given, seen)
       /\ InTwoParts(j) /\ r > 0 /\ ~AskedCut(j) => m = State(given, pp)
       /\ InTwoParts(j) /\ AskedCut(j) => SourcePart(m, given, d, t, c, 0, r, pp)
  BY <1>6, <1>7, <1>8, <1>9, <1>10, <1>11
<1> QED
  BY <1>12 DEF m, given, s, d, t, r, c

(* The last part of a record, read.                                        *)
LEMMA ReadLast ==
  ASSUME NEW j \in Jobs, Sound(j), j.translates, ~j.write,
         NEW bytes, \A i \in DOMAIN bytes : i \in Int, NEW pp, Partial(pp)
  PROVE  LET m == ReadCall(j, "last", bytes, pp)
             given == ReadGiven(j, "last", bytes)
         IN  /\ ~AskedCut(j) => m = State(given, pp)
             /\ AskedCut(j) =>
                  SourcePart(m, given, ReadInto(j, bytes), ReadFormats(j),
                             CutAt(j), CutAfter(j), j.fpix, pp)
<1> DEFINE m == ReadCall(j, "last", bytes, pp)
           given == ReadGiven(j, "last", bytes)
           s == ReadFrom(j, "last")
           d == ReadInto(j, bytes)
           t == ReadFormats(j)
           r == CutAfter(j)
           c == CutAt(j)
           x == BytesLeft(j)
           next == NextPixel(j)
<1>1. PartSide(j, "last", next, j.n1, x, 0)
  BY DEF PartSide
<1>2. PICK lo, hi \in Int : ReadSpan(j, "last", bytes, next, j.n1, x, 0, lo, hi)
  BY <1>1, ReadSpans
<1>3. /\ Bounds(s, d, t, next, j.n1, x, 0, StartPixel(j), EndPixel(j), 0, 0)
      /\ Ready(s, d, t) /\ t.translates /\ t.spix \in 1 .. MaxPixel
      /\ Overlap(next, j.n1, StartPixel(j), EndPixel(j), lo, hi)
      /\ Copied(s, d, t, lo, hi) = given
  BY <1>2 DEF ReadSpan
<1>4. m = MoveTrans(s, d, t, pp)
  BY DEF ReadCall
<1>5. /\ c \in Int /\ r \in Int /\ StartPixel(j) \in Int /\ EndPixel(j) \in Int
      /\ c < j.n1 /\ j.n1 \in Int /\ Remains(c, r, j.fpix) /\ j.fpix \in Nat
  BY CutIs, FirstSampleIs, JobIs
<1>6. LastPixel(j) = IF EndPixel(j) > j.n1 THEN j.n1 ELSE EndPixel(j)
  BY DEF LastPixel, MinOf
<1>7. /\ r > 0 => next = c + 1 /\ x = j.fpix - r
      /\ ~(r > 0) => x = 0
  BY DEF NextPixel, BytesLeft, next, x, r, c
<1>8. t.spix = j.fpix
  BY FormatsAre
<1>9. AskedCut(j) <=> r > 0 /\ StartPixel(j) <= c /\ c < LastPixel(j)
  BY DEF AskedCut, r, c
<1> HIDE DEF m, given, s, d, t, r, c, x, next
<1>10. CASE ~(r > 0)
  <2>1. m = State(given, pp)
    BY <1>3, <1>4, <1>7, <1>10, MovesWhole
  <2> QED
    BY <1>9, <1>10, <2>1 DEF m, given, d, t, r, c
<1>11. CASE r > 0
  <2>1. next = c + 1 /\ x = j.fpix - r /\ r < j.fpix
    BY <1>5, <1>7, <1>11 DEF Remains
  <2>2. x # 0 /\ next - 1 = c /\ t.spix - x = r
    BY <1>5, <1>8, <2>1
  <2>3. /\ StartPixel(j) < next /\ next <= EndPixel(j) =>
             SourcePart(m, given, d, t, next - 1, t.spix - x, t.spix, pp)
        /\ ~(StartPixel(j) < next /\ next <= EndPixel(j)) => m = State(given, pp)
    BY <1>3, <1>4, <2>2, ReadFromACut
  <2>4. AskedCut(j) <=> StartPixel(j) < next /\ next <= EndPixel(j)
    BY <1>5, <1>6, <1>9, <1>11, <2>1
  <2>5. /\ AskedCut(j) => SourcePart(m, given, d, t, c, r, j.fpix, pp)
        /\ ~AskedCut(j) => m = State(given, pp)
    BY <1>8, <2>2, <2>3, <2>4
  <2> QED
    BY <2>5 DEF m, given, d, t, r, c
<1> QED
  BY <1>10, <1>11

(* One call of v2_movetrans for a write, and what it copies whole.         *)
WriteCall(j, part, bytes, pp) ==
  MoveTrans(WriteFrom(j), WriteInto(j, part, bytes), WriteFormats(j), pp)
WriteGiven(j, part, bytes) ==
  Given(WriteFrom(j), WriteInto(j, part, bytes), WriteFormats(j), WholePixels(j, part))

WriteSpan(j, part, bytes, a, b, x, y, lo, hi) ==
  /\ Bounds(WriteFrom(j), WriteInto(j, part, bytes), WriteFormats(j),
            StartPixel(j), EndPixel(j), 0, 0, a, b, x, y)
  /\ Ready(WriteFrom(j), WriteInto(j, part, bytes), WriteFormats(j))
  /\ WriteFormats(j).translates /\ WriteFormats(j).dpix \in 1 .. MaxPixel
  /\ Overlap(StartPixel(j), EndPixel(j), a, b, lo, hi)
  /\ Copied(WriteFrom(j), WriteInto(j, part, bytes), WriteFormats(j), lo, hi)
       = WriteGiven(j, part, bytes)

LEMMA WriteSpans ==
  ASSUME NEW j \in Jobs, Sound(j), j.translates,
         NEW part, NEW bytes, \A i \in DOMAIN bytes : i \in Int,
         NEW a, NEW b, NEW x, NEW y, PartSide(j, part, a, b, x, y)
  PROVE  \E lo, hi \in Int : WriteSpan(j, part, bytes, a, b, x, y, lo, hi)
<1> DEFINE s == WriteFrom(j)
           d == WriteInto(j, part, bytes)
           t == WriteFormats(j)
<1>1. PICK lo, hi \in Int :
        /\ Overlap(StartPixel(j), EndPixel(j), a, b, lo, hi)
        /\ lo .. (hi - 1) = WholePixels(j, part)
        /\ a <= lo /\ hi <= b
  BY SpanIs
<1>2. /\ Bounds(s, d, t, StartPixel(j), EndPixel(j), 0, 0, a, b, x, y)
      /\ Ready(s, d, t)
  BY WriteBounds
<1>3. t.translates /\ t.dpix \in 1 .. MaxPixel
  BY FormatsAre, JobIs
<1> HIDE DEF s, d, t
<1>4. Side(d.pos, d.len, t.notrans, t.dpix, a, b, x, y)
  BY <1>2 DEF Bounds
<1>5. Copied(s, d, t, lo, hi) = Given(s, d, t, Between(lo, hi))
  <2>1. lo \in Int /\ hi \in Int /\ a <= lo /\ hi <= b /\ Ready(s, d, t)
    BY <1>1, <1>2
  <2> QED
    BY <1>4, <2>1, CopiedIsGiven
<1>6. Copied(s, d, t, lo, hi) = WriteGiven(j, part, bytes)
  BY <1>1, <1>5 DEF WriteGiven, s, d, t, Between
<1> QED
  BY <1>1, <1>2, <1>3, <1>6 DEF WriteSpan, s, d, t

LEMMA WriteUncut ==
  ASSUME NEW j \in Jobs, Sound(j), j.translates,
         NEW part, NEW bytes, \A i \in DOMAIN bytes : i \in Int, NEW pp,
         NEW a, NEW b, PartSide(j, part, a, b, 0, 0)
  PROVE  WriteCall(j, part, bytes, pp) = State(WriteGiven(j, part, bytes), pp)
<1>1. PICK lo, hi \in Int : WriteSpan(j, part, bytes, a, b, 0, 0, lo, hi)
  BY WriteSpans
<1> QED
  BY <1>1, MovesWhole DEF WriteSpan, WriteCall

(* The first part of a record, written.                                    *)
LEMMA WriteFirst ==
  ASSUME NEW j \in Jobs, Sound(j), j.translates, j.write,
         NEW bytes, \A i \in DOMAIN bytes : i \in Int, NEW pp, Partial(pp)
  PROVE  LET m == WriteCall(j, "first", bytes, pp)
             given == WriteGiven(j, "first", bytes)
         IN  /\ CutAfter(j) = 0 => m = State(given, pp)
             /\ CutAfter(j) < 0 /\ pp.pplen = 0 =>
                  \E seen : Partial(seen) /\ m = State(given, seen)
             /\ InTwoParts(j) /\ CutAfter(j) > 0 /\ ~AskedCut(j) => m = State(given, pp)
             /\ InTwoParts(j) /\ AskedCut(j) =>
                  DestPart(m, given, WriteInto(j, "first", bytes), WriteFormats(j),
                           CutAt(j), CutAfter(j), pp)
<1> DEFINE m == WriteCall(j, "first", bytes, pp)
           given == WriteGiven(j, "first", bytes)
           s == WriteFrom(j)
           d == WriteInto(j, "first", bytes)
           t == WriteFormats(j)
           r == CutAfter(j)
           c == CutAt(j)
<1>1. PartSide(j, "first", 0, c, 0, r)
  BY DEF PartSide
<1>2. PICK lo, hi \in Int : WriteSpan(j, "first", bytes, 0, c, 0, r, lo, hi)
  BY <1>1, WriteSpans
<1>3. /\ Bounds(s, d, t, StartPixel(j), EndPixel(j), 0, 0, 0, c, 0, r)
      /\ Ready(s, d, t) /\ t.translates /\ t.dpix \in 1 .. MaxPixel
      /\ Overlap(StartPixel(j), EndPixel(j), 0, c, lo, hi)
      /\ Copied(s, d, t, lo, hi) = given
  BY <1>2 DEF WriteSpan
<1>4. m = MoveTrans(s, d, t, pp)
  BY DEF WriteCall
<1>5. /\ c \in Int /\ r \in Int /\ StartPixel(j) \in Int /\ EndPixel(j) \in Int
      /\ LastPixel(j) <= EndPixel(j) /\ LastPixel(j) \in Int
  BY CutIs, FirstSampleIs, SomePixels
<1>6. /\ AskedCut(j) => r > 0 /\ StartPixel(j) <= c
      /\ AskedCut(j) <=> r > 0 /\ StartPixel(j) <= c /\ c < LastPixel(j)
  BY DEF AskedCut, r, c
<1>7. InTwoParts(j) /\ r > 0 => c < LastPixel(j)
  BY WritesTheCut DEF r, c
<1> HIDE DEF m, given, s, d, t, r, c
<1>8. r = 0 => m = State(given, pp)
  BY <1>3, <1>4, MovesWhole
<1>9. ASSUME r < 0, pp.pplen = 0
      PROVE  \E seen : Partial(seen) /\ m = State(given, seen)
  BY <1>3, <1>4, <1>9, WriteToThePrefix
<1>10. ASSUME r > 0, c < EndPixel(j)
       PROVE  /\ StartPixel(j) <= c => DestPart(m, given, d, t, c, r, pp)
              /\ ~(StartPixel(j) <= c) => m = State(given, pp)
  BY <1>3, <1>4, <1>10, WriteToACut
<1>11. InTwoParts(j) /\ r > 0 => c < EndPixel(j)
  BY <1>5, <1>7
<1>12. /\ r = 0 => m = State(given, pp)
       /\ r < 0 /\ pp.pplen = 0 => \E seen : Partial(seen) /\ m = State(given, seen)
       /\ InTwoParts(j) /\ r > 0 /\ ~AskedCut(j) => m = State(given, pp)
       /\ InTwoParts(j) /\ AskedCut(j) => DestPart(m, given, d, t, c, r, pp)
  BY <1>6, <1>7, <1>8, <1>9, <1>10, <1>11
<1> QED
  BY <1>12 DEF m, given, s, d, t, r, c

(* The last part of a record, written.                                     *)
LEMMA WriteLast ==
  ASSUME NEW j \in Jobs, Sound(j), j.translates, j.write,
         NEW bytes, \A i \in DOMAIN bytes : i \in Int, NEW pp, Partial(pp)
  PROVE  LET m == WriteCall(j, "last", bytes, pp)
             given == WriteGiven(j, "last", bytes)
         IN  /\ ~AskedCut(j) => m = State(given, pp)
             /\ AskedCut(j) =>
                  DestPart(m, given, WriteInto(j, "last", bytes), WriteFormats(j),
                           CutAt(j), BytesLeft(j), pp)
<1> DEFINE m == WriteCall(j, "last", bytes, pp)
           given == WriteGiven(j, "last", bytes)
           s == WriteFrom(j)
           d == WriteInto(j, "last", bytes)
           t == WriteFormats(j)
           r == CutAfter(j)
           c == CutAt(j)
           x == BytesLeft(j)
           next == NextPixel(j)
<1>1. PartSide(j, "last", next, j.n1, x, 0)
  BY DEF PartSide
<1>2. PICK lo, hi \in Int : WriteSpan(j, "last", bytes, next, j.n1, x, 0, lo, hi)
  BY <1>1, WriteSpans
<1>3. /\ Bounds(s, d, t, StartPixel(j), EndPixel(j), 0, 0, next, j.n1, x, 0)
      /\ Ready(s, d, t) /\ t.translates /\ t.dpix \in 1 .. MaxPixel
      /\ Overlap(StartPixel(j), EndPixel(j), next, j.n1, lo, hi)
      /\ Copied(s, d, t, lo, hi) = given
  BY <1>2 DEF WriteSpan
<1>4. m = MoveTrans(s, d, t, pp)
  BY DEF WriteCall
<1>5. /\ c \in Int /\ r \in Int /\ StartPixel(j) \in Int /\ EndPixel(j) \in Int
      /\ c < j.n1 /\ j.n1 \in Int /\ Remains(c, r, j.fpix) /\ j.fpix \in Nat
  BY CutIs, FirstSampleIs, JobIs
<1>6. LastPixel(j) = IF EndPixel(j) > j.n1 THEN j.n1 ELSE EndPixel(j)
  BY DEF LastPixel, MinOf
<1>7. /\ r > 0 => next = c + 1 /\ x = j.fpix - r
      /\ ~(r > 0) => x = 0
  BY DEF NextPixel, BytesLeft, next, x, r, c
<1>8. AskedCut(j) <=> r > 0 /\ StartPixel(j) <= c /\ c < LastPixel(j)
  BY DEF AskedCut, r, c
<1> HIDE DEF m, given, s, d, t, r, c, x, next
<1>9. CASE ~(r > 0)
  <2>1. m = State(given, pp)
    BY <1>3, <1>4, <1>7, <1>9, MovesWhole
  <2> QED
    BY <1>8, <1>9, <2>1 DEF m, given, d, t, r, c, x
<1>10. CASE r > 0
  <2>1. next = c + 1 /\ x = j.fpix - r /\ r < j.fpix
    BY <1>5, <1>7, <1>10 DEF Remains
  <2>2. x # 0 /\ next - 1 = c
    BY <1>5, <2>1
  <2>3. /\ StartPixel(j) < next /\ next <= EndPixel(j) =>
             DestPart(m, given, d, t, next - 1, x, pp)
        /\ ~(StartPixel(j) < next /\ next <= EndPixel(j)) => m = State(given, pp)
    BY <1>3, <1>4, <2>2, WriteFromACut
  <2>4. AskedCut(j) <=> StartPixel(j) < next /\ next <= EndPixel(j)
    BY <1>5, <1>6, <1>8, <1>10, <2>1
  <2>5. /\ AskedCut(j) => DestPart(m, given, d, t, c, x, pp)
        /\ ~AskedCut(j) => m = State(given, pp)
    BY <2>2, <2>3, <2>4
  <2> QED
    BY <2>5 DEF m, given, d, t, r, c, x
<1> QED
  BY <1>9, <1>10

-----------------------------------------------------------------------------
(* What has arrived when the parts in D have been moved.                   *)

InPart(j, part, b) ==
  \/ part = "whole"
  \/ part = "first" /\ b < j.cut
  \/ part = "last" /\ b >= j.cut

InParts(j, D, b) == \E part \in D : InPart(j, part, b)

PixelsIn(j, D) ==
  {q \in AskedPixels(j) : \/ "whole" \in D
                          \/ "first" \in D /\ q < CutAt(j)
                          \/ "last" \in D /\ q >= NextPixel(j)
                          \/ "first" \in D /\ "last" \in D}

PixelByte(j, q, k) == IF j.translates THEN Cooked(q, k) ELSE Raw(q, k)

PixelIn(j, D, q, b) ==
  IF j.translates THEN q \in PixelsIn(j, D) ELSE q \in AskedPixels(j) /\ InParts(j, D, b)

Received(j, D) ==
  [i \in -MaxPixel .. (NBytes(j) + MaxPixel - 1) |->
     LET b == StartByte(j) + i
         q == PixelOf(b, j.nbb, j.upix)
     IN  IF b < j.nbb
           THEN IF FirstSample(j) <= b /\ InParts(j, D, b) THEN Prefix(b) ELSE Old
           ELSE IF 0 <= i /\ i < NBytes(j) /\ PixelIn(j, D, q, b)
                  THEN PixelByte(j, q, PlaceIn(b, j.nbb, j.upix)) ELSE Old]

(* A part that has been written.                                           *)
Sent(j, part) ==
  [i \in -MaxPixel .. (PartOf(j, part).len + MaxPixel - 1) |->
     LET b == PartOf(j, part).pos + i
         q == PixelOf(b, j.nbb, j.fpix)
     IN  IF ~(0 <= i /\ i < PartOf(j, part).len) THEN Old
         ELSE IF b < j.nbb THEN IF FirstSample(j) <= b THEN Prefix(b) ELSE Old
         ELSE IF q \in AskedPixels(j) THEN PixelByte(j, q, PlaceIn(b, j.nbb, j.fpix))
         ELSE Old]

LEMMA PixelsGrow ==
  ASSUME NEW j \in Jobs, Sound(j)
  PROVE  /\ PixelsIn(j, {}) = {}
         /\ \A D : PixelsIn(j, D \cup {"whole"}) = PixelsIn(j, D) \cup WholePixels(j, "whole")
         /\ PixelsIn(j, {"first"}) = WholePixels(j, "first")
         /\ PixelsIn(j, {"last"}) = WholePixels(j, "last")
         /\ AskedCut(j) => PixelsIn(j, {"first", "last"}) =
              WholePixels(j, "first") \cup WholePixels(j, "last") \cup {CutAt(j)}
         /\ ~AskedCut(j) => PixelsIn(j, {"first", "last"}) =
              WholePixels(j, "first") \cup WholePixels(j, "last")
<1>1. ASSUME NEW q
      PROVE  /\ q \in WholePixels(j, "whole") <=> q \in AskedPixels(j)
             /\ q \in WholePixels(j, "first") <=> q \in AskedPixels(j) /\ q < CutAt(j)
             /\ q \in WholePixels(j, "last") <=> q \in AskedPixels(j) /\ q >= NextPixel(j)
  BY InWholePixels
<1>2. PixelsIn(j, {}) = {}
  BY DEF PixelsIn
<1>3. \A D : PixelsIn(j, D \cup {"whole"}) = PixelsIn(j, D) \cup WholePixels(j, "whole")
  BY <1>1 DEF PixelsIn
<1>4. PixelsIn(j, {"first"}) = WholePixels(j, "first")
  BY <1>1 DEF PixelsIn
<1>5. PixelsIn(j, {"last"}) = WholePixels(j, "last")
  BY <1>1 DEF PixelsIn
<1>6. \A q : q \in PixelsIn(j, {"first", "last"}) <=> q \in AskedPixels(j)
  BY DEF PixelsIn
<1>7. /\ StartPixel(j) \in Nat /\ LastPixel(j) \in Int
      /\ CutAt(j) \in Int /\ CutAfter(j) \in Int /\ NextPixel(j) \in Int
      /\ NextPixel(j) = IF CutAfter(j) > 0 THEN CutAt(j) + 1 ELSE MaxOf(CutAt(j), 0)
  BY FirstSampleIs, CutIs DEF NextPixel
<1>8. \A q \in AskedPixels(j) :
        \/ q < CutAt(j) \/ q >= NextPixel(j)
        \/ q = CutAt(j) /\ AskedCut(j)
  BY <1>7 DEF AskedPixels, AskedCut, MaxOf
<1>9. AskedCut(j) => CutAt(j) \in AskedPixels(j)
  BY <1>7 DEF AskedPixels, AskedCut
<1>10. AskedCut(j) => PixelsIn(j, {"first", "last"}) =
         WholePixels(j, "first") \cup WholePixels(j, "last") \cup {CutAt(j)}
  BY <1>1, <1>6, <1>8, <1>9
<1>11. ~AskedCut(j) => PixelsIn(j, {"first", "last"}) =
         WholePixels(j, "first") \cup WholePixels(j, "last")
  BY <1>1, <1>6, <1>8
<1> QED
  BY <1>2, <1>3, <1>4, <1>5, <1>10, <1>11

(* The bytes of the prefix that the caller's buffer and a part share.      *)
LEMMA SharedPrefix ==
  ASSUME NEW j \in Jobs, Sound(j), NEW part \in {"whole", "first", "last"},
         NEW b \in Int, b < j.nbb
  PROVE  /\ MaxOf(PartOf(j, part).pos, StartByte(j)) <= b
              /\ b < MinOf(PartOf(j, part).pos + PartOf(j, part).len, StartByte(j) + NBytes(j))
           <=> FirstSample(j) <= b /\ InPart(j, part, b)
         /\ MaxOf(StartByte(j), PartOf(j, part).pos) <= b
              /\ b < MinOf(StartByte(j) + NBytes(j), PartOf(j, part).pos + PartOf(j, part).len)
           <=> FirstSample(j) <= b /\ InPart(j, part, b)
         /\ FirstSample(j) <= b =>
              (0 <= b - PartOf(j, part).pos /\ b - PartOf(j, part).pos < PartOf(j, part).len
                 <=> InPart(j, part, b))
<1> DEFINE p == PartOf(j, part).pos
           l == PartOf(j, part).len
           end == StartByte(j) + NBytes(j)
<1>1. /\ j.nbb \in Nat /\ j.cut \in Nat \ {0} /\ RecLen(j) \in Nat /\ j.cut < RecLen(j)
      /\ j.nbb <= RecLen(j) /\ FirstSample(j) \in Nat
  <2>1. RecLen(j) = j.nbb + j.n1 * j.fpix /\ j.n1 * j.fpix \in Nat
    BY JobIs
  <2> QED
    BY <2>1, JobIs, FirstSampleIs
<1>2. /\ StartByte(j) \in Nat /\ end \in Nat /\ end >= j.nbb
      /\ FirstSample(j) < j.nbb => StartByte(j) = FirstSample(j)
      /\ FirstSample(j) >= j.nbb => StartByte(j) >= j.nbb
  <2>1. /\ Side(StartByte(j), NBytes(j), j.nbb, j.upix, StartPixel(j), EndPixel(j), 0, 0)
        /\ FirstSample(j) < j.nbb => StartByte(j) = FirstSample(j)
        /\ FirstSample(j) >= j.nbb => StartByte(j) >= j.nbb
    BY RequestSide
  <2>2. /\ StartByte(j) \in Nat /\ NBytes(j) \in Nat /\ EndPixel(j) \in Int /\ j.upix \in Nat
        /\ end = j.nbb + EndPixel(j) * j.upix + 0
    BY <2>1 DEF Side
  <2>3. EndPixel(j) \in Nat
    BY SomePixels, FirstSampleIs
  <2>4. EndPixel(j) * j.upix \in Nat
    BY <2>2, <2>3, MulSums
  <2>5. end >= j.nbb
    BY <1>1, <2>2, <2>4
  <2> QED
    BY <2>1, <2>2, <2>5
<1>3. \/ part = "whole" /\ p = 0 /\ l = RecLen(j)
      \/ part = "first" /\ p = 0 /\ l = j.cut
      \/ part = "last" /\ p = j.cut /\ l = RecLen(j) - j.cut
  BY PartIs
<1> HIDE DEF p, l, end
<1>4. StartByte(j) <= b <=> FirstSample(j) <= b
  BY <1>1, <1>2
<1>5. p \in Nat /\ l \in Nat /\ p + l \in Nat
  BY <1>1, <1>3
<1>6. FirstSample(j) <= b => (p <= b /\ b < p + l <=> InPart(j, part, b))
  BY <1>1, <1>3 DEF InPart
<1>7. MaxOf(p, StartByte(j)) <= b <=> p <= b /\ StartByte(j) <= b
  BY <1>2, <1>5 DEF MaxOf
<1>8. b < MinOf(p + l, end) <=> b < p + l
  BY <1>1, <1>2, <1>5 DEF MinOf
<1>9. MaxOf(p, StartByte(j)) <= b /\ b < MinOf(p + l, end)
        <=> FirstSample(j) <= b /\ InPart(j, part, b)
  BY <1>4, <1>6, <1>7, <1>8
<1>10. MaxOf(StartByte(j), p) = MaxOf(p, StartByte(j)) /\ MinOf(end, p + l) = MinOf(p + l, end)
  BY <1>2, <1>5 DEF MaxOf, MinOf
<1>11. MaxOf(StartByte(j), p) <= b /\ b < MinOf(end, p + l)
        <=> FirstSample(j) <= b /\ InPart(j, part, b)
  BY <1>9, <1>10, Zenon
<1>12. FirstSample(j) <= b => (0 <= b - p /\ b - p < l <=> InPart(j, part, b))
  BY <1>5, <1>6
<1> QED
  BY <1>9, <1>11, <1>12 DEF p, l, end

(* S are the pixels of the file that arrive with a part of the record.     *)
Adds(j, D, part, S) ==
  part \in {"whole", "first", "last"} /\ PixelsIn(j, D \cup {part}) = PixelsIn(j, D) \cup S

LEMMA GivenIsReceived ==
  ASSUME NEW j \in Jobs, Sound(j), j.translates, NEW D, NEW part, NEW S,
         Adds(j, D, part, S)
  PROVE  Given(ReadFrom(j, part), ReadInto(j, Received(j, D)), ReadFormats(j), S)
           = Received(j, D \cup {part})
<1> DEFINE s == ReadFrom(j, part)
           d == ReadInto(j, Received(j, D))
           t == ReadFormats(j)
           E == D \cup {part}
           G == Given(s, d, t, S)
           place == PartOf(j, part)
           I == -MaxPixel .. (NBytes(j) + MaxPixel - 1)
<1> USE DEF Adds
<1>1. /\ StartByte(j) \in Nat /\ NBytes(j) \in Nat /\ j.nbb \in Nat
  BY RequestSide DEF Side
<1>2. /\ s.pos = place.pos /\ s.len = place.len
      /\ d.pos = StartByte(j) /\ d.len = NBytes(j) /\ d.bytes = Received(j, D)
      /\ t.notrans = j.nbb /\ t.dpix = j.upix
  BY IntoIs, RequestIs, FormatsAre DEF ReadFrom, ReadInto, Full
<1>3. DOMAIN Received(j, D) = I /\ DOMAIN Received(j, E) = I
  BY DEF Received
<1>4. ASSUME NEW i \in I PROVE G[i] = Received(j, E)[i]
  <2> DEFINE b == StartByte(j) + i
             q == PixelOf(b, j.nbb, j.upix)
             k == PlaceIn(b, j.nbb, j.upix)
             shared == /\ MaxOf(place.pos, StartByte(j)) <= b
                       /\ b < MinOf(place.pos + place.len, StartByte(j) + NBytes(j))
             here == 0 <= i /\ i < NBytes(j)
             fs == FirstSample(j) <= b
  <2>1. b \in Int
    BY <1>1, JobIs
  <2>2. G[i] = IF b < j.nbb
                 THEN IF shared THEN Prefix(b) ELSE Received(j, D)[i]
                 ELSE IF here /\ q \in S THEN Cooked(q, k) ELSE Received(j, D)[i]
    <3> HIDE DEF s, d, t
    <3> QED
      BY <1>2, <1>3, Zenon DEF Given
  <2>3. Received(j, D)[i] =
          IF b < j.nbb THEN IF fs /\ InParts(j, D, b) THEN Prefix(b) ELSE Old
          ELSE IF here /\ PixelIn(j, D, q, b) THEN PixelByte(j, q, k) ELSE Old
    BY Zenon DEF Received
  <2>4. Received(j, E)[i] =
          IF b < j.nbb THEN IF fs /\ InParts(j, E, b) THEN Prefix(b) ELSE Old
          ELSE IF here /\ PixelIn(j, E, q, b) THEN PixelByte(j, q, k) ELSE Old
    BY Zenon DEF Received
  <2>5. b < j.nbb => (shared <=> fs /\ InPart(j, part, b))
    BY <2>1, SharedPrefix
  <2>6. InParts(j, E, b) <=> InParts(j, D, b) \/ InPart(j, part, b)
    BY Zenon DEF InParts
  <2>7. /\ PixelIn(j, D, q, b) <=> q \in PixelsIn(j, D)
        /\ PixelIn(j, E, q, b) <=> q \in PixelsIn(j, D) \/ q \in S
        /\ PixelByte(j, q, k) = Cooked(q, k)
    BY DEF PixelIn, PixelByte
  <2> HIDE DEF G, E, b, q, k, shared, here, fs
  <2> QED
    BY <2>2, <2>3, <2>4, <2>5, <2>6, <2>7
<1>5. G = [i \in I |-> G[i]] /\ Received(j, E) = [i \in I |-> Received(j, E)[i]]
  <2>1. DOMAIN d.bytes = I
    BY <1>2, <1>3
  <2>2. G = [i \in DOMAIN d.bytes |-> G[i]]
    <3> HIDE DEF s, d, t
    <3> QED
      BY Zenon DEF Given
  <2>3. Received(j, E) = [i \in I |-> Received(j, E)[i]]
    BY Zenon DEF Received
  <2> HIDE DEF G, d, I
  <2> QED
    BY <2>1, <2>2, <2>3
<1> HIDE DEF G, E, I
<1>6. G = Received(j, E)
  BY <1>4, <1>5
<1> QED
  BY <1>6 DEF G, E

LEMMA GivenIsSent ==
  ASSUME NEW j \in Jobs, Sound(j), j.translates, NEW part \in {"whole", "first", "last"},
         NEW S,
         \A i \in 0 .. (PartOf(j, part).len - 1) :
           PartOf(j, part).pos + i >= j.nbb =>
             LET q == PixelOf(PartOf(j, part).pos + i, j.nbb, j.fpix)
             IN  q \in S <=> q \in AskedPixels(j)
  PROVE  Given(WriteFrom(j), WriteInto(j, part, Blank(PartOf(j, part))), WriteFormats(j), S)
           = Sent(j, part)
<1> DEFINE s == WriteFrom(j)
           d == WriteInto(j, part, Blank(PartOf(j, part)))
           t == WriteFormats(j)
           G == Given(s, d, t, S)
           place == PartOf(j, part)
           I == -MaxPixel .. (place.len + MaxPixel - 1)
<1>1. place.pos \in Nat /\ place.len \in Nat /\ j.nbb \in Nat /\ MaxPixel \in Nat
  BY PartPlace, JobIs
<1>2. /\ s.pos = StartByte(j) /\ s.len = NBytes(j)
      /\ d.pos = place.pos /\ d.len = place.len /\ d.bytes = Blank(place)
      /\ t.notrans = j.nbb /\ t.dpix = j.fpix
  BY IntoIs, RequestIs, FormatsAre DEF WriteFrom, WriteInto, Full
<1>3. DOMAIN Blank(place) = I /\ \A i \in I : Blank(place)[i] = Old
  BY DEF Blank
<1>4. ASSUME NEW i \in I PROVE G[i] = Sent(j, part)[i]
  <2> DEFINE b == place.pos + i
             q == PixelOf(b, j.nbb, j.fpix)
             k == PlaceIn(b, j.nbb, j.fpix)
             shared == /\ MaxOf(StartByte(j), place.pos) <= b
                       /\ b < MinOf(StartByte(j) + NBytes(j), place.pos + place.len)
             here == 0 <= i /\ i < place.len
             fs == FirstSample(j) <= b
  <2>1. b \in Int /\ i \in Int /\ b - place.pos = i
    BY <1>1
  <2>2. G[i] = IF b < j.nbb
                 THEN IF shared THEN Prefix(b) ELSE Old
                 ELSE IF here /\ q \in S THEN Cooked(q, k) ELSE Old
    <3>1. Blank(place)[i] = Old
      BY <1>3
    <3> HIDE DEF s, d, t, place
    <3> QED
      BY <1>2, <1>3, <3>1, Zenon DEF Given
  <2>3. Sent(j, part)[i] =
          IF ~here THEN Old
          ELSE IF b < j.nbb THEN IF fs THEN Prefix(b) ELSE Old
          ELSE IF q \in AskedPixels(j) THEN PixelByte(j, q, k) ELSE Old
    BY Zenon DEF Sent
  <2>4. b < j.nbb => (shared <=> fs /\ here)
    BY <2>1, SharedPrefix
  <2>5. here /\ ~(b < j.nbb) => (q \in S <=> q \in AskedPixels(j))
    <3>1. here => i \in 0 .. (place.len - 1)
      BY <1>1, <2>1
    <3>2. ~(b < j.nbb) => b >= j.nbb
      BY <1>1, <2>1
    <3> HIDE DEF here
    <3> QED
      BY <3>1, <3>2
  <2>6. PixelByte(j, q, k) = Cooked(q, k)
    BY DEF PixelByte
  <2> HIDE DEF G, b, q, k, shared, here, fs
  <2> QED
    BY <2>2, <2>3, <2>4, <2>5, <2>6
<1>5. G = [i \in I |-> G[i]] /\ Sent(j, part) = [i \in I |-> Sent(j, part)[i]]
  <2>1. DOMAIN d.bytes = I
    BY <1>2, <1>3
  <2>2. G = [i \in DOMAIN d.bytes |-> G[i]]
    <3> HIDE DEF s, d, t
    <3> QED
      BY Zenon DEF Given
  <2>3. Sent(j, part) = [i \in I |-> Sent(j, part)[i]]
    BY Zenon DEF Sent
  <2> HIDE DEF G, d, I
  <2> QED
    BY <2>1, <2>2, <2>3
<1> HIDE DEF G, I
<1>6. G = Sent(j, part)
  BY <1>4, <1>5
<1> QED
  BY <1>6 DEF G

-----------------------------------------------------------------------------
(* How far a call has come.                                                *)

PartsOf(j) == {j.pieces[n] : n \in DOMAIN j.pieces}

(* The parts in D have been moved, and rest is what is left.               *)
Stage(j, rest, D) ==
  \/ rest = j.pieces /\ D = {}
  \/ rest = <<"last">> /\ j.pieces = <<"first", "last">> /\ D = {"first"}
  \/ rest = <<"first">> /\ j.pieces = <<"last", "first">> /\ D = {"last"}
  \/ rest = <<"whole">> /\ j.pieces = <<"last", "whole">> /\ D = {"last"}
  \/ rest = <<>> /\ D = PartsOf(j)

NextPart(j, part, D) ==
  \/ part = "whole" /\ D \in {{}, {"last"}}
  \/ part = "first" /\ InTwoParts(j) /\ D \in {{}, {"last"}}
  \/ part = "last" /\ D = {}
  \/ part = "last" /\ InTwoParts(j) /\ D = {"first"}

LEMMA PartsAre ==
  ASSUME NEW j \in Jobs
  PROVE  /\ j.pieces = <<"whole">> => PartsOf(j) = {"whole"}
         /\ j.pieces = <<"first", "last">> => PartsOf(j) = {"first", "last"}
         /\ j.pieces = <<"last", "first">> => PartsOf(j) = {"first", "last"}
         /\ j.pieces = <<"last", "whole">> => PartsOf(j) = {"last", "whole"}
         /\ PartsOf(j) \subseteq {"whole", "first", "last"}
         /\ "whole" \in PartsOf(j) \/ {"first", "last"} \subseteq PartsOf(j)
<1>1. j.pieces \in Parts
  BY JobIs
<1>2. j.pieces = <<"whole">> => PartsOf(j) = {"whole"}
  <2>1. DOMAIN <<"whole">> = {1} /\ <<"whole">>[1] = "whole"
    OBVIOUS
  <2> QED
    BY <2>1 DEF PartsOf
<1>3. j.pieces = <<"first", "last">> => PartsOf(j) = {"first", "last"}
  <2>1. /\ DOMAIN <<"first", "last">> = {1, 2}
        /\ <<"first", "last">>[1] = "first" /\ <<"first", "last">>[2] = "last"
    OBVIOUS
  <2> QED
    BY <2>1 DEF PartsOf
<1>4. j.pieces = <<"last", "first">> => PartsOf(j) = {"first", "last"}
  <2>1. /\ DOMAIN <<"last", "first">> = {1, 2}
        /\ <<"last", "first">>[1] = "last" /\ <<"last", "first">>[2] = "first"
    OBVIOUS
  <2> QED
    BY <2>1 DEF PartsOf
<1>5. j.pieces = <<"last", "whole">> => PartsOf(j) = {"last", "whole"}
  <2>1. /\ DOMAIN <<"last", "whole">> = {1, 2}
        /\ <<"last", "whole">>[1] = "last" /\ <<"last", "whole">>[2] = "whole"
    OBVIOUS
  <2> QED
    BY <2>1 DEF PartsOf
<1>6. j.pieces \in {<<"whole">>, <<"first", "last">>, <<"last", "first">>, <<"last", "whole">>}
  BY <1>1 DEF Parts
<1> QED
  BY <1>2, <1>3, <1>4, <1>5, <1>6

LEMMA Stages ==
  ASSUME NEW j \in Jobs, NEW rest, NEW D, Stage(j, rest, D), rest # <<>>
  PROVE  /\ NextPart(j, Head(rest), D)
         /\ Stage(j, Tail(rest), D \cup {Head(rest)})
<1>1. j.pieces \in {<<"whole">>, <<"first", "last">>, <<"last", "first">>, <<"last", "whole">>}
  BY JobIs DEF Parts
<1>2. CASE rest = j.pieces /\ D = {}
  <2>1. CASE j.pieces = <<"whole">>
    <3>1. Head(rest) = "whole" /\ Tail(rest) = <<>>
      BY <1>2, <2>1
    <3> QED
      BY <1>2, <2>1, <3>1, PartsAre DEF Stage, NextPart
  <2>2. CASE j.pieces = <<"first", "last">>
    <3>1. Head(rest) = "first" /\ Tail(rest) = <<"last">>
      BY <1>2, <2>2
    <3> QED
      BY <1>2, <2>2, <3>1 DEF Stage, NextPart, InTwoParts
  <2>3. CASE j.pieces = <<"last", "first">>
    <3>1. Head(rest) = "last" /\ Tail(rest) = <<"first">>
      BY <1>2, <2>3
    <3> QED
      BY <1>2, <2>3, <3>1 DEF Stage, NextPart
  <2>4. CASE j.pieces = <<"last", "whole">>
    <3>1. Head(rest) = "last" /\ Tail(rest) = <<"whole">>
      BY <1>2, <2>4
    <3> QED
      BY <1>2, <2>4, <3>1 DEF Stage, NextPart
  <2> QED
    BY <1>1, <2>1, <2>2, <2>3, <2>4
<1>3. CASE rest = <<"last">> /\ j.pieces = <<"first", "last">> /\ D = {"first"}
  <2>1. Head(rest) = "last" /\ Tail(rest) = <<>>
    BY <1>3
  <2>2. D \cup {"last"} = PartsOf(j)
    BY <1>3, PartsAre
  <2> QED
    BY <1>3, <2>1, <2>2 DEF Stage, NextPart, InTwoParts
<1>4. CASE rest = <<"first">> /\ j.pieces = <<"last", "first">> /\ D = {"last"}
  <2>1. Head(rest) = "first" /\ Tail(rest) = <<>>
    BY <1>4
  <2>2. D \cup {"first"} = PartsOf(j)
    BY <1>4, PartsAre
  <2> QED
    BY <1>4, <2>1, <2>2 DEF Stage, NextPart, InTwoParts
<1>5. CASE rest = <<"whole">> /\ j.pieces = <<"last", "whole">> /\ D = {"last"}
  <2>1. Head(rest) = "whole" /\ Tail(rest) = <<>>
    BY <1>5
  <2>2. D \cup {"whole"} = PartsOf(j)
    BY <1>5, PartsAre
  <2> QED
    BY <1>5, <2>1, <2>2 DEF Stage, NextPart
<1> QED
  BY <1>2, <1>3, <1>4, <1>5 DEF Stage

(* What partpix holds of the pixel that is cut when one part has been      *)
(* moved: its bytes that the part has, for a read, and all bytes of its    *)
(* translation for a write.                                                *)
Held(j, pix, part) ==
  IF j.write THEN CookedPart(pix, CutAt(j), 0, j.fpix)
  ELSE IF part = "first" THEN RawPart(pix, CutAt(j), 0, CutAfter(j))
  ELSE RawPart(pix, CutAt(j), CutAfter(j), j.fpix)

Seen(j, D, pp) ==
  /\ Partial(pp)
  /\ D = {} => pp.pplen = 0
  /\ D = {"last"} /\ CutAfter(j) < 0 => pp.pplen = 0
  /\ AskedCut(j) /\ D = {"first"} =>
       pp.pplen = CutAfter(j) /\ Held(j, pp.pix, "first")
  /\ AskedCut(j) /\ D = {"last"} =>
       pp.pplen = j.fpix - CutAfter(j) /\ Held(j, pp.pix, "last")

(* A call has left in a destination what it should.                        *)
Arrives(j, D, bytes, m) == \E seen : Seen(j, D, seen) /\ m = State(bytes, seen)

LEMMA CutBytesOf ==
  ASSUME NEW j \in Jobs, AskedCut(j)
  PROVE  /\ CutAfter(j) \in Int /\ CutAfter(j) > 0 /\ j.fpix \in Int
         /\ CutAfter(j) < j.fpix
         /\ BytesLeft(j) = j.fpix - CutAfter(j) /\ BytesLeft(j) # 0
         /\ ~(CutAfter(j) < 0) /\ CutAfter(j) # 0 /\ CutAt(j) \in Nat
         /\ j.fpix - CutAfter(j) # 0
BY CutIs, JobIs DEF AskedCut, BytesLeft, Remains

LEMMA ReceivedDomain ==
  ASSUME NEW j \in Jobs, Sound(j), NEW D
  PROVE  \A i \in DOMAIN Received(j, D) : i \in Int
<1>1. DOMAIN Received(j, D) = -MaxPixel .. (NBytes(j) + MaxPixel - 1)
  BY DEF Received
<1>2. NBytes(j) \in Nat /\ MaxPixel \in Nat
  BY RequestSide, JobIs DEF Side
<1> QED
  BY <1>1, <1>2

(* A part that completes the pixel that is cut.                            *)
LEMMA SecondRead ==
  ASSUME NEW j \in Jobs, Sound(j), j.translates, AskedCut(j), ~j.write,
         NEW D, NEW part \in {"whole", "first", "last"}, D \cup {part} = {"first", "last"},
         PixelsIn(j, D \cup {part}) = PixelsIn(j, D) \cup WholePixels(j, part) \cup {CutAt(j)},
         NEW m, NEW pp, Partial(pp),
         SawSecond(m, ReadGiven(j, part, Received(j, D)), ReadInto(j, Received(j, D)),
                   ReadFormats(j), CutAt(j), pp)
  PROVE  Arrives(j, D \cup {part}, Received(j, D \cup {part}), m)
<1> DEFINE s == ReadFrom(j, part)
           d == ReadInto(j, Received(j, D))
           t == ReadFormats(j)
           S == WholePixels(j, part)
           c == CutAt(j)
           E == D \cup {part}
<1>1. PICK pix : /\ m = State(WithPixel(Given(s, d, t, S), d, t, c),
                              [pplen |-> pp.pplen, pix |-> pix])
                 /\ DOMAIN pix = 0 .. (MaxPixel - 1)
  BY DEF SawSecond, ReadGiven
<1>2. Ready(s, d, t) /\ d.pos \in Nat /\ t.notrans \in Nat
  <2>1. \E a, b, x, y : PartSide(j, part, a, b, x, y)
    BY DEF PartSide
  <2>2. \A i \in DOMAIN Received(j, D) : i \in Int
    BY ReceivedDomain
  <2> QED
    BY <2>1, <2>2, ReadBounds DEF Bounds, Side
<1>3. WithPixel(Given(s, d, t, S), d, t, c) = Given(s, d, t, S \cup {c})
  <2> HIDE DEF s, d, t, S, c
  <2> QED
    BY <1>2, WithPixelIsGiven
<1>4. PixelsIn(j, E) = PixelsIn(j, D) \cup (S \cup {c})
  BY Zenon
<1>5. Given(s, d, t, S \cup {c}) = Received(j, E)
  <2> DEFINE U == S \cup {c}
  <2>1. Adds(j, D, part, U)
    BY <1>4 DEF Adds
  <2> HIDE DEF U
  <2>2. Given(ReadFrom(j, part), ReadInto(j, Received(j, D)), ReadFormats(j), U)
          = Received(j, D \cup {part})
    BY <2>1, GivenIsReceived
  <2> QED
    BY <2>2, Zenon DEF U
<1> DEFINE seen == [pplen |-> pp.pplen, pix |-> pix]
<1>6. m = State(Received(j, E), seen)
  BY <1>1, <1>3, <1>5, Zenon
<1>7. Seen(j, E, seen)
  <2>1. E # {} /\ E # {"first"} /\ E # {"last"}
    <3>1. E = {"first", "last"}
      BY Zenon
    <3> HIDE DEF E
    <3> QED
      BY <3>1
  <2>2. seen.pix = pix /\ seen.pplen = pp.pplen
    OBVIOUS
  <2> HIDE DEF E, seen
  <2>3. Partial(seen)
    BY <1>1, <2>2 DEF Partial
  <2> QED
    BY <2>1, <2>3 DEF Seen
<1> QED
  BY <1>6, <1>7 DEF Arrives

LEMMA ReadStep ==
  ASSUME NEW j \in Jobs, Sound(j), j.translates, ~j.write,
         NEW D, NEW part, NextPart(j, part, D), NEW pp, Seen(j, D, pp)
  PROVE  Arrives(j, D \cup {part}, Received(j, D \cup {part}),
                 ReadCall(j, part, Received(j, D), pp))
<1> DEFINE bytes == Received(j, D)
           E == D \cup {part}
           m == ReadCall(j, part, bytes, pp)
           given == ReadGiven(j, part, bytes)
<1> SUFFICES Arrives(j, E, Received(j, E), m)
  OBVIOUS
<1>1. Partial(pp) /\ \A i \in DOMAIN bytes : i \in Int
  BY ReceivedDomain DEF Seen
<1>2. part \in {"whole", "first", "last"}
  BY DEF NextPart
<1>3. PixelsIn(j, E) = PixelsIn(j, D) \cup WholePixels(j, part) => given = Received(j, E)
  <2> SUFFICES ASSUME PixelsIn(j, E) = PixelsIn(j, D) \cup WholePixels(j, part)
               PROVE  given = Received(j, E)
    OBVIOUS
  <2>1. Adds(j, D, part, WholePixels(j, part))
    BY <1>2 DEF Adds
  <2> QED
    BY <2>1, GivenIsReceived DEF ReadGiven
<1>4. CASE part = "whole"
  <2>1. m = State(given, pp)
    <3>1. PartSide(j, part, 0, j.n1, 0, 0)
      BY <1>4 DEF PartSide
    <3> QED
      BY <1>1, <3>1, ReadUncut
  <2>2. given = Received(j, E)
    BY <1>3, <1>4, PixelsGrow
  <2>3. Seen(j, E, pp)
    <3>1. E # {} /\ E # {"first"} /\ E # {"last"}
      BY <1>4
    <3> QED
      BY <1>1, <3>1 DEF Seen
  <2> QED
    BY <2>1, <2>2, <2>3 DEF Arrives
<1>5. CASE part = "first" /\ InTwoParts(j) /\ D = {}
  <2>1. E = {"first"} /\ pp.pplen = 0
    BY <1>5 DEF Seen
  <2>2. given = Received(j, E)
    <3>1. /\ PixelsIn(j, {"first"}) = WholePixels(j, "first")
          /\ PixelsIn(j, {}) = {}
      BY PixelsGrow
    <3> QED
      BY <1>3, <1>5, <2>1, <3>1
  <2>3. /\ CutAfter(j) = 0 => m = State(given, pp)
        /\ CutAfter(j) < 0 /\ pp.pplen = 0 =>
             \E seen : Partial(seen) /\ m = State(given, seen)
        /\ InTwoParts(j) /\ CutAfter(j) > 0 /\ ~AskedCut(j) => m = State(given, pp)
        /\ InTwoParts(j) /\ AskedCut(j) =>
             SourcePart(m, given, ReadInto(j, bytes), ReadFormats(j),
                        CutAt(j), 0, CutAfter(j), pp)
    BY <1>1, <1>5, ReadFirst
  <2>4. CutAfter(j) \in Int
    BY CutIs
  <2> HIDE DEF m, given, bytes, E
  <2>5. CASE ~AskedCut(j)
    <3>1. \E seen : Partial(seen) /\ m = State(given, seen)
      BY <1>1, <1>5, <2>1, <2>3, <2>4, <2>5
    <3>2. \A seen : Partial(seen) => Seen(j, E, seen)
      BY <2>1, <2>5 DEF Seen
    <3> QED
      BY <2>2, <3>1, <3>2 DEF Arrives
  <2>6. CASE AskedCut(j)
    <3>1. SawFirst(m, given, CutAt(j), 0, CutAfter(j))
      BY <1>5, <2>1, <2>3, <2>6 DEF SourcePart
    <3>2. PICK pix : /\ m = State(given, [pplen |-> CutAfter(j) - 0, pix |-> pix])
                     /\ DOMAIN pix = 0 .. (MaxPixel - 1)
                     /\ RawPart(pix, CutAt(j), 0, CutAfter(j))
      BY <3>1 DEF SawFirst
    <3> DEFINE seen == [pplen |-> CutAfter(j) - 0, pix |-> pix]
    <3>3. seen.pplen = CutAfter(j) /\ seen.pix = pix
      BY <2>4
    <3> HIDE DEF seen
    <3>4. Partial(seen)
      BY <2>4, <3>2, <3>3 DEF Partial
    <3>5. Held(j, seen.pix, "first")
      BY <3>2, <3>3 DEF Held
    <3>6. Seen(j, E, seen)
      BY <2>1, <3>3, <3>4, <3>5 DEF Seen
    <3> QED
      BY <2>2, <3>2, <3>6 DEF seen, Arrives
  <2> QED
    BY <2>5, <2>6
<1>6. CASE part = "last" /\ D = {}
  <2>1. E = {"last"} /\ pp.pplen = 0
    BY <1>6 DEF Seen
  <2>2. given = Received(j, E)
    <3>1. /\ PixelsIn(j, {"last"}) = WholePixels(j, "last")
          /\ PixelsIn(j, {}) = {}
      BY PixelsGrow
    <3> QED
      BY <1>3, <1>6, <2>1, <3>1
  <2>3. /\ ~AskedCut(j) => m = State(given, pp)
        /\ AskedCut(j) =>
             SourcePart(m, given, ReadInto(j, bytes), ReadFormats(j),
                        CutAt(j), CutAfter(j), j.fpix, pp)
    BY <1>1, <1>6, ReadLast
  <2> HIDE DEF m, given, bytes, E
  <2>4. CASE ~AskedCut(j)
    <3>1. Seen(j, E, pp)
      BY <1>1, <2>1, <2>4 DEF Seen
    <3> QED
      BY <2>2, <2>3, <2>4, <3>1 DEF Arrives
  <2>5. CASE AskedCut(j)
    <3>1. SawFirst(m, given, CutAt(j), CutAfter(j), j.fpix)
      BY <2>1, <2>3, <2>5 DEF SourcePart
    <3>2. PICK pix : /\ m = State(given, [pplen |-> j.fpix - CutAfter(j), pix |-> pix])
                     /\ DOMAIN pix = 0 .. (MaxPixel - 1)
                     /\ RawPart(pix, CutAt(j), CutAfter(j), j.fpix)
      BY <3>1 DEF SawFirst
    <3> DEFINE seen == [pplen |-> j.fpix - CutAfter(j), pix |-> pix]
    <3>3. seen.pplen = j.fpix - CutAfter(j) /\ seen.pix = pix
      OBVIOUS
    <3> HIDE DEF seen
    <3>4. /\ CutAfter(j) \in Int /\ j.fpix \in Int /\ ~(CutAfter(j) < 0)
      BY <2>5, CutBytesOf
    <3>5. Partial(seen)
      BY <3>2, <3>3, <3>4 DEF Partial
    <3>6. Held(j, seen.pix, "last")
      BY <3>2, <3>3 DEF Held
    <3>7. Seen(j, E, seen)
      BY <2>1, <3>3, <3>4, <3>5, <3>6 DEF Seen
    <3> QED
      BY <2>2, <3>2, <3>7 DEF seen, Arrives
  <2> QED
    BY <2>4, <2>5
<1>7. CASE part = "first" /\ InTwoParts(j) /\ D = {"last"}
  <2>1. E = {"first", "last"} /\ (CutAfter(j) < 0 => pp.pplen = 0)
    BY <1>7 DEF Seen
  <2>2. /\ CutAfter(j) = 0 => m = State(given, pp)
        /\ CutAfter(j) < 0 /\ pp.pplen = 0 =>
             \E seen : Partial(seen) /\ m = State(given, seen)
        /\ InTwoParts(j) /\ CutAfter(j) > 0 /\ ~AskedCut(j) => m = State(given, pp)
        /\ InTwoParts(j) /\ AskedCut(j) =>
             SourcePart(m, given, ReadInto(j, bytes), ReadFormats(j),
                        CutAt(j), 0, CutAfter(j), pp)
    BY <1>1, <1>7, ReadFirst
  <2>3. CutAfter(j) \in Int
    BY CutIs
  <2>4. PixelsIn(j, D) = WholePixels(j, "last")
    BY <1>7, PixelsGrow
  <2>5. CASE ~AskedCut(j)
    <3>1. given = Received(j, E)
      <4>1. PixelsIn(j, {"first", "last"}) = WholePixels(j, "first") \cup WholePixels(j, "last")
        BY <2>5, PixelsGrow
      <4> QED
        BY <1>3, <1>7, <2>1, <2>4, <4>1
    <3> HIDE DEF m, given, bytes, E
    <3>2. \E seen : Partial(seen) /\ m = State(given, seen)
      BY <1>1, <1>7, <2>1, <2>2, <2>3, <2>5
    <3>3. \A seen : Partial(seen) => Seen(j, E, seen)
      BY <2>1, <2>5 DEF Seen
    <3> QED
      BY <3>1, <3>2, <3>3 DEF Arrives
  <2>6. CASE AskedCut(j)
    <3>1. PixelsIn(j, E) = PixelsIn(j, D) \cup WholePixels(j, part) \cup {CutAt(j)}
      <4>1. PixelsIn(j, {"first", "last"}) =
              WholePixels(j, "first") \cup WholePixels(j, "last") \cup {CutAt(j)}
        BY <2>6, PixelsGrow
      <4> QED
        BY <1>7, <2>1, <2>4, <4>1
    <3>2. pp.pplen = j.fpix - CutAfter(j) /\ RawPart(pp.pix, CutAt(j), CutAfter(j), j.fpix)
      BY <1>7, <2>6 DEF Seen, Held
    <3>3. /\ CutAfter(j) \in Int /\ j.fpix \in Int /\ j.fpix - CutAfter(j) # 0
          /\ ReadFormats(j).spix = j.fpix
      BY <2>6, CutBytesOf, FormatsAre
    <3>4. pp.pplen # 0 /\ pp.pplen + (CutAfter(j) - 0) = ReadFormats(j).spix
      BY <3>2, <3>3
    <3>5. RawPart(pp.pix, CutAt(j), 0, 0)
      BY DEF RawPart
    <3>6. SourcePart(m, given, ReadInto(j, bytes), ReadFormats(j),
                     CutAt(j), 0, CutAfter(j), pp)
      BY <1>7, <2>2, <2>6
    <3>7. SawSecond(m, given, ReadInto(j, bytes), ReadFormats(j), CutAt(j), pp)
      <4> HIDE DEF m, given, bytes
      <4> QED
        BY <3>2, <3>3, <3>4, <3>5, <3>6 DEF SourcePart
    <3> HIDE DEF m
    <3> QED
      BY <1>1, <1>2, <2>1, <2>6, <3>1, <3>7, SecondRead
  <2> QED
    BY <2>5, <2>6
<1>8. CASE part = "last" /\ InTwoParts(j) /\ D = {"first"}
  <2>1. E = {"first", "last"}
    BY <1>8
  <2>2. /\ ~AskedCut(j) => m = State(given, pp)
        /\ AskedCut(j) =>
             SourcePart(m, given, ReadInto(j, bytes), ReadFormats(j),
                        CutAt(j), CutAfter(j), j.fpix, pp)
    BY <1>1, <1>8, ReadLast
  <2>3. PixelsIn(j, D) = WholePixels(j, "first")
    BY <1>8, PixelsGrow
  <2>4. CASE ~AskedCut(j)
    <3>1. given = Received(j, E)
      <4>1. PixelsIn(j, {"first", "last"}) = WholePixels(j, "first") \cup WholePixels(j, "last")
        BY <2>4, PixelsGrow
      <4> QED
        BY <1>3, <1>8, <2>1, <2>3, <4>1
    <3> HIDE DEF m, given, bytes, E
    <3>2. Seen(j, E, pp)
      BY <1>1, <2>1, <2>4 DEF Seen
    <3> QED
      BY <2>2, <2>4, <3>1, <3>2 DEF Arrives
  <2>5. CASE AskedCut(j)
    <3>1. PixelsIn(j, E) = PixelsIn(j, D) \cup WholePixels(j, part) \cup {CutAt(j)}
      <4>1. PixelsIn(j, {"first", "last"}) =
              WholePixels(j, "first") \cup WholePixels(j, "last") \cup {CutAt(j)}
        BY <2>5, PixelsGrow
      <4> QED
        BY <1>8, <2>1, <2>3, <4>1
    <3>2. pp.pplen = CutAfter(j) /\ RawPart(pp.pix, CutAt(j), 0, CutAfter(j))
      BY <1>8, <2>5 DEF Seen, Held
    <3>3. /\ CutAfter(j) \in Int /\ j.fpix \in Int /\ CutAfter(j) # 0
          /\ ReadFormats(j).spix = j.fpix
      BY <2>5, CutBytesOf, FormatsAre
    <3>4. pp.pplen # 0 /\ pp.pplen + (j.fpix - CutAfter(j)) = ReadFormats(j).spix
      BY <3>2, <3>3
    <3>5. RawPart(pp.pix, CutAt(j), j.fpix, ReadFormats(j).spix)
      BY <3>3 DEF RawPart
    <3>6. SourcePart(m, given, ReadInto(j, bytes), ReadFormats(j),
                     CutAt(j), CutAfter(j), j.fpix, pp)
      BY <2>2, <2>5
    <3>7. SawSecond(m, given, ReadInto(j, bytes), ReadFormats(j), CutAt(j), pp)
      <4> HIDE DEF m, given, bytes
      <4> QED
        BY <3>2, <3>4, <3>5, <3>6 DEF SourcePart
    <3> HIDE DEF m
    <3> QED
      BY <1>1, <1>2, <2>1, <2>5, <3>1, <3>7, SecondRead
  <2> QED
    BY <2>4, <2>5
<1> QED
  BY <1>4, <1>5, <1>6, <1>7, <1>8 DEF NextPart

(* Where the pixel of a byte lies, of those that the windows cut the       *)
(* record's pixels into.                                                   *)
LEMMA PixelAtTheCut ==
  ASSUME NEW j \in Jobs, NEW b \in Int, b >= j.nbb
  PROVE  LET q == PixelOf(b, j.nbb, j.fpix)
         IN  /\ q \in Nat
             /\ b < j.cut => q < CutAt(j) \/ (q = CutAt(j) /\ CutAfter(j) > 0)
             /\ b >= j.cut => q >= NextPixel(j) \/ (q = CutAt(j) /\ CutAfter(j) > 0)
<1> DEFINE q == PixelOf(b, j.nbb, j.fpix)
           k == PlaceIn(b, j.nbb, j.fpix)
           c == CutAt(j)
           r == CutAfter(j)
           f == j.fpix
<1>1. q \in Nat /\ k \in Nat /\ k < f /\ b - j.nbb = q * f + k
  <2>1. b \in Int /\ j.nbb \in Nat /\ f \in Nat \ {0} /\ b >= j.nbb
    BY JobIs
  <2> HIDE DEF q, k, f
  <2>2. q \in Nat /\ k \in 0 .. (f - 1) /\ b = j.nbb + q * f + k
    BY <2>1, PixelFacts DEF q, k, f
  <2>3. q * f \in Nat
    BY <2>1, <2>2, MulSums
  <2> QED
    BY <2>1, <2>2, <2>3
<1>2. /\ c \in Int /\ r \in Int /\ j.cut = j.nbb + c * f + r
      /\ Remains(c, r, f)
      /\ j.cut > j.nbb => c >= 0 /\ r >= 0
      /\ j.cut <= j.nbb => c <= 0 /\ r <= 0
  BY CutIs
<1>3. f \in Nat \ {0} /\ j.nbb \in Nat /\ j.cut \in Nat
  BY JobIs
<1>4. -f < r /\ r < f
  <2> HIDE DEF c, r, f
  <2> QED
    BY <1>2, <1>3 DEF Remains
<1>5. NextPixel(j) = IF r > 0 THEN c + 1 ELSE MaxOf(c, 0)
  BY DEF NextPixel
<1>6. q * f \in Int /\ c * f \in Int
  BY <1>1, <1>2, <1>3
<1>7. /\ q > c => q * f >= c * f + f
      /\ q < c => c * f >= q * f + f
  <2> HIDE DEF q, c, f
  <2> QED
    BY <1>1, <1>2, <1>3, MulGap
<1> HIDE DEF q, k, c, r, f
<1>8. ASSUME b < j.cut PROVE q < c \/ (q = c /\ r > 0)
  <2> DEFINE qf == q * f
             cf == c * f
  <2>1. /\ qf \in Int /\ cf \in Int /\ (q > c => qf >= cf + f) /\ (q = c => qf = cf)
        /\ b - j.nbb = qf + k /\ j.cut = j.nbb + cf + r
    BY <1>1, <1>2, <1>6, <1>7
  <2> HIDE DEF qf, cf
  <2> QED
    BY <1>1, <1>2, <1>3, <1>4, <1>8, <2>1
<1>9. ASSUME b >= j.cut PROVE q >= NextPixel(j) \/ (q = c /\ r > 0)
  <2> DEFINE qf == q * f
             cf == c * f
  <2>1. /\ qf \in Int /\ cf \in Int /\ (q < c => cf >= qf + f) /\ (q = c => qf = cf)
        /\ b - j.nbb = qf + k /\ j.cut = j.nbb + cf + r
    BY <1>1, <1>2, <1>6, <1>7
  <2> HIDE DEF qf, cf
  <2>2. CASE j.cut > j.nbb
    <3>1. q >= c
      BY <1>1, <1>2, <1>3, <1>4, <1>9, <2>1, <2>2
    <3> QED
      BY <1>1, <1>2, <1>5, <2>2, <3>1 DEF MaxOf
  <2>3. CASE j.cut <= j.nbb
    BY <1>1, <1>2, <1>5, <2>3 DEF MaxOf
  <2> QED
    BY <1>3, <2>2, <2>3
<1> QED
  BY <1>1, <1>8, <1>9 DEF q, c, r

(* The pixels that a part of a record to be written has a byte of.         *)
LEMMA Fills ==
  ASSUME NEW j \in Jobs, Sound(j), NEW part \in {"whole", "first", "last"},
         NEW i \in 0 .. (PartOf(j, part).len - 1), PartOf(j, part).pos + i >= j.nbb
  PROVE  LET q == PixelOf(PartOf(j, part).pos + i, j.nbb, j.fpix)
         IN  /\ part = "whole" \/ ~AskedCut(j) =>
                  (q \in WholePixels(j, part) <=> q \in AskedPixels(j))
             /\ AskedCut(j) /\ part # "whole" =>
                  (q \in WholePixels(j, part) \cup {CutAt(j)} <=> q \in AskedPixels(j))
<1> DEFINE b == PartOf(j, part).pos + i
           q == PixelOf(b, j.nbb, j.fpix)
           c == CutAt(j)
<1>1. /\ PartOf(j, part).pos \in Nat /\ PartOf(j, part).len \in Nat
      /\ b \in Int /\ j.cut \in Nat
  BY PartPlace, JobIs
<1>2. /\ q \in Nat
      /\ b < j.cut => q < c \/ (q = c /\ CutAfter(j) > 0)
      /\ b >= j.cut => q >= NextPixel(j) \/ (q = c /\ CutAfter(j) > 0)
  BY <1>1, PixelAtTheCut
<1>3. /\ part = "first" => b < j.cut
      /\ part = "last" => b >= j.cut
  <2>1. /\ part = "first" => PartOf(j, part).pos = 0 /\ PartOf(j, part).len = j.cut
        /\ part = "last" => PartOf(j, part).pos = j.cut
    BY PartIs
  <2> DEFINE pos == PartOf(j, part).pos
             len == PartOf(j, part).len
  <2>2. i \in Nat /\ i < len /\ b = pos + i
    BY <1>1
  <2> HIDE DEF pos, len, b
  <2> QED
    BY <1>1, <2>1, <2>2 DEF pos, len
<1>4. /\ q \in WholePixels(j, "whole") <=> q \in AskedPixels(j)
      /\ q \in WholePixels(j, "first") <=> q \in AskedPixels(j) /\ q < c
      /\ q \in WholePixels(j, "last") <=> q \in AskedPixels(j) /\ q >= NextPixel(j)
  BY InWholePixels
<1>5. CutAfter(j) > 0 => (AskedCut(j) <=> c \in AskedPixels(j))
  <2>1. c \in Int /\ StartPixel(j) \in Int /\ LastPixel(j) \in Int
    BY CutIs, FirstSampleIs
  <2> HIDE DEF c
  <2>2. c \in AskedPixels(j) <=> StartPixel(j) <= c /\ c < LastPixel(j)
    BY <2>1 DEF AskedPixels
  <2> QED
    BY <2>2 DEF AskedCut, c
<1>6. AskedCut(j) => CutAfter(j) > 0
  BY DEF AskedCut
<1> HIDE DEF b, q, c
<1>7. CASE part = "whole"
  BY <1>4, <1>7 DEF q, b
<1>8. CASE part = "first"
  <2>1. q < c \/ (q = c /\ CutAfter(j) > 0)
    BY <1>2, <1>3, <1>8
  <2>2. ~AskedCut(j) => (q \in WholePixels(j, "first") <=> q \in AskedPixels(j))
    BY <1>4, <1>5, <2>1
  <2>3. AskedCut(j) => (q \in WholePixels(j, "first") \cup {c} <=> q \in AskedPixels(j))
    BY <1>4, <1>5, <1>6, <2>1
  <2> QED
    BY <1>8, <2>2, <2>3 DEF q, b, c
<1>9. CASE part = "last"
  <2>1. q >= NextPixel(j) \/ (q = c /\ CutAfter(j) > 0)
    BY <1>1, <1>2, <1>3, <1>9
  <2>2. ~AskedCut(j) => (q \in WholePixels(j, "last") <=> q \in AskedPixels(j))
    BY <1>4, <1>5, <2>1
  <2>3. AskedCut(j) => (q \in WholePixels(j, "last") \cup {c} <=> q \in AskedPixels(j))
    BY <1>4, <1>5, <1>6, <2>1
  <2> QED
    BY <1>9, <2>2, <2>3 DEF q, b, c
<1> QED
  BY <1>7, <1>8, <1>9

LEMMA WriteStep ==
  ASSUME NEW j \in Jobs, Sound(j), j.translates, j.write,
         NEW D, NEW part, NextPart(j, part, D), NEW pp, Seen(j, D, pp)
  PROVE  Arrives(j, D \cup {part}, Sent(j, part),
                 WriteCall(j, part, Blank(PartOf(j, part)), pp))
<1> DEFINE bytes == Blank(PartOf(j, part))
           E == D \cup {part}
           m == WriteCall(j, part, bytes, pp)
           d == WriteInto(j, part, bytes)
           t == WriteFormats(j)
           given == WriteGiven(j, part, bytes)
           whole == WholePixels(j, part)
           c == CutAt(j)
<1> SUFFICES Arrives(j, E, Sent(j, part), m)
  OBVIOUS
<1>1. part \in {"whole", "first", "last"}
  BY DEF NextPart
<1>2. Partial(pp) /\ \A i \in DOMAIN bytes : i \in Int
  <2>1. PartOf(j, part).len \in Nat /\ MaxPixel \in Nat
    BY <1>1, PartPlace, JobIs
  <2> QED
    BY <2>1 DEF Seen, Blank
<1>3. part = "whole" \/ ~AskedCut(j) => given = Sent(j, part)
  <2> SUFFICES ASSUME part = "whole" \/ ~AskedCut(j)
               PROVE  Given(WriteFrom(j), WriteInto(j, part, Blank(PartOf(j, part))),
                            WriteFormats(j), whole) = Sent(j, part)
    BY Zenon DEF WriteGiven
  <2>1. ASSUME NEW i \in 0 .. (PartOf(j, part).len - 1), PartOf(j, part).pos + i >= j.nbb
        PROVE  LET q == PixelOf(PartOf(j, part).pos + i, j.nbb, j.fpix)
               IN  q \in whole <=> q \in AskedPixels(j)
    BY <1>1, <2>1, Fills
  <2> HIDE DEF whole
  <2> QED
    BY <1>1, <2>1, GivenIsSent
<1>4. AskedCut(j) /\ part # "whole" => WithPixel(given, d, t, c) = Sent(j, part)
  <2> SUFFICES ASSUME AskedCut(j), part # "whole"
               PROVE  WithPixel(given, d, t, c) = Sent(j, part)
    OBVIOUS
  <2> DEFINE U == whole \cup {c}
  <2>1. ASSUME NEW i \in 0 .. (PartOf(j, part).len - 1), PartOf(j, part).pos + i >= j.nbb
        PROVE  LET q == PixelOf(PartOf(j, part).pos + i, j.nbb, j.fpix)
               IN  q \in U <=> q \in AskedPixels(j)
    BY <1>1, <2>1, Fills
  <2>2. Given(WriteFrom(j), d, t, U) = Sent(j, part)
    <3> HIDE DEF U
    <3> QED
      BY <1>1, <2>1, GivenIsSent
  <2>3. Ready(WriteFrom(j), d, t) /\ d.pos \in Nat /\ t.notrans \in Nat
    <3>1. \E a, b, x, y : PartSide(j, part, a, b, x, y)
      BY <1>1 DEF PartSide
    <3> HIDE DEF bytes
    <3> QED
      BY <1>2, <3>1, WriteBounds DEF Bounds, Side
  <2>4. WithPixel(Given(WriteFrom(j), d, t, whole), d, t, c)
          = Given(WriteFrom(j), d, t, whole \cup {c})
    <3> HIDE DEF d, t, whole, c
    <3> QED
      BY <2>3, WithPixelIsGiven
  <2>5. given = Given(WriteFrom(j), d, t, whole)
    BY Zenon DEF WriteGiven
  <2> QED
    BY <2>2, <2>4, <2>5, Zenon
<1>5. CASE part = "whole"
  <2>1. m = State(given, pp)
    <3>1. PartSide(j, part, 0, j.n1, 0, 0)
      BY <1>5 DEF PartSide
    <3> QED
      BY <1>2, <3>1, WriteUncut
  <2>2. Seen(j, E, pp)
    <3>1. E # {} /\ E # {"first"} /\ E # {"last"}
      BY <1>5
    <3> QED
      BY <1>2, <3>1 DEF Seen
  <2> QED
    BY <1>3, <1>5, <2>1, <2>2 DEF Arrives
<1>6. CASE part = "first" /\ ~AskedCut(j)
  <2>1. /\ CutAfter(j) = 0 => m = State(given, pp)
        /\ CutAfter(j) < 0 /\ pp.pplen = 0 =>
             \E seen : Partial(seen) /\ m = State(given, seen)
        /\ InTwoParts(j) /\ CutAfter(j) > 0 /\ ~AskedCut(j) => m = State(given, pp)
    BY <1>2, <1>6, WriteFirst
  <2>2. InTwoParts(j) /\ D \in {{}, {"last"}}
    BY <1>6 DEF NextPart
  <2>3. CutAfter(j) < 0 => pp.pplen = 0
    BY <2>2 DEF Seen
  <2>4. CutAfter(j) \in Int
    BY CutIs
  <2>5. E # {} /\ E # {"last"}
    BY <1>6
  <2>6. given = Sent(j, part)
    BY <1>3, <1>6
  <2> HIDE DEF m, given, bytes, E
  <2>7. \E seen : Partial(seen) /\ m = State(given, seen)
    BY <1>2, <1>6, <2>1, <2>2, <2>3, <2>4
  <2>8. \A seen : Partial(seen) => Seen(j, E, seen)
    BY <1>6, <2>5 DEF Seen
  <2> QED
    BY <2>6, <2>7, <2>8 DEF Arrives
<1>7. CASE part = "last" /\ ~AskedCut(j)
  <2>1. m = State(given, pp)
    BY <1>2, <1>7, WriteLast
  <2>2. Seen(j, E, pp)
    <3>1. E # {} /\ (E = {"last"} => D = {} \/ D = {"last"})
      BY <1>7
    <3>2. E = {"last"} => pp.pplen = 0 \/ ~(CutAfter(j) < 0)
      BY <3>1 DEF Seen
    <3> HIDE DEF E
    <3> QED
      BY <1>2, <1>7, <3>1, <3>2 DEF Seen
  <2> QED
    BY <1>3, <1>7, <2>1, <2>2 DEF Arrives
<1>8. CASE part # "whole" /\ AskedCut(j)
  <2> DEFINE n == IF part = "first" THEN CutAfter(j) ELSE BytesLeft(j)
  <2>1. DestPart(m, given, d, t, c, n, pp)
    <3>1. CASE part = "first"
      <4>1. InTwoParts(j)
        BY <3>1 DEF NextPart
      <4> QED
        BY <1>2, <1>8, <3>1, <4>1, WriteFirst
    <3>2. CASE part = "last"
      BY <1>2, <1>8, <3>2, WriteLast
    <3> QED
      BY <1>1, <1>8, <3>1, <3>2
  <2>2. /\ CutAfter(j) \in Int /\ j.fpix \in Int /\ CutAfter(j) # 0
        /\ ~(CutAfter(j) < 0) /\ BytesLeft(j) = j.fpix - CutAfter(j) /\ BytesLeft(j) # 0
        /\ t.dpix = j.fpix
    BY <1>8, CutBytesOf, FormatsAre
  <2>3. WithPixel(given, d, t, c) = Sent(j, part)
    BY <1>4, <1>8
  <2> HIDE DEF m, given, bytes, d, t, c
  <2>4. CASE D = {}
    <3>1. pp.pplen = 0
      BY <2>4 DEF Seen
    <3>2. PICK pix : /\ m = State(Sent(j, part), [pplen |-> n, pix |-> pix])
                     /\ DOMAIN pix = 0 .. (MaxPixel - 1)
                     /\ CookedPart(pix, c, 0, j.fpix)
      BY <2>1, <2>2, <2>3, <3>1 DEF DestPart
    <3> DEFINE seen == [pplen |-> n, pix |-> pix]
    <3>3. seen.pplen = n /\ seen.pix = pix
      OBVIOUS
    <3> HIDE DEF seen
    <3>4. Partial(seen)
      BY <2>2, <3>2, <3>3 DEF Partial
    <3>5. Held(j, seen.pix, part)
      BY <3>2, <3>3 DEF Held, c
    <3>6. E = {part}
      BY <2>4
    <3>7. Seen(j, E, seen)
      BY <1>1, <1>8, <2>2, <3>3, <3>4, <3>5, <3>6 DEF Seen
    <3> QED
      BY <3>2, <3>7 DEF Arrives, seen
  <2>5. CASE D # {}
    <3>1. \/ part = "first" /\ D = {"last"}
          \/ part = "last" /\ D = {"first"}
      BY <1>8, <2>5 DEF NextPart
    <3>2. /\ part = "first" => pp.pplen = j.fpix - CutAfter(j) /\ Held(j, pp.pix, "last")
          /\ part = "last" => pp.pplen = CutAfter(j) /\ Held(j, pp.pix, "first")
      BY <1>8, <3>1 DEF Seen
    <3>3. pp.pplen # 0 /\ pp.pplen + n = t.dpix
      BY <2>2, <3>1, <3>2
    <3>4. CookedPart(pp.pix, c, 0, t.dpix)
      BY <2>2, <3>1, <3>2 DEF Held, c
    <3>5. m = State(Sent(j, part), pp)
      BY <2>1, <2>3, <3>3, <3>4 DEF DestPart
    <3>6. E = {"first", "last"}
      BY <3>1
    <3>7. E # {} /\ E # {"first"} /\ E # {"last"}
      <4> HIDE DEF E
      <4> QED
        BY <3>6
    <3>8. Seen(j, E, pp)
      BY <1>2, <3>7 DEF Seen
    <3> QED
      BY <3>5, <3>8 DEF Arrives
  <2> QED
    BY <2>4, <2>5
<1> QED
  BY <1>1, <1>5, <1>6, <1>7, <1>8

-----------------------------------------------------------------------------
(* The steps of a call whose pixels are copied as they are.                *)

Overlaps(s, d, b) == MaxOf(s.pos, d.pos) <= b /\ b < MinOf(s.pos + s.len, d.pos + d.len)

MovedBytes(s, d, nbb, pix) ==
  [i \in DOMAIN d.bytes |->
     IF Overlaps(s, d, d.pos + i) THEN RecordByte(d.pos + i, nbb, pix) ELSE d.bytes[i]]

LEMMA BytesMoved ==
  ASSUME NEW s, NEW d, NEW pp, NEW nbb, NEW pix, Source(s, nbb, pix),
         s.pos \in Nat, s.len \in Nat, d.pos \in Nat, d.len \in Nat,
         \A i \in DOMAIN d.bytes : i \in Int
  PROVE  MoveBytes(State(d.bytes, pp), s, d) = State(MovedBytes(s, d, nbb, pix), pp)
<1> DEFINE start == MaxOf(s.pos, d.pos)
           end == MinOf(s.pos + s.len, d.pos + d.len)
           to == start - d.pos
           from == start - s.pos
           moved == Move(d.bytes, to, s.bytes, from, end - start)
           goal == MovedBytes(s, d, nbb, pix)
<1>1. MoveBytes(State(d.bytes, pp), s, d) = State(moved, pp)
  <2>1. MoveBytes(State(d.bytes, pp), s, d) = [State(d.bytes, pp) EXCEPT !.bytes = moved]
    BY StateIs, Zenon DEF MoveBytes
  <2> HIDE DEF moved
  <2> QED
    BY <2>1 DEF State
<1>2. /\ start \in Int /\ end \in Int /\ to \in Int /\ from \in Int
      /\ to = start - d.pos /\ from = start - s.pos
      /\ s.pos <= start /\ end <= s.pos + s.len
  BY DEF MaxOf, MinOf
<1>3. ASSUME NEW i \in DOMAIN d.bytes PROVE moved[i] = goal[i]
  <2> DEFINE b == d.pos + i
             inside == to <= i /\ i < to + (end - start)
  <2>1. b \in Int /\ i \in Int
    OBVIOUS
  <2>2. moved[i] = IF inside THEN ByteAt(s.bytes, from + i - to) ELSE d.bytes[i]
    <3> HIDE DEF to, from, start, end
    <3> QED
      BY MoveFacts
  <2>3. goal[i] = IF start <= b /\ b < end THEN RecordByte(b, nbb, pix) ELSE d.bytes[i]
    BY DEF MovedBytes, Overlaps
  <2> DEFINE here == start <= b /\ b < end
  <2>4. inside <=> here
    <3> HIDE DEF start, end, to
    <3> QED
      BY <1>2, <2>1
  <2>5. from + i - to = b - s.pos
    <3> HIDE DEF start, to, from
    <3> QED
      BY <1>2, <2>1
  <2>6. here => ByteAt(s.bytes, b - s.pos) = RecordByte(b, nbb, pix)
    <3>1. here => s.pos <= b /\ b < s.pos + s.len
      <4> HIDE DEF start, end, b
      <4> QED
        BY <1>2, <2>1
    <3> HIDE DEF b, here
    <3> QED
      BY <2>1, <3>1 DEF Source
  <2> HIDE DEF moved, goal, inside, here, to, from, b
  <2> QED
    BY <2>2, <2>3, <2>4, <2>5, <2>6 DEF here
<1>4. /\ moved = [i \in DOMAIN d.bytes |-> moved[i]]
      /\ goal = [i \in DOMAIN d.bytes |-> goal[i]]
  BY Zenon DEF Move, MovedBytes
<1> HIDE DEF moved, goal
<1>5. moved = goal
  BY <1>3, <1>4
<1> QED
  BY <1>1, <1>5 DEF goal

LEMMA PixelBelow ==
  ASSUME NEW b \in Int, NEW nbb \in Nat, NEW d \in Nat \ {0}, b >= nbb, NEW c \in Int
  PROVE  PixelOf(b, nbb, d) < c <=> b < nbb + c * d
<1> DEFINE q == PixelOf(b, nbb, d)
           k == PlaceIn(b, nbb, d)
           qd == q * d
           cd == c * d
<1>1. q \in Nat /\ k \in 0 .. (d - 1) /\ b = nbb + qd + k
  BY PixelFacts
<1>2. qd \in Int /\ cd \in Int
  BY <1>1, MulSums
<1>3. q < c => qd + d <= cd
  BY <1>1, MulGap
<1>4. ~(q < c) => cd <= qd
  BY <1>1, MulMono
<1> HIDE DEF q, k, qd, cd
<1>5. q < c <=> b < nbb + cd
  BY <1>1, <1>2, <1>3, <1>4
<1> QED
  BY <1>5 DEF q, cd

(* A byte of a pixel that a part of the record and a request both have.    *)
LEMMA SharedPixel ==
  ASSUME NEW j \in Jobs, Sound(j), ~j.translates,
         NEW part \in {"whole", "first", "last"}, NEW b \in Int, b >= j.nbb
  PROVE  LET p == PartOf(j, part).pos
             l == PartOf(j, part).len
             q == PixelOf(b, j.nbb, j.fpix)
             asked == q \in AskedPixels(j) /\ InPart(j, part, b)
         IN  /\ MaxOf(p, StartByte(j)) <= b /\ b < MinOf(p + l, StartByte(j) + NBytes(j))
                  <=> asked
             /\ MaxOf(StartByte(j), p) <= b /\ b < MinOf(StartByte(j) + NBytes(j), p + l)
                  <=> asked
             /\ q \in AskedPixels(j) =>
                  /\ StartByte(j) <= b /\ b < StartByte(j) + NBytes(j)
                  /\ p <= b /\ b < p + l <=> InPart(j, part, b)
<1> DEFINE p == PartOf(j, part).pos
           l == PartOf(j, part).len
           q == PixelOf(b, j.nbb, j.fpix)
           sb == StartByte(j)
           end == StartByte(j) + NBytes(j)
<1>1. j.nbb \in Nat /\ j.fpix \in Nat \ {0} /\ j.fpix = j.upix /\ j.n1 \in Nat
  BY JobIs
<1>2. Side(sb, NBytes(j), j.nbb, j.fpix, StartPixel(j), EndPixel(j), 0, 0)
  BY <1>1, RequestSide
<1>3. /\ sb \in Nat /\ end \in Nat /\ StartPixel(j) \in Nat /\ EndPixel(j) \in Int
      /\ end = j.nbb + EndPixel(j) * j.fpix
      /\ \/ sb <= j.nbb /\ StartPixel(j) = 0
         \/ sb = j.nbb + StartPixel(j) * j.fpix
  <2>1. EndPixel(j) * j.fpix \in Int
    BY <1>1, <1>2, MulSums DEF Side
  <2> QED
    BY <1>2, <2>1 DEF Side
<1>4. q \in Nat
  BY <1>1, PixelFacts
<1>5. sb <= b <=> StartPixel(j) <= q
  <2>1. q < StartPixel(j) <=> b < j.nbb + StartPixel(j) * j.fpix
    BY <1>1, <1>3, PixelBelow
  <2>2. StartPixel(j) * j.fpix \in Int
    BY <1>1, <1>3, MulSums
  <2> HIDE DEF q, sb
  <2> QED
    BY <1>1, <1>3, <1>4, <2>1, <2>2
<1>6. b < end <=> q < EndPixel(j)
  BY <1>1, <1>3, PixelBelow
<1>7. b < RecLen(j) <=> q < j.n1
  <2>1. q < j.n1 <=> b < j.nbb + j.n1 * j.fpix
    BY <1>1, PixelBelow
  <2> QED
    BY <2>1 DEF RecLen
<1>8. q \in AskedPixels(j) <=> sb <= b /\ b < end /\ b < RecLen(j)
  <2>1. LastPixel(j) \in Int
    BY FirstSampleIs
  <2> HIDE DEF q, sb, end
  <2>2. q \in AskedPixels(j) <=> StartPixel(j) <= q /\ q < LastPixel(j)
    BY <1>3, <1>4, <2>1 DEF AskedPixels
  <2>3. q < LastPixel(j) <=> q < EndPixel(j) /\ q < j.n1
    BY <1>1, <1>3, <1>4 DEF LastPixel, MinOf
  <2> QED
    BY <1>5, <1>6, <1>7, <2>2, <2>3
<1>9. \/ part = "whole" /\ p = 0 /\ l = RecLen(j)
      \/ part = "first" /\ p = 0 /\ l = j.cut
      \/ part = "last" /\ p = j.cut /\ l = RecLen(j) - j.cut
  BY PartIs
<1>10. j.cut \in Nat \ {0} /\ RecLen(j) \in Nat /\ j.cut < RecLen(j)
  BY JobIs
<1> HIDE DEF p, l, q, sb, end
<1>11. b < RecLen(j) => (p <= b /\ b < p + l <=> InPart(j, part, b))
  BY <1>1, <1>9, <1>10 DEF InPart
<1>12. p \in Nat /\ l \in Nat /\ p + l <= RecLen(j)
  BY <1>9, <1>10
<1>13. MaxOf(p, sb) <= b /\ b < MinOf(p + l, end)
         <=> q \in AskedPixels(j) /\ InPart(j, part, b)
  <2>1. MaxOf(p, sb) <= b /\ b < MinOf(p + l, end)
          <=> p <= b /\ sb <= b /\ b < p + l /\ b < end
    BY <1>3, <1>12 DEF MaxOf, MinOf
  <2>2. b < p + l => b < RecLen(j)
    BY <1>10, <1>12
  <2> QED
    BY <1>8, <1>11, <2>1, <2>2
<1>14. MaxOf(sb, p) = MaxOf(p, sb) /\ MinOf(end, p + l) = MinOf(p + l, end)
  BY <1>3, <1>12 DEF MaxOf, MinOf
<1>15. MaxOf(sb, p) <= b /\ b < MinOf(end, p + l)
         <=> q \in AskedPixels(j) /\ InPart(j, part, b)
  BY <1>13, <1>14, Zenon
<1>16. q \in AskedPixels(j) =>
         /\ sb <= b /\ b < end
         /\ p <= b /\ b < p + l <=> InPart(j, part, b)
  BY <1>8, <1>11
<1> QED
  BY <1>13, <1>15, <1>16 DEF p, l, q, sb, end

Joined(D, part) == D \cup {part}

LEMMA CopiedReadStep ==
  ASSUME NEW j \in Jobs, Sound(j), ~j.translates, NEW D,
         NEW part \in {"whole", "first", "last"}, NEW pp
  PROVE  ReadCall(j, part, Received(j, D), pp) = State(Received(j, Joined(D, part)), pp)
<1> DEFINE s == ReadFrom(j, part)
           d == ReadInto(j, Received(j, D))
           t == ReadFormats(j)
           E == D \cup {part}
           G == MovedBytes(s, d, j.nbb, j.fpix)
           place == PartOf(j, part)
           I == -MaxPixel .. (NBytes(j) + MaxPixel - 1)
<1>1. /\ StartByte(j) \in Nat /\ NBytes(j) \in Nat /\ j.nbb \in Nat
      /\ place.pos \in Nat /\ place.len \in Nat /\ j.fpix = j.upix
  BY RequestSide, PartPlace, JobIs DEF Side
<1>2. /\ s.pos = place.pos /\ s.len = place.len
      /\ d.pos = StartByte(j) /\ d.len = NBytes(j) /\ d.bytes = Received(j, D)
      /\ Source(s, j.nbb, j.fpix)
  <2> HIDE DEF place
  <2> QED
    BY <1>1, IntoIs, RequestIs, FullIsSource DEF ReadFrom, ReadInto, place
<1>3. DOMAIN Received(j, D) = I /\ DOMAIN Received(j, E) = I
  BY DEF Received
<1>4. ReadCall(j, part, Received(j, D), pp) = State(G, pp)
  <2>1. ~t.translates
    BY FormatsAre
  <2>2. MoveTrans(s, d, t, pp) = MoveBytes(State(d.bytes, pp), s, d)
    <3> HIDE DEF s, d, t
    <3> QED
      BY <2>1 DEF MoveTrans
  <2>3. \A i \in DOMAIN d.bytes : i \in Int
    BY <1>2, ReceivedDomain
  <2>4. MoveBytes(State(d.bytes, pp), s, d) = State(G, pp)
    <3> HIDE DEF s, d
    <3> QED
      BY <1>1, <1>2, <2>3, BytesMoved
  <2> HIDE DEF G
  <2> QED
    BY <2>2, <2>4 DEF ReadCall
<1>5. ASSUME NEW i \in I PROVE G[i] = Received(j, E)[i]
  <2> DEFINE b == StartByte(j) + i
             q == PixelOf(b, j.nbb, j.upix)
             k == PlaceIn(b, j.nbb, j.upix)
             shared == /\ MaxOf(place.pos, StartByte(j)) <= b
                       /\ b < MinOf(place.pos + place.len, StartByte(j) + NBytes(j))
             here == 0 <= i /\ i < NBytes(j)
             fs == FirstSample(j) <= b
  <2>1. b \in Int /\ i \in Int
    BY <1>1, JobIs
  <2>2. G[i] = IF shared THEN IF b < j.nbb THEN Prefix(b) ELSE Raw(q, k)
               ELSE Received(j, D)[i]
    <3>1. G[i] = IF shared THEN RecordByte(b, j.nbb, j.fpix) ELSE Received(j, D)[i]
      <4> HIDE DEF s, d
      <4> QED
        BY <1>2, <1>3, Zenon DEF MovedBytes, Overlaps
    <3>2. RecordByte(b, j.nbb, j.fpix) = IF b < j.nbb THEN Prefix(b) ELSE Raw(q, k)
      BY <1>1, Zenon DEF RecordByte, PixelOf, PlaceIn
    <3> HIDE DEF G, b, q, k, shared
    <3> QED
      BY <3>1, <3>2
  <2>3. Received(j, D)[i] =
          IF b < j.nbb THEN IF fs /\ InParts(j, D, b) THEN Prefix(b) ELSE Old
          ELSE IF here /\ PixelIn(j, D, q, b) THEN PixelByte(j, q, k) ELSE Old
    BY Zenon DEF Received
  <2>4. Received(j, E)[i] =
          IF b < j.nbb THEN IF fs /\ InParts(j, E, b) THEN Prefix(b) ELSE Old
          ELSE IF here /\ PixelIn(j, E, q, b) THEN PixelByte(j, q, k) ELSE Old
    BY Zenon DEF Received
  <2>5. b < j.nbb => (shared <=> fs /\ InPart(j, part, b))
    BY <2>1, SharedPrefix
  <2>6. InParts(j, E, b) <=> InParts(j, D, b) \/ InPart(j, part, b)
    BY Zenon DEF InParts
  <2>7. ~(b < j.nbb) => /\ shared <=> q \in AskedPixels(j) /\ InPart(j, part, b)
                        /\ q \in AskedPixels(j) => here
    <3>1. SUFFICES ASSUME b >= j.nbb
                   PROVE  /\ shared <=> q \in AskedPixels(j) /\ InPart(j, part, b)
                          /\ q \in AskedPixels(j) => here
      BY <1>1, <2>1
    <3>2. q = PixelOf(b, j.nbb, j.fpix)
      BY <1>1
    <3>3. shared <=> q \in AskedPixels(j) /\ InPart(j, part, b)
      BY <2>1, <3>1, <3>2, SharedPixel
    <3>4. q \in AskedPixels(j) => StartByte(j) <= b /\ b < StartByte(j) + NBytes(j)
      BY <2>1, <3>1, <3>2, SharedPixel
    <3>5. StartByte(j) <= b /\ b < StartByte(j) + NBytes(j) => here
      BY <1>1, <2>1
    <3> QED
      BY <3>3, <3>4, <3>5
  <2>8. /\ PixelIn(j, D, q, b) <=> q \in AskedPixels(j) /\ InParts(j, D, b)
        /\ PixelIn(j, E, q, b) <=> q \in AskedPixels(j) /\ InParts(j, E, b)
        /\ PixelByte(j, q, k) = Raw(q, k)
    BY DEF PixelIn, PixelByte
  <2> HIDE DEF G, E, b, q, k, shared, here, fs
  <2> QED
    BY <2>2, <2>3, <2>4, <2>5, <2>6, <2>7, <2>8
<1>6. G = [i \in I |-> G[i]] /\ Received(j, E) = [i \in I |-> Received(j, E)[i]]
  <2>1. DOMAIN d.bytes = I
    BY <1>2, <1>3
  <2>2. G = [i \in DOMAIN d.bytes |-> G[i]]
    <3> HIDE DEF s, d
    <3> QED
      BY Zenon DEF MovedBytes
  <2>3. Received(j, E) = [i \in I |-> Received(j, E)[i]]
    BY Zenon DEF Received
  <2> HIDE DEF G, d, I
  <2> QED
    BY <2>1, <2>2, <2>3
<1> HIDE DEF G, E, I
<1>7. G = Received(j, E)
  BY <1>5, <1>6
<1> QED
  BY <1>4, <1>7 DEF E, Joined

LEMMA CopiedWriteStep ==
  ASSUME NEW j \in Jobs, Sound(j), ~j.translates,
         NEW part \in {"whole", "first", "last"}, NEW pp
  PROVE  WriteCall(j, part, Blank(PartOf(j, part)), pp) = State(Sent(j, part), pp)
<1> DEFINE place == PartOf(j, part)
           s == WriteFrom(j)
           d == WriteInto(j, part, Blank(place))
           t == WriteFormats(j)
           G == MovedBytes(s, d, j.nbb, j.upix)
           I == -MaxPixel .. (place.len + MaxPixel - 1)
<1>1. /\ StartByte(j) \in Nat /\ NBytes(j) \in Nat /\ j.nbb \in Nat /\ MaxPixel \in Nat
      /\ place.pos \in Nat /\ place.len \in Nat /\ j.fpix = j.upix
  BY RequestSide, PartPlace, JobIs DEF Side
<1>2. /\ s.pos = StartByte(j) /\ s.len = NBytes(j)
      /\ d.pos = place.pos /\ d.len = place.len /\ d.bytes = Blank(place)
      /\ Source(s, j.nbb, j.upix)
  <2>1. Request(j).pos = StartByte(j) /\ Request(j).len = NBytes(j)
    BY RequestIs
  <2> HIDE DEF place
  <2> QED
    BY <1>1, <2>1, IntoIs, FullIsSource DEF WriteFrom, WriteInto, place
<1>3. DOMAIN Blank(place) = I /\ \A i \in I : Blank(place)[i] = Old
  BY DEF Blank
<1>4. WriteCall(j, part, Blank(place), pp) = State(G, pp)
  <2>1. ~t.translates
    BY FormatsAre
  <2>2. MoveTrans(s, d, t, pp) = MoveBytes(State(d.bytes, pp), s, d)
    <3> HIDE DEF s, d, t
    <3> QED
      BY <2>1 DEF MoveTrans
  <2>3. \A i \in DOMAIN d.bytes : i \in Int
    BY <1>1, <1>2, <1>3
  <2>4. MoveBytes(State(d.bytes, pp), s, d) = State(G, pp)
    <3> HIDE DEF s, d, place
    <3> QED
      BY <1>1, <1>2, <2>3, BytesMoved
  <2> HIDE DEF G
  <2> QED
    BY <2>2, <2>4 DEF WriteCall
<1>5. ASSUME NEW i \in I PROVE G[i] = Sent(j, part)[i]
  <2> DEFINE b == place.pos + i
             q == PixelOf(b, j.nbb, j.fpix)
             k == PlaceIn(b, j.nbb, j.fpix)
             shared == /\ MaxOf(StartByte(j), place.pos) <= b
                       /\ b < MinOf(StartByte(j) + NBytes(j), place.pos + place.len)
             here == 0 <= i /\ i < place.len
             fs == FirstSample(j) <= b
  <2>1. b \in Int /\ i \in Int /\ b - place.pos = i
    BY <1>1
  <2>2. G[i] = IF shared THEN IF b < j.nbb THEN Prefix(b) ELSE Raw(q, k) ELSE Old
    <3>1. Blank(place)[i] = Old
      BY <1>3
    <3>2. G[i] = IF shared THEN RecordByte(b, j.nbb, j.upix) ELSE Blank(place)[i]
      <4> HIDE DEF s, d, place
      <4> QED
        BY <1>2, <1>3, Zenon DEF MovedBytes, Overlaps
    <3>3. RecordByte(b, j.nbb, j.upix) = IF b < j.nbb THEN Prefix(b) ELSE Raw(q, k)
      BY <1>1, Zenon DEF RecordByte, PixelOf, PlaceIn
    <3> HIDE DEF G, b, q, k, shared, place
    <3> QED
      BY <3>1, <3>2, <3>3
  <2>3. Sent(j, part)[i] =
          IF ~here THEN Old
          ELSE IF b < j.nbb THEN IF fs THEN Prefix(b) ELSE Old
          ELSE IF q \in AskedPixels(j) THEN PixelByte(j, q, k) ELSE Old
    BY Zenon DEF Sent
  <2>4. b < j.nbb => (shared <=> fs /\ here)
    BY <2>1, SharedPrefix
  <2>5. ~(b < j.nbb) => (shared <=> here /\ q \in AskedPixels(j))
    <3>1. SUFFICES ASSUME b >= j.nbb
                   PROVE  shared <=> here /\ q \in AskedPixels(j)
      BY <1>1, <2>1
    <3>2. shared <=> q \in AskedPixels(j) /\ InPart(j, part, b)
      BY <2>1, <3>1, SharedPixel
    <3>3. q \in AskedPixels(j) =>
            (place.pos <= b /\ b < place.pos + place.len <=> InPart(j, part, b))
      BY <2>1, <3>1, SharedPixel
    <3>4. place.pos <= b /\ b < place.pos + place.len <=> here
      BY <1>1, <2>1
    <3> QED
      BY <3>2, <3>3, <3>4
  <2>6. PixelByte(j, q, k) = Raw(q, k)
    BY DEF PixelByte
  <2> HIDE DEF G, b, q, k, shared, here, fs
  <2> QED
    BY <2>2, <2>3, <2>4, <2>5, <2>6
<1>6. G = [i \in I |-> G[i]] /\ Sent(j, part) = [i \in I |-> Sent(j, part)[i]]
  <2>1. DOMAIN d.bytes = I
    BY <1>2, <1>3
  <2>2. G = [i \in DOMAIN d.bytes |-> G[i]]
    <3> HIDE DEF s, d
    <3> QED
      BY Zenon DEF MovedBytes
  <2>3. Sent(j, part) = [i \in I |-> Sent(j, part)[i]]
    BY Zenon DEF Sent
  <2> HIDE DEF G, d, I
  <2> QED
    BY <2>1, <2>2, <2>3
<1> HIDE DEF G, I
<1>7. G = Sent(j, part)
  BY <1>5, <1>6
<1> QED
  BY <1>4, <1>7

-----------------------------------------------------------------------------
(* What should arrive, byte by byte.                                       *)

WantedAt(j, b, pix) ==
  LET q == PixelOf(b, j.nbb, pix)
  IN  IF b < j.nbb THEN IF FirstSample(j) <= b THEN Prefix(b) ELSE Old
      ELSE IF q \in AskedPixels(j) THEN PixelByte(j, q, PlaceIn(b, j.nbb, pix))
      ELSE Old

(* The byte of a record at which a unit starts.                            *)
StartOf(j, u, pix) == IF u < j.nbb THEN u ELSE j.nbb + (u - j.nbb) * pix

LEMMA HowMany ==
  ASSUME NEW a \in Int, NEW b \in Int, a <= b
  PROVE  Cardinality(a .. (b - 1)) = b - a
<1>1. Cardinality(a .. (b - 1)) = IF a > b - 1 THEN 0 ELSE (b - 1) - a + 1
  BY FS_Interval
<1> DEFINE n == Cardinality(a .. (b - 1))
<1> HIDE DEF n
<1>2. n = IF a > b - 1 THEN 0 ELSE (b - 1) - a + 1
  BY <1>1 DEF n
<1>3. n = b - a
  BY <1>2
<1> QED
  BY <1>3 DEF n

LEMMA OffsetIs ==
  ASSUME NEW j \in Jobs, NEW f \in Nat, NEW l \in Int, NEW u \in f .. l,
         NEW pix \in Nat \ {0}
  PROVE  StartOf(j, f, pix) + Offset(j, u, f .. l, pix) = StartOf(j, u, pix)
<1> DEFINE nbb == j.nbb
           bytes == {v \in f .. l : v < u /\ ~IsPixel(j, v)}
           pixels == {v \in f .. l : v < u /\ IsPixel(j, v)}
<1>1. nbb \in Nat /\ u \in Nat /\ f <= u
  BY JobIs
<1>2. CASE u < nbb
  <2>1. bytes = f .. (u - 1) /\ pixels = 0 .. (0 - 1)
    BY <1>1, <1>2 DEF IsPixel
  <2>2. Cardinality(bytes) = u - f /\ Cardinality(pixels) = 0
    <3> HIDE DEF bytes, pixels, nbb
    <3> QED
      BY <1>1, <2>1, HowMany
  <2>3. Offset(j, u, f .. l, pix) = (u - f) + pix * 0
    BY <2>2 DEF Offset
  <2>4. StartOf(j, f, pix) = f /\ StartOf(j, u, pix) = u
    BY <1>1, <1>2 DEF StartOf
  <2> QED
    BY <1>1, <2>3, <2>4
<1>3. CASE u >= nbb /\ f < nbb
  <2>1. bytes = f .. (nbb - 1) /\ pixels = nbb .. (u - 1)
    BY <1>1, <1>3 DEF IsPixel
  <2>2. Cardinality(bytes) = nbb - f /\ Cardinality(pixels) = u - nbb
    <3> HIDE DEF bytes, pixels, nbb
    <3>1. nbb \in Int /\ u \in Int /\ f <= nbb /\ nbb <= u
      BY <1>1, <1>3
    <3>2. Cardinality(f .. (nbb - 1)) = nbb - f
      BY <3>1, HowMany
    <3>3. Cardinality(nbb .. (u - 1)) = u - nbb
      BY <3>1, HowMany
    <3> QED
      BY <2>1, <3>2, <3>3
  <2>3. Offset(j, u, f .. l, pix) = (nbb - f) + pix * (u - nbb)
    BY <2>2 DEF Offset
  <2>4. StartOf(j, f, pix) = f /\ StartOf(j, u, pix) = nbb + (u - nbb) * pix
    BY <1>1, <1>3 DEF StartOf
  <2>5. pix * (u - nbb) = (u - nbb) * pix /\ (u - nbb) * pix \in Int
    BY <1>1, MulSums
  <2> DEFINE w == (u - nbb) * pix
  <2> HIDE DEF w
  <2>6. Offset(j, u, f .. l, pix) = (nbb - f) + w /\ StartOf(j, u, pix) = nbb + w /\ w \in Int
    BY <2>3, <2>4, <2>5 DEF w
  <2> QED
    BY <1>1, <2>4, <2>6
<1>4. CASE f >= nbb
  <2>1. bytes = 0 .. (0 - 1) /\ pixels = f .. (u - 1)
    BY <1>1, <1>4 DEF IsPixel
  <2>2. Cardinality(bytes) = 0 /\ Cardinality(pixels) = u - f
    <3> HIDE DEF bytes, pixels, nbb
    <3> QED
      BY <1>1, <1>4, <2>1, HowMany
  <2>3. Offset(j, u, f .. l, pix) = 0 + pix * (u - f)
    BY <2>2 DEF Offset
  <2>4. /\ StartOf(j, f, pix) = nbb + (f - nbb) * pix
        /\ StartOf(j, u, pix) = nbb + (u - nbb) * pix
    BY <1>1, <1>4 DEF StartOf
  <2> DEFINE x == u - f
             y == f - nbb
             w == x * pix
             z == y * pix
  <2>5. x \in Int /\ y \in Int /\ u - nbb = x + y
    BY <1>1
  <2> HIDE DEF x, y
  <2>6. pix * x = w /\ w \in Int /\ z \in Int /\ (x + y) * pix = w + z
    BY <2>5, MulSums
  <2>7. /\ Offset(j, u, f .. l, pix) = 0 + w
        /\ StartOf(j, f, pix) = nbb + z
        /\ StartOf(j, u, pix) = nbb + (w + z)
    BY <2>3, <2>4, <2>5, <2>6 DEF x, y
  <2> HIDE DEF w, z
  <2> QED
    BY <1>1, <2>6, <2>7
<1> QED
  BY <1>1, <1>2, <1>3, <1>4

(* The unit of a record that byte b is of, and which of its bytes it is.   *)
UnitAt(j, b, pix) == IF b < j.nbb THEN b ELSE j.nbb + PixelOf(b, j.nbb, pix)
ByteInUnit(j, b, pix) == IF b < j.nbb THEN 0 ELSE PlaceIn(b, j.nbb, pix)

LEMMA UnitIs ==
  ASSUME NEW j \in Jobs, NEW b \in Int, NEW pix \in Nat \ {0},
         NEW u \in Nat, NEW k \in 0 .. (pix - 1)
  PROVE  k < Width(j, u, pix) /\ StartOf(j, u, pix) + k = b
           <=> u = UnitAt(j, b, pix) /\ k = ByteInUnit(j, b, pix)
<1> DEFINE nbb == j.nbb
           q == PixelOf(b, nbb, pix)
           p == PlaceIn(b, nbb, pix)
<1>1. nbb \in Nat
  BY JobIs
<1>2. b >= nbb => /\ q \in Nat /\ p \in 0 .. (pix - 1) /\ b = nbb + q * pix + p
                  /\ q * pix \in Nat
  <2>1. b >= nbb => /\ q \in Nat /\ p \in 0 .. (pix - 1) /\ b = nbb + q * pix + p
    BY <1>1, PixelFacts
  <2> HIDE DEF q, p
  <2> QED
    BY <2>1, MulSums
<1>3. CASE u < nbb
  <2>1. Width(j, u, pix) = 1 /\ StartOf(j, u, pix) = u
    BY <1>1, <1>3 DEF Width, IsPixel, StartOf
  <2>2. b < nbb => UnitAt(j, b, pix) = b /\ ByteInUnit(j, b, pix) = 0
    BY DEF UnitAt, ByteInUnit
  <2>3. b >= nbb => UnitAt(j, b, pix) >= nbb
    <3> HIDE DEF q
    <3> QED
      BY <1>1, <1>2 DEF UnitAt, q
  <2> QED
    BY <1>1, <1>3, <2>1, <2>2, <2>3
<1>4. CASE u >= nbb
  <2> DEFINE v == u - nbb
  <2>1. v \in Nat /\ u = nbb + v
    BY <1>1, <1>4
  <2> HIDE DEF v
  <2> DEFINE w == v * pix
  <2>2. Width(j, u, pix) = pix /\ StartOf(j, u, pix) = nbb + w /\ w \in Nat
    BY <1>1, <1>4, <2>1, MulSums DEF Width, IsPixel, StartOf, v
  <2>3. b < nbb => UnitAt(j, b, pix) = b
    BY DEF UnitAt
  <2>4. b >= nbb => UnitAt(j, b, pix) = nbb + q /\ ByteInUnit(j, b, pix) = p
    BY <1>1 DEF UnitAt, ByteInUnit
  <2>5. ASSUME b >= nbb PROVE nbb + w + k = b <=> v = q /\ k = p
    <3>1. v * pix + k = q * pix + p => v = q /\ k = p
      <4>1. q \in Int /\ v \in Int /\ p \in 0 .. (pix - 1)
        BY <1>2, <2>1, <2>5
      <4> HIDE DEF q, p
      <4> QED
        BY <4>1, PlaceIsUnique
    <3>2. v = q => w = q * pix
      OBVIOUS
    <3> DEFINE qp == q * pix
    <3>3. /\ w + k = qp + p => v = q /\ k = p
          /\ v = q => w = qp
          /\ b = nbb + qp + p /\ qp \in Nat /\ p \in Int /\ q \in Nat
      BY <1>2, <2>5, <3>1, <3>2
    <3> HIDE DEF q, p, w, qp
    <3> QED
      BY <1>1, <2>2, <3>3
  <2> HIDE DEF q, p, w
  <2>6. CASE b < nbb
    BY <1>1, <1>4, <2>2, <2>3, <2>6
  <2>7. CASE b >= nbb
    <3>1. k < Width(j, u, pix) /\ StartOf(j, u, pix) + k = b <=> nbb + w + k = b
      BY <2>2
    <3>2. u = UnitAt(j, b, pix) /\ k = ByteInUnit(j, b, pix) <=> v = q /\ k = p
      BY <1>1, <1>2, <2>1, <2>4, <2>7
    <3> QED
      BY <2>5, <2>7, <3>1, <3>2
  <2> QED
    BY <1>1, <2>6, <2>7
<1> QED
  BY <1>1, <1>3, <1>4

LEMMA UnitFacts ==
  ASSUME NEW j \in Jobs, Sound(j), NEW b \in Int, NEW pix \in Nat \ {0}
  PROVE  LET u == UnitAt(j, b, pix)
             k == ByteInUnit(j, b, pix)
         IN  /\ k \in 0 .. (pix - 1)
             /\ WantedAt(j, b, pix) = IF u \in Asked(j) THEN Wanted(j, u, k) ELSE Old
<1> DEFINE q == PixelOf(b, j.nbb, pix)
           p == PlaceIn(b, j.nbb, pix)
<1>1. /\ j.nbb \in Nat /\ FirstSample(j) \in Nat
      /\ StartPixel(j) \in Nat /\ LastPixel(j) \in Int /\ StartPixel(j) < LastPixel(j)
      /\ Asked(j) = FirstSample(j) .. (j.nbb + LastPixel(j) - 1)
  BY JobIs, FirstSampleIs, SomePixels
<1>2. StartPixel(j) = IF FirstSample(j) - j.nbb < 0 THEN 0 ELSE FirstSample(j) - j.nbb
  BY DEF StartPixel, MaxOf
<1>3. CASE b < j.nbb
  <2>1. UnitAt(j, b, pix) = b /\ ByteInUnit(j, b, pix) = 0
    BY <1>3 DEF UnitAt, ByteInUnit
  <2>2. WantedAt(j, b, pix) = IF FirstSample(j) <= b THEN Prefix(b) ELSE Old
    BY <1>3, Zenon DEF WantedAt
  <2>3. b \in Asked(j) <=> FirstSample(j) <= b
    BY <1>1, <1>3
  <2>4. Wanted(j, b, 0) = Prefix(b)
    BY <1>1, <1>3 DEF Wanted, IsPixel
  <2> QED
    BY <2>1, <2>2, <2>3, <2>4
<1>4. CASE b >= j.nbb
  <2>1. UnitAt(j, b, pix) = j.nbb + q /\ ByteInUnit(j, b, pix) = p
    BY <1>1, <1>4 DEF UnitAt, ByteInUnit
  <2>2. q \in Nat /\ p \in 0 .. (pix - 1)
    BY <1>1, <1>4, PixelFacts
  <2>3. ~(b < j.nbb)
    BY <1>1, <1>4
  <2>4. WantedAt(j, b, pix) = IF q \in AskedPixels(j) THEN PixelByte(j, q, p) ELSE Old
    BY <2>3, Zenon DEF WantedAt
  <2> HIDE DEF q, p
  <2>5. j.nbb + q \in Asked(j) <=> q \in AskedPixels(j)
    BY <1>1, <1>2, <2>2 DEF AskedPixels
  <2>6. Wanted(j, j.nbb + q, p) = PixelByte(j, q, p)
    <3> DEFINE u == j.nbb + q
    <3>1. IsPixel(j, u) /\ u - j.nbb = q
      BY <1>1, <2>2 DEF IsPixel
    <3> HIDE DEF u
    <3>2. Wanted(j, u, p) = PixelByte(j, q, p)
      BY <3>1 DEF Wanted, PixelByte
    <3> QED
      BY <3>2 DEF u
  <2> QED
    BY <2>1, <2>2, <2>4, <2>5, <2>6
<1> QED
  BY <1>1, <1>3, <1>4

(* A buffer whose bytes are the ones wanted holds the units asked for.     *)
LEMMA HoldsIs ==
  ASSUME NEW j \in Jobs, Sound(j), NEW f \in Nat, NEW l \in Int, Asked(j) \subseteq f .. l,
         NEW pix \in Nat \ {0}, NEW shift \in Int, NEW base \in Int,
         base = StartOf(j, f, pix), NEW buf,
         \A i \in DOMAIN buf : i \in Int /\ buf[i] = WantedAt(j, base + i + shift, pix)
  PROVE  Holds(j, buf, f .. l, Asked(j), shift, pix)
<1> SUFFICES ASSUME NEW i \in DOMAIN buf
             PROVE  LET here == {x \in Asked(j) \X (0 .. (pix - 1)) :
                                   /\ x[2] < Width(j, x[1], pix)
                                   /\ Offset(j, x[1], f .. l, pix) + x[2] = i + shift}
                    IN  buf[i] = IF here = {} THEN Old
                                 ELSE LET uk == CHOOSE x \in here : TRUE
                                      IN  Wanted(j, uk[1], uk[2])
  BY Zenon DEF Holds
<1> DEFINE here == {x \in Asked(j) \X (0 .. (pix - 1)) :
                      /\ x[2] < Width(j, x[1], pix)
                      /\ Offset(j, x[1], f .. l, pix) + x[2] = i + shift}
           b == base + i + shift
           u == UnitAt(j, b, pix)
           k == ByteInUnit(j, b, pix)
<1>1. i \in Int /\ b \in Int /\ buf[i] = WantedAt(j, b, pix)
  OBVIOUS
<1>2. /\ k \in 0 .. (pix - 1)
      /\ WantedAt(j, b, pix) = IF u \in Asked(j) THEN Wanted(j, u, k) ELSE Old
  <2> HIDE DEF b
  <2> QED
    BY <1>1, UnitFacts
<1>3. ASSUME NEW v \in Asked(j), NEW n \in 0 .. (pix - 1)
      PROVE  n < Width(j, v, pix) /\ Offset(j, v, f .. l, pix) + n = i + shift
             <=> v = u /\ n = k
  <2>1. v \in f .. l /\ v \in Nat
    OBVIOUS
  <2> DEFINE offset == Offset(j, v, f .. l, pix)
  <2>2. base + offset = StartOf(j, v, pix)
    BY <2>1, OffsetIs
  <2>3. StartOf(j, v, pix) + n = b <=> offset + n = i + shift
    <3>1. offset \in Int
      <4> DEFINE some == {w \in f .. l : w < v /\ ~IsPixel(j, w)}
                 others == {w \in f .. l : w < v /\ IsPixel(j, w)}
      <4>1. IsFiniteSet(some) /\ IsFiniteSet(others)
        <5>1. IsFiniteSet(f .. l)
          BY FS_Interval
        <5>2. some \subseteq f .. l /\ others \subseteq f .. l
          BY Zenon
        <5> HIDE DEF some, others
        <5> QED
          BY <5>1, <5>2, FS_Subset
      <4>2. Cardinality(some) \in Nat /\ Cardinality(others) \in Nat
        BY <4>1, FS_CardinalityType
      <4>3. offset = Cardinality(some) + pix * Cardinality(others)
        BY DEF Offset
      <4> HIDE DEF offset, some, others
      <4> QED
        BY <4>2, <4>3, MulSums
    <3> HIDE DEF offset
    <3> QED
      BY <1>1, <2>2, <3>1
  <2>4. n < Width(j, v, pix) /\ StartOf(j, v, pix) + n = b <=> v = u /\ n = k
    <3> HIDE DEF b
    <3> QED
      BY <1>1, <2>1, UnitIs
  <2> HIDE DEF offset, b, u, k
  <2>5. n < Width(j, v, pix) /\ offset + n = i + shift <=> v = u /\ n = k
    BY <2>3, <2>4
  <2> QED
    BY <2>5 DEF offset, b, u, k
<1>4. \A x \in Asked(j) \X (0 .. (pix - 1)) :
        x \in here <=> x[1] = u /\ x[2] = k
  <2> SUFFICES ASSUME NEW x \in Asked(j) \X (0 .. (pix - 1))
               PROVE  x \in here <=> x[1] = u /\ x[2] = k
    OBVIOUS
  <2>1. x[1] \in Asked(j) /\ x[2] \in 0 .. (pix - 1)
    OBVIOUS
  <2>2. x[2] < Width(j, x[1], pix) /\ Offset(j, x[1], f .. l, pix) + x[2] = i + shift
        <=> x[1] = u /\ x[2] = k
    <3> HIDE DEF u, k
    <3> QED
      BY <1>3, <2>1
  <2> HIDE DEF u, k
  <2> QED
    BY <2>2, Zenon
<1>5. here \subseteq Asked(j) \X (0 .. (pix - 1))
  BY Zenon
<1> HIDE DEF here, u, k, b
<1>6. CASE u \in Asked(j)
  <2>1. <<u, k>> \in here
    <3>1. <<u, k>> \in Asked(j) \X (0 .. (pix - 1)) /\ <<u, k>>[1] = u /\ <<u, k>>[2] = k
      BY <1>2, <1>6
    <3> QED
      BY <1>4, <3>1, Zenon
  <2> DEFINE uk == CHOOSE x \in here : TRUE
  <2>2. here # {} /\ uk \in here
    BY <2>1, Zenon
  <2>3. uk[1] = u /\ uk[2] = k
    BY <1>4, <1>5, <2>2, Zenon
  <2>4. buf[i] = Wanted(j, u, k)
    BY <1>1, <1>2, <1>6
  <2>5. buf[i] = Wanted(j, uk[1], uk[2])
    BY <2>3, <2>4, Zenon
  <2>6. buf[i] = IF here = {} THEN Old ELSE Wanted(j, uk[1], uk[2])
    BY <2>2, <2>5, Zenon
  <2> QED
    BY <2>6 DEF here
<1>7. CASE u \notin Asked(j)
  <2>1. here = {}
    <3> SUFFICES ASSUME NEW x \in here PROVE FALSE
      BY Zenon
    <3>1. x \in Asked(j) \X (0 .. (pix - 1)) /\ x[1] = u
      BY <1>4, <1>5, Zenon
    <3>2. x[1] \in Asked(j)
      BY <3>1
    <3> QED
      BY <1>7, <3>1, <3>2, Zenon
  <2>2. buf[i] = Old
    BY <1>1, <1>2, <1>7
  <2> QED
    BY <2>1, <2>2 DEF here
<1> QED
  BY <1>6, <1>7

(* What a call leaves when it begins and when it has moved every part.     *)
LEMMA NothingReceived ==
  ASSUME NEW j \in Jobs, Sound(j)
  PROVE  Received(j, {}) = Blank(Request(j))
<1> DEFINE I == -MaxPixel .. (NBytes(j) + MaxPixel - 1)
<1>1. PixelsIn(j, {}) = {}
  BY PixelsGrow
<1>2. ASSUME NEW i \in I PROVE Received(j, {})[i] = Old
  <2> DEFINE b == StartByte(j) + i
             q == PixelOf(b, j.nbb, j.upix)
             k == PlaceIn(b, j.nbb, j.upix)
             here == 0 <= i /\ i < NBytes(j)
             fs == FirstSample(j) <= b
  <2>1. Received(j, {})[i] =
          IF b < j.nbb THEN IF fs /\ InParts(j, {}, b) THEN Prefix(b) ELSE Old
          ELSE IF here /\ PixelIn(j, {}, q, b) THEN PixelByte(j, q, k) ELSE Old
    BY Zenon DEF Received
  <2>2. ~InParts(j, {}, b)
    BY DEF InParts
  <2>3. ~PixelIn(j, {}, q, b)
    BY <1>1, <2>2 DEF PixelIn
  <2> HIDE DEF b, q, k, here, fs
  <2> QED
    BY <2>1, <2>2, <2>3
<1>3. Received(j, {}) = [i \in I |-> Received(j, {})[i]]
  BY Zenon DEF Received
<1>4. Blank(Request(j)) = [i \in I |-> Old]
  BY RequestIs, Zenon DEF Blank
<1> HIDE DEF I
<1> QED
  BY <1>2, <1>3, <1>4

LEMMA AskedByte ==
  ASSUME NEW j \in Jobs, Sound(j), NEW b \in Int, b >= j.nbb,
         PixelOf(b, j.nbb, j.upix) \in AskedPixels(j)
  PROVE  StartByte(j) <= b /\ b < StartByte(j) + NBytes(j)
<1> DEFINE q == PixelOf(b, j.nbb, j.upix)
           d == j.upix
           end == StartByte(j) + NBytes(j)
<1>1. Side(StartByte(j), NBytes(j), j.nbb, d, StartPixel(j), EndPixel(j), 0, 0)
  BY RequestSide
<1>2. /\ StartByte(j) \in Nat /\ end \in Nat /\ j.nbb \in Nat /\ d \in Nat \ {0}
      /\ StartPixel(j) \in Int /\ EndPixel(j) \in Int /\ LastPixel(j) \in Int
      /\ LastPixel(j) <= EndPixel(j)
  BY <1>1, FirstSampleIs, SomePixels DEF Side
<1>3. q \in Int /\ StartPixel(j) <= q /\ q < EndPixel(j)
  <2> HIDE DEF q
  <2>1. q \in AskedPixels(j)
    BY DEF q
  <2> QED
    BY <1>2, <2>1 DEF AskedPixels
<1>4. StartByte(j) <= j.nbb + q * d /\ j.nbb + q * d + d <= end
  <2> HIDE DEF q, d
  <2> QED
    BY <1>1, <1>3, SidePixel DEF end
<1>5. PlaceIn(b, j.nbb, d) \in 0 .. (d - 1) /\ b = j.nbb + q * d + PlaceIn(b, j.nbb, d)
  BY <1>2, PixelFacts
<1> DEFINE w == q * d
           k == PlaceIn(b, j.nbb, d)
<1>6. /\ w \in Int /\ StartByte(j) <= j.nbb + w /\ j.nbb + w + d <= end
      /\ k \in 0 .. (d - 1) /\ b = j.nbb + w + k
  BY <1>2, <1>3, <1>4, <1>5, MulSums
<1> HIDE DEF w, d, end, k
<1>7. StartByte(j) <= b /\ b < end
  BY <1>2, <1>6
<1> QED
  BY <1>7 DEF end

LEMMA AllReceived ==
  ASSUME NEW j \in Jobs, Sound(j)
  PROVE  \A i \in DOMAIN Received(j, PartsOf(j)) :
           Received(j, PartsOf(j))[i] = WantedAt(j, StartByte(j) + i, j.upix)
<1> DEFINE D == PartsOf(j)
           I == -MaxPixel .. (NBytes(j) + MaxPixel - 1)
<1>1. DOMAIN Received(j, D) = I
  BY DEF Received
<1>2. "whole" \in D \/ ("first" \in D /\ "last" \in D)
  BY JobIs, PartsAre DEF Parts
<1>3. PixelsIn(j, D) = AskedPixels(j)
  BY <1>2 DEF PixelsIn
<1>4. /\ StartByte(j) \in Int /\ NBytes(j) \in Int /\ MaxPixel \in Int
      /\ j.cut \in Int /\ j.nbb \in Int
  BY RequestSide, JobIs DEF Side
<1>5. ASSUME NEW i \in I
      PROVE  Received(j, D)[i] = WantedAt(j, StartByte(j) + i, j.upix)
  <2> DEFINE b == StartByte(j) + i
             q == PixelOf(b, j.nbb, j.upix)
             k == PlaceIn(b, j.nbb, j.upix)
             here == 0 <= i /\ i < NBytes(j)
             fs == FirstSample(j) <= b
  <2>1. Received(j, D)[i] =
          IF b < j.nbb THEN IF fs /\ InParts(j, D, b) THEN Prefix(b) ELSE Old
          ELSE IF here /\ PixelIn(j, D, q, b) THEN PixelByte(j, q, k) ELSE Old
    BY Zenon DEF Received
  <2>2. WantedAt(j, b, j.upix) =
          IF b < j.nbb THEN IF fs THEN Prefix(b) ELSE Old
          ELSE IF q \in AskedPixels(j) THEN PixelByte(j, q, k) ELSE Old
    BY Zenon DEF WantedAt
  <2>3. i \in Int /\ b \in Int
    BY <1>4
  <2>4. InParts(j, D, b)
    <3>1. CASE "whole" \in D
      BY <3>1 DEF InParts, InPart
    <3>2. CASE "first" \in D /\ "last" \in D
      <4>1. InPart(j, "first", b) \/ InPart(j, "last", b)
        BY <1>4, <2>3 DEF InPart
      <4> QED
        BY <3>2, <4>1 DEF InParts
    <3> QED
      BY <1>2, <3>1, <3>2
  <2>5. PixelIn(j, D, q, b) <=> q \in AskedPixels(j)
    BY <1>3, <2>4 DEF PixelIn
  <2>6. ~(b < j.nbb) /\ q \in AskedPixels(j) => here
    <3> SUFFICES ASSUME b >= j.nbb, q \in AskedPixels(j) PROVE here
      BY <1>4, <2>3
    <3>1. StartByte(j) <= b /\ b < StartByte(j) + NBytes(j)
      BY <2>3, AskedByte
    <3> QED
      BY <1>4, <2>3, <3>1
  <2> HIDE DEF b, q, k, here, fs, D
  <2>7. Received(j, D)[i] = WantedAt(j, b, j.upix)
    BY <2>1, <2>2, <2>4, <2>5, <2>6
  <2> QED
    BY <2>7 DEF b, D
<1> QED
  BY <1>1, <1>5

LEMMA AllSent ==
  ASSUME NEW j \in Jobs, NEW part \in {"whole", "first", "last"}
  PROVE  /\ DOMAIN Sent(j, part) = -MaxPixel .. (PartOf(j, part).len + MaxPixel - 1)
         /\ \A i \in DOMAIN Sent(j, part) :
              Sent(j, part)[i] =
                IF 0 <= i /\ i < PartOf(j, part).len
                  THEN WantedAt(j, PartOf(j, part).pos + i, j.fpix) ELSE Old
<1> DEFINE place == PartOf(j, part)
           I == -MaxPixel .. (place.len + MaxPixel - 1)
<1>1. DOMAIN Sent(j, part) = I
  BY DEF Sent
<1>2. ASSUME NEW i \in I
      PROVE  Sent(j, part)[i] =
               IF 0 <= i /\ i < place.len THEN WantedAt(j, place.pos + i, j.fpix) ELSE Old
  <2> DEFINE b == place.pos + i
             q == PixelOf(b, j.nbb, j.fpix)
             k == PlaceIn(b, j.nbb, j.fpix)
             here == 0 <= i /\ i < place.len
             fs == FirstSample(j) <= b
  <2>1. Sent(j, part)[i] =
          IF ~here THEN Old
          ELSE IF b < j.nbb THEN IF fs THEN Prefix(b) ELSE Old
          ELSE IF q \in AskedPixels(j) THEN PixelByte(j, q, k) ELSE Old
    BY Zenon DEF Sent
  <2>2. WantedAt(j, b, j.fpix) =
          IF b < j.nbb THEN IF fs THEN Prefix(b) ELSE Old
          ELSE IF q \in AskedPixels(j) THEN PixelByte(j, q, k) ELSE Old
    BY Zenon DEF WantedAt
  <2> DEFINE want == WantedAt(j, b, j.fpix)
  <2>3. Sent(j, part)[i] = IF here THEN want ELSE Old
    <3> HIDE DEF here, want
    <3> QED
      BY <2>1, <2>2 DEF want
  <2> QED
    BY <2>3
<1> QED
  BY <1>1, <1>2

LEMMA WholeCallIsRight ==
  ASSUME NEW j \in Jobs, Sound(j)
  PROVE  Holds(j, Received(j, PartsOf(j)), Asked(j), Asked(j), 0, j.upix)
<1> DEFINE f == FirstSample(j)
           l == j.nbb + LastPixel(j) - 1
           buf == Received(j, PartsOf(j))
           base == StartByte(j)
<1>1. /\ f \in Nat /\ l \in Int /\ j.upix \in Nat \ {0} /\ j.nbb \in Nat
      /\ Asked(j) = f .. l
  BY FirstSampleIs, JobIs, SomePixels
<1>2. base \in Int /\ base = StartOf(j, f, j.upix)
  <2>1. /\ Side(base, NBytes(j), j.nbb, j.upix, StartPixel(j), EndPixel(j), 0, 0)
        /\ f < j.nbb => base = f
        /\ f >= j.nbb => base >= j.nbb
    BY RequestSide
  <2>2. base \in Nat
    BY <2>1 DEF Side
  <2>3. CASE f < j.nbb
    BY <2>1, <2>2, <2>3 DEF StartOf
  <2>4. CASE f >= j.nbb
    <3>1. StartPixel(j) = f - j.nbb
      BY <1>1, <2>4 DEF StartPixel, MaxOf
    <3>2. base = j.nbb + StartPixel(j) * j.upix
      <4>1. StartPixel(j) * j.upix \in Nat
        BY <1>1, FirstSampleIs, MulSums
      <4> DEFINE w == StartPixel(j) * j.upix
      <4>2. \/ base <= j.nbb /\ StartPixel(j) = 0
            \/ base + 0 = j.nbb + w
        BY <2>1 DEF Side
      <4>3. StartPixel(j) = 0 => w = 0
        BY <1>1
      <4> HIDE DEF w, base
      <4> QED
        BY <1>1, <2>1, <2>2, <2>4, <4>1, <4>2, <4>3 DEF w
    <3>3. StartOf(j, f, j.upix) = j.nbb + (f - j.nbb) * j.upix
      BY <1>1, <2>4 DEF StartOf
    <3> QED
      BY <2>2, <3>1, <3>2, <3>3
  <2> QED
    BY <1>1, <2>3, <2>4
<1>3. \A i \in DOMAIN buf : i \in Int /\ buf[i] = WantedAt(j, base + i + 0, j.upix)
  <2>1. \A i \in DOMAIN buf : i \in Int
    BY ReceivedDomain
  <2>2. \A i \in DOMAIN buf : buf[i] = WantedAt(j, base + i, j.upix)
    BY AllReceived
  <2> HIDE DEF buf, base
  <2>3. \A i \in Int : base + i + 0 = base + i
    BY <1>2
  <2> QED
    BY <2>1, <2>2, <2>3
<1> HIDE DEF f, l, buf, base
<1>4. Holds(j, buf, f .. l, Asked(j), 0, j.upix)
  <2>1. f \in Nat /\ l \in Int /\ j.upix \in Nat \ {0} /\ Asked(j) \subseteq f .. l /\ 0 \in Int
    BY <1>1
  <2> QED
    BY <1>2, <1>3, <2>1, HoldsIs
<1> QED
  BY <1>1, <1>4 DEF buf

LEMMA PartIsRight ==
  ASSUME NEW j \in Jobs, Sound(j), NEW part \in {"whole", "first", "last"}
  PROVE  LET place == PartOf(j, part)
         IN  /\ Holds(j, Room(place, Sent(j, part)), Units(j), Asked(j), place.pos, j.fpix)
             /\ \A i \in DOMAIN Sent(j, part) \ (0 .. (place.len - 1)) :
                  Sent(j, part)[i] = Old
<1> DEFINE place == PartOf(j, part)
           buf == Room(place, Sent(j, part))
           l == j.nbb + j.n1 - 1
<1>1. /\ j.nbb \in Nat /\ j.n1 \in Nat \ {0} /\ j.fpix \in Nat \ {0} /\ MaxPixel \in Nat
      /\ place.pos \in Nat /\ place.len \in Nat
  BY JobIs, PartPlace
<1>2. /\ DOMAIN Sent(j, part) = -MaxPixel .. (place.len + MaxPixel - 1)
      /\ \A i \in DOMAIN Sent(j, part) :
           Sent(j, part)[i] =
             IF 0 <= i /\ i < place.len THEN WantedAt(j, place.pos + i, j.fpix) ELSE Old
  BY AllSent
<1>3. Asked(j) \subseteq 0 .. l /\ Units(j) = 0 .. l
  BY <1>1, FirstSampleIs, SomePixels DEF Units
<1>4. StartOf(j, 0, j.fpix) = 0
  BY <1>1 DEF StartOf
<1>5. DOMAIN buf = 0 .. (place.len - 1)
      /\ \A i \in 0 .. (place.len - 1) : buf[i] = Sent(j, part)[i]
  BY Zenon DEF Room
<1> HIDE DEF place, buf, l
<1>6. \A i \in DOMAIN buf : i \in Int /\ buf[i] = WantedAt(j, 0 + i + place.pos, j.fpix)
  <2> SUFFICES ASSUME NEW i \in 0 .. (place.len - 1)
               PROVE  i \in Int /\ buf[i] = WantedAt(j, 0 + i + place.pos, j.fpix)
    BY <1>5
  <2>1. i \in Int /\ 0 <= i /\ i < place.len /\ 0 + i + place.pos = place.pos + i
        /\ i \in -MaxPixel .. (place.len + MaxPixel - 1)
    BY <1>1
  <2>2. Sent(j, part)[i] = WantedAt(j, place.pos + i, j.fpix)
    BY <1>2, <2>1
  <2> QED
    BY <1>5, <2>1, <2>2
<1>7. Holds(j, buf, 0 .. l, Asked(j), place.pos, j.fpix)
  <2>1. l \in Int /\ place.pos \in Int /\ 0 \in Nat /\ 0 \in Int
    BY <1>1 DEF l
  <2> QED
    BY <1>1, <1>3, <1>4, <1>6, <2>1, HoldsIs
<1>8. \A i \in DOMAIN Sent(j, part) \ (0 .. (place.len - 1)) : Sent(j, part)[i] = Old
  BY <1>1, <1>2
<1> QED
  BY <1>3, <1>7, <1>8 DEF place, buf

-----------------------------------------------------------------------------
(* A call, from part to part.                                              *)

(* What the destinations hold when the parts in D have been moved.         *)
Arrived(j, D) ==
  IF ~j.write THEN [user |-> Received(j, D)]
  ELSE [part \in PartsOf(j) |-> IF part \in D THEN Sent(j, part) ELSE Blank(PartOf(j, part))]

Reached(j, D, rest, where, pp) ==
  Stage(j, rest, D) /\ where = Arrived(j, D) /\ (j.translates => Seen(j, D, pp))

(* The inductive invariant, of the calls that are sound.                   *)
SoundSoFar ==
  job \in Jobs /\ Sound(job) =>
    status = "SUCCESS" /\ \E D : Reached(job, D, todo, out, partial)

LEMMA NextIsNew ==
  ASSUME NEW j \in Jobs, NEW rest, NEW D, Stage(j, rest, D), rest # <<>>
  PROVE  Head(rest) \in PartsOf(j) /\ Head(rest) \notin D
<1>1. j.pieces \in Parts
  BY JobIs
<1>2. CASE rest = j.pieces /\ D = {}
  <2>1. Head(rest) = rest[1] /\ 1 \in DOMAIN rest
    BY <1>1, <1>2 DEF Parts
  <2> QED
    BY <1>2, <2>1 DEF PartsOf
<1>3. CASE rest = <<"last">> /\ j.pieces = <<"first", "last">> /\ D = {"first"}
  BY <1>3, PartsAre
<1>4. CASE rest = <<"first">> /\ j.pieces = <<"last", "first">> /\ D = {"last"}
  BY <1>4, PartsAre
<1>5. CASE rest = <<"whole">> /\ j.pieces = <<"last", "whole">> /\ D = {"last"}
  BY <1>5, PartsAre
<1> QED
  BY <1>2, <1>3, <1>4, <1>5 DEF Stage

LEMMA PartialFields ==
  ASSUME NEW bytes, NEW pp, NEW j, NEW D, Seen(j, D, pp), NEW m, m = State(bytes, pp)
  PROVE  Seen(j, D, [pplen |-> m.pplen, pix |-> m.pix])
<1> DEFINE seen == [pplen |-> m.pplen, pix |-> m.pix]
<1>1. seen.pplen = pp.pplen /\ seen.pix = pp.pix
  BY StateIs
<1> HIDE DEF seen
<1>2. Seen(j, D, seen)
  BY <1>1 DEF Seen, Partial
<1> QED
  BY <1>2 DEF seen

LEMMA CallBegins ==
  ASSUME NEW j \in Jobs, Sound(j)
  PROVE  Reached(j, {}, j.pieces, Buffers(j), NothingPartial)
<1>1. Stage(j, j.pieces, {})
  BY DEF Stage
<1>2. Buffers(j) = Arrived(j, {})
  BY NothingReceived DEF Buffers, Arrived, PartsOf
<1>3. Seen(j, {}, NothingPartial)
  <2>1. NothingPartial.pplen = 0 /\ DOMAIN NothingPartial.pix = 0 .. (MaxPixel - 1)
    BY DEF NothingPartial
  <2> QED
    BY <2>1 DEF Seen, Partial
<1> QED
  BY <1>1, <1>2, <1>3 DEF Reached

LEMMA PartIsRead ==
  ASSUME NEW j \in Jobs, Sound(j), ~j.write, NEW D, NEW rest, rest # <<>>, NEW where, NEW pp,
         Reached(j, D, rest, where, pp)
  PROVE  LET part == Head(rest)
             m == ReadCall(j, part, where["user"], pp)
         IN  /\ m.status = "SUCCESS"
             /\ Reached(j, D \cup {part}, Tail(rest), [where EXCEPT !["user"] = m.bytes],
                        [pplen |-> m.pplen, pix |-> m.pix])
<1> DEFINE part == Head(rest)
           m == ReadCall(j, part, where["user"], pp)
           E == D \cup {part}
<1>1. NextPart(j, part, D) /\ Stage(j, Tail(rest), E)
  BY Stages DEF Reached
<1>2. where = [user |-> Received(j, D)] /\ where["user"] = Received(j, D)
  BY DEF Reached, Arrived
<1>3. part \in {"whole", "first", "last"}
  BY <1>1 DEF NextPart
<1>4. \E seen : m = State(Received(j, E), seen) /\ (j.translates => Seen(j, E, seen))
  <2>1. CASE j.translates
    <3>1. Seen(j, D, pp)
      BY <2>1 DEF Reached
    <3>2. Arrives(j, E, Received(j, E), m)
      BY <1>1, <1>2, <2>1, <3>1, ReadStep
    <3> QED
      BY <3>2 DEF Arrives
  <2>2. CASE ~j.translates
    <3>1. ReadCall(j, part, Received(j, D), pp) = State(Received(j, Joined(D, part)), pp)
      <4> HIDE DEF part
      <4> QED
        BY <1>3, <2>2, CopiedReadStep
    <3>2. m = State(Received(j, E), pp)
      BY <1>2, <3>1, Zenon DEF Joined
    <3> QED
      BY <2>2, <3>2
  <2> QED
    BY <2>1, <2>2
<1> HIDE DEF m, E, part
<1>5. PICK seen : m = State(Received(j, E), seen) /\ (j.translates => Seen(j, E, seen))
  BY <1>4
<1>6. m.bytes = Received(j, E) /\ m.status = "SUCCESS"
  BY <1>5, StateIs
<1>7. [where EXCEPT !["user"] = m.bytes] = Arrived(j, E)
  BY <1>2, <1>6 DEF Arrived
<1>8. j.translates => Seen(j, E, [pplen |-> m.pplen, pix |-> m.pix])
  BY <1>5, PartialFields
<1>9. Reached(j, E, Tail(rest), [where EXCEPT !["user"] = m.bytes],
              [pplen |-> m.pplen, pix |-> m.pix])
  BY <1>1, <1>7, <1>8 DEF Reached
<1> QED
  BY <1>6, <1>9 DEF m, E, part

LEMMA PartIsWritten ==
  ASSUME NEW j \in Jobs, Sound(j), j.write, NEW D, NEW rest, rest # <<>>, NEW where, NEW pp,
         Reached(j, D, rest, where, pp)
  PROVE  LET part == Head(rest)
             m == WriteCall(j, part, where[part], pp)
         IN  /\ m.status = "SUCCESS"
             /\ Reached(j, D \cup {part}, Tail(rest), [where EXCEPT ![part] = m.bytes],
                        [pplen |-> m.pplen, pix |-> m.pix])
<1> DEFINE part == Head(rest)
           m == WriteCall(j, part, where[part], pp)
           E == D \cup {part}
<1>1. NextPart(j, part, D) /\ Stage(j, Tail(rest), E) /\ part \in PartsOf(j) /\ part \notin D
  BY Stages, NextIsNew DEF Reached
<1>2. where = [p \in PartsOf(j) |-> IF p \in D THEN Sent(j, p) ELSE Blank(PartOf(j, p))]
  BY DEF Reached, Arrived
<1>3. where[part] = Blank(PartOf(j, part))
  BY <1>1, <1>2
<1>4. part \in {"whole", "first", "last"}
  BY <1>1 DEF NextPart
<1>5. \E seen : m = State(Sent(j, part), seen) /\ (j.translates => Seen(j, E, seen))
  <2>1. CASE j.translates
    <3>1. Seen(j, D, pp)
      BY <2>1 DEF Reached
    <3>2. Arrives(j, E, Sent(j, part), m)
      BY <1>1, <1>3, <2>1, <3>1, WriteStep
    <3> QED
      BY <3>2 DEF Arrives
  <2>2. CASE ~j.translates
    <3>1. m = State(Sent(j, part), pp)
      BY <1>3, <1>4, <2>2, CopiedWriteStep
    <3> QED
      BY <2>2, <3>1
  <2> QED
    BY <2>1, <2>2
<1> HIDE DEF m, part
<1>6. PICK seen : m = State(Sent(j, part), seen) /\ (j.translates => Seen(j, E, seen))
  BY <1>5
<1>7. m.bytes = Sent(j, part) /\ m.status = "SUCCESS"
  BY <1>6, StateIs
<1>8. [where EXCEPT ![part] = m.bytes] = Arrived(j, E)
  <2>1. Arrived(j, E) =
          [p \in PartsOf(j) |-> IF p \in E THEN Sent(j, p) ELSE Blank(PartOf(j, p))]
    BY DEF Arrived
  <2>2. [where EXCEPT ![part] = m.bytes] =
          [p \in PartsOf(j) |-> IF p = part THEN Sent(j, part)
                                ELSE IF p \in D THEN Sent(j, p) ELSE Blank(PartOf(j, p))]
    BY <1>2, <1>7
  <2> QED
    BY <2>1, <2>2
<1> HIDE DEF E
<1>9. j.translates => Seen(j, E, [pplen |-> m.pplen, pix |-> m.pix])
  BY <1>6, PartialFields
<1>10. Reached(j, E, Tail(rest), [where EXCEPT ![part] = m.bytes],
               [pplen |-> m.pplen, pix |-> m.pix])
  BY <1>1, <1>8, <1>9 DEF Reached
<1> QED
  BY <1>7, <1>10 DEF m, E, part

LEMMA StaysSound == SoundSoFar /\ [Next]_vars => SoundSoFar'
<1> SUFFICES ASSUME SoundSoFar, [Next]_vars PROVE SoundSoFar'
  OBVIOUS
<1>1. ASSUME NEW j \in Jobs, Call(j) PROVE SoundSoFar'
  <2>1. /\ job' = j /\ todo' = j.pieces /\ out' = Buffers(j) /\ partial' = NothingPartial
        /\ status' = "SUCCESS"
    BY <1>1 DEF Call
  <2> QED
    BY <2>1, CallBegins DEF SoundSoFar
<1>2. CASE ReadPart
  <2> SUFFICES ASSUME job \in Jobs, Sound(job), job' = job
               PROVE  status' = "SUCCESS" /\ \E D : Reached(job, D, todo', out', partial')
    BY <1>2 DEF SoundSoFar, ReadPart, Moved
  <2> DEFINE part == Head(todo)
             m == ReadCall(job, part, out["user"], partial)
  <2>1. /\ out' = [out EXCEPT !["user"] = m.bytes]
        /\ partial' = [pplen |-> m.pplen, pix |-> m.pix]
        /\ status' = m.status /\ todo' = Tail(todo)
        /\ ~job.write /\ todo # <<>>
    BY <1>2 DEF ReadPart, Moving, Moved, ReadCall, ReadFrom, ReadInto, ReadFormats
  <2>2. PICK D : Reached(job, D, todo, out, partial)
    BY DEF SoundSoFar
  <2>3. /\ m.status = "SUCCESS"
        /\ Reached(job, D \cup {part}, Tail(todo), [out EXCEPT !["user"] = m.bytes],
                   [pplen |-> m.pplen, pix |-> m.pix])
    BY <2>1, <2>2, PartIsRead
  <2> QED
    BY <2>1, <2>3
<1>3. CASE WritePart
  <2> SUFFICES ASSUME job \in Jobs, Sound(job), job' = job
               PROVE  status' = "SUCCESS" /\ \E D : Reached(job, D, todo', out', partial')
    BY <1>3 DEF SoundSoFar, WritePart, Moved
  <2> DEFINE part == Head(todo)
             m == WriteCall(job, part, out[part], partial)
  <2>1. /\ out' = [out EXCEPT ![part] = m.bytes]
        /\ partial' = [pplen |-> m.pplen, pix |-> m.pix]
        /\ status' = m.status /\ todo' = Tail(todo)
        /\ job.write /\ todo # <<>>
    BY <1>3 DEF WritePart, Moving, Moved, WriteCall, WriteFrom, WriteInto, WriteFormats
  <2>2. PICK D : Reached(job, D, todo, out, partial)
    BY DEF SoundSoFar
  <2>3. /\ m.status = "SUCCESS"
        /\ Reached(job, D \cup {part}, Tail(todo), [out EXCEPT ![part] = m.bytes],
                   [pplen |-> m.pplen, pix |-> m.pix])
    BY <2>1, <2>2, PartIsWritten
  <2> QED
    BY <2>1, <2>3
<1>4. CASE Return
  BY <1>4, BytesAreSmall DEF Return, SoundSoFar
<1>5. CASE UNCHANGED vars
  BY <1>5 DEF vars, SoundSoFar
<1> QED
  BY <1>1, <1>2, <1>3, <1>4, <1>5 DEF Next

(* What the invariant says of a call that is over.                         *)
LEMMA AllHasArrived ==
  ASSUME NEW j \in Jobs, Sound(j), NEW D, NEW where, NEW pp, Reached(j, D, <<>>, where, pp)
  PROVE  IF ~j.write
           THEN Holds(j, where["user"], Asked(j), Asked(j), 0, j.upix)
           ELSE \A part \in DOMAIN where :
                  LET place == PartOf(j, part)
                  IN  /\ Holds(j, Room(place, where[part]), Units(j), Asked(j),
                               place.pos, j.fpix)
                      /\ \A i \in DOMAIN where[part] \ (0 .. (place.len - 1)) :
                           where[part][i] = Old
<1>1. D = PartsOf(j)
  <2>1. j.pieces # <<>>
    <3>1. j.pieces \in Parts
      BY JobIs
    <3> QED
      BY <3>1 DEF Parts
  <2> QED
    BY <2>1 DEF Reached, Stage
<1>2. CASE ~j.write
  <2>1. where["user"] = Received(j, PartsOf(j))
    BY <1>1, <1>2 DEF Reached, Arrived
  <2> QED
    BY <1>2, <2>1, WholeCallIsRight
<1>3. CASE j.write
  <2> SUFFICES ASSUME NEW part \in DOMAIN where
               PROVE  LET place == PartOf(j, part)
                      IN  /\ Holds(j, Room(place, where[part]), Units(j), Asked(j),
                                   place.pos, j.fpix)
                          /\ \A i \in DOMAIN where[part] \ (0 .. (place.len - 1)) :
                               where[part][i] = Old
    BY <1>3
  <2>1. part \in PartsOf(j) /\ where[part] = Sent(j, part)
    BY <1>1, <1>3 DEF Reached, Arrived
  <2>2. part \in {"whole", "first", "last"}
    BY <2>1, PartsAre, JobIs DEF Parts
  <2> QED
    BY <2>1, <2>2, PartIsRight
<1> QED
  BY <1>2, <1>3

LEMMA SoundMeansRight ==
  ASSUME SoundSoFar, job \in Jobs, Sound(job)
  PROVE  NoInternalError /\ CopiesTheOverlap
<1>1. status = "SUCCESS" /\ \E D : Reached(job, D, todo, out, partial)
  BY DEF SoundSoFar
<1>2. CopiesTheOverlap
  <2> SUFFICES ASSUME Done
               PROVE  CopiesTheOverlap
    BY DEF CopiesTheOverlap
  <2>1. todo = <<>>
    BY <1>1 DEF Done
  <2>2. PICK D : Reached(job, D, <<>>, out, partial)
    BY <1>1, <2>1
  <2> QED
    BY <2>2, AllHasArrived DEF CopiesTheOverlap
<1> QED
  BY <1>1, <1>2 DEF NoInternalError

(* v2_movetrans never finds what its code calls impossible in a call that  *)
(* is Sound: whatever the sizes of the pixels, the prefix, the record and  *)
(* the samples asked for, and wherever the two windows cut the record      *)
(* (v2_readdisk, v2_writedisk, v2_movetrans).                              *)
THEOREM NothingIsImpossible ==
  Spec => [](job \in Jobs /\ Sound(job) => NoInternalError)
<1>1. Init => SoundSoFar
  BY BytesAreSmall DEF Init, SoundSoFar
<1>2. SoundSoFar => (job \in Jobs /\ Sound(job) => NoInternalError)
  BY SoundMeansRight
<1> QED
  BY <1>1, <1>2, StaysSound, PTL DEF Spec

(* When a Sound call has made its last call of v2_movetrans, the caller's  *)
(* buffer (or the record) holds each pixel of the samples asked for,       *)
(* translated, and the bytes of the prefix as they were, and nothing else  *)
(* has changed (v2_readdisk, v2_writedisk, v2_movetrans).                  *)
THEOREM OverlapIsCopied ==
  Spec => [](job \in Jobs /\ Sound(job) => CopiesTheOverlap)
<1>1. Init => SoundSoFar
  BY BytesAreSmall DEF Init, SoundSoFar
<1>2. SoundSoFar => (job \in Jobs /\ Sound(job) => CopiesTheOverlap)
  BY SoundMeansRight
<1> QED
  BY <1>1, <1>2, StaysSound, PTL DEF Spec

-----------------------------------------------------------------------------
(* Types, of every call, sound or not.                                     *)

(* partpix and its length.                                                 *)
Length == (1 - MaxPixel) .. (MaxPixel - 1)
SmallPart(pp) == pp.pplen \in Length /\ IsPartPix(pp.pix)

(* What a copy may leave.                                                  *)
IsCopy(m) ==
  \E bytes, pp : SmallPart(pp) /\ (m = State(bytes, pp) \/ m = Fails(State(bytes, pp)))

LEMMA CopyIs ==
  ASSUME NEW m, IsCopy(m)
  PROVE  /\ m.pplen \in Length /\ IsPartPix(m.pix)
         /\ m.status \in {"SUCCESS", "INTERNAL_ERROR"}
<1>1. PICK bytes, pp : SmallPart(pp) /\ (m = State(bytes, pp) \/ m = Fails(State(bytes, pp)))
  BY DEF IsCopy
<1>2. /\ State(bytes, pp).pplen = pp.pplen /\ State(bytes, pp).pix = pp.pix
      /\ State(bytes, pp).status = "SUCCESS"
  BY StateIs
<1>3. /\ Fails(State(bytes, pp)).pplen = pp.pplen /\ Fails(State(bytes, pp)).pix = pp.pix
      /\ Fails(State(bytes, pp)).status = "INTERNAL_ERROR"
  BY DEF Fails, State
<1>4. pp.pplen \in Length /\ IsPartPix(pp.pix)
  BY <1>1 DEF SmallPart
<1> QED
  BY <1>1, <1>2, <1>3, <1>4, Zenon

LEMMA SomeCopy ==
  ASSUME NEW bytes, NEW pp, SmallPart(pp)
  PROVE  IsCopy(State(bytes, pp)) /\ IsCopy(Fails(State(bytes, pp)))
BY DEF IsCopy

LEMMA CopyOf ==
  ASSUME NEW bytes, NEW pix, IsPartPix(pix), NEW n \in Length
  PROVE  IsCopy(State(bytes, [pplen |-> n, pix |-> pix]))
<1> DEFINE pp == [pplen |-> n, pix |-> pix]
<1>1. pp.pplen = n /\ pp.pix = pix
  OBVIOUS
<1> HIDE DEF pp
<1>2. IsCopy(State(bytes, pp))
  BY <1>1, SomeCopy DEF SmallPart
<1> QED
  BY <1>2 DEF pp

LEMMA SecondCopy ==
  ASSUME NEW bytes, NEW pp, SmallPart(pp), NEW pix, IsPartPix(pix), NEW n, NEW to, NEW t
  PROVE  IsCopy(SecondPart(State(bytes, pp), pix, n, to, t))
<1>1. State(bytes, pp).pplen = pp.pplen /\ pp.pplen \in Length
  BY StateIs DEF SmallPart
<1>2. CASE pp.pplen + n = t.spix
  <2>1. SecondPart(State(bytes, pp), pix, n, to, t) =
          State(TransFn(bytes, to, pix, 0, 1, t), [pplen |-> pp.pplen, pix |-> pix])
    BY <1>2, SecondPartIs
  <2> QED
    BY <1>1, <2>1, CopyOf
<1>3. CASE pp.pplen + n # t.spix
  <2>1. SecondPart(State(bytes, pp), pix, n, to, t) = Fails(State(bytes, pp))
    BY <1>1, <1>3, Zenon DEF SecondPart
  <2> QED
    BY <2>1, SomeCopy
<1> QED
  BY <1>2, <1>3

LEMMA PartPixMoves ==
  ASSUME NEW pix, IsPartPix(pix), NEW to, NEW src, NEW from, NEW n, NEW t
  PROVE  IsPartPix(Move(pix, to, src, from, n)) /\ IsPartPix(TransFn(pix, to, src, from, n, t))
BY MoveFacts, TransFnDomain DEF IsPartPix

LEMMA SourceCopies ==
  ASSUME NEW bytes, NEW pp, SmallPart(pp), NEW s, NEW g, NEW t,
         g.extrasst \in Length, g.extrasend \in Length
  PROVE  /\ IsCopy(SourceStart(State(bytes, pp), s, g, t))
         /\ IsCopy(SourceEnd(State(bytes, pp), s, g, t))
<1> DEFINE m == State(bytes, pp)
<1>1. m.pplen = pp.pplen /\ m.pix = pp.pix /\ m.bytes = bytes /\ IsPartPix(pp.pix)
  BY StateIs DEF SmallPart
<1>2. IsCopy(SourceStart(m, s, g, t))
  <2> DEFINE pix == Move(m.pix, t.spix - g.extrasst, s.bytes, g.sstart - g.extrasst, g.extrasst)
  <2>1. IsPartPix(pix)
    <3> HIDE DEF m
    <3> QED
      BY <1>1, PartPixMoves
  <2>2. SourceStart(m, s, g, t) =
          IF m.pplen = 0 THEN FirstPart(m, pix, g.extrasst)
          ELSE SecondPart(m, pix, g.extrasst, g.dstart - t.dpix, t)
    BY Zenon DEF SourceStart
  <2> HIDE DEF pix
  <2>3. IsCopy(FirstPart(m, pix, g.extrasst))
    <3>1. FirstPart(m, pix, g.extrasst) = State(bytes, [pplen |-> g.extrasst, pix |-> pix])
      BY FirstPartIs
    <3> QED
      BY <2>1, <3>1, CopyOf
  <2>4. IsCopy(SecondPart(m, pix, g.extrasst, g.dstart - t.dpix, t))
    BY <2>1, SecondCopy
  <2> HIDE DEF m
  <2> QED
    BY <2>2, <2>3, <2>4
<1>3. IsCopy(SourceEnd(m, s, g, t))
  <2> DEFINE pix == Move(m.pix, 0, s.bytes, g.sstart + g.slength, g.extrasend)
  <2>1. IsPartPix(pix)
    <3> HIDE DEF m
    <3> QED
      BY <1>1, PartPixMoves
  <2>2. SourceEnd(m, s, g, t) =
          IF m.pplen = 0 THEN FirstPart(m, pix, g.extrasend)
          ELSE SecondPart(m, pix, g.extrasend, g.dstart + g.dlength, t)
    BY Zenon DEF SourceEnd
  <2> HIDE DEF pix
  <2>3. IsCopy(FirstPart(m, pix, g.extrasend))
    <3>1. FirstPart(m, pix, g.extrasend) = State(bytes, [pplen |-> g.extrasend, pix |-> pix])
      BY FirstPartIs
    <3> QED
      BY <2>1, <3>1, CopyOf
  <2>4. IsCopy(SecondPart(m, pix, g.extrasend, g.dstart + g.dlength, t))
    BY <2>1, SecondCopy
  <2> HIDE DEF m
  <2> QED
    BY <2>2, <2>3, <2>4
<1> QED
  BY <1>2, <1>3

LEMMA DestCopies ==
  ASSUME NEW bytes, NEW pp, SmallPart(pp), NEW s, NEW from, NEW n \in Length,
         NEW k, NEW to, NEW t
  PROVE  IsCopy(PartOfPixel(State(bytes, pp), s, from, n, k, to, t))
<1> DEFINE m == State(bytes, pp)
           pix == TransFn(m.pix, 0, s.bytes, from, 1, t)
           first == FirstPart(m, pix, n)
           seen == IF m.pplen = 0 THEN first ELSE m
<1>1. m.pplen = pp.pplen /\ m.pix = pp.pix /\ m.bytes = bytes /\ SmallPart(m)
  BY StateIs DEF SmallPart
<1>2. SmallPart(first)
  <2>1. first = State(bytes, [pplen |-> n, pix |-> pix])
    <3> HIDE DEF pix
    <3> QED
      BY FirstPartIs
  <2>2. IsPartPix(pix)
    <3> HIDE DEF m
    <3> QED
      BY <1>1, PartPixMoves DEF SmallPart
  <2> HIDE DEF pix, first
  <2>3. first.pplen = n /\ first.pix = pix
    BY <2>1 DEF State
  <2> QED
    BY <2>2, <2>3 DEF SmallPart
<1>3. PartOfPixel(m, s, from, n, k, to, t) =
        IF m.pplen # 0 /\ m.pplen + n # t.dpix THEN Fails(m)
        ELSE State(Move(seen.bytes, to, seen.pix, k, n), seen)
  BY Zenon DEF PartOfPixel
<1>4. IsCopy(Fails(m))
  BY SomeCopy
<1>5. SmallPart(seen)
  <2> HIDE DEF first, m
  <2> QED
    BY <1>1, <1>2
<1>6. IsCopy(State(Move(seen.bytes, to, seen.pix, k, n), seen))
  <2> HIDE DEF seen
  <2> QED
    BY <1>5, SomeCopy
<1> HIDE DEF m, seen
<1>7. IsCopy(PartOfPixel(m, s, from, n, k, to, t))
  BY <1>3, <1>4, <1>6
<1> QED
  BY <1>7 DEF m

Extra(g) ==
  /\ g.extrasst \in Length /\ g.extrasend \in Length
  /\ g.extradst \in Length /\ g.extradend \in Length

LEMMA TranslatedCopy ==
  ASSUME NEW bytes, NEW pp, SmallPart(pp), NEW s, NEW d, NEW g, NEW t, Extra(g)
  PROVE  IsCopy(MoveTranslated(State(bytes, pp), s, d, g, t))
<1> DEFINE m == State(bytes, pp)
           new == TransFn(bytes, g.dstart, s.bytes, g.sstart, g.len, t)
           n == State(new, pp)
<1>1. MovePixels(m, s, g, t) = n
  BY DEF MovePixels, State
<1>2. IsCopy(m) /\ IsCopy(n) /\ IsCopy(Fails(n))
  <2> HIDE DEF new
  <2> QED
    BY SomeCopy
<1>3. /\ IsCopy(SourceStart(n, s, g, t)) /\ IsCopy(SourceEnd(n, s, g, t))
      /\ IsCopy(DestStart(n, s, g, t)) /\ IsCopy(DestEnd(n, s, g, t))
  <2> HIDE DEF new
  <2>1. IsCopy(SourceStart(n, s, g, t)) /\ IsCopy(SourceEnd(n, s, g, t))
    BY SourceCopies DEF Extra
  <2>2. IsCopy(DestStart(n, s, g, t))
    BY DestCopies DEF Extra, DestStart
  <2>3. IsCopy(DestEnd(n, s, g, t))
    BY DestCopies DEF Extra, DestEnd
  <2> QED
    BY <2>1, <2>2, <2>3
<1> HIDE DEF m, n
<1>4. IsCopy(MovePartial(n, s, d, g, t))
  BY <1>2, <1>3 DEF MovePartial
<1>5. IsCopy(MoveTranslated(m, s, d, g, t))
  BY <1>1, <1>2, <1>4 DEF MoveTranslated
<1> QED
  BY <1>5 DEF m

LEMMA ExtrasAreSmall ==
  ASSUME NEW s, NEW d, NEW t, s.pos \in Int, s.len \in Int, d.pos \in Int, d.len \in Int,
         t.notrans \in Int, t.spix \in 1 .. MaxPixel, t.dpix \in 1 .. MaxPixel
  PROVE  Extra(Geometry(s, d, t))
<1> DEFINE sPrefix == MaxOf(t.notrans - s.pos, 0)
           dPrefix == MaxOf(t.notrans - d.pos, 0)
           sCut == CutBefore(s.pos, t.spix, t)
           dCut == CutBefore(d.pos, t.dpix, t)
           sStart == IF sCut = 0 THEN 0 ELSE t.spix - sCut
           dStart == IF dCut = 0 THEN 0 ELSE t.dpix - dCut
           g == Geometry(s, d, t)
<1>1. /\ g.extrasst = sStart /\ g.extradst = dStart
      /\ g.extrasend = Rem(s.len - sPrefix - sStart, t.spix)
      /\ g.extradend = Rem(d.len - dPrefix - dStart, t.dpix)
  BY DEF Geometry
<1>2. MaxPixel \in Nat \ {0} /\ t.spix \in Nat \ {0} /\ t.dpix \in Nat \ {0}
  BY BytesAreSmall
<1>3. sPrefix \in Int /\ dPrefix \in Int
  BY DEF MaxOf
<1>4. ASSUME NEW pos \in Int, NEW pix \in 1 .. MaxPixel, pix \in Nat \ {0}
      PROVE  CutBefore(pos, pix, t) \in 0 .. (pix - 1)
  <2> DEFINE v == MaxOf(pos - t.notrans, 0)
  <2>1. v \in Nat
    BY DEF MaxOf
  <2> HIDE DEF v
  <2>2. v % pix \in 0 .. (pix - 1)
    BY <1>4, <2>1, DivMod
  <2> QED
    BY <2>2 DEF CutBefore, v
<1>5. sCut \in 0 .. (t.spix - 1) /\ dCut \in 0 .. (t.dpix - 1)
  BY <1>2, <1>4
<1> HIDE DEF sPrefix, dPrefix, sCut, dCut, g
<1>6. sStart \in 0 .. (t.spix - 1) /\ dStart \in 0 .. (t.dpix - 1)
  BY <1>2, <1>5
<1> HIDE DEF sStart, dStart
<1>7. ASSUME NEW v \in Int, NEW pix \in 1 .. MaxPixel, pix \in Nat \ {0}
      PROVE  Rem(v, pix) \in Length
  <2>1. Rem(v, pix) \in Int /\ Remains(Quot(v, pix), Rem(v, pix), pix)
    BY <1>7, QuotRemIs
  <2> DEFINE r == Rem(v, pix)
  <2>2. r \in Int /\ -pix < r /\ r < pix
    BY <1>2, <1>7, <2>1 DEF Remains
  <2> HIDE DEF r
  <2>3. r \in Length
    BY <1>2, <1>7, <2>2 DEF Length
  <2> QED
    BY <2>3 DEF r
<1>8. s.len - sPrefix - sStart \in Int /\ d.len - dPrefix - dStart \in Int
  BY <1>2, <1>3, <1>6
<1>9. g.extrasend \in Length /\ g.extradend \in Length
  BY <1>1, <1>2, <1>7, <1>8
<1>10. g.extrasst \in Length /\ g.extradst \in Length
  BY <1>1, <1>2, <1>6 DEF Length
<1> QED
  BY <1>9, <1>10 DEF Extra, g

LEMMA CopyTypes ==
  ASSUME NEW s, NEW d, NEW t, s.pos \in Int, s.len \in Int, d.pos \in Int, d.len \in Int,
         t.notrans \in Int, t.spix \in 1 .. MaxPixel, t.dpix \in 1 .. MaxPixel,
         NEW pp, SmallPart(pp)
  PROVE  IsCopy(MoveTrans(s, d, t, pp))
<1>1. CASE ~t.translates
  <2> DEFINE start == MaxOf(s.pos, d.pos)
             end == MinOf(s.pos + s.len, d.pos + d.len)
             moved == Move(d.bytes, start - d.pos, s.bytes, start - s.pos, end - start)
  <2>1. MoveBytes(State(d.bytes, pp), s, d) = State(moved, pp)
    <3>1. MoveBytes(State(d.bytes, pp), s, d) = [State(d.bytes, pp) EXCEPT !.bytes = moved]
      BY StateIs, Zenon DEF MoveBytes
    <3> HIDE DEF moved
    <3> QED
      BY <3>1 DEF State
  <2>2. MoveTrans(s, d, t, pp) = State(moved, pp)
    <3> HIDE DEF moved
    <3> QED
      BY <1>1, <2>1 DEF MoveTrans
  <2> HIDE DEF moved
  <2> QED
    BY <2>2, SomeCopy
<1>2. CASE t.translates
  <2> DEFINE start == MaxOf(s.pos, d.pos)
             end == MinOf(t.notrans, MinOf(s.pos + s.len, d.pos + d.len))
             moved == Move(d.bytes, start - d.pos, s.bytes, start - s.pos, end - start)
             g == Geometry(s, d, t)
  <2>1. MovePrefix(State(d.bytes, pp), s, d, t) = State(moved, pp)
    <3>1. MovePrefix(State(d.bytes, pp), s, d, t) = [State(d.bytes, pp) EXCEPT !.bytes = moved]
      BY StateIs, Zenon DEF MovePrefix
    <3> HIDE DEF moved
    <3> QED
      BY <3>1 DEF State
  <2>2. Extra(g)
    BY ExtrasAreSmall
  <2> HIDE DEF moved, g
  <2>3. MoveTrans(s, d, t, pp) = MoveTranslated(State(moved, pp), s, d, g, t)
    BY <1>2, <2>1 DEF MoveTrans, g
  <2> QED
    BY <2>2, <2>3, TranslatedCopy
<1> QED
  BY <1>1, <1>2

LEMMA PlacesAreNumbers ==
  ASSUME NEW j \in Jobs
  PROVE  StartByte(j) \in Int /\ NBytes(j) \in Int
<1> DEFINE fs == FirstSample(j)
<1>1. /\ fs \in Nat /\ j.nbb \in Nat /\ j.n1 \in Nat /\ j.upix \in Nat
      /\ j.samp \in Nat /\ j.nsamps \in Nat
  BY FirstSampleIs, JobIs
<1> DEFINE ssbin == MinOf(j.nbb, fs)
           a == MaxOf(fs - ssbin, 0)
           nsbin == MaxOf(MinOf(j.nbb, fs + j.nsamps) - fs, 0)
           b == MaxOf(j.nsamps - nsbin, 0)
<1>2. ssbin \in Int /\ a \in Int /\ nsbin \in Int /\ b \in Int
  <2> HIDE DEF fs
  <2> QED
    BY <1>1 DEF MinOf, MaxOf
<1>3. /\ StartByte(j) = (IF j.samp = 0 THEN fs ELSE ssbin + a * j.upix)
      /\ NBytes(j) = (IF j.nsamps = 0 THEN j.n1 * j.upix + (IF j.binary THEN j.nbb ELSE 0)
                      ELSE nsbin + b * j.upix)
  BY Zenon DEF StartByte, NBytes
<1> HIDE DEF fs, ssbin, a, nsbin, b
<1>4. a * j.upix \in Int /\ b * j.upix \in Int /\ j.n1 * j.upix \in Int
  BY <1>1, <1>2, MulSums
<1>5. /\ ssbin + a * j.upix \in Int /\ nsbin + b * j.upix \in Int
      /\ j.n1 * j.upix + (IF j.binary THEN j.nbb ELSE 0) \in Int
  BY <1>1, <1>2, <1>4
<1> QED
  BY <1>1, <1>3, <1>5

LEMMA CallTypes ==
  ASSUME NEW j \in Jobs, NEW part \in {"whole", "first", "last"}, NEW bytes,
         NEW pp, SmallPart(pp)
  PROVE  IsCopy(ReadCall(j, part, bytes, pp)) /\ IsCopy(WriteCall(j, part, bytes, pp))
<1>1. /\ PartOf(j, part).pos \in Int /\ PartOf(j, part).len \in Int
      /\ Request(j).pos \in Int /\ Request(j).len \in Int
      /\ j.nbb \in Int /\ j.fpix \in 1 .. MaxPixel /\ j.upix \in 1 .. MaxPixel
  BY PartPlace, PlacesAreNumbers, RequestIs, JobIs
<1>2. IsCopy(ReadCall(j, part, bytes, pp))
  <2> DEFINE s == ReadFrom(j, part)
             d == ReadInto(j, bytes)
             t == ReadFormats(j)
  <2>1. /\ s.pos = PartOf(j, part).pos /\ s.len = PartOf(j, part).len
        /\ d.pos = Request(j).pos /\ d.len = Request(j).len
        /\ t.notrans = j.nbb /\ t.spix = j.fpix /\ t.dpix = j.upix
    BY IntoIs, FormatsAre DEF ReadFrom, ReadInto, Full
  <2> HIDE DEF s, d, t
  <2>2. IsCopy(MoveTrans(s, d, t, pp))
    BY <1>1, <2>1, CopyTypes
  <2> QED
    BY <2>2 DEF ReadCall, s, d, t
<1>3. IsCopy(WriteCall(j, part, bytes, pp))
  <2> DEFINE s == WriteFrom(j)
             d == WriteInto(j, part, bytes)
             t == WriteFormats(j)
  <2>1. /\ s.pos = Request(j).pos /\ s.len = Request(j).len
        /\ d.pos = PartOf(j, part).pos /\ d.len = PartOf(j, part).len
        /\ t.notrans = j.nbb /\ t.spix = j.upix /\ t.dpix = j.fpix
    BY IntoIs, FormatsAre DEF WriteFrom, WriteInto, Full
  <2> HIDE DEF s, d, t
  <2>2. IsCopy(MoveTrans(s, d, t, pp))
    BY <1>1, <2>1, CopyTypes
  <2> QED
    BY <2>2 DEF WriteCall, s, d, t
<1> QED
  BY <1>2, <1>3

OnItsWay == job # NoJob => \E D : Stage(job, todo, D)

LEMMA StaysTyped == TypeOK /\ OnItsWay /\ [Next]_vars => TypeOK' /\ OnItsWay'
<1> SUFFICES ASSUME TypeOK, OnItsWay, [Next]_vars PROVE TypeOK' /\ OnItsWay'
  OBVIOUS
<1>1. SmallPart(partial)
  BY DEF TypeOK, SmallPart, Length, IsPartPix
<1>2. SmallPart(NothingPartial)
  <2>1. NothingPartial.pplen = 0 /\ DOMAIN NothingPartial.pix = 0 .. (MaxPixel - 1)
    BY DEF NothingPartial
  <2>2. 0 \in Length
    BY BytesAreSmall DEF Length
  <2> QED
    BY <2>1, <2>2 DEF SmallPart, IsPartPix
<1>3. ASSUME SmallPart(partial')
      PROVE  /\ partial'.pplen \in (1 - MaxPixel) .. (MaxPixel - 1)
             /\ DOMAIN partial'.pix = 0 .. (MaxPixel - 1)
  BY <1>3 DEF SmallPart, Length, IsPartPix
<1>4. ASSUME NEW j \in Jobs, Call(j) PROVE TypeOK' /\ OnItsWay'
  <2>1. job' = j /\ todo' = j.pieces /\ partial' = NothingPartial /\ status' = "SUCCESS"
    BY <1>4 DEF Call
  <2>2. Stage(j, j.pieces, {})
    BY DEF Stage
  <2> QED
    BY <1>2, <1>3, <2>1, <2>2 DEF TypeOK, OnItsWay
<1>5. ASSUME NEW m, NEW dest, IsCopy(m), Moved(dest, m), Moving PROVE TypeOK' /\ OnItsWay'
  <2>1. /\ partial' = [pplen |-> m.pplen, pix |-> m.pix] /\ status' = m.status
        /\ todo' = Tail(todo) /\ job' = job /\ job # NoJob /\ todo # <<>>
    BY <1>5 DEF Moved, Moving
  <2>2. /\ m.pplen \in Length /\ IsPartPix(m.pix)
        /\ m.status \in {"SUCCESS", "INTERNAL_ERROR"}
    BY <1>5, CopyIs
  <2>3. SmallPart(partial')
    BY <2>1, <2>2 DEF SmallPart
  <2>4. job \in Jobs
    BY <2>1 DEF TypeOK
  <2>5. PICK D : Stage(job, todo, D)
    BY <2>1 DEF OnItsWay
  <2>6. Stage(job, Tail(todo), D \cup {Head(todo)})
    BY <2>1, <2>4, <2>5, Stages
  <2>7. OnItsWay'
    BY <2>1, <2>6 DEF OnItsWay
  <2>8. TypeOK'
    BY <1>3, <2>1, <2>2, <2>3, <2>4 DEF TypeOK
  <2> QED
    BY <2>7, <2>8
<1>6. ASSUME Moving PROVE job \in Jobs /\ Head(todo) \in {"whole", "first", "last"}
  <2>1. job \in Jobs /\ todo # <<>> /\ \E D : Stage(job, todo, D)
    BY <1>6 DEF Moving, TypeOK, OnItsWay
  <2>2. PICK D : NextPart(job, Head(todo), D)
    BY <2>1, Stages
  <2> QED
    BY <2>1, <2>2 DEF NextPart
<1>7. CASE ReadPart
  <2> DEFINE m == ReadCall(job, Head(todo), out["user"], partial)
  <2>1. Moving /\ Moved("user", m)
    BY <1>7 DEF ReadPart, ReadCall, ReadFrom, ReadInto, ReadFormats
  <2>2. IsCopy(m)
    BY <1>1, <1>6, <2>1, CallTypes
  <2> HIDE DEF m
  <2> QED
    BY <1>5, <2>1, <2>2
<1>8. CASE WritePart
  <2> DEFINE m == WriteCall(job, Head(todo), out[Head(todo)], partial)
  <2>1. Moving /\ Moved(Head(todo), m)
    BY <1>8 DEF WritePart, WriteCall, WriteFrom, WriteInto, WriteFormats
  <2>2. IsCopy(m)
    BY <1>1, <1>6, <2>1, CallTypes
  <2> HIDE DEF m
  <2> QED
    BY <1>5, <2>1, <2>2
<1>9. CASE Return
  <2>1. job' = NoJob /\ partial' = NothingPartial /\ status' = "SUCCESS"
    BY <1>9 DEF Return
  <2> QED
    BY <1>2, <1>3, <2>1 DEF TypeOK, OnItsWay
<1>10. CASE UNCHANGED vars
  BY <1>10 DEF vars, TypeOK, OnItsWay
<1> QED
  BY <1>4, <1>7, <1>8, <1>9, <1>10 DEF Next

(* partpix never holds as much as a pixel of either format, and keeps its  *)
(* size, in every call, sound or not (v2_movetrans).                       *)
THEOREM TransferTypes == Spec => []TypeOK
<1>1. Init => TypeOK /\ OnItsWay
  <2> SUFFICES ASSUME Init PROVE TypeOK /\ OnItsWay
    OBVIOUS
  <2>1. job = NoJob /\ partial = NothingPartial /\ status = "SUCCESS"
    BY DEF Init
  <2>2. NothingPartial.pplen = 0 /\ DOMAIN NothingPartial.pix = 0 .. (MaxPixel - 1)
    BY DEF NothingPartial
  <2>3. 0 \in (1 - MaxPixel) .. (MaxPixel - 1)
    BY BytesAreSmall
  <2> QED
    BY <2>1, <2>2, <2>3 DEF TypeOK, OnItsWay
<1> QED
  BY <1>1, StaysTyped, PTL DEF Spec
=============================================================================
