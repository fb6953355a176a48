------------------------- MODULE RecordBufferProofs -------------------------
(***************************************************************************)
(* Proofs about RecordBuffer, for every record size, block size, access    *)
(* method and file.                                                        *)
(***************************************************************************)
EXTENDS RecordBuffer, TLAPS

-----------------------------------------------------------------------------
(* The geometry of the window.                                             *)

LEMMA DivMod ==
  ASSUME NEW n \in Nat, NEW d \in Nat \ {0}
  PROVE  /\ n \div d \in Nat
         /\ n % d \in 0 .. (d - 1)
         /\ n = d * (n \div d) + (n % d)
OBVIOUS

LEMMA MulMono ==
  ASSUME NEW a \in Int, NEW b \in Int, NEW d \in Nat, a <= b
  PROVE  a * d <= b * d
OBVIOUS

LEMMA MulInNat ==
  ASSUME NEW a \in Nat, NEW d \in Nat
  PROVE  a * d \in Nat
OBVIOUS

LEMMA MulLess ==
  ASSUME NEW a \in Int, NEW b \in Int, NEW d \in Nat, a * d < b * d
  PROVE  a < b
BY MulMono

LEMMA DivBound ==
  ASSUME NEW n \in Nat, NEW d \in Nat \ {0}
  PROVE  /\ (n \div d) * d <= n
         /\ n < (n \div d) * d + d
BY DivMod
(* Rounding up to a multiple of d adds what n is short of one.             *)
LEMMA RoundUp ==
  ASSUME NEW n \in Nat, NEW d \in Nat \ {0}
  PROVE  /\ (n + d - 1) \div d \in Nat
         /\ n + (IF n % d = 0 THEN 0 ELSE d - (n % d)) = ((n + d - 1) \div d) * d
<1> DEFINE q == n \div d
           m == n % d
           c == (n + d - 1) \div d
           t == n + d - 1
<1>1. q \in Nat /\ m \in 0 .. (d - 1) /\ n = d * q + m
  BY DivMod
<1>2. t \in Nat
  OBVIOUS
<1>3. c \in Nat /\ c * d <= t /\ t < c * d + d
  BY <1>2, DivMod, DivBound
<1>4. (q + 1) * d = d * q + d /\ (q + 2) * d = d * q + 2 * d /\ (c + 1) * d = c * d + d
  BY <1>1, <1>3
<1> HIDE DEF q, m, c
<1>5. CASE m = 0
  <2>1. c * d < (q + 1) * d /\ q * d < (c + 1) * d
    BY <1>1, <1>3, <1>4, <1>5
  <2>2. c < q + 1 /\ q < c + 1
    BY <1>1, <1>3, <2>1, MulLess
  <2>3. c = q
    BY <1>1, <1>3, <2>2
  <2> QED
    BY <1>1, <1>3, <1>5, <2>3 DEF m, c
<1>6. CASE m # 0
  <2>1. c * d < (q + 2) * d /\ q * d < c * d
    BY <1>1, <1>3, <1>4, <1>6
  <2>2. c < q + 2 /\ q < c
    BY <1>1, <1>3, <2>1, MulLess
  <2>3. c = q + 1
    BY <1>1, <1>3, <2>2
  <2> QED
    BY <1>1, <1>3, <1>4, <1>6, <2>3 DEF m, c
<1> QED
  BY <1>5, <1>6

-----------------------------------------------------------------------------
(* A record never fills the buffer (v2_initialize_buffer adds a block when *)
(* it would).                                                              *)
LEMMA CeilCovers ==
  ASSUME NEW a \in Nat \ {0}, NEW b \in Nat \ {0}
  PROVE  /\ Ceil(a, b) \in Nat \ {0}
         /\ a <= Ceil(a, b) * b
         /\ Ceil(a, b) * b < a + b
<1> DEFINE n == a + b - 1
<1>1. n \in Nat /\ Ceil(a, b) = n \div b
  BY DEF Ceil
<1>2. n \div b \in Nat /\ (n \div b) * b <= n /\ n < (n \div b) * b + b
  BY <1>1, DivMod, DivBound
<1>3. a <= (n \div b) * b /\ (n \div b) * b < a + b
  BY <1>1, <1>2
<1>4. n \div b # 0
  BY <1>2, <1>3
<1> QED
  BY <1>1, <1>2, <1>3, <1>4

LEMMA BufferExceedsRecord ==
  /\ NBlocks \in Nat \ {0}
  /\ BufSize \in Nat \ {0}
  /\ RecSize + BlockSize <= BufSize
<1> USE SizesArePositive
<1> DEFINE big == Larger(MinBufSize, RecSize)
           n == Ceil(big, BlockSize)
           m == Ceil(RecSize, BlockSize)
<1>1. big \in Nat \ {0} /\ RecSize <= big
  BY DEF Larger
<1>2. n \in Nat \ {0} /\ big <= n * BlockSize
  BY <1>1, CeilCovers
<1>3. m \in Nat \ {0} /\ m * BlockSize < RecSize + BlockSize
  BY CeilCovers
<1>4. NBlocks = IF m = n THEN n + 1 ELSE n
  BY DEF NBlocks
<1>5. m <= n
  <2>1. (m - 1) * BlockSize = m * BlockSize - BlockSize
    BY <1>3
  <2>2. (m - 1) * BlockSize < n * BlockSize
    BY <1>1, <1>2, <1>3, <2>1
  <2>3. m - 1 < n
    BY <1>2, <1>3, <2>2, MulLess
  <2> QED
    BY <1>2, <1>3, <2>3
<1>6. NBlocks \in Nat \ {0} /\ m + 1 <= NBlocks
  BY <1>2, <1>3, <1>4, <1>5
<1>7. RecSize <= m * BlockSize
  BY CeilCovers
<1>8. (m + 1) * BlockSize <= NBlocks * BlockSize
  BY <1>3, <1>6, MulMono
<1>9. (m + 1) * BlockSize = m * BlockSize + BlockSize
  BY <1>3
<1>10. NBlocks * BlockSize \in Nat
  BY <1>6, MulInNat
<1> HIDE DEF m
<1> QED
  BY <1>3, <1>6, <1>7, <1>8, <1>9, <1>10 DEF BufSize

(* An aligned buffer is a whole number of records.                         *)
LEMMA AlignedBuffer ==
  ASSUME Aligned
  PROVE  /\ RecsPerBuf \in Nat \ {0}
         /\ BufSize = RecsPerBuf * RecSize
<1> USE SizesArePositive
<1>1. BufSize \in Nat \ {0} /\ RecSize < BufSize
  BY BufferExceedsRecord
<1>2. RecSize % BufSize # 0
  BY <1>1
<1>3. BufSize % RecSize = 0
  BY <1>2 DEF Aligned
<1>4. BufSize = RecSize * (BufSize \div RecSize) + (BufSize % RecSize)
  BY <1>1, DivMod
<1>5. BufSize \div RecSize \in Nat
  BY <1>1, DivMod
<1> QED
  BY <1>1, <1>3, <1>4, <1>5 DEF RecsPerBuf

LEMMA DivUnique ==
  ASSUME NEW n \in Nat, NEW d \in Nat \ {0}, NEW q \in Nat,
         q * d <= n, n < q * d + d
  PROVE  n \div d = q /\ n % d = n - q * d
<1> DEFINE p == n \div d
<1>1. p \in Nat /\ p * d <= n /\ n < p * d + d /\ n = d * p + (n % d) /\ n % d \in 0 .. (d - 1)
  BY DivMod, DivBound
<1> HIDE DEF p
<1>2. (p + 1) * d = p * d + d /\ (q + 1) * d = q * d + d
  BY <1>1
<1>3. q * d < (p + 1) * d /\ p * d < (q + 1) * d
  BY <1>1, <1>2
<1>4. q < p + 1 /\ p < q + 1
  BY <1>1, <1>3, MulLess
<1>5. p = q
  BY <1>1, <1>4
<1>6. n % d = n - q * d
  BY <1>1, <1>5
<1> QED
  BY <1>5, <1>6 DEF p

LEMMA MultipleDiv ==
  ASSUME NEW q \in Nat, NEW d \in Nat \ {0}
  PROVE  (q * d) \div d = q /\ (q * d) % d = 0
<1>1. q * d \in Nat /\ q * d < q * d + d
  BY MulInNat
<1>2. (q * d) \div d = q /\ (q * d) % d = q * d - q * d
  BY <1>1, DivUnique
<1> QED
  BY <1>1, <1>2

-----------------------------------------------------------------------------
(* A piece of a record lies in the window at the place its bytes have in   *)
(* the file.                                                               *)
Placed(piece, loc, rec) ==
  /\ piece.at \in Nat /\ piece.from \in Nat /\ piece.len \in Nat
  /\ piece.at + piece.len <= BufSize
  /\ piece.from + piece.len <= RecSize
  /\ Base(loc) + piece.at = rec * RecSize + piece.from

LEMMA BaseInNat ==
  ASSUME NEW loc \in Nat
  PROVE  Base(loc) \in Nat /\ End(loc) \in Nat /\ End(loc) + 1 = Base(loc) + BufSize
BY MulInNat, SizesArePositive, BufferExceedsRecord DEF Base, End

(* An aligned window starts at the first of its records.                   *)
LEMMA AlignedBase ==
  ASSUME Aligned, NEW loc, IsLocation(loc)
  PROVE  FirstRec(loc) \in Nat /\ Base(loc) = FirstRec(loc) * RecSize
<1> USE SizesArePositive
<1> DEFINE q == loc \div NBlocks
<1>1. loc \in Nat /\ loc % NBlocks = 0 /\ NBlocks \in Nat \ {0}
  BY BufferExceedsRecord DEF IsLocation
<1>2. q \in Nat /\ loc = NBlocks * q
  BY <1>1, DivMod
<1>3. RecsPerBuf \in Nat \ {0} /\ BufSize = RecsPerBuf * RecSize
  BY AlignedBuffer
<1>4. Base(loc) = (NBlocks * q) * BlockSize
  BY <1>2 DEF Base
<1>5. (NBlocks * q) * BlockSize = q * BufSize
  BY <1>1, <1>2 DEF BufSize
<1>6. FirstRec(loc) = q * RecsPerBuf
  BY DEF FirstRec
<1>7. q * BufSize = (q * RecsPerBuf) * RecSize
  BY <1>2, <1>3
<1>8. q * RecsPerBuf \in Nat
  BY <1>2, <1>3, MulInNat
<1> QED
  BY <1>4, <1>5, <1>6, <1>7, <1>8

(* A record that is complete in the window is where the code looks for it. *)
LEMMA WholeRecPlaced ==
  ASSUME NEW loc, IsLocation(loc), NEW rec \in Nat, Complete(loc, rec)
  PROVE  Placed(WholeRec(loc, rec), loc, rec)
<1> USE SizesArePositive
<1> DEFINE B == Base(loc)
<1>1. loc \in Nat /\ B \in Nat /\ End(loc) \in Nat /\ End(loc) + 1 = B + BufSize
  BY BaseInNat DEF IsLocation
<1>2. CASE Aligned
  <2>1. FirstRec(loc) \in Nat /\ B = FirstRec(loc) * RecSize
    BY <1>2, AlignedBase
  <2>2. RecsPerBuf \in Nat \ {0} /\ BufSize = RecsPerBuf * RecSize
    BY <1>2, AlignedBuffer
  <2>3. FirstRec(loc) <= rec /\ rec <= FirstRec(loc) + RecsPerBuf - 1
    BY <1>2 DEF Complete, FirstCompleteRec, LastCompleteRec, LastRec
  <2>4. WholeRec(loc, rec) = [at |-> (rec - FirstRec(loc)) * RecSize, from |-> 0, len |-> RecSize]
    <3>1. RecOffset(loc) = 0 /\ FirstCompleteRec(loc) = FirstRec(loc)
      BY <1>2 DEF RecOffset, FirstRecPos, FirstCompleteRec
    <3>2. (rec - FirstRec(loc)) * RecSize \in Nat
      BY <2>1, <2>3, MulInNat
    <3> QED
      BY <3>1, <3>2 DEF WholeRec
  <2>5. (rec - FirstRec(loc)) * RecSize = rec * RecSize - B
    BY <2>1
  <2>6. (rec - FirstRec(loc)) * RecSize \in Nat
    BY <2>1, <2>3, MulInNat
  <2>7. (rec - FirstRec(loc) + 1) * RecSize <= RecsPerBuf * RecSize
    BY <2>1, <2>2, <2>3, MulMono
  <2>8. (rec - FirstRec(loc) + 1) * RecSize = (rec - FirstRec(loc)) * RecSize + RecSize
    BY <2>1
  <2>9. rec * RecSize \in Nat
    BY MulInNat
  <2> QED
    BY <1>1, <2>2, <2>4, <2>5, <2>6, <2>7, <2>8, <2>9 DEF Placed
<1>3. CASE ~Aligned
  <2> DEFINE c == FirstCompleteRec(loc)
             l == LastCompleteRec(loc)
  <2>1. c = (B + RecSize - 1) \div RecSize
    BY <1>3 DEF FirstCompleteRec
  <2>2. l = (End(loc) - RecSize + 1) \div RecSize
    BY <1>3 DEF LastCompleteRec
  <2>3. End(loc) - RecSize + 1 \in Nat
    BY <1>1, BufferExceedsRecord
  <2>4. RecOffset(loc) \in Nat /\ RecOffset(loc) = IF B % RecSize = 0 THEN 0 ELSE RecSize - (B % RecSize)
    <3>1. B % RecSize \in 0 .. (RecSize - 1)
      BY <1>1, DivMod
    <3> QED
      BY <1>3, <3>1 DEF RecOffset, FirstRecPos
  <2>5. l \in Nat /\ l * RecSize <= End(loc) - RecSize + 1
    BY <2>2, <2>3, DivMod, DivBound
  <2>6. c \in Nat /\ B + RecOffset(loc) = c * RecSize
    <3> HIDE DEF B
    <3>1. /\ (B + RecSize - 1) \div RecSize \in Nat
          /\ B + (IF B % RecSize = 0 THEN 0 ELSE RecSize - (B % RecSize))
               = ((B + RecSize - 1) \div RecSize) * RecSize
      BY <1>1, RoundUp
    <3> QED
      BY <2>1, <2>4, <3>1
  <2>7. c <= rec /\ rec <= l
    BY DEF Complete
  <2>8. (rec - c) * RecSize = rec * RecSize - c * RecSize /\ (rec - c) * RecSize \in Nat
    BY <2>6, <2>7, MulInNat
  <2>9. rec * RecSize <= l * RecSize /\ rec * RecSize \in Nat
    BY <2>5, <2>7, MulMono, MulInNat
  <2> DEFINE at == RecOffset(loc) + (rec - c) * RecSize
  <2>10. WholeRec(loc, rec) = [at |-> at, from |-> 0, len |-> RecSize]
    BY DEF WholeRec
  <2> HIDE DEF c, l, B
  <2>11. at \in Nat /\ B + at = rec * RecSize
    BY <1>1, <2>4, <2>6, <2>8, <2>9
  <2>12. at + RecSize <= BufSize
    BY <1>1, <2>5, <2>9, <2>11, BufferExceedsRecord
  <2> HIDE DEF at
  <2> QED
    BY <1>1, <2>9, <2>10, <2>11, <2>12 DEF Placed, B
<1> QED
  BY <1>2, <1>3

-----------------------------------------------------------------------------
(* The end of the record that the window starts in the middle of.          *)
LEMMA LastPartPlaced ==
  ASSUME ~Aligned, NEW loc \in Nat
  PROVE  /\ FirstRec(loc) \in Nat
         /\ Placed(LastPartOfFirst(loc), loc, FirstRec(loc))
         /\ RecOffset(loc) > 0 => FirstRecPos(loc) + RecOffset(loc) = RecSize
         /\ RecOffset(loc) = 0 => Complete(loc, FirstRec(loc))
<1> USE SizesArePositive
<1> DEFINE B == Base(loc)
           q == B \div RecSize
           m == B % RecSize
<1>1. B \in Nat /\ End(loc) \in Nat /\ End(loc) + 1 = B + BufSize
  BY BaseInNat
<1>2. q \in Nat /\ m \in 0 .. (RecSize - 1) /\ B = RecSize * q + m
  BY <1>1, DivMod
<1>3. FirstRec(loc) = q /\ FirstRecPos(loc) = m /\ RecOffset(loc) = IF m = 0 THEN 0 ELSE RecSize - m
  BY DEF FirstRec, FirstRecPos, RecOffset
<1>4. Placed(LastPartOfFirst(loc), loc, FirstRec(loc))
  <2> HIDE DEF B, q, m
  <2>1. LastPartOfFirst(loc) = [at |-> 0, from |-> m, len |-> IF m = 0 THEN 0 ELSE RecSize - m]
    BY <1>3 DEF LastPartOfFirst
  <2> QED
    BY <1>1, <1>2, <1>3, <2>1, BufferExceedsRecord DEF Placed, B
<1>5. ASSUME RecOffset(loc) = 0
      PROVE  Complete(loc, FirstRec(loc))
  <2>1. m = 0
    BY <1>2, <1>3, <1>5
  <2> DEFINE c == (B + RecSize - 1) \div RecSize
             l == (End(loc) - RecSize + 1) \div RecSize
  <2>2. FirstCompleteRec(loc) = c /\ LastCompleteRec(loc) = l
    BY DEF FirstCompleteRec, LastCompleteRec
  <2>3. c \in Nat /\ B = c * RecSize
    <3> HIDE DEF B
    <3>1. /\ (B + RecSize - 1) \div RecSize \in Nat
          /\ B + (IF B % RecSize = 0 THEN 0 ELSE RecSize - (B % RecSize))
               = ((B + RecSize - 1) \div RecSize) * RecSize
      BY <1>1, RoundUp
    <3> QED
      BY <1>1, <2>1, <3>1
  <2>4. End(loc) - RecSize + 1 \in Nat /\ B < End(loc) - RecSize + 1
    BY <1>1, BufferExceedsRecord
  <2>5. l \in Nat /\ End(loc) - RecSize + 1 < l * RecSize + RecSize
    BY <2>4, DivMod, DivBound
  <2> HIDE DEF B, q, c, l
  <2>6. c <= q
    BY <1>1, <1>2, <2>1, <2>3, MulMono
  <2>7. q * RecSize < (l + 1) * RecSize
    BY <1>1, <1>2, <2>1, <2>4, <2>5
  <2>8. q < l + 1
    BY <1>2, <2>5, <2>7, MulLess
  <2> QED
    BY <1>2, <1>3, <2>2, <2>3, <2>5, <2>6, <2>8 DEF Complete
<1> HIDE DEF B, q, m
<1>6. RecOffset(loc) > 0 => FirstRecPos(loc) + RecOffset(loc) = RecSize
  BY <1>2, <1>3
<1> QED
  BY <1>2, <1>3, <1>4, <1>5, <1>6

(* The start of the record that the window ends in.                        *)
LEMMA FirstPartPlaced ==
  ASSUME ~Aligned, NEW loc \in Nat
  PROVE  /\ LastRec(loc) \in Nat
         /\ Placed(FirstPartOfLast(loc), loc, LastRec(loc))
         /\ LastRecPos(loc) + LastRecLen(loc) = BufSize
         /\ LastRecLen(loc) > 0
<1> USE SizesArePositive
<1> DEFINE E == End(loc)
           q == E \div RecSize
           m == E % RecSize
<1>1. Base(loc) \in Nat /\ E \in Nat /\ E + 1 = Base(loc) + BufSize
  BY BaseInNat
<1>2. q \in Nat /\ m \in 0 .. (RecSize - 1) /\ E = RecSize * q + m
  BY <1>1, DivMod
<1>3. LastRec(loc) = q /\ LastRecLen(loc) = m + 1 /\ LastRecPos(loc) = BufSize - (m + 1)
  BY DEF LastRec, LastRecLen, LastRecPos
<1> HIDE DEF E, q, m
<1>4. FirstPartOfLast(loc) = [at |-> BufSize - (m + 1), from |-> 0, len |-> m + 1]
  BY <1>3 DEF FirstPartOfLast
<1>5. Placed(FirstPartOfLast(loc), loc, q)
  BY <1>1, <1>2, <1>4, BufferExceedsRecord DEF Placed
<1> QED
  BY <1>2, <1>3, <1>5, BufferExceedsRecord

-----------------------------------------------------------------------------
(* Moving the window.                                                      *)

(* A record all of whose bytes lie in the window is complete in it.        *)
LEMMA InsideIsComplete ==
  ASSUME ~Aligned, NEW loc \in Nat, NEW rec \in Nat,
         Base(loc) <= rec * RecSize, rec * RecSize + RecSize <= Base(loc) + BufSize
  PROVE  Complete(loc, rec)
<1> USE SizesArePositive
<1> DEFINE B == Base(loc)
           R == rec * RecSize
           t == B + RecSize - 1
           u == End(loc) - RecSize + 1
           c == t \div RecSize
           l == u \div RecSize
<1>1. B \in Nat /\ End(loc) \in Nat /\ End(loc) + 1 = B + BufSize /\ R \in Nat
  BY BaseInNat, MulInNat
<1>2. t \in Nat /\ u \in Nat
  BY <1>1, BufferExceedsRecord
<1>3. c \in Nat /\ c * RecSize <= t
  BY <1>2, DivMod, DivBound
<1>4. l \in Nat /\ u < l * RecSize + RecSize
  BY <1>2, DivMod, DivBound
<1>5. FirstCompleteRec(loc) = c /\ LastCompleteRec(loc) = l
  BY DEF FirstCompleteRec, LastCompleteRec
<1>6. (rec + 1) * RecSize = R + RecSize /\ (l + 1) * RecSize = l * RecSize + RecSize
  BY <1>4
<1> HIDE DEF c, l
<1>7. c * RecSize < (rec + 1) * RecSize /\ R < (l + 1) * RecSize
  BY <1>1, <1>2, <1>3, <1>4, <1>6
<1>8. c < rec + 1 /\ rec < l + 1
  BY <1>3, <1>4, <1>7, MulLess
<1> QED
  BY <1>3, <1>4, <1>5, <1>8 DEF Complete

(* With no part of the record at hand the window goes to where it starts,  *)
(* and the whole record is in it.                                          *)
LEMMA FreshLocation ==
  ASSUME NEW loc, IsLocation(loc), NEW rec \in Nat
  PROVE  LET new == NextLocation(loc, rec, FALSE, FALSE)
         IN  IsLocation(new) /\ Complete(new, rec) /\ Base(new) <= rec * RecSize
<1> USE SizesArePositive
<1> DEFINE new == NextLocation(loc, rec, FALSE, FALSE)
           R == rec * RecSize
<1>1. R \in Nat
  BY MulInNat
<1>2. CASE Aligned
  <2> DEFINE q == rec \div RecsPerBuf
  <2>1. RecsPerBuf \in Nat \ {0} /\ BufSize = RecsPerBuf * RecSize
    BY <1>2, AlignedBuffer
  <2>2. q \in Nat /\ q * RecsPerBuf <= rec /\ rec < q * RecsPerBuf + RecsPerBuf
    BY <2>1, DivMod, DivBound
  <2>3. new = q * NBlocks
    BY <1>2 DEF NextLocation
  <2>4. NBlocks \in Nat \ {0}
    BY BufferExceedsRecord
  <2> HIDE DEF q
  <2>5. new \in Nat
    BY <2>2, <2>3, <2>4, MulInNat
  <2>6. new \div NBlocks = q /\ new % NBlocks = 0
    <3>1. (q * NBlocks) \div NBlocks = q /\ (q * NBlocks) % NBlocks = 0
      BY <2>2, <2>4, MultipleDiv
    <3> QED
      BY <2>3, <3>1, Zenon
  <2>7. IsLocation(new)
    BY <2>5, <2>6 DEF IsLocation
  <2>8. FirstRec(new) = q * RecsPerBuf
    BY <1>2, <2>6 DEF FirstRec
  <2> HIDE DEF new
  <2>9. q * RecsPerBuf \in Nat
    BY <2>1, <2>2, MulInNat
  <2>10. Complete(new, rec)
    BY <1>2, <2>1, <2>2, <2>8, <2>9 DEF Complete, FirstCompleteRec, LastCompleteRec, LastRec
  <2>11. Base(new) = (q * RecsPerBuf) * RecSize
    BY <1>2, <2>7, <2>8, AlignedBase
  <2>12. (q * RecsPerBuf) * RecSize <= R
    BY <2>2, <2>9, MulMono
  <2> QED
    BY <2>7, <2>10, <2>11, <2>12 DEF new
<1>3. CASE ~Aligned
  <2>1. new = R \div BlockSize
    BY <1>3 DEF NextLocation
  <2> HIDE DEF R
  <2>2. new \in Nat /\ new * BlockSize <= R /\ R < new * BlockSize + BlockSize
    BY <1>1, <2>1, DivMod, DivBound
  <2>3. Base(new) = new * BlockSize
    BY DEF Base
  <2> HIDE DEF new
  <2>4. Base(new) <= R /\ R + RecSize <= Base(new) + BufSize
    BY <1>1, <2>2, <2>3, BufferExceedsRecord, MulInNat
  <2>5. Complete(new, rec)
    BY <1>3, <2>2, <2>4, InsideIsComplete DEF R
  <2>6. IsLocation(new)
    BY <1>3, <2>2 DEF IsLocation
  <2> QED
    BY <2>4, <2>5, <2>6 DEF new, R
<1> QED
  BY <1>2, <1>3

(* The window's next or previous neighbour continues the record where the  *)
(* current window cuts it.                                                 *)
Holds(loc, rec, j) ==
  Base(loc) <= rec * RecSize + j /\ rec * RecSize + j < Base(loc) + BufSize

LEMMA ForwardLocation ==
  ASSUME ~Aligned, NEW loc \in Nat, NEW rec \in Nat,
         rec = LastRec(loc), ~Complete(loc, rec)
  PROVE  LET new == loc + NBlocks
             here == FirstPartOfLast(loc)
             there == LastPartOfFirst(new)
         IN  /\ Placed(here, loc, rec)
             /\ Placed(there, new, rec)
             /\ Base(new) <= rec * RecSize + RecSize
             /\ \A j \in 0 .. (RecSize - 1) :
                  /\ Holds(new, rec, j) <=> InPiece(there, j)
                  /\ InPiece(here, j) \/ InPiece(there, j)
<1> USE SizesArePositive
<1> DEFINE new == loc + NBlocks
           B == Base(loc)
           E == End(loc)
           R == rec * RecSize
           N == Base(new)
           here == FirstPartOfLast(loc)
           there == LastPartOfFirst(new)
<1>1. B \in Nat /\ E \in Nat /\ E + 1 = B + BufSize /\ R \in Nat
  BY BaseInNat, MulInNat
<1>2. new \in Nat /\ N = B + BufSize
  BY BufferExceedsRecord, MulInNat DEF Base, BufSize
<1>3. rec = E \div RecSize
  BY DEF LastRec
<1>4. R <= E /\ E < R + RecSize
  BY <1>1, <1>3, DivBound
<1> HIDE DEF B, E, R, N, new
<1>5. B <= R
  BY <1>1, <1>4, BufferExceedsRecord
<1>6. N < R + RecSize
  <2>1. CASE R + RecSize <= B + BufSize
    BY <1>5, <2>1, InsideIsComplete DEF B, R
  <2>2. CASE ~(R + RecSize <= B + BufSize)
    BY <1>1, <1>2, <2>2, BufferExceedsRecord
  <2> QED
    BY <2>1, <2>2
<1>7. N \in Nat /\ R < N
  BY <1>1, <1>2, <1>4, BufferExceedsRecord
<1>8. N \div RecSize = rec /\ N % RecSize = N - R
  <2>1. rec * RecSize <= N /\ N < rec * RecSize + RecSize
    BY <1>1, <1>6, <1>7 DEF R
  <2>2. N \div RecSize = rec /\ N % RecSize = N - rec * RecSize
    BY <1>7, <2>1, DivUnique
  <2> QED
    BY <2>2 DEF R
<1>9. FirstRec(new) = rec /\ FirstRecPos(new) = N - R /\ RecOffset(new) = RecSize - (N - R)
  <2>1. N - R # 0
    BY <1>1, <1>7
  <2> QED
    BY <1>8, <2>1 DEF FirstRec, FirstRecPos, RecOffset, N
<1>10. Placed(there, new, rec)
  BY <1>2, <1>9, LastPartPlaced
<1>11. Placed(here, loc, rec)
  BY FirstPartPlaced
<1>12. E % RecSize = E - R
  BY <1>1, <1>4, DivUnique DEF R
<1>13. LastRecLen(loc) = N - R
  BY <1>1, <1>2, <1>12 DEF LastRecLen, E
<1>14. here = [at |-> LastRecPos(loc), from |-> 0, len |-> N - R]
  BY <1>13 DEF FirstPartOfLast
<1>15. there = [at |-> 0, from |-> N - R, len |-> RecSize - (N - R)]
  BY <1>9 DEF LastPartOfFirst
<1>16. ASSUME NEW j \in 0 .. (RecSize - 1)
       PROVE  /\ Holds(new, rec, j) <=> InPiece(there, j)
              /\ InPiece(here, j) \/ InPiece(there, j)
  <2>1. Holds(new, rec, j) <=> N <= R + j /\ R + j < N + BufSize
    BY DEF Holds, N, R
  <2>2. InPiece(there, j) <=> N - R <= j /\ j < RecSize
    BY <1>1, <1>7, <1>15 DEF InPiece
  <2>3. InPiece(here, j) <=> 0 <= j /\ j < N - R
    BY <1>1, <1>7, <1>14 DEF InPiece
  <2> HIDE DEF here, there
  <2> QED
    BY <1>1, <1>6, <1>7, <2>1, <2>2, <2>3, BufferExceedsRecord
<1> QED
  BY <1>6, <1>7, <1>1, <1>10, <1>11, <1>16 DEF N, R, new

LEMMA BackwardLocation ==
  ASSUME ~Aligned, NEW loc \in Nat, NEW rec \in Nat,
         rec = FirstRec(loc), ~Complete(loc, rec)
  PROVE  LET new == IF loc < NBlocks THEN 0 ELSE loc - NBlocks
             here == LastPartOfFirst(loc)
             there == IF Complete(new, rec) THEN WholeRec(new, rec)
                      ELSE FirstPartOfLast(new)
         IN  /\ new \in Nat
             /\ Placed(here, loc, rec)
             /\ Placed(there, new, rec)
             /\ Base(new) <= rec * RecSize + RecSize
             /\ \A j \in 0 .. (RecSize - 1) :
                  /\ Holds(new, rec, j) <=> InPiece(there, j)
                  /\ InPiece(here, j) \/ InPiece(there, j)
<1> USE SizesArePositive
<1> DEFINE new == IF loc < NBlocks THEN 0 ELSE loc - NBlocks
           B == Base(loc)
           R == rec * RecSize
           N == Base(new)
           m == B % RecSize
           here == LastPartOfFirst(loc)
           there == IF Complete(new, rec) THEN WholeRec(new, rec) ELSE FirstPartOfLast(new)
<1>1. B \in Nat /\ R \in Nat /\ BufSize \in Nat /\ RecSize < BufSize
  BY BaseInNat, MulInNat, BufferExceedsRecord
<1>2. B = R + m /\ m \in 0 .. (RecSize - 1)
  <2>1. rec = B \div RecSize
    BY DEF FirstRec
  <2> HIDE DEF B
  <2>2. m \in 0 .. (RecSize - 1) /\ B = RecSize * (B \div RecSize) + m
    BY <1>1, DivMod
  <2> QED
    BY <2>1, <2>2
<1>3. RecOffset(loc) # 0
  BY LastPartPlaced
<1>4. FirstRecPos(loc) = m /\ RecOffset(loc) = RecSize - m /\ m # 0
  BY <1>3 DEF FirstRecPos, RecOffset
<1>5. Placed(here, loc, rec)
  BY LastPartPlaced
<1>6. new \in Nat /\ N \in Nat /\ N <= R /\ R < N + BufSize /\ B <= N + BufSize
  <2>1. NBlocks \in Nat \ {0} /\ BufSize = NBlocks * BlockSize
    BY BufferExceedsRecord DEF BufSize
  <2>2. CASE loc < NBlocks
    <3>1. new = 0 /\ N = 0
      BY <2>2 DEF Base
    <3>2. B <= BufSize
      BY <2>1, <2>2, MulMono DEF Base
    <3> HIDE DEF new, B, R, N, m
    <3> QED
      BY <1>1, <1>2, <1>4, <3>1, <3>2
  <2>3. CASE ~(loc < NBlocks)
    <3>1. new \in Nat /\ new = loc - NBlocks
      BY <2>1, <2>3
    <3>2. N = B - BufSize
      BY <2>1, <3>1 DEF Base
    <3>3. N \in Nat
      BY <3>1, BaseInNat
    <3> HIDE DEF new, B, R, N, m
    <3> QED
      BY <1>1, <1>2, <1>4, <3>1, <3>2, <3>3
  <2> QED
    BY <2>2, <2>3
<1>7. End(new) \in Nat /\ End(new) + 1 = N + BufSize
  BY <1>6, BaseInNat
<1>8. IsLocation(new)
  BY <1>6 DEF IsLocation
<1>9. here = [at |-> 0, from |-> m, len |-> RecSize - m]
  BY <1>4 DEF LastPartOfFirst
<1> HIDE DEF B, R, N, m, new
<1>10. CASE Complete(new, rec)
  <2>1. there = WholeRec(new, rec) /\ Placed(there, new, rec)
    BY <1>8, <1>10, WholeRecPlaced
  <2>2. there.from = 0 /\ there.len = RecSize
    BY <2>1 DEF WholeRec
  <2>3. N <= R /\ R + RecSize <= N + BufSize
    BY <1>1, <1>6, <2>1, <2>2 DEF Placed, N, R
  <2>4. ASSUME NEW j \in 0 .. (RecSize - 1)
        PROVE  Holds(new, rec, j) /\ InPiece(there, j)
    <3>1. InPiece(there, j)
      BY <2>2 DEF InPiece
    <3> HIDE DEF there
    <3>2. N <= R + j /\ R + j < N + BufSize
      BY <1>1, <1>6, <2>3
    <3> QED
      BY <3>1, <3>2 DEF Holds, N, R
  <2> QED
    BY <1>1, <1>5, <1>6, <2>1, <2>4 DEF N, R, new
<1>11. CASE ~Complete(new, rec)
  <2>1. there = FirstPartOfLast(new)
    BY <1>11
  <2>2. N + BufSize < R + RecSize
    <3>1. CASE R + RecSize <= N + BufSize
      BY <1>6, <1>11, <3>1, InsideIsComplete DEF N, R
    <3>2. CASE ~(R + RecSize <= N + BufSize)
      BY <1>1, <1>6, <3>2
    <3> QED
      BY <3>1, <3>2
  <2>3. R <= End(new) /\ End(new) < R + RecSize
    BY <1>1, <1>6, <1>7, <2>2
  <2>4. End(new) \div RecSize = rec /\ End(new) % RecSize = End(new) - R
    BY <1>7, <2>3, DivUnique DEF R
  <2>5. LastRec(new) = rec /\ LastRecLen(new) = N + BufSize - R
    BY <1>1, <1>6, <1>7, <2>4 DEF LastRec, LastRecLen
  <2>6. Placed(there, new, rec)
    BY <1>6, <2>1, <2>5, FirstPartPlaced
  <2>7. there.from = 0 /\ there.len = N + BufSize - R
    BY <2>1, <2>5 DEF FirstPartOfLast
  <2> HIDE DEF there
  <2>8. ASSUME NEW j \in 0 .. (RecSize - 1)
        PROVE  /\ Holds(new, rec, j) <=> InPiece(there, j)
               /\ InPiece(here, j) \/ InPiece(there, j)
    <3>1. Holds(new, rec, j) <=> N <= R + j /\ R + j < N + BufSize
      BY DEF Holds, N, R
    <3>2. InPiece(there, j) <=> j < N + BufSize - R
      BY <1>1, <1>6, <2>7 DEF InPiece
    <3>3. InPiece(here, j) <=> m <= j
      BY <1>2, <1>9 DEF InPiece
    <3> HIDE DEF here
    <3> QED
      BY <1>1, <1>2, <1>6, <3>1, <3>2, <3>3
  <2> QED
    BY <1>1, <1>5, <1>6, <2>6, <2>8 DEF N, R, new, there
<1> QED
  BY <1>10, <1>11

(* Whatever part of the record the current window holds, after the window  *)
(* has moved the two pieces together are the record, the new piece is all  *)
(* of the record that lies in the new window, and both are in place.       *)
LEMMA MoveCoversRecord ==
  ASSUME NEW loc, IsLocation(loc), NEW rec \in Nat,
         NEW fp \in BOOLEAN, NEW lp \in BOOLEAN,
         fp => ~lp /\ ~Aligned /\ rec = LastRec(loc) /\ ~Complete(loc, rec),
         lp => ~Aligned /\ rec = FirstRec(loc) /\ ~Complete(loc, rec)
  PROVE  LET new == NextLocation(loc, rec, fp, lp)
             here == OldPiece(loc, fp, lp)
             there == NewPiece(new, rec, fp, lp)
         IN  /\ IsLocation(new)
             /\ Base(new) <= rec * RecSize + RecSize
             /\ fp \/ lp => Placed(here, loc, rec)
             /\ Placed(there, new, rec)
             /\ \A j \in 0 .. (RecSize - 1) :
                  /\ Holds(new, rec, j) <=> InPiece(there, j)
                  /\ InPiece(there, j) \/ ((fp \/ lp) /\ InPiece(here, j))
<1> USE SizesArePositive
<1> DEFINE new == NextLocation(loc, rec, fp, lp)
           here == OldPiece(loc, fp, lp)
           there == NewPiece(new, rec, fp, lp)
<1>1. loc \in Nat /\ rec * RecSize \in Nat
  BY MulInNat DEF IsLocation
<1>2. CASE fp
  <2>1. new = loc + NBlocks /\ here = FirstPartOfLast(loc) /\ there = LastPartOfFirst(new)
    BY <1>2 DEF NextLocation, OldPiece, NewPiece
  <2>2. ~Aligned /\ rec = LastRec(loc) /\ ~Complete(loc, rec)
    BY <1>2
  <2>3. loc + NBlocks \in Nat
    BY <1>1, BufferExceedsRecord
  <2> HIDE DEF new, here, there
  <2>4. IsLocation(new)
    BY <2>1, <2>2, <2>3 DEF IsLocation
  <2>5. /\ Placed(here, loc, rec)
        /\ Placed(there, new, rec)
        /\ Base(new) <= rec * RecSize + RecSize
        /\ \A j \in 0 .. (RecSize - 1) :
             /\ Holds(new, rec, j) <=> InPiece(there, j)
             /\ InPiece(here, j) \/ InPiece(there, j)
    BY <1>1, <2>1, <2>2, ForwardLocation
  <2> QED
    BY <1>2, <2>4, <2>5 DEF new, here, there
<1>3. CASE lp
  <2>1. /\ new = IF loc < NBlocks THEN 0 ELSE loc - NBlocks
        /\ here = LastPartOfFirst(loc)
        /\ there = IF Complete(new, rec) THEN WholeRec(new, rec) ELSE FirstPartOfLast(new)
    BY <1>3 DEF NextLocation, OldPiece, NewPiece
  <2>2. ~Aligned /\ rec = FirstRec(loc) /\ ~Complete(loc, rec)
    BY <1>3
  <2> HIDE DEF new, here, there
  <2>3. /\ new \in Nat
        /\ Placed(here, loc, rec)
        /\ Placed(there, new, rec)
        /\ Base(new) <= rec * RecSize + RecSize
        /\ \A j \in 0 .. (RecSize - 1) :
             /\ Holds(new, rec, j) <=> InPiece(there, j)
             /\ InPiece(here, j) \/ InPiece(there, j)
    BY <1>1, <2>1, <2>2, BackwardLocation
  <2>4. IsLocation(new)
    BY <2>2, <2>3 DEF IsLocation
  <2> QED
    BY <1>3, <2>3, <2>4 DEF new, here, there
<1>4. CASE ~fp /\ ~lp
  <2>1. new = NextLocation(loc, rec, FALSE, FALSE) /\ there = WholeRec(new, rec)
    BY <1>4 DEF NewPiece, NextLocation
  <2> HIDE DEF new, here, there
  <2>2. IsLocation(new) /\ Complete(new, rec) /\ Base(new) <= rec * RecSize
    BY <2>1, FreshLocation
  <2>3. Placed(there, new, rec)
    BY <2>1, <2>2, WholeRecPlaced
  <2>4. there.from = 0 /\ there.len = RecSize
    BY <2>1 DEF WholeRec
  <2>5. Base(new) \in Nat /\ rec * RecSize + RecSize <= Base(new) + BufSize
    BY <1>1, <2>2, <2>3, <2>4, BaseInNat, BufferExceedsRecord DEF Placed, IsLocation
  <2>6. ASSUME NEW j \in 0 .. (RecSize - 1)
        PROVE  Holds(new, rec, j) /\ InPiece(there, j)
    BY <1>1, <2>2, <2>4, <2>5, BufferExceedsRecord DEF Holds, InPiece
  <2>7. Base(new) <= rec * RecSize + RecSize
    BY <1>1, <2>2, <2>5
  <2> QED
    BY <1>4, <2>2, <2>3, <2>6, <2>7 DEF new, here, there
<1> QED
  BY <1>2, <1>3, <1>4

-----------------------------------------------------------------------------
(* The invariant.                                                          *)

(* A window that lies inside the model's address space.                    *)
InRange(loc) == IsLocation(loc) /\ Base(loc) + BufSize <= MaxAddr

LEMMA Sizes ==
  /\ RecSize \in Nat \ {0} /\ BufSize \in Nat \ {0} /\ RecSize < BufSize
  /\ NRec \in Nat /\ NRec * RecSize \in Nat
  /\ MaxAddr \in Nat /\ MaxAddr = NRec * RecSize + BufSize
BY SizesArePositive, CallsAreInRange, BufferExceedsRecord, MulInNat DEF MaxAddr

LEMMA RequestInRecord ==
  ASSUME NEW rec \in Recs, NEW req \in Requests
  PROVE  /\ Asked(req) \subseteq 0 .. (RecSize - 1)
         /\ rec * RecSize \in Nat
         /\ rec * RecSize + RecSize <= NRec * RecSize
         /\ Span(rec, req) \subseteq 0 .. (NRec * RecSize - 1)
         /\ Span(rec, req) \subseteq Addr
<1>1. req[1] \in Nat /\ req[2] \in Nat /\ req[2] > 0 /\ req[1] + req[2] <= RecSize
  BY CallsAreInRange
<1>2. Asked(req) \subseteq 0 .. (RecSize - 1)
  BY <1>1, Sizes DEF Asked
<1>3. rec \in Nat /\ rec + 1 <= NRec
  BY Sizes DEF Recs
<1>4. rec * RecSize \in Nat /\ rec * RecSize + RecSize <= NRec * RecSize
  <2>1. (rec + 1) * RecSize <= NRec * RecSize
    BY <1>3, Sizes, MulMono
  <2>2. (rec + 1) * RecSize = rec * RecSize + RecSize
    BY <1>3, Sizes
  <2> QED
    BY <1>3, <2>1, <2>2, Sizes, MulInNat
<1>5. Span(rec, req) \subseteq 0 .. (NRec * RecSize - 1)
  <2> SUFFICES ASSUME NEW j \in Asked(req)
               PROVE  rec * RecSize + j \in 0 .. (NRec * RecSize - 1)
    BY DEF Span
  <2> QED
    BY <1>2, <1>4, Sizes
<1>6. 0 .. (NRec * RecSize - 1) \subseteq Addr
  BY Sizes DEF Addr
<1> QED
  BY <1>2, <1>4, <1>5, <1>6

LEMMA MoveInType ==
  ASSUME NEW buf \in [BufIdx -> Byte], NEW piece, NEW rec \in Recs,
         NEW req \in Requests, NEW image \in Images
  PROVE  MoveIn(buf, piece, req, image) \in [BufIdx -> Byte]
<1>1. image \in [0 .. (RecSize - 1) -> Byte]
  BY CallsAreInRange
<1>2. Asked(req) \subseteq 0 .. (RecSize - 1)
  BY RequestInRecord
<1> QED
  BY <1>1, <1>2 DEF MoveIn

LEMMA FillType ==
  ASSUME NEW buf \in [BufIdx -> Byte], NEW disk \in [Addr -> Byte],
         NEW length \in 0 .. MaxAddr, NEW loc, InRange(loc)
  PROVE  Fill(buf, disk, length, loc) \in [BufIdx -> Byte]
<1>1. Base(loc) \in Nat
  BY BaseInNat DEF InRange, IsLocation
<1>2. \A k \in BufIdx : Base(loc) + k < length => Base(loc) + k \in Addr
  BY <1>1, Sizes DEF BufIdx, Addr
<1> QED
  BY <1>2 DEF Fill

LEMMA StoredType ==
  ASSUME NEW buf \in [BufIdx -> Byte], NEW disk \in [Addr -> Byte],
         NEW length \in 0 .. MaxAddr, NEW loc, InRange(loc), NEW n \in 0 .. BufSize
  PROVE  /\ Stored(disk, buf, loc, n) \in [Addr -> Byte]
         /\ Extended(length, loc, n) \in 0 .. MaxAddr
         /\ length <= Extended(length, loc, n)
         /\ n = BufSize => Base(loc) + BufSize <= Extended(length, loc, n)
<1>1. Base(loc) \in Nat /\ Base(loc) + BufSize <= MaxAddr
  BY BaseInNat DEF InRange, IsLocation
<1>2. \A a \in Addr : Base(loc) <= a /\ a < Base(loc) + n => a - Base(loc) \in BufIdx
  BY <1>1, Sizes DEF BufIdx, Addr
<1>3. Stored(disk, buf, loc, n) \in [Addr -> Byte]
  BY <1>2 DEF Stored
<1> QED
  BY <1>1, <1>3, Sizes DEF Extended, Larger

(* What v2_flush_buffer returns and does.                                  *)
LEMMA FlushFacts ==
  ASSUME TypeOK, NEW buf \in [BufIdx -> Byte], NEW d \in BOOLEAN,
         NEW f \in Flush(buf, blockno, d)
  PROVE  /\ f.ok \in BOOLEAN
         /\ f.bytes \in [Addr -> Byte]
         /\ f.size \in 0 .. MaxAddr /\ size <= f.size
         /\ ~d => f.ok /\ f.bytes = bytes /\ f.size = size
         /\ d /\ f.ok => /\ f.bytes = Stored(bytes, buf, blockno, BufSize)
                         /\ Base(blockno) + BufSize <= f.size
         /\ \A a \in Addr : ~(Base(blockno) <= a /\ a < Base(blockno) + BufSize)
                              => f.bytes[a] = bytes[a]
<1>1. InRange(blockno) /\ size \in 0 .. MaxAddr /\ bytes \in [Addr -> Byte]
  BY DEF TypeOK, InRange
<1>2. CASE ~d
  <2>1. f = [ok |-> TRUE, bytes |-> bytes, size |-> size]
    BY <1>2 DEF Flush
  <2> QED
    BY <1>1, <1>2, <2>1, Sizes
<1>3. CASE d
  <2>1. PICK n \in ShortWrites \cup {BufSize} :
               f = [ok |-> n = BufSize,
                    bytes |-> Stored(bytes, buf, blockno, n),
                    size |-> Extended(size, blockno, n)]
    BY <1>3 DEF Flush
  <2>2. n \in 0 .. BufSize
    BY CallsAreInRange, Sizes
  <2>3. /\ Stored(bytes, buf, blockno, n) \in [Addr -> Byte]
        /\ Extended(size, blockno, n) \in 0 .. MaxAddr
        /\ size <= Extended(size, blockno, n)
        /\ n = BufSize => Base(blockno) + BufSize <= Extended(size, blockno, n)
    BY <1>1, <2>2, StoredType
  <2>4. ASSUME NEW a \in Addr, ~(Base(blockno) <= a /\ a < Base(blockno) + BufSize)
        PROVE  Stored(bytes, buf, blockno, n)[a] = bytes[a]
    <3>1. Base(blockno) \in Nat
      BY <1>1, BaseInNat DEF InRange, IsLocation
    <3>2. ~(Base(blockno) <= a /\ a < Base(blockno) + n)
      BY <2>2, <2>4, <3>1, Sizes DEF Addr
    <3> QED
      BY <3>2 DEF Stored
  <2> QED
    BY <1>3, <2>1, <2>3, <2>4
<1> QED
  BY <1>2, <1>3

(* The geometry of a miss: where the window goes and how the two pieces of *)
(* the record lie.                                                         *)
LEMMA MissFacts ==
  ASSUME TypeOK, NEW rec \in Recs, ~Hit(rec)
  PROVE  LET loc == Location(rec)
             here == PartHere(rec)
             there == PartThere(rec, loc)
             parts == HasFirstPart(rec) \/ HasLastPart(rec)
         IN  /\ InRange(loc)
             /\ parts => valid /\ Placed(here, blockno, rec)
             /\ ~parts => here = NoPiece
             /\ Placed(there, loc, rec)
             /\ \A j \in 0 .. (RecSize - 1) :
                  /\ Holds(loc, rec, j) <=> InPiece(there, j)
                  /\ InPiece(there, j) \/ (parts /\ InPiece(here, j))
<1> DEFINE loc == Location(rec)
           fp == HasFirstPart(rec)
           lp == HasLastPart(rec)
<1>1. rec \in Nat /\ IsLocation(blockno)
  BY Sizes DEF Recs, TypeOK
<1>2. fp \in BOOLEAN /\ lp \in BOOLEAN
  BY DEF HasFirstPart, HasLastPart
<1>3. fp => ~lp /\ ~Aligned /\ rec = LastRec(blockno) /\ ~Complete(blockno, rec)
  BY DEF HasFirstPart, HasLastPart, Partial, Hit
<1>4. lp => ~Aligned /\ rec = FirstRec(blockno) /\ ~Complete(blockno, rec)
  BY DEF HasLastPart, Partial, Hit
<1>5. /\ loc = NextLocation(blockno, rec, fp, lp)
      /\ PartHere(rec) = OldPiece(blockno, fp, lp)
      /\ PartThere(rec, loc) = NewPiece(loc, rec, fp, lp)
  BY DEF Location, PartHere, PartThere
<1>6. fp \/ lp => valid
  BY DEF HasFirstPart, HasLastPart, Partial
<1>7. ~(fp \/ lp) => PartHere(rec) = NoPiece
  BY <1>5 DEF OldPiece
<1> HIDE DEF loc, fp, lp
<1>8. /\ IsLocation(loc)
      /\ Base(loc) <= rec * RecSize + RecSize
      /\ fp \/ lp => Placed(PartHere(rec), blockno, rec)
      /\ Placed(PartThere(rec, loc), loc, rec)
      /\ \A j \in 0 .. (RecSize - 1) :
           /\ Holds(loc, rec, j) <=> InPiece(PartThere(rec, loc), j)
           /\ \/ InPiece(PartThere(rec, loc), j)
              \/ (fp \/ lp) /\ InPiece(PartHere(rec), j)
  BY <1>1, <1>2, <1>3, <1>4, <1>5, MoveCoversRecord
<1>9. InRange(loc)
  <2>1. rec * RecSize \in Nat /\ rec * RecSize + RecSize <= NRec * RecSize
    <3>1. rec + 1 <= NRec /\ (rec + 1) * RecSize = rec * RecSize + RecSize
      BY <1>1, Sizes DEF Recs
    <3> QED
      BY <1>1, <3>1, Sizes, MulMono, MulInNat
  <2>2. Base(loc) \in Nat
    BY <1>8, BaseInNat DEF IsLocation
  <2> QED
    BY <1>8, <2>1, <2>2, Sizes DEF InRange
<1> QED
  BY <1>6, <1>7, <1>8, <1>9 DEF loc, fp, lp

(* The end of every successful write: the record is in the window at loc,  *)
(* which is dirty or on disk, so nothing that was promised is lost.        *)
LEMMA FinishFacts ==
  ASSUME IInv, NEW rec \in Recs, NEW req \in Requests,
         NEW buf \in [BufIdx -> Byte], NEW loc, InRange(loc),
         NEW disk \in [Addr -> Byte], NEW length \in 0 .. MaxAddr,
         \A a \in promised \cup Span(rec, req) :
            a < length \/ (Base(loc) <= a /\ a < Base(loc) + BufSize),
         Finish(rec, req, buf, loc, disk, length)
  PROVE  /\ bytes' \in [Addr -> Byte] /\ size' \in 0 .. MaxAddr
         /\ buffer' \in [BufIdx -> Byte] /\ blockno' = loc
         /\ valid' = TRUE /\ dirty' \in BOOLEAN
         /\ promised' \subseteq promised \cup Span(rec, req)
         /\ status' \in {"SUCCESS", "IO_ERROR"}
         /\ PromisedBytesExist'
         /\ CleanWindowIsOnDisk'
<1> DEFINE full == rec = LastRec(loc)
<1>1. PICK n \in IF full THEN ShortWrites \cup {BufSize} ELSE {BufSize} :
        /\ buffer' = buf
        /\ blockno' = loc
        /\ valid' = TRUE
        /\ dirty' = (~full \/ n # BufSize)
        /\ bytes' = IF full THEN Stored(disk, buf, loc, n) ELSE disk
        /\ size' = IF full THEN Extended(length, loc, n) ELSE length
        /\ status' = IF full /\ n # BufSize THEN "IO_ERROR" ELSE "SUCCESS"
        /\ promised' = IF full /\ n # BufSize
                       THEN promised \ Span(rec, req)
                       ELSE promised \cup Span(rec, req)
  BY DEF Finish
<1>2. n \in 0 .. BufSize
  BY CallsAreInRange, Sizes
<1>3. /\ Stored(disk, buf, loc, n) \in [Addr -> Byte]
      /\ Extended(length, loc, n) \in 0 .. MaxAddr
      /\ length <= Extended(length, loc, n)
      /\ n = BufSize => Base(loc) + BufSize <= Extended(length, loc, n)
  BY <1>2, StoredType
<1>4. promised' \subseteq promised \cup Span(rec, req)
  BY <1>1
<1>5. bytes' \in [Addr -> Byte] /\ size' \in 0 .. MaxAddr /\ length <= size'
  BY <1>1, <1>3
<1>6. Base(loc) \in Nat
  BY BaseInNat DEF InRange, IsLocation
<1>7. promised \cup Span(rec, req) \subseteq Addr
  BY RequestInRecord DEF IInv, TypeOK
<1>8. PromisedBytesExist'
  <2>1. SUFFICES ASSUME NEW a \in promised'
                 PROVE  a < size' \/ (dirty' /\ InWindow(a)')
    BY <1>1 DEF PromisedBytesExist
  <2>2. a \in Addr /\ (a < length \/ (Base(loc) <= a /\ a < Base(loc) + BufSize))
    BY <1>4, <1>7
  <2>3. CASE a < length
    BY <1>5, <2>2, <2>3, Sizes DEF Addr
  <2>4. CASE Base(loc) <= a /\ a < Base(loc) + BufSize
    <3>1. InWindow(a)'
      BY <1>1, <2>4 DEF InWindow
    <3>2. CASE dirty'
      BY <3>1, <3>2
    <3>3. CASE ~dirty'
      <4>1. full /\ n = BufSize
        BY <1>1, <3>3
      <4>2. Base(loc) + BufSize <= size'
        BY <1>1, <1>3, <4>1
      <4> QED
        BY <1>5, <1>6, <2>2, <2>4, <4>2, Sizes DEF Addr
    <3> QED
      BY <3>2, <3>3
  <2> QED
    BY <2>2, <2>3, <2>4
<1>9. CleanWindowIsOnDisk'
  <2>1. SUFFICES ASSUME ~dirty', NEW a \in promised', InWindow(a)'
                 PROVE  buffer'[a - Base(blockno')] = bytes'[a]
    BY DEF CleanWindowIsOnDisk
  <2>2. full /\ n = BufSize
    BY <1>1, <2>1
  <2>3. a \in Addr /\ Base(loc) <= a /\ a < Base(loc) + BufSize
    BY <1>1, <1>4, <1>7, <2>1 DEF InWindow
  <2>4. bytes'[a] = buf[a - Base(loc)]
    BY <1>1, <2>2, <2>3 DEF Stored
  <2> QED
    BY <1>1, <2>4
<1> QED
  BY <1>1, <1>4, <1>5, <1>8, <1>9

-----------------------------------------------------------------------------
(* The inductive invariant, one lemma for each action.                     *)

(* v2_initialize_buffer's window is a window.                              *)
LEMMA FreshWindow ==
  /\ IsLocation(0) /\ Base(0) + BufSize <= MaxAddr
  /\ [k \in BufIdx |-> Garbage] \in [BufIdx -> Byte]
  /\ 0 \in 0 .. NRec
<1>1. IsLocation(0) /\ Base(0) = 0
  BY SizesArePositive, BufferExceedsRecord DEF IsLocation, Base
<1>2. Garbage \in Byte
  BY CallsAreInRange
<1>3. NRec * RecSize \in Nat /\ BufSize \in Nat /\ MaxAddr = NRec * RecSize + BufSize
  BY Sizes
<1>4. 0 + BufSize <= MaxAddr
  BY <1>3
<1> QED
  BY <1>1, <1>2, <1>4, Sizes

LEMMA InitEstablishes ==
  ASSUME Init
  PROVE  IInv
<1>1. PICK f \in InitialFiles : bytes = f.bytes /\ size = f.size
  BY DEF Init
<1>2. bytes \in [Addr -> Byte] /\ size \in 0 .. (NRec * RecSize)
  BY <1>1, InitialFilesAreFiles
<1>3. size \in 0 .. MaxAddr
  BY <1>2, Sizes
<1>4. TypeOK
  BY <1>2, <1>3, FreshWindow DEF Init, TypeOK, Modes
<1> QED
  BY <1>2, <1>4 DEF Init, IInv, ModesAgree, PromisedBytesExist,
       EofCoversWrites, CleanWindowIsOnDisk

(* The whole records of a file lie inside it.                              *)
LEMMA WholeRecords ==
  ASSUME NEW n \in 0 .. (NRec * RecSize)
  PROVE  /\ n \div RecSize \in 0 .. NRec
         /\ (n \div RecSize) * RecSize <= n
         /\ (n \div RecSize) * RecSize \in Nat
<1>1. n \in Nat /\ n <= NRec * RecSize
  BY Sizes
<1>2. n \div RecSize \in Nat /\ (n \div RecSize) * RecSize <= n
  BY <1>1, Sizes, DivMod, DivBound
<1>3. n \div RecSize <= NRec
  <2> DEFINE q == n \div RecSize
  <2>1. q \in Nat /\ q * RecSize <= NRec * RecSize
    BY <1>1, <1>2, Sizes, MulInNat
  <2> HIDE DEF q
  <2>2. CASE q > NRec
    <3>1. (NRec + 1) * RecSize <= q * RecSize
      BY <2>1, <2>2, Sizes, MulMono
    <3>2. (NRec + 1) * RecSize = NRec * RecSize + RecSize
      BY Sizes
    <3> QED
      BY <2>1, <3>1, <3>2, Sizes, MulInNat
  <2> QED
    BY <2>1, <2>2, Sizes DEF q
<1> QED
  BY <1>2, <1>3, Sizes, MulInNat

LEMMA OpenPreserves ==
  ASSUME IInv, NEW mode \in Modes, Open(mode)
  PROVE  IInv'
<1>1. size \in 0 .. (NRec * RecSize) /\ size \in Nat
  BY Sizes DEF IInv, TypeOK, ModesAgree, Open
<1>2. /\ size \div RecSize \in 0 .. NRec
      /\ (size \div RecSize) * RecSize <= size
      /\ (size \div RecSize) * RecSize \in Nat
  BY <1>1, WholeRecords
<1>3. promised \subseteq Addr /\ \A a \in promised : a < (size \div RecSize) * RecSize
  BY DEF IInv, TypeOK, ModesAgree, Open
<1>4. /\ promised' \subseteq Addr
      /\ \A a \in promised' : a < (size \div RecSize) * RecSize
      /\ mode = "WRITE" => promised' = {}
  <2>1. CASE mode = "WRITE"
    BY <2>1 DEF Open
  <2>2. CASE mode # "WRITE"
    <3>1. promised' = promised \cup 0 .. ((size \div RecSize) * RecSize - 1)
      BY <2>2 DEF Open
    <3>2. 0 .. ((size \div RecSize) * RecSize - 1) \subseteq Addr
      BY <1>1, <1>2, Sizes DEF Addr
    <3> QED
      BY <1>2, <1>3, <2>2, <3>1, <3>2
  <2> QED
    BY <2>1, <2>2
<1>5. eof_record' \in 0 .. NRec
  BY <1>2, FreshWindow DEF Open
<1>6. TypeOK'
  BY <1>4, <1>5, FreshWindow DEF IInv, TypeOK, Open, file
<1>7. ModesAgree'
  BY <1>1, <1>4, Sizes DEF IInv, ModesAgree, Open, file, Modes
<1>8. PromisedBytesExist'
  BY <1>1, <1>2, <1>4, Sizes DEF PromisedBytesExist, Open, file, Addr
<1>9. EofCoversWrites'
  BY <1>4, Sizes DEF EofCoversWrites, Open
<1>10. CleanWindowIsOnDisk'
  BY DEF CleanWindowIsOnDisk, Open
<1> QED
  BY <1>6, <1>7, <1>8, <1>9, <1>10 DEF IInv

LEMMA ReadHitPreserves ==
  ASSUME IInv, NEW rec \in Recs, NEW req \in Requests, ReadHit(rec, req)
  PROVE  IInv'
BY DEF ReadHit, Reading, IInv, TypeOK, ModesAgree, PromisedBytesExist,
       EofCoversWrites, CleanWindowIsOnDisk, InWindow, file, window

(* A flush that fails leaves the dirty window and loses nothing.           *)
LEMMA FailedFlush ==
  ASSUME IInv, NEW buf \in [BufIdx -> Byte], NEW d \in BOOLEAN,
         NEW f \in Flush(buf, blockno, d), ~f.ok,
         bytes' = f.bytes, size' = f.size, d => valid, dirty => d,
         dirty' = d, UNCHANGED <<valid, blockno>>, promised' \subseteq promised,
         op \in {"WRITE", "UPDATE"} \/ d = dirty
  PROVE  /\ d
         /\ op \in {"WRITE", "UPDATE"}
         /\ bytes' \in [Addr -> Byte] /\ size' \in 0 .. MaxAddr
         /\ PromisedBytesExist'
<1>1. /\ d
      /\ bytes' \in [Addr -> Byte] /\ size' \in 0 .. MaxAddr /\ size <= size'
  BY FlushFacts DEF IInv
<1>2. op \in {"WRITE", "UPDATE"}
  BY <1>1 DEF IInv, ModesAgree
<1>3. PromisedBytesExist'
  <2> SUFFICES ASSUME NEW a \in promised'
               PROVE  a < size' \/ (dirty' /\ InWindow(a)')
    BY <1>1 DEF PromisedBytesExist
  <2>1. a \in promised /\ a \in Addr
    BY DEF IInv, TypeOK
  <2>2. a < size \/ (dirty /\ InWindow(a))
    BY <2>1 DEF IInv, PromisedBytesExist
  <2>3. InWindow(a)' = InWindow(a)
    BY DEF InWindow
  <2>4. size \in Nat /\ size' \in Nat
    BY <1>1, Sizes DEF IInv, TypeOK
  <2>5. CASE a < size
    BY <1>1, <2>1, <2>4, <2>5, Sizes DEF Addr
  <2>6. CASE dirty /\ InWindow(a)
    BY <1>1, <2>3, <2>6
  <2> QED
    BY <2>2, <2>5, <2>6
<1> QED
  BY <1>1, <1>2, <1>3

LEMMA ReadFlushFailsPreserves ==
  ASSUME IInv, NEW rec \in Recs, NEW req \in Requests, ReadFlushFails(rec, req)
  PROVE  IInv'
<1>1. op \in {"READ", "UPDATE"} /\ UNCHANGED <<op, eof_record, promised, buffer, blockno, valid, dirty>>
  BY DEF ReadFlushFails, Reading, window
<1>2. PICK f \in Flush(buffer, blockno, dirty) :
        ~f.ok /\ bytes' = f.bytes /\ size' = f.size
  BY DEF ReadFlushFails
<1>3. /\ dirty
      /\ op \in {"WRITE", "UPDATE"}
      /\ bytes' \in [Addr -> Byte] /\ size' \in 0 .. MaxAddr
      /\ PromisedBytesExist'
  <2>1. buffer \in [BufIdx -> Byte] /\ dirty \in BOOLEAN /\ (dirty => valid)
    BY DEF IInv, TypeOK, PromisedBytesExist
  <2> QED
    BY <1>1, <1>2, <2>1, FailedFlush
<1>4. status' = "IO_ERROR"
  BY DEF ReadFlushFails
<1>5. TypeOK'
  BY <1>1, <1>3, <1>4 DEF IInv, TypeOK
<1>6. ModesAgree'
  BY <1>1, <1>3 DEF IInv, ModesAgree
<1>7. EofCoversWrites'
  BY <1>1 DEF IInv, EofCoversWrites
<1>8. CleanWindowIsOnDisk'
  BY <1>1, <1>3 DEF CleanWindowIsOnDisk
<1> QED
  BY <1>3, <1>5, <1>6, <1>7, <1>8 DEF IInv

(* Leaving a window whose flush succeeded: all that is promised is in the  *)
(* file.                                                                   *)
LEMMA FlushedWindow ==
  ASSUME IInv, NEW buf \in [BufIdx -> Byte], NEW d \in BOOLEAN, dirty => d,
         NEW f \in Flush(buf, blockno, d), f.ok
  PROVE  /\ f.bytes \in [Addr -> Byte] /\ f.size \in 0 .. MaxAddr
         /\ \A a \in promised : a < f.size
         /\ ~d => f.bytes = bytes /\ f.size = size
<1>1. /\ f.bytes \in [Addr -> Byte] /\ f.size \in 0 .. MaxAddr /\ size <= f.size
      /\ d => Base(blockno) + BufSize <= f.size
      /\ ~d => f.bytes = bytes /\ f.size = size
  BY FlushFacts DEF IInv
<1>2. ASSUME NEW a \in promised
      PROVE  a < f.size
  <2>1. a \in Nat /\ size \in Nat /\ f.size \in Nat
    BY <1>1, Sizes DEF IInv, TypeOK, Addr
  <2>2. a < size \/ (dirty /\ InWindow(a))
    BY DEF IInv, PromisedBytesExist
  <2>3. CASE a < size
    BY <1>1, <2>1, <2>3
  <2>4. CASE dirty /\ InWindow(a)
    <3>1. Base(blockno) \in Nat /\ BufSize \in Nat
      BY BaseInNat, Sizes DEF IInv, TypeOK, IsLocation
    <3>2. a < Base(blockno) + BufSize /\ d
      BY <2>4 DEF InWindow
    <3> QED
      BY <1>1, <2>1, <3>1, <3>2
  <2> QED
    BY <2>2, <2>3, <2>4
<1> QED
  BY <1>1, <1>2

LEMMA ReadMissPreserves ==
  ASSUME IInv, NEW rec \in Recs, NEW req \in Requests,
         \/ ReadMissFound(rec, req)
         \/ ReadMissEndOfFile(rec, req)
         \/ ReadMissError(rec, req)
  PROVE  IInv'
<1> DEFINE loc == Location(rec)
<1>1. /\ op \in {"READ", "UPDATE"} /\ UNCHANGED <<op, eof_record, promised>>
      /\ ~Hit(rec)
      /\ dirty' = FALSE /\ blockno' = loc /\ valid' = TRUE
  BY DEF ReadMissFound, ReadMissEndOfFile, ReadMissError, ReadMiss, Reading
<1>2. PICK f \in Flush(buffer, blockno, dirty) :
        f.ok /\ bytes' = f.bytes /\ size' = f.size
  BY DEF ReadMissFound, ReadMissEndOfFile, ReadMissError, ReadMiss
<1>3. buffer \in [BufIdx -> Byte] /\ dirty \in BOOLEAN
  BY DEF IInv, TypeOK
<1>4. /\ bytes' \in [Addr -> Byte] /\ size' \in 0 .. MaxAddr
      /\ \A a \in promised : a < size'
      /\ ~dirty => size' = size
  BY <1>2, <1>3, FlushedWindow
<1>5. InRange(loc) /\ Base(loc) \in Nat
  BY <1>1, MissFacts, BaseInNat DEF IInv, InRange, IsLocation
<1>6. \/ Base(loc) < size' /\ buffer' = Fill(buffer, bytes', size', loc)
      \/ Base(loc) >= size' /\ buffer' = buffer
      \/ ReadErrors /\ buffer' = buffer
  BY DEF ReadMissFound, ReadMissEndOfFile, ReadMissError
<1>7. buffer' \in [BufIdx -> Byte]
  BY <1>3, <1>4, <1>5, <1>6, FillType
<1>8. status' \in {"SUCCESS", "END_OF_FILE", "IO_ERROR"}
  BY DEF ReadMissFound, ReadMissEndOfFile, ReadMissError
<1>9. TypeOK'
  BY <1>1, <1>4, <1>5, <1>7, <1>8 DEF IInv, TypeOK, InRange
<1>10. ModesAgree'
  BY <1>1, <1>4 DEF IInv, ModesAgree
<1>11. PromisedBytesExist'
  BY <1>1, <1>4 DEF PromisedBytesExist
<1>12. EofCoversWrites'
  BY <1>1 DEF IInv, EofCoversWrites
<1>13. ReadErrors \/ CleanWindowIsOnDisk'
  <2>1. SUFFICES ASSUME ~ReadErrors, NEW a \in promised, InWindow(a)'
                 PROVE  buffer'[a - Base(blockno')] = bytes'[a]
    BY <1>1 DEF CleanWindowIsOnDisk
  <2>2. a \in Nat /\ a < size' /\ size' \in Nat
    BY <1>4, Sizes DEF IInv, TypeOK, Addr
  <2>3. Base(loc) <= a /\ a < Base(loc) + BufSize
    BY <1>1, <2>1 DEF InWindow
  <2>4. Base(loc) < size'
    BY <1>5, <2>2, <2>3
  <2>5. buffer' = Fill(buffer, bytes', size', loc)
    BY <1>5, <1>6, <2>1, <2>2, <2>4
  <2>6. a - Base(loc) \in BufIdx /\ Base(loc) + (a - Base(loc)) = a
    BY <1>5, <2>2, <2>3, Sizes DEF BufIdx
  <2> QED
    BY <1>1, <2>2, <2>5, <2>6 DEF Fill
<1> QED
  BY <1>9, <1>10, <1>11, <1>12, <1>13 DEF IInv

(* The record count covers the record being written (write_rec.c sets it   *)
(* before anything else).                                                  *)
LEMMA WritingFacts ==
  ASSUME IInv, NEW rec \in Recs, NEW req \in Requests, Writing(rec)
  PROVE  /\ op' = op /\ op \in {"WRITE", "UPDATE"}
         /\ eof_record' \in 0 .. NRec
         /\ \A a \in promised \cup Span(rec, req) : a < eof_record' * RecSize
<1>1. /\ op' = op /\ op \in {"WRITE", "UPDATE"}
      /\ eof_record' = Larger(eof_record, rec + 1)
  BY DEF Writing
<1>2. rec \in Nat /\ rec + 1 <= NRec /\ eof_record \in 0 .. NRec
  BY Sizes DEF Recs, IInv, TypeOK
<1>3. /\ eof_record' \in 0 .. NRec
      /\ eof_record <= eof_record' /\ rec + 1 <= eof_record'
      /\ eof_record \in Nat /\ eof_record' \in Nat /\ RecSize \in Nat
  BY <1>1, <1>2, Sizes DEF Larger
<1>4. /\ eof_record * RecSize <= eof_record' * RecSize
      /\ (rec + 1) * RecSize <= eof_record' * RecSize
  <2>1. eof_record \in Int /\ eof_record' \in Int /\ rec + 1 \in Int /\ RecSize \in Nat
    BY <1>2, <1>3
  <2>2. eof_record * RecSize <= eof_record' * RecSize
    BY <1>3, <2>1, MulMono
  <2>3. (rec + 1) * RecSize <= eof_record' * RecSize
    BY <1>3, <2>1, MulMono
  <2> QED
    BY <2>2, <2>3
<1>5. ASSUME NEW a \in promised
      PROVE  a < eof_record' * RecSize
  <2>1. a \in Nat /\ a < eof_record * RecSize
    BY <1>1, Sizes DEF IInv, TypeOK, EofCoversWrites, Addr
  <2>2. eof_record * RecSize \in Nat /\ eof_record' * RecSize \in Nat
    BY <1>3, MulInNat
  <2> QED
    BY <1>4, <2>1, <2>2
<1>6. ASSUME NEW a \in Span(rec, req)
      PROVE  a < eof_record' * RecSize
  <2>1. PICK j \in Asked(req) : a = rec * RecSize + j
    BY DEF Span
  <2>2. j \in 0 .. (RecSize - 1) /\ rec * RecSize \in Nat
    BY RequestInRecord
  <2>3. (rec + 1) * RecSize = rec * RecSize + RecSize
    BY <1>2, Sizes
  <2>4. eof_record' * RecSize \in Nat
    BY <1>3, MulInNat
  <2> QED
    BY <1>4, <2>1, <2>2, <2>3, <2>4, Sizes
<1> QED
  BY <1>1, <1>3, <1>5, <1>6

(* Every write that reaches its end leaves the invariant true.             *)
LEMMA FinishPreserves ==
  ASSUME IInv, NEW rec \in Recs, NEW req \in Requests, Writing(rec),
         NEW buf \in [BufIdx -> Byte], NEW loc, InRange(loc),
         NEW disk \in [Addr -> Byte], NEW length \in 0 .. MaxAddr,
         \A a \in promised \cup Span(rec, req) :
            a < length \/ (Base(loc) <= a /\ a < Base(loc) + BufSize),
         Finish(rec, req, buf, loc, disk, length)
  PROVE  IInv'
<1>1. /\ bytes' \in [Addr -> Byte] /\ size' \in 0 .. MaxAddr
      /\ buffer' \in [BufIdx -> Byte] /\ blockno' = loc
      /\ valid' = TRUE /\ dirty' \in BOOLEAN
      /\ promised' \subseteq promised \cup Span(rec, req)
      /\ status' \in {"SUCCESS", "IO_ERROR"}
      /\ PromisedBytesExist'
      /\ CleanWindowIsOnDisk'
  BY FinishFacts
<1>2. /\ op' = op /\ op \in {"WRITE", "UPDATE"}
      /\ eof_record' \in 0 .. NRec
      /\ \A a \in promised \cup Span(rec, req) : a < eof_record' * RecSize
  BY WritingFacts
<1>3. promised' \subseteq Addr
  BY <1>1, RequestInRecord DEF IInv, TypeOK
<1>4. TypeOK'
  BY <1>1, <1>2, <1>3 DEF IInv, TypeOK, InRange
<1>5. ModesAgree'
  BY <1>2 DEF ModesAgree
<1>6. EofCoversWrites'
  BY <1>1, <1>2 DEF EofCoversWrites
<1> QED
  BY <1>1, <1>4, <1>5, <1>6 DEF IInv

LEMMA WriteHitPreserves ==
  ASSUME IInv, NEW rec \in Recs, NEW req \in Requests, NEW image \in Images,
         WriteHit(rec, req, image)
  PROVE  IInv'
<1> DEFINE buf == MoveIn(buffer, WholeRec(blockno, rec), req, image)
<1>1. /\ Writing(rec) /\ Hit(rec)
      /\ Finish(rec, req, buf, blockno, bytes, size)
  BY DEF WriteHit
<1>2. /\ buffer \in [BufIdx -> Byte] /\ bytes \in [Addr -> Byte]
      /\ size \in 0 .. MaxAddr /\ InRange(blockno) /\ IsLocation(blockno)
  BY DEF IInv, TypeOK, InRange
<1>3. buf \in [BufIdx -> Byte]
  BY <1>2, MoveInType
<1>4. ASSUME NEW a \in promised
      PROVE  a < size \/ (Base(blockno) <= a /\ a < Base(blockno) + BufSize)
  BY DEF IInv, PromisedBytesExist, InWindow
<1>5. ASSUME NEW a \in Span(rec, req)
      PROVE  Base(blockno) <= a /\ a < Base(blockno) + BufSize
  <2>1. rec \in Nat /\ Complete(blockno, rec)
    BY <1>1, Sizes DEF Recs, Hit
  <2>2. Placed(WholeRec(blockno, rec), blockno, rec)
    BY <1>2, <2>1, WholeRecPlaced
  <2>3. PICK j \in Asked(req) : a = rec * RecSize + j
    BY DEF Span
  <2>4. j \in 0 .. (RecSize - 1) /\ rec * RecSize \in Nat
    BY RequestInRecord
  <2>5. Base(blockno) \in Nat
    BY <1>2, BaseInNat DEF IsLocation
  <2> QED
    BY <2>2, <2>3, <2>4, <2>5, Sizes DEF Placed, WholeRec
<1> HIDE DEF buf
<1> QED
  BY <1>1, <1>2, <1>3, <1>4, <1>5, FinishPreserves

(* What the old window gets of a record that began or ended in it.         *)
LEMMA LeavingFacts ==
  ASSUME IInv, NEW rec \in Recs, NEW req \in Requests, NEW image \in Images
  PROVE  /\ Leaving(rec, req, image) \in [BufIdx -> Byte]
         /\ LeavingDirty(rec) \in BOOLEAN
         /\ dirty => LeavingDirty(rec)
         /\ LeavingDirty(rec) => valid
<1>1. buffer \in [BufIdx -> Byte] /\ dirty \in BOOLEAN /\ valid \in BOOLEAN
  BY DEF IInv, TypeOK
<1>2. Leaving(rec, req, image) \in [BufIdx -> Byte]
  BY <1>1, MoveInType DEF Leaving
<1>3. HasLastPart(rec) \/ HasFirstPart(rec) => valid
  BY DEF HasLastPart, HasFirstPart, Partial
<1> QED
  BY <1>1, <1>2, <1>3 DEF LeavingDirty, IInv, PromisedBytesExist

LEMMA WriteFlushFailsPreserves ==
  ASSUME IInv, NEW rec \in Recs, NEW req \in Requests, NEW image \in Images,
         WriteFlushFails(rec, req, image)
  PROVE  IInv'
<1> DEFINE buf == Leaving(rec, req, image)
           d == LeavingDirty(rec)
<1>1. /\ Writing(rec) /\ buffer' = buf /\ dirty' = d
      /\ promised' \subseteq promised
      /\ status' = "IO_ERROR" /\ UNCHANGED <<blockno, valid>>
  BY DEF WriteFlushFails
<1>2. PICK f \in Flush(buf, blockno, d) : ~f.ok /\ bytes' = f.bytes /\ size' = f.size
  BY DEF WriteFlushFails
<1>3. /\ buf \in [BufIdx -> Byte] /\ d \in BOOLEAN
      /\ dirty => d
      /\ d => valid
  BY LeavingFacts
<1>4. /\ op' = op /\ op \in {"WRITE", "UPDATE"}
      /\ eof_record' \in 0 .. NRec
      /\ \A a \in promised \cup Span(rec, req) : a < eof_record' * RecSize
  BY <1>1, WritingFacts
<1> HIDE DEF buf, d
<1>5. /\ d
      /\ bytes' \in [Addr -> Byte] /\ size' \in 0 .. MaxAddr
      /\ PromisedBytesExist'
  BY <1>1, <1>2, <1>3, <1>4, FailedFlush
<1>6. TypeOK'
  BY <1>1, <1>3, <1>4, <1>5 DEF IInv, TypeOK
<1>7. ModesAgree'
  BY <1>4 DEF ModesAgree
<1>8. EofCoversWrites'
  BY <1>1, <1>4 DEF EofCoversWrites
<1>9. CleanWindowIsOnDisk'
  BY <1>1, <1>5 DEF CleanWindowIsOnDisk
<1> QED
  BY <1>5, <1>6, <1>7, <1>8, <1>9 DEF IInv

(* A record that is moved to a new window is in the file, in the new       *)
(* window, or partly in each.                                              *)
LEMMA MovedRecord ==
  ASSUME IInv, NEW rec \in Recs, NEW req \in Requests, NEW image \in Images,
         ~Hit(rec),
         NEW f \in Flush(Leaving(rec, req, image), blockno, LeavingDirty(rec)), f.ok
  PROVE  LET loc == Location(rec)
         IN  /\ InRange(loc)
             /\ f.bytes \in [Addr -> Byte] /\ f.size \in 0 .. MaxAddr
             /\ \A a \in promised : a < f.size
             /\ \A a \in Span(rec, req) :
                  a < f.size \/ (Base(loc) <= a /\ a < Base(loc) + BufSize)
<1> DEFINE loc == Location(rec)
           buf == Leaving(rec, req, image)
           d == LeavingDirty(rec)
           parts == HasFirstPart(rec) \/ HasLastPart(rec)
           here == PartHere(rec)
           there == PartThere(rec, loc)
<1>1. /\ buf \in [BufIdx -> Byte] /\ d \in BOOLEAN
      /\ dirty => d
  BY LeavingFacts
<1>2. parts => d
  BY DEF LeavingDirty
<1>3. /\ InRange(loc)
      /\ parts => Placed(here, blockno, rec)
      /\ \A j \in 0 .. (RecSize - 1) :
           /\ Holds(loc, rec, j) <=> InPiece(there, j)
           /\ InPiece(there, j) \/ (parts /\ InPiece(here, j))
  BY MissFacts DEF IInv
<1>4. TypeOK
  BY DEF IInv
<1> HIDE DEF loc, buf, d, parts, here, there
<1>5. f \in Flush(buf, blockno, d)
  BY DEF buf, d
<1>6. /\ f.bytes \in [Addr -> Byte] /\ f.size \in 0 .. MaxAddr
      /\ \A a \in promised : a < f.size
  BY <1>1, <1>5, FlushedWindow
<1>7. d => Base(blockno) + BufSize <= f.size
  BY <1>1, <1>4, <1>5, FlushFacts
<1>8. ASSUME NEW a \in Span(rec, req)
      PROVE  a < f.size \/ (Base(loc) <= a /\ a < Base(loc) + BufSize)
  <2>1. PICK j \in Asked(req) : a = rec * RecSize + j
    BY DEF Span
  <2>2. j \in 0 .. (RecSize - 1) /\ j \in Nat /\ rec * RecSize \in Nat
    BY RequestInRecord, Sizes
  <2>3. CASE InPiece(there, j)
    BY <1>3, <2>1, <2>2, <2>3 DEF Holds
  <2>4. CASE parts /\ InPiece(here, j)
    <3>1. Placed(here, blockno, rec) /\ Base(blockno) + BufSize <= f.size
      BY <1>2, <1>3, <1>7, <2>4
    <3>2. Base(blockno) \in Nat /\ f.size \in Nat /\ BufSize \in Nat
      BY <1>4, <1>6, BaseInNat, Sizes DEF TypeOK, IsLocation
    <3> QED
      BY <2>1, <2>2, <2>4, <3>1, <3>2 DEF Placed, InPiece
  <2> QED
    BY <1>3, <2>2, <2>3, <2>4
<1> QED
  BY <1>3, <1>6, <1>8 DEF loc

LEMMA WriteMissPreserves ==
  ASSUME IInv, NEW rec \in Recs, NEW req \in Requests, NEW image \in Images,
         WriteMiss(rec, req, image)
  PROVE  IInv'
<1> DEFINE loc == Location(rec)
           old == Leaving(rec, req, image)
           there == PartThere(rec, loc)
<1>1. Writing(rec) /\ ~Hit(rec)
  BY DEF WriteMiss
<1>2. PICK f \in Flush(old, blockno, LeavingDirty(rec)) :
        LET new == IF NeedsPreread(rec, req, loc)
                   THEN Fill(old, f.bytes, f.size, loc) ELSE old
        IN  /\ f.ok
            /\ Finish(rec, req, MoveIn(new, there, req, image), loc, f.bytes, f.size)
  BY DEF WriteMiss
<1> DEFINE new == IF NeedsPreread(rec, req, loc)
                  THEN Fill(old, f.bytes, f.size, loc) ELSE old
           buf == MoveIn(new, there, req, image)
<1>3. /\ InRange(loc)
      /\ f.bytes \in [Addr -> Byte] /\ f.size \in 0 .. MaxAddr
      /\ \A a \in promised : a < f.size
      /\ \A a \in Span(rec, req) :
           a < f.size \/ (Base(loc) <= a /\ a < Base(loc) + BufSize)
  BY <1>1, <1>2, MovedRecord
<1>4. old \in [BufIdx -> Byte]
  BY LeavingFacts
<1>5. new \in [BufIdx -> Byte]
  BY <1>3, <1>4, FillType
<1> HIDE DEF new
<1>6. buf \in [BufIdx -> Byte]
  BY <1>5, MoveInType
<1>7. Finish(rec, req, buf, loc, f.bytes, f.size)
  BY <1>2 DEF new
<1> HIDE DEF loc, old, there, buf
<1> QED
  BY <1>1, <1>3, <1>6, <1>7, FinishPreserves

LEMMA WritePrereadFailsPreserves ==
  ASSUME IInv, NEW rec \in Recs, NEW req \in Requests, NEW image \in Images,
         WritePrereadFails(rec, req, image)
  PROVE  IInv'
<1> DEFINE loc == Location(rec)
           old == Leaving(rec, req, image)
<1>1. /\ ReadErrors /\ Writing(rec) /\ ~Hit(rec)
      /\ buffer' = old /\ blockno' = loc /\ dirty' = FALSE /\ UNCHANGED valid
      /\ promised' \subseteq promised
      /\ status' = "IO_ERROR"
  BY DEF WritePrereadFails
<1>2. PICK f \in Flush(old, blockno, LeavingDirty(rec)) :
        f.ok /\ bytes' = f.bytes /\ size' = f.size
  BY DEF WritePrereadFails
<1>3. /\ InRange(loc)
      /\ f.bytes \in [Addr -> Byte] /\ f.size \in 0 .. MaxAddr
      /\ \A a \in promised : a < f.size
  BY <1>1, <1>2, MovedRecord
<1>4. old \in [BufIdx -> Byte]
  BY LeavingFacts
<1>5. /\ op' = op /\ op \in {"WRITE", "UPDATE"}
      /\ eof_record' \in 0 .. NRec
      /\ \A a \in promised \cup Span(rec, req) : a < eof_record' * RecSize
  BY <1>1, WritingFacts
<1> HIDE DEF loc, old
<1>6. TypeOK'
  BY <1>1, <1>2, <1>3, <1>4, <1>5 DEF IInv, TypeOK, InRange
<1>7. ModesAgree'
  BY <1>5 DEF ModesAgree
<1>8. PromisedBytesExist'
  BY <1>1, <1>2, <1>3 DEF PromisedBytesExist
<1>9. EofCoversWrites'
  BY <1>1, <1>5 DEF EofCoversWrites
<1> QED
  BY <1>1, <1>6, <1>7, <1>8, <1>9 DEF IInv

LEMMA ClosePreserves ==
  ASSUME IInv, Close
  PROVE  IInv'
<1>1. /\ op # "CLOSED" /\ op \in Modes /\ op' = "CLOSED"
      /\ ~valid' /\ ~dirty' /\ valid' \in BOOLEAN /\ dirty' \in BOOLEAN
      /\ status' = "SUCCESS"
  BY DEF Close, IInv, TypeOK
<1>2. PICK f \in Flush(buffer, blockno, dirty) :
        f.ok /\ size' = FinalSize(f.size) /\ bytes' = Truncated(f.bytes, size')
  BY DEF Close
<1>3. buffer \in [BufIdx -> Byte] /\ dirty \in BOOLEAN
  BY DEF IInv, TypeOK
<1>4. /\ f.bytes \in [Addr -> Byte] /\ f.size \in 0 .. MaxAddr
      /\ ~dirty => f.size = size
  BY <1>2, <1>3, FlushedWindow
<1>5. bytes' \in [Addr -> Byte]
  BY <1>2, <1>4, CallsAreInRange DEF Truncated
<1>6. ASSUME NEW n \in 0 .. NRec
      PROVE  /\ n * RecSize \in 0 .. (NRec * RecSize)
             /\ (n * RecSize) \div RecSize = n
  <2>1. n \in Nat /\ n \in Int /\ NRec \in Int /\ n <= NRec /\ RecSize \in Nat /\ RecSize \in Nat \ {0}
    BY Sizes
  <2>2. n * RecSize \in Nat /\ n * RecSize <= NRec * RecSize
    BY <2>1, MulInNat, MulMono
  <2>3. (n * RecSize) \div RecSize = n
    BY <2>1, MultipleDiv
  <2> QED
    BY <2>2, <2>3, Sizes
<1>7. promised \subseteq Nat /\ promised \subseteq Addr /\ promised' \subseteq promised
  BY Sizes DEF IInv, TypeOK, Addr, Close
<1>8. /\ size' \in 0 .. (NRec * RecSize)
      /\ \A a \in promised' : a < (size' \div RecSize) * RecSize
  <2>1. CASE op = "READ"
    <3>1. size' = size /\ size <= NRec * RecSize /\ eof_record = size \div RecSize
      BY <1>2, <1>4, <2>1 DEF FinalSize, IInv, ModesAgree
    <3>2. \A a \in promised : a < eof_record * RecSize
      BY <1>1 DEF IInv, EofCoversWrites
    <3>3. size \in Nat
      BY Sizes DEF IInv, TypeOK
    <3> QED
      BY <1>7, <3>1, <3>2, <3>3, Sizes
  <2>2. CASE NoLabels /\ op = "WRITE"
    <3>1. size' = eof_record * RecSize /\ eof_record \in 0 .. NRec
      BY <1>2, <2>2 DEF FinalSize, IInv, TypeOK
    <3>2. \A a \in promised : a < eof_record * RecSize
      BY <1>1 DEF IInv, EofCoversWrites
    <3> QED
      BY <1>6, <1>7, <3>1, <3>2
  <2>3. CASE op # "READ" /\ ~(NoLabels /\ op = "WRITE")
    <3>1. size' = NominalRecs * RecSize /\ NominalRecs \in 0 .. NRec
      BY <1>2, <2>3, CallsAreInRange DEF FinalSize, NominalSize
    <3>2. promised' = promised \cap 0 .. (NominalRecs * RecSize - 1)
      BY <2>3 DEF Close, NominalSize
    <3>3. NominalRecs * RecSize \in Nat
      BY <1>6, <3>1, Sizes
    <3> QED
      BY <1>6, <1>7, <3>1, <3>2, <3>3
  <2> QED
    BY <2>1, <2>2, <2>3
<1>9. size' \in 0 .. MaxAddr /\ size' \in Nat /\ size' <= NRec * RecSize
  BY <1>8, Sizes
<1>10. TypeOK'
  BY <1>1, <1>5, <1>7, <1>9, FreshWindow DEF IInv, TypeOK, Close
<1>11. ModesAgree'
  BY <1>1, <1>8, <1>9 DEF ModesAgree
<1>12. PromisedBytesExist'
  <2> SUFFICES ASSUME NEW a \in promised'
               PROVE  a < size'
    BY <1>1 DEF PromisedBytesExist
  <2>1. a \in Nat /\ a < (size' \div RecSize) * RecSize
    BY <1>7, <1>8
  <2>2. (size' \div RecSize) * RecSize <= size' /\ (size' \div RecSize) * RecSize \in Nat
    BY <1>8, WholeRecords
  <2> QED
    BY <1>9, <2>1, <2>2
<1>13. EofCoversWrites' /\ CleanWindowIsOnDisk'
  BY <1>1 DEF EofCoversWrites, CleanWindowIsOnDisk
<1> QED
  BY <1>10, <1>11, <1>12, <1>13 DEF IInv

LEMMA CloseFailsPreserves ==
  ASSUME IInv, CloseFails
  PROVE  IInv'
<1>1. /\ UNCHANGED <<op, eof_record, promised, buffer, blockno, valid, dirty>>
      /\ status' = "IO_ERROR"
  BY DEF CloseFails, window
<1>2. PICK f \in Flush(buffer, blockno, dirty) :
        ~f.ok /\ bytes' = f.bytes /\ size' = f.size
  BY DEF CloseFails
<1>3. buffer \in [BufIdx -> Byte] /\ dirty \in BOOLEAN /\ (dirty => valid)
  BY DEF IInv, TypeOK, PromisedBytesExist
<1>4. /\ dirty
      /\ op \in {"WRITE", "UPDATE"}
      /\ bytes' \in [Addr -> Byte] /\ size' \in 0 .. MaxAddr
      /\ PromisedBytesExist'
  BY <1>1, <1>2, <1>3, FailedFlush
<1>5. TypeOK'
  BY <1>1, <1>4 DEF IInv, TypeOK
<1>6. ModesAgree' /\ EofCoversWrites' /\ CleanWindowIsOnDisk'
  BY <1>1, <1>4 DEF IInv, ModesAgree, EofCoversWrites, CleanWindowIsOnDisk
<1> QED
  BY <1>4, <1>5, <1>6 DEF IInv

(* A window that was flushed is clean and agrees with the file.            *)
LEMMA FlushedIsClean ==
  ASSUME IInv, NEW f \in Flush(buffer, blockno, dirty), f.ok,
         bytes' = f.bytes, UNCHANGED <<buffer, blockno, valid, promised>>,
         CleanWindowIsOnDisk
  PROVE  CleanWindowIsOnDisk'
<1>1. SUFFICES ASSUME valid, NEW a \in promised, InWindow(a)
               PROVE  buffer[a - Base(blockno)] = bytes'[a]
  BY DEF CleanWindowIsOnDisk, InWindow
<1>2. a \in Addr /\ Base(blockno) <= a /\ a < Base(blockno) + BufSize
  BY <1>1 DEF InWindow, IInv, TypeOK
<1>3. CASE dirty
  <2>1. bytes' = Stored(bytes, buffer, blockno, BufSize)
    BY <1>3, FlushFacts DEF IInv, TypeOK
  <2> QED
    BY <1>2, <2>1 DEF Stored
<1>4. CASE ~dirty
  <2>1. bytes' = bytes
    BY <1>4, FlushFacts DEF IInv, TypeOK
  <2> QED
    BY <1>1, <1>4, <2>1 DEF CleanWindowIsOnDisk
<1> QED
  BY <1>3, <1>4

LEMMA CloseFinishFailsPreserves ==
  ASSUME IInv, CloseFinishFails
  PROVE  IInv'
<1>1. /\ op \in {"WRITE", "UPDATE"}
      /\ dirty' = FALSE /\ status' = "IO_ERROR"
      /\ UNCHANGED <<op, buffer, blockno, valid, eof_record, promised>>
  BY DEF CloseFinishFails
<1>2. PICK f \in Flush(buffer, blockno, dirty) :
        f.ok /\ bytes' = f.bytes /\ size' = f.size
  BY DEF CloseFinishFails
<1>3. buffer \in [BufIdx -> Byte] /\ dirty \in BOOLEAN
  BY DEF IInv, TypeOK
<1>4. /\ bytes' \in [Addr -> Byte] /\ size' \in 0 .. MaxAddr
      /\ \A a \in promised : a < size'
  BY <1>2, <1>3, FlushedWindow
<1>5. TypeOK'
  BY <1>1, <1>4 DEF IInv, TypeOK
<1>6. ModesAgree' /\ EofCoversWrites' /\ PromisedBytesExist'
  BY <1>1, <1>4 DEF IInv, ModesAgree, EofCoversWrites, PromisedBytesExist
<1>7. ReadErrors \/ CleanWindowIsOnDisk'
  BY <1>1, <1>2, FlushedIsClean DEF IInv
<1> QED
  BY <1>5, <1>6, <1>7 DEF IInv

LEMMA NextPreserves ==
  ASSUME IInv, [Next]_vars
  PROVE  IInv'
<1>1. CASE \E mode \in Modes : Open(mode)
  BY <1>1, OpenPreserves
<1>2. ASSUME NEW rec \in Recs, NEW req \in Requests, Read(rec, req)
      PROVE  IInv'
  <2>1. CASE ReadHit(rec, req)
    BY <2>1, ReadHitPreserves
  <2>2. CASE ReadFlushFails(rec, req)
    BY <2>2, ReadFlushFailsPreserves
  <2>3. CASE ReadMissFound(rec, req) \/ ReadMissEndOfFile(rec, req) \/ ReadMissError(rec, req)
    BY <2>3, ReadMissPreserves
  <2> QED
    BY <1>2, <2>1, <2>2, <2>3 DEF Read
<1>3. ASSUME NEW rec \in Recs, NEW req \in Requests, NEW image \in Images,
             Write(rec, req, image)
      PROVE  IInv'
  <2>1. CASE WriteHit(rec, req, image)
    BY <2>1, WriteHitPreserves
  <2>2. CASE WriteFlushFails(rec, req, image)
    BY <2>2, WriteFlushFailsPreserves
  <2>3. CASE WriteMiss(rec, req, image)
    BY <2>3, WriteMissPreserves
  <2>4. CASE WritePrereadFails(rec, req, image)
    BY <2>4, WritePrereadFailsPreserves
  <2> QED
    BY <1>3, <2>1, <2>2, <2>3, <2>4 DEF Write
<1>4. CASE Close
  BY <1>4, ClosePreserves
<1>5. CASE CloseFails
  BY <1>5, CloseFailsPreserves
<1>6. CASE CloseFinishFails
  BY <1>6, CloseFinishFailsPreserves
<1>7. CASE UNCHANGED vars
  BY <1>7 DEF vars, file, window, IInv, TypeOK, ModesAgree, PromisedBytesExist,
       EofCoversWrites, CleanWindowIsOnDisk, InWindow
<1> QED
  BY <1>1, <1>2, <1>3, <1>4, <1>5, <1>6, <1>7 DEF Next

-----------------------------------------------------------------------------
(* The invariants of record I/O, for every record and block size, access   *)
(* method, file and failure (v2_read_rec, v2_write_rec, v2_close_file).    *)
THEOREM Invariant == Spec => []IInv
<1>1. Init => IInv
  BY InitEstablishes
<1>2. IInv /\ [Next]_vars => IInv'
  BY NextPreserves
<1> QED
  BY <1>1, <1>2, PTL DEF Spec

(* Every window lies inside the address space, and every byte that is      *)
(* moved in or out of the buffer or the file exists.                       *)
THEOREM TypeCorrect == Spec => []TypeOK
<1>1. IInv => TypeOK
  BY DEF IInv
<1> QED
  BY <1>1, Invariant, PTL

(* No byte the caller may rely on is ever only in a window that can be     *)
(* dropped: it is in the file or in a window that will be flushed.         *)
THEOREM NothingIsLost == Spec => []PromisedBytesExist
<1>1. IInv => PromisedBytesExist
  BY DEF IInv
<1> QED
  BY <1>1, Invariant, PTL

(* The record count that decides on the preread and on the truncation at   *)
(* close is never behind the data.                                         *)
THEOREM EofIsHighWater == Spec => []EofCoversWrites
<1>1. IInv => EofCoversWrites
  BY DEF IInv
<1> QED
  BY <1>1, Invariant, PTL

(* As long as read(2) does not fail, a clean valid window holds what the   *)
(* file holds, so the library may drop it or read from it.                 *)
THEOREM Coherence ==
  ASSUME ~ReadErrors
  PROVE  Spec => []CleanWindowIsOnDisk
<1>1. IInv => CleanWindowIsOnDisk
  BY DEF IInv
<1> QED
  BY <1>1, Invariant, PTL

-----------------------------------------------------------------------------
(* As long as read(2) does not fail, RecordBuffer implements RecordFile,   *)
(* for every record size, block size, access method and file.              *)

(* Where a record starts in the file.                                      *)
Start(rec) == rec * RecSize

InWindowAt(loc, a) == Base(loc) <= a /\ a < Base(loc) + BufSize

(* What the file of records holds, as the refinement has it.               *)
Content == [a \in promised |-> View(a)]

SameContent == promised' = promised /\ \A a \in promised : View(a)' = View(a)

LEMMA ContentStays ==
  ASSUME SameContent
  PROVE  UNCHANGED Content
BY DEF SameContent, Content

LEMMA ViewFacts ==
  ASSUME NEW a
  PROVE  /\ InWindow(a) <=> valid /\ InWindowAt(blockno, a)
         /\ InWindow(a) => View(a) = buffer[a - Base(blockno)]
         /\ ~InWindow(a) => View(a) = bytes[a]
BY DEF View, InWindow, InWindowAt

-----------------------------------------------------------------------------
(* What moves between the buffer and the caller.                           *)

LEMMA Starts ==
  ASSUME NEW rec \in Recs, NEW req \in Requests
  PROVE  /\ Start(rec) \in Nat
         /\ Asked(req) \subseteq 0 .. (RecSize - 1)
         /\ Span(rec, req) = {Start(rec) + j : j \in Asked(req)}
         /\ Span(rec, req) \subseteq Addr
BY RequestInRecord DEF Start, Span

LEMMA InThePiece ==
  ASSUME NEW piece, NEW loc, IsLocation(loc), NEW rec \in Recs, Placed(piece, loc, rec),
         NEW j \in Nat, InPiece(piece, j)
  PROVE  /\ j < RecSize
         /\ piece.at + (j - piece.from) = (Start(rec) + j) - Base(loc)
         /\ (Start(rec) + j) - Base(loc) \in BufIdx
         /\ InWindowAt(loc, Start(rec) + j)
<1>1. Start(rec) \in Nat /\ Base(loc) \in Nat
  BY MulInNat, Sizes, BaseInNat DEF Recs, IsLocation, Start
<1>2. /\ piece.at \in Nat /\ piece.from \in Nat /\ piece.len \in Nat
      /\ piece.at + piece.len <= BufSize /\ piece.from + piece.len <= RecSize
      /\ Base(loc) + piece.at = Start(rec) + piece.from
  BY DEF Placed, Start
<1>3. piece.from <= j /\ j < piece.from + piece.len
  BY DEF InPiece
<1>4. RecSize \in Nat /\ BufSize \in Nat
  BY Sizes
<1>5. /\ j < RecSize
      /\ piece.at + (j - piece.from) = (Start(rec) + j) - Base(loc)
  BY <1>1, <1>2, <1>3, <1>4
<1>6. /\ piece.at + (j - piece.from) \in Nat
      /\ piece.at + (j - piece.from) < BufSize
  BY <1>2, <1>3, <1>4
<1>7. Base(loc) <= Start(rec) + j /\ Start(rec) + j < Base(loc) + BufSize
  BY <1>1, <1>4, <1>5, <1>6
<1> QED
  BY <1>1, <1>4, <1>5, <1>6, <1>7 DEF BufIdx, InWindowAt

LEMMA MovedOut ==
  ASSUME NEW buf, NEW user, NEW req \in Requests, NEW piece, NEW loc, IsLocation(loc),
         NEW rec \in Recs, Placed(piece, loc, rec), NEW j \in Asked(req), InPiece(piece, j)
  PROVE  /\ MoveOut(buf, piece, req, user)[j] = buf[(Start(rec) + j) - Base(loc)]
         /\ InWindowAt(loc, Start(rec) + j)
<1>1. j \in Nat
  BY Starts, Sizes
<1>2. MoveOut(buf, piece, req, user)[j] = buf[piece.at + (j - piece.from)]
  BY DEF MoveOut
<1>3. /\ piece.at + (j - piece.from) = (Start(rec) + j) - Base(loc)
      /\ InWindowAt(loc, Start(rec) + j)
  BY <1>1, InThePiece
<1> QED
  BY <1>2, <1>3, Zenon

LEMMA MovedIn ==
  ASSUME NEW buf, NEW image, NEW req \in Requests, NEW piece, NEW loc, IsLocation(loc),
         NEW rec \in Recs, Placed(piece, loc, rec), NEW j \in Asked(req), InPiece(piece, j)
  PROVE  /\ MoveIn(buf, piece, req, image)[(Start(rec) + j) - Base(loc)] = image[j]
         /\ InWindowAt(loc, Start(rec) + j)
<1>1. j \in Nat /\ Start(rec) \in Nat /\ Base(loc) \in Nat
  BY Starts, Sizes, BaseInNat DEF IsLocation
<1>2. /\ piece.at + (j - piece.from) = (Start(rec) + j) - Base(loc)
      /\ (Start(rec) + j) - Base(loc) \in BufIdx
      /\ InWindowAt(loc, Start(rec) + j)
  BY <1>1, InThePiece
<1> DEFINE k == (Start(rec) + j) - Base(loc)
<1>3. piece.at \in Nat /\ piece.from \in Nat /\ k \in Int
  BY <1>1 DEF Placed
<1>4. k - piece.at + piece.from = j
  BY <1>1, <1>2, <1>3
<1>5. k \in BufIdx
  BY <1>2
<1> HIDE DEF k
<1>6. MoveIn(buf, piece, req, image)[k] = image[j]
  BY <1>4, <1>5 DEF MoveIn
<1> QED
  BY <1>2, <1>6 DEF k

(* Bytes of other records stay where they are.                             *)
LEMMA NotMovedIn ==
  ASSUME NEW buf, NEW image, NEW req \in Requests, NEW piece, NEW loc, IsLocation(loc),
         NEW rec \in Recs, Placed(piece, loc, rec),
         NEW a \in Nat, a \notin Span(rec, req), InWindowAt(loc, a)
  PROVE  MoveIn(buf, piece, req, image)[a - Base(loc)] = buf[a - Base(loc)]
<1> DEFINE k == a - Base(loc)
           j == k - piece.at + piece.from
<1>1. Base(loc) \in Nat
  BY BaseInNat DEF IsLocation
<1>2. k \in BufIdx
  BY <1>1, Sizes DEF BufIdx, InWindowAt
<1>3. ~(InPiece(piece, j) /\ j \in Asked(req))
  <2> SUFFICES ASSUME InPiece(piece, j), j \in Asked(req)
               PROVE  FALSE
    OBVIOUS
  <2>1. j \in Nat /\ Start(rec) \in Nat
    BY Starts, Sizes
  <2>2. piece.at \in Nat /\ piece.from \in Nat
    BY DEF Placed
  <2> DEFINE jj == j
  <2>3. jj \in Nat /\ InPiece(piece, jj) /\ jj \in Asked(req)
    BY <2>1
  <2>4. jj = a - Base(loc) - piece.at + piece.from
    OBVIOUS
  <2> HIDE DEF jj
  <2>5. piece.at + (jj - piece.from) = (Start(rec) + jj) - Base(loc)
    BY <2>3, InThePiece
  <2>6. a = Start(rec) + jj
    BY <1>1, <2>1, <2>2, <2>3, <2>4, <2>5
  <2> QED
    BY <2>3, <2>6, Starts
<1>4. MoveIn(buf, piece, req, image)[k] = buf[k]
  BY <1>2, <1>3 DEF MoveIn
<1> QED
  BY <1>4

-----------------------------------------------------------------------------
(* Records that are relied on in part exist in full.                       *)

Exists(b) == b < size \/ (dirty /\ InWindow(b))

LEMMA BytesOfRecord ==
  ASSUME NEW rec \in Recs, NEW b \in RecordBytes(rec)
  PROVE  /\ b \in Nat /\ Start(rec) <= b /\ b < Start(rec) + RecSize
         /\ b \div RecSize = rec
<1>1. PICK j \in 0 .. (RecSize - 1) : b = rec * RecSize + j
  BY DEF RecordBytes
<1>2. rec \in Nat /\ rec * RecSize \in Nat /\ RecSize \in Nat \ {0}
  BY Sizes, MulInNat DEF Recs
<1> DEFINE R == rec * RecSize
<1>3. R \in Nat /\ b = R + j
  BY <1>1, <1>2
<1> HIDE DEF R
<1>4. b \in Nat /\ R <= b /\ b < R + RecSize
  BY <1>1, <1>2, <1>3
<1>5. b \div RecSize = rec
  BY <1>2, <1>4, DivUnique DEF R
<1> QED
  BY <1>4, <1>5 DEF R, Start

LEMMA SpanInRecord ==
  ASSUME NEW rec \in Recs, NEW req \in Requests
  PROVE  Span(rec, req) \subseteq RecordBytes(rec)
BY RequestInRecord DEF Span, RecordBytes

LEMMA KeepsRecords ==
  ASSUME PromisedRecordsExist, promised' \subseteq promised,
         \A b \in Nat : Exists(b) => Exists(b)'
  PROVE  PromisedRecordsExist'
<1>1. SUFFICES ASSUME NEW rec \in Recs, promised' \cap RecordBytes(rec) # {},
                      NEW b \in RecordBytes(rec)
               PROVE  Exists(b)'
  BY DEF PromisedRecordsExist, Exists
<1>2. Exists(b)
  BY <1>1 DEF PromisedRecordsExist, Exists
<1> QED
  BY <1>2, BytesOfRecord

(* A file is opened, and left by a close, with whole records.              *)
LEMMA WholeRecordsExist ==
  ASSUME size' \in 0 .. (NRec * RecSize),
         \A a \in promised' : a \in Nat /\ a < (size' \div RecSize) * RecSize
  PROVE  PromisedRecordsExist'
<1> DEFINE q == size' \div RecSize
<1>1. q \in Nat /\ q * RecSize <= size' /\ q * RecSize \in Nat /\ size' \in Nat
  <2>1. q \in 0 .. NRec /\ q * RecSize <= size' /\ q * RecSize \in Nat
    BY WholeRecords
  <2> HIDE DEF q
  <2> QED
    BY <2>1, Sizes
<1>2. SUFFICES ASSUME NEW rec \in Recs, NEW a \in promised', a \in RecordBytes(rec),
                      NEW b \in RecordBytes(rec)
               PROVE  b < size'
  BY DEF PromisedRecordsExist
<1>3. a \in Nat /\ a < q * RecSize
  OBVIOUS
<1> HIDE DEF q
<1>4. /\ Start(rec) <= a /\ b \in Nat /\ b < Start(rec) + RecSize
      /\ rec \in Nat /\ RecSize \in Nat /\ Start(rec) = rec * RecSize /\ Start(rec) \in Nat
  BY <1>2, BytesOfRecord, Sizes, MulInNat DEF Recs, Start
<1>5. rec < q
  <2>1. rec * RecSize < q * RecSize
    BY <1>1, <1>3, <1>4
  <2> QED
    BY <1>1, <1>4, <2>1, MulLess
<1>6. (rec + 1) * RecSize <= q * RecSize
  BY <1>1, <1>4, <1>5, MulMono
<1>7. (rec + 1) * RecSize = Start(rec) + RecSize
  BY <1>4
<1> QED
  BY <1>1, <1>4, <1>6, <1>7

(* A flush that succeeds has all there is in the file.                     *)
LEMMA FlushedExists ==
  ASSUME IInv, NEW buf \in [BufIdx -> Byte], NEW d \in BOOLEAN, dirty => d,
         NEW f \in Flush(buf, blockno, d), f.ok,
         NEW b \in Nat, Exists(b)
  PROVE  b < f.size
<1>1. /\ f.size \in 0 .. MaxAddr /\ size <= f.size
      /\ d => Base(blockno) + BufSize <= f.size
  BY FlushFacts DEF IInv
<1>2. size \in Nat /\ f.size \in Nat /\ Base(blockno) \in Nat /\ BufSize \in Nat
  BY <1>1, Sizes, BaseInNat DEF IInv, TypeOK, IsLocation
<1>3. CASE b < size
  BY <1>1, <1>2, <1>3
<1>4. CASE dirty /\ InWindow(b)
  <2>1. b < Base(blockno) + BufSize /\ d
    BY <1>4 DEF InWindow
  <2> QED
    BY <1>1, <1>2, <2>1
<1> QED
  BY <1>3, <1>4 DEF Exists

(* One that fails takes nothing away.                                      *)
LEMMA FailedFlushExists ==
  ASSUME IInv, NEW buf \in [BufIdx -> Byte], NEW d \in BOOLEAN, dirty => d,
         NEW f \in Flush(buf, blockno, d),
         size' = f.size, dirty' = d, UNCHANGED <<valid, blockno>>,
         NEW b \in Nat, Exists(b)
  PROVE  Exists(b)'
<1>1. f.size \in 0 .. MaxAddr /\ size <= f.size
  BY FlushFacts DEF IInv
<1>2. size \in Nat /\ f.size \in Nat
  BY <1>1, Sizes DEF IInv, TypeOK
<1>3. InWindow(b)' = InWindow(b)
  BY DEF InWindow
<1>4. CASE b < size
  <2>1. b < size'
    BY <1>1, <1>2, <1>4
  <2> QED
    BY <2>1 DEF Exists
<1>5. CASE dirty /\ InWindow(b)
  BY <1>3, <1>5 DEF Exists
<1> QED
  BY <1>4, <1>5 DEF Exists

-----------------------------------------------------------------------------
(* The record count does not matter here: a record that moves is in the    *)
(* file, in the new window, or partly in each, with all of its bytes.      *)
LEMMA MovedBytes ==
  ASSUME IInv, NEW rec \in Recs, NEW req \in Requests, NEW image \in Images,
         ~Hit(rec),
         NEW f \in Flush(Leaving(rec, req, image), blockno, LeavingDirty(rec)), f.ok,
         NEW b \in RecordBytes(rec)
  PROVE  b < f.size \/ InWindowAt(Location(rec), b)
<1> DEFINE loc == Location(rec)
           buf == Leaving(rec, req, image)
           d == LeavingDirty(rec)
           parts == HasFirstPart(rec) \/ HasLastPart(rec)
           here == PartHere(rec)
           there == PartThere(rec, loc)
<1>1. /\ buf \in [BufIdx -> Byte] /\ d \in BOOLEAN
      /\ parts => d
  BY LeavingFacts DEF LeavingDirty
<1>2. /\ InRange(loc)
      /\ parts => Placed(here, blockno, rec)
      /\ Placed(there, loc, rec)
      /\ \A j \in 0 .. (RecSize - 1) : InPiece(there, j) \/ (parts /\ InPiece(here, j))
  BY MissFacts DEF IInv
<1>3. TypeOK
  BY DEF IInv
<1> HIDE DEF loc, buf, d, parts, here, there
<1>4. f.size \in 0 .. MaxAddr /\ (d => Base(blockno) + BufSize <= f.size)
  <2>1. f \in Flush(buf, blockno, d)
    BY DEF buf, d
  <2> QED
    BY <1>1, <1>3, <2>1, FlushFacts
<1>5. PICK j \in 0 .. (RecSize - 1) : b = Start(rec) + j
  BY DEF RecordBytes, Start
<1>6. j \in Nat /\ b \in Nat
  BY <1>5, Sizes, BytesOfRecord
<1>7. CASE InPiece(there, j)
  <2>1. InWindowAt(loc, b)
    BY <1>2, <1>5, <1>6, <1>7, InThePiece DEF InRange
  <2> QED
    BY <2>1 DEF loc
<1>8. CASE parts /\ InPiece(here, j)
  <2>1. InWindowAt(blockno, b) /\ IsLocation(blockno)
    BY <1>2, <1>3, <1>5, <1>6, <1>8, InThePiece DEF TypeOK
  <2>2. Base(blockno) \in Nat /\ f.size \in Nat /\ BufSize \in Nat
    BY <1>4, <2>1, BaseInNat, Sizes DEF IsLocation
  <2> QED
    BY <1>1, <1>4, <1>6, <1>8, <2>1, <2>2 DEF InWindowAt
<1> QED
  BY <1>2, <1>7, <1>8

LEMMA FinishKeepsRecords ==
  ASSUME IInv, PromisedRecordsExist, NEW rec \in Recs, NEW req \in Requests,
         NEW buf \in [BufIdx -> Byte], NEW loc, InRange(loc),
         NEW disk \in [Addr -> Byte], NEW length \in 0 .. MaxAddr,
         \A b \in Nat : Exists(b) => b < length \/ InWindowAt(loc, b),
         \A b \in RecordBytes(rec) : b < length \/ InWindowAt(loc, b),
         Finish(rec, req, buf, loc, disk, length)
  PROVE  PromisedRecordsExist'
<1> DEFINE full == rec = LastRec(loc)
<1>1. PICK n \in IF full THEN ShortWrites \cup {BufSize} ELSE {BufSize} :
        /\ blockno' = loc /\ valid' = TRUE
        /\ dirty' = (~full \/ n # BufSize)
        /\ size' = IF full THEN Extended(length, loc, n) ELSE length
        /\ promised' \subseteq promised \cup Span(rec, req)
  BY DEF Finish
<1>2. n \in 0 .. BufSize
  BY CallsAreInRange, Sizes
<1>3. /\ Extended(length, loc, n) \in 0 .. MaxAddr
      /\ length <= Extended(length, loc, n)
      /\ n = BufSize => Base(loc) + BufSize <= Extended(length, loc, n)
  BY <1>2, StoredType
<1>4. length \in Nat /\ size' \in Nat /\ length <= size'
  BY <1>1, <1>3, Sizes
<1>5. ASSUME NEW b \in Nat, b < length \/ InWindowAt(loc, b)
      PROVE  Exists(b)'
  <2>1. CASE b < length
    <3>1. b < size'
      BY <1>4, <2>1
    <3> QED
      BY <3>1 DEF Exists
  <2>2. CASE InWindowAt(loc, b)
    <3>1. InWindow(b)'
      BY <1>1, <2>2 DEF InWindow, InWindowAt
    <3>2. CASE dirty'
      BY <3>1, <3>2 DEF Exists
    <3>3. CASE ~dirty'
      <4>1. Base(loc) + BufSize <= size'
        BY <1>1, <1>3, <3>3
      <4>2. Base(loc) \in Nat /\ BufSize \in Nat
        BY BaseInNat, Sizes DEF InRange, IsLocation
      <4>3. b < size'
        BY <1>4, <2>2, <4>1, <4>2 DEF InWindowAt
      <4> QED
        BY <4>3 DEF Exists
    <3> QED
      BY <3>2, <3>3
  <2> QED
    BY <1>5, <2>1, <2>2
<1>6. SUFFICES ASSUME NEW r \in Recs, NEW a \in promised', a \in RecordBytes(r),
                      NEW b \in RecordBytes(r)
               PROVE  Exists(b)'
  BY DEF PromisedRecordsExist, Exists
<1>7. b \in Nat
  BY BytesOfRecord
<1>8. CASE a \in promised
  <2>1. Exists(b)
    BY <1>6, <1>8 DEF PromisedRecordsExist, Exists
  <2> QED
    BY <1>5, <1>7, <2>1
<1>9. CASE a \in Span(rec, req)
  <2>1. r = rec
    BY <1>6, <1>9, SpanInRecord, BytesOfRecord
  <2> QED
    BY <1>5, <1>6, <1>7, <2>1
<1> QED
  BY <1>1, <1>6, <1>8, <1>9

-----------------------------------------------------------------------------
LEMMA OpenKeepsRecords ==
  ASSUME IInv, NEW mode \in Modes, Open(mode)
  PROVE  PromisedRecordsExist'
<1>1. size' = size /\ size \in 0 .. (NRec * RecSize)
  BY Sizes DEF IInv, TypeOK, ModesAgree, Open, file
<1>2. size \div RecSize \in 0 .. NRec /\ (size \div RecSize) * RecSize \in Nat
  BY <1>1, WholeRecords
<1>3. promised \subseteq Nat /\ \A a \in promised : a < (size \div RecSize) * RecSize
  BY Sizes DEF IInv, TypeOK, ModesAgree, Open, Addr
<1>4. \A a \in promised' : a \in Nat /\ a < (size \div RecSize) * RecSize
  <2> DEFINE n == (size \div RecSize) * RecSize
  <2>1. promised' = {} \/ promised' = promised \cup 0 .. (n - 1)
    BY DEF Open
  <2>2. n \in Nat
    BY <1>2
  <2>3. \A a \in promised : a \in Nat /\ a < n
    BY <1>3
  <2> HIDE DEF n
  <2>4. \A a \in promised' : a \in Nat /\ a < n
    BY <2>1, <2>2, <2>3
  <2> QED
    BY <2>4 DEF n
<1> QED
  BY <1>1, <1>4, WholeRecordsExist

LEMMA ReadKeepsRecords ==
  ASSUME IInv, PromisedRecordsExist, NEW rec \in Recs, NEW req \in Requests, Read(rec, req)
  PROVE  PromisedRecordsExist'
<1>1. promised' = promised /\ buffer \in [BufIdx -> Byte] /\ dirty \in BOOLEAN
  BY DEF Read, ReadHit, ReadFlushFails, ReadMissFound, ReadMissEndOfFile,
         ReadMissError, ReadMiss, Reading, IInv, TypeOK
<1>2. ASSUME NEW b \in Nat, Exists(b)
      PROVE  Exists(b)'
  <2>1. CASE ReadHit(rec, req)
    BY <1>2, <2>1 DEF ReadHit, Exists, InWindow, file, window
  <2>2. CASE ReadFlushFails(rec, req)
    <3>1. PICK f \in Flush(buffer, blockno, dirty) : size' = f.size
      BY <2>2 DEF ReadFlushFails
    <3> QED
      BY <1>1, <1>2, <2>2, <3>1, FailedFlushExists DEF ReadFlushFails, window
  <2>3. CASE ReadMiss(rec, req)
    <3>1. PICK f \in Flush(buffer, blockno, dirty) : f.ok /\ size' = f.size
      BY <2>3 DEF ReadMiss
    <3> QED
      BY <1>1, <1>2, <3>1, FlushedExists DEF Exists
  <2> QED
    BY <2>1, <2>2, <2>3 DEF Read, ReadMissFound, ReadMissEndOfFile, ReadMissError
<1> QED
  BY <1>1, <1>2, KeepsRecords

LEMMA WriteKeepsRecords ==
  ASSUME IInv, PromisedRecordsExist, NEW rec \in Recs, NEW req \in Requests,
         NEW image \in Images, Write(rec, req, image)
  PROVE  PromisedRecordsExist'
<1> DEFINE old == Leaving(rec, req, image)
           d == LeavingDirty(rec)
           loc == Location(rec)
<1>1. old \in [BufIdx -> Byte] /\ d \in BOOLEAN /\ (dirty => d)
  BY LeavingFacts
<1>2. CASE WriteHit(rec, req, image)
  <2> DEFINE buf == MoveIn(buffer, WholeRec(blockno, rec), req, image)
  <2>1. Hit(rec) /\ Finish(rec, req, buf, blockno, bytes, size)
    BY <1>2 DEF WriteHit
  <2>2. /\ buffer \in [BufIdx -> Byte] /\ bytes \in [Addr -> Byte]
        /\ size \in 0 .. MaxAddr /\ InRange(blockno) /\ IsLocation(blockno)
    BY DEF IInv, TypeOK, InRange
  <2>3. buf \in [BufIdx -> Byte]
    BY <2>2, MoveInType
  <2>4. \A b \in Nat : Exists(b) => b < size \/ InWindowAt(blockno, b)
    BY DEF Exists, InWindow, InWindowAt
  <2>5. Placed(WholeRec(blockno, rec), blockno, rec)
    BY <2>1, <2>2, WholeRecPlaced, Sizes DEF Hit, Recs
  <2>6. ASSUME NEW b \in RecordBytes(rec)
        PROVE  InWindowAt(blockno, b)
    <3>1. PICK j \in 0 .. (RecSize - 1) : b = Start(rec) + j
      BY DEF RecordBytes, Start
    <3>2. j \in Nat /\ InPiece(WholeRec(blockno, rec), j)
      BY <3>1, Sizes DEF InPiece, WholeRec
    <3> QED
      BY <2>2, <2>5, <3>1, <3>2, InThePiece
  <2> HIDE DEF buf
  <2> QED
    BY <2>1, <2>2, <2>3, <2>4, <2>6, FinishKeepsRecords
<1>3. CASE WriteFlushFails(rec, req, image)
  <2>1. /\ dirty' = d /\ UNCHANGED <<valid, blockno>>
        /\ promised' \subseteq promised
    BY <1>3 DEF WriteFlushFails
  <2>2. PICK f \in Flush(old, blockno, d) : size' = f.size
    BY <1>3 DEF WriteFlushFails
  <2> HIDE DEF old, d
  <2>3. \A b \in Nat : Exists(b) => Exists(b)'
    BY <1>1, <2>1, <2>2, FailedFlushExists
  <2> QED
    BY <2>1, <2>3, KeepsRecords
<1>4. CASE WriteMiss(rec, req, image)
  <2>1. ~Hit(rec)
    BY <1>4 DEF WriteMiss
  <2> DEFINE new(f) == IF NeedsPreread(rec, req, loc)
                       THEN Fill(old, f.bytes, f.size, loc) ELSE old
             buf(f) == MoveIn(new(f), PartThere(rec, loc), req, image)
  <2>2. PICK f \in Flush(old, blockno, d) :
          f.ok /\ Finish(rec, req, buf(f), loc, f.bytes, f.size)
    BY <1>4 DEF WriteMiss
  <2>3. /\ InRange(loc) /\ f.bytes \in [Addr -> Byte] /\ f.size \in 0 .. MaxAddr
    BY <2>1, <2>2, MovedRecord
  <2>4. new(f) \in [BufIdx -> Byte]
    BY <1>1, <2>3, FillType
  <2>5. buf(f) \in [BufIdx -> Byte]
    <3> HIDE DEF new
    <3> QED
      BY <2>4, MoveInType
  <2>6. \A b \in RecordBytes(rec) : b < f.size \/ InWindowAt(loc, b)
    BY <2>1, <2>2, MovedBytes
  <2> HIDE DEF old, d, loc, buf
  <2>7. \A b \in Nat : Exists(b) => b < f.size
    BY <1>1, <2>2, FlushedExists
  <2> QED
    BY <2>2, <2>3, <2>5, <2>6, <2>7, FinishKeepsRecords
<1>5. CASE WritePrereadFails(rec, req, image)
  <2>1. promised' \subseteq promised
    BY <1>5 DEF WritePrereadFails
  <2>2. PICK f \in Flush(old, blockno, d) : f.ok /\ size' = f.size
    BY <1>5 DEF WritePrereadFails
  <2> HIDE DEF old, d
  <2>3. \A b \in Nat : Exists(b) => b < size'
    BY <1>1, <2>2, FlushedExists
  <2>4. \A b \in Nat : Exists(b) => Exists(b)'
    BY <2>3 DEF Exists
  <2> QED
    BY <2>1, <2>4, KeepsRecords
<1> QED
  BY <1>2, <1>3, <1>4, <1>5 DEF Write

LEMMA CloseKeepsRecords ==
  ASSUME IInv, PromisedRecordsExist, Close \/ CloseFails \/ CloseFinishFails
  PROVE  PromisedRecordsExist'
<1>1. buffer \in [BufIdx -> Byte] /\ dirty \in BOOLEAN
  BY DEF IInv, TypeOK
<1>2. CASE Close
  <2>1. TypeOK' /\ ModesAgree' /\ op' = "CLOSED"
    BY <1>2, ClosePreserves DEF IInv, Close
  <2>2. size' \in 0 .. (NRec * RecSize)
    BY <2>1, Sizes DEF TypeOK, ModesAgree
  <2>3. promised' \subseteq Nat
    BY <2>1, Sizes DEF TypeOK, Addr
  <2>4. \A a \in promised' : a < (size' \div RecSize) * RecSize
    BY <2>1 DEF ModesAgree
  <2> QED
    BY <2>2, <2>3, <2>4, WholeRecordsExist
<1>3. CASE CloseFails
  <2>1. PICK f \in Flush(buffer, blockno, dirty) : size' = f.size
    BY <1>3 DEF CloseFails
  <2>2. promised' = promised /\ dirty' = dirty /\ UNCHANGED <<valid, blockno>>
    BY <1>3 DEF CloseFails, window
  <2>3. \A b \in Nat : Exists(b) => Exists(b)'
    BY <1>1, <2>1, <2>2, FailedFlushExists
  <2> QED
    BY <2>2, <2>3, KeepsRecords
<1>4. CASE CloseFinishFails
  <2>1. PICK f \in Flush(buffer, blockno, dirty) : f.ok /\ size' = f.size
    BY <1>4 DEF CloseFinishFails
  <2>2. promised' = promised
    BY <1>4 DEF CloseFinishFails
  <2>3. \A b \in Nat : Exists(b) => b < size'
    BY <1>1, <2>1, FlushedExists
  <2>4. \A b \in Nat : Exists(b) => Exists(b)'
    BY <2>3 DEF Exists
  <2> QED
    BY <2>2, <2>4, KeepsRecords
<1> QED
  BY <1>2, <1>3, <1>4

RInv == IInv /\ PromisedRecordsExist

LEMMA NextKeepsRecords ==
  ASSUME RInv, [Next]_vars
  PROVE  RInv'
<1>1. IInv'
  BY NextPreserves DEF RInv
<1>2. CASE \E mode \in Modes : Open(mode)
  BY <1>1, <1>2, OpenKeepsRecords DEF RInv
<1>3. CASE \E rec \in Recs, req \in Requests : Read(rec, req)
  BY <1>1, <1>3, ReadKeepsRecords DEF RInv
<1>4. CASE \E rec \in Recs, req \in Requests, image \in Images : Write(rec, req, image)
  BY <1>1, <1>4, WriteKeepsRecords DEF RInv
<1>5. CASE Close \/ CloseFails \/ CloseFinishFails
  BY <1>1, <1>5, CloseKeepsRecords DEF RInv
<1>6. CASE UNCHANGED vars
  BY <1>1, <1>6 DEF vars, file, window, RInv, PromisedRecordsExist, InWindow
<1> QED
  BY <1>2, <1>3, <1>4, <1>5, <1>6 DEF Next

LEMMA InitRecords ==
  ASSUME Init
  PROVE  RInv
BY InitEstablishes DEF Init, RInv, PromisedRecordsExist

(* A record of which a byte is promised is in the file or in a dirty       *)
(* window with all of its bytes, so v2_read_rec never returns END_OF_FILE  *)
(* for it.                                                                 *)
THEOREM RecordsExist == Spec => []PromisedRecordsExist
<1>1. Init => RInv
  BY InitRecords
<1>2. RInv /\ [Next]_vars => RInv'
  BY NextKeepsRecords
<1>3. RInv => PromisedRecordsExist
  BY DEF RInv
<1> QED
  BY <1>1, <1>2, <1>3, PTL DEF Spec

-----------------------------------------------------------------------------
LEMMA ReadHitRefines ==
  ASSUME IInv, NEW rec \in Recs, NEW req \in Requests, ReadHit(rec, req)
  PROVE  Records!Read(rec, req)
<1>1. SameContent
  BY DEF ReadHit, Reading, SameContent, file, window, View, InWindow
<1>2. /\ op \in {"READ", "UPDATE"} /\ op' = op /\ status' = "SUCCESS"
      /\ userbuf' = MoveOut(buffer, WholeRec(blockno, rec), req, Unread(req))
      /\ valid /\ Complete(blockno, rec)
  BY DEF ReadHit, Reading, Hit
<1>3. IsLocation(blockno) /\ rec \in Nat
  BY Sizes DEF IInv, TypeOK, Recs
<1>4. Placed(WholeRec(blockno, rec), blockno, rec)
  BY <1>2, <1>3, WholeRecPlaced
<1>5. DOMAIN userbuf' = Asked(req)
  BY <1>2 DEF MoveOut
<1>6. ASSUME NEW j \in Asked(req), Start(rec) + j \in promised
      PROVE  userbuf'[j] = View(Start(rec) + j)
  <2>1. InPiece(WholeRec(blockno, rec), j)
    BY Starts, Sizes DEF InPiece, WholeRec
  <2> DEFINE piece == WholeRec(blockno, rec)
             got == MoveOut(buffer, piece, req, Unread(req))
  <2>2. InPiece(piece, j) /\ Placed(piece, blockno, rec) /\ IsLocation(blockno)
    BY <1>3, <1>4, <2>1
  <2> HIDE DEF piece
  <2>3. /\ got[j] = buffer[(Start(rec) + j) - Base(blockno)]
        /\ InWindowAt(blockno, Start(rec) + j)
    BY <2>2, MovedOut
  <2> HIDE DEF got
  <2>4. userbuf'[j] = buffer[(Start(rec) + j) - Base(blockno)]
    BY <1>2, <2>3 DEF got, piece
  <2> QED
    BY <1>2, <2>3, <2>4, ViewFacts
<1>7. UNCHANGED Content
  BY <1>1, ContentStays
<1> QED
  BY <1>2, <1>5, <1>6, <1>7 DEF Records!Read, Records!Asked, Asked, Content, Start


(* What a flush leaves on disk is what the library saw, but for what of    *)
(* the window a failed one did not reach.                                  *)
LEMMA FlushView ==
  ASSUME IInv, CleanWindowIsOnDisk, NEW buf \in [BufIdx -> Byte], NEW d \in BOOLEAN,
         dirty => d, d => valid, NEW f \in Flush(buf, blockno, d), NEW a \in promised,
         InWindow(a) => buf[a - Base(blockno)] = buffer[a - Base(blockno)],
         f.ok \/ ~InWindow(a)
  PROVE  f.bytes[a] = View(a)
<1>1. /\ ~d => f.bytes = bytes
      /\ d /\ f.ok => f.bytes = Stored(bytes, buf, blockno, BufSize)
      /\ \A b \in Addr : ~InWindowAt(blockno, b) => f.bytes[b] = bytes[b]
  BY FlushFacts DEF IInv, InWindowAt
<1>2. a \in Addr /\ valid \in BOOLEAN
  BY DEF IInv, TypeOK
<1>3. CASE ~d
  <2>1. CASE InWindow(a)
    <3>1. ~dirty /\ valid
      BY <1>3, <2>1 DEF InWindow
    <3>2. buffer[a - Base(blockno)] = bytes[a]
      BY <2>1, <3>1 DEF CleanWindowIsOnDisk
    <3> QED
      BY <1>1, <1>3, <2>1, <3>2, ViewFacts
  <2>2. CASE ~InWindow(a)
    BY <1>1, <1>3, <2>2, ViewFacts
  <2> QED
    BY <2>1, <2>2
<1>4. CASE d /\ InWindow(a)
  <2>1. f.bytes = Stored(bytes, buf, blockno, BufSize)
    BY <1>1, <1>4
  <2>2. InWindowAt(blockno, a)
    BY <1>4, ViewFacts
  <2>3. f.bytes[a] = buf[a - Base(blockno)]
    BY <1>2, <2>1, <2>2 DEF Stored, InWindowAt
  <2> QED
    BY <1>4, <2>3, ViewFacts
<1>5. CASE d /\ ~InWindow(a)
  BY <1>1, <1>2, <1>5, ViewFacts
<1> QED
  BY <1>3, <1>4, <1>5

-----------------------------------------------------------------------------
LEMMA ReadFlushFailsRefines ==
  ASSUME IInv, CleanWindowIsOnDisk, NEW rec \in Recs, NEW req \in Requests,
         ReadFlushFails(rec, req)
  PROVE  Records!ReadFails
<1>1. /\ op \in {"READ", "UPDATE"} /\ op' = op /\ promised' = promised
      /\ status' = "IO_ERROR" /\ userbuf' = NoData
      /\ UNCHANGED <<buffer, blockno, valid>>
  BY DEF ReadFlushFails, Reading, window
<1>2. PICK f \in Flush(buffer, blockno, dirty) : bytes' = f.bytes
  BY DEF ReadFlushFails
<1>3. buffer \in [BufIdx -> Byte] /\ dirty \in BOOLEAN /\ (dirty => valid)
  BY DEF IInv, TypeOK, PromisedBytesExist
<1>4. ASSUME NEW a \in promised
      PROVE  View(a)' = View(a)
  <2>1. CASE InWindow(a)
    BY <1>1, <2>1 DEF View, InWindow
  <2>2. CASE ~InWindow(a)
    <3>1. f.bytes[a] = View(a)
      BY <1>3, <2>2, FlushView
    <3>2. View(a)' = bytes'[a]
      BY <1>1, <2>2 DEF View, InWindow
    <3> QED
      BY <1>2, <3>1, <3>2
  <2> QED
    BY <2>1, <2>2
<1>5. UNCHANGED Content
  BY <1>1, <1>4, ContentStays DEF SameContent
<1> QED
  BY <1>1, <1>5 DEF Records!ReadFails, Content, NoData, Records!NoData

(* A read that moves the window.                                           *)
LEMMA MissView ==
  ASSUME IInv, CleanWindowIsOnDisk, NEW rec \in Recs, NEW req \in Requests,
         ReadMiss(rec, req)
  PROVE  /\ InRange(Location(rec))
         /\ size' \in Nat
         /\ \A a \in promised : bytes'[a] = View(a) /\ a \in Nat /\ a < size'
<1>1. PICK f \in Flush(buffer, blockno, dirty) :
        f.ok /\ bytes' = f.bytes /\ size' = f.size
  BY DEF ReadMiss
<1>2. buffer \in [BufIdx -> Byte] /\ dirty \in BOOLEAN /\ (dirty => valid)
      /\ promised \subseteq Addr
  BY DEF IInv, TypeOK, PromisedBytesExist
<1>3. /\ f.size \in 0 .. MaxAddr
      /\ \A a \in promised : a < f.size
  BY <1>1, <1>2, FlushedWindow
<1>4. InRange(Location(rec))
  BY MissFacts DEF ReadMiss, IInv
<1>5. \A a \in promised : f.bytes[a] = View(a)
  BY <1>1, <1>2, FlushView
<1> QED
  BY <1>1, <1>2, <1>3, <1>4, <1>5, Sizes DEF Addr

LEMMA FoundContent ==
  ASSUME IInv, CleanWindowIsOnDisk, NEW rec \in Recs, NEW req \in Requests,
         ReadMissFound(rec, req)
  PROVE  /\ SameContent
         /\ \A a \in promised : InWindowAt(Location(rec), a) =>
              buffer'[a - Base(Location(rec))] = View(a)
<1> DEFINE loc == Location(rec)
<1>1. /\ ReadMiss(rec, req) /\ promised' = promised
      /\ valid' = TRUE /\ blockno' = loc
      /\ buffer' = Fill(buffer, bytes', size', loc)
  BY DEF ReadMissFound, ReadMiss, Reading
<1>2. /\ InRange(loc) /\ size' \in Nat
      /\ \A a \in promised : bytes'[a] = View(a) /\ a \in Nat /\ a < size'
  BY <1>1, MissView
<1> HIDE DEF loc
<1>3. Base(loc) \in Nat
  BY <1>2, BaseInNat DEF InRange, IsLocation
<1>4. ASSUME NEW a \in promised, InWindowAt(loc, a)
      PROVE  buffer'[a - Base(loc)] = View(a)
  <2> DEFINE k == a - Base(loc)
  <2>1. k \in BufIdx
    BY <1>2, <1>3, <1>4, Sizes DEF BufIdx, InWindowAt
  <2>2. Base(loc) + k = a /\ a < size'
    BY <1>2, <1>3
  <2> HIDE DEF k
  <2>3. buffer'[k] = bytes'[a]
    BY <1>1, <2>1, <2>2 DEF Fill
  <2> QED
    BY <1>2, <2>3 DEF k
<1>5. ASSUME NEW a \in promised
      PROVE  View(a)' = View(a)
  <2>1. InWindow(a)' <=> InWindowAt(loc, a)
    BY <1>1 DEF InWindow, InWindowAt
  <2>2. CASE InWindowAt(loc, a)
    BY <1>1, <1>4, <2>1, <2>2 DEF View
  <2>3. CASE ~InWindowAt(loc, a)
    BY <1>2, <2>1, <2>3 DEF View
  <2> QED
    BY <2>2, <2>3
<1> QED
  BY <1>1, <1>4, <1>5 DEF SameContent, loc

LEMMA ReadMissFoundRefines ==
  ASSUME IInv, CleanWindowIsOnDisk, NEW rec \in Recs, NEW req \in Requests,
         ReadMissFound(rec, req)
  PROVE  Records!Read(rec, req)
<1> DEFINE loc == Location(rec)
           here == PartHere(rec)
           there == PartThere(rec, loc)
           parts == HasFirstPart(rec) \/ HasLastPart(rec)
           first == MoveOut(buffer, here, req, Unread(req))
<1>1. /\ op \in {"READ", "UPDATE"} /\ op' = op /\ status' = "SUCCESS"
      /\ userbuf' = MoveOut(buffer', there, req, first)
      /\ ~Hit(rec)
  BY DEF ReadMissFound, ReadMiss, Reading
<1>2. /\ InRange(loc)
      /\ parts => valid /\ Placed(here, blockno, rec)
      /\ Placed(there, loc, rec)
      /\ \A j \in 0 .. (RecSize - 1) : InPiece(there, j) \/ (parts /\ InPiece(here, j))
  BY <1>1, MissFacts DEF IInv
<1>3. /\ SameContent
      /\ \A a \in promised : InWindowAt(loc, a) => buffer'[a - Base(loc)] = View(a)
  BY FoundContent
<1>4. IsLocation(blockno)
  BY DEF IInv, TypeOK
<1> HIDE DEF loc, here, there, parts
<1>5. DOMAIN userbuf' = Asked(req)
  BY <1>1 DEF MoveOut
<1>6. ASSUME NEW j \in Asked(req), Start(rec) + j \in promised
      PROVE  userbuf'[j] = View(Start(rec) + j)
  <2>1. j \in 0 .. (RecSize - 1)
    BY Starts
  <2>2. CASE InPiece(there, j)
    <3>1. /\ userbuf'[j] = buffer'[(Start(rec) + j) - Base(loc)]
          /\ InWindowAt(loc, Start(rec) + j)
      BY <1>1, <1>2, <2>2, MovedOut DEF InRange
    <3> QED
      BY <1>3, <1>6, <3>1
  <2>3. CASE ~InPiece(there, j)
    <3>1. parts /\ InPiece(here, j)
      BY <1>2, <2>1, <2>3
    <3>2. /\ first[j] = buffer[(Start(rec) + j) - Base(blockno)]
          /\ InWindowAt(blockno, Start(rec) + j)
      BY <1>2, <1>4, <3>1, MovedOut
    <3> HIDE DEF first
    <3>3. userbuf'[j] = first[j]
      BY <1>1, <2>3 DEF MoveOut
    <3> QED
      BY <1>2, <3>1, <3>2, <3>3, ViewFacts
  <2> QED
    BY <2>2, <2>3
<1>7. UNCHANGED Content
  BY <1>3, ContentStays
<1> QED
  BY <1>1, <1>5, <1>6, <1>7 DEF Records!Read, Records!Asked, Asked, Content, Start

(* END_OF_FILE is never reported for a record of which a byte is promised. *)
LEMMA NothingPromisedPastEnd ==
  ASSUME RInv, NEW rec \in Recs, NEW req \in Requests, ReadMissEndOfFile(rec, req)
  PROVE  Span(rec, req) \cap promised = {}
<1> DEFINE loc == Location(rec)
           here == PartHere(rec)
           there == PartThere(rec, loc)
           parts == HasFirstPart(rec) \/ HasLastPart(rec)
<1>1. IInv /\ PromisedRecordsExist /\ ~Hit(rec) /\ Base(loc) >= size'
  BY DEF RInv, ReadMissEndOfFile, ReadMiss
<1>2. PICK f \in Flush(buffer, blockno, dirty) : f.ok /\ size' = f.size
  BY DEF ReadMissEndOfFile, ReadMiss
<1>3. buffer \in [BufIdx -> Byte] /\ dirty \in BOOLEAN /\ blockno \in Nat /\ IsLocation(blockno)
  BY <1>1 DEF IInv, TypeOK, IsLocation
<1>4. /\ InRange(loc)
      /\ parts => valid /\ Placed(here, blockno, rec)
      /\ Placed(there, loc, rec)
      /\ \A j \in 0 .. (RecSize - 1) : InPiece(there, j) \/ (parts /\ InPiece(here, j))
  BY <1>1, MissFacts DEF IInv
<1>5. parts => ~Aligned
  BY DEF HasFirstPart, HasLastPart, Partial
<1>6. size' \in Nat
  <2>1. f.size \in 0 .. MaxAddr
    BY <1>1, <1>2, <1>3, FlushFacts DEF IInv
  <2> QED
    BY <1>2, <2>1, Sizes
<1> HIDE DEF loc, here, there, parts
<1> SUFFICES ASSUME NEW a \in promised, a \in Span(rec, req)
             PROVE  FALSE
  OBVIOUS
<1>7. \A b \in RecordBytes(rec) : Exists(b) /\ b \in Nat
  BY <1>1, SpanInRecord, BytesOfRecord DEF PromisedRecordsExist, Exists
<1>8. \A b \in RecordBytes(rec) : b < size'
  BY <1>1, <1>2, <1>3, <1>7, FlushedExists
<1>9. /\ Base(loc) \in Nat /\ Base(blockno) \in Nat /\ BufSize \in Nat
      /\ Start(rec) \in Nat /\ RecSize \in Nat \ {0} /\ rec \in Nat
  BY <1>3, <1>4, BaseInNat, Sizes, Starts DEF InRange, IsLocation, Recs
<1>10. ASSUME NEW j \in 0 .. (RecSize - 1)
       PROVE  parts /\ InWindowAt(blockno, Start(rec) + j)
  <2>1. Start(rec) + j \in RecordBytes(rec)
    BY DEF RecordBytes, Start
  <2>2. Start(rec) + j < Base(loc)
    <3>1. Start(rec) + j < size'
      BY <1>8, <2>1
    <3> QED
      BY <1>1, <1>6, <1>9, <3>1
  <2>3. ~InWindowAt(loc, Start(rec) + j)
    BY <1>9, <2>2 DEF InWindowAt
  <2>4. j \in Nat
    BY <1>9
  <2>5. ~InPiece(there, j)
    BY <1>4, <2>3, <2>4, InThePiece DEF InRange
  <2>6. parts /\ InPiece(here, j)
    BY <1>4, <2>5
  <2> QED
    BY <1>3, <1>4, <2>4, <2>6, InThePiece
<1>11. 0 \in 0 .. (RecSize - 1) /\ RecSize - 1 \in 0 .. (RecSize - 1)
  BY <1>9
<1>12. parts /\ InWindowAt(blockno, Start(rec) + 0)
             /\ InWindowAt(blockno, Start(rec) + (RecSize - 1))
  BY <1>10, <1>11
<1>13. Base(blockno) <= Start(rec) /\ Start(rec) + RecSize <= Base(blockno) + BufSize
  BY <1>9, <1>12 DEF InWindowAt
<1>14. Complete(blockno, rec)
  BY <1>3, <1>5, <1>9, <1>12, <1>13, InsideIsComplete DEF Start
<1> QED
  BY <1>1, <1>4, <1>12, <1>14 DEF Hit

LEMMA ReadMissEndOfFileRefines ==
  ASSUME RInv, CleanWindowIsOnDisk, NEW rec \in Recs, NEW req \in Requests,
         ReadMissEndOfFile(rec, req)
  PROVE  Records!ReadPastEnd(rec, req)
<1> DEFINE loc == Location(rec)
<1>1. /\ op \in {"READ", "UPDATE"} /\ op' = op /\ promised' = promised
      /\ status' = "END_OF_FILE" /\ userbuf' = NoData
      /\ valid' = TRUE /\ blockno' = loc /\ Base(loc) >= size'
      /\ ReadMiss(rec, req) /\ IInv
  BY DEF ReadMissEndOfFile, ReadMiss, Reading, RInv
<1>2. /\ InRange(loc) /\ size' \in Nat
      /\ \A a \in promised : bytes'[a] = View(a) /\ a \in Nat /\ a < size'
  BY <1>1, MissView
<1> HIDE DEF loc
<1>3. Base(loc) \in Nat
  BY <1>2, BaseInNat DEF InRange, IsLocation
<1>4. ASSUME NEW a \in promised
      PROVE  View(a)' = View(a)
  <2>1. a < Base(loc)
    BY <1>1, <1>2, <1>3
  <2>2. ~InWindow(a)'
    BY <1>1, <1>2, <1>3, <2>1 DEF InWindow
  <2> QED
    BY <1>2, <2>2 DEF View
<1>5. UNCHANGED Content
  BY <1>1, <1>4, ContentStays DEF SameContent
<1>6. Span(rec, req) \cap promised = {}
  BY NothingPromisedPastEnd
<1> QED
  BY <1>1, <1>5, <1>6 DEF Records!ReadPastEnd, Content, NoData, Records!NoData,
     Records!Span, Records!Asked, Span, Asked

-----------------------------------------------------------------------------
(* The byte at an address once the window is at loc.                       *)
Moved(buf, loc, disk, a) == IF InWindowAt(loc, a) THEN buf[a - Base(loc)] ELSE disk[a]

(* What a write aims at is in the buffer or on disk, and nothing else      *)
(* there has changed.                                                      *)
LEMMA FinishRefines ==
  ASSUME IInv, NEW rec \in Recs, NEW req \in Requests, NEW image \in Images,
         NEW buf, NEW loc, InRange(loc), NEW disk, NEW length,
         \A a \in promised \ Span(rec, req) : Moved(buf, loc, disk, a) = View(a),
         \A j \in Asked(req) : Moved(buf, loc, disk, Start(rec) + j) = image[j],
         Writing(rec), Finish(rec, req, buf, loc, disk, length)
  PROVE  Records!Write(rec, req, image) \/ Records!WriteFails(rec, req)
<1> DEFINE full == rec = LastRec(loc)
           S == Span(rec, req)
           there(a) == Moved(buf, loc, disk, a)
<1>1. op \in {"WRITE", "UPDATE"} /\ op' = op /\ userbuf' = NoData
  BY DEF Writing
<1>2. PICK n \in IF full THEN ShortWrites \cup {BufSize} ELSE {BufSize} :
        /\ buffer' = buf /\ blockno' = loc /\ valid' = TRUE
        /\ bytes' = IF full THEN Stored(disk, buf, loc, n) ELSE disk
        /\ status' = IF full /\ n # BufSize THEN "IO_ERROR" ELSE "SUCCESS"
        /\ promised' = IF full /\ n # BufSize THEN promised \ S ELSE promised \cup S
  BY DEF Finish
<1>3. n \in 0 .. BufSize
  BY CallsAreInRange, Sizes
<1>4. promised \subseteq Addr /\ S \subseteq Addr /\ Base(loc) \in Nat
  BY Starts, BaseInNat DEF IInv, TypeOK, InRange, IsLocation
<1>5. ASSUME NEW a \in Addr
      PROVE  View(a)' = there(a)
  <2>1. InWindow(a)' <=> InWindowAt(loc, a)
    BY <1>2 DEF InWindow, InWindowAt
  <2>2. CASE InWindowAt(loc, a)
    BY <1>2, <2>1, <2>2 DEF View, Moved
  <2>3. CASE ~InWindowAt(loc, a)
    <3>1. ~(Base(loc) <= a /\ a < Base(loc) + n)
      BY <1>3, <1>4, <2>3, Sizes DEF InWindowAt, Addr
    <3>2. Stored(disk, buf, loc, n)[a] = disk[a]
      BY <3>1 DEF Stored
    <3>3. bytes'[a] = disk[a]
      BY <1>2, <3>2
    <3> QED
      BY <2>1, <2>3, <3>3 DEF View, Moved
  <2> QED
    BY <2>2, <2>3
<1>6. \A a \in promised \ S : View(a)' = View(a)
  BY <1>4, <1>5
<1>7. ASSUME NEW a \in S
      PROVE  View(a)' = image[a - Start(rec)]
  <2>1. PICK j \in Asked(req) : a = Start(rec) + j
    BY Starts
  <2>2. j \in Nat /\ Start(rec) \in Nat /\ a - Start(rec) = j
    BY <2>1, Starts, Sizes
  <2>3. there(a) = image[j]
    BY <2>1
  <2> HIDE DEF there
  <2> QED
    BY <1>4, <1>5, <2>2, <2>3
<1>8. Records!Span(rec, req) = S
  BY DEF Records!Span, Records!Asked, Span, Asked
<1> HIDE DEF there, S
<1>9. CASE full /\ n # BufSize
  <2>1. Content' = [a \in promised \ S |-> View(a)']
    BY <1>2, <1>9 DEF Content
  <2>2. DOMAIN Content = promised
    BY DEF Content
  <2>3. Content' = [a \in (DOMAIN Content) \cap ((DOMAIN Content) \ S) |-> Content[a]]
    BY <1>6, <2>1, <2>2 DEF Content
  <2>4. Content' = Records!Keep(Content, (DOMAIN Content) \ S)
    BY <2>3 DEF Records!Keep
  <2> QED
    BY <1>1, <1>2, <1>8, <1>9, <2>4 DEF Records!WriteFails, Content, NoData, Records!NoData
<1>10. CASE ~(full /\ n # BufSize)
  <2>1. Content' = [a \in promised \cup S |-> View(a)']
    BY <1>2, <1>10 DEF Content
  <2>2. DOMAIN Content = promised
    BY DEF Content
  <2>3. Content' = [a \in DOMAIN Content \cup S |->
                      IF a \in S THEN image[a - Start(rec)] ELSE Content[a]]
    BY <1>6, <1>7, <2>1, <2>2 DEF Content
  <2> QED
    BY <1>1, <1>2, <1>8, <1>10, <2>3 DEF Records!Write, Content, NoData, Records!NoData, Start
<1> QED
  BY <1>9, <1>10

LEMMA WriteHitRefines ==
  ASSUME IInv, NEW rec \in Recs, NEW req \in Requests, NEW image \in Images,
         WriteHit(rec, req, image)
  PROVE  Records!Write(rec, req, image) \/ Records!WriteFails(rec, req)
<1> DEFINE piece == WholeRec(blockno, rec)
           buf == MoveIn(buffer, piece, req, image)
<1>1. Writing(rec) /\ Hit(rec) /\ Finish(rec, req, buf, blockno, bytes, size)
  BY DEF WriteHit
<1>2. IsLocation(blockno) /\ InRange(blockno) /\ promised \subseteq Addr
  BY DEF IInv, TypeOK, InRange
<1>3. Placed(piece, blockno, rec) /\ valid
  BY <1>1, <1>2, WholeRecPlaced, Sizes DEF Hit, Recs
<1>4. ASSUME NEW a \in promised \ Span(rec, req)
      PROVE  Moved(buf, blockno, bytes, a) = View(a)
  <2>1. a \in Nat
    BY <1>2, Sizes DEF Addr
  <2>2. CASE InWindowAt(blockno, a)
    <3>1. buf[a - Base(blockno)] = buffer[a - Base(blockno)]
      BY <1>2, <1>3, <1>4, <2>1, <2>2, NotMovedIn
    <3> QED
      BY <1>3, <2>2, <3>1, ViewFacts DEF Moved
  <2>3. CASE ~InWindowAt(blockno, a)
    BY <2>3, ViewFacts DEF Moved
  <2> QED
    BY <2>2, <2>3
<1>5. ASSUME NEW j \in Asked(req)
      PROVE  Moved(buf, blockno, bytes, Start(rec) + j) = image[j]
  <2>1. InPiece(piece, j)
    BY Starts, Sizes DEF InPiece, WholeRec
  <2>2. /\ InWindowAt(blockno, Start(rec) + j)
        /\ buf[(Start(rec) + j) - Base(blockno)] = image[j]
    BY <1>2, <1>3, <2>1, MovedIn
  <2> QED
    BY <2>2 DEF Moved
<1> HIDE DEF buf
<1> QED
  BY <1>1, <1>2, <1>4, <1>5, FinishRefines

(* The part of a record that the old window gets before it is left.        *)
LEMMA LeavingKeeps ==
  ASSUME IInv, NEW rec \in Recs, NEW req \in Requests, NEW image \in Images, ~Hit(rec),
         NEW a \in promised \ Span(rec, req), InWindow(a)
  PROVE  Leaving(rec, req, image)[a - Base(blockno)] = buffer[a - Base(blockno)]
<1> DEFINE here == PartHere(rec)
           parts == HasFirstPart(rec) \/ HasLastPart(rec)
<1>1. /\ parts => Placed(here, blockno, rec)
      /\ ~parts => here = NoPiece
  BY MissFacts DEF IInv
<1>2. IsLocation(blockno) /\ a \in Nat /\ InWindowAt(blockno, a) /\ Base(blockno) \in Nat
  BY ViewFacts, BaseInNat, Sizes DEF IInv, TypeOK, Addr, IsLocation
<1>3. Leaving(rec, req, image) = MoveIn(buffer, here, req, image)
  BY DEF Leaving
<1> HIDE DEF here, parts
<1>4. CASE parts
  BY <1>1, <1>2, <1>3, <1>4, NotMovedIn
<1>5. CASE ~parts
  <2>1. \A j \in Int : ~InPiece(here, j)
    BY <1>1, <1>5 DEF InPiece, NoPiece
  <2> DEFINE k == a - Base(blockno)
  <2>2. k \in BufIdx
    BY <1>2, Sizes DEF BufIdx, InWindowAt
  <2>3. k - here.at + here.from \in Int
    BY <1>1, <1>2, <1>5 DEF NoPiece
  <2> HIDE DEF k
  <2>4. MoveIn(buffer, here, req, image)[k] = buffer[k]
    BY <2>1, <2>2, <2>3 DEF MoveIn
  <2> QED
    BY <1>3, <2>4 DEF k
<1> QED
  BY <1>4, <1>5

LEMMA WriteFlushFailsRefines ==
  ASSUME IInv, CleanWindowIsOnDisk, NEW rec \in Recs, NEW req \in Requests,
         NEW image \in Images, WriteFlushFails(rec, req, image)
  PROVE  Records!WriteFails(rec, req)
<1> DEFINE old == Leaving(rec, req, image)
           d == LeavingDirty(rec)
           S == Span(rec, req)
<1>1. /\ op \in {"WRITE", "UPDATE"} /\ op' = op /\ status' = "IO_ERROR"
      /\ userbuf' = NoData /\ promised' = promised \ S /\ ~Hit(rec)
      /\ buffer' = old /\ UNCHANGED <<blockno, valid>>
  BY DEF WriteFlushFails, Writing
<1>2. PICK f \in Flush(old, blockno, d) : bytes' = f.bytes
  BY DEF WriteFlushFails
<1>3. /\ old \in [BufIdx -> Byte] /\ d \in BOOLEAN /\ (dirty => d) /\ (d => valid)
  BY LeavingFacts
<1>4. \A a \in promised \ S : InWindow(a) =>
        old[a - Base(blockno)] = buffer[a - Base(blockno)]
  BY <1>1, LeavingKeeps
<1>5. Records!Span(rec, req) = S
  BY DEF Records!Span, Records!Asked, Span, Asked
<1> HIDE DEF old, d, S
<1>6. ASSUME NEW a \in promised \ S
      PROVE  View(a)' = View(a)
  <2>1. InWindow(a)' <=> InWindow(a)
    BY <1>1 DEF InWindow
  <2>2. CASE InWindow(a)
    BY <1>1, <1>4, <2>1, <2>2 DEF View
  <2>3. CASE ~InWindow(a)
    <3>1. f.bytes[a] = View(a)
      BY <1>3, <2>3, FlushView
    <3> QED
      BY <1>2, <2>1, <2>3, <3>1 DEF View
  <2> QED
    BY <2>2, <2>3
<1>7. Content' = [a \in promised \ S |-> View(a)']
  BY <1>1 DEF Content
<1>8. DOMAIN Content = promised
  BY DEF Content
<1>9. Content' = [a \in (DOMAIN Content) \cap ((DOMAIN Content) \ S) |-> Content[a]]
  BY <1>6, <1>7, <1>8 DEF Content
<1>10. Content' = Records!Keep(Content, (DOMAIN Content) \ S)
  BY <1>9 DEF Records!Keep
<1> QED
  BY <1>1, <1>5, <1>10 DEF Records!WriteFails, Content, NoData, Records!NoData

(* A byte of the record that only the old window has a place for does not  *)
(* lie in the new one.                                                     *)
LEMMA HereIsNotThere ==
  ASSUME IInv, NEW rec \in Recs, ~Hit(rec), HasFirstPart(rec) \/ HasLastPart(rec),
         NEW j \in 0 .. (RecSize - 1), InPiece(PartHere(rec), j),
         ~InPiece(PartThere(rec, Location(rec)), j)
  PROVE  ~InWindowAt(Location(rec), Start(rec) + j)
<1> DEFINE loc == Location(rec)
           here == PartHere(rec)
           there == PartThere(rec, loc)
<1>1. /\ InRange(loc) /\ Placed(here, blockno, rec) /\ Placed(there, loc, rec)
  BY MissFacts DEF IInv
<1>2. /\ ~Aligned /\ IsLocation(blockno) /\ blockno \in Nat /\ j \in Nat
      /\ ~(HasFirstPart(rec) /\ HasLastPart(rec))
  BY Sizes DEF HasFirstPart, HasLastPart, Partial, IInv, TypeOK, IsLocation
<1>3. /\ Base(loc) \in Nat /\ Base(blockno) \in Nat /\ BufSize \in Nat
      /\ Start(rec) \in Nat /\ RecSize \in Nat \ {0}
      /\ NBlocks \in Nat /\ BlockSize \in Nat
  BY <1>1, <1>2, BaseInNat, Sizes, MulInNat, BufferExceedsRecord, SizesArePositive
     DEF InRange, IsLocation, Start, Recs
<1>4. CASE HasFirstPart(rec)
  <2>1. loc = blockno + NBlocks
    BY <1>2, <1>4 DEF Location, NextLocation
  <2>2. Base(loc) = Base(blockno) + BufSize
    <3>1. (blockno + NBlocks) * BlockSize = blockno * BlockSize + NBlocks * BlockSize
      BY <1>2, <1>3
    <3> QED
      BY <2>1, <3>1 DEF Base, BufSize
  <2>3. InWindowAt(blockno, Start(rec) + j)
    BY <1>1, <1>2, InThePiece
  <2> QED
    BY <1>2, <1>3, <2>2, <2>3 DEF InWindowAt
<1>5. CASE HasLastPart(rec)
  <2>1. there = IF Complete(loc, rec) THEN WholeRec(loc, rec) ELSE FirstPartOfLast(loc)
    BY <1>2, <1>5 DEF PartThere, NewPiece
  <2>2. ~Complete(loc, rec)
    BY <1>3, <2>1 DEF InPiece, WholeRec
  <2>3. loc \in Nat
    BY <1>1 DEF InRange, IsLocation
  <2>4. /\ there.from = 0 /\ there.at \in Nat /\ there.len \in Nat
        /\ there.at + there.len = BufSize
        /\ Base(loc) + there.at = Start(rec) + there.from
    BY <1>1, <1>2, <2>1, <2>2, <2>3, FirstPartPlaced DEF FirstPartOfLast, Placed, Start
  <2>5. j >= there.len
    BY <1>2, <2>4 DEF InPiece
  <2> QED
    BY <1>2, <1>3, <2>4, <2>5 DEF InWindowAt
<1> QED
  BY <1>4, <1>5

(* Only a caller whose pixels are longer than the file's can have part of a*)
(* record taken for all of it.                                             *)
LEMMA WholeIsWhole ==
  ASSUME UserPixel <= FilePixel, NEW req \in Requests, TakenForWhole(req)
  PROVE  req[1] = 0 /\ req[2] = RecSize
<1>1. /\ req[1] \in Nat /\ req[2] \in Nat /\ req[1] + req[2] <= RecSize
      /\ UserPixel \in Nat \ {0} /\ FilePixel \in Nat
      /\ RecSize \in Nat
  BY CallsAreInRange, Sizes
<1>2. req[1] = 0 /\ req[2] * UserPixel = RecSize * FilePixel
  BY DEF TakenForWhole
<1>3. UserPixel * RecSize <= FilePixel * RecSize
  BY <1>1, MulMono
<1>4. RecSize * UserPixel <= req[2] * UserPixel
  BY <1>1, <1>2, <1>3
<1>5. ~(req[2] < RecSize)
  <2> SUFFICES ASSUME req[2] + 1 <= RecSize
               PROVE  FALSE
    BY <1>1
  <2>1. (req[2] + 1) * UserPixel <= RecSize * UserPixel
    BY <1>1, MulMono
  <2>2. (req[2] + 1) * UserPixel = req[2] * UserPixel + UserPixel
    BY <1>1
  <2>3. req[2] * UserPixel \in Nat /\ RecSize * UserPixel \in Nat
    BY <1>1, MulInNat
  <2> QED
    BY <1>1, <1>4, <2>1, <2>2, <2>3
<1> QED
  BY <1>1, <1>2, <1>5

LEMMA WriteMissRefines ==
  ASSUME UserPixel <= FilePixel,
         IInv, CleanWindowIsOnDisk, NEW rec \in Recs, NEW req \in Requests,
         NEW image \in Images, WriteMiss(rec, req, image)
  PROVE  Records!Write(rec, req, image) \/ Records!WriteFails(rec, req)
<1> DEFINE loc == Location(rec)
           old == Leaving(rec, req, image)
           d == LeavingDirty(rec)
           here == PartHere(rec)
           there == PartThere(rec, loc)
           parts == HasFirstPart(rec) \/ HasLastPart(rec)
           need == NeedsPreread(rec, req, loc)
           new(f) == IF need THEN Fill(old, f.bytes, f.size, loc) ELSE old
           buf(f) == MoveIn(new(f), there, req, image)
<1>1. Writing(rec) /\ ~Hit(rec)
  BY DEF WriteMiss
<1>2. PICK f \in Flush(old, blockno, d) :
        f.ok /\ Finish(rec, req, buf(f), loc, f.bytes, f.size)
  BY DEF WriteMiss
<1>3. /\ InRange(loc) /\ f.size \in 0 .. MaxAddr
      /\ \A a \in promised : a < f.size
  BY <1>1, <1>2, MovedRecord
<1>4. /\ parts => Placed(here, blockno, rec)
      /\ Placed(there, loc, rec)
      /\ \A j \in 0 .. (RecSize - 1) : InPiece(there, j) \/ (parts /\ InPiece(here, j))
  BY <1>1, MissFacts DEF IInv
<1>5. /\ old \in [BufIdx -> Byte] /\ d \in BOOLEAN /\ (dirty => d) /\ (d => valid)
      /\ parts => d
  BY LeavingFacts DEF LeavingDirty
<1>6. /\ IsLocation(loc) /\ loc \in Nat /\ Base(loc) \in Nat
      /\ IsLocation(blockno) /\ Base(blockno) \in Nat
      /\ BufSize \in Nat \ {0} /\ Start(rec) \in Nat /\ f.size \in Nat
      /\ promised \subseteq Addr /\ \A a \in Addr : a \in Nat
  <2>1. IsLocation(loc) /\ IsLocation(blockno) /\ promised \subseteq Addr
    BY <1>3 DEF InRange, IInv, TypeOK
  <2>2. f.size \in Nat /\ \A a \in Addr : a \in Nat
    BY <1>3, Sizes DEF Addr
  <2> HIDE DEF loc
  <2>3. loc \in Nat /\ blockno \in Nat
    BY <2>1 DEF IsLocation
  <2> QED
    BY <2>1, <2>2, <2>3, BaseInNat, Sizes, Starts
<1>7. d => /\ f.bytes = Stored(bytes, old, blockno, BufSize)
           /\ Base(blockno) + BufSize <= f.size
  BY <1>2, <1>5, FlushFacts DEF IInv
<1>8. ASSUME NEW a \in promised \ Span(rec, req)
      PROVE  f.bytes[a] = View(a)
  <2>1. InWindow(a) => old[a - Base(blockno)] = buffer[a - Base(blockno)]
    BY <1>1, <1>8, LeavingKeeps
  <2> HIDE DEF old, d
  <2> QED
    BY <1>2, <1>5, <2>1, FlushView
<1>9. ASSUME need, NEW a \in Nat, a < f.size, InWindowAt(loc, a)
      PROVE  new(f)[a - Base(loc)] = f.bytes[a]
  <2> DEFINE k == a - Base(loc)
  <2>1. k \in BufIdx /\ Base(loc) + k = a
    BY <1>6, <1>9 DEF BufIdx, InWindowAt
  <2> HIDE DEF k, old
  <2>2. new(f)[k] = f.bytes[a]
    BY <1>9, <2>1 DEF Fill
  <2> QED
    BY <2>2 DEF k
<1>10. ASSUME ~need, NEW a \in promised \ Span(rec, req)
       PROVE  ~InWindowAt(loc, a)
  <2>1. /\ req[1] = 0 /\ req[2] = RecSize /\ rec = FirstRec(loc)
        /\ ~(rec < Larger(eof_record, rec + 1) - 1)
    BY <1>10, WholeIsWhole DEF NeedsPreread
  <2>2. rec \in Nat /\ eof_record \in Nat /\ RecSize \in Nat \ {0}
    BY Sizes DEF Recs, IInv, TypeOK
  <2>3. eof_record <= rec + 1
    BY <2>1, <2>2 DEF Larger
  <2>4. a < eof_record * RecSize
    BY <1>1 DEF IInv, EofCoversWrites, Writing
  <2>5. eof_record * RecSize <= (rec + 1) * RecSize
    BY <2>2, <2>3, MulMono
  <2>6. (rec + 1) * RecSize = Start(rec) + RecSize
    BY <2>2 DEF Start
  <2>7. a \in Nat /\ a < Start(rec) + RecSize
    <3>1. eof_record * RecSize \in Nat
      BY <2>2, MulInNat
    <3> QED
      BY <1>6, <2>2, <2>4, <2>5, <2>6, <3>1
  <2>8. Asked(req) = 0 .. (RecSize - 1)
    BY <2>1, <2>2 DEF Asked
  <2>9. a < Start(rec)
    <3> SUFFICES ASSUME a >= Start(rec)
                 PROVE  FALSE
      BY <1>6, <2>7
    <3> DEFINE j == a - Start(rec)
    <3>1. j \in Asked(req) /\ a = Start(rec) + j
      BY <1>6, <2>2, <2>7, <2>8
    <3> HIDE DEF j
    <3> QED
      BY <3>1, Starts
  <2>10. Start(rec) <= Base(loc)
    <3>1. CASE Aligned
      BY <1>6, <2>1, <3>1, AlignedBase DEF Start
    <3>2. CASE ~Aligned
      <4>1. rec = Base(loc) \div RecSize
        BY <2>1, <3>2 DEF FirstRec
      <4> QED
        BY <1>6, <2>2, <4>1, DivBound DEF Start
    <3> QED
      BY <3>1, <3>2
  <2> QED
    BY <1>6, <2>7, <2>9, <2>10 DEF InWindowAt
<1> HIDE DEF loc, here, there, parts, need, old, d, new
<1>11. ASSUME NEW a \in promised \ Span(rec, req)
       PROVE  Moved(buf(f), loc, f.bytes, a) = View(a)
  <2>1. a \in Nat /\ a < f.size
    BY <1>3, <1>6
  <2>2. CASE InWindowAt(loc, a)
    <3>1. buf(f)[a - Base(loc)] = new(f)[a - Base(loc)]
      BY <1>4, <1>6, <1>11, <2>1, <2>2, NotMovedIn
    <3>2. new(f)[a - Base(loc)] = f.bytes[a]
      BY <1>9, <1>10, <1>11, <2>1, <2>2
    <3> QED
      BY <1>8, <2>2, <3>1, <3>2 DEF Moved
  <2>3. CASE ~InWindowAt(loc, a)
    BY <1>8, <2>3 DEF Moved
  <2> QED
    BY <2>2, <2>3
<1>12. ASSUME NEW j \in Asked(req)
       PROVE  Moved(buf(f), loc, f.bytes, Start(rec) + j) = image[j]
  <2>1. j \in 0 .. (RecSize - 1) /\ j \in Nat
    BY Starts, Sizes
  <2>2. CASE InPiece(there, j)
    <3>1. /\ buf(f)[(Start(rec) + j) - Base(loc)] = image[j]
          /\ InWindowAt(loc, Start(rec) + j)
      BY <1>4, <1>6, <2>2, MovedIn
    <3> QED
      BY <3>1 DEF Moved
  <2>3. CASE ~InPiece(there, j)
    <3>1. parts /\ InPiece(here, j) /\ d
      BY <1>4, <1>5, <2>1, <2>3
    <3>2. old = MoveIn(buffer, here, req, image)
      BY DEF old, here, Leaving
    <3>3. /\ old[(Start(rec) + j) - Base(blockno)] = image[j]
          /\ InWindowAt(blockno, Start(rec) + j)
      BY <1>4, <1>6, <3>1, <3>2, MovedIn
    <3>4. ~InWindowAt(loc, Start(rec) + j)
      BY <1>1, <2>1, <2>3, <3>1, HereIsNotThere DEF loc, here, there, parts
    <3>5. Start(rec) + j \in Addr
      BY Starts
    <3>6. f.bytes[Start(rec) + j] = image[j]
      BY <1>7, <3>1, <3>3, <3>5 DEF Stored, InWindowAt
    <3> QED
      BY <3>4, <3>6 DEF Moved
  <2> QED
    BY <2>2, <2>3
<1> DEFINE moved == buf(f)
           disk == f.bytes
           length == f.size
<1>13. /\ \A a \in promised \ Span(rec, req) : Moved(moved, loc, disk, a) = View(a)
       /\ \A j \in Asked(req) : Moved(moved, loc, disk, Start(rec) + j) = image[j]
  BY <1>11, <1>12
<1>14. Finish(rec, req, moved, loc, disk, length)
  BY <1>2
<1> HIDE DEF moved, disk, length
<1> QED
  BY <1>1, <1>3, <1>13, <1>14, FinishRefines

-----------------------------------------------------------------------------
LEMMA CloseRefines ==
  ASSUME IInv, IInv', CleanWindowIsOnDisk, Close
  PROVE  Records!Close
<1>1. /\ op # "CLOSED" /\ op' = "CLOSED" /\ status' = "SUCCESS" /\ userbuf' = NoData
      /\ valid' = FALSE /\ dirty' = FALSE
      /\ promised' = IF op = "READ" \/ (NoLabels /\ op = "WRITE") THEN promised
                     ELSE promised \cap 0 .. (NominalSize - 1)
  BY DEF Close
<1>2. PICK f \in Flush(buffer, blockno, dirty) : f.ok /\ bytes' = Truncated(f.bytes, size')
  BY DEF Close
<1>3. /\ buffer \in [BufIdx -> Byte] /\ dirty \in BOOLEAN /\ (dirty => valid)
      /\ promised' \subseteq promised /\ promised \subseteq Addr
  BY <1>1 DEF IInv, TypeOK, PromisedBytesExist
<1>4. ASSUME NEW a \in promised'
      PROVE  View(a)' = View(a)
  <2>1. a < size'
    BY <1>1, <1>4 DEF IInv, PromisedBytesExist
  <2>2. bytes'[a] = f.bytes[a]
    BY <1>2, <1>3, <2>1 DEF Truncated
  <2>3. f.bytes[a] = View(a)
    BY <1>2, <1>3, FlushView
  <2> QED
    BY <1>1, <2>2, <2>3 DEF View, InWindow
<1>5. Content' = [a \in promised' |-> View(a)]
  BY <1>4 DEF Content
<1>6. CASE op = "READ" \/ (NoLabels /\ op = "WRITE")
  <2>1. Content' = Content
    BY <1>1, <1>5, <1>6 DEF Content
  <2> QED
    BY <1>1, <1>6, <2>1 DEF Records!Close, Content, NoData, Records!NoData
<1>7. CASE ~(op = "READ" \/ (NoLabels /\ op = "WRITE"))
  <2>1. DOMAIN Content = promised
    BY DEF Content
  <2>2. Content' = [a \in DOMAIN Content \cap 0 .. (NominalSize - 1) |-> Content[a]]
    BY <1>1, <1>5, <1>7, <2>1 DEF Content
  <2>3. Content' = Records!Keep(Content, 0 .. (NominalSize - 1))
    BY <2>2 DEF Records!Keep
  <2> QED
    BY <1>1, <1>7, <2>3 DEF Records!Close, Content, NoData, Records!NoData
<1> QED
  BY <1>6, <1>7

LEMMA CloseFailureRefines ==
  ASSUME IInv, CleanWindowIsOnDisk, CloseFails \/ CloseFinishFails
  PROVE  Records!CloseFails
<1>1. /\ op # "CLOSED" /\ op' = op /\ status' = "IO_ERROR" /\ userbuf' = NoData
      /\ UNCHANGED <<buffer, blockno, valid, promised>>
  BY DEF CloseFails, CloseFinishFails, window
<1>2. PICK f \in Flush(buffer, blockno, dirty) : bytes' = f.bytes
  BY DEF CloseFails, CloseFinishFails
<1>3. buffer \in [BufIdx -> Byte] /\ dirty \in BOOLEAN /\ (dirty => valid)
  BY DEF IInv, TypeOK, PromisedBytesExist
<1>4. ASSUME NEW a \in promised
      PROVE  View(a)' = View(a)
  <2>1. InWindow(a)' <=> InWindow(a)
    BY <1>1 DEF InWindow
  <2>2. CASE InWindow(a)
    BY <1>1, <2>1, <2>2 DEF View
  <2>3. CASE ~InWindow(a)
    <3>1. f.bytes[a] = View(a)
      BY <1>3, <2>3, FlushView
    <3> QED
      BY <1>2, <2>1, <2>3, <3>1 DEF View
  <2> QED
    BY <2>2, <2>3
<1>5. UNCHANGED Content
  BY <1>1, <1>4, ContentStays DEF SameContent
<1> QED
  BY <1>1, <1>5 DEF Records!CloseFails, Content, NoData, Records!NoData

LEMMA OpenRefines ==
  ASSUME IInv, NEW mode \in Modes, Open(mode)
  PROVE  Records!Open(mode)
<1>1. /\ op = "CLOSED" /\ op' = mode /\ status' = "SUCCESS" /\ userbuf' = NoData
      /\ ~valid' /\ bytes' = bytes
      /\ mode = "WRITE" => promised' = {}
      /\ mode # "WRITE" => promised \subseteq promised'
  BY DEF Open, file
<1>2. ~valid
  BY <1>1 DEF IInv, ModesAgree
<1>3. mode = "WRITE" => Content' = NoData
  BY <1>1 DEF Content, NoData
<1>4. ASSUME mode # "WRITE", NEW a \in DOMAIN Content
      PROVE  a \in DOMAIN Content' /\ Content'[a] = Content[a]
  <2>1. a \in promised /\ a \in promised'
    BY <1>1, <1>4 DEF Content
  <2>2. View(a)' = View(a)
    BY <1>1, <1>2 DEF View, InWindow
  <2> QED
    BY <2>1, <2>2 DEF Content
<1> QED
  BY <1>1, <1>3, <1>4 DEF Records!Open, Content, NoData, Records!NoData

LEMMA InitRefines ==
  ASSUME Init
  PROVE  Records!Init
<1>1. Content = NoData
  BY DEF Init, Content, NoData
<1> QED
  BY <1>1 DEF Init, Records!Init, Content, NoData, Records!NoData

LEMMA NextRefines ==
  ASSUME ~ReadErrors, UserPixel <= FilePixel, RInv, RInv', [Next]_vars
  PROVE  [Records!Next]_(Records!vars)
<1>1. IInv /\ IInv' /\ CleanWindowIsOnDisk
  BY DEF RInv, IInv
<1>2. Recs = 0 .. (NRec - 1)
  BY DEF Recs
<1>3. CASE \E mode \in Modes : Open(mode)
  BY <1>1, <1>3, OpenRefines DEF Records!Next, Modes, Records!Modes
<1>4. ASSUME NEW rec \in Recs, NEW req \in Requests, Read(rec, req)
      PROVE  Records!Next
  <2>1. CASE ReadHit(rec, req)
    BY <1>1, <1>2, <2>1, ReadHitRefines DEF Records!Next
  <2>2. CASE ReadFlushFails(rec, req)
    BY <1>1, <1>2, <2>2, ReadFlushFailsRefines DEF Records!Next
  <2>3. CASE ReadMissFound(rec, req)
    BY <1>1, <1>2, <2>3, ReadMissFoundRefines DEF Records!Next
  <2>4. CASE ReadMissEndOfFile(rec, req)
    BY <1>1, <1>2, <2>4, ReadMissEndOfFileRefines DEF Records!Next
  <2>5. ~ReadMissError(rec, req)
    BY DEF ReadMissError
  <2> QED
    BY <1>4, <2>1, <2>2, <2>3, <2>4, <2>5 DEF Read
<1>5. ASSUME NEW rec \in Recs, NEW req \in Requests, NEW image \in Images,
             Write(rec, req, image)
      PROVE  Records!Next
  <2>1. CASE WriteHit(rec, req, image)
    BY <1>1, <1>2, <2>1, WriteHitRefines DEF Records!Next
  <2>2. CASE WriteFlushFails(rec, req, image)
    BY <1>1, <1>2, <2>2, WriteFlushFailsRefines DEF Records!Next
  <2>3. CASE WriteMiss(rec, req, image)
    BY <1>1, <1>2, <2>3, WriteMissRefines DEF Records!Next
  <2>4. ~WritePrereadFails(rec, req, image)
    BY DEF WritePrereadFails
  <2> QED
    BY <1>5, <2>1, <2>2, <2>3, <2>4 DEF Write
<1>6. CASE Close
  BY <1>1, <1>6, CloseRefines DEF Records!Next
<1>7. CASE CloseFails \/ CloseFinishFails
  BY <1>1, <1>7, CloseFailureRefines DEF Records!Next
<1>8. CASE UNCHANGED vars
  <2>1. UNCHANGED Content
    BY <1>8 DEF vars, file, window, Content, View, InWindow
  <2> QED
    BY <1>8, <2>1 DEF vars, Records!vars, Content
<1> QED
  BY <1>3, <1>4, <1>5, <1>6, <1>7, <1>8 DEF Next

(* As long as read(2) does not fail, and the pixels that a caller writes   *)
(* are not longer than the file's, the buffered file is the file of        *)
(* records, whatever the sizes, the access method and the files are:       *)
(* v2_read_rec returns what v2_write_rec last put there, a failed call     *)
(* disturbs only its own record, and v2_close_file leaves all on disk.     *)
THEOREM BufferImplementsRecords ==
  ASSUME ~ReadErrors, UserPixel <= FilePixel
  PROVE  Spec => Implements
<1>1. Init => RInv /\ Records!Init
  BY InitRecords, InitRefines
<1>2. RInv /\ [Next]_vars => RInv'
  BY NextKeepsRecords
<1>3. RInv /\ RInv' /\ [Next]_vars => [Records!Next]_(Records!vars)
  BY NextRefines
<1> QED
  BY <1>1, <1>2, <1>3, PTL DEF Spec, Implements, Records!Spec
=============================================================================
