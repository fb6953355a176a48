-------------------------- MODULE RectRegionProofs --------------------------
(***************************************************************************)
(* What RectRegion keeps, for every plane and every length of the list.    *)
(***************************************************************************)
EXTENDS RectRegion, SequenceTheorems, WellFoundedInduction, TLAPS

-----------------------------------------------------------------------------
(* The least and the greatest of a set.                                    *)

LEMMA MaxOfTwo ==
  ASSUME NEW a \in Int, NEW b \in Int
  PROVE  Max({a, b}) = (IF a >= b THEN a ELSE b)
<1> DEFINE m == IF a >= b THEN a ELSE b
           S == {a, b}
<1>1. m \in S /\ \A y \in S : m >= y
  OBVIOUS
<1>2. Max(S) \in S /\ \A y \in S : Max(S) >= y
  BY <1>1 DEF Max
<1> QED
  BY <1>1, <1>2

LEMMA MinOfTwo ==
  ASSUME NEW a \in Int, NEW b \in Int
  PROVE  Min({a, b}) = (IF a <= b THEN a ELSE b)
<1> DEFINE m == IF a <= b THEN a ELSE b
           S == {a, b}
<1>1. m \in S /\ \A y \in S : m <= y
  OBVIOUS
<1>2. Min(S) \in S /\ \A y \in S : Min(S) <= y
  BY <1>1 DEF Min
<1> QED
  BY <1>1, <1>2

LEMMA MinOfNats ==
  ASSUME NEW S \in SUBSET Nat, S # {}
  PROVE  Min(S) \in S /\ \A y \in S : Min(S) <= y
<1>1. \E x \in S : \A y \in S : <<y, x>> \notin OpToRel(<, Nat)
  BY NatLessThanWellFounded, WFMin
<1>2. \E x \in S : \A y \in S : ~(y < x)
  BY <1>1 DEF OpToRel
<1>3. \E x \in S : \A y \in S : x <= y
  BY <1>2
<1> QED
  BY <1>3 DEF Min

LEMMA MaxOfBounded ==
  ASSUME NEW bound \in Nat, NEW S \in SUBSET (0 .. bound), S # {}
  PROVE  Max(S) \in S /\ \A y \in S : Max(S) >= y
<1> DEFINE turned == {bound - y : y \in S}
<1>1. turned \in SUBSET Nat /\ turned # {}
  OBVIOUS
<1>2. Min(turned) \in turned /\ \A t \in turned : Min(turned) <= t
  BY <1>1, MinOfNats
<1>3. PICK x \in S : Min(turned) = bound - x
  BY <1>2
<1>4. ASSUME NEW y \in S PROVE x >= y
  <2>1. bound - y \in turned
    OBVIOUS
  <2>2. bound - x <= bound - y
    BY <1>2, <1>3, <2>1
  <2>3. x \in 0 .. bound /\ y \in 0 .. bound
    OBVIOUS
  <2> QED
    BY <2>2, <2>3
<1> QED
  BY <1>4 DEF Max

-----------------------------------------------------------------------------
(* Rectangles and their points.                                            *)

Rectangles == [x : Int, y : Int, width : Int, height : Int]

InPlane(r) ==
  /\ r.x \in 0 .. Width /\ EndX(r) \in 0 .. Width
  /\ r.y \in 0 .. Height /\ EndY(r) \in 0 .. Height

(* The rectangles that a list may hold.                                    *)
Held == {r \in Rectangles : InPlane(r)}

(* A point, by its coordinates.                                            *)
Has(r, a, b) == r.x <= a /\ a < EndX(r) /\ r.y <= b /\ b < EndY(r)

LEMMA RectIs ==
  ASSUME NEW x \in Int, NEW y \in Int, NEW w \in Int, NEW h \in Int
  PROVE  /\ Rect(x, y, w, h) \in Rectangles
         /\ Rect(x, y, w, h).x = x /\ EndX(Rect(x, y, w, h)) = x + w
         /\ Rect(x, y, w, h).y = y /\ EndY(Rect(x, y, w, h)) = y + h
         /\ Rect(x, y, w, h).width = w /\ Rect(x, y, w, h).height = h
BY DEF Rect, Rectangles, EndX, EndY

(* What lies within a smaller range lies within a larger one.              *)
LEMMA WithinBounds ==
  ASSUME NEW lo \in Int, NEW first \in Int, NEW at \in Int, NEW end \in Int, NEW hi \in Int,
         lo <= first, first <= at, at < end, end <= hi
  PROVE  lo <= at /\ at < hi
OBVIOUS

LEMMA Ends ==
  ASSUME NEW r \in Rectangles
  PROVE  /\ r.x \in Int /\ r.y \in Int /\ r.width \in Int /\ r.height \in Int
         /\ EndX(r) \in Int /\ EndY(r) \in Int
         /\ EndX(r) = r.x + r.width /\ EndY(r) = r.y + r.height
BY DEF Rectangles, EndX, EndY

LEMMA PointsHad ==
  ASSUME NEW r \in Rectangles, NEW a \in Int, NEW b \in Int
  PROVE  <<a, b>> \in Points(r) <=> Has(r, a, b)
<1>1. a \in r.x .. (EndX(r) - 1) <=> r.x <= a /\ a < EndX(r)
  BY Ends
<1>2. b \in r.y .. (EndY(r) - 1) <=> r.y <= b /\ b < EndY(r)
  BY Ends
<1> QED
  BY <1>1, <1>2 DEF Points, Has

LEMMA PointsArePairs ==
  ASSUME NEW r \in Rectangles, NEW p \in Points(r)
  PROVE  \E a \in Int, b \in Int : p = <<a, b>> /\ Has(r, a, b)
<1>1. PICK a \in r.x .. (EndX(r) - 1), b \in r.y .. (EndY(r) - 1) : p = <<a, b>>
  BY DEF Points
<1>2. a \in Int /\ b \in Int /\ Has(r, a, b)
  BY <1>1, Ends DEF Has
<1> QED
  BY <1>1, <1>2

(* Sets of points are compared coordinate by coordinate.                   *)
LEMMA PointsWithin ==
  ASSUME NEW r \in Rectangles, NEW S,
         \A a, b \in Int : Has(r, a, b) => <<a, b>> \in S
  PROVE  Points(r) \subseteq S
BY PointsArePairs

LEMMA PointsApart ==
  ASSUME NEW r \in Rectangles, NEW s \in Rectangles,
         \A a, b \in Int : ~(Has(r, a, b) /\ Has(s, a, b))
  PROVE  Points(r) \cap Points(s) = {}
<1> SUFFICES ASSUME NEW p \in Points(r), p \in Points(s) PROVE FALSE
  OBVIOUS
<1>1. PICK a \in Int, b \in Int : p = <<a, b>> /\ Has(r, a, b)
  BY PointsArePairs
<1> QED
  BY <1>1, PointsHad

LEMMA GivenAreHeld ==
  ASSUME NEW rect \in Rects
  PROVE  /\ rect \in Held /\ rect \in Rectangles /\ InPlane(rect)
         /\ rect.width > 0 /\ rect.height > 0
<1>1. rect \in [x : 0 .. (Width - 1), y : 0 .. (Height - 1), width : 1 .. Width, height : 1 .. Height]
      /\ rect.x + rect.width <= Width /\ rect.y + rect.height <= Height
  BY DEF Rects
<1>2. rect.x \in 0 .. (Width - 1) /\ rect.y \in 0 .. (Height - 1)
      /\ rect.width \in 1 .. Width /\ rect.height \in 1 .. Height
      /\ rect = [x |-> rect.x, y |-> rect.y, width |-> rect.width, height |-> rect.height]
  BY <1>1
<1>3. rect \in Rectangles
  BY <1>2, PlaneIsSane DEF Rectangles
<1> QED
  BY <1>1, <1>2, <1>3, PlaneIsSane DEF Held, InPlane, EndX, EndY

-----------------------------------------------------------------------------
(* Cuts.                                                                   *)

Edges == {"top", "bottom", "left", "right"}

LEMMA PartsAre ==
  ASSUME NEW r \in Rectangles, NEW rect \in Rectangles, NEW edge \in Edges
  PROVE  /\ At(edge, rect) \in Int
         /\ Near(edge, r, rect) \in Rectangles /\ Far(edge, r, rect) \in Rectangles
         /\ Near(edge, r, rect).x = r.x /\ Near(edge, r, rect).y = r.y
         /\ EndX(Far(edge, r, rect)) = EndX(r) /\ EndY(Far(edge, r, rect)) = EndY(r)
         /\ edge \in {"top", "bottom"} =>
              /\ EndX(Near(edge, r, rect)) = EndX(r) /\ EndY(Near(edge, r, rect)) = At(edge, rect)
              /\ Far(edge, r, rect).x = r.x /\ Far(edge, r, rect).y = At(edge, rect)
         /\ edge \in {"left", "right"} =>
              /\ EndX(Near(edge, r, rect)) = At(edge, rect) /\ EndY(Near(edge, r, rect)) = EndY(r)
              /\ Far(edge, r, rect).x = At(edge, rect) /\ Far(edge, r, rect).y = r.y
<1>1. At(edge, rect) \in Int
  BY Ends DEF At, Edges
<1> DEFINE at == At(edge, rect)
<1>2. /\ r.x \in Int /\ r.y \in Int /\ r.width \in Int /\ r.height \in Int
      /\ r = [x |-> r.x, y |-> r.y, width |-> r.width, height |-> r.height]
  BY DEF Rectangles
<1>3. CASE edge \in {"top", "bottom"}
  <2>1. Near(edge, r, rect) = [x |-> r.x, y |-> r.y, width |-> r.width, height |-> at - r.y]
    BY <1>2, <1>3 DEF Near
  <2>2. Far(edge, r, rect) = [x |-> r.x, y |-> at, width |-> r.width, height |-> (r.y + r.height) - at]
    BY <1>3 DEF Far, Rect, EndY
  <2>3. edge \notin {"left", "right"}
    BY <1>3
  <2> HIDE DEF at
  <2> QED
    BY <1>1, <1>2, <1>3, <2>1, <2>2, <2>3 DEF Rectangles, EndX, EndY, at
<1>4. CASE edge \in {"left", "right"}
  <2>0. edge \notin {"top", "bottom"}
    BY <1>4
  <2>1. Near(edge, r, rect) = [x |-> r.x, y |-> r.y, width |-> at - r.x, height |-> r.height]
    BY <1>2, <2>0 DEF Near
  <2>2. Far(edge, r, rect) = [x |-> at, y |-> r.y, width |-> (r.x + r.width) - at, height |-> r.height]
    BY <2>0 DEF Far, Rect, EndX
  <2> HIDE DEF at
  <2> QED
    BY <1>1, <1>2, <1>4, <2>0, <2>1, <2>2 DEF Rectangles, EndX, EndY, at
<1> QED
  BY <1>3, <1>4 DEF Edges

(* An edge through r lies strictly between its ends.                       *)
LEMMA StraddlesIs ==
  ASSUME NEW r \in Rectangles, NEW rect \in Rectangles, NEW edge \in Edges,
         Straddles(edge, r, rect)
  PROVE  /\ edge \in {"top", "bottom"} => r.y < At(edge, rect) /\ At(edge, rect) < EndY(r)
         /\ edge \in {"left", "right"} => r.x < At(edge, rect) /\ At(edge, rect) < EndX(r)
         /\ edge \in CrossedBy(r, rect)
<1>1. CASE edge = "top"
  BY <1>1, Ends DEF Straddles, At, CrossedBy
<1>2. CASE edge = "bottom"
  BY <1>2, Ends DEF Straddles, At, CrossedBy
<1>3. CASE edge = "left"
  BY <1>3, Ends DEF Straddles, At, CrossedBy
<1>4. CASE edge = "right"
  BY <1>4, Ends DEF Straddles, At, CrossedBy
<1> QED
  BY <1>1, <1>2, <1>3, <1>4 DEF Edges

(* Fewer edges go through piece than through r, or no others.              *)
Simpler(piece, r, rect) ==
  CrossedBy(piece, rect) \subseteq CrossedBy(r, rect) /\ CrossedBy(piece, rect) # CrossedBy(r, rect)

LEMMA PartsExact ==
  ASSUME NEW r \in Rectangles, NEW rect \in Rectangles, NEW edge \in Edges,
         Straddles(edge, r, rect)
  PROVE  \A a, b \in Int :
           /\ Has(r, a, b) <=> Has(Near(edge, r, rect), a, b) \/ Has(Far(edge, r, rect), a, b)
           /\ ~(Has(Near(edge, r, rect), a, b) /\ Has(Far(edge, r, rect), a, b))
<1> DEFINE near == Near(edge, r, rect)
           far == Far(edge, r, rect)
           at == At(edge, rect)
<1>1. /\ at \in Int /\ near \in Rectangles /\ far \in Rectangles
      /\ r.x \in Int /\ r.y \in Int /\ EndX(r) \in Int /\ EndY(r) \in Int
      /\ near.x = r.x /\ near.y = r.y /\ EndX(far) = EndX(r) /\ EndY(far) = EndY(r)
  BY PartsAre, Ends
<1>2. CASE edge \in {"top", "bottom"}
  <2>a. EndX(near) = EndX(r) /\ EndY(near) = at /\ far.x = r.x /\ far.y = at
    BY <1>2, PartsAre
  <2>b. r.y < at /\ at < EndY(r)
    BY <1>2, StraddlesIs
  <2>1. /\ EndX(near) = EndX(r) /\ EndY(near) = at /\ far.x = r.x /\ far.y = at
        /\ r.y < at /\ at < EndY(r)
    BY <2>a, <2>b
  <2> HIDE DEF near, far, at
  <2>2. \A a, b \in Int :
           /\ Has(r, a, b) <=> Has(near, a, b) \/ Has(far, a, b)
           /\ ~(Has(near, a, b) /\ Has(far, a, b))
    BY <1>1, <2>1 DEF Has
  <2> QED
    BY <2>2 DEF near, far
<1>3. CASE edge \in {"left", "right"}
  <2>a. EndX(near) = at /\ EndY(near) = EndY(r) /\ far.x = at /\ far.y = r.y
    BY <1>3, PartsAre
  <2>b. r.x < at /\ at < EndX(r)
    BY <1>3, StraddlesIs
  <2>1. /\ EndX(near) = at /\ EndY(near) = EndY(r) /\ far.x = at /\ far.y = r.y
        /\ r.x < at /\ at < EndX(r)
    BY <2>a, <2>b
  <2> HIDE DEF near, far, at
  <2>2. \A a, b \in Int :
           /\ Has(r, a, b) <=> Has(near, a, b) \/ Has(far, a, b)
           /\ ~(Has(near, a, b) /\ Has(far, a, b))
    BY <1>1, <2>1 DEF Has
  <2> QED
    BY <2>2 DEF near, far
<1> QED
  BY <1>2, <1>3 DEF Edges

LEMMA PartsInPlane ==
  ASSUME NEW r \in Held, NEW rect \in Held, NEW edge \in Edges, Straddles(edge, r, rect)
  PROVE  Near(edge, r, rect) \in Held /\ Far(edge, r, rect) \in Held
<1> DEFINE near == Near(edge, r, rect)
           far == Far(edge, r, rect)
           at == At(edge, rect)
<1>0. r \in Rectangles /\ rect \in Rectangles /\ InPlane(r) /\ InPlane(rect)
  BY DEF Held
<1>1. /\ at \in Int /\ near \in Rectangles /\ far \in Rectangles
      /\ near.x = r.x /\ near.y = r.y /\ EndX(far) = EndX(r) /\ EndY(far) = EndY(r)
  BY <1>0, PartsAre
<1>2. CASE edge \in {"top", "bottom"}
  <2>1. /\ EndX(near) = EndX(r) /\ EndY(near) = at /\ far.x = r.x /\ far.y = at
    BY <1>0, <1>2, PartsAre
  <2>2. at \in 0 .. Height
    BY <1>0, <1>2 DEF At, InPlane
  <2> HIDE DEF near, far, at
  <2>3. InPlane(near) /\ InPlane(far)
    BY <1>0, <1>1, <2>1, <2>2 DEF InPlane
  <2> QED
    BY <1>1, <2>3 DEF Held, near, far
<1>3. CASE edge \in {"left", "right"}
  <2>1. /\ EndX(near) = at /\ EndY(near) = EndY(r) /\ far.x = at /\ far.y = r.y
    BY <1>0, <1>3, PartsAre
  <2>2. at \in 0 .. Width
    BY <1>0, <1>3 DEF At, InPlane
  <2> HIDE DEF near, far, at
  <2>3. InPlane(near) /\ InPlane(far)
    BY <1>0, <1>1, <2>1, <2>2 DEF InPlane
  <2> QED
    BY <1>1, <2>3 DEF Held, near, far
<1> QED
  BY <1>2, <1>3 DEF Edges

LEMMA PartsSimpler ==
  ASSUME NEW r \in Rectangles, NEW rect \in Rectangles, NEW edge \in Edges,
         Straddles(edge, r, rect)
  PROVE  /\ CrossedBy(Near(edge, r, rect), rect) \subseteq CrossedBy(r, rect)
         /\ Simpler(Far(edge, r, rect), r, rect)
<1> DEFINE near == Near(edge, r, rect)
           far == Far(edge, r, rect)
           at(e) == At(e, rect)
<1>1. /\ \A e \in Edges : at(e) \in Int
      /\ near \in Rectangles /\ far \in Rectangles
      /\ r.x \in Int /\ r.y \in Int /\ EndX(r) \in Int /\ EndY(r) \in Int
      /\ near.x = r.x /\ near.y = r.y /\ EndX(far) = EndX(r) /\ EndY(far) = EndY(r)
      /\ edge \in CrossedBy(r, rect)
  BY PartsAre, Ends, StraddlesIs
<1>2. CASE edge \in {"top", "bottom"}
  <2>1. /\ EndX(near) = EndX(r) /\ EndY(near) = at(edge) /\ far.x = r.x /\ far.y = at(edge)
        /\ r.y < at(edge) /\ at(edge) < EndY(r)
    BY <1>2, PartsAre, StraddlesIs
  <2> HIDE DEF near, far, at
  <2>2. \A s : CrossedBy(s, rect) =
          {e \in {"top", "bottom"} : s.y < at(e) /\ at(e) < EndY(s)}
            \cup {e \in {"left", "right"} : s.x < at(e) /\ at(e) < EndX(s)}
    BY DEF CrossedBy, at
  <2>3. CrossedBy(near, rect) \subseteq CrossedBy(r, rect) /\ CrossedBy(far, rect) \subseteq CrossedBy(r, rect)
    BY <1>1, <2>1, <2>2, <1>2 DEF Edges
  <2>4. edge \notin CrossedBy(far, rect)
    BY <1>1, <2>1, <2>2, <1>2
  <2> QED
    BY <1>1, <2>3, <2>4 DEF Simpler, near, far
<1>3. CASE edge \in {"left", "right"}
  <2>1. /\ EndX(near) = at(edge) /\ EndY(near) = EndY(r) /\ far.x = at(edge) /\ far.y = r.y
        /\ r.x < at(edge) /\ at(edge) < EndX(r)
    BY <1>3, PartsAre, StraddlesIs
  <2> HIDE DEF near, far, at
  <2>2. \A s : CrossedBy(s, rect) =
          {e \in {"top", "bottom"} : s.y < at(e) /\ at(e) < EndY(s)}
            \cup {e \in {"left", "right"} : s.x < at(e) /\ at(e) < EndX(s)}
    BY DEF CrossedBy, at
  <2>3. CrossedBy(near, rect) \subseteq CrossedBy(r, rect) /\ CrossedBy(far, rect) \subseteq CrossedBy(r, rect)
    BY <1>1, <2>1, <2>2, <1>3 DEF Edges
  <2>4. edge \notin CrossedBy(far, rect)
    BY <1>1, <2>1, <2>2, <1>3
  <2> QED
    BY <1>1, <2>3, <2>4 DEF Simpler, near, far
<1> QED
  BY <1>2, <1>3 DEF Edges

(* What a rectangle is cut into: it is covered exactly, and not twice, and *)
(* fewer edges go through what is cut off.                                 *)
CoveredExactly(cut, r) ==
  \A a, b \in Int :
    Has(r, a, b) <=> Has(cut.r, a, b) \/ \E k \in 1 .. Len(cut.off) : Has(cut.off[k], a, b)

CoveredOnce(cut) ==
  \A a, b \in Int :
    /\ \A k \in 1 .. Len(cut.off) : ~(Has(cut.r, a, b) /\ Has(cut.off[k], a, b))
    /\ \A j, k \in 1 .. Len(cut.off) :
         j # k => ~(Has(cut.off[j], a, b) /\ Has(cut.off[k], a, b))

OffSimpler(cut, r, rect) ==
  /\ CrossedBy(cut.r, rect) \subseteq CrossedBy(r, rect)
  /\ \A k \in 1 .. Len(cut.off) : Simpler(cut.off[k], r, rect)

CutWell(cut, r, rect) ==
  /\ cut.r \in Held /\ cut.off \in Seq(Held)
  /\ CoveredExactly(cut, r) /\ CoveredOnce(cut) /\ OffSimpler(cut, r, rect)

LEMMA CutAtWell ==
  ASSUME NEW r \in Held, NEW rect \in Held, NEW cut, CutWell(cut, r, rect), NEW edge \in Edges
  PROVE  CutWell(CutAt(edge, cut, rect), r, rect)
<1> DEFINE near == Near(edge, cut.r, rect)
           far == Far(edge, cut.r, rect)
           off == cut.off
           n == Len(off)
           new == CutAt(edge, cut, rect)
<1>0. /\ cut.r \in Held /\ off \in Seq(Held) /\ n \in Nat
      /\ rect \in Rectangles /\ cut.r \in Rectangles
  BY DEF CutWell, Held
<1>1. CASE ~Straddles(edge, cut.r, rect)
  BY <1>1 DEF CutAt
<1>2. CASE Straddles(edge, cut.r, rect)
  <2>1. new = [r |-> near, off |-> Append(off, far)]
    BY <1>2 DEF CutAt
  <2>2. near \in Held /\ far \in Held
    BY <1>0, <1>2, PartsInPlane
  <2>3. /\ \A a, b \in Int : Has(cut.r, a, b) <=> Has(near, a, b) \/ Has(far, a, b)
        /\ \A a, b \in Int : ~(Has(near, a, b) /\ Has(far, a, b))
    BY <1>0, <1>2, PartsExact
  <2>4. /\ CrossedBy(near, rect) \subseteq CrossedBy(cut.r, rect)
        /\ Simpler(far, cut.r, rect)
    BY <1>0, <1>2, PartsSimpler
  <2> HIDE DEF near, far
  <2> DEFINE more == Append(off, far)
  <2>5. /\ more \in Seq(Held) /\ Len(more) = n + 1
        /\ \A k \in 1 .. n : more[k] = off[k]
        /\ more[n + 1] = far
    BY <1>0, <2>2
  <2>6. new.r = near /\ new.off = more
    BY <2>1
  <2> HIDE DEF more, off, n, new
  <2>7. /\ \A a, b \in Int :
             Has(r, a, b) <=> Has(cut.r, a, b) \/ \E k \in 1 .. n : Has(off[k], a, b)
        /\ \A a, b \in Int : \A k \in 1 .. n : ~(Has(cut.r, a, b) /\ Has(off[k], a, b))
        /\ \A a, b \in Int : \A j, k \in 1 .. n : j # k => ~(Has(off[j], a, b) /\ Has(off[k], a, b))
        /\ CrossedBy(cut.r, rect) \subseteq CrossedBy(r, rect)
        /\ \A k \in 1 .. n : Simpler(off[k], r, rect)
    BY DEF CutWell, CoveredExactly, CoveredOnce, OffSimpler, n, off
  <2>8. CoveredExactly(new, r)
    <3> SUFFICES ASSUME NEW a \in Int, NEW b \in Int
                 PROVE  Has(r, a, b) <=> Has(near, a, b) \/ \E k \in 1 .. Len(more) : Has(more[k], a, b)
      BY <2>6 DEF CoveredExactly
    <3>1. (\E k \in 1 .. Len(more) : Has(more[k], a, b))
            <=> Has(far, a, b) \/ \E k \in 1 .. n : Has(off[k], a, b)
      <4>1. \A k \in 1 .. Len(more) : k = n + 1 \/ k \in 1 .. n
        BY <1>0, <2>5
      <4>2. n + 1 \in 1 .. Len(more) /\ \A k \in 1 .. n : k \in 1 .. Len(more)
        BY <1>0, <2>5
      <4> QED
        BY <2>5, <4>1, <4>2
    <3> QED
      BY <2>3, <2>7, <3>1
  <2>9. CoveredOnce(new)
    <3> SUFFICES ASSUME NEW a \in Int, NEW b \in Int
                 PROVE  /\ \A k \in 1 .. Len(more) : ~(Has(near, a, b) /\ Has(more[k], a, b))
                        /\ \A j, k \in 1 .. Len(more) :
                             j # k => ~(Has(more[j], a, b) /\ Has(more[k], a, b))
      BY <2>6 DEF CoveredOnce
    <3>1. \A k \in 1 .. Len(more) : k = n + 1 \/ k \in 1 .. n
      BY <1>0, <2>5
    <3>2. /\ Has(near, a, b) => Has(cut.r, a, b)
          /\ Has(far, a, b) => Has(cut.r, a, b)
          /\ ~(Has(near, a, b) /\ Has(far, a, b))
      BY <2>3
    <3>3. \A k \in 1 .. n : ~(Has(cut.r, a, b) /\ Has(off[k], a, b))
      BY <2>7
    <3> QED
      BY <2>5, <2>7, <3>1, <3>2, <3>3
  <2>10. OffSimpler(new, r, rect)
    <3>1. Simpler(far, r, rect)
      BY <2>4, <2>7 DEF Simpler
    <3>2. \A k \in 1 .. Len(more) : k = n + 1 \/ k \in 1 .. n
      BY <1>0, <2>5
    <3> QED
      BY <2>4, <2>5, <2>6, <2>7, <3>1, <3>2 DEF OffSimpler
  <2> QED
    BY <2>2, <2>5, <2>6, <2>8, <2>9, <2>10 DEF CutWell, new
<1> QED
  BY <1>1, <1>2

LEMMA CutIsWell ==
  ASSUME NEW r \in Held, NEW rect \in Held
  PROVE  CutWell(Cut(r, rect), r, rect)
<1> DEFINE c0 == [r |-> r, off |-> <<>>]
           c1 == CutAt("top", c0, rect)
           c2 == CutAt("bottom", c1, rect)
           c3 == CutAt("left", c2, rect)
           c4 == CutAt("right", c3, rect)
<1>0. "top" \in Edges /\ "bottom" \in Edges /\ "left" \in Edges /\ "right" \in Edges
  BY DEF Edges
<1>1. CutWell(c0, r, rect)
  BY DEF CutWell, CoveredExactly, CoveredOnce, OffSimpler
<1> HIDE DEF c0
<1>2. CutWell(c1, r, rect)
  BY <1>0, <1>1, CutAtWell
<1> HIDE DEF c1
<1>3. CutWell(c2, r, rect)
  BY <1>0, <1>2, CutAtWell
<1> HIDE DEF c2
<1>4. CutWell(c3, r, rect)
  BY <1>0, <1>3, CutAtWell
<1> HIDE DEF c3
<1>5. CutWell(c4, r, rect)
  BY <1>0, <1>4, CutAtWell
<1>6. Cut(r, rect) = c4
  BY DEF Cut, c0, c1, c2, c3
<1> QED
  BY <1>5, <1>6

(* No edge cuts what the loop keeps in place, so that it lies within rect  *)
(* or away from it.                                                        *)
LEMMA CutAtDone ==
  ASSUME NEW cut, cut.r \in Rectangles, NEW rect \in Rectangles,
         rect.width > 0, rect.height > 0
  PROVE  /\ \A edge \in Edges : ~Straddles(edge, CutAt(edge, cut, rect).r, rect)
         /\ ~Straddles("top", cut.r, rect) =>
              \A edge \in {"bottom", "left", "right"} : ~Straddles("top", CutAt(edge, cut, rect).r, rect)
         /\ ~Straddles("bottom", cut.r, rect) =>
              \A edge \in {"left", "right"} : ~Straddles("bottom", CutAt(edge, cut, rect).r, rect)
         /\ ~Straddles("left", cut.r, rect) => ~Straddles("left", CutAt("right", cut, rect).r, rect)
<1> DEFINE r == cut.r
           new(edge) == CutAt(edge, cut, rect).r
<1>0. r \in Rectangles
  OBVIOUS
<1>1. \A edge \in Edges : new(edge) = IF Straddles(edge, r, rect) THEN Near(edge, r, rect) ELSE r
  BY DEF CutAt
<1>2. \A edge \in Edges :
        LET near == Near(edge, r, rect) IN
        /\ near.x = r.x /\ near.y = r.y
        /\ edge \in {"top", "bottom"} => EndX(near) = EndX(r) /\ EndY(near) = At(edge, rect)
        /\ edge \in {"left", "right"} => EndX(near) = At(edge, rect) /\ EndY(near) = EndY(r)
  <2> TAKE edge \in Edges
  <2>1. Near(edge, r, rect).x = r.x /\ Near(edge, r, rect).y = r.y
    BY <1>0, PartsAre
  <2>2. edge \in {"top", "bottom"} =>
          EndX(Near(edge, r, rect)) = EndX(r) /\ EndY(Near(edge, r, rect)) = At(edge, rect)
    BY <1>0, PartsAre
  <2>3. edge \in {"left", "right"} =>
          EndX(Near(edge, r, rect)) = At(edge, rect) /\ EndY(Near(edge, r, rect)) = EndY(r)
    BY <1>0, PartsAre
  <2> QED
    BY <2>1, <2>2, <2>3
<1>3. /\ At("top", rect) = rect.y /\ At("bottom", rect) = EndY(rect)
      /\ At("left", rect) = rect.x /\ At("right", rect) = EndX(rect)
  BY DEF At
<1>4. /\ r.x \in Int /\ r.y \in Int /\ EndX(r) \in Int /\ EndY(r) \in Int
      /\ rect.x \in Int /\ rect.y \in Int /\ EndX(rect) \in Int /\ EndY(rect) \in Int
      /\ rect.x < EndX(rect) /\ rect.y < EndY(rect)
  BY <1>0, Ends
<1>5. \A s :
        /\ Straddles("top", s, rect) <=> s.y < rect.y /\ EndY(s) > rect.y /\ MeetsX(s, rect)
        /\ Straddles("bottom", s, rect) <=> s.y < EndY(rect) /\ EndY(s) > EndY(rect) /\ MeetsX(s, rect)
        /\ Straddles("left", s, rect) <=> s.x < rect.x /\ EndX(s) > rect.x /\ WithinY(s, rect)
        /\ Straddles("right", s, rect) <=> s.x < EndX(rect) /\ EndX(s) > EndX(rect) /\ WithinY(s, rect)
  BY DEF Straddles
<1> HIDE DEF r, new
<1>6. /\ new("top").x = r.x /\ new("top").y = r.y /\ EndX(new("top")) = EndX(r)
      /\ EndY(new("top")) = IF Straddles("top", r, rect) THEN rect.y ELSE EndY(r)
      /\ new("bottom").x = r.x /\ new("bottom").y = r.y /\ EndX(new("bottom")) = EndX(r)
      /\ EndY(new("bottom")) = IF Straddles("bottom", r, rect) THEN EndY(rect) ELSE EndY(r)
  BY <1>1, <1>2, <1>3 DEF Edges
<1>7. /\ new("left").x = r.x /\ new("left").y = r.y /\ EndY(new("left")) = EndY(r)
      /\ EndX(new("left")) = IF Straddles("left", r, rect) THEN rect.x ELSE EndX(r)
      /\ new("right").x = r.x /\ new("right").y = r.y /\ EndY(new("right")) = EndY(r)
      /\ EndX(new("right")) = IF Straddles("right", r, rect) THEN EndX(rect) ELSE EndX(r)
  BY <1>1, <1>2, <1>3 DEF Edges
<1>8. /\ ~Straddles("top", new("top"), rect) /\ ~Straddles("bottom", new("bottom"), rect)
      /\ ~Straddles("top", r, rect) => ~Straddles("top", new("bottom"), rect)
  BY <1>4, <1>5, <1>6 DEF MeetsX
<1>9. /\ ~Straddles("left", new("left"), rect) /\ ~Straddles("right", new("right"), rect)
      /\ ~Straddles("left", r, rect) => ~Straddles("left", new("right"), rect)
  BY <1>4, <1>5, <1>7 DEF WithinY
<1>10. /\ ~Straddles("top", r, rect) =>
            ~Straddles("top", new("left"), rect) /\ ~Straddles("top", new("right"), rect)
       /\ ~Straddles("bottom", r, rect) =>
            ~Straddles("bottom", new("left"), rect) /\ ~Straddles("bottom", new("right"), rect)
  BY <1>4, <1>5, <1>7 DEF WithinY, MeetsX
<1> QED
  BY <1>8, <1>9, <1>10 DEF Edges, new, r

LEMMA CutEnds ==
  ASSUME NEW r \in Held, NEW rect \in Held, rect.width > 0, rect.height > 0
  PROVE  \/ Inside(Cut(r, rect).r, rect)
         \/ \A a, b \in Int : ~(Has(Cut(r, rect).r, a, b) /\ Has(rect, a, b))
<1> DEFINE c0 == [r |-> r, off |-> <<>>]
           c1 == CutAt("top", c0, rect)
           c2 == CutAt("bottom", c1, rect)
           c3 == CutAt("left", c2, rect)
           c4 == CutAt("right", c3, rect)
<1>0. /\ "top" \in Edges /\ "bottom" \in Edges /\ "left" \in Edges /\ "right" \in Edges
      /\ rect \in Rectangles
  BY DEF Edges, Held
<1>1. CutWell(c0, r, rect)
  BY DEF CutWell, CoveredExactly, CoveredOnce, OffSimpler
<1> HIDE DEF c0
<1>2. CutWell(c1, r, rect)
  BY <1>0, <1>1, CutAtWell
<1>3. ~Straddles("top", c1.r, rect)
  BY <1>0, <1>1, CutAtDone DEF CutWell, Held
<1> HIDE DEF c1
<1>4. CutWell(c2, r, rect)
  BY <1>0, <1>2, CutAtWell
<1>5. ~Straddles("top", c2.r, rect) /\ ~Straddles("bottom", c2.r, rect)
  BY <1>0, <1>2, <1>3, CutAtDone DEF CutWell, Held
<1> HIDE DEF c2
<1>6. CutWell(c3, r, rect)
  BY <1>0, <1>4, CutAtWell
<1>7. ~Straddles("top", c3.r, rect) /\ ~Straddles("bottom", c3.r, rect) /\ ~Straddles("left", c3.r, rect)
  BY <1>0, <1>4, <1>5, CutAtDone DEF CutWell, Held
<1> HIDE DEF c3
<1>8. CutWell(c4, r, rect)
  BY <1>0, <1>6, CutAtWell
<1>9. /\ ~Straddles("top", c4.r, rect) /\ ~Straddles("bottom", c4.r, rect)
      /\ ~Straddles("left", c4.r, rect) /\ ~Straddles("right", c4.r, rect)
  BY <1>0, <1>6, <1>7, CutAtDone DEF CutWell, Held
<1>10. Cut(r, rect) = c4
  BY DEF Cut, c0, c1, c2, c3
<1> HIDE DEF c4
<1>11. c4.r \in Rectangles
  BY <1>8 DEF CutWell, Held
<1>12. ASSUME NEW a \in Int, NEW b \in Int, Has(c4.r, a, b), Has(rect, a, b)
       PROVE  Inside(c4.r, rect)
  <2> DEFINE s == c4.r
  <2>1. /\ s.x \in Int /\ s.y \in Int /\ EndX(s) \in Int /\ EndY(s) \in Int
        /\ rect.x \in Int /\ rect.y \in Int /\ EndX(rect) \in Int /\ EndY(rect) \in Int
    BY <1>0, <1>11, Ends
  <2>2. /\ s.x <= a /\ a < EndX(s) /\ s.y <= b /\ b < EndY(s)
        /\ rect.x <= a /\ a < EndX(rect) /\ rect.y <= b /\ b < EndY(rect)
    BY <1>12 DEF Has
  <2>3. /\ ~(s.y < rect.y /\ EndY(s) > rect.y /\ MeetsX(s, rect))
        /\ ~(s.y < EndY(rect) /\ EndY(s) > EndY(rect) /\ MeetsX(s, rect))
        /\ ~(s.x < rect.x /\ EndX(s) > rect.x /\ WithinY(s, rect))
        /\ ~(s.x < EndX(rect) /\ EndX(s) > EndX(rect) /\ WithinY(s, rect))
    BY <1>9 DEF Straddles
  <2> HIDE DEF s
  <2>4. MeetsX(s, rect)
    BY <2>1, <2>2 DEF MeetsX
  <2>5. WithinY(s, rect)
    BY <2>1, <2>2, <2>3, <2>4 DEF WithinY
  <2>6. s.x >= rect.x /\ EndX(s) <= EndX(rect)
    BY <2>1, <2>2, <2>3, <2>5
  <2> QED
    BY <2>5, <2>6 DEF Inside, s
<1> QED
  BY <1>10, <1>12

-----------------------------------------------------------------------------
(* Lists of rectangles.                                                    *)

HasAny(l, a, b) == \E k \in 1 .. Len(l) : Has(l[k], a, b)

Apart(l) ==
  \A a, b \in Int : \A j, k \in 1 .. Len(l) : j # k => ~(Has(l[j], a, b) /\ Has(l[k], a, b))

LEMMA PointsOfHad ==
  ASSUME NEW l \in Seq(Held)
  PROVE  /\ PointsOf(l) \subseteq Int \X Int
         /\ \A a, b \in Int : <<a, b>> \in PointsOf(l) <=> HasAny(l, a, b)
<1>1. DOMAIN l = 1 .. Len(l) /\ \A k \in 1 .. Len(l) : l[k] \in Rectangles
  BY DEF Held
<1>2. ASSUME NEW p \in PointsOf(l) PROVE p \in Int \X Int
  <2>1. PICK k \in 1 .. Len(l) : p \in Points(l[k])
    BY <1>1 DEF PointsOf
  <2>2. PICK a \in Int, b \in Int : p = <<a, b>>
    BY <1>1, <2>1, PointsArePairs
  <2> QED
    BY <2>2
<1>3. ASSUME NEW a \in Int, NEW b \in Int
      PROVE  <<a, b>> \in PointsOf(l) <=> HasAny(l, a, b)
  <2>1. \A k \in 1 .. Len(l) : <<a, b>> \in Points(l[k]) <=> Has(l[k], a, b)
    BY <1>1, PointsHad
  <2>2. <<a, b>> \in PointsOf(l) <=> \E k \in 1 .. Len(l) : <<a, b>> \in Points(l[k])
    BY <1>1 DEF PointsOf
  <2> QED
    BY <2>1, <2>2 DEF HasAny
<1> QED
  BY <1>2, <1>3

LEMMA SameSets ==
  ASSUME NEW S \in SUBSET (Int \X Int), NEW T \in SUBSET (Int \X Int),
         \A a, b \in Int : <<a, b>> \in S <=> <<a, b>> \in T
  PROVE  S = T
<1>1. \A p \in Int \X Int : \E a, b \in Int : p = <<a, b>>
  OBVIOUS
<1> QED
  BY <1>1

LEMMA DisjointIsApart ==
  ASSUME NEW l \in Seq(Held)
  PROVE  Disjoint(l) <=> Apart(l)
<1>1. DOMAIN l = 1 .. Len(l) /\ \A k \in 1 .. Len(l) : l[k] \in Rectangles
  BY DEF Held
<1>2. ASSUME Disjoint(l) PROVE Apart(l)
  <2> SUFFICES ASSUME NEW a \in Int, NEW b \in Int, NEW j \in 1 .. Len(l), NEW k \in 1 .. Len(l),
                      j # k, Has(l[j], a, b), Has(l[k], a, b)
               PROVE  FALSE
    BY DEF Apart
  <2>1. <<a, b>> \in Points(l[j]) /\ <<a, b>> \in Points(l[k])
    BY <1>1, PointsHad
  <2> QED
    BY <1>1, <1>2, <2>1 DEF Disjoint
<1>3. ASSUME Apart(l) PROVE Disjoint(l)
  <2> SUFFICES ASSUME NEW j \in 1 .. Len(l), NEW k \in 1 .. Len(l), j # k
               PROVE  Points(l[j]) \cap Points(l[k]) = {}
    BY <1>1 DEF Disjoint
  <2>1. \A a, b \in Int : ~(Has(l[j], a, b) /\ Has(l[k], a, b))
    BY <1>3 DEF Apart
  <2>2. l[j] \in Rectangles /\ l[k] \in Rectangles
    BY <1>1
  <2> QED
    BY <2>1, <2>2, PointsApart
<1> QED
  BY <1>2, <1>3

LEMMA Joined ==
  ASSUME NEW T, NEW s \in Seq(T), NEW t \in Seq(T)
  PROVE  /\ s \o t \in Seq(T) /\ Len(s) \in Nat /\ Len(t) \in Nat
         /\ Len(s \o t) = Len(s) + Len(t)
         /\ \A k \in 1 .. Len(s) : (s \o t)[k] = s[k]
         /\ \A k \in 1 .. Len(t) : (s \o t)[Len(s) + k] = t[k]
OBVIOUS

RemovedKnown(T, s, i) ==
  /\ RemoveAt(s, i) \in Seq(T)
  /\ Len(RemoveAt(s, i)) = Len(s) - 1
  /\ \A k \in 1 .. (Len(s) - 1) : RemoveAt(s, i)[k] = IF k < i THEN s[k] ELSE s[k + 1]

LEMMA RemovedAt ==
  ASSUME NEW T, NEW s \in Seq(T), NEW i \in 1 .. Len(s)
  PROVE  RemovedKnown(T, s, i)
<1> DEFINE front == SubSeq(s, 1, i - 1)
           back == SubSeq(s, i + 1, Len(s))
<1>0. Len(s) \in Nat /\ i \in Nat /\ i >= 1 /\ i <= Len(s)
  OBVIOUS
<1>1. /\ front \in Seq(T) /\ Len(front) = i - 1
      /\ \A k \in 1 .. (i - 1) : front[k] = s[k]
  OBVIOUS
<1>2. /\ back \in Seq(T) /\ Len(back) = Len(s) - i
      /\ \A k \in 1 .. (Len(s) - i) : back[k] = s[i + k]
  OBVIOUS
<1>3. RemoveAt(s, i) = front \o back
  BY DEF RemoveAt
<1> HIDE DEF front, back
<1>4. front \in Seq(T) /\ back \in Seq(T)
  BY <1>1, <1>2
<1>5. /\ front \o back \in Seq(T) /\ Len(front \o back) = Len(front) + Len(back)
      /\ \A k \in 1 .. Len(front) : (front \o back)[k] = front[k]
      /\ \A k \in 1 .. Len(back) : (front \o back)[Len(front) + k] = back[k]
  BY <1>4, Joined
<1> DEFINE whole == front \o back
<1> HIDE DEF whole
<1>6. /\ whole \in Seq(T) /\ Len(whole) = Len(s) - 1
      /\ \A k \in 1 .. (i - 1) : whole[k] = front[k]
      /\ \A k \in 1 .. (Len(s) - i) : whole[(i - 1) + k] = back[k]
  BY <1>0, <1>1, <1>2, <1>5 DEF whole
<1>7. ASSUME NEW k \in 1 .. (Len(s) - 1)
      PROVE  whole[k] = IF k < i THEN s[k] ELSE s[k + 1]
  <2>1. CASE k < i
    BY <1>0, <1>1, <1>6, <2>1
  <2>2. CASE k >= i
    <3>1. k - (i - 1) \in 1 .. (Len(s) - i) /\ (i - 1) + (k - (i - 1)) = k
      BY <1>0, <2>2
    <3>2. i + (k - (i - 1)) = k + 1 /\ ~(k < i)
      BY <1>0, <2>2
    <3>3. whole[k] = back[k - (i - 1)]
      BY <1>6, <3>1
    <3>4. back[k - (i - 1)] = s[k + 1]
      BY <1>2, <3>1, <3>2
    <3> QED
      BY <3>2, <3>3, <3>4
  <2> QED
    BY <1>0, <2>1, <2>2
<1> QED
  BY <1>3, <1>6, <1>7 DEF whole, RemovedKnown

(* The list with its i-th rectangle cut, before it may be removed.         *)
Rest(l, i, rect) == [l EXCEPT ![i] = Cut(l[i], rect).r] \o Cut(l[i], rect).off

RestKnown(l, i, rect) ==
  /\ Len(Cut(l[i], rect).off) \in Nat /\ Len(l) \in Nat
  /\ Rest(l, i, rect) \in Seq(Held)
  /\ Len(Rest(l, i, rect)) = Len(l) + Len(Cut(l[i], rect).off)
  /\ \A k \in 1 .. Len(l) : Rest(l, i, rect)[k] = IF k = i THEN Cut(l[i], rect).r ELSE l[k]
  /\ \A k \in 1 .. Len(Cut(l[i], rect).off) :
       Rest(l, i, rect)[Len(l) + k] = Cut(l[i], rect).off[k]

LEMMA RestIs ==
  ASSUME NEW l \in Seq(Held), NEW i \in 1 .. Len(l), NEW rect \in Held
  PROVE  RestKnown(l, i, rect)
<1> DEFINE cut == Cut(l[i], rect)
           first == [l EXCEPT ![i] = cut.r]
           off == cut.off
<1>1. l[i] \in Held
  OBVIOUS
<1>2. CutWell(cut, l[i], rect)
  BY <1>1, CutIsWell
<1>3. cut.r \in Held /\ off \in Seq(Held)
  BY <1>2 DEF CutWell
<1> HIDE DEF cut
<1>4. /\ first \in Seq(Held) /\ Len(first) = Len(l)
      /\ \A k \in 1 .. Len(l) : first[k] = IF k = i THEN cut.r ELSE l[k]
  BY <1>3
<1>5. Rest(l, i, rect) = first \o off
  BY DEF Rest, cut
<1> HIDE DEF first, off
<1>0. first \in Seq(Held) /\ off \in Seq(Held)
  BY <1>3, <1>4
<1>6. /\ first \o off \in Seq(Held) /\ Len(first \o off) = Len(first) + Len(off)
      /\ Len(first) \in Nat /\ Len(off) \in Nat
      /\ \A k \in 1 .. Len(first) : (first \o off)[k] = first[k]
      /\ \A k \in 1 .. Len(off) : (first \o off)[Len(first) + k] = off[k]
  BY <1>0, Joined
<1> QED
  BY <1>4, <1>5, <1>6 DEF off, cut, RestKnown

(* A place of the list so far is one that was there, or one cut off.       *)
LEMMA RestPlaces ==
  ASSUME NEW n \in Nat, NEW m \in Nat, NEW k \in 1 .. (n + m)
  PROVE  k \in 1 .. n \/ (k - n \in 1 .. m /\ k = n + (k - n))
OBVIOUS

LEMMA RestCovers ==
  ASSUME NEW l \in Seq(Held), NEW i \in 1 .. Len(l), NEW rect \in Held,
         NEW a \in Int, NEW b \in Int
  PROVE  HasAny(Rest(l, i, rect), a, b) <=> HasAny(l, a, b)
<1> DEFINE cut == Cut(l[i], rect)
           off == cut.off
           n == Len(l)
           m == Len(off)
           rest == Rest(l, i, rect)
<1>a. RestKnown(l, i, rect)
  BY RestIs
<1>1. /\ m \in Nat /\ n \in Nat /\ Len(rest) = n + m
      /\ \A k \in 1 .. n : rest[k] = IF k = i THEN cut.r ELSE l[k]
      /\ \A k \in 1 .. m : rest[n + k] = off[k]
  BY <1>a DEF RestKnown
<1>2. l[i] \in Held
  OBVIOUS
<1>3. CoveredExactly(cut, l[i])
  BY <1>2, CutIsWell DEF CutWell
<1>4. Has(l[i], a, b) <=> Has(cut.r, a, b) \/ \E k \in 1 .. m : Has(off[k], a, b)
  BY <1>3 DEF CoveredExactly
<1> HIDE DEF cut, off, n, m, rest
<1>5. i \in 1 .. n
  BY DEF n
<1>6. ASSUME NEW k \in 1 .. (n + m), Has(rest[k], a, b) PROVE \E j \in 1 .. n : Has(l[j], a, b)
  <2>1. CASE k \in 1 .. n
    BY <1>1, <1>4, <1>5, <1>6, <2>1
  <2>2. CASE k - n \in 1 .. m /\ k = n + (k - n)
    <3>1. Has(off[k - n], a, b)
      BY <1>1, <1>6, <2>2
    <3> QED
      BY <1>4, <1>5, <2>2, <3>1
  <2> QED
    BY <1>1, <2>1, <2>2, RestPlaces
<1>7. ASSUME NEW j \in 1 .. n, Has(l[j], a, b) PROVE \E k \in 1 .. (n + m) : Has(rest[k], a, b)
  <2>0. \A k \in 1 .. n : k \in 1 .. (n + m)
    BY <1>1
  <2>1. CASE j # i
    BY <1>1, <1>7, <2>0, <2>1
  <2>2. CASE j = i /\ Has(cut.r, a, b)
    BY <1>1, <1>5, <2>0, <2>2
  <2>3. CASE j = i /\ ~Has(cut.r, a, b)
    <3>1. PICK k \in 1 .. m : Has(off[k], a, b)
      BY <1>4, <1>7, <2>3
    <3>a. k \in Nat /\ n \in Nat /\ m \in Nat
      BY <1>1
    <3>b. n + k \in 1 .. (n + m)
      BY <3>a
    <3>2. n + k \in 1 .. (n + m) /\ rest[n + k] = off[k]
      BY <1>1, <3>b
    <3> QED
      BY <3>1, <3>2
  <2> QED
    BY <2>1, <2>2, <2>3
<1> QED
  BY <1>1, <1>6, <1>7 DEF HasAny, n, rest

LEMMA RestApart ==
  ASSUME NEW l \in Seq(Held), NEW i \in 1 .. Len(l), NEW rect \in Held, Apart(l)
  PROVE  Apart(Rest(l, i, rect))
<1> DEFINE cut == Cut(l[i], rect)
           off == cut.off
           n == Len(l)
           m == Len(off)
           rest == Rest(l, i, rect)
<1>a. RestKnown(l, i, rect)
  BY RestIs
<1>1. /\ m \in Nat /\ n \in Nat /\ Len(rest) = n + m
      /\ \A k \in 1 .. n : rest[k] = IF k = i THEN cut.r ELSE l[k]
      /\ \A k \in 1 .. m : rest[n + k] = off[k]
  BY <1>a DEF RestKnown
<1>2. l[i] \in Held
  OBVIOUS
<1>3. CoveredExactly(cut, l[i]) /\ CoveredOnce(cut)
  BY <1>2, CutIsWell DEF CutWell
<1> HIDE DEF rest
<1> SUFFICES ASSUME NEW a \in Int, NEW b \in Int,
                    NEW j \in 1 .. (n + m), NEW k \in 1 .. (n + m),
                    j # k, Has(rest[j], a, b), Has(rest[k], a, b)
             PROVE  FALSE
  BY <1>1 DEF Apart, rest
<1>4. /\ Has(l[i], a, b) <=> Has(cut.r, a, b) \/ \E p \in 1 .. m : Has(off[p], a, b)
      /\ \A p \in 1 .. m : ~(Has(cut.r, a, b) /\ Has(off[p], a, b))
      /\ \A p, q \in 1 .. m : p # q => ~(Has(off[p], a, b) /\ Has(off[q], a, b))
      /\ \A p, q \in 1 .. n : p # q => ~(Has(l[p], a, b) /\ Has(l[q], a, b))
  BY <1>3 DEF CoveredExactly, CoveredOnce, Apart
<1> HIDE DEF cut, off, n, m
<1>5. i \in 1 .. n
  BY DEF n
<1> DEFINE Old(p) == p \in 1 .. n
           New(p) == p - n \in 1 .. m /\ p = n + (p - n)
<1>6. (Old(j) \/ New(j)) /\ (Old(k) \/ New(k))
  BY <1>1, RestPlaces
(* The rectangle that a place goes back to.                                *)
<1> DEFINE From(p) == IF p \in 1 .. n THEN p ELSE i
<1>7. ASSUME NEW p \in 1 .. (n + m), Has(rest[p], a, b), Old(p) \/ New(p)
      PROVE  From(p) \in 1 .. n /\ Has(l[From(p)], a, b)
  <2>1. CASE Old(p)
    BY <1>1, <1>4, <1>5, <1>7, <2>1
  <2>2. CASE New(p) /\ ~Old(p)
    <3>1. Has(off[p - n], a, b)
      BY <1>1, <1>7, <2>2
    <3> QED
      BY <1>4, <1>5, <2>2, <3>1
  <2> QED
    BY <1>7, <2>1, <2>2
<1>8. From(j) = From(k)
  BY <1>4, <1>6, <1>7
<1>9. CASE Old(j) /\ Old(k)
  BY <1>8, <1>9
<1>10. CASE Old(j) /\ ~Old(k)
  <2>1. j = i /\ New(k)
    BY <1>6, <1>8, <1>10
  <2>2. rest[j] = cut.r /\ rest[k] = off[k - n]
    BY <1>1, <1>5, <2>1
  <2> QED
    BY <1>4, <2>1, <2>2
<1>11. CASE ~Old(j) /\ Old(k)
  <2>1. k = i /\ New(j)
    BY <1>6, <1>8, <1>11
  <2>2. rest[k] = cut.r /\ rest[j] = off[j - n]
    BY <1>1, <1>5, <2>1
  <2> QED
    BY <1>4, <2>1, <2>2
<1>12. CASE ~Old(j) /\ ~Old(k)
  <2>1. New(j) /\ New(k)
    BY <1>6, <1>12
  <2>2. rest[j] = off[j - n] /\ rest[k] = off[k - n] /\ j - n # k - n
    BY <1>1, <2>1
  <2> QED
    BY <1>4, <2>1, <2>2
<1> QED
  BY <1>9, <1>10, <1>11, <1>12

LEMMA RemovedApart ==
  ASSUME NEW s \in Seq(Held), NEW i \in 1 .. Len(s), Apart(s)
  PROVE  Apart(RemoveAt(s, i))
<1> DEFINE n == Len(s)
           t == RemoveAt(s, i)
           was(k) == IF k < i THEN k ELSE k + 1
<1>a. RemovedKnown(Held, s, i)
  BY RemovedAt
<1>1. /\ n \in Nat /\ i \in 1 .. n /\ Len(t) = n - 1
      /\ \A k \in 1 .. (n - 1) : t[k] = IF k < i THEN s[k] ELSE s[k + 1]
  BY <1>a DEF RemovedKnown
<1>2. \A k \in 1 .. (n - 1) : was(k) \in 1 .. n /\ t[k] = s[was(k)]
  BY <1>1
<1>3. \A j, k \in 1 .. (n - 1) : j # k => was(j) # was(k)
  BY <1>1
<1>4. \A a, b \in Int : \A j, k \in 1 .. n : j # k => ~(Has(s[j], a, b) /\ Has(s[k], a, b))
  BY DEF Apart
<1> HIDE DEF n, t, was
<1>5. \A a, b \in Int : \A j, k \in 1 .. (n - 1) : j # k => ~(Has(t[j], a, b) /\ Has(t[k], a, b))
  BY <1>2, <1>3, <1>4
<1> QED
  BY <1>1, <1>5 DEF Apart, t

LEMMA RemovedCovers ==
  ASSUME NEW s \in Seq(Held), NEW i \in 1 .. Len(s), NEW a \in Int, NEW b \in Int
  PROVE  HasAny(s, a, b) <=> Has(s[i], a, b) \/ HasAny(RemoveAt(s, i), a, b)
<1> DEFINE n == Len(s)
           t == RemoveAt(s, i)
<1>a. RemovedKnown(Held, s, i)
  BY RemovedAt
<1>1. /\ n \in Nat /\ i \in 1 .. n /\ Len(t) = n - 1
      /\ \A k \in 1 .. (n - 1) : t[k] = IF k < i THEN s[k] ELSE s[k + 1]
  BY <1>a DEF RemovedKnown
<1> HIDE DEF n, t
<1>2. ASSUME NEW k \in 1 .. n, k # i, Has(s[k], a, b)
      PROVE  \E j \in 1 .. (n - 1) : Has(t[j], a, b)
  <2>1. CASE k < i
    <3>1. k \in 1 .. (n - 1)
      BY <1>1, <2>1
    <3> QED
      BY <1>1, <1>2, <2>1, <3>1
  <2>2. CASE k > i
    <3>1. k - 1 \in 1 .. (n - 1) /\ ~(k - 1 < i) /\ (k - 1) + 1 = k
      BY <1>1, <2>2
    <3>2. t[k - 1] = s[k]
      BY <1>1, <3>1
    <3> QED
      BY <1>2, <3>1, <3>2
  <2> QED
    BY <1>1, <1>2, <2>1, <2>2
<1>3. ASSUME NEW j \in 1 .. (n - 1), Has(t[j], a, b)
      PROVE  \E k \in 1 .. n : Has(s[k], a, b)
  <2>1. j \in 1 .. n /\ j + 1 \in 1 .. n
    BY <1>1
  <2> QED
    BY <1>1, <1>3, <2>1
<1> QED
  BY <1>1, <1>2, <1>3 DEF HasAny, n, t

(* A pass of the loop: where it goes on, and what it leaves.               *)
LEMMA PassedIs ==
  ASSUME NEW l, NEW i, NEW rect
  PROVE  IF Inside(Cut(l[i], rect).r, rect)
         THEN Passed(l, i, rect).list = RemoveAt(Rest(l, i, rect), i) /\ Passed(l, i, rect).index = i
         ELSE Passed(l, i, rect).list = Rest(l, i, rect) /\ Passed(l, i, rect).index = i + 1
BY DEF Passed, Rest

LEMMA PassedType ==
  ASSUME NEW l \in Seq(Held), NEW i \in 1 .. Len(l), NEW rect \in Rects
  PROVE  /\ Passed(l, i, rect).list \in Seq(Held)
         /\ Passed(l, i, rect).index \in {i, i + 1}
         /\ Passed(l, i, rect).index <= Len(Passed(l, i, rect).list) + 1
         /\ i <= Len(Passed(l, i, rect).list) + 1
         /\ \A k \in 1 .. (i - 1) : Passed(l, i, rect).list[k] = l[k]
         /\ Passed(l, i, rect).index = i + 1 =>
              \A a, b \in Int : ~(Has(Passed(l, i, rect).list[i], a, b) /\ Has(rect, a, b))
<1> DEFINE cut == Cut(l[i], rect)
           rest == Rest(l, i, rect)
           m == Len(cut.off)
           n == Len(l)
           new == Passed(l, i, rect)
<1>0. rect \in Held /\ rect.width > 0 /\ rect.height > 0
  BY GivenAreHeld
<1>a. RestKnown(l, i, rect)
  BY <1>0, RestIs
<1>1. /\ m \in Nat /\ n \in Nat /\ rest \in Seq(Held) /\ Len(rest) = n + m
      /\ \A k \in 1 .. n : rest[k] = IF k = i THEN cut.r ELSE l[k]
  BY <1>a DEF RestKnown
<1>2. i \in 1 .. n /\ i \in Nat /\ i \in 1 .. Len(rest)
  BY <1>1
<1>3. l[i] \in Held
  OBVIOUS
<1>4. CASE Inside(cut.r, rect)
  <2>1. new.list = RemoveAt(rest, i) /\ new.index = i
    BY <1>4, PassedIs
  <2>a. RemovedKnown(Held, rest, i)
    BY <1>1, <1>2, RemovedAt
  <2>2. /\ RemoveAt(rest, i) \in Seq(Held) /\ Len(RemoveAt(rest, i)) = Len(rest) - 1
        /\ \A k \in 1 .. (Len(rest) - 1) :
             RemoveAt(rest, i)[k] = IF k < i THEN rest[k] ELSE rest[k + 1]
    BY <2>a DEF RemovedKnown
  <2> HIDE DEF cut, rest, m, n, new
  <2>3. \A k \in 1 .. (i - 1) : RemoveAt(rest, i)[k] = l[k]
    <3> TAKE k \in 1 .. (i - 1)
    <3>1. k \in 1 .. n /\ k \in 1 .. (Len(rest) - 1) /\ k < i /\ k # i
      BY <1>1, <1>2
    <3>2. RemoveAt(rest, i)[k] = rest[k]
      BY <2>2, <3>1
    <3>3. rest[k] = l[k]
      BY <1>1, <3>1
    <3> QED
      BY <3>2, <3>3
  <2>4. new.index # i + 1
    BY <1>2, <2>1
  <2> QED
    BY <1>1, <1>2, <2>1, <2>2, <2>3, <2>4 DEF new
<1>5. CASE ~Inside(cut.r, rect)
  <2>1. new.list = rest /\ new.index = i + 1
    BY <1>5, PassedIs
  <2>2. \A a, b \in Int : ~(Has(cut.r, a, b) /\ Has(rect, a, b))
    BY <1>0, <1>3, <1>5, CutEnds
  <2> HIDE DEF cut, rest, m, n, new
  <2>3. i <= Len(rest) + 1 /\ i + 1 <= Len(rest) + 1 /\ rest[i] = cut.r
    BY <1>1, <1>2
  <2>4. \A k \in 1 .. (i - 1) : rest[k] = l[k]
    <3> TAKE k \in 1 .. (i - 1)
    <3>a. i \in Int /\ n \in Int /\ i <= n
      BY <1>1, <1>2
    <3>b. k \in Int /\ 1 <= k /\ k <= i - 1
      BY <3>a
    <3>1. k \in 1 .. n /\ k # i
      BY <3>a, <3>b
    <3> QED
      BY <1>1, <3>1
  <2>5. \A a, b \in Int : ~(Has(new.list[i], a, b) /\ Has(rect, a, b))
    BY <2>1, <2>2, <2>3
  <2>6. \A k \in 1 .. (i - 1) : new.list[k] = l[k]
    BY <2>1, <2>4
  <2>7. new.list \in Seq(Held) /\ new.index \in {i, i + 1} /\ new.index <= Len(new.list) + 1
        /\ i <= Len(new.list) + 1
    BY <1>1, <2>1, <2>3
  <2> QED
    BY <2>5, <2>6, <2>7 DEF new
<1> QED
  BY <1>4, <1>5

(* Outside rect, a pass changes nothing, and it adds nothing within.       *)
LEMMA PassedCovers ==
  ASSUME NEW l \in Seq(Held), NEW i \in 1 .. Len(l), NEW rect \in Rects,
         NEW a \in Int, NEW b \in Int
  PROVE  ~Has(rect, a, b) => (HasAny(Passed(l, i, rect).list, a, b) <=> HasAny(l, a, b))
<1> DEFINE cut == Cut(l[i], rect)
           rest == Rest(l, i, rect)
<1>0. rect \in Held /\ rect \in Rectangles
  BY GivenAreHeld
<1>1. HasAny(rest, a, b) <=> HasAny(l, a, b)
  BY <1>0, RestCovers
<1>a. RestKnown(l, i, rect)
  BY <1>0, RestIs
<1>2. rest \in Seq(Held) /\ i \in 1 .. Len(rest) /\ rest[i] = cut.r
  BY <1>a DEF RestKnown
<1>3. l[i] \in Held
  OBVIOUS
<1>4. CASE Inside(cut.r, rect)
  <2>1. Passed(l, i, rect).list = RemoveAt(rest, i)
    BY <1>4, PassedIs
  <2>2. HasAny(rest, a, b) <=> Has(rest[i], a, b) \/ HasAny(RemoveAt(rest, i), a, b)
    BY <1>2, RemovedCovers
  <2>3. cut.r \in Rectangles
    BY <1>0, <1>3, CutIsWell DEF CutWell, Held
  <2>a. /\ cut.r.x \in Int /\ cut.r.y \in Int /\ EndX(cut.r) \in Int /\ EndY(cut.r) \in Int
        /\ rect.x \in Int /\ rect.y \in Int /\ EndX(rect) \in Int /\ EndY(rect) \in Int
    BY <1>0, <2>3, Ends
  <2> HIDE DEF cut
  <2>b. rect.x <= cut.r.x /\ EndX(cut.r) <= EndX(rect) /\ rect.y <= cut.r.y /\ EndY(cut.r) <= EndY(rect)
    BY <1>4, <2>a DEF Inside, WithinY
  <2>4. ASSUME Has(cut.r, a, b) PROVE Has(rect, a, b)
    <3>1. cut.r.x <= a /\ a < EndX(cut.r) /\ cut.r.y <= b /\ b < EndY(cut.r)
      BY <2>4 DEF Has
    <3>2. rect.x <= a /\ a < EndX(rect)
      BY <2>a, <2>b, <3>1, WithinBounds
    <3>3. rect.y <= b /\ b < EndY(rect)
      BY <2>a, <2>b, <3>1, WithinBounds
    <3> QED
      BY <3>2, <3>3 DEF Has
  <2> QED
    BY <1>1, <1>2, <2>1, <2>2, <2>4
<1>5. CASE ~Inside(cut.r, rect)
  BY <1>1, <1>5, PassedIs
<1> QED
  BY <1>4, <1>5

LEMMA PassedApart ==
  ASSUME NEW l \in Seq(Held), NEW i \in 1 .. Len(l), NEW rect \in Rects, Apart(l)
  PROVE  Apart(Passed(l, i, rect).list)
<1>0. rect \in Held
  BY GivenAreHeld
<1>1. Apart(Rest(l, i, rect))
  BY <1>0, RestApart
<1>a. RestKnown(l, i, rect)
  BY <1>0, RestIs
<1>2. Rest(l, i, rect) \in Seq(Held) /\ i \in 1 .. Len(Rest(l, i, rect))
  BY <1>a DEF RestKnown
<1>3. Apart(RemoveAt(Rest(l, i, rect), i))
  BY <1>1, <1>2, RemovedApart
<1> QED
  BY <1>1, <1>3, PassedIs

(* What is left to be looked at: what there was behind, and pieces that    *)
(* fewer edges cross.                                                      *)
LEMMA PassedLess ==
  ASSUME NEW l \in Seq(Held), NEW i \in 1 .. Len(l), NEW rect \in Rects,
         NEW next, next = Passed(l, i, rect).index,
         NEW k \in next .. Len(Passed(l, i, rect).list)
  PROVE  LET was == k + (i + 1 - next)
         IN  IF was <= Len(l) THEN Passed(l, i, rect).list[k] = l[was]
             ELSE Simpler(Passed(l, i, rect).list[k], l[i], rect)
<1> DEFINE cut == Cut(l[i], rect)
           rest == Rest(l, i, rect)
           off == cut.off
           m == Len(off)
           n == Len(l)
           new == Passed(l, i, rect)
<1>0. rect \in Held
  BY GivenAreHeld
<1>a. RestKnown(l, i, rect)
  BY <1>0, RestIs
<1>1. /\ m \in Nat /\ n \in Nat /\ rest \in Seq(Held) /\ Len(rest) = n + m
      /\ \A j \in 1 .. n : rest[j] = IF j = i THEN cut.r ELSE l[j]
      /\ \A j \in 1 .. m : rest[n + j] = off[j]
  BY <1>a DEF RestKnown
<1>2. i \in 1 .. n /\ i \in Nat /\ i \in 1 .. Len(rest)
  BY <1>1
<1>3. l[i] \in Held
  OBVIOUS
<1>4. \A j \in 1 .. m : Simpler(off[j], l[i], rect)
  BY <1>0, <1>3, CutIsWell DEF CutWell, OffSimpler
<1>5. \A j \in (i + 1) .. (n + m) : IF j <= n THEN rest[j] = l[j] ELSE Simpler(rest[j], l[i], rect)
  <2> HIDE DEF cut, rest, off, m, n
  <2> SUFFICES ASSUME NEW j \in (i + 1) .. (n + m)
               PROVE  IF j <= n THEN rest[j] = l[j] ELSE Simpler(rest[j], l[i], rect)
    OBVIOUS
  <2>1. CASE j <= n
    BY <1>1, <1>2, <2>1
  <2>2. CASE ~(j <= n)
    <3>1. j - n \in 1 .. m /\ n + (j - n) = j
      BY <1>1, <1>2, <2>2
    <3>2. rest[j] = off[j - n]
      BY <1>1, <3>1
    <3> QED
      BY <1>4, <2>2, <3>1, <3>2
  <2> QED
    BY <2>1, <2>2
<1>6. CASE Inside(cut.r, rect)
  <2>1. new.list = RemoveAt(rest, i) /\ next = i
    BY <1>6, PassedIs
  <2>a. RemovedKnown(Held, rest, i)
    BY <1>1, <1>2, RemovedAt
  <2>2. /\ RemoveAt(rest, i) \in Seq(Held) /\ Len(RemoveAt(rest, i)) = Len(rest) - 1
        /\ \A j \in 1 .. (Len(rest) - 1) :
             RemoveAt(rest, i)[j] = IF j < i THEN rest[j] ELSE rest[j + 1]
    BY <2>a DEF RemovedKnown
  <2>3. k \in i .. (n + m - 1)
    BY <1>1, <2>1, <2>2
  <2> HIDE DEF cut, rest, off, m, n, new
  <2>4. k + 1 \in (i + 1) .. (n + m) /\ new.list[k] = rest[k + 1]
    BY <1>1, <1>2, <2>1, <2>2, <2>3
  <2>5. k + (i + 1 - next) = k + 1
    BY <1>2, <2>1, <2>3
  <2>6. IF k + 1 <= n THEN new.list[k] = l[k + 1] ELSE Simpler(new.list[k], l[i], rect)
    BY <1>5, <2>4
  <2> QED
    BY <2>5, <2>6 DEF new, n
<1>7. CASE ~Inside(cut.r, rect)
  <2>1. new.list = rest /\ next = i + 1
    BY <1>7, PassedIs
  <2>2. k \in (i + 1) .. (n + m)
    BY <1>1, <2>1
  <2> HIDE DEF cut, rest, off, m, n, new
  <2>3. k + (i + 1 - next) = k
    BY <1>2, <2>1, <2>2
  <2>4. IF k <= n THEN new.list[k] = l[k] ELSE Simpler(new.list[k], l[i], rect)
    BY <1>5, <2>1, <2>2
  <2> QED
    BY <2>3, <2>4 DEF new, n
<1> QED
  BY <1>6, <1>7

-----------------------------------------------------------------------------
(* intersect.                                                              *)

LEMMA IntersectionIs ==
  ASSUME NEW rect \in Held, NEW r \in Held
  PROVE  /\ Intersection(rect, r) \in Held
         /\ Inside(Intersection(rect, r), rect)
         /\ \A a, b \in Int : Has(Intersection(rect, r), a, b) <=> Has(rect, a, b) /\ Has(r, a, b)
         /\ Intersection(rect, r).width \in Int /\ Intersection(rect, r).height \in Int
<1> DEFINE x == Max({rect.x, r.x})
           y == Max({rect.y, r.y})
           ex == Min({EndX(rect), EndX(r)})
           ey == Min({EndY(rect), EndY(r)})
           s == Intersection(rect, r)
<1>0. rect \in Rectangles /\ r \in Rectangles /\ InPlane(rect) /\ InPlane(r)
  BY DEF Held
<1>1. /\ r.x \in Int /\ r.y \in Int /\ EndX(r) \in Int /\ EndY(r) \in Int
      /\ rect.x \in Int /\ rect.y \in Int /\ EndX(rect) \in Int /\ EndY(rect) \in Int
  BY <1>0, Ends
<1>2. /\ x = (IF rect.x >= r.x THEN rect.x ELSE r.x)
      /\ y = (IF rect.y >= r.y THEN rect.y ELSE r.y)
      /\ ex = (IF EndX(rect) <= EndX(r) THEN EndX(rect) ELSE EndX(r))
      /\ ey = (IF EndY(rect) <= EndY(r) THEN EndY(rect) ELSE EndY(r))
  BY <1>1, MaxOfTwo, MinOfTwo
<1>3. s = Rect(x, y, ex - x, ey - y)
  BY DEF Intersection
<1> HIDE DEF x, y, ex, ey, s
<1> DEFINE w == ex - x
           h == ey - y
<1>4. /\ x \in Int /\ y \in Int /\ ex \in Int /\ ey \in Int
      /\ w \in Int /\ h \in Int /\ x + w = ex /\ y + h = ey
  BY <1>1, <1>2
<1> HIDE DEF w, h
<1>5. /\ Rect(x, y, w, h) \in Rectangles
      /\ Rect(x, y, w, h).x = x /\ Rect(x, y, w, h).y = y
      /\ EndX(Rect(x, y, w, h)) = x + w /\ EndY(Rect(x, y, w, h)) = y + h
  BY <1>4, RectIs
<1>6. /\ s \in Rectangles /\ s.x = x /\ s.y = y
      /\ EndX(s) = ex /\ EndY(s) = ey
  BY <1>3, <1>4, <1>5 DEF w, h
<1>7. InPlane(s)
  BY <1>0, <1>1, <1>2, <1>6 DEF InPlane
<1>8. Inside(s, rect)
  BY <1>1, <1>2, <1>6 DEF Inside, WithinY
<1>9. \A a, b \in Int : Has(s, a, b) <=> Has(rect, a, b) /\ Has(r, a, b)
  BY <1>1, <1>2, <1>6 DEF Has
<1> QED
  BY <1>6, <1>7, <1>8, <1>9, Ends DEF Held, s

(* createIntersect, up to the n-th rectangle.                              *)
KeepsAlong(f, l, rect, n) ==
  f = [k \in 0 .. n |->
         IF k = 0 THEN <<>>
         ELSE LET r == Intersection(rect, l[k])
              IN  IF r.width # 0 /\ r.height # 0 THEN Append(f[k - 1], r) ELSE f[k - 1]]

LEMMA KeptExists ==
  ASSUME NEW l, NEW rect, NEW n \in Nat
  PROVE  \E f : KeepsAlong(f, l, rect, n)
<1> DEFINE lacking == {m \in Nat : ~\E f : KeepsAlong(f, l, rect, m)}
<1> SUFFICES ASSUME lacking # {} PROVE FALSE
  OBVIOUS
<1>1. lacking \in SUBSET Nat
  OBVIOUS
<1> DEFINE m == Min(lacking)
<1>2. m \in lacking /\ \A k \in lacking : m <= k
  BY <1>1, MinOfNats
<1> HIDE DEF m
<1>3. CASE m = 0
  <2>1. KeepsAlong([k \in 0 .. 0 |-> <<>>], l, rect, 0)
    BY DEF KeepsAlong
  <2> QED
    BY <1>2, <1>3, <2>1
<1>4. CASE m # 0
  <2>1. m \in Nat /\ m - 1 \in Nat /\ ~(m <= m - 1)
    BY <1>2, <1>4
  <2>2. m - 1 \notin lacking
    BY <1>2, <2>1
  <2>3. PICK f : KeepsAlong(f, l, rect, m - 1)
    BY <2>1, <2>2
  <2> DEFINE r(k) == Intersection(rect, l[k])
             next(g, k) == IF r(k).width # 0 /\ r(k).height # 0
                           THEN Append(g[k - 1], r(k)) ELSE g[k - 1]
             g == [k \in 0 .. m |-> IF k = m THEN next(f, m) ELSE f[k]]
  <2>4. f = [k \in 0 .. (m - 1) |-> IF k = 0 THEN <<>> ELSE next(f, k)]
    BY <2>3 DEF KeepsAlong
  <2>a. \A g1, g2, k : g1[k - 1] = g2[k - 1] => next(g1, k) = next(g2, k)
    OBVIOUS
  <2> HIDE DEF r, next
  <2>b. \A k \in 0 .. m : g[k] = IF k = m THEN next(f, m) ELSE f[k]
    OBVIOUS
  <2> HIDE DEF g
  <2>5. \A k \in 0 .. (m - 1) : g[k] = f[k] /\ f[k] = IF k = 0 THEN <<>> ELSE next(f, k)
    <3> SUFFICES ASSUME NEW k \in 0 .. (m - 1)
                 PROVE  g[k] = f[k] /\ f[k] = IF k = 0 THEN <<>> ELSE next(f, k)
      OBVIOUS
    <3>1. k \in 0 .. m /\ k # m
      BY <2>1
    <3>2. f[k] = IF k = 0 THEN <<>> ELSE next(f, k)
      BY <2>4, Zenon
    <3> QED
      BY <2>b, <3>1, <3>2
  <2>6. ASSUME NEW k \in 0 .. m
        PROVE  g[k] = IF k = 0 THEN <<>> ELSE next(g, k)
    <3>1. CASE k = 0
      <4>1. k \in 0 .. (m - 1)
        BY <1>4, <2>1, <3>1
      <4> QED
        BY <2>5, <3>1, <4>1
    <3>2. CASE k # 0
      <4>1. k - 1 \in 0 .. (m - 1)
        BY <2>1, <3>2
      <4>2. next(g, k) = next(f, k)
        BY <2>5, <2>a, <4>1
      <4>3. CASE k = m
        BY <2>b, <3>2, <4>2, <4>3
      <4>4. CASE k # m
        <5>1. k \in 0 .. (m - 1)
          BY <2>1, <4>4
        <5> QED
          BY <2>5, <3>2, <4>2, <5>1
      <4> QED
        BY <4>3, <4>4
    <3> QED
      BY <3>1, <3>2
  <2>7. g = [k \in 0 .. m |-> g[k]]
    BY DEF g
  <2>8. g = [k \in 0 .. m |-> IF k = 0 THEN <<>> ELSE next(g, k)]
    BY <2>6, <2>7
  <2>9. KeepsAlong(g, l, rect, m)
    BY <2>8 DEF KeepsAlong, next, r
  <2> QED
    BY <1>2, <2>9
<1> QED
  BY <1>3, <1>4

LEMMA KeptIs ==
  ASSUME NEW l \in Seq(Held), NEW rect
  PROVE  /\ Kept(l, rect)[0] = <<>>
         /\ \A n \in 1 .. Len(l) :
              LET r == Intersection(rect, l[n])
              IN  Kept(l, rect)[n] = IF r.width # 0 /\ r.height # 0
                                     THEN Append(Kept(l, rect)[n - 1], r)
                                     ELSE Kept(l, rect)[n - 1]
<1> DEFINE f == Kept(l, rect)
<1>1. Len(l) \in Nat
  OBVIOUS
<1>2. f = CHOOSE g : KeepsAlong(g, l, rect, Len(l))
  BY DEF Kept, KeepsAlong
<1>3. KeepsAlong(f, l, rect, Len(l))
  BY <1>1, <1>2, KeptExists
<1> HIDE DEF f
<1>4. \A k \in 0 .. Len(l) :
        f[k] = IF k = 0 THEN <<>>
               ELSE LET r == Intersection(rect, l[k])
                    IN  IF r.width # 0 /\ r.height # 0 THEN Append(f[k - 1], r) ELSE f[k - 1]
  BY <1>3 DEF KeepsAlong
<1>5. f[0] = <<>>
  BY <1>1, <1>4
<1>6. ASSUME NEW n \in 1 .. Len(l)
      PROVE  LET r == Intersection(rect, l[n])
             IN  f[n] = IF r.width # 0 /\ r.height # 0 THEN Append(f[n - 1], r) ELSE f[n - 1]
  <2>1. n \in 0 .. Len(l) /\ n # 0
    OBVIOUS
  <2> QED
    BY <1>4, <2>1
<1> QED
  BY <1>5, <1>6 DEF f

(* What has been kept of the first n rectangles of l.                      *)
KeptWell(kept, l, rect, n) ==
  /\ kept \in Seq(Held)
  /\ \A j \in 1 .. Len(kept) : Inside(kept[j], rect)
  /\ \A j \in 1 .. Len(kept) : \E k \in 1 .. n :
       \A a, b \in Int : Has(kept[j], a, b) => Has(l[k], a, b)
  /\ \A a, b \in Int :
       HasAny(kept, a, b) <=> Has(rect, a, b) /\ \E k \in 1 .. n : Has(l[k], a, b)
  /\ Apart(l) => Apart(kept)

LEMMA KeptStep ==
  ASSUME NEW l \in Seq(Held), NEW rect \in Held, NEW n \in 1 .. Len(l),
         NEW kept, KeptWell(kept, l, rect, n - 1),
         NEW new, new = LET r == Intersection(rect, l[n])
                        IN  IF r.width # 0 /\ r.height # 0 THEN Append(kept, r) ELSE kept
  PROVE  KeptWell(new, l, rect, n)
<1> DEFINE r == Intersection(rect, l[n])
           m == Len(kept)
<1>0. /\ kept \in Seq(Held) /\ m \in Nat /\ Len(l) \in Nat /\ n \in Nat /\ n >= 1
      /\ \A k \in 1 .. n : k = n \/ k \in 1 .. (n - 1)
      /\ \A k \in 1 .. (n - 1) : k \in 1 .. n /\ k # n /\ k \in 1 .. Len(l)
      /\ n \in 1 .. n
  BY DEF KeptWell
<1>1. /\ r \in Held /\ Inside(r, rect)
      /\ \A a, b \in Int : Has(r, a, b) <=> Has(rect, a, b) /\ Has(l[n], a, b)
  BY IntersectionIs
<1>2. /\ r \in Rectangles /\ EndX(r) = r.x + r.width /\ EndY(r) = r.y + r.height
      /\ r.x \in Int /\ r.y \in Int /\ r.width \in Int /\ r.height \in Int
  BY <1>1, Ends DEF Held
<1>3. new = IF r.width # 0 /\ r.height # 0 THEN Append(kept, r) ELSE kept
  OBVIOUS
<1> HIDE DEF r
<1>4. CASE r.width # 0 /\ r.height # 0
  <2>1. /\ new \in Seq(Held) /\ Len(new) = m + 1 /\ new[m + 1] = r
        /\ \A j \in 1 .. m : new[j] = kept[j]
        /\ \A j \in 1 .. (m + 1) : j = m + 1 \/ j \in 1 .. m
        /\ \A j \in 1 .. m : j \in 1 .. (m + 1) /\ j # m + 1
        /\ m + 1 \in 1 .. (m + 1)
    BY <1>0, <1>1, <1>3, <1>4
  <2> HIDE DEF m
  <2>2. \A j \in 1 .. Len(new) : Inside(new[j], rect)
    BY <1>1, <2>1 DEF KeptWell, m
  <2>3. ASSUME NEW j \in 1 .. (m + 1)
        PROVE  \E k \in 1 .. n : \A a, b \in Int : Has(new[j], a, b) => Has(l[k], a, b)
    <3>1. CASE j = m + 1
      BY <1>0, <1>1, <2>1, <3>1
    <3>2. CASE j \in 1 .. m
      <4>1. PICK k \in 1 .. (n - 1) : \A a, b \in Int : Has(kept[j], a, b) => Has(l[k], a, b)
        BY <3>2 DEF KeptWell, m
      <4> QED
        BY <1>0, <2>1, <3>2, <4>1
    <3> QED
      BY <2>1, <3>1, <3>2
  <2>4. ASSUME NEW a \in Int, NEW b \in Int
        PROVE  HasAny(new, a, b) <=> Has(rect, a, b) /\ \E k \in 1 .. n : Has(l[k], a, b)
    <3>1. HasAny(kept, a, b) <=> Has(rect, a, b) /\ \E k \in 1 .. (n - 1) : Has(l[k], a, b)
      BY DEF KeptWell
    <3>2. HasAny(new, a, b) <=> Has(r, a, b) \/ HasAny(kept, a, b)
      BY <2>1 DEF HasAny, m
    <3>3. Has(r, a, b) <=> Has(rect, a, b) /\ Has(l[n], a, b)
      BY <1>1
    <3>4. (\E k \in 1 .. n : Has(l[k], a, b))
            <=> Has(l[n], a, b) \/ \E k \in 1 .. (n - 1) : Has(l[k], a, b)
      BY <1>0
    <3> QED
      BY <3>1, <3>2, <3>3, <3>4
  <2>5. ASSUME Apart(l) PROVE Apart(new)
    <3> SUFFICES ASSUME NEW a \in Int, NEW b \in Int, NEW i \in 1 .. (m + 1), NEW j \in 1 .. (m + 1),
                        i # j, Has(new[i], a, b), Has(new[j], a, b)
                 PROVE  FALSE
      BY <2>1 DEF Apart
    <3>1. ASSUME NEW p \in 1 .. m, Has(kept[p], a, b), Has(r, a, b) PROVE FALSE
      <4>1. PICK k \in 1 .. (n - 1) : \A c, d \in Int : Has(kept[p], c, d) => Has(l[k], c, d)
        BY DEF KeptWell, m
      <4>2. Has(l[k], a, b) /\ Has(l[n], a, b) /\ k # n /\ k \in 1 .. Len(l)
        BY <1>0, <1>1, <3>1, <4>1
      <4> QED
        BY <2>5, <4>2 DEF Apart
    <3>2. \A p, q \in 1 .. m : p # q => ~(Has(kept[p], a, b) /\ Has(kept[q], a, b))
      BY <2>5 DEF KeptWell, Apart, m
    <3> QED
      BY <2>1, <3>1, <3>2
  <2> QED
    BY <2>1, <2>2, <2>3, <2>4, <2>5 DEF KeptWell
<1>5. CASE ~(r.width # 0 /\ r.height # 0)
  <2>1. new = kept
    BY <1>3, <1>5
  <2>2. \A a, b \in Int : ~Has(r, a, b)
    BY <1>2, <1>5 DEF Has
  <2>3. ASSUME NEW a \in Int, NEW b \in Int
        PROVE  HasAny(kept, a, b) <=> Has(rect, a, b) /\ \E k \in 1 .. n : Has(l[k], a, b)
    <3>1. HasAny(kept, a, b) <=> Has(rect, a, b) /\ \E k \in 1 .. (n - 1) : Has(l[k], a, b)
      BY DEF KeptWell
    <3>2. ~(Has(rect, a, b) /\ Has(l[n], a, b))
      BY <1>1, <2>2
    <3>3. (\E k \in 1 .. n : Has(l[k], a, b))
            <=> Has(l[n], a, b) \/ \E k \in 1 .. (n - 1) : Has(l[k], a, b)
      BY <1>0
    <3> QED
      BY <3>1, <3>2, <3>3
  <2>4. ASSUME NEW j \in 1 .. Len(kept)
        PROVE  \E k \in 1 .. n : \A a, b \in Int : Has(kept[j], a, b) => Has(l[k], a, b)
    <3>1. PICK k \in 1 .. (n - 1) : \A a, b \in Int : Has(kept[j], a, b) => Has(l[k], a, b)
      BY DEF KeptWell
    <3> QED
      BY <1>0, <3>1
  <2> QED
    BY <2>1, <2>3, <2>4 DEF KeptWell
<1> QED
  BY <1>4, <1>5

LEMMA KeptIsWell ==
  ASSUME NEW l \in Seq(Held), NEW rect \in Held
  PROVE  KeptWell(Kept(l, rect)[Len(l)], l, rect, Len(l))
<1> DEFINE f == Kept(l, rect)
           bad == {n \in 0 .. Len(l) : ~KeptWell(f[n], l, rect, n)}
<1>0. Len(l) \in Nat
  OBVIOUS
<1> SUFFICES ASSUME bad # {} PROVE FALSE
  BY <1>0
<1>1. bad \in SUBSET Nat
  BY <1>0
<1> DEFINE n == Min(bad)
<1>2. n \in bad /\ \A k \in bad : n <= k
  BY <1>1, MinOfNats
<1> HIDE DEF n, f
<1>3. CASE n = 0
  <2>1. f[0] = <<>>
    BY KeptIs DEF f
  <2>2. KeptWell(<<>>, l, rect, 0)
    BY DEF KeptWell, HasAny, Apart
  <2> QED
    BY <1>2, <1>3, <2>1, <2>2
<1>4. CASE n # 0
  <2>1. n \in 1 .. Len(l) /\ n - 1 \in 0 .. Len(l) /\ ~(n <= n - 1)
    BY <1>0, <1>2, <1>4
  <2>2. KeptWell(f[n - 1], l, rect, n - 1)
    BY <1>2, <2>1
  <2>3. f[n] = LET r == Intersection(rect, l[n])
               IN  IF r.width # 0 /\ r.height # 0 THEN Append(f[n - 1], r) ELSE f[n - 1]
    BY <2>1, KeptIs DEF f
  <2>4. KeptWell(f[n], l, rect, n)
    BY <2>1, <2>2, <2>3, KeptStep
  <2> QED
    BY <1>2, <2>4
<1> QED
  BY <1>3, <1>4

-----------------------------------------------------------------------------
(* Bounds.                                                                 *)

LEMMA BoundsAre ==
  ASSUME NEW l \in Seq(Held), l # <<>>, NEW rect \in Held,
         \A k \in 1 .. Len(l) : Inside(l[k], rect)
  PROVE  /\ GetBounds(l) \in Rectangles
         /\ \A a, b \in Int : HasAny(l, a, b) => Has(GetBounds(l), a, b)
         /\ \A a, b \in Int : Has(GetBounds(l), a, b) => Has(rect, a, b)
<1> DEFINE xs == {l[k].x : k \in DOMAIN l}
           ys == {l[k].y : k \in DOMAIN l}
           exs == {EndX(l[k]) : k \in DOMAIN l}
           eys == {EndY(l[k]) : k \in DOMAIN l}
<1>1. DOMAIN l = 1 .. Len(l) /\ 1 \in DOMAIN l /\ rect \in Rectangles
      /\ \A k \in DOMAIN l : l[k] \in Rectangles /\ InPlane(l[k])
  BY DEF Held
<1>2. /\ xs \in SUBSET (0 .. Width) /\ exs \in SUBSET (0 .. Width)
      /\ ys \in SUBSET (0 .. Height) /\ eys \in SUBSET (0 .. Height)
  BY <1>1 DEF InPlane
<1>3. xs # {} /\ ys # {} /\ exs # {} /\ eys # {} /\ Width \in Nat /\ Height \in Nat
  BY <1>1, PlaneIsSane
<1>4. xs \in SUBSET Nat /\ ys \in SUBSET Nat
  BY <1>2, <1>3
<1> DEFINE x == Min(xs)
           y == Min(ys)
           ex == Max(exs)
           ey == Max(eys)
<1>5. x \in xs /\ \A t \in xs : x <= t
  BY <1>3, <1>4, MinOfNats
<1>6. y \in ys /\ \A t \in ys : y <= t
  BY <1>3, <1>4, MinOfNats
<1>7. ex \in exs /\ \A t \in exs : ex >= t
  BY <1>2, <1>3, MaxOfBounded
<1>8. ey \in eys /\ \A t \in eys : ey >= t
  BY <1>2, <1>3, MaxOfBounded
<1> HIDE DEF x, y, ex, ey
<1>9. \A k \in DOMAIN l : x <= l[k].x /\ y <= l[k].y /\ EndX(l[k]) <= ex /\ EndY(l[k]) <= ey
                          /\ l[k].x \in Int /\ l[k].y \in Int /\ EndX(l[k]) \in Int /\ EndY(l[k]) \in Int
  BY <1>1, <1>5, <1>6, <1>7, <1>8, Ends
<1>10. PICK i \in DOMAIN l, j \in DOMAIN l, p \in DOMAIN l, q \in DOMAIN l :
         x = l[i].x /\ y = l[j].y /\ ex = EndX(l[p]) /\ ey = EndY(l[q])
  BY <1>5, <1>6, <1>7, <1>8
<1>11. /\ x \in Int /\ y \in Int /\ ex \in Int /\ ey \in Int
       /\ rect.x <= x /\ rect.y <= y /\ ex <= EndX(rect) /\ ey <= EndY(rect)
  BY <1>1, <1>9, <1>10 DEF Inside, WithinY
<1>12. GetBounds(l) = Rect(x, y, ex - x, ey - y)
  BY DEF GetBounds, x, y, ex, ey
<1> DEFINE w == ex - x
           h == ey - y
<1>13. w \in Int /\ h \in Int /\ x + w = ex /\ y + h = ey
  BY <1>11
<1> DEFINE box == GetBounds(l)
<1>14. box = Rect(x, y, w, h)
  BY <1>12
<1> HIDE DEF w, h, box
<1>b. x \in Int /\ y \in Int /\ w \in Int /\ h \in Int
  BY <1>11, <1>13
<1>a. /\ Rect(x, y, w, h) \in Rectangles
      /\ Rect(x, y, w, h).x = x /\ Rect(x, y, w, h).y = y
      /\ EndX(Rect(x, y, w, h)) = x + w /\ EndY(Rect(x, y, w, h)) = y + h
  <2> HIDE DEF xs, ys, exs, eys
  <2> QED
    BY <1>b DEF Rect, Rectangles, EndX, EndY
<1>15. box \in Rectangles /\ box.x = x /\ box.y = y /\ EndX(box) = ex /\ EndY(box) = ey
  BY <1>13, <1>14, <1>a
<1> HIDE DEF xs, ys, exs, eys
<1>16. ASSUME NEW a \in Int, NEW b \in Int, HasAny(l, a, b) PROVE Has(box, a, b)
  <2>1. PICK k \in DOMAIN l : Has(l[k], a, b)
    BY <1>1, <1>16 DEF HasAny
  <2>2. /\ x <= l[k].x /\ y <= l[k].y /\ EndX(l[k]) <= ex /\ EndY(l[k]) <= ey
        /\ l[k].x \in Int /\ l[k].y \in Int /\ EndX(l[k]) \in Int /\ EndY(l[k]) \in Int
    BY <1>9
  <2>3. l[k].x <= a /\ a < EndX(l[k]) /\ l[k].y <= b /\ b < EndY(l[k])
    BY <2>1 DEF Has
  <2>a. x \in Int /\ y \in Int /\ ex \in Int /\ ey \in Int
    BY <1>11
  <2>e. /\ x \in Int /\ l[k].x \in Int /\ a \in Int /\ EndX(l[k]) \in Int /\ ex \in Int
        /\ x <= l[k].x /\ l[k].x <= a /\ a < EndX(l[k]) /\ EndX(l[k]) <= ex
    BY <2>2, <2>3, <2>a
  <2>f. /\ y \in Int /\ l[k].y \in Int /\ b \in Int /\ EndY(l[k]) \in Int /\ ey \in Int
        /\ y <= l[k].y /\ l[k].y <= b /\ b < EndY(l[k]) /\ EndY(l[k]) <= ey
    BY <2>2, <2>3, <2>a
  <2>c. x <= a /\ a < ex
    BY <2>e, WithinBounds
  <2>d. y <= b /\ b < ey
    BY <2>f, WithinBounds
  <2>b. x <= a /\ a < ex /\ y <= b /\ b < ey
    BY <2>c, <2>d
  <2>4. box.x <= a /\ a < EndX(box) /\ box.y <= b /\ b < EndY(box)
    BY <1>15, <2>b
  <2> QED
    BY <2>4 DEF Has
<1>17. ASSUME NEW a \in Int, NEW b \in Int, Has(box, a, b) PROVE Has(rect, a, b)
  <2>1. rect.x \in Int /\ rect.y \in Int /\ EndX(rect) \in Int /\ EndY(rect) \in Int
    BY <1>1, Ends
  <2> QED
    <3>1. box.x = x /\ box.y = y /\ EndX(box) = ex /\ EndY(box) = ey
      BY <1>15
    <3>2. x <= a /\ a < ex /\ y <= b /\ b < ey
      BY <1>17, <3>1 DEF Has
    <3>3. /\ x \in Int /\ y \in Int /\ ex \in Int /\ ey \in Int
          /\ rect.x <= x /\ rect.y <= y /\ ex <= EndX(rect) /\ ey <= EndY(rect)
      BY <1>11
    <3>a. /\ rect.x \in Int /\ x \in Int /\ a \in Int /\ ex \in Int /\ EndX(rect) \in Int
          /\ rect.x <= x /\ x <= a /\ a < ex /\ ex <= EndX(rect)
      BY <2>1, <3>2, <3>3
    <3>b. /\ rect.y \in Int /\ y \in Int /\ b \in Int /\ ey \in Int /\ EndY(rect) \in Int
          /\ rect.y <= y /\ y <= b /\ b < ey /\ ey <= EndY(rect)
      BY <2>1, <3>2, <3>3
    <3>4. rect.x <= a /\ a < EndX(rect)
      BY <3>a, WithinBounds
    <3>5. rect.y <= b /\ b < EndY(rect)
      BY <3>b, WithinBounds
    <3> QED
      BY <3>4, <3>5 DEF Has
<1> QED
  BY <1>15, <1>16, <1>17 DEF box

-----------------------------------------------------------------------------
(* union and translate.                                                    *)

LEMMA MergedIs ==
  ASSUME NEW r \in Held, NEW rect \in Rects, Merges(r, rect)
  PROVE  /\ Merged(r, rect) \in Held
         /\ Merged(r, rect).y = r.y /\ Merged(r, rect).height = r.height
         /\ \A a, b \in Int : Has(Merged(r, rect), a, b) <=> Has(r, a, b) \/ Has(rect, a, b)
<1> DEFINE s == Merged(r, rect)
           ex == Max({EndX(r), EndX(rect)})
           x == Min({r.x, rect.x})
<1>0. /\ r \in Rectangles /\ rect \in Rectangles /\ InPlane(r) /\ InPlane(rect)
      /\ rect.width > 0 /\ rect.height > 0
  BY GivenAreHeld DEF Held
<1>1. /\ r.x \in Int /\ r.y \in Int /\ EndX(r) \in Int /\ EndY(r) \in Int /\ r.height \in Int
      /\ rect.x \in Int /\ rect.y \in Int /\ EndX(rect) \in Int /\ EndY(rect) \in Int
      /\ rect.x < EndX(rect) /\ rect.y < EndY(rect)
      /\ EndY(r) = r.y + r.height /\ EndY(rect) = rect.y + rect.height
  BY <1>0, Ends
<1>2. /\ ex = (IF EndX(r) >= EndX(rect) THEN EndX(r) ELSE EndX(rect))
      /\ x = (IF r.x <= rect.x THEN r.x ELSE rect.x)
  BY <1>1, MaxOfTwo, MinOfTwo
<1>3. r = [x |-> r.x, y |-> r.y, width |-> r.width, height |-> r.height]
  BY <1>0 DEF Rectangles
<1> DEFINE nx == IF MergesLeft(r, rect) THEN rect.x ELSE x
           nex == IF MergesLeft(r, rect) THEN ex ELSE EndX(rect)
<1>4. s = [x |-> nx, y |-> r.y, width |-> nex - nx, height |-> r.height]
  <2>1. CASE MergesLeft(r, rect)
    BY <1>3, <2>1 DEF Merged
  <2>2. CASE ~MergesLeft(r, rect)
    BY <1>3, <2>2 DEF Merged
  <2> QED
    BY <2>1, <2>2
<1> HIDE DEF s, x, ex
<1>5. nx \in Int /\ nex \in Int
  BY <1>1, <1>2
<1>a. /\ r.y = rect.y /\ EndY(r) = EndY(rect)
      /\ MergesLeft(r, rect) \/ MergesRight(r, rect)
      /\ MergesLeft(r, rect) <=> EndX(rect) >= r.x /\ rect.x < r.x
      /\ MergesRight(r, rect) <=> rect.x <= EndX(r) /\ EndX(rect) >= EndX(r)
  BY <1>0, <1>1 DEF Merges, MergesLeft, MergesRight
<1>6. /\ s \in Rectangles /\ s.x = nx /\ s.y = r.y /\ EndX(s) = nex /\ EndY(s) = EndY(r)
      /\ s.height = r.height
  <2> HIDE DEF nx, nex
  <2> QED
    BY <1>1, <1>4, <1>5 DEF Rectangles, EndX, EndY
<1>7. InPlane(s)
  BY <1>0, <1>1, <1>2, <1>6 DEF InPlane
<1>8. \A a, b \in Int : Has(s, a, b) <=> Has(r, a, b) \/ Has(rect, a, b)
  BY <1>1, <1>2, <1>6, <1>a DEF Has
<1> QED
  BY <1>6, <1>7, <1>8 DEF Held, s

LEMMA MovedIs ==
  ASSUME NEW r \in Rectangles, NEW dx \in Int, NEW dy \in Int
  PROVE  LET s == [r EXCEPT !.x = @ + dx, !.y = @ + dy]
         IN  /\ s \in Rectangles /\ s.x = r.x + dx /\ s.y = r.y + dy
             /\ EndX(s) = EndX(r) + dx /\ EndY(s) = EndY(r) + dy
<1>1. /\ r.x \in Int /\ r.y \in Int /\ r.width \in Int /\ r.height \in Int
      /\ r = [x |-> r.x, y |-> r.y, width |-> r.width, height |-> r.height]
  BY DEF Rectangles
<1> DEFINE s == [r EXCEPT !.x = @ + dx, !.y = @ + dy]
           t == [r EXCEPT !.x = @ + dx]
<1>a. s = [t EXCEPT !.y = r.y + dy]
  OBVIOUS
<1>b. t = [x |-> r.x + dx, y |-> r.y, width |-> r.width, height |-> r.height]
  BY <1>1
<1> HIDE DEF s, t
<1>2. s = [x |-> r.x + dx, y |-> r.y + dy, width |-> r.width, height |-> r.height]
  BY <1>a, <1>b
<1>3. /\ s \in Rectangles /\ s.x = r.x + dx /\ s.y = r.y + dy
      /\ EndX(s) = EndX(r) + dx /\ EndY(s) = EndY(r) + dy
  BY <1>1, <1>2 DEF Rectangles, EndX, EndY
<1> QED
  BY <1>3 DEF s

-----------------------------------------------------------------------------
(* The inductive invariant: nothing leaves the plane, and what the loop    *)
(* has passed does not meet the rectangle that is taken out.               *)

Cleared ==
  \A k \in 1 .. (index - 1) : \A a, b \in Int : ~(Has(list[k], a, b) /\ Has(call.rect, a, b))

InLoop ==
  /\ call.op \in {"union", "subtract"} /\ call.rect \in Rects
  /\ index <= Len(list) + 1
  /\ Cleared

IInv ==
  /\ list \in Seq(Held)
  /\ index \in Nat
  /\ index # 0 => InLoop

(* Outside the loop, whatever is called.                                   *)
LEMMA IdleInLoop ==
  ASSUME IInv, call = NoCall
  PROVE  index = 0
BY DEF IInv, InLoop, NoCall

(* What the easy merge makes of the list.                                  *)
LEMMA MergeMakes ==
  ASSUME IInv, NEW rect \in Rects, UnionMerges(rect)
  PROVE  /\ Min(Easy(rect)) \in 1 .. Len(list)
         /\ list' = [list EXCEPT ![Min(Easy(rect))] = list'[Min(Easy(rect))]]
         /\ list'[Min(Easy(rect))].y = list[Min(Easy(rect))].y
         /\ list'[Min(Easy(rect))].height = list[Min(Easy(rect))].height
         /\ list' \in Seq(Held)
         /\ \A a, b \in Int : HasAny(list', a, b) <=> HasAny(list, a, b) \/ Has(rect, a, b)
<1> DEFINE k == Min(Easy(rect))
<1>0. list \in Seq(Held) /\ DOMAIN list = 1 .. Len(list) /\ Len(list) \in Nat
  BY DEF IInv
<1>1. Easy(rect) \in SUBSET Nat /\ Easy(rect) # {} /\ list' = [list EXCEPT ![k] = Merged(list[k], rect)]
  BY <1>0 DEF Easy, UnionMerges
<1>2. k \in Easy(rect)
  BY <1>1, MinOfNats
<1> HIDE DEF k
<1>3. k \in 1 .. Len(list) /\ Merges(list[k], rect) /\ list[k] \in Held
  BY <1>0, <1>2 DEF Easy
<1> DEFINE s == Merged(list[k], rect)
<1>4. /\ s \in Held /\ s.y = list[k].y /\ s.height = list[k].height
      /\ \A a, b \in Int : Has(s, a, b) <=> Has(list[k], a, b) \/ Has(rect, a, b)
  BY <1>3, MergedIs
<1> HIDE DEF s
<1>5. list' = [list EXCEPT ![k] = s]
  BY <1>1 DEF s
<1>6. /\ list' \in Seq(Held) /\ Len(list') = Len(list) /\ list'[k] = s
      /\ \A j \in 1 .. Len(list) : j # k => list'[j] = list[j]
  BY <1>0, <1>3, <1>4, <1>5
<1>7. ASSUME NEW a \in Int, NEW b \in Int
      PROVE  HasAny(list', a, b) <=> HasAny(list, a, b) \/ Has(rect, a, b)
  <2>1. Has(list'[k], a, b) <=> Has(list[k], a, b) \/ Has(rect, a, b)
    BY <1>4, <1>6
  <2>2. HasAny(list', a, b) <=> \E j \in 1 .. Len(list) : Has(list'[j], a, b)
    BY <1>6 DEF HasAny
  <2>3. HasAny(list, a, b) <=> \E j \in 1 .. Len(list) : Has(list[j], a, b)
    BY DEF HasAny
  <2> QED
    BY <1>3, <1>6, <2>1, <2>2, <2>3
<1> QED
  BY <1>3, <1>4, <1>5, <1>6, <1>7 DEF k

LEMMA ShiftMakes ==
  ASSUME IInv, NEW dx \in Int, NEW dy \in Int, Translate(dx, dy)
  PROVE  /\ list' \in Seq(Held)
         /\ \A a, b \in Int : HasAny(list', a, b) <=> HasAny(list, a - dx, b - dy)
         /\ Apart(list) => Apart(list')
<1>0. list \in Seq(Held) /\ DOMAIN list = 1 .. Len(list) /\ Len(list) \in Nat
      /\ \A k \in 1 .. Len(list) : list[k] \in Rectangles
  BY DEF IInv, Held
<1> DEFINE s(k) == [list[k] EXCEPT !.x = @ + dx, !.y = @ + dy]
<1>1. list' = [k \in 1 .. Len(list) |-> s(k)]
  BY <1>0 DEF Translate, Shifted
<1>2. ASSUME NEW k \in 1 .. Len(list)
      PROVE  /\ s(k) \in Held
             /\ \A a, b \in Int : Has(s(k), a, b) <=> Has(list[k], a - dx, b - dy)
  <2>1. list[k] \in Rectangles
    BY <1>0
  <2>2. /\ s(k) \in Rectangles /\ s(k).x = list[k].x + dx /\ s(k).y = list[k].y + dy
        /\ EndX(s(k)) = EndX(list[k]) + dx /\ EndY(s(k)) = EndY(list[k]) + dy
    BY <2>1, MovedIs
  <2>3. /\ list[k].x \in Int /\ list[k].y \in Int /\ EndX(list[k]) \in Int /\ EndY(list[k]) \in Int
    BY <2>1, Ends
  <2> HIDE DEF s
  <2>4. /\ list[k].x + dx \in 0 .. Width /\ EndX(list[k]) + dx \in 0 .. Width
        /\ list[k].y + dy \in 0 .. Height /\ EndY(list[k]) + dy \in 0 .. Height
    BY <1>0 DEF Translate
  <2>5. s(k) \in Held
    BY <2>2, <2>4 DEF Held, InPlane
  <2>6. \A a, b \in Int : Has(s(k), a, b) <=> Has(list[k], a - dx, b - dy)
    <3> SUFFICES ASSUME NEW a \in Int, NEW b \in Int
                 PROVE  Has(s(k), a, b) <=> Has(list[k], a - dx, b - dy)
      OBVIOUS
    <3> DEFINE x == list[k].x
               y == list[k].y
               ex == EndX(list[k])
               ey == EndY(list[k])
    <3>1. x \in Int /\ y \in Int /\ ex \in Int /\ ey \in Int
      BY <2>3
    <3>2. Has(s(k), a, b) <=> x + dx <= a /\ a < ex + dx /\ y + dy <= b /\ b < ey + dy
      BY <2>2 DEF Has
    <3>3. Has(list[k], a - dx, b - dy) <=> x <= a - dx /\ a - dx < ex /\ y <= b - dy /\ b - dy < ey
      BY DEF Has
    <3> HIDE DEF x, y, ex, ey
    <3> QED
      BY <3>1, <3>2, <3>3
  <2> QED
    BY <2>5, <2>6
<1> HIDE DEF s
<1>3. /\ list' \in Seq(Held) /\ Len(list') = Len(list)
      /\ \A k \in 1 .. Len(list) : list'[k] = s(k)
  BY <1>0, <1>1, <1>2
<1>4. \A a, b \in Int : \A k \in 1 .. Len(list) :
        Has(list'[k], a, b) <=> Has(list[k], a - dx, b - dy)
  BY <1>2, <1>3
<1>5. \A a, b \in Int : HasAny(list', a, b) <=> HasAny(list, a - dx, b - dy)
  BY <1>3, <1>4 DEF HasAny
<1>6. ASSUME Apart(list) PROVE Apart(list')
  <2> SUFFICES ASSUME NEW a \in Int, NEW b \in Int,
                      NEW j \in 1 .. Len(list), NEW k \in 1 .. Len(list), j # k
               PROVE  ~(Has(list'[j], a, b) /\ Has(list'[k], a, b))
    BY <1>3 DEF Apart
  <2>1. a - dx \in Int /\ b - dy \in Int
    OBVIOUS
  <2>2. ~(Has(list[j], a - dx, b - dy) /\ Has(list[k], a - dx, b - dy))
    BY <1>6, <2>1 DEF Apart
  <2> QED
    BY <1>4, <2>2
<1> QED
  BY <1>3, <1>5, <1>6

LEMMA IntersectMakes ==
  ASSUME IInv, NEW rect \in Rects, Intersect(rect)
  PROVE  /\ list' \in Seq(Held)
         /\ \A a, b \in Int : HasAny(list', a, b) <=> HasAny(list, a, b) /\ Has(rect, a, b)
         /\ Apart(list) => Apart(list')
<1>0. list \in Seq(Held) /\ rect \in Held
  BY GivenAreHeld DEF IInv
<1>1. KeptWell(list', list, rect, Len(list))
  BY <1>0, KeptIsWell DEF Intersect, CreateIntersect
<1> QED
  BY <1>1 DEF KeptWell, HasAny

LEMMA IterateMakes ==
  ASSUME IInv, Iterate
  PROVE  /\ call.rect \in Rects /\ index \in 1 .. Len(list) /\ list \in Seq(Held)
         /\ list' = Passed(list, index, call.rect).list
         /\ index' = Passed(list, index, call.rect).index
         /\ call' = call
         /\ list' \in Seq(Held) /\ index' \in {index, index + 1}
         /\ index' <= Len(list') + 1
         /\ Cleared'
<1>1. /\ list \in Seq(Held) /\ index \in 1 .. Len(list) /\ index \in Nat /\ index # 0
      /\ call.rect \in Rects /\ Cleared
  BY DEF IInv, InLoop, Iterate
<1>2. /\ list' = Passed(list, index, call.rect).list
      /\ index' = Passed(list, index, call.rect).index
      /\ call' = call
  BY DEF Iterate
<1>3. /\ list' \in Seq(Held)
      /\ index' \in {index, index + 1}
      /\ index' <= Len(list') + 1
      /\ \A k \in 1 .. (index - 1) : list'[k] = list[k]
      /\ index' = index + 1 =>
           \A a, b \in Int : ~(Has(list'[index], a, b) /\ Has(call.rect, a, b))
  BY <1>1, <1>2, PassedType
<1>4. Cleared'
  <2> SUFFICES ASSUME NEW k \in 1 .. (index' - 1), NEW a \in Int, NEW b \in Int
               PROVE  ~(Has(list'[k], a, b) /\ Has(call.rect, a, b))
    BY <1>2 DEF Cleared
  <2>1. CASE k \in 1 .. (index - 1)
    BY <1>1, <1>3, <2>1 DEF Cleared
  <2>2. CASE k \notin 1 .. (index - 1)
    <3>0. index' \in {index, index + 1} /\ index \in Nat
      BY <1>1, <1>3
    <3>1. k = index /\ index' = index + 1
      <4>1. index' # index
        BY <2>2
      <4>2. index' = index + 1
        BY <3>0, <4>1
      <4>3. k \in 1 .. index
        BY <3>0, <4>2
      <4> QED
        BY <2>2, <3>0, <4>2, <4>3
    <3> QED
      BY <1>3, <3>1
  <2> QED
    BY <2>1, <2>2
<1> QED
  BY <1>1, <1>2, <1>3, <1>4

LEMMA EndMakes ==
  ASSUME IInv, EndLoop
  PROVE  /\ call.op \in {"union", "subtract"} /\ call.rect \in Rects
         /\ list' \in Seq(Held)
         /\ \A a, b \in Int : HasAny(list, a, b) => ~Has(call.rect, a, b)
         /\ \A a, b \in Int :
              HasAny(list', a, b) <=> HasAny(list, a, b) \/ (call.op = "union" /\ Has(call.rect, a, b))
         /\ Apart(list) => Apart(list')
<1> DEFINE n == Len(list)
           rect == call.rect
<1>1. /\ list \in Seq(Held) /\ n \in Nat /\ index = n + 1
      /\ call.op \in {"union", "subtract"} /\ rect \in Rects /\ rect \in Held /\ Cleared
  BY GivenAreHeld DEF IInv, InLoop, EndLoop
<1>2. \A k \in 1 .. n : \A a, b \in Int : ~(Has(list[k], a, b) /\ Has(rect, a, b))
  BY <1>1 DEF Cleared
<1>3. \A a, b \in Int : HasAny(list, a, b) => ~Has(rect, a, b)
  BY <1>2 DEF HasAny
<1>4. CASE call.op = "union"
  <2>1. list' = Append(list, rect)
    BY <1>4 DEF EndLoop
  <2> HIDE DEF rect
  <2>2. /\ list' \in Seq(Held) /\ Len(list') = n + 1 /\ list'[n + 1] = rect
        /\ \A k \in 1 .. n : list'[k] = list[k]
    BY <1>1, <2>1
  <2>3. /\ \A k \in 1 .. (n + 1) : k = n + 1 \/ k \in 1 .. n
        /\ \A k \in 1 .. n : k \in 1 .. (n + 1) /\ k # n + 1
        /\ n + 1 \in 1 .. (n + 1)
    BY <1>1
  <2>4. \A a, b \in Int : HasAny(list', a, b) <=> HasAny(list, a, b) \/ Has(rect, a, b)
    BY <2>2, <2>3 DEF HasAny
  <2>5. ASSUME Apart(list) PROVE Apart(list')
    BY <1>2, <2>2, <2>3, <2>5 DEF Apart
  <2> QED
    BY <1>1, <1>3, <1>4, <2>2, <2>4, <2>5 DEF rect
<1>5. CASE call.op # "union"
  BY <1>1, <1>3, <1>5 DEF EndLoop
<1> QED
  BY <1>4, <1>5

LEMMA IInvInit == Init => IInv
BY DEF Init, IInv

LEMMA IInvNext == IInv /\ [Next]_vars => IInv'
<1> SUFFICES ASSUME IInv, [Next]_vars PROVE IInv'
  OBVIOUS
<1>0. list \in Seq(Held) /\ index \in Nat /\ Len(list) \in Nat
  BY DEF IInv
<1>1. ASSUME NEW rect \in Rects, UnionMerges(rect) PROVE IInv'
  <2>1. list' \in Seq(Held)
    BY <1>1, MergeMakes
  <2>2. index = 0 /\ index' = 0
    BY <1>1, IdleInLoop DEF UnionMerges, Called
  <2> QED
    BY <2>1, <2>2 DEF IInv
<1>2. ASSUME NEW rect \in Rects, UnionSubtracts(rect) \/ Subtract(rect) PROVE IInv'
  <2>1. /\ list' = list /\ index' = 1 /\ call'.rect = rect
        /\ call'.op \in {"union", "subtract"}
    BY <1>2 DEF UnionSubtracts, Subtract, Called, Asked
  <2>2. Cleared'
    BY <2>1 DEF Cleared
  <2> QED
    BY <1>0, <2>1, <2>2 DEF IInv, InLoop
<1>3. ASSUME NEW rect \in Rects, Intersect(rect) PROVE IInv'
  <2>1. list' \in Seq(Held)
    BY <1>3, IntersectMakes
  <2>2. index = 0 /\ index' = 0
    BY <1>3, IdleInLoop DEF Intersect, Called
  <2> QED
    BY <2>1, <2>2 DEF IInv
<1>4. CASE Iterate
  <2>1. /\ list' \in Seq(Held) /\ index' \in {index, index + 1} /\ index' <= Len(list') + 1
        /\ Cleared' /\ call' = call /\ index \in 1 .. Len(list)
    BY <1>4, IterateMakes
  <2>2. InLoop /\ index' \in Nat
    BY <1>0, <2>1 DEF IInv
  <2> QED
    BY <2>1, <2>2 DEF IInv, InLoop
<1>5. CASE EndLoop
  <2>1. list' \in Seq(Held) /\ index' = 0
    BY <1>5, EndMakes DEF EndLoop
  <2> QED
    BY <2>1 DEF IInv
<1>6. ASSUME NEW dx \in Int, NEW dy \in Int, Translate(dx, dy) PROVE IInv'
  <2>1. list' \in Seq(Held)
    BY <1>6, ShiftMakes
  <2>2. index = 0 /\ index' = 0
    BY <1>6, IdleInLoop DEF Translate, Called
  <2> QED
    BY <2>1, <2>2 DEF IInv
<1>7. CASE Return
  BY <1>0, <1>7 DEF IInv, Return
<1>8. CASE UNCHANGED vars
  BY <1>8 DEF IInv, InLoop, Cleared, vars
<1> QED
  BY <1>1, <1>2, <1>3, <1>4, <1>5, <1>6, <1>7, <1>8 DEF Next

THEOREM Invariance == Spec => []IInv
BY IInvInit, IInvNext, PTL DEF Spec

-----------------------------------------------------------------------------
(* The properties.                                                         *)

LEMMA HeldTypes ==
  ASSUME NEW r \in Held
  PROVE  r \in [x : 0 .. Width, y : 0 .. Height,
                width : (-Width) .. Width, height : (-Height) .. Height]
<1>1. r \in Rectangles /\ InPlane(r)
  BY DEF Held
<1>2. /\ r.x \in 0 .. Width /\ r.x + r.width \in 0 .. Width
      /\ r.y \in 0 .. Height /\ r.y + r.height \in 0 .. Height
      /\ r.width \in Int /\ r.height \in Int
  BY <1>1, Ends DEF InPlane
<1>3. r.width \in (-Width) .. Width /\ r.height \in (-Height) .. Height
  BY <1>2, PlaneIsSane
<1>4. r = [x |-> r.x, y |-> r.y, width |-> r.width, height |-> r.height]
  BY <1>1 DEF Rectangles
<1> QED
  BY <1>2, <1>3, <1>4

(* No call takes a rectangle out of the plane, whichever rectangles have   *)
(* come to be of negative size.                                            *)
THEOREM StaysInPlane == Spec => []TypeOK
<1>1. IInv => TypeOK
  <2> SUFFICES ASSUME IInv PROVE TypeOK
    OBVIOUS
  <2> DEFINE T == [x : 0 .. Width, y : 0 .. Height,
                   width : (-Width) .. Width, height : (-Height) .. Height]
  <2>1. Held \subseteq T
    BY HeldTypes
  <2>2. list \in Seq(Held)
    BY DEF IInv
  <2> HIDE DEF T
  <2>3. list \in Seq(T)
    BY <2>1, <2>2
  <2> QED
    BY <2>3 DEF TypeOK, T
<1> QED
  BY <1>1, Invariance, PTL

(* The bounds of what meets a tile cover the damage within the tile and    *)
(* stay inside it, for every list, with rectangles of negative size too.   *)
THEOREM ClipsAreSafe == Spec => []ClipIsSafe
<1>1. IInv => ClipIsSafe
  <2> SUFFICES ASSUME IInv, NEW rect \in Rects
               PROVE  LET clip == Points(GetBounds(CreateIntersect(rect)))
                      IN  Covered \cap Points(rect) \subseteq clip /\ clip \subseteq Points(rect)
    BY DEF ClipIsSafe
  <2> DEFINE kept == CreateIntersect(rect)
             box == GetBounds(kept)
  <2>1. list \in Seq(Held) /\ rect \in Held /\ rect \in Rectangles
    BY GivenAreHeld DEF IInv
  <2>2. KeptWell(kept, list, rect, Len(list))
    BY <2>1, KeptIsWell DEF CreateIntersect
  <2> HIDE DEF kept
  <2>3. /\ kept \in Seq(Held) /\ \A j \in 1 .. Len(kept) : Inside(kept[j], rect)
        /\ \A a, b \in Int : HasAny(kept, a, b) <=> HasAny(list, a, b) /\ Has(rect, a, b)
    BY <2>2 DEF KeptWell, HasAny
  <2>4. /\ box \in Rectangles
        /\ \A a, b \in Int : HasAny(kept, a, b) => Has(box, a, b)
        /\ \A a, b \in Int : Has(box, a, b) => Has(rect, a, b)
    <3>1. CASE kept # <<>>
      BY <2>1, <2>3, <3>1, BoundsAre
    <3>2. CASE kept = <<>>
      <4>1. box = Rect(0, 0, 0, 0)
        BY <3>2 DEF GetBounds
      <4>2. box \in Rectangles /\ \A a, b \in Int : ~Has(box, a, b)
        BY <4>1 DEF Rect, Rectangles, Has, EndX, EndY
      <4>3. \A a, b \in Int : ~HasAny(kept, a, b)
        BY <3>2 DEF HasAny
      <4> QED
        BY <4>2, <4>3
    <3> QED
      BY <3>1, <3>2
  <2> HIDE DEF box
  <2>5. ASSUME NEW p \in Covered \cap Points(rect) PROVE p \in Points(box)
    <3>1. PICK a \in Int, b \in Int : p = <<a, b>> /\ Has(rect, a, b)
      BY <2>1, PointsArePairs
    <3>2. HasAny(list, a, b)
      BY <2>1, <3>1, PointsOfHad DEF Covered
    <3> QED
      BY <2>3, <2>4, <3>1, <3>2, PointsHad
  <2>6. Points(box) \subseteq Points(rect)
    <3>1. \A a, b \in Int : Has(box, a, b) => <<a, b>> \in Points(rect)
      BY <2>1, <2>4, PointsHad
    <3> QED
      BY <2>4, <3>1, PointsWithin
  <2> QED
    BY <2>5, <2>6 DEF box, kept
<1> QED
  BY <1>1, Invariance, PTL

(* Every pass of subtract's loop leaves behind it what was to be looked at *)
(* and pieces that strictly fewer edges cross: the loop ends, whatever the *)
(* list it starts from.                                                    *)
THEOREM LoopGoesOn == Spec => PassesLeaveLess
<1> DEFINE Pass ==
      index # 0 /\ index' # 0 =>
        \A k \in index' .. Len(list') :
          LET was == k + (index + 1 - index')
          IN  IF was <= Len(list) THEN list'[k] = list[was]
              ELSE /\ CrossedBy(list'[k], call.rect) \subseteq CrossedBy(list[index], call.rect)
                   /\ CrossedBy(list'[k], call.rect) # CrossedBy(list[index], call.rect)
<1>1. IInv /\ [Next]_vars => [Pass]_vars
  <2> SUFFICES ASSUME IInv, Next, index # 0, index' # 0,
                      NEW k \in index' .. Len(list')
               PROVE  LET was == k + (index + 1 - index')
                      IN  IF was <= Len(list) THEN list'[k] = list[was]
                          ELSE Simpler(list'[k], list[index], call.rect)
    BY DEF Simpler
  <2>1. call # NoCall
    BY IdleInLoop
  <2>2. Iterate
    BY <2>1 DEF Next, UnionMerges, UnionSubtracts, Subtract, Intersect, Translate, Called,
                EndLoop, Return
  <2>3. /\ call.rect \in Rects /\ index \in 1 .. Len(list) /\ list \in Seq(Held)
        /\ list' = Passed(list, index, call.rect).list
        /\ index' = Passed(list, index, call.rect).index
    BY <2>2, IterateMakes
  <2> QED
    BY <2>3, PassedLess
<1>2. PassesLeaveLess <=> [][Pass]_vars
  BY DEF PassesLeaveLess
<1> QED
  BY <1>1, <1>2, Invariance, PTL DEF Spec

(* Only the easy merge makes rectangles overlap.                           *)
THEOREM OthersDoNotOverlap == Spec => OnlyMergesOverlap
<1> DEFINE Widened ==
      \E k \in DOMAIN list \cap DOMAIN list' :
        /\ list' = [list EXCEPT ![k] = list'[k]]
        /\ list'[k].y = list[k].y /\ list'[k].height = list[k].height
<1>1. IInv /\ IInv' /\ [Next]_vars => [Disjoint(list) /\ ~Disjoint(list') => Widened]_vars
  <2> SUFFICES ASSUME IInv, IInv', Next, Disjoint(list), ~Disjoint(list') PROVE Widened
    OBVIOUS
  <2>1. list \in Seq(Held) /\ list' \in Seq(Held)
    BY DEF IInv
  <2>2. Apart(list) /\ ~Apart(list')
    BY <2>1, DisjointIsApart
  <2>3. ASSUME NEW rect \in Rects, UnionMerges(rect) PROVE Widened
    <3> DEFINE k == Min(Easy(rect))
    <3>1. /\ k \in 1 .. Len(list)
          /\ list' = [list EXCEPT ![k] = list'[k]]
          /\ list'[k].y = list[k].y /\ list'[k].height = list[k].height
      BY <2>3, MergeMakes
    <3> HIDE DEF k
    <3>2. k \in DOMAIN list /\ k \in DOMAIN list'
      BY <2>1, <3>1
    <3> QED
      BY <3>1, <3>2
  <2>4. \A rect \in Rects : ~UnionSubtracts(rect) /\ ~Subtract(rect) /\ ~Intersect(rect)
    BY <2>2, IntersectMakes DEF UnionSubtracts, Subtract
  <2>5. ~Iterate
    BY <2>2, IterateMakes, PassedApart
  <2>6. ~EndLoop
    BY <2>2, EndMakes
  <2>7. \A dx, dy \in Int : ~Translate(dx, dy)
    BY <2>2, ShiftMakes
  <2>8. ~Return
    BY <2>2 DEF Return
  <2> QED
    BY <2>3, <2>4, <2>5, <2>6, <2>7, <2>8 DEF Next
<1>2. OnlyMergesOverlap <=> [][Disjoint(list) /\ ~Disjoint(list') => Widened]_vars
  BY DEF OnlyMergesOverlap
<1> QED
  BY <1>1, <1>2, Invariance, PTL DEF Spec

-----------------------------------------------------------------------------
(* The list of rectangles implements a set of points.                      *)

RemainingHas(a, b) ==
  IF index = 0 THEN HasAny(list, a, b)
  ELSE \/ HasAny(list, a, b) /\ ~Has(call.rect, a, b)
       \/ call.op = "union" /\ Has(call.rect, a, b)

RemainingKnown ==
  /\ Remaining \in SUBSET (Int \X Int)
  /\ \A a, b \in Int : <<a, b>> \in Remaining <=> RemainingHas(a, b)

LEMMA RemainingNow == IInv => RemainingKnown
<1> SUFFICES ASSUME IInv PROVE RemainingKnown
  OBVIOUS
<1>1. /\ Covered \subseteq Int \X Int
      /\ \A a, b \in Int : <<a, b>> \in Covered <=> HasAny(list, a, b)
  BY PointsOfHad DEF IInv, Covered
<1>2. CASE index = 0
  BY <1>1, <1>2 DEF RemainingKnown, RemainingHas, Remaining
<1>3. CASE index # 0
  <2>1. call.rect \in Rectangles
    BY <1>3, GivenAreHeld DEF IInv, InLoop
  <2>2. Points(call.rect) \subseteq Int \X Int
    BY <2>1, PointsArePairs
  <2>3. \A a, b \in Int : <<a, b>> \in Points(call.rect) <=> Has(call.rect, a, b)
    BY <2>1, PointsHad
  <2> QED
    BY <1>1, <1>3, <2>2, <2>3 DEF RemainingKnown, RemainingHas, Remaining
<1> QED
  BY <1>2, <1>3

LEMMA GivenPoints ==
  ASSUME NEW rect \in Rects
  PROVE  /\ Promise!Points(rect) \in SUBSET (Int \X Int)
         /\ \A a, b \in Int : <<a, b>> \in Promise!Points(rect) <=> Has(rect, a, b)
<1>1. rect \in Rectangles
  BY GivenAreHeld
<1>2. Promise!Points(rect) = Points(rect)
  BY DEF Promise!Points, Points, EndX, EndY
<1> QED
  BY <1>1, <1>2, PointsArePairs, PointsHad

LEMMA PromiseStep ==
  ASSUME IInv, IInv', RemainingKnown, RemainingKnown', [Next]_vars
  PROVE  [Promise!Next]_(Promise!vars)
<1>0. /\ Remaining \in SUBSET (Int \X Int) /\ Remaining' \in SUBSET (Int \X Int)
      /\ \A a, b \in Int : <<a, b>> \in Remaining <=> RemainingHas(a, b)
      /\ \A a, b \in Int : <<a, b>> \in Remaining' <=> RemainingHas(a, b)'
  BY DEF RemainingKnown
<1>a. /\ Promise!NoCall = NoCall
      /\ \A op, rect : Promise!Asked(op, rect) = Asked(op, rect)
  BY DEF Promise!NoCall, Promise!Asked, NoCall, Asked, Rect
<1>1. ASSUME NEW rect \in Rects, UnionMerges(rect) \/ UnionSubtracts(rect)
      PROVE  Promise!Next
  <2>1. /\ call = NoCall /\ index = 0 /\ call' = Asked("union", rect)
        /\ call'.op = "union" /\ call'.rect = rect
    BY <1>1, IdleInLoop DEF UnionMerges, UnionSubtracts, Called, Asked
  <2>2. ASSUME NEW a \in Int, NEW b \in Int
        PROVE  RemainingHas(a, b)' <=> RemainingHas(a, b) \/ Has(rect, a, b)
    <3>1. CASE UnionMerges(rect)
      <4>1. index' = 0 /\ (HasAny(list', a, b) <=> HasAny(list, a, b) \/ Has(rect, a, b))
        BY <2>1, <3>1, MergeMakes DEF UnionMerges
      <4> QED
        BY <2>1, <4>1 DEF RemainingHas
    <3>2. CASE UnionSubtracts(rect)
      <4>1. index' = 1 /\ list' = list
        BY <3>2 DEF UnionSubtracts
      <4> QED
        BY <2>1, <4>1 DEF RemainingHas
    <3> QED
      BY <1>1, <3>1, <3>2
  <2>3. \A a, b \in Int : <<a, b>> \in Remaining' <=> <<a, b>> \in Remaining \cup Promise!Points(rect)
    BY <1>0, <2>2, GivenPoints
  <2>4. Remaining \cup Promise!Points(rect) \in SUBSET (Int \X Int)
    BY <1>0, GivenPoints
  <2>5. Remaining' = Remaining \cup Promise!Points(rect)
    BY <1>0, <2>3, <2>4, SameSets
  <2>6. Promise!Union(rect)
    BY <1>a, <2>1, <2>5 DEF Promise!Union, Promise!Idle
  <2> QED
    BY <2>6 DEF Promise!Next
<1>2. ASSUME NEW rect \in Rects, Subtract(rect)
      PROVE  Promise!Next
  <2>1. /\ call = NoCall /\ index = 0 /\ call' = Asked("subtract", rect)
        /\ call'.op = "subtract" /\ call'.rect = rect /\ index' = 1 /\ list' = list
    BY <1>2, IdleInLoop DEF Subtract, Called, Asked
  <2>2. \A a, b \in Int : RemainingHas(a, b)' <=> RemainingHas(a, b) /\ ~Has(rect, a, b)
    BY <2>1 DEF RemainingHas
  <2>3. \A a, b \in Int : <<a, b>> \in Remaining' <=> <<a, b>> \in Remaining \ Promise!Points(rect)
    BY <1>0, <2>2, GivenPoints
  <2>4. Remaining \ Promise!Points(rect) \in SUBSET (Int \X Int)
    BY <1>0
  <2>5. Remaining' = Remaining \ Promise!Points(rect)
    BY <1>0, <2>3, <2>4, SameSets
  <2>6. Promise!Subtract(rect)
    BY <1>a, <2>1, <2>5 DEF Promise!Subtract, Promise!Idle
  <2> QED
    BY <2>6 DEF Promise!Next
<1>3. ASSUME NEW rect \in Rects, Intersect(rect)
      PROVE  Promise!Next
  <2>1. call = NoCall /\ index = 0 /\ call' = Asked("intersect", rect) /\ index' = 0
    BY <1>3, IdleInLoop DEF Intersect, Called
  <2>2. \A a, b \in Int : RemainingHas(a, b)' <=> RemainingHas(a, b) /\ Has(rect, a, b)
    BY <1>3, <2>1, IntersectMakes DEF RemainingHas
  <2>3. \A a, b \in Int : <<a, b>> \in Remaining' <=> <<a, b>> \in Remaining \cap Promise!Points(rect)
    BY <1>0, <2>2, GivenPoints
  <2>4. Remaining \cap Promise!Points(rect) \in SUBSET (Int \X Int)
    BY <1>0
  <2>5. Remaining' = Remaining \cap Promise!Points(rect)
    BY <1>0, <2>3, <2>4, SameSets
  <2>6. Promise!Intersect(rect)
    BY <1>a, <2>1, <2>5 DEF Promise!Intersect, Promise!Idle
  <2> QED
    BY <2>6 DEF Promise!Next
<1>4. CASE Iterate
  <2>1. /\ call.rect \in Rects /\ index \in 1 .. Len(list) /\ list \in Seq(Held)
        /\ list' = Passed(list, index, call.rect).list
        /\ call' = call /\ index' \in {index, index + 1}
    BY <1>4, IterateMakes
  <2>2. index # 0 /\ index' # 0
    BY <2>1
  <2>3. ASSUME NEW a \in Int, NEW b \in Int
        PROVE  RemainingHas(a, b)' <=> RemainingHas(a, b)
    <3>1. ~Has(call.rect, a, b) => (HasAny(list', a, b) <=> HasAny(list, a, b))
      BY <2>1, PassedCovers
    <3> QED
      BY <2>1, <2>2, <3>1 DEF RemainingHas
  <2>4. \A a, b \in Int : <<a, b>> \in Remaining' <=> <<a, b>> \in Remaining
    BY <1>0, <2>3
  <2>5. Remaining' = Remaining
    BY <1>0, <2>4, SameSets
  <2> QED
    BY <2>1, <2>5 DEF Promise!vars
<1>5. CASE EndLoop
  <2>1. index # 0 /\ index' = 0 /\ call' = NoCall /\ call # NoCall
    BY <1>5, IdleInLoop DEF EndLoop
  <2>2. \A a, b \in Int : RemainingHas(a, b)' <=> RemainingHas(a, b)
    BY <1>5, <2>1, EndMakes DEF RemainingHas
  <2>3. \A a, b \in Int : <<a, b>> \in Remaining' <=> <<a, b>> \in Remaining
    BY <1>0, <2>2
  <2>4. Remaining' = Remaining
    BY <1>0, <2>3, SameSets
  <2>5. Promise!Return
    BY <1>a, <2>1, <2>4 DEF Promise!Return, Promise!Idle
  <2> QED
    BY <2>5 DEF Promise!Next
<1>6. ASSUME NEW dx \in Int, NEW dy \in Int, Translate(dx, dy)
      PROVE  Promise!Translate(dx, dy)
  <2>1. call = NoCall /\ index = 0 /\ call' = Asked("translate", Rect(dx, dy, 0, 0)) /\ index' = 0
    BY <1>6, IdleInLoop DEF Translate, Called
  <2>2. ASSUME NEW a \in Int, NEW b \in Int
        PROVE  RemainingHas(a, b)' <=> RemainingHas(a - dx, b - dy)
    <3>1. HasAny(list', a, b) <=> HasAny(list, a - dx, b - dy)
      BY <1>6, ShiftMakes
    <3> QED
      BY <2>1, <3>1 DEF RemainingHas
  <2> DEFINE moved == {<<p[1] + dx, p[2] + dy>> : p \in Remaining}
  <2>3. moved \in SUBSET (Int \X Int)
    BY <1>0
  <2>4. ASSUME NEW a \in Int, NEW b \in Int
        PROVE  <<a, b>> \in Remaining' <=> <<a, b>> \in moved
    <3>1. a - dx \in Int /\ b - dy \in Int /\ (a - dx) + dx = a /\ (b - dy) + dy = b
      OBVIOUS
    <3>2. <<a, b>> \in Remaining' <=> <<a - dx, b - dy>> \in Remaining
      BY <1>0, <2>2, <3>1
    <3>3. <<a - dx, b - dy>> \in Remaining => <<a, b>> \in moved
      BY <3>1
    <3>4. ASSUME <<a, b>> \in moved PROVE <<a - dx, b - dy>> \in Remaining
      <4>1. PICK p \in Remaining : <<a, b>> = <<p[1] + dx, p[2] + dy>>
        BY <3>4
      <4>2. p \in Int \X Int
        BY <1>0
      <4>3. p = <<a - dx, b - dy>>
        BY <4>1, <4>2
      <4> QED
        BY <4>3
    <3> QED
      BY <3>2, <3>3, <3>4
  <2>5. Remaining' = moved
    BY <1>0, <2>3, <2>4, SameSets
  <2> QED
    BY <1>a, <2>1, <2>5 DEF Promise!Translate, Promise!Idle, Rect
<1>7. CASE Return
  <2>1. index = 0 /\ index' = 0 /\ list' = list /\ call # NoCall /\ call' = NoCall
    BY <1>7 DEF Return
  <2>2. Remaining' = Remaining
    BY <2>1 DEF Remaining, Covered
  <2>3. Promise!Return
    BY <1>a, <2>1, <2>2 DEF Promise!Return, Promise!Idle
  <2> QED
    BY <2>3 DEF Promise!Next
<1>8. CASE UNCHANGED vars
  BY <1>8 DEF vars, Promise!vars, Remaining, Covered
<1>9. \A d \in {-1, 1} : d \in Int /\ 0 \in Int
  OBVIOUS
<1>10. ASSUME NEW d \in {-1, 1}, Translate(d, 0) \/ Translate(0, d) PROVE Promise!Next
  BY <1>6, <1>9, <1>10 DEF Promise!Next
<1> QED
  BY <1>1, <1>2, <1>3, <1>4, <1>5, <1>7, <1>8, <1>10 DEF Next

(* The list of rectangles is a set of points to its callers: a union adds, *)
(* a subtraction takes out, an intersection keeps exactly the points of    *)
(* its rectangle, and no pass of the loop changes what the outcome is.     *)
THEOREM RegionIsASetOfPoints == Spec => Implements
<1>1. Init => Promise!Init
  <2>1. ASSUME Init PROVE Remaining = {}
    BY <2>1 DEF Init, Remaining, Covered, PointsOf
  <2> QED
    BY <2>1 DEF Init, Promise!Init, Promise!NoCall, NoCall, Rect
<1>2. IInv /\ IInv' /\ RemainingKnown /\ RemainingKnown' /\ [Next]_vars
        => [Promise!Next]_(Promise!vars)
  BY PromiseStep
<1> QED
  BY <1>1, <1>2, RemainingNow, Invariance, PTL DEF Spec, Implements, Promise!Spec
=============================================================================
