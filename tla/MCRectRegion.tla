---------------------------- MODULE MCRectRegion ----------------------------
(***************************************************************************)
(* RectRegion on a small plane; and, once for each pair of rectangles of a *)
(* larger one, what a single subtraction leaves.                           *)
(***************************************************************************)
EXTENDS RectRegion

CONSTANT Side      \* of the larger plane, a square

Squares ==
  {r \in [x : 0 .. (Side - 1), y : 0 .. (Side - 1), width : 1 .. Side, height : 1 .. Side] :
     EndX(r) <= Side /\ EndY(r) <= Side}

(* The loop, from the i-th rectangle of l on.                              *)
RECURSIVE SubtractFrom(_, _, _)
SubtractFrom(l, i, rect) ==
  IF i > Len(l) THEN l
  ELSE LET passed == Passed(l, i, rect) IN SubtractFrom(passed.list, passed.index, rect)

(* A rectangle cut by another, on any of its sides, leaves at most four    *)
(* pieces, which cover the rest of it and do not overlap.                  *)
ASSUME CutsAreExact ==
  \A r, rect \in Squares :
    LET pieces == SubtractFrom(<<r>>, 1, rect)
    IN  /\ PointsOf(pieces) = Points(r) \ Points(rect)
        /\ Disjoint(pieces)
        /\ Len(pieces) <= 4
=============================================================================
