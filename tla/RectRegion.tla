----------------------------- MODULE RectRegion -----------------------------
(***************************************************************************)
(* The damage list of JADE's display: a region kept as a list of           *)
(* rectangles (jade.util.RectRegion).  subtract goes through the list one  *)
(* rectangle at a time, while it cuts, appends and removes.                *)
(***************************************************************************)
EXTENDS Integers, Sequences, SequencesExt

CONSTANTS
  Width, Height,   \* the plane
  MaxRects,        \* bound: rectangles in the list when a call begins
  MaxHollow        \* bound: those of negative size that an intersection leaves in it

ASSUME PlaneIsSane ==
  Width \in Nat \ {0} /\ Height \in Nat \ {0} /\ MaxRects \in Nat /\ MaxHollow \in Nat

VARIABLES
  list,    \* _list
  call,    \* what is being called, and its argument
  index    \* i of subtract, counted from one, or 0 outside its loop

vars == <<list, call, index>>

Rect(x, y, w, h) == [x |-> x, y |-> y, width |-> w, height |-> h]

(* The rectangles of the plane that are not empty.                         *)
Rects ==
  {r \in [x : 0 .. (Width - 1), y : 0 .. (Height - 1), width : 1 .. Width, height : 1 .. Height] :
     r.x + r.width <= Width /\ r.y + r.height <= Height}

EndX(r) == r.x + r.width
EndY(r) == r.y + r.height

Points(r) == (r.x .. (EndX(r) - 1)) \X (r.y .. (EndY(r) - 1))

PointsOf(l) == UNION {Points(l[k]) : k \in DOMAIN l}

Covered == PointsOf(list)

-----------------------------------------------------------------------------
(* Queries.                                                                *)

(* java.awt.Rectangle.intersection: with a negative size when there is a   *)
(* gap between the two.                                                    *)
Intersection(a, b) ==
  LET x == Max({a.x, b.x})
      y == Max({a.y, b.y})
  IN  Rect(x, y, Min({EndX(a), EndX(b)}) - x, Min({EndY(a), EndY(b)}) - y)

(* createIntersect drops what is of no width or height, but not what is of *)
(* less: what it has kept after the first n rectangles of the list.        *)
Kept(l, rect) ==
  LET kept[n \in 0 .. Len(l)] ==
        IF n = 0 THEN <<>>
        ELSE LET r == Intersection(rect, l[n])
             IN  IF r.width # 0 /\ r.height # 0 THEN Append(kept[n - 1], r) ELSE kept[n - 1]
  IN  kept

CreateIntersect(rect) == Kept(list, rect)[Len(list)]

(* A plausible bug: the place of the last rectangle.                       *)
GetBoundsOfLast(l) ==
  IF l = <<>> THEN Rect(0, 0, 0, 0)
  ELSE LET last == l[Len(l)]
       IN  Rect(last.x, last.y, Max({EndX(l[k]) : k \in DOMAIN l}) - last.x,
                                Max({EndY(l[k]) : k \in DOMAIN l}) - last.y)

GetBounds(l) ==
  IF l = <<>> THEN Rect(0, 0, 0, 0)
  ELSE LET x == Min({l[k].x : k \in DOMAIN l})
           y == Min({l[k].y : k \in DOMAIN l})
       IN  Rect(x, y, Max({EndX(l[k]) : k \in DOMAIN l}) - x,
                      Max({EndY(l[k]) : k \in DOMAIN l}) - y)

-----------------------------------------------------------------------------
(* subtract.                                                               *)

(* The x ranges of the two meet; the y range of r is within that of rect.  *)
MeetsX(r, rect) == EndX(r) > rect.x /\ r.x < EndX(rect)
WithinY(r, rect) == r.y >= rect.y /\ EndY(r) <= EndY(rect)

(* Whether an edge of rect cuts r in two.                                  *)
Straddles(edge, r, rect) ==
  CASE edge = "top"    -> r.y < rect.y /\ EndY(r) > rect.y /\ MeetsX(r, rect)
    [] edge = "bottom" -> r.y < EndY(rect) /\ EndY(r) > EndY(rect) /\ MeetsX(r, rect)
    [] edge = "left"   -> r.x < rect.x /\ EndX(r) > rect.x /\ WithinY(r, rect)
    [] edge = "right"  -> r.x < EndX(rect) /\ EndX(r) > EndX(rect) /\ WithinY(r, rect)

(* The place of an edge.                                                   *)
At(edge, rect) ==
  CASE edge = "top" -> rect.y [] edge = "bottom" -> EndY(rect)
    [] edge = "left" -> rect.x [] edge = "right" -> EndX(rect)

(* The part of r before the edge, and the part after it.                   *)
Near(edge, r, rect) ==
  IF edge \in {"top", "bottom"} THEN [r EXCEPT !.height = At(edge, rect) - r.y]
  ELSE [r EXCEPT !.width = At(edge, rect) - r.x]

Far(edge, r, rect) ==
  IF edge \in {"top", "bottom"}
  THEN Rect(r.x, At(edge, rect), r.width, EndY(r) - At(edge, rect))
  ELSE Rect(At(edge, rect), r.y, EndX(r) - At(edge, rect), r.height)

(* r is cut at each edge in turn; what is cut off goes to the list's end.  *)
CutAt(edge, cut, rect) ==
  IF Straddles(edge, cut.r, rect)
  THEN [r |-> Near(edge, cut.r, rect), off |-> Append(cut.off, Far(edge, cut.r, rect))]
  ELSE cut

Cut(r, rect) ==
  LET y == CutAt("bottom", CutAt("top", [r |-> r, off |-> <<>>], rect), rect)
  IN  CutAt("right", CutAt("left", y, rect), rect)

Inside(r, rect) == r.x >= rect.x /\ EndX(r) <= EndX(rect) /\ WithinY(r, rect)

(* The body of the loop, for the i-th rectangle, and where it goes on: the *)
(* list grows and shrinks as it goes.                                      *)
Passed(l, i, rect) ==
  LET cut  == Cut(l[i], rect)
      rest == [l EXCEPT ![i] = cut.r] \o cut.off
  IN  IF Inside(cut.r, rect) THEN [list |-> RemoveAt(rest, i), index |-> i]
      ELSE [list |-> rest, index |-> i + 1]

-----------------------------------------------------------------------------
(* union.                                                                  *)

(* The easy merge: of the same height, and touching rect on the left side  *)
(* or on the right.                                                        *)
MergesLeft(r, rect) == EndX(rect) >= r.x /\ rect.x < r.x
MergesRight(r, rect) == rect.x <= EndX(r) /\ EndX(rect) >= EndX(r)

Merges(r, rect) ==
  /\ r.y = rect.y /\ r.height = rect.height
  /\ MergesLeft(r, rect) \/ MergesRight(r, rect)

(* Plausible bugs: what overlaps is counted twice; rect may reach beyond   *)
(* both ends of r.                                                         *)
MergedAdding(r, rect) ==
  [r EXCEPT !.x = Min({r.x, rect.x}), !.width = r.width + rect.width]

MergedToTheLeft(r, rect) ==
  IF MergesLeft(r, rect) THEN [r EXCEPT !.x = rect.x, !.width = EndX(r) - rect.x]
  ELSE LET x == Min({r.x, rect.x}) IN [r EXCEPT !.x = x, !.width = EndX(rect) - x]

Merged(r, rect) ==
  IF MergesLeft(r, rect)
  THEN [r EXCEPT !.x = rect.x, !.width = Max({EndX(r), EndX(rect)}) - rect.x]
  ELSE LET x == Min({r.x, rect.x}) IN [r EXCEPT !.x = x, !.width = EndX(rect) - x]

Easy(rect) == {k \in DOMAIN list : Merges(list[k], rect)}

-----------------------------------------------------------------------------
(* The calls.                                                              *)

NoCall == [op |-> "none", rect |-> Rect(0, 0, 0, 0)]
Asked(op, rect) == [op |-> op, rect |-> rect]

Called(op, rect) ==
  /\ call = NoCall
  /\ Len(list) <= MaxRects
  /\ call' = Asked(op, rect)

UnionMerges(rect) ==
  /\ Called("union", rect)
  /\ Easy(rect) # {}
  /\ list' = [list EXCEPT ![Min(Easy(rect))] = Merged(@, rect)]
  /\ UNCHANGED index

(* A plausible bug: what is there already is not taken out first.          *)
UnionWithoutSubtracting(rect) ==
  /\ Called("union", rect)
  /\ Easy(rect) = {}
  /\ index' = Len(list) + 1
  /\ UNCHANGED list

(* Not easy: what is there already is taken out first.                     *)
UnionSubtracts(rect) ==
  /\ Called("union", rect)
  /\ Easy(rect) = {}
  /\ index' = 1
  /\ UNCHANGED list

Subtract(rect) ==
  /\ Called("subtract", rect)
  /\ index' = 1
  /\ UNCHANGED list

(* A plausible bug: no i-- when something has been removed.                *)
IterateSkipping ==
  /\ index \in DOMAIN list
  /\ list' = Passed(list, index, call.rect).list
  /\ index' = index + 1
  /\ UNCHANGED call

Iterate ==
  /\ index \in DOMAIN list
  /\ list' = Passed(list, index, call.rect).list
  /\ index' = Passed(list, index, call.rect).index
  /\ UNCHANGED call

(* The loop has come to the end of the list; union adds its rectangle.     *)
EndLoop ==
  /\ index > Len(list) /\ index # 0
  /\ list' = IF call.op = "union" THEN Append(list, call.rect) ELSE list
  /\ index' = 0
  /\ call' = NoCall

Hollow(r) == r.width < 0 \/ r.height < 0

Intersect(rect) ==
  /\ Called("intersect", rect)
  /\ list' = CreateIntersect(rect)
  /\ Cardinality({k \in DOMAIN list' : Hollow(list'[k])}) <= MaxHollow
  /\ UNCHANGED index

Shifted(dx, dy) == [k \in DOMAIN list |-> [list[k] EXCEPT !.x = @ + dx, !.y = @ + dy]]

(* Within the plane, so as to bound it.                                    *)
Translate(dx, dy) ==
  /\ Called("translate", Rect(dx, dy, 0, 0))
  /\ \A k \in DOMAIN list :
       LET r == list[k] IN
       r.x + dx \in 0 .. Width /\ EndX(r) + dx \in 0 .. Width
       /\ r.y + dy \in 0 .. Height /\ EndY(r) + dy \in 0 .. Height
  /\ list' = Shifted(dx, dy)
  /\ UNCHANGED index

Return ==
  /\ call # NoCall /\ index = 0
  /\ call' = NoCall
  /\ UNCHANGED <<list, index>>

Init == list = <<>> /\ call = NoCall /\ index = 0

Next ==
  \/ \E rect \in Rects : UnionMerges(rect) \/ UnionSubtracts(rect) \/ Subtract(rect) \/ Intersect(rect)
  \/ Iterate \/ EndLoop
  \/ \E d \in {-1, 1} : Translate(d, 0) \/ Translate(0, d)
  \/ Return

Spec == Init /\ [][Next]_vars

-----------------------------------------------------------------------------
(* Properties.                                                             *)

(* Type: a rectangle may be of negative size, once createIntersect has     *)
(* kept it, but never leaves the plane.                                    *)
TypeOK ==
  list \in Seq([x : 0 .. Width, y : 0 .. Height,
                width : (-Width) .. Width, height : (-Height) .. Height])

(* What the region is while subtract has not finished yet.                 *)
Remaining ==
  IF index = 0 THEN Covered
  ELSE (Covered \ Points(call.rect))
         \cup (IF call.op = "union" THEN Points(call.rect) ELSE {})

Promise == INSTANCE Region WITH points <- Remaining

(* Whatever rectangles the list is made of, and however they overlap:      *)
(* union adds the points of its rectangle to those that are covered,       *)
(* subtract takes them out, and an intersection keeps them and no others.  *)
(* No damage is lost by a cut or a merge, and none stays that was painted, *)
(* though the list grows and shrinks under the loop that goes through it.  *)
Implements == Promise!Spec

(* The edges of rect that go through r.                                    *)
CrossedBy(r, rect) ==
  {edge \in {"top", "bottom"} : r.y < At(edge, rect) /\ At(edge, rect) < EndY(r)}
    \cup {edge \in {"left", "right"} : r.x < At(edge, rect) /\ At(edge, rect) < EndX(r)}

(* The loop comes to an end, although what it cuts off goes to the list's  *)
(* end, to be cut again: a pass leaves to be looked at what there was      *)
(* behind the rectangle passed, and pieces that fewer edges cross than     *)
(* crossed that rectangle.                                                 *)
PassesLeaveLess ==
  [][index # 0 /\ index' # 0 =>
       \A k \in index' .. Len(list') :
         LET was == k + (index + 1 - index')
         IN  IF was <= Len(list) THEN list'[k] = list[was]
             ELSE /\ CrossedBy(list'[k], call.rect) \subseteq CrossedBy(list[index], call.rect)
                  /\ CrossedBy(list'[k], call.rect) # CrossedBy(list[index], call.rect)]_vars

(* What a tile is clipped to, the bounds of the damage within it, covers   *)
(* the damage there and does not go beyond it, although createIntersect    *)
(* keeps rectangles that do not meet the tile.                             *)
ClipIsSafe ==
  call = NoCall =>
  \A rect \in Rects :
    LET clip == Points(GetBounds(CreateIntersect(rect)))
    IN  Covered \cap Points(rect) \subseteq clip /\ clip \subseteq Points(rect)

(* RectRegion.java:9-11, "may touch each other but they may not overlap":  *)
(* not so, see OnlyMergesOverlap.                                          *)
Disjoint(l) ==
  \A j, k \in DOMAIN l : j # k => Points(l[j]) \cap Points(l[k]) = {}

NoOverlap == Disjoint(list)

(* Rectangles come to overlap only when one of them is widened in place:   *)
(* neither the pieces that are cut off nor what is added overlap others.   *)
OnlyMergesOverlap ==
  [][Disjoint(list) /\ ~Disjoint(list') =>
       \E k \in DOMAIN list \cap DOMAIN list' :
         /\ list' = [list EXCEPT ![k] = list'[k]]
         /\ list'[k].y = list[k].y /\ list'[k].height = list[k].height]_vars

(* contains(x, y, w, h), by bounds and area.  It is exact while nothing    *)
(* overlaps and nothing is of negative size, and nothing calls it.         *)
Area(r) == r.width * r.height

ContainsRect(rect) ==
  LET within == CreateIntersect(rect)
  IN  /\ GetBounds(within) = rect
      /\ FoldLeft(LAMBDA sum, r : sum + Area(r), 0, within) = Area(rect)

ContainsIsExact == \A rect \in Rects : ContainsRect(rect) <=> Points(rect) \subseteq Covered
=============================================================================
