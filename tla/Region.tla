------------------------------- MODULE Region -------------------------------
(***************************************************************************)
(* What jade.util.RectRegion promises: a region is a set of points, and    *)
(* each call does with it what its name says.                              *)
(***************************************************************************)
EXTENDS Integers

CONSTANT Rects     \* the rectangles that a caller may give

VARIABLES
  points,   \* of the region
  call      \* what is being called, and its argument

vars == <<points, call>>

NoCall == [op |-> "none", rect |-> [x |-> 0, y |-> 0, width |-> 0, height |-> 0]]
Asked(op, rect) == [op |-> op, rect |-> rect]

Points(r) == (r.x .. ((r.x + r.width) - 1)) \X (r.y .. ((r.y + r.height) - 1))

Idle == call = NoCall

Union(rect) ==
  /\ Idle
  /\ call' = Asked("union", rect)
  /\ points' = points \cup Points(rect)

Subtract(rect) ==
  /\ Idle
  /\ call' = Asked("subtract", rect)
  /\ points' = points \ Points(rect)

Intersect(rect) ==
  /\ Idle
  /\ call' = Asked("intersect", rect)
  /\ points' = points \cap Points(rect)

Translate(dx, dy) ==
  /\ Idle
  /\ call' = Asked("translate", [x |-> dx, y |-> dy, width |-> 0, height |-> 0])
  /\ points' = {<<p[1] + dx, p[2] + dy>> : p \in points}

Return ==
  /\ ~Idle
  /\ call' = NoCall
  /\ UNCHANGED points

Init == points = {} /\ call = NoCall

Next ==
  \/ \E rect \in Rects : Union(rect) \/ Subtract(rect) \/ Intersect(rect)
  \/ \E d \in {-1, 1} : Translate(d, 0) \/ Translate(0, d)
  \/ Return

Spec == Init /\ [][Next]_vars
=============================================================================
