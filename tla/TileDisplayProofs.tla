------------------------- MODULE TileDisplayProofs --------------------------
(***************************************************************************)
(* What holds of the tile display for every grid, image and viewport.      *)
(***************************************************************************)
EXTENDS TileDisplay, FiniteSetTheorems, TLAPS

-----------------------------------------------------------------------------
(* Geometry.                                                               *)

(* A bounding rectangle covers its region and lies in every rectangle that *)
(* does.                                                                   *)
LEMMA HullCovers ==
  ASSUME NEW S \in SUBSET Cells
  PROVE  /\ S \subseteq Hull[S]
         /\ Hull[S] \subseteq Cells
         /\ \A A \in Areas : S \subseteq A => Hull[S] \subseteq A
BY DEF Hull

LEMMA TileOfCell ==
  ASSUME NEW c \in Cells
  PROVE  TileOf[c] \in Tiles /\ c \in TileCells[TileOf[c]]
BY GridIsSane DEF TileCells

(* What is drawn of a tile covers its damage that shows.                   *)
LEMMA ClipCovers ==
  ASSUME NEW c \in visible, visible \subseteq Cells,
         NEW D \in SUBSET Cells, c \in D, NEW wide \in BOOLEAN
  PROVE  c \in ClipOf(TileOf[c], D, wide)
<1> DEFINE S == D \cap TileCells[TileOf[c]] \cap visible
<1>1. c \in S /\ S \in SUBSET Cells
  BY TileOfCell
<1>2. S \subseteq Hull[S]
  BY <1>1, HullCovers
<1> QED
  BY <1>1, <1>2, TileOfCell DEF ClipOf

LEMMA LargestWithin ==
  ASSUME NEW S, NEW A \in Largest(S)
  PROVE  A \in Areas /\ A \subseteq S /\ A \subseteq Cells
BY GridIsSane DEF Largest

-----------------------------------------------------------------------------
(* Requests.                                                               *)

LEMMA FreeIdIsFree ==
  ASSUME Finite, requests \subseteq RequestType, NEW t
  PROVE  FreeId(t) \in Nat \ {0}
<1> DEFINE R == {q \in requests : q.tile = t}
           used == {r.id : r \in R}
           f == [r \in R |-> r.id]
<1>1. IsFiniteSet(R)
  BY FS_Subset DEF Finite
<1>2. f \in Surjection(R, used)
  BY DEF Surjection
<1>3. IsFiniteSet(used)
  BY <1>1, <1>2, FS_Surjection
<1> DEFINE k == Cardinality(used)
<1>4. k \in Nat
  BY <1>3, FS_CardinalityType
<1>5. \E n \in 1 .. (k + 1) : n \notin used
  <2> SUFFICES ASSUME 1 .. (k + 1) \subseteq used
               PROVE  FALSE
    OBVIOUS
  <2>1. Cardinality(1 .. (k + 1)) <= k
    BY <1>3, FS_Subset
  <2>2. Cardinality(1 .. (k + 1)) = k + 1
    BY <1>4, FS_Interval
  <2> QED
    BY <2>1, <2>2, <1>4
<1>6. FreeId(t) = CHOOSE n \in 1 .. (k + 1) : n \notin used
  BY DEF FreeId
<1>7. FreeId(t) \in 1 .. (k + 1)
  <2> HIDE DEF k, used
  <2> QED
    BY <1>5, <1>6
<1> QED
  BY <1>7, <1>4

(* Withdrawing changes no request but that it is not wanted any more.      *)
LEMMA WithdrawnRequests ==
  ASSUME Finite, requests \subseteq RequestType, NEW T
  PROVE  /\ IsFiniteSet(Withdrawn(T))
         /\ Withdrawn(T) \subseteq RequestType
         /\ \A r \in requests : r.tile \notin T => r \in Withdrawn(T)
<1> DEFINE g(r) == IF r.tile \in T /\ r.id = request[r.tile]
                   THEN [r EXCEPT !.live = FALSE] ELSE r
           f == [r \in requests |-> g(r)]
<1>1. Withdrawn(T) = {g(r) : r \in requests}
  BY DEF Withdrawn
<1>2. \A r \in requests : g(r) \in RequestType
  BY DEF RequestType
<1>3. f \in Surjection(requests, Withdrawn(T))
  BY <1>1 DEF Surjection
<1>4. IsFiniteSet(Withdrawn(T))
  BY <1>3, FS_Surjection DEF Finite
<1> QED
  BY <1>1, <1>2, <1>4

LEMMA NewRequests ==
  ASSUME TypeOK, Finite, im # NoImage, NEW T \in SUBSET Tiles
  PROVE  /\ IsFiniteSet({NewRequest(t) : t \in T})
         /\ {NewRequest(t) : t \in T} \subseteq RequestType
<1> DEFINE N == {NewRequest(t) : t \in T}
           f == [t \in T |-> NewRequest(t)]
<1>1. IsFiniteSet(T)
  BY GridIsSane, FS_Subset
<1>2. f \in Surjection(T, N)
  BY DEF Surjection
<1>3. IsFiniteSet(N)
  BY <1>1, <1>2, FS_Surjection
<1>4. ASSUME NEW t \in T PROVE NewRequest(t) \in RequestType
  <2>1. FreeId(t) \in Nat \ {0}
    BY FreeIdIsFree DEF TypeOK
  <2>2. im \in Images /\ Latest(im) \in Nat
    BY DEF TypeOK, Latest
  <2> QED
    BY <2>1, <2>2 DEF NewRequest, RequestType
<1> QED
  BY <1>3, <1>4

-----------------------------------------------------------------------------
(* Renderings and pixels.                                                  *)

LEMMA PixelType ==
  ASSUME TypeOK, NEW i \in Images, NEW c \in Cells
  PROVE  /\ Latest(i) \in Nat \ {0}
         /\ Pixel(i, Latest(i), c) \in Images \X Nat
<1>1. renderings[i] \in Seq([Cells -> Nat]) /\ Latest(i) > 0
  BY DEF TypeOK
<1>2. Latest(i) \in 1 .. Len(renderings[i])
  BY <1>1 DEF Latest
<1>3. renderings[i][Latest(i)] \in [Cells -> Nat]
  BY <1>1, <1>2
<1> QED
  BY <1>2, <1>3, <1>1 DEF Pixel

LEMMA CurrentType ==
  ASSUME TypeOK, NEW c \in Cells
  PROVE  Current(c) \in {Blank} \cup (Images \X Nat)
BY PixelType DEF Current, TypeOK

(* Another rendering differs from the last one in the area only, and the   *)
(* other images keep theirs.                                               *)
LEMMA NewRenderingFacts ==
  ASSUME TypeOK, im \in Images, NEW area \in SUBSET Cells, NewRendering(area)
  PROVE  /\ renderings' \in [Images -> Seq([Cells -> Nat])]
         /\ \A i \in Images : Len(renderings'[i]) > 0
         /\ \A i \in Images \ {im} : renderings'[i] = renderings[i]
         /\ \A c \in Cells \ area : renderings'[im][Len(renderings'[im])][c]
                                     = renderings[im][Latest(im)][c]
         /\ cache' \subseteq cache
<1> DEFINE old == renderings[im]
           new == [c \in Cells |-> IF c \in area THEN Len(old) ELSE old[Len(old)][c]]
<1>1. old \in Seq([Cells -> Nat]) /\ Len(old) \in Nat /\ Len(old) > 0
  BY DEF TypeOK, Latest
<1>2. old[Len(old)] \in [Cells -> Nat]
  BY <1>1
<1>3. new \in [Cells -> Nat]
  BY <1>1, <1>2
<1>4. renderings' = [renderings EXCEPT ![im] = Append(old, new)]
  BY DEF NewRendering
<1> HIDE DEF new
<1>5. /\ Append(old, new) \in Seq([Cells -> Nat])
      /\ Len(Append(old, new)) = Len(old) + 1
      /\ Append(old, new)[Len(old) + 1] = new
  BY <1>1, <1>3
<1>6. renderings'[im] = Append(old, new)
  BY <1>4 DEF TypeOK
<1>7. \A i \in Images \ {im} : renderings'[i] = renderings[i]
  BY <1>4 DEF TypeOK
<1>8. renderings' \in [Images -> Seq([Cells -> Nat])]
  BY <1>4, <1>5 DEF TypeOK
<1>9. \A i \in Images : Len(renderings'[i]) > 0
  <2>1. Len(renderings'[im]) > 0
    <3>1. Len(renderings'[im]) = Len(old) + 1
      BY <1>5, <1>6
    <3> QED
      BY <3>1, <1>1
  <2>2. \A i \in Images \ {im} : Len(renderings'[i]) > 0
    BY <1>7 DEF TypeOK, Latest
  <2> QED
    BY <2>1, <2>2
<1>10. \A c \in Cells \ area : new[c] = old[Len(old)][c]
  BY DEF new
<1> QED
  BY <1>5, <1>6, <1>7, <1>8, <1>9, <1>10 DEF NewRendering, Latest

-----------------------------------------------------------------------------
(* What painting the image does.                                           *)

LEMMA PaintImageType ==
  ASSUME TypeOK, Finite, im # NoImage, NEW clip \in SUBSET Cells, NEW erase \in BOOLEAN,
         PaintImage(clip, erase)
  PROVE  /\ screen' \in [Cells -> {Blank} \cup (Images \X Nat)]
         /\ damage' \in SUBSET Cells
         /\ request' \in [Tiles -> Nat]
         /\ requests' \in SUBSET RequestType
         /\ cache' \in SUBSET (Tiles \X Images)
         /\ IsFiniteSet(requests')
<1> DEFINE now   == {t \in Touched(clip) : PaintsNow(t)}
           later == Touched(clip) \ now
           off   == ScrolledOff(clip)
           new   == {u \in later : ~Queued(u)}
<1>1. now \in SUBSET Tiles /\ later \in SUBSET Tiles /\ new \in SUBSET Tiles
  BY DEF Touched
<1>2. \A c \in Cells : screen[c] \in {Blank} \cup (Images \X Nat)
  BY DEF TypeOK
<1>3. screen' \in [Cells -> {Blank} \cup (Images \X Nat)]
  BY <1>2, CurrentType DEF PaintImage
<1>4. damage' \in SUBSET Cells
  BY DEF PaintImage, TypeOK
<1>5. request' \in [Tiles -> Nat]
  <2>1. \A t \in Tiles : FreeId(t) \in Nat /\ request[t] \in Nat
    BY FreeIdIsFree DEF TypeOK
  <2> HIDE DEF later, off
  <2>2. request' = [t \in Tiles |-> CASE t \in off -> 0
                                      [] t \in later /\ ~Queued(t) -> FreeId(t)
                                      [] OTHER -> request[t]]
    BY DEF PaintImage, later, off
  <2> QED
    BY <2>1, <2>2
<1>6. requests' = Withdrawn(off) \cup {NewRequest(t) : t \in new}
  BY DEF PaintImage
<1>7. /\ IsFiniteSet(Withdrawn(off))
      /\ Withdrawn(off) \subseteq RequestType
  BY WithdrawnRequests DEF TypeOK
<1>8. /\ IsFiniteSet({NewRequest(t) : t \in new})
      /\ {NewRequest(t) : t \in new} \subseteq RequestType
  BY <1>1, NewRequests
<1>9. requests' \in SUBSET RequestType /\ IsFiniteSet(requests')
  BY <1>6, <1>7, <1>8, FS_Union
<1>10. cache' \in SUBSET (Tiles \X Images)
  BY <1>1 DEF PaintImage, TypeOK
<1> QED
  BY <1>3, <1>4, <1>5, <1>9, <1>10

(* A cell is left, cleared or brought up to date.                          *)
LEMMA PaintImageScreen ==
  ASSUME TypeOK, NEW clip, NEW erase \in BOOLEAN, PaintImage(clip, erase), NEW c \in Cells
  PROVE  screen'[c] \in {screen[c], Blank, Current(c)}
BY DEF PaintImage

(* A cell that shows, and is painted or was damaged, is up to date or      *)
(* stays damaged: a tile that is painted at once is not queued, so that    *)
(* its damage is in the clip area or in what Swing has in hand.            *)
LEMMA PaintImageRepairs ==
  ASSUME TypeOK, WindowInv, DamageIsQueued, Sound, im # NoImage,
         NEW clip \in SUBSET visible, NEW erase \in BOOLEAN, PaintImage(clip, erase),
         NEW c \in visible, c \in clip \cup damage
  PROVE  \/ screen'[c] = Current(c)
         \/ c \in damage'
         \/ c \in (dirty \cup noErase) \ clip
<1> DEFINE now == {t \in Touched(clip) : PaintsNow(t)}
           off == ScrolledOff(clip)
           t   == TileOf[c]
<1>1. /\ c \in Cells /\ visible \subseteq Cells /\ clip \subseteq Cells
      /\ damage \cup clip \in SUBSET Cells
      /\ t \in Tiles /\ c \in TileCells[t]
  BY TileOfCell DEF TypeOK
<1>2. t \notin off
  BY <1>1 DEF ScrolledOff
<1>3. CASE t \notin now
  <2>1. damage' = ((damage \cup clip) \ {d \in Cells : TileOf[d] \in now})
                     \ CellsOfQueued(off)
    BY DEF PaintImage
  <2>2. c \notin CellsOfQueued(off)
    BY <1>2 DEF CellsOfQueued
  <2> QED
    BY <1>3, <2>1, <2>2
<1>4. CASE t \in now
  <2>1. ~Queued(t)
    BY <1>4 DEF PaintsNow
  <2>2. PICK wide \in SUBSET now :
          screen' = [d \in Cells |->
            IF /\ TileOf[d] \in now
               /\ d \in ClipOf(TileOf[d], damage \cup clip, TileOf[d] \in wide)
               /\ d \in Reached(clip)
            THEN Current(d)
            ELSE IF d \in clip /\ erase THEN Blank ELSE screen[d]]
    BY DEF PaintImage
  <2>3. c \in ClipOf(t, damage \cup clip, t \in wide)
    <3> DEFINE D == damage \cup clip
               w == t \in wide
    <3>1. D \in SUBSET Cells /\ c \in D /\ w \in BOOLEAN
      BY <1>1
    <3> HIDE DEF D, w
    <3>2. c \in ClipOf(TileOf[c], D, w)
      BY <1>1, <3>1, ClipCovers
    <3> QED
      BY <3>2 DEF D, w
  <2>4. CASE c \in Reached(clip)
    BY <1>1, <1>4, <2>2, <2>3, <2>4
  <2>5. CASE c \notin Reached(clip)
    <3>1. setup.buffered /\ c \notin clip
      BY <1>1, <2>5 DEF Reached
    <3>2. ~setup.failures
      BY <3>1 DEF Sound
    <3>3. c \in dirty \cup noErase
      BY <2>1, <3>1, <3>2 DEF DamageIsQueued
    <3> QED
      BY <3>1, <3>3
  <2> QED
    BY <2>4, <2>5
<1> QED
  BY <1>3, <1>4

(* A cell outside the clip area that is not damaged keeps what it shows    *)
(* or is brought up to date.                                               *)
LEMMA PaintImageElsewhere ==
  ASSUME TypeOK, NEW clip, NEW erase \in BOOLEAN, PaintImage(clip, erase),
         NEW c \in Cells, c \notin clip
  PROVE  screen'[c] \in {screen[c], Current(c)}
BY DEF PaintImage

-----------------------------------------------------------------------------
(* The parts of the invariant, step by step.                               *)

LEMMA RepaintFacts ==
  ASSUME TypeOK, WindowInv, NEW area, Repaint(area)
  PROVE  /\ dirty' \in SUBSET Cells
         /\ dirty' \subseteq visible
         /\ dirty \subseteq dirty'
         /\ area \cap visible \subseteq dirty'
<1> DEFINE S == dirty \cup (area \cap visible)
<1>1. S \in SUBSET Cells /\ S \subseteq visible /\ visible \in Areas
  BY GridIsSane DEF TypeOK, WindowInv
<1>2. dirty' = Hull[S]
  BY DEF Repaint
<1> HIDE DEF S
<1>3. S \subseteq dirty' /\ dirty' \subseteq Cells /\ dirty' \subseteq visible
  BY <1>1, <1>2, HullCovers
<1> QED
  BY <1>3 DEF S

LEMMA AbortFacts ==
  ASSUME TypeOK, Finite, AbortQueuedTiles
  PROVE  /\ damage' \in SUBSET Cells
         /\ request' \in [Tiles -> Nat]
         /\ requests' \in SUBSET RequestType
         /\ IsFiniteSet(requests')
         /\ \A t \in Tiles : request'[t] = 0
<1>1. requests' = Withdrawn(Tiles)
  BY DEF AbortQueuedTiles
<1>2. requests' \in SUBSET RequestType /\ IsFiniteSet(requests')
  BY <1>1, WithdrawnRequests DEF TypeOK
<1> QED
  BY <1>2 DEF AbortQueuedTiles, TypeOK

LEMMA NewPaintersFacts ==
  ASSUME TypeOK, NewPainters
  PROVE  /\ request' \in [Tiles -> Nat]
         /\ \A t \in Tiles : request'[t] = 0
         /\ helpers' \in Seq(HelperType)
         /\ DOMAIN helpers' = DOMAIN helpers
         /\ \A k \in DOMAIN helpers' : /\ helpers'[k].im = helpers[k].im
                                       /\ helpers'[k].v = helpers[k].v
<1>1. helpers \in Seq(HelperType) /\ DOMAIN helpers = 1 .. Len(helpers)
      /\ Len(helpers) \in Nat
  BY DEF TypeOK
<1>2. \A k \in 1 .. Len(helpers) : [helpers[k] EXCEPT !.mine = FALSE] \in HelperType
  <2> TAKE k \in 1 .. Len(helpers)
  <2>1. helpers[k] \in HelperType
    BY <1>1
  <2> QED
    BY <2>1 DEF HelperType
<1>3. helpers' = [k \in 1 .. Len(helpers) |-> [helpers[k] EXCEPT !.mine = FALSE]]
  BY <1>1 DEF NewPainters
<1>4. helpers' \in Seq(HelperType)
  BY <1>1, <1>2, <1>3
<1>5. \A k \in 1 .. Len(helpers) :
        helpers[k] \in HelperType /\ helpers'[k] = [helpers[k] EXCEPT !.mine = FALSE]
  BY <1>1, <1>3
<1>6. \A k \in 1 .. Len(helpers) :
        helpers'[k].im = helpers[k].im /\ helpers'[k].v = helpers[k].v
  BY <1>5 DEF HelperType
<1> QED
  BY <1>1, <1>3, <1>4, <1>6 DEF NewPainters

(* A helper of the event queue.                                            *)
LEMMA HelperFacts ==
  ASSUME TypeOK, helpers # <<>>
  PROVE  /\ Head(helpers) \in HelperType
         /\ Head(helpers) = helpers[1]
         /\ 1 \in DOMAIN helpers
         /\ Tail(helpers) \in Seq(HelperType)
BY DEF TypeOK

LEMMA TypesKept ==
  ASSUME TypeOK, Finite, WindowInv, ImageInv, Next
  PROVE  TypeOK' /\ Finite'
<1> USE GridIsSane
<1>1. CASE PaintEvent
  <2>1. CASE im # NoImage
    <3>1. PaintImage(dirty, TRUE)
      BY <1>1, <2>1 DEF PaintEvent
    <3>2. dirty \in SUBSET Cells
      BY DEF TypeOK
    <3>3. /\ screen' \in [Cells -> {Blank} \cup (Images \X Nat)]
          /\ damage' \in SUBSET Cells
          /\ request' \in [Tiles -> Nat]
          /\ requests' \in SUBSET RequestType
          /\ cache' \in SUBSET (Tiles \X Images)
          /\ IsFiniteSet(requests')
      BY <2>1, <3>1, <3>2, PaintImageType
    <3> QED
      BY <1>1, <3>3 DEF PaintEvent, TypeOK, Finite, Latest, image
  <2>2. CASE im = NoImage
    BY <1>1, <2>2 DEF PaintEvent, PaintBackground, TypeOK, Finite, Latest, image,
                     tilePainters
  <2> QED
    BY <2>1, <2>2
<1>2. CASE PaintNoErase
  <2>1. PICK area \in Largest(noErase) :
               PaintImage(area, FALSE) /\ noErase' = noErase \ area
    BY <1>2 DEF PaintNoErase
  <2>2. im # NoImage
    BY <1>2 DEF PaintNoErase, ImageInv
  <2>3. area \in SUBSET Cells
    BY LargestWithin
  <2>4. /\ screen' \in [Cells -> {Blank} \cup (Images \X Nat)]
        /\ damage' \in SUBSET Cells
        /\ request' \in [Tiles -> Nat]
        /\ requests' \in SUBSET RequestType
        /\ cache' \in SUBSET (Tiles \X Images)
        /\ IsFiniteSet(requests')
    BY <2>1, <2>2, <2>3, PaintImageType
  <2> QED
    BY <1>2, <2>1, <2>4 DEF PaintNoErase, TypeOK, Finite, Latest, image
<1>3. CASE RunHelper
  <2> DEFINE h == Head(helpers)
  <2>1. h \in HelperType /\ helpers' \in Seq(HelperType)
    BY <1>3, HelperFacts DEF RunHelper
  <2>2. screen' \in [Cells -> {Blank} \cup (Images \X Nat)]
    <3>1. CASE Superseded(h)
      BY <1>3, <3>1 DEF RunHelper, TypeOK
    <3>2. CASE ~Superseded(h)
      <4>1. h.im \in Images /\ h.v = Latest(h.im)
        BY <2>1, <3>2 DEF Superseded, HelperType
      <4>2. \A c \in Cells : Pixel(h.im, h.v, c) \in Images \X Nat
        BY <4>1, PixelType
      <4>3. PICK wide \in BOOLEAN :
              screen' = [c \in Cells |->
                IF TileOf[c] = h.tile /\ c \in ClipOf(h.tile, damage, wide)
                THEN Pixel(h.im, h.v, c) ELSE screen[c]]
        BY <1>3, <3>2 DEF RunHelper
      <4>4. \A c \in Cells : screen[c] \in {Blank} \cup (Images \X Nat)
        BY DEF TypeOK
      <4> QED
        BY <4>2, <4>3, <4>4
    <3> QED
      BY <3>1, <3>2
  <2>3. damage' \in SUBSET Cells /\ request' \in [Tiles -> Nat]
    BY <1>3, <2>1 DEF RunHelper, TypeOK, tilePainters
  <2> QED
    BY <1>3, <2>1, <2>2, <2>3 DEF RunHelper, TypeOK, Finite, Latest, image
<1>4. ASSUME NEW r \in requests, TileComputed(r) \/ TileComputationFailure(r) \/ TileCancelled(r)
      PROVE  TypeOK' /\ Finite'
  <2>1. r \in RequestType /\ requests' = requests \ {r}
    BY <1>4 DEF TypeOK, TileComputed, TileComputationFailure, TileCancelled
  <2>2. requests' \in SUBSET RequestType /\ IsFiniteSet(requests')
    BY <2>1, FS_Subset DEF TypeOK, Finite
  <2>3. CASE TileComputed(r)
    <3>1. [tile |-> r.tile, im |-> r.im, v |-> r.v, mine |-> TRUE] \in HelperType
          /\ <<r.tile, r.im>> \in Tiles \X Images
      BY <2>1 DEF RequestType, HelperType
    <3>2. helpers' \in Seq(HelperType)
      BY <2>3, <3>1 DEF TileComputed, TypeOK
    <3>3. cache' \in SUBSET (Tiles \X Images)
      BY <2>3, <3>1 DEF TileComputed, TypeOK
    <3> QED
      BY <2>2, <2>3, <3>2, <3>3
         DEF TileComputed, TypeOK, Finite, Latest, image, swing, tilePainters
  <2>4. CASE TileComputationFailure(r)
    BY <2>1, <2>2, <2>4
       DEF TileComputationFailure, TypeOK, Finite, Latest, image, swing, RequestType
  <2>5. CASE TileCancelled(r)
    BY <2>2, <2>5 DEF TileCancelled, TypeOK, Finite, Latest, image, swing, tilePainters
  <2> QED
    BY <1>4, <2>3, <2>4, <2>5
<1>5. ASSUME NEW area \in Spots, Expose(area)
      PROVE  TypeOK' /\ Finite'
  <2>1. dirty' \in SUBSET Cells
    BY <1>5, RepaintFacts DEF Expose
  <2>2. screen' \in [Cells -> {Blank} \cup (Images \X Nat)]
    BY <1>5 DEF Expose, TypeOK
  <2>8. UNCHANGED <<im, painted, renderings, visible, noErase, damage, request, policy, requests, cache, helpers>>
    BY <1>5 DEF Expose, image, tilePainters
  <2>9. events' \in 0 .. MaxEvents /\ setup' = setup
    BY <1>5 DEF Expose, Event, TypeOK
  <2> QED
    BY <2>1, <2>2, <2>8, <2>9 DEF TypeOK, Finite, Latest
<1>6. ASSUME NEW view \in Views, Scroll(view)
      PROVE  TypeOK' /\ Finite'
  <2>1. view \in SUBSET Cells
    OBVIOUS
  <2>2. dirty' \in SUBSET Cells
    BY <1>6, <2>1 DEF Scroll
  <2>3. screen' \in [Cells -> {Blank} \cup (Images \X Nat)]
    BY <1>6 DEF Scroll, TypeOK
  <2>4. /\ damage' \in SUBSET Cells
        /\ request' \in [Tiles -> Nat]
        /\ requests' \in SUBSET RequestType
        /\ IsFiniteSet(requests')
    BY <1>6, AbortFacts DEF Scroll, TypeOK, Finite, tilePainters
  <2>8. UNCHANGED <<im, painted, renderings, noErase, policy, cache, helpers>>
    BY <1>6 DEF Scroll, image
  <2>9. events' \in 0 .. MaxEvents /\ setup' = setup /\ visible' = view
    BY <1>6 DEF Scroll, Event, TypeOK
  <2> QED
    BY <2>1, <2>2, <2>3, <2>4, <2>8, <2>9 DEF TypeOK, Finite, Latest
<1>7. ASSUME NEW i \in Images, SetImage(i)
      PROVE  TypeOK' /\ Finite'
  <2>1. dirty' \in SUBSET Cells
    BY <1>7, RepaintFacts DEF SetImage
  <2>2. request' \in [Tiles -> Nat] /\ helpers' \in Seq(HelperType)
    BY <1>7, NewPaintersFacts DEF SetImage
  <2>8. UNCHANGED <<renderings, visible, noErase, screen, damage, policy, requests, cache>>
    BY <1>7 DEF SetImage
  <2>9. /\ events' \in 0 .. MaxEvents /\ setup' = setup
        /\ im' \in Images /\ painted' \in Images
    BY <1>7 DEF SetImage, Event, TypeOK
  <2> QED
    BY <2>1, <2>2, <2>8, <2>9 DEF TypeOK, Finite, Latest
<1>8. CASE SetNoImage
  <2>1. dirty' \in SUBSET Cells
    BY <1>8, RepaintFacts DEF SetNoImage
  <2>8. /\ UNCHANGED <<painted, renderings, visible, noErase, screen>>
        /\ UNCHANGED <<damage, request, policy, requests, cache, helpers>>
    BY <1>8 DEF SetNoImage, tilePainters
  <2>9. events' \in 0 .. MaxEvents /\ setup' = setup /\ im' = NoImage
    BY <1>8 DEF SetNoImage, Event, TypeOK
  <2> QED
    BY <2>1, <2>8, <2>9 DEF TypeOK, Finite, Latest
<1>9. ASSUME NEW area \in SUBSET Cells, im # NoImage, NewRendering(area)
      PROVE  /\ renderings' \in [Images -> Seq([Cells -> Nat])]
             /\ \A i \in Images : Len(renderings'[i]) > 0
             /\ cache' \in SUBSET (Tiles \X Images)
  BY <1>9, NewRenderingFacts DEF TypeOK
<1>10. CASE GeometryChange
  <2>1. dirty' \in SUBSET Cells
    BY <1>10, RepaintFacts DEF GeometryChange
  <2>2. request' \in [Tiles -> Nat] /\ helpers' \in Seq(HelperType)
    BY <1>10, NewPaintersFacts DEF GeometryChange
  <2>3. requests' \in SUBSET RequestType /\ IsFiniteSet(requests')
    BY <1>10, WithdrawnRequests DEF GeometryChange, TypeOK
  <2>4. damage' \in SUBSET Cells
    BY <1>10 DEF GeometryChange, TypeOK
  <2>5. /\ renderings' \in [Images -> Seq([Cells -> Nat])]
        /\ \A i \in Images : Len(renderings'[i]) > 0
        /\ cache' \in SUBSET (Tiles \X Images)
    BY <1>9, <1>10 DEF GeometryChange
  <2>8. UNCHANGED <<im, painted, visible, noErase, screen, policy>>
    BY <1>10 DEF GeometryChange, image, tilePainters
  <2>9. events' \in 0 .. MaxEvents /\ setup' = setup
    BY <1>10 DEF GeometryChange, Event, TypeOK
  <2> QED
    BY <2>1, <2>2, <2>3, <2>4, <2>5, <2>8, <2>9 DEF TypeOK, Finite, Latest
<1>11. CASE WholeImageChange
  <2>1. dirty' \in SUBSET Cells /\ noErase' \in SUBSET Cells
    BY <1>11, RepaintFacts DEF WholeImageChange, TypeOK
  <2>2. /\ damage' \in SUBSET Cells
        /\ request' \in [Tiles -> Nat]
        /\ requests' \in SUBSET RequestType
        /\ IsFiniteSet(requests')
    BY <1>11, AbortFacts DEF WholeImageChange
  <2>3. /\ renderings' \in [Images -> Seq([Cells -> Nat])]
        /\ \A i \in Images : Len(renderings'[i]) > 0
        /\ cache' \in SUBSET (Tiles \X Images)
    BY <1>9, <1>11 DEF WholeImageChange
  <2>8. UNCHANGED <<im, painted, visible, screen, policy, helpers>>
    BY <1>11 DEF WholeImageChange, image, tilePainters
  <2>9. events' \in 0 .. MaxEvents /\ setup' = setup
    BY <1>11 DEF WholeImageChange, Event, TypeOK
  <2> QED
    BY <2>1, <2>2, <2>3, <2>8, <2>9 DEF TypeOK, Finite, Latest
<1>12. ASSUME NEW area \in Spots, PartialImageChange(area)
       PROVE  TypeOK' /\ Finite'
  <2>1. dirty' \in SUBSET Cells /\ noErase' \in SUBSET Cells
    BY <1>12, RepaintFacts DEF PartialImageChange, TypeOK
  <2>2. /\ damage' \in SUBSET Cells
        /\ request' \in [Tiles -> Nat]
        /\ requests' \in SUBSET RequestType
        /\ IsFiniteSet(requests')
    BY <1>12, AbortFacts DEF PartialImageChange
  <2>3. area \in SUBSET Cells
    OBVIOUS
  <2>4. /\ renderings' \in [Images -> Seq([Cells -> Nat])]
        /\ \A i \in Images : Len(renderings'[i]) > 0
        /\ cache' \in SUBSET (Tiles \X Images)
    BY <1>9, <1>12, <2>3 DEF PartialImageChange
  <2>8. UNCHANGED <<im, painted, visible, screen, policy, helpers>>
    BY <1>12 DEF PartialImageChange, image, tilePainters
  <2>9. events' \in 0 .. MaxEvents /\ setup' = setup
    BY <1>12 DEF PartialImageChange, Event, TypeOK
  <2> QED
    BY <2>1, <2>2, <2>4, <2>8, <2>9 DEF TypeOK, Finite, Latest
<1>13. ASSUME NEW p \in Policies, SetRepaintPolicy(p)
       PROVE  TypeOK' /\ Finite'
  <2>8. /\ UNCHANGED <<im, painted, renderings, visible, dirty, noErase, screen>>
        /\ UNCHANGED <<damage, request, requests, cache, helpers>>
    BY <1>13 DEF SetRepaintPolicy, image, swing, tilePainters
  <2>9. events' \in 0 .. MaxEvents /\ setup' = setup /\ policy' \in Policies
    BY <1>13 DEF SetRepaintPolicy, Event, TypeOK
  <2> QED
    BY <2>8, <2>9 DEF TypeOK, Finite, Latest
<1>14. ASSUME NEW t \in Tiles, OtherConsumer(t)
       PROVE  TypeOK' /\ Finite'
  <2>1. cache' \in SUBSET (Tiles \X Images)
    BY <1>14 DEF OtherConsumer, TypeOK
  <2>8. /\ UNCHANGED <<im, painted, renderings, visible, dirty, noErase, screen>>
        /\ UNCHANGED <<damage, request, policy, requests, helpers>>
    BY <1>14 DEF OtherConsumer, image, swing, tilePainters
  <2>9. events' \in 0 .. MaxEvents /\ setup' = setup
    BY <1>14 DEF OtherConsumer, Event, TypeOK
  <2> QED
    BY <2>1, <2>8, <2>9 DEF TypeOK, Finite, Latest
<1> QED
  BY <1>1, <1>2, <1>3, <1>4, <1>5, <1>6, <1>7, <1>8, <1>10, <1>11, <1>12, <1>13, <1>14
     DEF Next, EventThread, WorkerAnswers, User

(* What waits to be painted shows.                                         *)
LEMMA WindowKept ==
  ASSUME TypeOK, WindowInv, ImageInv, Next
  PROVE  WindowInv'
<1> USE GridIsSane
<1>1. CASE PaintEvent
  BY <1>1 DEF PaintEvent, WindowInv
<1>2. CASE PaintNoErase
  BY <1>2 DEF PaintNoErase, WindowInv
<1>3. CASE RunHelper
  BY <1>3 DEF RunHelper, WindowInv
<1>4. ASSUME NEW r \in requests, TileComputed(r) \/ TileComputationFailure(r) \/ TileCancelled(r)
      PROVE  WindowInv'
  BY <1>4 DEF TileComputed, TileComputationFailure, TileCancelled, swing, WindowInv
<1>5. ASSUME NEW area \in Spots, Expose(area)
      PROVE  WindowInv'
  BY <1>5, RepaintFacts DEF Expose, WindowInv
<1>6. ASSUME NEW view \in Views, Scroll(view)
      PROVE  WindowInv'
  BY <1>6 DEF Scroll, EventThreadFree, WindowInv
<1>7. ASSUME NEW i \in Images, SetImage(i)
      PROVE  WindowInv'
  BY <1>7, RepaintFacts DEF SetImage, WindowInv
<1>8. CASE SetNoImage
  BY <1>8, RepaintFacts DEF SetNoImage, WindowInv
<1>9. CASE GeometryChange
  BY <1>9, RepaintFacts DEF GeometryChange, WindowInv
<1>10. CASE WholeImageChange
  BY <1>10, RepaintFacts DEF WholeImageChange, WindowInv
<1>11. ASSUME NEW area \in Spots, PartialImageChange(area)
       PROVE  WindowInv'
  BY <1>11, RepaintFacts DEF PartialImageChange, WindowInv
<1>12. ASSUME NEW p \in Policies, SetRepaintPolicy(p)
       PROVE  WindowInv'
  BY <1>12 DEF SetRepaintPolicy, swing, WindowInv
<1>13. ASSUME NEW t \in Tiles, OtherConsumer(t)
       PROVE  WindowInv'
  BY <1>13 DEF OtherConsumer, swing, WindowInv
<1> QED
  BY <1>1, <1>2, <1>3, <1>4, <1>5, <1>6, <1>7, <1>8, <1>9, <1>10, <1>11, <1>12, <1>13
     DEF Next, EventThread, WorkerAnswers, User

(* The TilePainters are of the image on display, and so is what waits.     *)
LEMMA ImageKept ==
  ASSUME TypeOK, WindowInv, ImageInv, Next
  PROVE  ImageInv'
<1> USE GridIsSane
<1>1. CASE PaintEvent
  BY <1>1 DEF PaintEvent, PaintBackground, image, ImageInv
<1>2. CASE PaintNoErase
  BY <1>2 DEF PaintNoErase, image, ImageInv
<1>3. CASE RunHelper
  <2>1. helpers \in Seq(HelperType) /\ helpers # <<>> /\ helpers' = Tail(helpers)
    BY <1>3 DEF RunHelper, TypeOK
  <2>2. \A k \in DOMAIN helpers' : k + 1 \in DOMAIN helpers /\ helpers'[k] = helpers[k + 1]
    BY <2>1
  <2> QED
    BY <1>3, <2>1, <2>2 DEF RunHelper, image, ImageInv
<1>4. ASSUME NEW r \in requests, TileComputed(r)
      PROVE  ImageInv'
  <2>1. helpers \in Seq(HelperType)
    BY DEF TypeOK
  <2>2. setup.quiet => im # NoImage
    BY DEF ImageInv
  <2>3. setup.quiet => \A k \in DOMAIN helpers' : helpers'[k].im = painted
    <3>1. CASE r.im = painted /\ r.v = Latest(painted)
      <4> DEFINE h == [tile |-> r.tile, im |-> r.im, v |-> r.v, mine |-> TRUE]
      <4>1. helpers' = Append(helpers, h)
        BY <1>4, <3>1 DEF TileComputed
      <4>2. h.im = painted
        BY <3>1
      <4> HIDE DEF h
      <4>3. \A k \in DOMAIN helpers' : helpers'[k] = h \/ (k \in DOMAIN helpers
                                                          /\ helpers'[k] = helpers[k])
        BY <2>1, <4>1
      <4> QED
        BY <4>2, <4>3 DEF ImageInv
    <3>2. CASE ~(r.im = painted /\ r.v = Latest(painted))
      BY <1>4, <3>2 DEF TileComputed, ImageInv
    <3> QED
      BY <3>1, <3>2
  <2> QED
    BY <1>4, <2>2, <2>3 DEF TileComputed, image, swing, ImageInv
<1>5. ASSUME NEW r \in requests, TileComputationFailure(r) \/ TileCancelled(r)
      PROVE  ImageInv'
  BY <1>5 DEF TileComputationFailure, TileCancelled, image, swing, ImageInv
<1>6. ASSUME NEW area \in Spots, Expose(area)
      PROVE  ImageInv'
  BY <1>6 DEF Expose, Event, image, ImageInv
<1>7. ASSUME NEW view \in Views, Scroll(view)
      PROVE  ImageInv'
  <2>1. requests = {} => requests' = {}
    BY <1>7 DEF Scroll, AbortQueuedTiles, Withdrawn
  <2> QED
    BY <1>7, <2>1 DEF Scroll, Event, image, ImageInv
<1>8. ASSUME NEW i \in Images, SetImage(i)
      PROVE  ImageInv'
  <2>1. setup.quiet => helpers' = <<>>
    BY <1>8 DEF SetImage, NewPainters
  <2> QED
    BY <1>8, <2>1 DEF SetImage, Event, EventThreadFree, ImageInv
<1>9. CASE SetNoImage
  BY <1>9 DEF SetNoImage, Event, EventThreadFree, ImageInv
<1>10. CASE GeometryChange
  <2>1. /\ DOMAIN helpers' = DOMAIN helpers
        /\ \A k \in DOMAIN helpers' : helpers'[k].im = helpers[k].im
    BY <1>10, NewPaintersFacts DEF GeometryChange
  <2> QED
    BY <1>10, <2>1 DEF GeometryChange, Event, ImageInv
<1>11. CASE WholeImageChange
  BY <1>11 DEF WholeImageChange, Event, ImageInv
<1>12. ASSUME NEW area \in Spots, PartialImageChange(area)
       PROVE  ImageInv'
  BY <1>12 DEF PartialImageChange, Event, ImageInv
<1>13. ASSUME NEW p \in Policies, SetRepaintPolicy(p)
       PROVE  ImageInv'
  BY <1>13 DEF SetRepaintPolicy, Event, image, swing, ImageInv
<1>14. ASSUME NEW t \in Tiles, OtherConsumer(t)
       PROVE  ImageInv'
  BY <1>14 DEF OtherConsumer, Event, image, swing, ImageInv
<1> QED
  BY <1>1, <1>2, <1>3, <1>4, <1>5, <1>6, <1>7, <1>8, <1>9, <1>10, <1>11, <1>12, <1>13, <1>14
     DEF Next, EventThread, WorkerAnswers, User

LEMMA SetupKept ==
  ASSUME Next
  PROVE  setup' = setup
BY DEF Next, EventThread, PaintEvent, PaintNoErase, RunHelper, WorkerAnswers, TileComputed,
       TileComputationFailure, TileCancelled, User, Expose, Scroll, SetImage, SetNoImage,
       GeometryChange, WholeImageChange, PartialImageChange, SetRepaintPolicy,
       OtherConsumer, Event

(* After the image is painted, what is damaged is queued, or is still to   *)
(* be painted.                                                             *)
LEMMA PaintImageQueues ==
  ASSUME TypeOK, Finite, DamageIsQueued, ~setup.failures, im # NoImage,
         NEW clip \in SUBSET visible, NEW erase \in BOOLEAN, PaintImage(clip, erase),
         NEW c \in visible, c \in damage'
  PROVE  \/ c \in (dirty \cup noErase) \ clip
         \/ request'[TileOf[c]] # 0
<1> DEFINE now   == {t \in Touched(clip) : PaintsNow(t)}
           later == Touched(clip) \ now
           off   == ScrolledOff(clip)
           t     == TileOf[c]
<1>1. /\ c \in Cells /\ t \in Tiles /\ c \in TileCells[t]
  BY TileOfCell DEF TypeOK
<1>2. t \notin off
  BY <1>1 DEF ScrolledOff
<1>3. c \in damage \cup clip /\ t \notin now
  BY <1>1 DEF PaintImage
<1>4. /\ t \in later /\ ~Queued(t) => request'[t] = FreeId(t)
      /\ ~(t \in later /\ ~Queued(t)) => request'[t] = request[t]
  BY <1>1, <1>2 DEF PaintImage
<1>5. FreeId(t) # 0
  BY FreeIdIsFree DEF TypeOK
<1>6. c \in clip => t \in later
  BY <1>1, <1>3 DEF Touched
<1>7. CASE Queued(t)
  BY <1>4, <1>7 DEF Queued
<1>8. CASE ~Queued(t) /\ t \in later
  BY <1>4, <1>5, <1>8
<1>9. CASE ~Queued(t) /\ t \notin later
  BY <1>3, <1>6, <1>9 DEF DamageIsQueued
<1> QED
  BY <1>7, <1>8, <1>9

LEMMA DamageKept ==
  ASSUME TypeOK, Finite, WindowInv, ImageInv, DamageIsQueued, Next
  PROVE  DamageIsQueued'
<1> USE GridIsSane
<1> SUFFICES ASSUME ~setup.failures, im' # NoImage,
                    NEW c \in Cells, c \in damage', c \in visible'
             PROVE  c \in dirty' \cup noErase' \/ request'[TileOf[c]] # 0
  BY SetupKept, TypesKept DEF DamageIsQueued, Queued, TypeOK
<1>0. im # NoImage /\ c \in damage /\ c \in visible =>
        c \in dirty \cup noErase \/ request[TileOf[c]] # 0
  BY DEF DamageIsQueued, Queued
<1>1. CASE PaintEvent
  <2>1. im # NoImage /\ PaintImage(dirty, TRUE) /\ c \in visible /\ noErase' = noErase
    BY <1>1 DEF PaintEvent, image
  <2> QED
    BY <2>1, PaintImageQueues DEF WindowInv
<1>2. CASE PaintNoErase
  <2>1. PICK area \in Largest(noErase) :
               PaintImage(area, FALSE) /\ noErase' = noErase \ area
    BY <1>2 DEF PaintNoErase
  <2>2. im # NoImage /\ dirty' = dirty /\ c \in visible
    BY <1>2 DEF PaintNoErase, ImageInv
  <2>3. area \in SUBSET visible
    BY LargestWithin DEF WindowInv
  <2>4. \/ c \in (dirty \cup noErase) \ area
        \/ request'[TileOf[c]] # 0
    BY <2>1, <2>2, <2>3, PaintImageQueues
  <2> QED
    BY <2>1, <2>2, <2>4
<1>3. CASE RunHelper
  <2>1. UNCHANGED <<im, visible, dirty, noErase>>
    BY <1>3 DEF RunHelper, image
  <2>2. c \in damage
    BY <1>3 DEF RunHelper, tilePainters
  <2>3. request'[TileOf[c]] = request[TileOf[c]]
    <3> DEFINE h == Head(helpers)
    <3>1. CASE Superseded(h)
      BY <1>3, <3>1 DEF RunHelper, tilePainters
    <3>2. CASE ~Superseded(h)
      <4>1. h.tile \in Tiles
        BY <1>3, HelperFacts DEF RunHelper, HelperType
      <4>2. damage' = damage \ TileCells[h.tile]
        BY <1>3, <3>2 DEF RunHelper
      <4>3. TileOf[c] # h.tile
        BY <4>1, <4>2, TileOfCell
      <4>4. \/ request' = [request EXCEPT ![h.tile] = 0]
            \/ request' = request
        BY <1>3, <3>2 DEF RunHelper
      <4> QED
        BY <4>3, <4>4, TileOfCell DEF TypeOK
    <3> QED
      BY <3>1, <3>2
  <2> QED
    BY <1>0, <2>1, <2>2, <2>3
<1>4. ASSUME NEW r \in requests, TileComputed(r) \/ TileComputationFailure(r) \/ TileCancelled(r)
      PROVE  c \in dirty' \cup noErase' \/ request'[TileOf[c]] # 0
  BY <1>0, <1>4 DEF TileComputed, TileComputationFailure, TileCancelled, image, swing,
                    tilePainters
<1>5. ASSUME NEW area \in Spots, Expose(area)
      PROVE  c \in dirty' \cup noErase' \/ request'[TileOf[c]] # 0
  <2>1. UNCHANGED <<im, visible, noErase, damage, request>> /\ Repaint(area)
    BY <1>5 DEF Expose, image, tilePainters
  <2> QED
    BY <1>0, <2>1, RepaintFacts
<1>6. ASSUME NEW view \in Views, Scroll(view)
      PROVE  c \in dirty' \cup noErase' \/ request'[TileOf[c]] # 0
  <2> DEFINE S == (dirty \cap view) \cup (view \ visible)
  <2>1. UNCHANGED <<im, noErase, damage, request>> /\ noErase = {} /\ c \in view
    BY <1>6 DEF Scroll, EventThreadFree, image, tilePainters
  <2>2. dirty' = Hull[S] \cap view
    BY <1>6 DEF Scroll
  <2>3. S \in SUBSET Cells
    OBVIOUS
  <2>4. S \subseteq Hull[S]
    BY <2>3, HullCovers
  <2>5. CASE c \in visible /\ c \notin dirty
    BY <1>0, <2>1, <2>5
  <2>6. CASE c \notin visible \/ c \in dirty
    BY <2>1, <2>2, <2>4, <2>6
  <2> QED
    BY <2>5, <2>6
<1>7. ASSUME NEW i \in Images, SetImage(i)
      PROVE  c \in dirty' \cup noErase' \/ request'[TileOf[c]] # 0
  BY <1>7, RepaintFacts DEF SetImage
<1>8. CASE SetNoImage
  BY <1>8 DEF SetNoImage
<1>9. CASE GeometryChange
  BY <1>9, RepaintFacts DEF GeometryChange
<1>10. CASE WholeImageChange
  BY <1>10, RepaintFacts DEF WholeImageChange
<1>11. ASSUME NEW area \in Spots, PartialImageChange(area)
       PROVE  c \in dirty' \cup noErase' \/ request'[TileOf[c]] # 0
  <2>1. c \in damage /\ c \in visible
    BY <1>11 DEF PartialImageChange, AbortQueuedTiles
  <2>2. c \in AreaChanged(area)
    BY <2>1 DEF AreaChanged
  <2> QED
    BY <1>11, <2>1, <2>2, RepaintFacts DEF PartialImageChange
<1>12. ASSUME NEW p \in Policies, SetRepaintPolicy(p)
       PROVE  c \in dirty' \cup noErase' \/ request'[TileOf[c]] # 0
  BY <1>0, <1>12 DEF SetRepaintPolicy, image, swing, tilePainters
<1>13. ASSUME NEW t \in Tiles, OtherConsumer(t)
       PROVE  c \in dirty' \cup noErase' \/ request'[TileOf[c]] # 0
  BY <1>0, <1>13 DEF OtherConsumer, image, swing, tilePainters
<1> QED
  BY <1>1, <1>2, <1>3, <1>4, <1>5, <1>6, <1>7, <1>8, <1>9, <1>10, <1>11, <1>12, <1>13
     DEF Next, EventThread, WorkerAnswers, User

LEMMA SameImage ==
  ASSUME UNCHANGED <<im, renderings>>, NEW c
  PROVE  Current(c)' = Current(c)
BY DEF Current, Pixel, Latest

(* A helper paints what ought to show.                                     *)
LEMMA HelperPaints ==
  ASSUME TypeOK, ImageInv, setup.quiet, RunHelper, NEW c \in Cells
  PROVE  screen'[c] \in {screen[c], Current(c)}
<1> DEFINE h == Head(helpers)
<1>1. CASE Superseded(h)
  BY <1>1 DEF RunHelper
<1>2. CASE ~Superseded(h)
  <2>1. helpers # <<>> /\ h = helpers[1] /\ 1 \in DOMAIN helpers
    BY HelperFacts DEF RunHelper
  <2>2. im # NoImage /\ h.im = im /\ h.v = Latest(im)
    BY <1>2, <2>1 DEF ImageInv, Superseded
  <2>3. Pixel(h.im, h.v, c) = Current(c)
    BY <2>2 DEF Current
  <2> QED
    BY <1>2, <2>3 DEF RunHelper
<1> QED
  BY <1>1, <1>2

LEMMA NothingForgottenKept ==
  ASSUME TypeOK, Finite, WindowInv, ImageInv, DamageIsQueued, Sound, NothingForgotten, Next
  PROVE  NothingForgotten'
<1> USE GridIsSane
<1> SUFFICES ASSUME NEW c \in visible', screen'[c] # Current(c)'
             PROVE  c \in dirty' \cup noErase' \cup damage'
  BY DEF NothingForgotten
<1> DEFINE Goal == c \in dirty' \cup noErase' \cup damage'
<1>0. /\ c \in Cells
      /\ visible \subseteq Cells
      /\ c \in visible /\ screen[c] # Current(c) => c \in dirty \cup noErase \cup damage
  <2>1. c \in Cells
    BY TypesKept DEF TypeOK
  <2> QED
    BY <2>1 DEF NothingForgotten, TypeOK
<1>1. CASE PaintEvent
  <2>1. UNCHANGED <<im, renderings, visible, noErase>> /\ noErase = {} /\ c \in visible
    BY <1>1 DEF PaintEvent, EventThreadFree, image
  <2>2. Current(c)' = Current(c)
    BY <2>1, SameImage
  <2>3. CASE im # NoImage
    <3>1. PaintImage(dirty, TRUE) /\ dirty \in SUBSET visible
      BY <1>1, <2>3 DEF PaintEvent, WindowInv
    <3>2. CASE c \in dirty \cup damage
      BY <2>1, <2>2, <2>3, <3>1, <3>2, PaintImageRepairs
    <3>3. CASE c \notin dirty \cup damage
      <4>1. screen'[c] \in {screen[c], Current(c)}
        BY <1>0, <3>1, <3>3, PaintImageElsewhere
      <4> QED
        BY <1>0, <2>1, <2>2, <3>3, <4>1
    <3> QED
      BY <3>2, <3>3
  <2>4. CASE im = NoImage
    <3>1. PaintBackground(dirty)
      BY <1>1, <2>4 DEF PaintEvent
    <3>2. Current(c) = Blank
      BY <2>4 DEF Current
    <3>3. screen'[c] = (IF c \in dirty THEN Blank ELSE screen[c]) /\ damage' = damage
      BY <1>0, <3>1 DEF PaintBackground, tilePainters
    <3> QED
      BY <1>0, <2>1, <2>2, <3>2, <3>3
  <2> QED
    BY <2>3, <2>4
<1>2. CASE PaintNoErase
  <2>1. PICK area \in Largest(noErase) :
               PaintImage(area, FALSE) /\ noErase' = noErase \ area
    BY <1>2 DEF PaintNoErase
  <2>2. /\ UNCHANGED <<im, renderings, visible, dirty>>
        /\ im # NoImage /\ c \in visible
    BY <1>2 DEF PaintNoErase, ImageInv, image
  <2>3. area \in SUBSET visible /\ area \subseteq noErase
    BY LargestWithin DEF WindowInv
  <2>4. Current(c)' = Current(c)
    BY <2>2, SameImage
  <2>5. CASE c \in area \cup damage
    <3>1. \/ screen'[c] = Current(c)
          \/ c \in damage'
          \/ c \in (dirty \cup noErase) \ area
      BY <2>1, <2>2, <2>3, <2>5, PaintImageRepairs
    <3> QED
      BY <2>1, <2>2, <2>4, <3>1
  <2>6. CASE c \notin area \cup damage
    <3>1. screen'[c] \in {screen[c], Current(c)}
      BY <1>0, <2>1, <2>6, PaintImageElsewhere
    <3> QED
      BY <1>0, <2>1, <2>2, <2>4, <2>6, <3>1
  <2> QED
    BY <2>5, <2>6
<1>3. CASE RunHelper
  <2> DEFINE h == Head(helpers)
  <2>1. UNCHANGED <<im, renderings, visible, dirty, noErase>>
    BY <1>3 DEF RunHelper, image
  <2>2. Current(c)' = Current(c)
    BY <2>1, SameImage
  <2>3. screen'[c] = screen[c] /\ screen[c] # Current(c)
    BY <1>0, <1>3, <2>2, HelperPaints DEF Sound
  <2>4. CASE c \notin damage
    BY <1>0, <2>1, <2>3, <2>4
  <2>5. CASE c \in damage
    <3>1. CASE Superseded(h)
      BY <1>3, <2>5, <3>1 DEF RunHelper, tilePainters
    <3>2. CASE ~Superseded(h)
      <4>1. damage' = damage \ TileCells[h.tile] /\ h.tile \in Tiles
        BY <1>3, <3>2, HelperFacts DEF RunHelper, HelperType
      <4>2. CASE TileOf[c] # h.tile
        BY <2>5, <4>1, <4>2 DEF TileCells
      <4>3. CASE TileOf[c] = h.tile
        <5>1. PICK wide \in BOOLEAN :
                screen' = [d \in Cells |->
                  IF TileOf[d] = h.tile /\ d \in ClipOf(h.tile, damage, wide)
                  THEN Pixel(h.im, h.v, d) ELSE screen[d]]
          BY <1>3, <3>2 DEF RunHelper
        <5>2. damage \in SUBSET Cells
          BY DEF TypeOK
        <5>3. c \in ClipOf(TileOf[c], damage, wide)
          BY <1>0, <2>1, <2>5, <5>2, ClipCovers
        <5>4. screen'[c] = Pixel(h.im, h.v, c)
          BY <1>0, <4>3, <5>1, <5>3
        <5>5. h = helpers[1] /\ 1 \in DOMAIN helpers /\ helpers # <<>>
          BY <1>3, HelperFacts DEF RunHelper
        <5>6. im # NoImage /\ h.im = im /\ h.v = Latest(im)
          BY <3>2, <5>5 DEF ImageInv, Sound, Superseded
        <5>7. Pixel(h.im, h.v, c) = Current(c)
          BY <5>6 DEF Current
        <5> QED
          BY <2>3, <5>4, <5>7
      <4> QED
        BY <4>2, <4>3
    <3> QED
      BY <3>1, <3>2
  <2> QED
    BY <2>4, <2>5
<1>4. ASSUME NEW r \in requests, TileComputed(r) \/ TileComputationFailure(r) \/ TileCancelled(r)
      PROVE  Goal
  <2>1. UNCHANGED <<im, renderings, visible, dirty, noErase, damage, screen>>
    BY <1>4 DEF TileComputed, TileComputationFailure, TileCancelled, image, swing, tilePainters
  <2> QED
    BY <1>0, <2>1, SameImage
<1>5. ASSUME NEW area \in Spots, Expose(area)
      PROVE  Goal
  <2>1. UNCHANGED <<im, renderings, visible, noErase, damage>> /\ Repaint(area)
    BY <1>5 DEF Expose, image, tilePainters
  <2>2. screen'[c] = IF c \in area \cap visible THEN Blank ELSE screen[c]
    BY <1>0, <1>5 DEF Expose
  <2> QED
    BY <1>0, <2>1, <2>2, SameImage, RepaintFacts
<1>6. ASSUME NEW view \in Views, Scroll(view)
      PROVE  Goal
  <2> DEFINE S == (dirty \cap view) \cup (view \ visible)
  <2>1. UNCHANGED <<im, renderings, noErase>> /\ c \in view
    BY <1>6 DEF Scroll, image
  <2>2. dirty' = Hull[S] \cap view
    BY <1>6 DEF Scroll
  <2>3. S \in SUBSET Cells
    OBVIOUS
  <2>4. S \subseteq Hull[S]
    BY <2>3, HullCovers
  <2>5. damage' = damage
    BY <1>6, <2>1 DEF Scroll, tilePainters
  <2>6. CASE c \in visible
    <3>1. screen'[c] = screen[c]
      BY <1>0, <1>6, <2>1, <2>6 DEF Scroll
    <3>2. c \in dirty \cup noErase \cup damage
      BY <1>0, <2>1, <2>6, <3>1, SameImage
    <3> QED
      BY <2>1, <2>2, <2>4, <2>5, <3>2
  <2>7. CASE c \notin visible
    BY <2>1, <2>2, <2>4, <2>7
  <2> QED
    BY <2>6, <2>7
<1>7. ASSUME NEW i \in Images, SetImage(i)
      PROVE  Goal
  BY <1>7, RepaintFacts DEF SetImage
<1>8. CASE SetNoImage
  BY <1>8, RepaintFacts DEF SetNoImage
<1>9. CASE GeometryChange
  BY <1>9, RepaintFacts DEF GeometryChange
<1>10. CASE WholeImageChange
  BY <1>10, RepaintFacts DEF WholeImageChange
<1>11. ASSUME NEW area \in Spots, PartialImageChange(area)
       PROVE  Goal
  <2>1. /\ UNCHANGED <<im, visible, screen>>
        /\ im # NoImage /\ im \in Images
        /\ noErase = {} /\ NewRendering(area)
    BY <1>11 DEF PartialImageChange, EventThreadFree, TypeOK
  <2>2. c \in dirty \cup AreaChanged(area)
    <3>1. CASE c \in area
      BY <3>1 DEF AreaChanged
    <3>2. CASE c \notin area
      <4>1. renderings'[im][Len(renderings'[im])][c] = renderings[im][Latest(im)][c]
        BY <1>0, <2>1, <3>2, NewRenderingFacts
      <4>2. Current(c)' = Current(c)
        BY <2>1, <4>1 DEF Current, Pixel, Latest
      <4> QED
        BY <1>0, <2>1, <4>2 DEF AreaChanged
    <3> QED
      BY <3>1, <3>2
  <2>3. \/ noErase' = AreaChanged(area) \cap visible /\ dirty' = dirty
        \/ Repaint(AreaChanged(area))
    BY <1>11 DEF PartialImageChange
  <2> QED
    BY <2>1, <2>2, <2>3, RepaintFacts
<1>12. ASSUME NEW p \in Policies, SetRepaintPolicy(p)
       PROVE  Goal
  <2>1. UNCHANGED <<im, renderings, visible, dirty, noErase, damage, screen>>
    BY <1>12 DEF SetRepaintPolicy, image, swing, tilePainters
  <2> QED
    BY <1>0, <2>1, SameImage
<1>13. ASSUME NEW t \in Tiles, OtherConsumer(t)
       PROVE  Goal
  <2>1. UNCHANGED <<im, renderings, visible, dirty, noErase, damage, screen>>
    BY <1>13 DEF OtherConsumer, image, swing, tilePainters
  <2> QED
    BY <1>0, <2>1, SameImage
<1> QED
  BY <1>1, <1>2, <1>3, <1>4, <1>5, <1>6, <1>7, <1>8, <1>9, <1>10, <1>11, <1>12, <1>13
     DEF Next, EventThread, WorkerAnswers, User

(* A tile that stays queued keeps its answer: what would take it away      *)
(* dequeues the tile.                                                      *)
LEMMA SameAnswer ==
  ASSUME UNCHANGED <<painted, renderings, requests, helpers>>, NEW t,
         request'[t] = request[t], Answered(t)
  PROVE  Answered(t)'
BY DEF Answered, Latest

LEMMA PaintImageAnswers ==
  ASSUME TypeOK, Finite, im # NoImage, painted = im, RequestInv,
         UNCHANGED <<painted, renderings, helpers>>,
         NEW clip, NEW erase, PaintImage(clip, erase),
         NEW t \in Tiles, request'[t] # 0
  PROVE  Answered(t)'
<1> DEFINE now   == {u \in Touched(clip) : PaintsNow(u)}
           later == Touched(clip) \ now
           off   == ScrolledOff(clip)
<1>1. t \notin off
  <2>1. request' = [u \in Tiles |-> CASE u \in off -> 0
                                      [] u \in later /\ ~Queued(u) -> FreeId(u)
                                      [] OTHER -> request[u]]
    BY DEF PaintImage
  <2>2. t \notin off \/ t \notin later
    BY DEF Touched, ScrolledOff
  <2> HIDE DEF off, later
  <2>3. t \in off => request'[t] = 0
    BY <2>1, <2>2
  <2> QED
    BY <2>3
<1>2. requests' = Withdrawn(off) \cup {NewRequest(u) : u \in {w \in later : ~Queued(w)}}
  BY DEF PaintImage
<1>3. CASE t \in later /\ ~Queued(t)
  <2>1. NewRequest(t) \in requests'
    BY <1>2, <1>3
  <2>2. request'[t] = FreeId(t)
    BY <1>1, <1>3 DEF PaintImage
  <2>3. /\ NewRequest(t).tile = t /\ NewRequest(t).id = request'[t]
        /\ NewRequest(t).live /\ NewRequest(t).im = painted
        /\ NewRequest(t).v = Latest(painted)
    BY <2>2 DEF NewRequest
  <2> QED
    BY <2>1, <2>3 DEF Answered, Latest
<1>4. CASE ~(t \in later /\ ~Queued(t))
  <2>1. request'[t] = request[t]
    BY <1>1, <1>4 DEF PaintImage
  <2>2. Answered(t)
    BY <2>1 DEF RequestInv, Queued
  <2>3. \A r \in requests : r.tile = t => r \in requests'
    BY <1>1, <1>2, WithdrawnRequests DEF TypeOK
  <2> QED
    BY <2>1, <2>2, <2>3 DEF Answered, Latest
<1> QED
  BY <1>3, <1>4

LEMMA RequestKept ==
  ASSUME TypeOK, Finite, WindowInv, ImageInv, RequestInv, Next
  PROVE  RequestInv'
<1> USE GridIsSane
<1> SUFFICES ASSUME NEW t \in Tiles, request'[t] # 0
             PROVE  Answered(t)'
  BY DEF RequestInv, Queued
<1>0. request[t] # 0 => Answered(t)
  BY DEF RequestInv, Queued
<1>1. CASE PaintEvent
  <2>1. UNCHANGED <<painted, renderings, helpers>>
    BY <1>1 DEF PaintEvent, image
  <2>2. CASE im # NoImage
    BY <1>1, <2>1, <2>2, PaintImageAnswers DEF PaintEvent, ImageInv
  <2>3. CASE im = NoImage
    BY <1>0, <1>1, <2>1, <2>3, SameAnswer DEF PaintEvent, PaintBackground, tilePainters
  <2> QED
    BY <2>2, <2>3
<1>2. CASE PaintNoErase
  <2>1. UNCHANGED <<painted, renderings, helpers>>
    BY <1>2 DEF PaintNoErase, image
  <2>2. im # NoImage /\ painted = im
    BY <1>2 DEF PaintNoErase, ImageInv
  <2>3. PICK area \in Largest(noErase) : PaintImage(area, FALSE)
    BY <1>2 DEF PaintNoErase
  <2> QED
    BY <2>1, <2>2, <2>3, PaintImageAnswers
<1>3. CASE RunHelper
  <2> DEFINE h == Head(helpers)
  <2>1. /\ helpers \in Seq(HelperType) /\ helpers # <<>> /\ helpers' = Tail(helpers)
        /\ UNCHANGED <<painted, renderings, requests>>
    BY <1>3 DEF RunHelper, TypeOK, image
  <2>2. h = helpers[1] /\ h.tile \in Tiles
    BY <2>1, HelperFacts DEF HelperType
  <2>3. request'[t] = request[t] /\ ~(~Superseded(h) /\ h.mine /\ h.tile = t)
    <3>1. CASE Superseded(h)
      BY <1>3, <3>1 DEF RunHelper, tilePainters
    <3>2. CASE ~Superseded(h)
      BY <1>3, <2>2, <3>2 DEF RunHelper, TypeOK
    <3> QED
      BY <3>1, <3>2
  <2>4. Answered(t)
    BY <1>0, <2>3
  <2>5. ASSUME NEW k \in DOMAIN helpers,
               helpers[k].tile = t, helpers[k].mine,
               helpers[k].im = painted, helpers[k].v = Latest(painted)
        PROVE  \E j \in DOMAIN helpers' : helpers'[j] = helpers[k]
    <3>1. k # 1
      BY <2>2, <2>3, <2>5 DEF Superseded
    <3>2. k - 1 \in DOMAIN helpers' /\ helpers'[k - 1] = helpers[k]
      BY <2>1, <2>5, <3>1
    <3> QED
      BY <3>2
  <2>6. ASSUME NEW k \in DOMAIN helpers,
               helpers[k].tile = t, helpers[k].mine,
               helpers[k].im = painted, helpers[k].v = Latest(painted)
        PROVE  Answered(t)'
    <3>1. PICK j \in DOMAIN helpers' : helpers'[j] = helpers[k]
      BY <2>5, <2>6
    <3> QED
      BY <2>1, <2>6, <3>1 DEF Answered, Latest
  <2>7. ASSUME NEW r \in requests,
               r.tile = t, r.id = request[t], r.live, r.im = painted, r.v = Latest(painted)
        PROVE  Answered(t)'
    BY <2>1, <2>3, <2>7 DEF Answered, Latest
  <2> QED
    BY <2>4, <2>6, <2>7 DEF Answered
<1>4. ASSUME NEW r \in requests, TileComputed(r)
      PROVE  Answered(t)'
  <2> DEFINE h == [tile |-> r.tile, im |-> r.im, v |-> r.v, mine |-> TRUE]
  <2>1. /\ UNCHANGED <<painted, renderings, request>> /\ requests' = requests \ {r}
        /\ helpers \in Seq(HelperType)
    BY <1>4 DEF TileComputed, TypeOK, image, tilePainters
  <2>2. Answered(t)
    BY <1>0, <2>1
  <2>3. \A k \in DOMAIN helpers : k \in DOMAIN helpers' /\ helpers'[k] = helpers[k]
    BY <1>4, <2>1 DEF TileComputed
  <2>4. r.im = painted /\ r.v = Latest(painted) =>
          \E k \in DOMAIN helpers' : helpers'[k] = h
    <3>1. ASSUME r.im = painted, r.v = Latest(painted)
          PROVE  Len(helpers) + 1 \in DOMAIN helpers' /\ helpers'[Len(helpers) + 1] = h
      BY <1>4, <2>1, <3>1 DEF TileComputed
    <3> QED
      BY <3>1
  <2>5. h.tile = r.tile /\ h.im = r.im /\ h.v = r.v /\ h.mine
    OBVIOUS
  <2> HIDE DEF h
  <2>6. CASE \E q \in requests \ {r} :
               /\ q.tile = t /\ q.id = request[t] /\ q.live
               /\ q.im = painted /\ q.v = Latest(painted)
    BY <2>1, <2>6 DEF Answered, Latest
  <2>7. CASE r.tile = t /\ r.im = painted /\ r.v = Latest(painted)
    BY <2>1, <2>4, <2>5, <2>7 DEF Answered, Latest
  <2>8. CASE \E k \in DOMAIN helpers :
               /\ helpers[k].tile = t /\ helpers[k].mine
               /\ helpers[k].im = painted /\ helpers[k].v = Latest(painted)
    BY <2>1, <2>3, <2>8 DEF Answered, Latest
  <2> QED
    BY <2>2, <2>6, <2>7, <2>8 DEF Answered
<1>5. ASSUME NEW r \in requests, TileComputationFailure(r)
      PROVE  Answered(t)'
  <2>1. UNCHANGED <<painted, renderings, helpers>> /\ requests' = requests \ {r}
    BY <1>5 DEF TileComputationFailure, image
  <2>2. r.tile # t /\ request'[t] = request[t]
    BY <1>5 DEF TileComputationFailure, TypeOK
  <2> QED
    BY <1>0, <2>1, <2>2 DEF Answered, Latest
<1>6. ASSUME NEW r \in requests, TileCancelled(r)
      PROVE  Answered(t)'
  <2>1. /\ UNCHANGED <<painted, renderings, helpers, request>>
        /\ requests' = requests \ {r} /\ ~r.live
    BY <1>6 DEF TileCancelled, image, tilePainters
  <2> QED
    BY <1>0, <2>1 DEF Answered, Latest
<1>7. ASSUME NEW area \in Spots, Expose(area)
      PROVE  Answered(t)'
  BY <1>0, <1>7, SameAnswer DEF Expose, image, tilePainters
<1>8. ASSUME NEW view \in Views, Scroll(view)
      PROVE  Answered(t)'
  <2>1. CASE view = {}
    BY <1>8, <2>1 DEF Scroll, AbortQueuedTiles
  <2>2. CASE view # {}
    BY <1>0, <1>8, <2>2, SameAnswer DEF Scroll, image, tilePainters
  <2> QED
    BY <2>1, <2>2
<1>9. ASSUME NEW i \in Images, SetImage(i)
      PROVE  Answered(t)'
  BY <1>9, NewPaintersFacts DEF SetImage
<1>10. CASE SetNoImage
  BY <1>0, <1>10, SameAnswer DEF SetNoImage, tilePainters
<1>11. CASE GeometryChange
  BY <1>11, NewPaintersFacts DEF GeometryChange
<1>12. CASE WholeImageChange
  BY <1>12 DEF WholeImageChange, AbortQueuedTiles
<1>13. ASSUME NEW area \in Spots, PartialImageChange(area)
       PROVE  Answered(t)'
  BY <1>13 DEF PartialImageChange, AbortQueuedTiles
<1>14. ASSUME NEW p \in Policies, SetRepaintPolicy(p)
       PROVE  Answered(t)'
  BY <1>0, <1>14, SameAnswer DEF SetRepaintPolicy, image, tilePainters
<1>15. ASSUME NEW u \in Tiles, OtherConsumer(u)
       PROVE  Answered(t)'
  BY <1>0, <1>15, SameAnswer DEF OtherConsumer, image, tilePainters
<1> QED
  BY <1>1, <1>2, <1>3, <1>4, <1>5, <1>6, <1>7, <1>8, <1>9, <1>10, <1>11, <1>12, <1>13,
     <1>14, <1>15
     DEF Next, EventThread, WorkerAnswers, User

-----------------------------------------------------------------------------
(* The theorems.                                                           *)

LEMMA InitIsSound ==
  ASSUME Init
  PROVE  IInv
<1> USE GridIsSane
<1>1. \A i \in Images : /\ renderings[i] = <<[c \in Cells |-> 0]>>
                        /\ renderings[i] \in Seq([Cells -> Nat])
                        /\ Len(renderings[i]) = 1
  BY DEF Init
<1>2. renderings \in [Images -> Seq([Cells -> Nat])]
  BY <1>1 DEF Init
<1>3. helpers \in Seq(HelperType) /\ DOMAIN helpers = {}
  BY DEF Init
<1>4. FirstView \in SUBSET Cells
  OBVIOUS
<1>5. TypeOK
  BY <1>1, <1>2, <1>3, <1>4 DEF Init, TypeOK, Latest, Policies
<1>6. Finite
  BY FS_EmptySet DEF Init, Finite
<1> QED
  BY <1>3, <1>5, <1>6
     DEF Init, IInv, WindowInv, ImageInv, DamageIsQueued, RequestInv, Queued,
         NothingForgotten

LEMMA StepIsSound ==
  ASSUME IInv, [Next]_vars
  PROVE  IInv'
<1>1. CASE Next
  <2>1. TypeOK' /\ Finite' /\ WindowInv' /\ ImageInv' /\ DamageIsQueued' /\ RequestInv'
    BY <1>1, TypesKept, WindowKept, ImageKept, DamageKept, RequestKept DEF IInv
  <2>2. ASSUME Sound' PROVE NothingForgotten'
    <3>1. Sound
      BY <1>1, <2>2, SetupKept DEF Sound
    <3> QED
      BY <1>1, <3>1, NothingForgottenKept DEF IInv
  <2> QED
    BY <2>1, <2>2 DEF IInv
<1>2. CASE UNCHANGED vars
  BY <1>2 DEF vars, IInv, TypeOK, Finite, WindowInv, ImageInv, DamageIsQueued, RequestInv,
              Queued, Answered, Sound, NothingForgotten, Current, Pixel, Latest
<1> QED
  BY <1>1, <1>2

(* The inductive invariant holds of every display.                         *)
THEOREM Invariant == Spec => []IInv
<1>1. Init => IInv
  BY InitIsSound
<1>2. IInv /\ [Next]_vars => IInv'
  BY StepIsSound
<1> QED
  BY <1>1, <1>2, PTL DEF Spec

(* Every variable keeps its type.                                          *)
THEOREM TypeCorrect == Spec => []TypeOK
<1>1. IInv => TypeOK
  BY DEF IInv
<1> QED
  BY <1>1, Invariant, PTL

(* No visible cell is left out of date with nobody about to paint it.      *)
THEOREM NothingIsForgotten == Spec => [](Sound => NothingForgotten)
<1>1. IInv => (Sound => NothingForgotten)
  BY DEF IInv
<1> QED
  BY <1>1, Invariant, PTL

(* A tile that is queued has an answer coming, however images are          *)
(* replaced and whatever fails.                                            *)
THEOREM EveryQueuedTileIsAnswered == Spec => []QueuedIsAnswered
<1>1. IInv => QueuedIsAnswered
  BY DEF IInv, RequestInv, Answered, QueuedIsAnswered
<1> QED
  BY <1>1, Invariant, PTL

(* A tile that is painted is of the image and rendering on display, as     *)
(* long as images are replaced only when no answer waits.                  *)
THEOREM NothingElseIsPainted == Spec /\ []setup.quiet => OnlyTheDisplayedImage
<1> DEFINE Painted(c) == screen'[c] \in {screen[c], Blank, Current(c)}
<1>1. ASSUME IInv, setup.quiet, [Next]_vars
      PROVE  [\A c \in Cells : Painted(c)]_vars
  <2> SUFFICES ASSUME Next, NEW c \in Cells
               PROVE  Painted(c)
    BY <1>1
  <2> USE <1>1 DEF IInv
  <2>1. CASE PaintEvent
    <3>1. CASE im # NoImage
      <4>1. PaintImage(dirty, TRUE)
        BY <2>1, <3>1 DEF PaintEvent
      <4> QED
        BY <4>1, PaintImageScreen
    <3>2. CASE im = NoImage
      BY <2>1, <3>2 DEF PaintEvent, PaintBackground
    <3> QED
      BY <3>1, <3>2
  <2>2. CASE PaintNoErase
    <3>1. PICK area \in Largest(noErase) : PaintImage(area, FALSE)
      BY <2>2 DEF PaintNoErase
    <3> QED
      BY <3>1, PaintImageScreen
  <2>3. CASE RunHelper
    BY <2>3, HelperPaints
  <2>4. ASSUME NEW r \in requests,
               TileComputed(r) \/ TileComputationFailure(r) \/ TileCancelled(r)
        PROVE  screen' = screen
    BY <2>4 DEF TileComputed, TileComputationFailure, TileCancelled, swing
  <2>5. ASSUME NEW area \in Spots, Expose(area)
        PROVE  Painted(c)
    BY <2>5 DEF Expose
  <2>6. ASSUME NEW view \in Views, Scroll(view)
        PROVE  Painted(c)
    BY <2>6 DEF Scroll
  <2>7. ASSUME NEW i \in Images, SetImage(i)
        PROVE  screen' = screen
    BY <2>7 DEF SetImage
  <2>8. CASE SetNoImage
    BY <2>8 DEF SetNoImage
  <2>9. CASE GeometryChange \/ WholeImageChange
    BY <2>9 DEF GeometryChange, WholeImageChange
  <2>10. ASSUME NEW area \in Spots, PartialImageChange(area)
         PROVE  screen' = screen
    BY <2>10 DEF PartialImageChange
  <2>11. ASSUME NEW p \in Policies, SetRepaintPolicy(p)
         PROVE  screen' = screen
    BY <2>11 DEF SetRepaintPolicy, swing
  <2>12. ASSUME NEW t \in Tiles, OtherConsumer(t)
         PROVE  screen' = screen
    BY <2>12 DEF OtherConsumer, swing
  <2> QED
    BY <2>1, <2>2, <2>3, <2>4, <2>5, <2>6, <2>7, <2>8, <2>9, <2>10, <2>11, <2>12
       DEF Next, EventThread, WorkerAnswers, User
<1> QED
  BY <1>1, Invariant, PTL DEF Spec, OnlyTheDisplayedImage

=============================================================================
