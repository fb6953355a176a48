---------------------------- MODULE TileDisplay -----------------------------
(***************************************************************************)
(* JADE's image display: JadeDisplay and its TilePainters, the event       *)
(* thread that paints, and the JAI workers that compute tiles.             *)
(*                                                                         *)
(* One step is one event handler on the event thread, or one notification  *)
(* on a worker.  Swing, the tile scheduler and the tile cache are modelled *)
(* from how this code uses them.  Coordinates are the image's.             *)
(***************************************************************************)
EXTENDS Naturals, Sequences, FiniteSets

CONSTANTS
  Cells,       \* pixels of the image plane that the properties tell apart
  Tiles,       \* tiles of the grid
  TileOf,      \* the tile that a cell lies in
  Areas,       \* rectangles
  Spots,       \* areas that are exposed or change
  Views,       \* areas that the viewport may show; {} when it is not showing
  Images,      \* images there are to display
  NoImage,     \* the null image
  FirstImage,  \* the image the display is constructed with
  FirstView,   \* what shows when the display is first shown
  Blank,       \* what the background painter leaves
  Setups,      \* how the display may be set up
  MaxEvents    \* bound: things that users and other consumers do

Policies == {"IMMEDIATE", "DEFERRED", "CACHE"}
Modes == {"REPAINT", "FULL_NOERASE", "PARTIAL_NOERASE"}

ASSUME GridIsSane ==
  /\ IsFiniteSet(Tiles)
  /\ TileOf \in [Cells -> Tiles]
  /\ Areas \subseteq SUBSET Cells
  /\ Spots \subseteq Areas
  /\ Views \subseteq Areas
  /\ FirstView \in Views
  /\ FirstImage \in Images
  /\ NoImage \notin Images
  /\ Blank \notin Images \X Nat
  /\ MaxEvents \in Nat
  /\ Setups \subseteq
       [buffered : BOOLEAN,   \* Swing double-buffers: a paint reaches only its clip
        failures : BOOLEAN,   \* a worker may fail to compute a tile
        quiet    : BOOLEAN,   \* images are replaced only when no answer is waiting
        mode     : Modes]     \* _RCE_mode

VARIABLES
  setup,       \* the setup chosen
  im,          \* _im
  painted,     \* _image of the TilePainters: the last image that was not null
  renderings,  \* the renderings each image has had: for each, a version per cell
  visible,     \* getVisibleRect
  dirty,       \* area that Swing is going to paint
  noErase,     \* area that paintNoErase is painting; {} when the event thread is free
  damage,      \* _damageList
  screen,      \* what shows in each cell
  policy,      \* _repaintPolicy
  request,     \* of each TilePainter: which is its _queue_request, 0 when not _queued
  requests,    \* requests the scheduler has not answered
  cache,       \* tiles of the images' current renderings in the tile cache
  helpers,     \* TilePainterHelpers waiting in the event queue
  events       \* events so far

vars == <<setup, im, painted, renderings, visible, dirty, noErase, damage, screen,
          policy, request, requests, cache, helpers, events>>

swing == <<visible, dirty, noErase, screen>>
image == <<im, painted, renderings>>
tilePainters == <<damage, request>>

-----------------------------------------------------------------------------
(* Geometry and pixels.                                                    *)

TileCells == [t \in Tiles |-> {c \in Cells : TileOf[c] = t}]

(* The bounding rectangle of a region.                                     *)
Hull ==
  [S \in SUBSET Cells |-> {c \in Cells : \A A \in Areas : S \subseteq A => c \in A}]

(* getCurrentRendering of an image.                                        *)
Latest(i) == Len(renderings[i])

Pixel(i, v, c) == <<i, renderings[i][v][c]>>

(* What ought to show.                                                     *)
Current(c) == IF im = NoImage THEN Blank ELSE Pixel(im, Latest(im), c)

RequestType == [tile : Tiles, id : Nat \ {0}, im : Images, v : Nat, live : BOOLEAN]

(* mine: the helper's TilePainter is still one of the display's.           *)
HelperType == [tile : Tiles, im : Images, v : Nat, mine : BOOLEAN]

TypeOK ==
  /\ setup \in Setups
  /\ im \in Images \cup {NoImage}
  /\ painted \in Images
  /\ renderings \in [Images -> Seq([Cells -> Nat])]
  /\ \A i \in Images : Latest(i) > 0
  /\ visible \in SUBSET Cells
  /\ dirty \in SUBSET Cells
  /\ noErase \in SUBSET Cells
  /\ damage \in SUBSET Cells
  /\ screen \in [Cells -> {Blank} \cup (Images \X Nat)]
  /\ policy \in Policies
  /\ request \in [Tiles -> Nat]
  /\ requests \in SUBSET RequestType
  /\ cache \in SUBSET (Tiles \X Images)
  /\ helpers \in Seq(HelperType)
  /\ events \in 0 .. MaxEvents

-----------------------------------------------------------------------------
(* TilePainter.                                                            *)

Queued(t) == request[t] # 0

(* Mutant: a queued tile that is in the cache by now is painted at once.   *)
PaintsNowThoughQueued(t) ==
  \/ policy = "IMMEDIATE"
  \/ policy = "CACHE" /\ <<t, im>> \in cache

(* paintTile: whether a tile is painted at once.  One that is queued is    *)
(* not, even if it is in the cache by now: what is damaged may be more     *)
(* than the present paint shows.                                           *)
PaintsNow(t) ==
  /\ ~Queued(t)
  /\ \/ policy = "IMMEDIATE"
     \/ policy = "CACHE" /\ <<t, im>> \in cache

(* getGraphics: a tile is drawn where it is damaged and visible.  The      *)
(* bounds it clips to may be wider, up to the whole visible tile:          *)
(* createIntersect keeps rectangles that do not meet the tile.             *)
ClipOf(t, dmg, wide) ==
  IF wide THEN TileCells[t] \cap visible
  ELSE Hull[dmg \cap TileCells[t] \cap visible] \cap TileCells[t]

FreeId(t) ==
  LET used == {r.id : r \in {q \in requests : q.tile = t}}
  IN  CHOOSE n \in 1 .. (Cardinality(used) + 1) : n \notin used

NewRequest(t) ==
  [tile |-> t, id |-> FreeId(t), im |-> im, v |-> Latest(im), live |-> TRUE]

(* cancelTile, of the tiles of T that are queued: the latest request of    *)
(* each is withdrawn.  Withdrawing is advisory.                            *)
Withdrawn(T) ==
  {IF r.tile \in T /\ r.id = request[r.tile]
   THEN [r EXCEPT !.live = FALSE] ELSE r : r \in requests}

CellsOfQueued(T) == {c \in Cells : TileOf[c] \in T /\ Queued(TileOf[c])}

(* abortQueuedTiles                                                        *)
AbortQueuedTiles ==
  /\ damage' = damage \ CellsOfQueued(Tiles)
  /\ request' = [t \in Tiles |-> 0]
  /\ requests' = Withdrawn(Tiles)

-----------------------------------------------------------------------------
(* JadeDisplay.paintComponent on a clip area.                              *)

(* Tiles of the clip area that are visible.                                *)
Touched(clip) ==
  {t \in Tiles : TileCells[t] \cap clip # {} /\ TileCells[t] \cap visible # {}}

(* Tiles with damage about that no longer show.                            *)
ScrolledOff(clip) ==
  {t \in Tiles : /\ TileCells[t] \cap Hull[damage \cup clip] # {}
                 /\ TileCells[t] \cap visible = {}}

(* What a paint through Swing reaches.                                     *)
Reached(clip) == IF setup.buffered THEN clip ELSE Cells

PaintImage(clip, erase) ==
  LET now   == {t \in Touched(clip) : PaintsNow(t)}
      later == Touched(clip) \ now
      off   == ScrolledOff(clip)
  IN
  /\ \E wide \in SUBSET now :
       screen' = [c \in Cells |->
         IF /\ TileOf[c] \in now
            /\ c \in ClipOf(TileOf[c], damage \cup clip, TileOf[c] \in wide)
            /\ c \in Reached(clip)
         THEN Current(c)
         ELSE IF c \in clip /\ erase THEN Blank ELSE screen[c]]
  /\ damage' = ((damage \cup clip) \ {c \in Cells : TileOf[c] \in now})
                 \ CellsOfQueued(off)
  /\ request' = [t \in Tiles |-> CASE t \in off -> 0
                                    [] t \in later /\ ~Queued(t) -> FreeId(t)
                                    [] OTHER -> request[t]]
  /\ requests' = Withdrawn(off) \cup {NewRequest(t) : t \in {u \in later : ~Queued(u)}}
  /\ cache' = cache \cup {<<t, im>> : t \in now}

(* Without an image, there is only the background.                         *)
PaintBackground(clip) ==
  /\ screen' = [c \in Cells |-> IF c \in clip THEN Blank ELSE screen[c]]
  /\ UNCHANGED <<tilePainters, requests, cache>>

EventThreadFree == noErase = {}

(* Swing paints what is dirty.                                             *)
PaintEvent ==
  /\ EventThreadFree
  /\ dirty # {}
  /\ \/ im # NoImage /\ PaintImage(dirty, TRUE)
     \/ im = NoImage /\ PaintBackground(dirty)
  /\ dirty' = {}
  /\ UNCHANGED <<setup, image, visible, noErase, policy, helpers, events>>

(* The rectangles of a region.                                             *)
Largest(S) ==
  {A \in Areas : A \subseteq S /\ ~\E B \in Areas : A \subseteq B /\ A # B /\ B \subseteq S}

(* paintNoErase, within the handler of a rendering change: a rectangle at  *)
(* a time.                                                                 *)
PaintNoErase ==
  /\ noErase # {}
  /\ \E area \in Largest(noErase) :
       /\ PaintImage(area, FALSE)
       /\ noErase' = noErase \ area
  /\ UNCHANGED <<setup, image, visible, dirty, policy, helpers, events>>

-----------------------------------------------------------------------------
(* The workers' notifications, routed by the tile's place in the grid to   *)
(* the present TilePainter, whatever image the tile is of.                 *)

(* A worker has computed a tile.  tileComputed drops it unless it is of    *)
(* the rendering that its TilePainter shows, and leaves _queued as it is.  *)
TileComputed(r) ==
  /\ requests' = requests \ {r}
  /\ cache' = IF r.v = Latest(r.im) THEN cache \cup {<<r.tile, r.im>>} ELSE cache
  /\ helpers' = IF r.im = painted /\ r.v = Latest(painted)
                THEN Append(helpers, [tile |-> r.tile, im |-> r.im, v |-> r.v,
                                      mine |-> TRUE])
                ELSE helpers
  /\ UNCHANGED <<setup, image, swing, tilePainters, policy, events>>

(* tileComputationFailure: not queued any more, but still damaged.         *)
TileComputationFailure(r) ==
  /\ setup.failures
  /\ requests' = requests \ {r}
  /\ request' = [request EXCEPT ![r.tile] = 0]
  /\ UNCHANGED <<setup, image, swing, damage, policy, cache, helpers, events>>

(* tileCancelled: nothing to do.                                           *)
TileCancelled(r) ==
  /\ ~r.live
  /\ requests' = requests \ {r}
  /\ UNCHANGED <<setup, image, swing, tilePainters, policy, cache, helpers, events>>

WorkerAnswers ==
  \E r \in requests : TileComputed(r) \/ TileComputationFailure(r)

(* Mutant: the helper paints whatever it was given.                        *)
SupersededNever(h) == FALSE

(* TilePainterHelper.run, on the event thread: paintTileNow unless the     *)
(* TilePainter's image has had another rendering since.                    *)
Superseded(h) == h.v # Latest(h.im)

RunHelper ==
  /\ EventThreadFree
  /\ helpers # <<>>
  /\ helpers' = Tail(helpers)
  /\ LET h == Head(helpers) IN
     IF Superseded(h) THEN UNCHANGED <<screen, tilePainters>>
     ELSE /\ \E wide \in BOOLEAN :
               screen' = [c \in Cells |->
                 IF TileOf[c] = h.tile /\ c \in ClipOf(h.tile, damage, wide)
                 THEN Pixel(h.im, h.v, c) ELSE screen[c]]
          /\ damage' = damage \ TileCells[h.tile]
          /\ request' = IF h.mine THEN [request EXCEPT ![h.tile] = 0] ELSE request
  /\ UNCHANGED <<setup, image, visible, dirty, noErase, policy, requests, cache, events>>

-----------------------------------------------------------------------------
(* What users, the application and other consumers of the image do.        *)

Event ==
  /\ events < MaxEvents
  /\ events' = events + 1
  /\ UNCHANGED setup

(* repaint: Swing keeps one rectangle of what is to be painted.            *)
Repaint(area) == dirty' = Hull[dirty \cup (area \cap visible)]

(* Part of the window was covered, and shows again.                        *)
Expose(area) ==
  /\ Event /\ EventThreadFree
  /\ area \cap visible # {}
  /\ screen' = [c \in Cells |-> IF c \in area \cap visible THEN Blank ELSE screen[c]]
  /\ Repaint(area)
  /\ UNCHANGED <<image, visible, noErase, tilePainters, policy, requests, cache, helpers>>

(* The viewport scrolls, the component is hidden or shown: what was there  *)
(* and still is keeps its pixels.  hierarchyChanged aborts the tiles when  *)
(* the component does not show any more.                                   *)
Scroll(view) ==
  /\ Event /\ EventThreadFree
  /\ view # visible
  /\ visible' = view
  /\ screen' = [c \in Cells |-> IF c \in view \cap visible THEN screen[c] ELSE Blank]
  /\ dirty' = Hull[(dirty \cap view) \cup (view \ visible)] \cap view
  /\ IF view = {} THEN AbortQueuedTiles
     ELSE UNCHANGED <<tilePainters, requests>>
  /\ UNCHANGED <<image, noErase, policy, cache, helpers>>

(* Mutant: the new TilePainters take over what the old ones had queued.    *)
NewPaintersKeepQueue ==
  /\ UNCHANGED request
  /\ helpers' = [k \in DOMAIN helpers |-> [helpers[k] EXCEPT !.mine = FALSE]]

(* setImageInternal with an image: new TilePainters.  What the old ones    *)
(* had queued goes on.                                                     *)
NewPainters ==
  /\ request' = [t \in Tiles |-> 0]
  /\ helpers' = [k \in DOMAIN helpers |-> [helpers[k] EXCEPT !.mine = FALSE]]

SetImage(i) ==
  /\ Event /\ EventThreadFree
  /\ setup.quiet => helpers = <<>>
  /\ im' = i
  /\ painted' = i
  /\ NewPainters
  /\ Repaint(visible)
  /\ UNCHANGED <<renderings, visible, noErase, screen, damage, policy, requests, cache>>

(* Mutant: setImageInternal goes on with a null image.                     *)
SetNoImageGoesOn ==
  /\ Event /\ EventThreadFree
  /\ setup.quiet => helpers = <<>> /\ requests = {}
  /\ im # NoImage
  /\ im' = NoImage
  /\ painted' = NoImage
  /\ NewPainters
  /\ Repaint(visible)
  /\ UNCHANGED <<renderings, visible, noErase, screen, damage, policy, requests, cache>>

(* setImage(null) keeps the TilePainters.                                  *)
SetNoImage ==
  /\ Event /\ EventThreadFree
  /\ setup.quiet => helpers = <<>> /\ requests = {}
  /\ im # NoImage
  /\ im' = NoImage
  /\ Repaint(visible)
  /\ UNCHANGED <<painted, renderings, visible, noErase, screen, tilePainters, policy,
                 requests, cache, helpers>>

(* The image gets another rendering, with other pixels in the area.        *)
NewRendering(area) ==
  /\ renderings' = [renderings EXCEPT ![im] =
       Append(@, [c \in Cells |-> IF c \in area THEN Len(@) ELSE @[Len(@)][c]])]
  /\ cache' = cache \ (Tiles \X {im})

(* propertyChange, for a RenderingChangeEvent.  With another geometry or   *)
(* colour model the TilePainters are replaced.                             *)
GeometryChange ==
  /\ Event /\ EventThreadFree
  /\ im # NoImage
  /\ NewRendering(Cells)
  /\ damage' = damage \ CellsOfQueued(Tiles)
  /\ requests' = Withdrawn(Tiles)
  /\ NewPainters
  /\ Repaint(visible)
  /\ UNCHANGED <<im, painted, visible, noErase, screen, policy>>

(* The whole image has changed.                                            *)
WholeImageChange ==
  /\ Event /\ EventThreadFree
  /\ im # NoImage
  /\ NewRendering(Cells)
  /\ AbortQueuedTiles
  /\ IF setup.mode = "REPAINT"
     THEN Repaint(visible) /\ UNCHANGED noErase
     ELSE noErase' = visible /\ UNCHANGED dirty
  /\ UNCHANGED <<im, painted, visible, screen, policy, helpers>>

(* Mutant: only what has changed is painted again.                         *)
AreaChangedOnly(area) == area

(* Part of it has: what was damaged before the tiles were aborted has to   *)
(* be painted too.                                                         *)
AreaChanged(area) == damage \cup area

PartialImageChange(area) ==
  /\ Event /\ EventThreadFree
  /\ im # NoImage
  /\ NewRendering(area)
  /\ AbortQueuedTiles
  /\ IF setup.mode = "PARTIAL_NOERASE"
     THEN noErase' = AreaChanged(area) \cap visible /\ UNCHANGED dirty
     ELSE Repaint(AreaChanged(area)) /\ UNCHANGED noErase
  /\ UNCHANGED <<im, painted, visible, screen, policy, helpers>>

SetRepaintPolicy(p) ==
  /\ Event /\ EventThreadFree
  /\ p # policy
  /\ policy' = p
  /\ UNCHANGED <<image, swing, tilePainters, requests, cache, helpers>>

(* Others share the tile cache: a tile comes into it, or is thrown out.    *)
OtherConsumer(t) ==
  /\ Event
  /\ im # NoImage
  /\ LET entry == <<t, im>> IN
     cache' = IF entry \in cache THEN cache \ {entry} ELSE cache \cup {entry}
  /\ UNCHANGED <<image, swing, tilePainters, policy, requests, helpers>>

-----------------------------------------------------------------------------
Init ==
  /\ setup \in Setups
  /\ im = FirstImage
  /\ painted = FirstImage
  /\ renderings = [i \in Images |-> <<[c \in Cells |-> 0]>>]
  /\ visible = FirstView
  /\ dirty = FirstView
  /\ noErase = {}
  /\ damage = {}
  /\ screen = [c \in Cells |-> Blank]
  /\ policy = "CACHE"
  /\ request = [t \in Tiles |-> 0]
  /\ requests = {}
  /\ cache = {}
  /\ helpers = <<>>
  /\ events = 0

EventThread == PaintEvent \/ PaintNoErase \/ RunHelper

User ==
  \/ \E area \in Spots : Expose(area)
  \/ \E view \in Views : Scroll(view)
  \/ \E i \in Images : SetImage(i)
  \/ SetNoImage
  \/ GeometryChange
  \/ WholeImageChange
  \/ \E area \in Spots : PartialImageChange(area)
  \/ \E p \in Policies : SetRepaintPolicy(p)
  \/ \E t \in Tiles : OtherConsumer(t)

Next ==
  \/ EventThread
  \/ WorkerAnswers
  \/ \E r \in requests : TileCancelled(r)
  \/ User

(* The event thread goes on handling events and the workers go on with     *)
(* their queue.  Users need do nothing.                                    *)
Fairness ==
  /\ WF_vars(PaintEvent)
  /\ WF_vars(PaintNoErase)
  /\ WF_vars(RunHelper)
  /\ WF_vars(WorkerAnswers)

Spec == Init /\ [][Next]_vars /\ Fairness

-----------------------------------------------------------------------------
(* The invariant that the proofs use.                                      *)

(* A display that paints to the screen may lose tiles; one that is double  *)
(* buffered may not.  Neither is given another image while an answer waits.*)
Sound == setup.quiet /\ ~(setup.buffered /\ setup.failures)

Finite == IsFiniteSet(requests)

WindowInv ==
  /\ visible \in Views
  /\ dirty \subseteq visible
  /\ noErase \subseteq visible

(* The TilePainters are those of the image, and so is what waits.          *)
ImageInv ==
  /\ im # NoImage => painted = im
  /\ im = NoImage => noErase = {}
  /\ setup.quiet =>
       /\ \A k \in DOMAIN helpers : helpers[k].im = painted
       /\ im = NoImage => helpers = <<>> /\ requests = {}

(* Unless tiles fail, what is damaged and shows is about to be painted     *)
(* by Swing, or else by a tile that is queued.                             *)
DamageIsQueued ==
  ~setup.failures /\ im # NoImage =>
    \A c \in damage \cap visible : c \in dirty \cup noErase \/ Queued(TileOf[c])

Answered(t) ==
  \/ \E r \in requests : /\ r.tile = t /\ r.id = request[t] /\ r.live
                         /\ r.im = painted /\ r.v = Latest(painted)
  \/ \E k \in DOMAIN helpers : /\ helpers[k].tile = t /\ helpers[k].mine
                               /\ helpers[k].im = painted /\ helpers[k].v = Latest(painted)

RequestInv == \A t \in Tiles : Queued(t) => Answered(t)

-----------------------------------------------------------------------------
(* Properties.                                                             *)

(* A visible cell that does not show what it ought to is going to be       *)
(* painted: Swing has it in hand, or it is on the damage list.             *)
NothingForgotten ==
  \A c \in visible : screen[c] # Current(c) => c \in dirty \cup noErase \cup damage

IInv ==
  /\ TypeOK /\ Finite /\ WindowInv /\ ImageInv /\ DamageIsQueued /\ RequestInv
  /\ Sound => NothingForgotten

(* A tile that is queued has an answer coming that it will accept; without *)
(* one, paintTile would take it for queued ever after.                     *)
QueuedIsAnswered ==
  \A t \in Tiles : Queued(t) =>
    \/ \E r \in requests : r.tile = t /\ r.live /\ r.im = painted /\ r.v = Latest(painted)
    \/ \E k \in DOMAIN helpers : helpers[k].tile = t /\ helpers[k].mine

(* A tile that is painted is of the image and rendering on display.        *)
OnlyTheDisplayedImage ==
  [][\A c \in Cells : screen'[c] \in {screen[c], Blank, Current(c)}]_vars

(* Once nothing more happens, the display comes to show the image, unless  *)
(* a tile could not be computed.                                           *)
Settled == \A c \in visible : screen[c] = Current(c)
Settles == (~setup.failures) => <>[]Settled

=============================================================================
