--------------------------- MODULE MCTileDisplay ----------------------------
(* A row of cells, in a tile of two cells and one of a single cell.        *)
EXTENDS TileDisplay

MCCells == 1 .. 3
MCTiles == {1, 2}
MCTileOf == <<1, 1, 2>>
MCAreas == {a .. b : a, b \in MCCells}

(* Part of a tile, and an area across two.                                 *)
MCSpots == {{1}, {2, 3}}

(* The viewport shows all, or cuts the first tile, or leaves one out, or   *)
(* the display is hidden.                                                  *)
MCViews == {{}, {1, 2, 3}, {2, 3}, {1, 2}}

Setup(buffered, failures, quiet, mode) ==
  [buffered |-> buffered, failures |-> failures, quiet |-> quiet, mode |-> mode]

(* A display that paints to the screen may lose tiles; one that is double  *)
(* buffered may not.                                                       *)
SoundSetups ==
  {Setup(TRUE, FALSE, TRUE, "REPAINT"), Setup(FALSE, TRUE, TRUE, "FULL_NOERASE"),
   Setup(TRUE, FALSE, TRUE, "PARTIAL_NOERASE")}

(* One whose image is replaced at any time.                                *)
BusySetups == {Setup(FALSE, FALSE, FALSE, "REPAINT")}
=============================================================================
