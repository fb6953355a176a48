SPECIFICATION Spec
CONSTANTS
  Cells <- MCCells
  Tiles <- MCTiles
  TileOf <- MCTileOf
  Areas <- MCAreas
  Spots <- MCSpots
  Views <- MCViews
  Images = {A, B}
  FirstImage = A
  FirstView <- MCCells
  NoImage = None
  Blank = Blank
  Setups <- BusySetups
  MaxEvents = 2
PROPERTY Settles
CHECK_DEADLOCK FALSE
