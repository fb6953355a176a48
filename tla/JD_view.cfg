SPECIFICATION Spec
CONSTANTS
  Cells <- MCCells
  Tiles <- MCTiles
  TileOf <- MCTileOf
  Areas <- MCAreas
  Spots <- MCSpots
  Views <- MCViews
  Images = {A, B}
  FirstImage = A
  FirstView <- MCCells
  NoImage = None
  Blank = Blank
  Setups <- SoundSetups
  MaxEvents = 2
INVARIANTS TypeOK NothingForgotten QueuedIsAnswered
PROPERTIES OnlyTheDisplayedImage Settles
CHECK_DEADLOCK FALSE
