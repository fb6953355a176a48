SPECIFICATION Spec
CONSTANTS
  RecSize = 2
  BlockSize = 2
  MinBufSize = 1
  Sequential = FALSE
  NRec = 4
  NominalRecs = 3
  NoLabels = FALSE
  UserPixel = 1
  FilePixel = 1
  ReadErrors = FALSE
  Tags = {"a"}
  FileSizes = {0, 5}
  Byte <- MCByte
  Zero <- MCZero
  Garbage <- MCGarbage
  Requests <- MCHead
  Images <- MCImages
  InitialFiles <- MCInitialFiles
  ShortWrites <- MCNoShortWrites
PROPERTY Implements
