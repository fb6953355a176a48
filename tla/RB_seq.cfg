SPECIFICATION Spec
CONSTANTS
  RecSize = 3
  BlockSize = 4
  MinBufSize = 1
  Sequential = TRUE
  NRec = 3
  NominalRecs = 3
  NoLabels = TRUE
  UserPixel = 1
  FilePixel = 1
  ReadErrors = FALSE
  Tags = {"a"}
  FileSizes = {7}
  Byte <- MCByte
  Zero <- MCZero
  Garbage <- MCZero
  Requests <- MCTail
  Images <- MCImages
  InitialFiles <- MCInitialFiles
  ShortWrites <- MCShortWrites
INVARIANTS TypeOK CleanWindowIsOnDisk
PROPERTY Implements
