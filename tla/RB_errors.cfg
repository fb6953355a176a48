SPECIFICATION Spec
CONSTANTS
  RecSize = 2
  BlockSize = 1
  MinBufSize = 1
  Sequential = TRUE
  NRec = 2
  NominalRecs = 2
  NoLabels = TRUE
  UserPixel = 1
  FilePixel = 1
  ReadErrors = TRUE
  Tags = {"a"}
  FileSizes = {0, 4}
  Byte <- MCByte
  Zero <- MCZero
  Garbage <- MCGarbage
  Requests <- MCWhole
  Images <- MCImages
  InitialFiles <- MCInitialFiles
  ShortWrites <- MCShortWrites
INVARIANTS IInv PromisedBytesExist PromisedRecordsExist EofCoversWrites
