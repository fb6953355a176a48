SPECIFICATION Spec
CONSTANTS
  Junk <- MCJunk
  Old <- MCOld
  Jobs <- SoundJobs
  MaxPixel = 4
  NoJob = NoJob
  Prefixes = {0, 1, 3}
  PixelSizes = {1, 4}
  Pixels = {2}
INVARIANTS TypeOK CopiesTheOverlap NoInternalError
