\* RAM of four windows; images of one, of two and of more windows, too small and
\* too large ones; blobs of no, one and several chunks; one error nobody hears of.
CONSTANTS
  Texts <- MCTexts
  WinSize = 8
  RamSize = 32
  FwSizes = {3, 9, 16, 33}
  BlobSizes <- MCBlobs
  ChunkLen = 4
  MaxErrors = 1
  Faults = TRUE
SPECIFICATION Spec
INVARIANTS
  NeverAstray
  NvramFits
  NvramIsTheFile
  Undone
  ClmWhole
PROPERTY ArmStartsComplete
CHECK_DEADLOCK FALSE
