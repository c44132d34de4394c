SPECIFICATION Spec
CONSTANTS
  NULL = NULL
  ReaderShapes <- MCReaderShapes
  WriterShapes <- MCWriterShapes
  Values <- MCValues
  Half <- MCHalf
  MaxBytes <- MCMaxBytes
  ByteBits = 2
  Group = 4
  GrowthSize = 64
  MaxRows = 2
CHECK_DEADLOCK FALSE
INVARIANTS
  RowBlobTypeOK
  ReadsBackWhatWasWritten
  PrefixIsNeverMisread
  CursorReferencesBalance
  StreamIsItsBlobs
