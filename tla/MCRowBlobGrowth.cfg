SPECIFICATION Spec
CONSTANTS
  NULL = NULL
  ReaderShapes <- MCLongRows
  WriterShapes <- MCLongRows
  Values <- MCValues
  Half <- MCHalf
  MaxBytes <- MCMaxBytes
  ByteBits = 2
  Group = 4
  GrowthSize = 6
  MaxRows = 1
CHECK_DEADLOCK FALSE
INVARIANT ReadsBackWhatWasWritten
