\* Lines of every length on a connection that ends in any way, and pages of every mixture
\* of row lengths.
CONSTANTS
  Lines <- AllLines
  BufferSize = 5
  MaxLines = 3
  Size = 60
  Reserve = 12
  Heading <- Headings
  Footer = 3
  RowMax <- RowLengths
  MaxRows <- RowCounts
  GrowthMax = 2
SPECIFICATION BuffersSpec
INVARIANTS
  ReaderTypeOK
  BytesInOrder
  LinesServedWhole
  LinesAreAnswered
  OnlyEmptyLinesEnd
  NothingIsCut
PROPERTY
  EndIsNoticed
CHECK_DEADLOCK FALSE
