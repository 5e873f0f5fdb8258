SPECIFICATION FairSpec
CONSTANTS
  Files <- Both
  Readable <- SomeReadable
  Blocks = {0, 1, 2}
  LineSizes = {5, 12}
  PageSize = 3
  Control <- Tab
  INT_MAX = 3
  LLONG_MAX = 4
  MaxLines = 4
  MaxBytes = 6
INVARIANTS
  TypeOK
  StaysInBlock
  MappedWhileUsed
  StringsEndInMapping
  NeverDividesByZero
  ReadsAheadWhatIsListed
  SortKeepsEveryLine
  SortedByBlock
PROPERTIES
  ParserTerminates
