SPECIFICATION Spec
CONSTANTS
  Files <- Cut
  Readable <- SomeReadable
  Blocks = {1}
  LineSizes = {12}
  PageSize = 64
  Control <- Tab
  INT_MAX = 3
  LLONG_MAX = 4
  MaxLines = 3
  MaxBytes = 0
INVARIANTS
  ReadsAheadWhatIsListed
