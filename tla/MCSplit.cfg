SPECIFICATION Spec
CONSTANTS
  Texts <- AllTexts
  MaxLength = 6
INVARIANTS
  StaysInString
  SplitsIntoArguments
