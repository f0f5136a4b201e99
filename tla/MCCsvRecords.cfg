SPECIFICATION Spec
CONSTANTS
  Characters <- Alphabet
  Quote = Quote
  EndOfLine = EndOfLine
  Comma = Comma
  Semicolon = Semicolon
  Letter = Letter
  NullChar = NullChar
  Unset = Unset
  DwordValues = 64
  Headers <- OneOrTwoColumns
  Texts <- Samples
  Separators = {Semicolon, Quote}
  FilterSets <- OtherOrder
  InitialFiles <- NoFile
  MaxRecords = 2
  FailingWrites = FALSE
  SameSeparator = TRUE
  RewritesReadFiles = TRUE
  AnsiCalls = FALSE
INVARIANTS TypeOK FileHoldsRecords FirstFilteredFieldOnly
PROPERTY StreamImplemented
