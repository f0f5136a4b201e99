SPECIFICATION Spec
CONSTANTS
  Characters <- Alphabet
  Quote = Quote
  EndOfLine = EndOfLine
  Comma = Comma
  Semicolon = Semicolon
  Letter = Letter
  NullChar = NullChar
  Unset = Unset
  DwordValues = 64
  Headers <- TwoColumns
  Texts <- ShortTexts
  Separators = {}
  FilterSets <- None
  InitialFiles <- NoFile
  MaxRecords = 1
  FailingWrites = FALSE
  SameSeparator = TRUE
  RewritesReadFiles = FALSE
  AnsiCalls = FALSE
INVARIANT FileHoldsRecords
PROPERTY StreamImplemented
