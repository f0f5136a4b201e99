SPECIFICATION Spec
CONSTANTS
  Characters <- Alphabet
  Quote = Quote
  EndOfLine = EndOfLine
  Comma = Comma
  Semicolon = Semicolon
  Letter = Letter
  NullChar = NullChar
  Unset = Unset
  DwordValues = 64
  Headers <- None
  Texts <- Specials
  Separators = {}
  FilterSets <- TwoNames
  InitialFiles <- Garbage
  MaxRecords = 1
  FailingWrites = TRUE
  SameSeparator = FALSE
  RewritesReadFiles = FALSE
  AnsiCalls = TRUE
PROPERTY ReadsProgress
