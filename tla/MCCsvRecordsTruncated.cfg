SPECIFICATION Spec
CONSTANTS
  Characters <- Alphabet
  Quote = Quote
  EndOfLine = EndOfLine
  Comma = Comma
  Semicolon = Semicolon
  Letter = Letter
  NullChar = NullChar
  Unset = Unset
  DwordValues = 64
  Headers <- OneColumn
  Texts <- Samples
  Separators = {Semicolon}
  FilterSets <- None
  InitialFiles <- NoFile
  MaxRecords = 1
  FailingWrites = TRUE
  SameSeparator = TRUE
  RewritesReadFiles = FALSE
  AnsiCalls = FALSE
INVARIANT ReadsWithinFile
