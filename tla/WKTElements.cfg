SPECIFICATION ElementSpec
CONSTANTS
  Extra = {0, 24}
  MaxLength = 26
  MaxNulls = 2
  MantissaBits = 5
  ExponentBits = 5
  WordBits = 10
  WordDigits = 3
  Numbers <- AllNumbers
  Numerals <- AllNumerals
  Precisions = {0, 1, 2, 10}
  None = None
INVARIANTS
  ReleasedBitmap
  ShortestText
  TrimmedExact
  ReadNearest
  RoomSuffices
PROPERTIES
  ImplementsBits
CHECK_DEADLOCK FALSE
