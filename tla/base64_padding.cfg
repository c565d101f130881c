SPECIFICATION Spec
CONSTANTS
  Quarter = 2
  OutBuffer = 2
  Buffers = {b1, b2}
  NoResult = NoResult
  TempBuffer = 2
  Values <- Numbers
  Types <- IntTypes
  Garbage <- Garbages
  Strings <- Contents
  Delimiters <- Delims
  HexTexts <- AllHex
  Base64Texts <- AllBase64
  Lengths = {1, 2, 9}
  MaxSize = 4
  MaxWrites = 2
  ShortText = 1
PROPERTY BadPaddingRejected
CHECK_DEADLOCK FALSE
