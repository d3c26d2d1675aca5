CONSTANTS
  NestingLimit = 2
  DefaultSize = 6
  IntMax = 60
  MaxFails = 1
  MaxAdded = 2
  Texts <- MCTexts
  Members <- MCMembers
SPECIFICATION Spec
INVARIANT Grammar
INVARIANT InBounds
INVARIANT ListShape
INVARIANT NoLeak
INVARIANT WithinBuffer
INVARIANT RoundTrip
INVARIANT Utf16Decoded
INVARIANT OutputFits
INVARIANT PiecesSilent
