SPECIFICATION Spec
CONSTANTS
  RouteMethods = {"GET", "LOCK", "UNLOCK"}
  Within <- MCWithin
  Paths <- MCPaths
  MaxRoutes = 3
  Names = {"connection", "te"}
  Spellings = {"lower", "mixed"}
  Values <- MCValues
  Lower <- MCLower
  MaxAdds = 2
  Pieces <- MCPieces
  MaxPieces = 5
  Alphabet = 3
  Piece = 4
  MaxBytes = 13
  MaxChunks = 3
INVARIANTS AllowAccurate TokensKept SanitizeExact EscapeBlind ProducerContract TrailerMatches
PROPERTY FirstRegistered
CHECK_DEADLOCK FALSE
