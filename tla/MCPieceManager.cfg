CONSTANTS
  p1 = p1
  p2 = p2
  PeerId = {p1, p2}
  NPieces = 2
  BitfieldLengths = {2}
  MAX_PIECES_IN_PARALLEL = 0
  MaxRarity = 1
  BLOCK_MAX = 2
  PieceLength = 3
  Length = 4
  NBlocks <- MCNBlocks
  RequestLimits = {2}
  BlockData = {"Good", "Bad"}
  BitfieldsOf <- MCBitfieldsOf
  Leaving = {p2}
  AskingEarly = {p1, p2}
  MaxFailures = 1
SPECIFICATION Spec
INVARIANTS QueuedOnce RecordedNotQueued SeedingIsComplete BlocksFillThePiece OnlyFailuresWaste
PROPERTIES ImplementsDownload
