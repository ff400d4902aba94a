CONSTANTS
  p1 = p1
  p2 = p2
  PeerId = {p1}
  NPieces = 2
  BitfieldLengths = {2}
  MAX_PIECES_IN_PARALLEL = 0
  MaxRarity = 1
  BLOCK_MAX = 2
  PieceLength = 3
  Length = 4
  NBlocks <- MCNBlocks
  RequestLimits = {1}
  BlockData = {"Good", "Bad"}
  BitfieldsOf <- MCBitfieldsOf
  Leaving = {}
  AskingEarly = {p1}
  MaxFailures = 0
SPECIFICATION FairSpec
PROPERTIES DiscardedIsPickedUp
