CONSTANTS
  p1 = p1
  p2 = p2
  PeerId = {p1, p2}
  NPieces = 2
  BitfieldLengths = {2}
  MAX_PIECES_IN_PARALLEL = 0
  MaxRarity = 1
  BLOCK_MAX = 2
  PieceLength = 4
  Length = 6
  NBlocks <- MCNBlocks
  RequestLimits = {1}
  BlockData = {"Good"}
  BitfieldsOf <- SeedersBitfields
  Leaving = {p2}
  AskingEarly = {}
  MaxFailures = 1
SPECIFICATION FairSpec
INVARIANT NothingIsForgotten
PROPERTIES DownloadCompletes
