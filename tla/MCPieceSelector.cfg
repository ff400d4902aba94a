CONSTANTS
  PeerId = {p1, p2}
  NPieces = 2
  BitfieldLengths <- MCBitfieldLengths
  MAX_PIECES_IN_PARALLEL = 0
  MaxRarity = 2
SYMMETRY PeerSymmetry
SPECIFICATION SelectorSpec
INVARIANTS RarityNeverUndercounts
PROPERTIES NeverSelectsHeldPiece RarestFirst
CHECK_DEADLOCK FALSE
