CONSTANTS
  Torrent = {"T1"}
  Piece = {1}
  BroadcastSize = 2
  ClientChannelSize = 1
  MaxCount = 1
  ITEM_HEIGHT = 5
  Heights = {4, 5}
  MaxStarts = 1
  MaxConnects = 1
  Reached = {"Inbound"}
SPECIFICATION FairSpec
INVARIANTS ProgressIsShown NeverCountsTooMany PausedIsShown DrawnFits
PROPERTIES CanBeResumed PressReturns
