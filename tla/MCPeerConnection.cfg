CONSTANTS
  ChannelSize = 1
  InboxSize = 1
  MaxReq = 3
  Margin = 1
  Word = 8
  MetadataBlocks = 1
  MaxQueued = 2
  UsizeMax = 7
  RemoteSends = {"Choke", "Unchoke", "Bitfield", "Have", "Piece", "Handshake", "MetadataAnswer", "KeepAlive", "Silence", "Interested", "NotInterested", "Cancel", "Close"}
  ManagerSends = {"Pause", "Resume", "GotMetadata"}
SPECIFICATION Spec
INVARIANTS InterestIsTold OutstandingIsCounted NothingWaitsIdle
PROPERTIES OneBatchAtATime
CHECK_DEADLOCK FALSE
