CONSTANTS
  ChannelSize = 1
  InboxSize = 1
  MaxReq = 1
  Margin = 2
  Word = 2
  MetadataBlocks = 1
  MaxQueued = 1
  UsizeMax = 2
  RemoteSends = {"Choke", "Unchoke", "Request", "Piece", "UnaskedPiece", "Handshake", "MetadataAnswer", "MetadataRequest", "Error", "Close"}
  ManagerSends = {"FinishedPiece", "Stop"}
SPECIFICATION FairSpec
PROPERTIES QueuedIsSent
CHECK_DEADLOCK FALSE
