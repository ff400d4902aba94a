CONSTANTS
  Peer = {p1, p2, p3}
  Supporting = {p1, p2}
  Answering = {p1}
  BlockSize = 2
  Length = 3
  Claims = {0, 2, 3, 5}
  Answers <- MCAnswers
  RemoteRequests = TRUE
SPECIFICATION FairSpec
INVARIANTS DownloadsTheTorrent SomethingIsMissing
PROPERTIES MetadataArrives
CHECK_DEADLOCK FALSE
