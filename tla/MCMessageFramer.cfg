CONSTANTS
  KnownType = {5, 20}
  Shortest <- MCShortest
  ForeignType = {9}
  Payloads <- MCPayloads
  MaxLength = 2
  MaxMessages = 3
SPECIFICATION FairSpec
PROPERTIES FineIsDecoded ImplementsChannel
CHECK_DEADLOCK FALSE
