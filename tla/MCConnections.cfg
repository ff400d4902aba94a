CONSTANTS
  c1 = c1
  c2 = c2
  Conn = {c1, c2}
  PeerId = {"A", "B"}
  Remotes <- MCRemotes
  StoredBefore = {{}}
  Closing = {c1}
  Piece = {1, 2}
  InboxSize = 1
  MailboxSize = 1
  MaxEvents = 2
SPECIFICATION FairSpec
INVARIANTS NothingIsMissed AloneIsRegistered NothingIsLeftBehind
PROPERTIES PiecesAreTold EndedIsForgotten
CHECK_DEADLOCK FALSE
