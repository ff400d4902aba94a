CONSTANTS
  Torrent = {t1}
  Caller = {a}
  Builder = a
  MaxManagers = 2
  Workers = 3
  ChannelSize = 1
  Calls = {"add_torrent", "add_magnet", "pause_or_resume", "continue_unfinished"}
  MayPanic = TRUE
SPECIFICATION FairSpec
INVARIANTS RegisteredIsThere MetadataHasRecord
PROPERTIES ProgressIsKept CallsReturn EndedIsForgotten
CHECK_DEADLOCK FALSE
