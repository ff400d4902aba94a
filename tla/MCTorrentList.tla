--------------------------- MODULE MCTorrentList ---------------------------
EXTENDS TorrentList
=============================================================================
