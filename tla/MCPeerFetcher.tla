--------------------------- MODULE MCPeerFetcher ---------------------------
EXTENDS PeerFetcher

MCTiers == << <<"a", "b", "c">>, <<"d", "e">> >>
=============================================================================
