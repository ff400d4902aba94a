-------------------------- MODULE MCPeerConnection --------------------------
EXTENDS PeerConnection
=============================================================================
