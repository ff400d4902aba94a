-------------------------- MODULE MCPieceSelector --------------------------
(***************************************************************************)
(* The piece selector on a small instance: the bitfields of the wire are   *)
(* whole bytes, so a peer may send one that is longer than the torrent     *)
(* (padded) or, before the metadata is known, shorter.                     *)
(***************************************************************************)
EXTENDS PieceSelector, TLC

MCBitfieldLengths == {1, 3}

PeerSymmetry == Permutations(PeerId)
=============================================================================
