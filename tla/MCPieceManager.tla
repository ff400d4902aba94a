-------------------------- MODULE MCPieceManager --------------------------
(***************************************************************************)
(* The download of a torrent of two pieces, the first of two blocks of     *)
(* different lengths, the second of one byte.                              *)
(***************************************************************************)
EXTENDS PieceStorage

CONSTANTS p1, p2

MCNBlocks == [i \in 1..NumPieces |-> NumBlocks(i - 1)]

AllPieces == <<TRUE, TRUE>>

\* p1 has every piece, p2 only the second one.
MCBitfieldsOf ==
  [id \in PeerId |-> IF id = p1 THEN {AllPieces} ELSE {<<FALSE, TRUE>>}]

SeedersBitfields == [id \in PeerId |-> {AllPieces}]
=============================================================================
