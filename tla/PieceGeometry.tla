--------------------------- MODULE PieceGeometry ---------------------------
(***************************************************************************)
(* The bytes of pieces and blocks (piece_manager/req_preparer.rs and       *)
(* file_manager.rs).  Pieces, blocks and bytes are numbered from 0, as in  *)
(* the code; a range of bytes is the set of their numbers.                 *)
(***************************************************************************)
EXTENDS Integers

CONSTANTS
  BLOCK_MAX,        \* the length of a block (1 << 14)
  PieceLength,      \* Metainfo.piece_length
  Length            \* Metainfo::get_length

ASSUME GeometryAssumption ==
  /\ BLOCK_MAX \in Nat \ {0} /\ PieceLength \in Nat \ {0} /\ Length \in Nat \ {0}

Bytes(first, n) == first..(first + n - 1)

\* u32::div_ceil
DivCeil(a, b) == IF a % b = 0 THEN a \div b ELSE a \div b + 1

\* One hash for each piece of a well-formed torrent.
NumPieces == DivCeil(Length, PieceLength)

GetPieceSize(piece_i) ==
  IF piece_i = NumPieces - 1 /\ Length % PieceLength # 0
  THEN Length % PieceLength
  ELSE PieceLength

\* PieceState::new
NumBlocks(piece_i) == DivCeil(GetPieceSize(piece_i), BLOCK_MAX)

\* mutant: blocks are counted from one
LastCountedFromOne(n_blocks, piece_size, block_i) ==
  IF block_i = n_blocks /\ piece_size % BLOCK_MAX # 0
  THEN piece_size % BLOCK_MAX
  ELSE BLOCK_MAX

GetBlockLen(n_blocks, piece_size, block_i) ==
  IF block_i = n_blocks - 1 /\ piece_size % BLOCK_MAX # 0
  THEN piece_size % BLOCK_MAX
  ELSE BLOCK_MAX

\* The request for a block: where it begins, and its bytes in the piece.
Begin(block_i) == block_i * BLOCK_MAX

BlockBytes(piece_i, block_i) ==
  Bytes(Begin(block_i), GetBlockLen(NumBlocks(piece_i), GetPieceSize(piece_i), block_i))

\* update_state: the block that data from `begin` on finishes.
BlockAt(begin) == begin \div BLOCK_MAX

\* write_piece_to_file: where a piece should be in the file.  A file that was
\* opened with append ignores it (PieceManager!WritePieceToFile).
Offset(piece_i) == piece_i * PieceLength

\* The bytes of the torrent that a piece holds.
PieceBytes(piece_i) == Bytes(Offset(piece_i), GetPieceSize(piece_i))
=============================================================================
