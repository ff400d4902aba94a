--------------------------- MODULE PieceStorage ---------------------------
(***************************************************************************)
(* The download with the bytes of its pieces and blocks: PieceManager and  *)
(* PieceGeometry.  Pieces and blocks of the manager are numbered from 1.   *)
(***************************************************************************)
EXTENDS PieceManager, PieceGeometry

ASSUME StorageAssumption ==
  /\ NPieces = NumPieces
  /\ NBlocks = [i \in Piece |-> NumBlocks(i - 1)]

\* The bytes of a piece's buffer that its block b covers.
BytesOf(piece, b) == BlockBytes(piece.piece_i - 1, b - 1)

\* The bytes that have arrived (update_state).
Arrived(piece) ==
  UNION { BytesOf(piece, b) : b \in { d \in DOMAIN piece.blocks : piece.blocks[d] \in Finished } }

\* The bytes that are asked for, or still may be.
Awaited(piece) ==
  UNION { BytesOf(piece, b) : b \in { d \in DOMAIN piece.blocks : piece.blocks[d] \notin Finished } }

-----------------------------------------------------------------------------
(* Properties *)

\* Whatever blocks of a queued piece have arrived, have been asked for or have
\* timed out: no byte of the piece is lost, none is covered twice, none is asked
\* for beyond the piece's end, and the block that an answer finishes is the one
\* that was asked for.
BlocksFillThePiece ==
  \A j \in DOMAIN download_queue : LET piece == download_queue[j] IN
    /\ Arrived(piece) \cup Awaited(piece) = Bytes(0, GetPieceSize(piece.piece_i - 1))
    /\ Arrived(piece) \cap Awaited(piece) = {}
    /\ \A b \in DOMAIN piece.blocks : BlockAt(Begin(b - 1)) = b - 1

-----------------------------------------------------------------------------
(* What the repository says and the code does not keep: the model refutes  *)
(* it (README, section 4).                                                  *)

\* get_bytes_left_to_download; 999 stands for a complete download.
GetBytesLeft ==
  IF RecordedPieces = DOMAIN db THEN 999
  ELSE Cardinality(DOMAIN db \ RecordedPieces) * BLOCK_MAX

\* "the number of bytes left to download" (core/tracker.rs).
LeftIsWhatIsMissing ==
  db # <<>> =>
    GetBytesLeft =
      Length - Cardinality(UNION { PieceBytes(i - 1) : i \in RecordedPieces })
=============================================================================
