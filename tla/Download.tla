------------------------------ MODULE Download ------------------------------
(***************************************************************************)
(* What the download of one torrent promises of the two things that        *)
(* outlive the process, the output file and the database record: a piece   *)
(* is recorded only after its verified data was written, a recorded piece  *)
(* is never written again, and nothing that was written or recorded is     *)
(* ever taken back.                                                        *)
(***************************************************************************)
EXTENDS Naturals

CONSTANT Pieces

VARIABLES
  metadata,   \* is there a record of the torrent?
  copies,     \* piece -> how often its verified data is in the file
  recorded    \* the pieces the record marks as stored

downloadVars == <<metadata, copies, recorded>>

DownloadInit ==
  /\ metadata \in BOOLEAN
  /\ copies = [i \in Pieces |-> 0]
  /\ recorded = {}

LearnMetadata ==
  /\ ~metadata
  /\ metadata' = TRUE
  /\ UNCHANGED <<copies, recorded>>

\* A piece may be written twice, when its record was lost.
WritePiece(i) ==
  /\ metadata
  /\ i \notin recorded
  /\ copies' = [copies EXCEPT ![i] = @ + 1]
  /\ UNCHANGED <<metadata, recorded>>

RecordPiece(i) ==
  /\ copies[i] > 0
  /\ i \notin recorded
  /\ recorded' = recorded \cup {i}
  /\ UNCHANGED <<metadata, copies>>

DownloadNext ==
  \/ LearnMetadata
  \/ \E i \in Pieces : WritePiece(i) \/ RecordPiece(i)

DownloadSpec == DownloadInit /\ [][DownloadNext]_downloadVars
=============================================================================
