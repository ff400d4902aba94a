--------------------------- MODULE PieceManager ---------------------------
(***************************************************************************)
(* The download of one torrent: the parts of the peer manager's event loop *)
(* (peer_manager/event_loop.rs) that drive the piece selector and the      *)
(* piece manager (piece_manager/req_preparer.rs and file_manager.rs), the  *)
(* output file and the torrent's database record, through write and        *)
(* database failures, crashes and restarts.                                *)
(*                                                                         *)
(* The event loop handles one message at a time.  Only the completion of a *)
(* piece spans two steps: the file is written, then the loop awaits the    *)
(* database, and the process may die in between (`saving`).                *)
(***************************************************************************)
EXTENDS PieceSelector, Sequences

CONSTANTS
  NBlocks,          \* piece -> its number of blocks
  RequestLimits,    \* how many blocks a peer may have requested at once
  BlockData,        \* what the peers' blocks may carry: "Good", "Bad"
  BitfieldsOf,      \* peer -> the bitfields it may send
  Leaving,          \* the peers that may disconnect
  AskingEarly,      \* the peers that may ask before they sent a bitfield
  MaxFailures       \* bound: failed writes, failed updates and crashes

ASSUME ManagerAssumption ==
  /\ NBlocks \in [Piece -> Nat \ {0}]
  /\ RequestLimits \subseteq Nat
  /\ BlockData \subseteq {"Good", "Bad"}
  /\ BitfieldsOf \in [PeerId -> SUBSET SentBitfield]
  /\ Leaving \subseteq PeerId
  /\ AskingEarly \subseteq PeerId
  /\ MaxFailures \in Nat

VARIABLES
  torrent_state,    \* the TorrentState, or "Stopped": no manager runs
  download_queue,   \* the pieces being downloaded: <<[piece_i, blocks], ...>>
  saving,           \* the piece whose database update is awaited
  file,             \* what was appended to the output file
  db,               \* the bitfield of the torrent's record; <<>>: no record
  announced,        \* the pieces broadcast as finished since the last start
  failures

managerVars ==
  <<torrent_state, download_queue, saving, file, db, announced, failures>>

vars == <<selectorVars, managerVars>>

NoPiece == 0
Partial == 0      \* a chunk of the file that a failed write left behind

FileChunk == Piece \cup {Partial}

\* BlockState: "TimedOut" is an InProcess whose TIMEOUT_FOR_REQ has elapsed;
\* a Finished block is "Good" when the buffer holds the torrent's data there.
NeverRequested == {"None"}   \* mutant: a request never times out

NotRequested == {"None", "TimedOut"}
Finished     == {"Good", "Bad"}
BlockState   == NotRequested \cup {"InProcess"} \cup Finished

Running == torrent_state # "Stopped"

\* The event loop can take the next message.
Idle == Running /\ saving = NoPiece

AnyHad(bitfield) == \E i \in DOMAIN bitfield : bitfield[i]   \* mutant

AllHad(bitfield) == \A i \in DOMAIN bitfield : bitfield[i]

-----------------------------------------------------------------------------
(* req_preparer.rs *)

\* PieceState::new
NewPieceState(i) == [piece_i |-> i, blocks |-> [b \in 1..NBlocks[i] |-> "None"]]

\* get_piece_for_peer and prepare_requests_for_piece: the blocks a peer can
\* be asked for are taken in the order of the queue, then of the piece.
Requestable(id, queue) ==
  { r \in UNION { {j} \X DOMAIN queue[j].blocks : j \in DOMAIN queue } :
      /\ HasPiece(peer_bitfields[id], queue[r[1]].piece_i)
      /\ queue[r[1]].blocks[r[2]] \in NotRequested }

IsRequested(id, queue, n, r) ==
  /\ r \in Requestable(id, queue)
  /\ Cardinality({ s \in Requestable(id, queue) : Before(s, r) }) < n

WithRequests(id, queue, n) ==
  [j \in DOMAIN queue |->
     [queue[j] EXCEPT !.blocks = [b \in DOMAIN @ |->
        IF IsRequested(id, queue, n, <<j, b>>) THEN "InProcess" ELSE @[b]]]]

\* prepare_next_blocks runs the selector, one round after the other, until
\* the peer can be asked for n blocks or the heap has nothing left for it.
BlocksOf(pieces) == UNION { {i} \X (1..NBlocks[i]) : i \in pieces }

IsEnough(id, n, k) ==
  \/ Cardinality(Requestable(id, download_queue))
       + Cardinality(BlocksOf(Selected(id, k))) >= n
  \/ Popped(id, k) = priority_queue

Rounds == { r * PiecesPerRound : r \in 0..Cardinality(priority_queue) }

IsSelectionSize(id, n, k) ==
  IsEnough(id, n, k) /\ \A l \in Rounds : l < k => ~IsEnough(id, n, l)

\* The selector returns its pieces in the order in which they were popped.
PoppingOrders(entries) ==
  { order \in [1..Cardinality(entries) -> entries] :
      \A j, k \in DOMAIN order : j < k => Before(order[j], order[k]) }

PrepareNextBlocks(id, n) ==
  \E k \in Rounds :
    /\ IsSelectionSize(id, n, k)
    /\ TakePieces(id, k)
    /\ \E order \in PoppingOrders(Popped(id, k) \cap UsableEntries(id)) :
         download_queue' = WithRequests(id,
           download_queue \o
             [j \in DOMAIN order |-> NewPieceState(order[j][2])], n)

-----------------------------------------------------------------------------
(* file_manager.rs *)

\* Vec::swap_remove
SwapRemove(queue, j) ==
  [k \in 1..(Len(queue) - 1) |-> IF k = j THEN queue[Len(queue)] ELSE queue[k]]

WithBlock(queue, j, b, state) == [queue EXCEPT ![j].blocks[b] = state]

\* update_state: an answer of any length that begins in block b finishes that
\* block, whatever its state was, and also overwrites what had arrived of the
\* blocks behind it that it reaches.  A block that it covers in part may hold
\* the torrent's data afterwards or not.
WithAnswer(queue, j, b, answer) ==
  [queue EXCEPT ![j].blocks =
     [d \in DOMAIN @ |->
        IF d = b \/ (d \in DOMAIN answer /\ @[d] \in Finished) THEN answer[d] ELSE @[d]]]

IsFirstOf(i, j) ==
  /\ download_queue[j].piece_i = i
  /\ \A k \in 1..(j - 1) : download_queue[k].piece_i # i

IsComplete(piece) == \A b \in DOMAIN piece.blocks : piece.blocks[b] \in Finished
HashMatches(piece) == \A b \in DOMAIN piece.blocks : piece.blocks[b] = "Good"

\* The rest of the GotBlock handler once write_block returned Some(i).
FinishPiece(i) ==
  /\ announced' = announced \cup {i}
  /\ torrent_state' = IF AllHad(have') THEN "Seeding" ELSE torrent_state

\* The file is opened with O_APPEND, so write_all_at appends the piece
\* wherever its offset is; a failing write may leave a part of it behind.
WritePieceToFile(i) ==
  \/ /\ file' = Append(file, i)
     /\ saving' = i
     /\ UNCHANGED <<torrent_state, failures>>
  \/ /\ failures < MaxFailures
     /\ failures' = failures + 1
     /\ file' \in {file, Append(file, Partial)}
     /\ torrent_state' = "Stopped"
     /\ UNCHANGED saving

\* mutant: a piece is written before its hash is checked
WritesUnchecked(i, piece) ==
  \/ /\ HashMatches(piece)
     /\ WritePieceToFile(i)
     /\ UNCHANGED <<selectorVars, db, announced>>
  \/ /\ ~HashMatches(piece)
     /\ file' = Append(file, i)
     /\ UNCHANGED <<selectorVars, saving, db, failures>>
     /\ FinishPiece(i)

HandlePiece(i, piece) ==
  \/ /\ HashMatches(piece)
     /\ WritePieceToFile(i)
     /\ UNCHANGED <<selectorVars, db, announced>>
  \/ /\ ~HashMatches(piece)
     /\ UNCHANGED <<selectorVars, saving, file, db, failures>>
     /\ FinishPiece(i)

\* get_file opens the file with append and without read, so reading fails.
FileIsReadable == FALSE

\* get_block: what a peer that asks for a block of piece i is sent.  An index
\* outside the bitfield ends the manager.
GetBlock(i) ==
  IF i \notin DOMAIN have THEN "Panics"
  ELSE IF have[i] /\ FileIsReadable THEN "Block" ELSE "None"

-----------------------------------------------------------------------------
(* The event loop's handlers *)

NewConnection(id) == Idle /\ AddPeer(id) /\ UNCHANGED managerVars

PeerDisconnected(id) == Idle /\ RemovePeer(id) /\ UNCHANGED managerVars

PeerBitfield(id, bitfield) ==
  Idle /\ AddPeerBitfield(id, bitfield) /\ UNCHANGED managerVars

PeerHas(id, i) == Idle /\ UpdateFromPeerHave(id, i) /\ UNCHANGED managerVars

NeedBlockQueue(id, n) ==
  /\ Idle /\ torrent_state = "Downloading"
  /\ id \in DOMAIN peer_bitfields
  /\ PrepareNextBlocks(id, n)
  /\ UNCHANGED <<torrent_state, saving, file, db, announced, failures>>

\* The manager ends where an answer leaves the piece (ManagerStops).
GotBlock(i, b, answer) ==
  /\ Idle /\ torrent_state = "Downloading"
  /\ \E j \in DOMAIN download_queue :
       /\ IsFirstOf(i, j)
       /\ LET queue == WithAnswer(download_queue, j, b, answer) IN
          \/ /\ ~IsComplete(queue[j])
             /\ download_queue' = queue
             /\ UNCHANGED <<selectorVars, torrent_state, saving, file, db,
                            announced, failures>>
          \/ /\ IsComplete(queue[j])
             /\ download_queue' = SwapRemove(queue, j)
             /\ HandlePiece(i, queue[j])

OnlyNewPiece == [i \in Piece |-> i = saving]   \* mutant

NewBitfield == [have EXCEPT ![saving] = TRUE]

\* handle_piece resumes after the database's answer.
BitfieldUpdated ==
  /\ Running /\ saving # NoPiece
  /\ db' = NewBitfield
  /\ PieceStored(saving)
  /\ FinishPiece(saving)
  /\ saving' = NoPiece
  /\ UNCHANGED <<download_queue, file, failures>>

\* The manager is dropped with everything it has in memory.
Stop ==
  /\ Running
  /\ failures < MaxFailures
  /\ failures' = failures + 1
  /\ torrent_state' = "Stopped"
  /\ saving' = NoPiece
  /\ UNCHANGED <<selectorVars, download_queue, file, announced>>

\* The database update failed, a tracker could not be reached again (both end
\* PeerManager::run with an error), an answer or a request was outside its piece
\* or the torrent (a panic), or the process died.
ManagerStops == Stop /\ UNCHANGED db

\* transition_downloading
EmptyBitfield == [i \in Piece |-> FALSE]

GotMetadata ==
  /\ Idle /\ torrent_state = "WaitingForMetadata"
  /\ UpdateFromSelfHave(EmptyBitfield)
  /\ db' = EmptyBitfield
  /\ torrent_state' = "Downloading"
  /\ UNCHANGED <<download_queue, saving, file, announced, failures>>

\* The record cannot be created, or it can and the file cannot be opened.
GotMetadataFails ==
  /\ Stop
  /\ torrent_state = "WaitingForMetadata"
  /\ db' \in {db, EmptyBitfield}

\* A request's time is up (BlockState::is_not_requested).
RequestTimesOut(j, b) ==
  /\ Running
  /\ download_queue[j].blocks[b] = "InProcess"
  /\ download_queue' = WithBlock(download_queue, j, b, "TimedOut")
  /\ UNCHANGED <<selectorVars, torrent_state, saving, file, db, announced, failures>>

\* The download is started again: from its record, or without one from the
\* magnet link (init_from_entry, init_from_magnet).
Restart ==
  /\ ~Running
  /\ torrent_state' = IF db = <<>> THEN "WaitingForMetadata" ELSE "Downloading"
  /\ UNCHANGED <<file, db, failures>>
  /\ RestartSelector(db)
  /\ download_queue' = <<>>
  /\ saving' = NoPiece
  /\ announced' = {}

-----------------------------------------------------------------------------

\* A new download, of a magnet link or of a torrent file.
Init ==
  /\ db \in {<<>>, EmptyBitfield}
  /\ torrent_state = IF db = <<>> THEN "WaitingForMetadata" ELSE "Downloading"
  /\ NewSelector(db)
  /\ download_queue = <<>>
  /\ saving = NoPiece
  /\ file = <<>>
  /\ announced = {}
  /\ failures = 0

\* Bound: repeated bitfields and haves stop at MaxRarity, a new bitfield does
\* not.
MaySend(id, bitfield) ==
  \/ RarityBelowBound
  \/ id \in DOMAIN peer_bitfields /\ peer_bitfields[id] # bitfield

MayAsk(id) ==
  /\ id \in DOMAIN peer_bitfields
  /\ id \in AskingEarly \/ peer_bitfields[id] \in BitfieldsOf[id]

Next ==
  \/ \E id \in PeerId : NewConnection(id)
  \/ \E id \in Leaving : PeerDisconnected(id)
  \/ \E id \in PeerId : \E bitfield \in BitfieldsOf[id] :
       MaySend(id, bitfield) /\ PeerBitfield(id, bitfield)
  \/ \E id \in PeerId, i \in Piece : RarityBelowBound /\ PeerHas(id, i)
  \/ \E id \in PeerId, n \in RequestLimits : MayAsk(id) /\ NeedBlockQueue(id, n)
  \/ \E i \in Piece : \E b \in 1..NBlocks[i] : \E last \in b..NBlocks[i] :
       \E answer \in [b..last -> BlockData] : GotBlock(i, b, answer)
  \/ BitfieldUpdated
  \/ GotMetadata
  \/ GotMetadataFails
  \/ \E j \in DOMAIN download_queue :
       \E b \in DOMAIN download_queue[j].blocks : RequestTimesOut(j, b)
  \/ ManagerStops
  \/ Restart

Spec == Init /\ [][Next]_vars

-----------------------------------------------------------------------------
(* Properties *)

PieceState ==
  UNION { [piece_i : {i}, blocks : [1..NBlocks[i] -> BlockState]] : i \in Piece }

\* Type correctness of the selector, the queue and what is stored.
TypeOK ==
  /\ SelectorTypeOK
  /\ torrent_state \in {"WaitingForMetadata", "Downloading", "Seeding", "Stopped"}
  /\ download_queue \in Seq(PieceState)
  /\ saving \in Piece \cup {NoPiece}
  /\ file \in Seq(FileChunk)
  /\ db \in {<<>>} \cup [Piece -> BOOLEAN]
  /\ announced \subseteq Piece
  /\ failures \in Nat

QueuedPieces == { download_queue[j].piece_i : j \in DOMAIN download_queue }

WrittenPieces == { file[j] : j \in DOMAIN file } \ {Partial}

RecordedPieces == { i \in DOMAIN db : db[i] }

\* No piece is in the download queue twice, whatever the selector's stale
\* entries, discarded pieces and restarts: update_piece_state gives a block to
\* the first entry of its piece, and a second entry would never complete.
QueuedOnce ==
  \A j, k \in DOMAIN download_queue :
    download_queue[j].piece_i = download_queue[k].piece_i => j = k

\* A piece that is recorded as stored is never downloaded again, in this run
\* of the manager or, after a crash between any two steps, in a later one.
RecordedNotQueued ==
  Running => QueuedPieces \cap RecordedPieces = {}

\* The bitfield that peers are answered from is the recorded one whenever the
\* event loop takes a message.
HaveIsRecorded == Idle => have = db

\* A recorded piece is in the output file: a crash or an error between the
\* file write and the database update loses the record, never the piece.
RecordedIsWritten == RecordedPieces \subseteq WrittenPieces

\* Every chunk of the file beyond the recorded pieces, and the one that is being
\* recorded, is owed to a failure or a crash of its own: nothing else makes the
\* manager append a second copy, which with O_APPEND would stay in the file and
\* move everything behind it.
OnlyFailuresWaste ==
  Len(file) <= Cardinality(RecordedPieces) + Cardinality({saving} \ {NoPiece}) + failures

\* The manager seeds only when every piece is recorded and written, and then
\* its queue is empty.
SeedingIsComplete ==
  torrent_state = "Seeding" =>
    RecordedPieces = Piece /\ WrittenPieces = Piece /\ download_queue = <<>>

\* How often each piece is in the file.
CopiesIn(f, i) == Cardinality({ j \in DOMAIN f : f[j] = i })

Copies == [i \in Piece |-> CopiesIn(file, i)]

\* The file and the record behave as Download promises: a piece is recorded
\* only after it was verified and written, a recorded piece is not written
\* again, and no crash, failure or restart takes anything back.
Promised == INSTANCE Download WITH
  Pieces   <- Piece,
  metadata <- db # <<>>,
  copies   <- Copies,
  recorded <- RecordedPieces

ImplementsDownload == Promised!DownloadSpec

\* Another block of the piece, or the database's answer, is still to come.
OnItsWay(i) ==
  \/ \E j \in DOMAIN download_queue :
       download_queue[j].piece_i = i /\ ~IsComplete(download_queue[j])
  \/ saving = i

\* The next selection for a peer that holds the piece can hand it out.
Offered(i) == ~pieces_in_flight[i] /\ <<piece_rarity[i], i>> \in priority_queue

\* As long as only peers with every piece ask, no piece falls between heap and
\* queue: whatever the repeated bitfields and haves, disconnects, stale entries
\* and restarts, a missing piece that somebody holds is on its way or has an
\* up-to-date entry.  Only a piece discarded for its hash is neither.
NothingIsForgotten ==
  torrent_state = "Downloading" =>
    \A i \in Piece :
      have[i] \/ OnItsWay(i) \/ Offered(i) \/ Holders(i) = {} \/ i \in announced

-----------------------------------------------------------------------------
(* Liveness.  The peers that never leave are assumed to connect, to send a  *)
(* bitfield, to ask for blocks again and again (peer/event_loop.rs asks     *)
(* whenever it has no request left) and to answer with the torrent's data   *)
(* a request that is renewed again and again; the event loop is polled, and *)
(* a stopped download is started again.                                     *)

Staying == PeerId \ Leaving

SendsNewBitfield(id) ==
  \E bitfield \in BitfieldsOf[id] :
    /\ id \in DOMAIN peer_bitfields /\ peer_bitfields[id] # bitfield
    /\ PeerBitfield(id, bitfield)

AnswersRequest(i, b) ==
  /\ \E j \in DOMAIN download_queue :
       /\ download_queue[j].piece_i = i
       /\ download_queue[j].blocks[b] = "InProcess"
  /\ GotBlock(i, b, [d \in {b} |-> "Good"])

Fairness ==
  /\ WF_vars(GotMetadata)
  /\ WF_vars(BitfieldUpdated)
  /\ WF_vars(Restart)
  /\ \A id \in Staying :
       /\ WF_vars(NewConnection(id))
       /\ WF_vars(SendsNewBitfield(id))
       /\ WF_vars(\E n \in RequestLimits : MayAsk(id) /\ NeedBlockQueue(id, n))
  /\ \A i \in Piece : \A b \in 1..NBlocks[i] : SF_vars(AnswersRequest(i, b))

FairSpec == Spec /\ Fairness

\* With a seeder that stays and honest data, every piece ends up recorded and
\* written, whatever the timeouts, the order of the answers and a crash.
DownloadCompletes == <>[](RecordedPieces = Piece /\ WrittenPieces = Piece)

-----------------------------------------------------------------------------
(* What the repository says and the code does not keep: the model refutes  *)
(* each of these (README, section 4).                                       *)

\* "This is because the piece is discarded after this method is successful
\* and will get picked up later again."
Discarded(i) ==
  Running /\ i \in announced /\ ~have[i] /\ i \notin QueuedPieces

DiscardedIsPickedUp == \A i \in Piece : Discarded(i) ~> ~Discarded(i)

\* A Have message carries "the index which that downloader just completed and
\* checked the hash of"; FinishedPiece makes every peer send one.
AnnouncedIsHad == Running => \A i \in announced : have[i]

\* "how many pieces are in the queue at max"
QueueWithinMax == Len(download_queue) <= MAX_PIECES_IN_PARALLEL

\* "You can download basically most of the torrents which are only single
\* file": when every piece is recorded, the file is the pieces in their order.
FileIsTheTorrent == RecordedPieces = Piece => file = [i \in Piece |-> i]

\* "You can also seed": a seeding manager answers a request with the block.
SeedsWhatItHas ==
  torrent_state = "Seeding" => \A i \in Piece : GetBlock(i) = "Block"
=============================================================================
