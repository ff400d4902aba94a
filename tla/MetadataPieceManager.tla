------------------------ MODULE MetadataPieceManager ------------------------
(***************************************************************************)
(* The manager of the metadata's blocks (metadata_piece_manager.rs), which *)
(* a torrent from a magnet link runs before it has pieces, with its        *)
(* callers: the handlers of the manager's loop, and the peers that ask for *)
(* requests, announce a length and answer late, in any order or never.     *)
(***************************************************************************)
EXTENDS Integers, Sequences

CONSTANTS
  Peer,
  Supporting,       \* the peers whose clients have the metadata extension
  Answering,        \* those of them that answer, and know the length
  BlockSize,        \* METADATA_BLOCK_SIZE (16 KiB)
  Length,           \* the bytes of the torrent's metadata
  Claims,           \* the lengths that remotes announce
  Answers,          \* the data of their answers; none is a rejection's
  RemoteRequests    \* whether remotes request metadata from us, too

\* A byte is that of the torrent's metadata at this place, or another.
Byte == {"Right", "Wrong"}

ASSUME MetadataAssumption ==
  /\ Answering \subseteq Supporting /\ Supporting \subseteq Peer
  /\ BlockSize \in Nat \ {0} /\ Length \in Nat \ {0}
  /\ Claims \subseteq Nat /\ Length \in Claims
  /\ Answers \subseteq Seq(Byte) /\ RemoteRequests \in BOOLEAN

VARIABLES
  state,            \* the torrent's: "WaitingForMetadata", "Downloading", or
                    \* "Stopped" by a panic or an error of the manager
  queue,            \* of each block; no blocks before the length is known
  bytes,            \* the buffer of the metadata
  asked             \* the requests at each remote that it has not answered

vars == <<state, queue, bytes, asked>>

Blocks == DOMAIN queue
NoBlocks == [i \in {} |-> "None"]

\* The blocks of so many bytes, and where a block begins.
NumBlocks(length) == (length + BlockSize - 1) \div BlockSize
Begin(i) == (i - 1) * BlockSize

\* A block's request is "InProcess", and "TimedOut" 5 seconds later.
BlockState == {"None", "InProcess", "TimedOut", "Finished"}

Waiting == state = "WaitingForMetadata"

-----------------------------------------------------------------------------

\* set_len: the first length counts.  A zero may be the right byte.
GotMetadataLength(p) ==
  /\ p \in Supporting /\ Waiting /\ queue = NoBlocks
  /\ \E length \in Claims :
       /\ queue' = [i \in 1..NumBlocks(length) |-> "None"]
       /\ bytes' \in [1..length -> Byte]
  /\ UNCHANGED <<state, asked>>

\* mutant: requests never time out
NeverRequested == {i \in Blocks : queue[i] = "None"}

Requestable == {i \in Blocks : queue[i] \in {"None", "TimedOut"}}

\* get_block_req_data: one peer gets all requests.  A peer whose client lacks
\* the extension drops them.
NeedBlockQueue(p) ==
  /\ Waiting /\ Requestable # {}
  /\ queue' = [i \in Blocks |-> IF i \in Requestable THEN "InProcess" ELSE queue[i]]
  /\ asked' = IF p \in Supporting THEN [asked EXCEPT ![p] = @ \cup Requestable] ELSE asked
  /\ UNCHANGED <<state, bytes>>

Timeout(i) ==
  /\ Waiting /\ queue[i] = "InProcess"
  /\ queue' = [queue EXCEPT ![i] = "TimedOut"]
  /\ UNCHANGED <<state, bytes, asked>>

\* mutant: the metadata is not hashed
TakesAnyHash(data) == TRUE

HashesMatch(data) == data = [k \in 1..Length |-> "Right"]

\* mutant: a mismatch leaves the blocks finished
KeepsQueue(q, data) ==
  /\ queue' = q
  /\ state' = IF (\A i \in Blocks : q[i] = "Finished") /\ HashesMatch(data)
              THEN "Downloading" ELSE state

\* check_finished, and the transition, which stops the manager when the
\* metadata cannot be read.  A mismatch resets the queue, under the requests
\* that are still unanswered.
ChecksFinished(q, data) ==
  LET complete == \A i \in Blocks : q[i] = "Finished" IN
  \/ complete /\ HashesMatch(data) /\ queue' = q /\ state' \in {"Downloading", "Stopped"}
  \/ complete /\ ~HashesMatch(data) /\ queue' = [i \in Blocks |-> "None"] /\ UNCHANGED state
  \/ ~complete /\ queue' = q /\ UNCHANGED state

\* add_block writes whatever data follows the message, of any length.
Written(i, data) ==
  [k \in DOMAIN bytes |->
     IF k - Begin(i) \in DOMAIN data THEN data[k - Begin(i)] ELSE bytes[k]]

\* Data beyond the end of the buffer, or an index outside of the queue, panics.
Overruns(i, data) == i \notin Blocks \/ Begin(i) + Len(data) > Len(bytes)

ReceivedMetadataPiece(i, data) ==
  \/ ~Waiting /\ UNCHANGED <<state, queue, bytes>>
  \/ Waiting /\ Overruns(i, data) /\ state' = "Stopped" /\ UNCHANGED <<queue, bytes>>
  \/ /\ Waiting /\ ~Overruns(i, data)
     /\ bytes' = Written(i, data)
     /\ ChecksFinished([queue EXCEPT ![i] = "Finished"], Written(i, data))

\* An answer arrives; whether it is data or a rejection is not looked at.
Answer(p, i, data) ==
  /\ i \in asked[p] /\ state # "Stopped"
  /\ asked' = [asked EXCEPT ![p] = @ \ {i}]
  /\ ReceivedMetadataPiece(i, data)

\* A remote without the metadata requests it from us; the request is taken
\* for an answer without data.
RemoteRequest(p, i) ==
  /\ RemoteRequests /\ p \in Supporting /\ state # "Stopped"
  /\ ReceivedMetadataPiece(i, <<>>)
  /\ UNCHANGED asked

-----------------------------------------------------------------------------

Init ==
  /\ state = "WaitingForMetadata"
  /\ queue = NoBlocks /\ bytes = <<>>
  /\ asked = [p \in Peer |-> {}]

Next ==
  \/ \E p \in Peer :
       \/ GotMetadataLength(p) \/ NeedBlockQueue(p)
       \/ \E i \in 1..NumBlocks(Length) : RemoteRequest(p, i)
       \/ \E i \in asked[p], data \in Answers : Answer(p, i, data)
  \/ \E i \in Blocks : Timeout(i)

Spec == Init /\ [][Next]_vars

-----------------------------------------------------------------------------

\* The download only starts with the metadata that the magnet link names,
\* whatever was answered before and however often the hash mismatched.
DownloadsTheTorrent ==
  state = "Downloading" => bytes = [k \in 1..Length |-> "Right"]

\* While the metadata is missing a block is left to request or to wait for: a
\* late answer after a mismatch never leaves a queue that is all finished.
SomethingIsMissing ==
  Waiting /\ queue # NoBlocks => \E i \in Blocks : queue[i] # "Finished"

\* "we send a NewConnection ... wait to become unchoked then request the
\* queue" repeats on every message and every timeout of the stream, so a peer
\* asks again and again while it waits for no answer; and some time it is the
\* one that finds a block to request.  Requests time out; who answers does so.
Fairness ==
  /\ \A p \in Answering :
       /\ WF_vars(GotMetadataLength(p))
       /\ SF_vars(asked[p] = {} /\ NeedBlockQueue(p))
       /\ \A i \in 1..NumBlocks(Length) : WF_vars(\E data \in Answers : Answer(p, i, data))
  /\ \A i \in 1..NumBlocks(Length) : WF_vars(i \in Blocks /\ Timeout(i))

FairSpec == Spec /\ Fairness

\* The hash of a full queue mismatches: some answer was wrong.
StartsOver == \E i \in Blocks : queue[i] # "None" /\ queue'[i] = "None"

\* The length that was announced first is the torrent's, and nothing stops the
\* manager.
GoesOn == Len(bytes) \in {0, Length} /\ state # "Stopped"

\* With one peer that answers, the metadata arrives once the wrong answers end,
\* though they left wrong bytes behind, and though other peers take requests
\* and never answer them.
MetadataArrives ==
  []GoesOn /\ <>[][~StartsOver]_vars => <>(state = "Downloading")
=============================================================================
