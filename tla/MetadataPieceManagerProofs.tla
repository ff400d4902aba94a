--------------------- MODULE MetadataPieceManagerProofs ---------------------
(***************************************************************************)
(* What holds of the metadata's blocks whatever lengths remotes announce,  *)
(* and whatever they answer or request.  That something is missing while   *)
(* the torrent waits is inductive with the type of the queue.              *)
(***************************************************************************)
EXTENDS MetadataPieceManager, TLAPS

\* The queue has the blocks of the length that was announced first.
QueueType == queue \in [Blocks -> BlockState]

IInv == QueueType /\ DownloadsTheTorrent /\ SomethingIsMissing

LEMMA InitInv == Init => IInv
  BY DEF Init, IInv, QueueType, DownloadsTheTorrent, SomethingIsMissing, NoBlocks, Blocks, Waiting

LEMMA LengthInv ==
  ASSUME IInv, NEW p \in Peer, GotMetadataLength(p)
  PROVE  IInv'
<1>1. PICK n \in Claims : queue' = [i \in 1..NumBlocks(n) |-> "None"]
  BY DEF GotMetadataLength
<1> DEFINE all == 1..NumBlocks(n)
<1> HIDE DEF all
<1>2. queue' = [i \in all |-> "None"]
  BY <1>1 DEF all
<1>3. CASE all = {}
  BY <1>2, <1>3 DEF GotMetadataLength, IInv, QueueType, DownloadsTheTorrent,
                    SomethingIsMissing, NoBlocks, Blocks, Waiting
<1>4. CASE all # {}
  <2>1. PICK i \in all : TRUE
    BY <1>4
  <2>2. i \in Blocks' /\ queue'[i] = "None"
    BY <1>2, <2>1 DEF Blocks
  <2>3. QueueType'
    BY <1>2 DEF QueueType, Blocks, BlockState
  <2>4. DownloadsTheTorrent'
    BY DEF GotMetadataLength, Waiting, DownloadsTheTorrent
  <2> QED  BY <2>2, <2>3, <2>4 DEF IInv, SomethingIsMissing
<1> QED  BY <1>3, <1>4

LEMMA RequestInv ==
  ASSUME IInv, NEW p \in Peer, NeedBlockQueue(p)
  PROVE  IInv'
<1>1. PICK i \in Blocks : i \in Requestable
  BY DEF NeedBlockQueue, Requestable
<1>2. queue' = [j \in Blocks |-> IF j \in Requestable THEN "InProcess" ELSE queue[j]]
  BY DEF NeedBlockQueue
<1>3. i \in Blocks' /\ queue'[i] = "InProcess"
  BY <1>1, <1>2 DEF Blocks
<1>4. QueueType'
  BY <1>2 DEF IInv, QueueType, Blocks, BlockState
<1>5. DownloadsTheTorrent'
  BY DEF NeedBlockQueue, Waiting, DownloadsTheTorrent
<1> QED  BY <1>3, <1>4, <1>5 DEF IInv, SomethingIsMissing

LEMMA TimeoutInv ==
  ASSUME IInv, NEW i \in Blocks, Timeout(i)
  PROVE  IInv'
<1>1. queue' = [queue EXCEPT ![i] = "TimedOut"]
  BY DEF Timeout
<1>2. i \in Blocks' /\ queue'[i] = "TimedOut"
  BY <1>1 DEF IInv, QueueType, Blocks
<1>3. QueueType'
  BY <1>1 DEF IInv, QueueType, Blocks, BlockState
<1>4. DownloadsTheTorrent'
  BY DEF Timeout, Waiting, DownloadsTheTorrent
<1> QED  BY <1>2, <1>3, <1>4 DEF IInv, SomethingIsMissing

\* What the check of a full queue leaves of the invariant.
LEMMA CheckInv ==
  ASSUME IInv, Waiting, NEW i \in Blocks, NEW data,
         bytes' = data, ChecksFinished([queue EXCEPT ![i] = "Finished"], data)
  PROVE  IInv'
<1> DEFINE q == [queue EXCEPT ![i] = "Finished"]
           complete == \A j \in Blocks : q[j] = "Finished"
<1>1. q \in [Blocks -> BlockState]
  BY DEF IInv, QueueType, BlockState
<1>2. CASE complete /\ HashesMatch(data)
  <2>1. queue' = q /\ state' \in {"Downloading", "Stopped"}
    BY <1>2 DEF ChecksFinished
  <2>2. QueueType'
    BY <1>1, <2>1 DEF QueueType, Blocks
  <2> QED  BY <1>2, <2>1, <2>2
           DEF IInv, DownloadsTheTorrent, SomethingIsMissing, Waiting, HashesMatch
<1>3. CASE complete /\ ~HashesMatch(data)
  <2>1. queue' = [j \in Blocks |-> "None"] /\ state' = state
    BY <1>3 DEF ChecksFinished
  <2>2. QueueType' /\ i \in Blocks' /\ queue'[i] = "None"
    BY <2>1 DEF QueueType, Blocks, BlockState
  <2> QED  BY <2>1, <2>2 DEF IInv, DownloadsTheTorrent, SomethingIsMissing, Waiting
<1>4. CASE ~complete
  <2>1. queue' = q /\ state' = state
    BY <1>4 DEF ChecksFinished
  <2>2. QueueType' /\ \E j \in Blocks' : queue'[j] # "Finished"
    BY <1>1, <1>4, <2>1 DEF QueueType, Blocks
  <2> QED  BY <2>1, <2>2 DEF IInv, DownloadsTheTorrent, SomethingIsMissing, Waiting
<1> QED  BY <1>2, <1>3, <1>4

LEMMA PieceInv ==
  ASSUME IInv, NEW i, NEW data, ReceivedMetadataPiece(i, data)
  PROVE  IInv'
<1>1. CASE ~Waiting /\ UNCHANGED <<state, queue, bytes>>
  BY <1>1 DEF IInv, QueueType, Blocks, DownloadsTheTorrent, SomethingIsMissing, Waiting
<1>2. CASE Waiting /\ state' = "Stopped" /\ UNCHANGED <<queue, bytes>>
  BY <1>2 DEF IInv, QueueType, Blocks, DownloadsTheTorrent, SomethingIsMissing, Waiting
<1>3. CASE /\ Waiting /\ ~Overruns(i, data)
           /\ bytes' = Written(i, data)
           /\ ChecksFinished([queue EXCEPT ![i] = "Finished"], Written(i, data))
  <2>1. i \in Blocks
    BY <1>3 DEF Overruns
  <2> QED  BY <1>3, <2>1, CheckInv
<1> QED  BY <1>1, <1>2, <1>3 DEF ReceivedMetadataPiece

LEMMA NextInv == IInv /\ [Next]_vars => IInv'
<1> SUFFICES ASSUME IInv, [Next]_vars PROVE IInv'
  OBVIOUS
<1>1. CASE UNCHANGED vars
  BY <1>1 DEF vars, IInv, QueueType, Blocks, DownloadsTheTorrent, SomethingIsMissing, Waiting
<1>2. ASSUME NEW p \in Peer, NEW i \in 1..NumBlocks(Length), RemoteRequest(p, i)
      PROVE  IInv'
  BY <1>2, PieceInv DEF RemoteRequest
<1>3. ASSUME NEW p \in Peer, NEW i \in asked[p], NEW data \in Answers, Answer(p, i, data)
      PROVE  IInv'
  BY <1>3, PieceInv DEF Answer
<1> QED  BY <1>1, <1>2, <1>3, LengthInv, RequestInv, TimeoutInv DEF Next

\* The inductive invariant of the metadata's blocks.
THEOREM MetadataInvariant == Spec => []IInv
  BY InitInv, NextInv, PTL DEF Spec

\* A download only starts with the metadata whose hash the magnet link names,
\* for any lengths and anything that remotes announce and answer.
THEOREM AlwaysTheTorrent == Spec => []DownloadsTheTorrent
<1>1. IInv => DownloadsTheTorrent  BY DEF IInv
<1> QED  BY <1>1, MetadataInvariant, PTL

\* The queue is never all finished while the torrent still waits: a mismatch
\* starts over, however late the answers are that come after it.
THEOREM AlwaysSomethingMissing == Spec => []SomethingIsMissing
<1>1. IInv => SomethingIsMissing  BY DEF IInv
<1> QED  BY <1>1, MetadataInvariant, PTL
=============================================================================
