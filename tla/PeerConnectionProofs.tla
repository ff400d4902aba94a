----------------------- MODULE PeerConnectionProofs -----------------------
(***************************************************************************)
(* What holds of every connection, whatever the channels' capacities, the  *)
(* remote's reqq and what the remote and the manager may send.             *)
(*                                                                         *)
(* Every handler of the loop ends in Turn(t) for some turn t, or in Quit.  *)
(* The lemmas follow that shape: the operators on turns yield turns, with  *)
(* the interest told; a turn that ends keeps the invariant; and so every   *)
(* action of the peer does.  The manager's actions leave the peer alone    *)
(* and are only a matter of types.                                         *)
(***************************************************************************)
EXTENDS PeerConnection, SequenceTheorems, TLAPS

Requests == [RequestKind -> Nat]
Extensions == {"Unsupported", "Greeting", "Unknown", "Metadata"}

Turns ==
  [am_interested: BOOLEAN, peer_choking: BOOLEAN, peer_interested: BOOLEAN,
   to_send: Requests, have_sent: Nat,
   extensions: Extensions,
   told: BOOLEAN, owed: Requests, asks: Seq(Ask), writes: SUBSET Nat]

\* A turn in which the remote knows the interest, and whose writes come after
\* some of what it asks.
Told(t) ==
  t \in Turns /\ t.told = t.am_interested /\ \A n \in t.writes : n <= Len(t.asks)

\* Turn u counts the requests as t does.
SameCounts(u, t) == u.owed = t.owed /\ u.have_sent = t.have_sent

\* What a step of the peer makes of a turn.
Done(t) == Turn(t) \/ Fails(t) \/ Leaves(t)

\* The remote only answers what it was asked.
HonestRemote == RemoteSends \cap {"UnaskedPiece", "MetadataRequest"} = {}

\* A turn that counts what is owed, and counts nothing anew.
CountsNoMore(t) == Size(t.owed) <= t.have_sent /\ t.have_sent <= have_sent
Counted(t) == HonestRemote /\ OutstandingIsCounted => CountsNoMore(t)

IInv == TypeOK /\ InterestIsTold /\ NothingWaitsIdle

\* The part of the invariant that a turn of the peer may disturb.
PeerTypes ==
  /\ running \in BOOLEAN /\ keeps_mailbox \in BOOLEAN /\ am_interested \in BOOLEAN /\ peer_choking \in BOOLEAN
  /\ peer_interested \in BOOLEAN /\ told \in BOOLEAN
  /\ to_send \in Requests /\ owed \in Requests /\ have_sent \in Nat
  /\ extensions \in Extensions
  /\ inbox \in Seq(Ask)

PeerInv == PeerTypes /\ InterestIsTold /\ NothingWaitsIdle

-----------------------------------------------------------------------------
(* Numbers of requests. *)

LEMMA SizeIsNat == ASSUME NEW q \in Requests PROVE Size(q) \in Nat
  BY DEF Requests, RequestKind, Size

LEMMA NoRequestsIsEmpty == NoRequests \in Requests /\ Size(NoRequests) = 0
  BY DEF Requests, RequestKind, NoRequests, Size

LEMMA PlusAdds ==
  ASSUME NEW a \in Requests, NEW b \in Requests
  PROVE  Plus(a, b) \in Requests /\ Size(Plus(a, b)) = Size(a) + Size(b)
<1>1. /\ a["Block"] \in Nat /\ a["Metadata"] \in Nat
      /\ b["Block"] \in Nat /\ b["Metadata"] \in Nat
  BY DEF Requests, RequestKind
<1>2. Plus(a, b) \in Requests
  BY DEF Plus, Requests
<1>3. /\ Plus(a, b)["Block"] = a["Block"] + b["Block"]
      /\ Plus(a, b)["Metadata"] = a["Metadata"] + b["Metadata"]
  BY DEF Plus, RequestKind
<1> QED  BY <1>1, <1>2, <1>3 DEF Size

LEMMA OneChanged ==
  ASSUME NEW q \in Requests, NEW k \in RequestKind, NEW n \in Nat
  PROVE  /\ [q EXCEPT ![k] = n] \in Requests
         /\ Size([q EXCEPT ![k] = n]) = Size(q) - q[k] + n
  BY DEF Requests, RequestKind, Size

-----------------------------------------------------------------------------
(* The operators on turns yield turns and keep the remote informed. *)

LEMMA NowTells ==
  ASSUME PeerInv, running
  PROVE  Told(Now)
<1>1. <<>> \in Seq(Ask) /\ Len(<<>>) = 0
  OBVIOUS
<1> QED  BY <1>1 DEF PeerInv, PeerTypes, InterestIsTold, Told, Turns, Now

LEMMA SendPeerKeeps ==
  ASSUME NEW t, Told(t)
  PROVE  Told(SendPeer(t)) /\ SameCounts(SendPeer(t), t)
<1>1. Len(t.asks) \in Nat
  BY LenProperties DEF Told, Turns
<1> QED  BY <1>1 DEF Told, Turns, SendPeer, SameCounts

LEMMA SendPeerManagerKeeps ==
  ASSUME NEW t, Told(t), NEW msg \in Ask
  PROVE  Told(SendPeerManager(t, msg)) /\ SameCounts(SendPeerManager(t, msg), t)
<1>1. t.asks \in Seq(Ask) /\ t.writes \subseteq Nat
  BY DEF Told, Turns
<1>2. Append(t.asks, msg) \in Seq(Ask) /\ Len(Append(t.asks, msg)) = Len(t.asks) + 1
  BY <1>1, AppendProperties
<1>3. Len(t.asks) \in Nat
  BY <1>1, LenProperties
<1>4. \A n \in t.writes : n <= Len(Append(t.asks, msg))
  BY <1>1, <1>2, <1>3 DEF Told
<1> QED  BY <1>2, <1>4 DEF Told, Turns, SendPeerManager, SameCounts

LEMMA SetInterestedKeeps ==
  ASSUME NEW t, Told(t), NEW b \in BOOLEAN
  PROVE  Told(SetInterested(t, b)) /\ SameCounts(SetInterested(t, b), t)
<1> DEFINE u == [t EXCEPT !.am_interested = b, !.told = b]
<1>1. Told(u) /\ SameCounts(u, t)
  BY DEF Told, Turns, SameCounts
<1>2. Told(SendPeer(u)) /\ SameCounts(SendPeer(u), u)
  BY <1>1, SendPeerKeeps
<1> QED  BY <1>1, <1>2 DEF SetInterested, SameCounts

LEMMA RequestBlockQueueKeeps ==
  ASSUME NEW t, Told(t)
  PROVE  Told(RequestBlockQueue(t)) /\ SameCounts(RequestBlockQueue(t), t)
<1>1. "NeedBlockQueue" \in Ask
  BY DEF Ask
<1> QED  BY <1>1, SendPeerManagerKeeps DEF RequestBlockQueue, SameCounts

LEMMA QueuesMore ==
  ASSUME NEW t, Told(t), NEW k \in RequestKind, NEW n \in Nat
  PROVE  /\ Told([t EXCEPT !.to_send[k] = @ + n])
         /\ SameCounts([t EXCEPT !.to_send[k] = @ + n], t)
<1>1. t.to_send \in Requests /\ t.to_send[k] + n \in Nat
  BY DEF Told, Turns, Requests
<1>2. [t.to_send EXCEPT ![k] = @ + n] \in Requests
  BY <1>1 DEF Requests
<1>3. Told([t EXCEPT !.to_send = [t.to_send EXCEPT ![k] = @ + n]])
  BY <1>2 DEF Told, Turns
<1> QED  BY <1>3 DEF SameCounts, Told, Turns

LEMMA SendRequestsEmpties ==
  ASSUME NEW t, Told(t)
  PROVE  /\ Told(SendRequests(t)) /\ Size(SendRequests(t).to_send) = 0
         /\ SendRequests(t).owed = Plus(t.owed, t.to_send)
         /\ SendRequests(t).have_sent = Size(t.to_send)
<1>1. t.to_send \in Requests /\ t.owed \in Requests /\ Len(t.asks) \in Nat
  BY LenProperties DEF Told, Turns
<1>2. Size(t.to_send) \in Nat /\ Plus(t.owed, t.to_send) \in Requests
  BY <1>1, SizeIsNat, PlusAdds
<1>3. \E w \in {t.writes, t.writes \cup {Len(t.asks)}} :
        SendRequests(t) = [t EXCEPT !.to_send = NoRequests, !.have_sent = Size(t.to_send),
                                    !.owed = Plus(t.owed, t.to_send), !.writes = w]
  BY DEF SendRequests, Told, Turns
<1>4. PICK w \in {t.writes, t.writes \cup {Len(t.asks)}} :
        SendRequests(t) = [t EXCEPT !.to_send = NoRequests, !.have_sent = Size(t.to_send),
                                    !.owed = Plus(t.owed, t.to_send), !.writes = w]
  BY <1>3
<1>5. w \in SUBSET Nat /\ \A n \in w : n <= Len(t.asks)
  BY <1>1, <1>4 DEF Told, Turns
<1>6. SendRequests(t) \in Turns
  BY <1>2, <1>4, <1>5, NoRequestsIsEmpty DEF Told, Turns
<1>7. /\ SendRequests(t).told = t.told /\ SendRequests(t).am_interested = t.am_interested
      /\ SendRequests(t).writes = w /\ SendRequests(t).asks = t.asks
      /\ SendRequests(t).to_send = NoRequests
      /\ SendRequests(t).owed = Plus(t.owed, t.to_send)
      /\ SendRequests(t).have_sent = Size(t.to_send)
  BY <1>4 DEF Told, Turns
<1> QED  BY <1>5, <1>6, <1>7, NoRequestsIsEmpty DEF Told

LEMMA RequestNextBlocksSettles ==
  ASSUME NEW t, Told(t)
  PROVE  /\ Told(RequestNextBlocks(t))
         /\ CanRequest(RequestNextBlocks(t)) => Size(RequestNextBlocks(t).to_send) = 0
<1>1. CASE ~CanRequest(t)
  BY <1>1 DEF RequestNextBlocks
<1>2. CASE CanRequest(t)
  <2> DEFINE u == SendRequests(t)
  <2>3. Told(u) /\ Size(u.to_send) = 0
    BY SendRequestsEmpties
  <2>4. RequestNextBlocks(t) = RequestBlockQueue(u)
    BY <1>2 DEF RequestNextBlocks
  <2>5. RequestBlockQueue(u).to_send = u.to_send
    BY <2>3 DEF RequestBlockQueue, SendPeerManager, Told, Turns
  <2> QED  BY <2>3, <2>4, <2>5, RequestBlockQueueKeeps
<1> QED  BY <1>1, <1>2

LEMMA CutAtKeeps ==
  ASSUME NEW t, Told(t), NEW n \in t.writes
  PROVE  CutAt(t, n) \in Turns
<1>1. t.asks \in Seq(Ask) /\ Len(t.asks) \in Nat /\ n \in Nat /\ n <= Len(t.asks)
  BY LenProperties DEF Told, Turns
<1>2. SubSeq(t.asks, 1, n) \in Seq(Ask)
  BY <1>1, SubSeqProperties
<1>3. CutAt(t, n) \in Turns /\ CutAt(t, n).told = CutAt(t, n).am_interested
  BY <1>2 DEF CutAt, Told, Turns
<1> QED  BY <1>3

LEMMA QuitKeeps ==
  ASSUME PeerInv, NEW t \in Turns, Fails(t) \/ Leaves(t)
  PROVE  PeerInv'
<1>1. PeerTypes'
  <2>1. told' \in BOOLEAN
    BY DEF Fails, Leaves, Quit, Turns
  <2>2. inbox' \in Seq(Ask)
    <3>1. inbox' = inbox \/ inbox' = Append(inbox \o t.asks, "PeerDisconnected")
      BY DEF Fails, Leaves, Quit
    <3>2. inbox \in Seq(Ask) /\ t.asks \in Seq(Ask) /\ "PeerDisconnected" \in Ask
      BY DEF PeerInv, PeerTypes, Turns, Ask
    <3>3. inbox \o t.asks \in Seq(Ask)
      BY <3>2, ConcatProperties
    <3>4. Append(inbox \o t.asks, "PeerDisconnected") \in Seq(Ask)
      BY <3>2, <3>3, AppendProperties
    <3> QED  BY <3>1, <3>2, <3>4
  <2> QED  BY <2>1, <2>2 DEF Fails, Leaves, Quit, PeerInv, PeerTypes
<1>2. ~running'
  BY DEF Fails, Leaves, Quit
<1> QED  BY <1>1, <1>2 DEF PeerInv, InterestIsTold, NothingWaitsIdle

LEMMA GoesKeeps ==
  ASSUME PeerInv, NEW t, Told(t), CanRequest(t) => Size(t.to_send) = 0, Goes(t)
  PROVE  PeerInv'
<1>1. inbox' \in Seq(Ask)
  BY ConcatProperties DEF Goes, Told, Turns, PeerInv, PeerTypes
<1>2. PeerTypes'
  BY <1>1 DEF Goes, Told, Turns, PeerInv, PeerTypes
<1>3. InterestIsTold'
  BY DEF Goes, Told, InterestIsTold
<1>4. NothingWaitsIdle'
  BY DEF Goes, CanRequest, NothingWaitsIdle, Now
<1> QED  BY <1>2, <1>3, <1>4 DEF PeerInv

LEMMA TurnKeeps ==
  ASSUME PeerInv, NEW t, Told(t), Turn(t)
  PROVE  PeerInv'
<1> DEFINE r == RequestNextBlocks(t)
<1>1. Told(r) /\ (CanRequest(r) => Size(r.to_send) = 0)
  BY RequestNextBlocksSettles
<1>2. Ends(r)
  BY DEF Turn
<1> HIDE DEF r
<1>3. CASE Fails(r)
  BY <1>1, <1>3, QuitKeeps DEF Told
<1>4. CASE Goes(r)
  BY <1>1, <1>4, GoesKeeps
<1>5. CASE \E n \in r.writes : Fails(CutAt(r, n))
  BY <1>1, <1>5, CutAtKeeps, QuitKeeps
<1> QED  BY <1>2, <1>3, <1>4, <1>5 DEF Ends

-----------------------------------------------------------------------------
(* The peer's actions. *)

\* A message in the mailbox is one of the messages a manager sends.
LEMMA HeadIsMail ==
  ASSUME mailbox \in Seq(Mails), mailbox # <<>>
  PROVE  Head(mailbox) \in Mails /\ Tail(mailbox) \in Seq(Mails)
  OBVIOUS

LEMMA MailIsTyped ==
  ASSUME NEW msg \in Mails
  PROVE  /\ msg.type = "NewBlockQueue" => msg.blocks \in Nat
         /\ msg.type = "Block" => msg.some \in BOOLEAN
         /\ msg.type = "WeHave" => msg.have \in {"Nothing", "Some", "All"}
  BY ConnectionAssumption DEF Mails

LEMMA ManagerMessageIsDone ==
  ASSUME PeerInv, mailbox \in Seq(Mails), ManagerMessage
  PROVE  \E t : Told(t) /\ SameCounts(t, Now) /\ Done(t)
<1>0. running /\ mailbox # <<>>
  BY DEF ManagerMessage, FinishedFile, FinishedPiece, NewBlockQueue, Block, WeHave,
         ExtensionData, StartDownload, PauseDownload, CancelDownload, Mail, Waiting,
         Delivered
<1> DEFINE msg == Head(mailbox)
<1>1. Told(Now) /\ SameCounts(Now, Now)
  BY <1>0, NowTells DEF SameCounts
<1>2. msg \in Mails
  BY <1>0, HeadIsMail
<1> HIDE DEF msg
<1>3. CASE FinishedFile
  BY <1>1, <1>3 DEF FinishedFile, Done
<1>4. CASE FinishedPiece
  BY <1>1, <1>4, SendPeerKeeps DEF FinishedPiece, Done
<1>5. CASE NewBlockQueue
  <2>1. msg.blocks \in Nat
    BY <1>2, <1>5, MailIsTyped DEF NewBlockQueue, Mail, msg
  <2> DEFINE t == [Now EXCEPT !.to_send["Block"] = @ + msg.blocks]
  <2>2. Told(t) /\ SameCounts(t, Now)
    BY <1>1, <2>1, QueuesMore DEF RequestKind
  <2>3. Done(t)
    BY <1>5 DEF NewBlockQueue, Done, msg
  <2> QED  BY <2>2, <2>3
<1>6. CASE Block
  BY <1>1, <1>6, SendPeerKeeps DEF Block, Done
<1>7. CASE WeHave
  <2>1. msg.have \in {"Nothing", "Some", "All"}
    BY <1>2, <1>7, MailIsTyped DEF WeHave, Mail, msg
  <2> DEFINE no == SetInterested(Now, FALSE)
             yes == SetInterested(Now, TRUE)
  <2>2. Told(no) /\ SameCounts(no, Now) /\ Told(yes) /\ SameCounts(yes, Now)
    BY <1>1, SetInterestedKeeps
  <2>3. CASE msg.have = "All"
    BY <1>7, <2>2, <2>3 DEF WeHave, Done, msg
  <2>4. CASE msg.have = "Some"
    <3> DEFINE t == RequestBlockQueue(SendPeer(yes))
    <3>1. Told(SendPeer(yes)) /\ SameCounts(SendPeer(yes), yes)
      BY <2>2, SendPeerKeeps
    <3>2. Told(t) /\ SameCounts(t, SendPeer(yes))
      BY <3>1, RequestBlockQueueKeeps
    <3>3. SameCounts(t, Now)
      BY <2>2, <3>1, <3>2 DEF SameCounts
    <3>4. Done(t)
      BY <1>7, <2>4 DEF WeHave, Done, msg
    <3> QED  BY <3>2, <3>3, <3>4
  <2>5. CASE msg.have = "Nothing"
    <3> DEFINE t == RequestBlockQueue(yes)
    <3>1. Told(t) /\ SameCounts(t, yes)
      BY <2>2, RequestBlockQueueKeeps
    <3>2. SameCounts(t, Now)
      BY <2>2, <3>1 DEF SameCounts
    <3>3. Done(t)
      BY <1>7, <2>5 DEF WeHave, Done, msg
    <3> QED  BY <3>1, <3>2, <3>3
  <2> QED  BY <2>1, <2>3, <2>4, <2>5
<1>8. CASE ExtensionData
  <2> DEFINE t == [Now EXCEPT !.to_send["Metadata"] = @ + 1]
  <2>1. Told(t) /\ SameCounts(t, Now)
    BY <1>1, QueuesMore DEF RequestKind
  <2>2. Done(t) \/ Done(Now)
    BY <1>8 DEF ExtensionData, Done
  <2> QED  BY <1>1, <2>1, <2>2
<1>9. CASE StartDownload
  <2>1. "WhatDoWeHave" \in Ask
    BY DEF Ask
  <2> QED  BY <1>1, <1>9, <2>1, SendPeerManagerKeeps DEF StartDownload, Done
<1>10. CASE PauseDownload
  BY <1>1, <1>10, SetInterestedKeeps DEF PauseDownload, Done
<1>11. CASE CancelDownload
  BY <1>1, <1>11, SetInterestedKeeps DEF CancelDownload, Done
<1> QED  BY <1>3, <1>4, <1>5, <1>6, <1>7, <1>8, <1>9, <1>10, <1>11 DEF ManagerMessage

LEMMA SameIsCounted ==
  ASSUME PeerInv, running, NEW t, Told(t), SameCounts(t, Now)
  PROVE  Counted(t)
  BY DEF Counted, CountsNoMore, SameCounts, Now, OutstandingIsCounted, PeerInv, PeerTypes

LEMMA CountsDownIsDone ==
  ASSUME PeerInv, running, NEW t, Told(t), t.have_sent = have_sent,
         NEW msg \in Ask, CountsDown(t, msg),
         HonestRemote /\ OutstandingIsCounted => Size(t.owed) < have_sent
  PROVE  \E u : Told(u) /\ Counted(u) /\ Done(u)
<1> DEFINE s == [t EXCEPT !.have_sent = IF @ = 0 THEN UsizeMax ELSE @ - 1]
           u == SendPeerManager(s, msg)
<1>1. CASE Turn(u)
  <2>1. have_sent \in Nat /\ UsizeMax \in Nat
    BY ConnectionAssumption DEF PeerInv, PeerTypes
  <2>2. t.owed \in Requests
    BY DEF Told, Turns
  <2>3. Size(t.owed) \in Nat
    BY <2>2, SizeIsNat
  <2>4. Told(s) /\ s.owed = t.owed
    BY <2>1 DEF Told, Turns
  <2>5. s.have_sent = IF have_sent = 0 THEN UsizeMax ELSE have_sent - 1
    BY DEF Told, Turns
  <2>6. Counted(s)
    BY <2>1, <2>3, <2>4, <2>5 DEF Counted, CountsNoMore
  <2>7. Told(u) /\ SameCounts(u, s)
    BY <2>4, SendPeerManagerKeeps
  <2>8. Counted(u)
    BY <2>6, <2>7 DEF Counted, CountsNoMore, SameCounts
  <2> QED  BY <1>1, <2>7, <2>8 DEF Done
<1>2. CASE Fails(Now)
  <2>1. Told(Now) /\ SameCounts(Now, Now)
    BY NowTells DEF SameCounts
  <2> QED  BY <1>2, <2>1, SameIsCounted DEF Done
<1> QED  BY <1>1, <1>2 DEF CountsDown

\* What the remote answers, it no longer owes.
LEMMA AnsweredIsTold ==
  ASSUME PeerInv, running, NEW k \in RequestKind, owed[k] > 0
  PROVE  /\ Told(Answered(k)) /\ Answered(k).have_sent = have_sent
         /\ OutstandingIsCounted => Size(Answered(k).owed) < have_sent
<1>1. Told(Now) /\ owed \in Requests /\ have_sent \in Nat
  BY NowTells DEF PeerInv, PeerTypes
<1>2. owed[k] \in Nat /\ owed[k] - 1 \in Nat
  BY <1>1 DEF Requests
<1>3. /\ [owed EXCEPT ![k] = owed[k] - 1] \in Requests
      /\ Size([owed EXCEPT ![k] = owed[k] - 1]) = Size(owed) - owed[k] + (owed[k] - 1)
  BY <1>1, <1>2, OneChanged
<1>4. Answered(k) = [Now EXCEPT !.owed = [owed EXCEPT ![k] = owed[k] - 1]]
  BY DEF Answered, Now
<1>5. Told(Answered(k))
  BY <1>1, <1>3, <1>4 DEF Told, Turns
<1>6. /\ Answered(k).owed = [owed EXCEPT ![k] = owed[k] - 1]
      /\ Answered(k).have_sent = have_sent
  BY <1>4 DEF Now
<1>7. Size(owed) \in Nat
  BY <1>1, SizeIsNat
<1>8. OutstandingIsCounted => Size(Answered(k).owed) < have_sent
  BY <1>1, <1>2, <1>3, <1>6, <1>7 DEF OutstandingIsCounted
<1> QED  BY <1>5, <1>6, <1>8

LEMMA GreetingKeeps ==
  ASSUME PeerInv, SendExtendedHandshake
  PROVE  PeerInv' /\ UNCHANGED <<owed, have_sent>>
<1> DEFINE t == [Now EXCEPT !.extensions = "Unknown"]
<1>1. Told(Now) /\ running
  BY NowTells DEF SendExtendedHandshake, Delivered
<1>2. Told(t) /\ (CanRequest(t) => Size(t.to_send) = 0)
  BY <1>1 DEF Told, Turns, Extensions, CanRequest, Now, PeerInv, NothingWaitsIdle
<1>3. CASE Goes(t)
  BY <1>2, <1>3, GoesKeeps DEF Goes, Now
<1>4. CASE Fails(Now)
  BY <1>1, <1>4, QuitKeeps DEF Told, Fails, Quit
<1> QED  BY <1>3, <1>4 DEF SendExtendedHandshake

LEMMA WireMessageIsDone ==
  ASSUME PeerInv, WireMessage
  PROVE  \E t : Told(t) /\ Counted(t) /\ Done(t)
<1>0. running
  BY DEF WireMessage, Choke, Unchoke, Interested, NotInterested, Have, Bitfield, Request,
         Piece, UnaskedPiece, Cancel, KeepAlive, Handshake, MetadataAnswer, MetadataRequest,
         Timeout, CloseConnection, Data, Waiting, Delivered
<1>1. Told(Now) /\ SameCounts(Now, Now)
  BY <1>0, NowTells DEF SameCounts
<1>2. Counted(Now)
  BY <1>0, <1>1, SameIsCounted
<1>3. \A msg \in Ask : \A t : Told(t) /\ SameCounts(t, Now) =>
        /\ Told(SendPeerManager(t, msg)) /\ SameCounts(SendPeerManager(t, msg), Now)
  BY SendPeerManagerKeeps DEF SameCounts
<1>4. SUFFICES \/ \E t : Told(t) /\ SameCounts(t, Now) /\ Done(t)
               \/ \E t : Told(t) /\ Counted(t) /\ Done(t)
  BY <1>0, SameIsCounted
<1>5. {"PeerHas", "PeerBitfield", "NeedBlock", "GotBlock", "GotMetadataLength",
       "NeedBlockQueue", "ReceivedMetadataPiece"} \subseteq Ask
  BY DEF Ask
<1>6. CASE Choke
  <2> DEFINE t == [Now EXCEPT !.peer_choking = TRUE, !.owed = [owed EXCEPT !["Block"] = 0]]
  <2>1. owed \in Requests /\ "Block" \in RequestKind /\ have_sent \in Nat
    BY DEF PeerInv, PeerTypes, RequestKind
  <2>2. /\ [owed EXCEPT !["Block"] = 0] \in Requests
        /\ Size([owed EXCEPT !["Block"] = 0]) = Size(owed) - owed["Block"] + 0
    BY <2>1, OneChanged
  <2>3. Told(t)
    BY <1>1, <2>2 DEF Told, Turns
  <2>4. t.owed = [owed EXCEPT !["Block"] = 0] /\ t.have_sent = have_sent
    BY DEF Now
  <2>5. owed["Block"] \in Nat /\ Size(owed) \in Nat
    BY <2>1, SizeIsNat DEF Requests
  <2>6. Counted(t)
    BY <2>1, <2>2, <2>4, <2>5 DEF Counted, CountsNoMore, OutstandingIsCounted
  <2>7. Turn(t)
    BY <1>6 DEF Choke, Now
  <2> QED  BY <2>3, <2>6, <2>7 DEF Done
<1>7. CASE Unchoke
  <2> DEFINE t == [Now EXCEPT !.peer_choking = FALSE]
  <2>1. Told(t) /\ SameCounts(t, Now)
    BY <1>1 DEF Told, Turns, SameCounts
  <2> QED  BY <1>7, <2>1 DEF Unchoke, Done
<1>8. CASE Interested
  <2> DEFINE t == [Now EXCEPT !.peer_interested = TRUE]
  <2>1. Told(t) /\ SameCounts(t, Now)
    BY <1>1 DEF Told, Turns, SameCounts
  <2>2. Told(SendPeer(t)) /\ SameCounts(SendPeer(t), Now)
    BY <2>1, SendPeerKeeps DEF SameCounts
  <2> QED  BY <1>8, <2>2 DEF Interested, Done
<1>9. CASE NotInterested
  <2> DEFINE t == [Now EXCEPT !.peer_interested = FALSE]
  <2>1. Told(t) /\ SameCounts(t, Now)
    BY <1>1 DEF Told, Turns, SameCounts
  <2> QED  BY <1>9, <2>1 DEF NotInterested, Done
<1>10. CASE Have
  BY <1>1, <1>3, <1>5, <1>10 DEF Have, Done
<1>11. CASE Bitfield
  <2> DEFINE t == SendPeerManager(Now, "PeerBitfield")
  <2>1. Told(t) /\ SameCounts(t, Now)
    BY <1>1, <1>3, <1>5
  <2>2. Told(RequestBlockQueue(t)) /\ SameCounts(RequestBlockQueue(t), Now)
    BY <2>1, RequestBlockQueueKeeps DEF SameCounts
  <2> QED  BY <1>11, <2>2 DEF Bitfield, Done
<1>12. CASE Request
  BY <1>1, <1>3, <1>5, <1>12 DEF Request, Done
<1>13. CASE Piece \/ UnaskedPiece
  <2>1. CASE Piece
    BY <1>0, <1>5, <2>1, AnsweredIsTold, CountsDownIsDone DEF Piece, RequestKind
  <2>2. CASE UnaskedPiece
    <3>1. ~HonestRemote
      BY <2>2 DEF UnaskedPiece, Data, HonestRemote
    <3> QED  BY <1>0, <1>1, <1>5, <2>2, <3>1, CountsDownIsDone DEF UnaskedPiece, Now
  <2> QED  BY <1>13, <2>1, <2>2
<1>14. CASE Cancel
  BY <1>1, <1>14 DEF Cancel, Done
<1>15. CASE KeepAlive
  BY <1>1, <1>15 DEF KeepAlive, Done
<1>16. CASE Handshake
  <2> DEFINE t == [Now EXCEPT !.extensions = "Metadata"]
  <2>1. Told(t) /\ SameCounts(t, Now)
    BY <1>1 DEF Told, Turns, SameCounts, Extensions
  <2>2. CASE Turn(Now)
    BY <1>1, <2>2 DEF Done
  <2>3. CASE \E ask \in {"GotMetadataLength", "NeedBlockQueue"} : Turn(SendPeerManager(t, ask))
    <3>1. PICK ask \in {"GotMetadataLength", "NeedBlockQueue"} : Turn(SendPeerManager(t, ask))
      BY <2>3
    <3>2. Told(SendPeerManager(t, ask)) /\ SameCounts(SendPeerManager(t, ask), Now)
      BY <1>3, <1>5, <2>1
    <3> QED  BY <3>1, <3>2 DEF Done
  <2> QED  BY <1>16, <2>2, <2>3 DEF Handshake
<1>17. CASE MetadataAnswer \/ MetadataRequest
  <2>1. CASE MetadataAnswer
    BY <1>0, <1>5, <2>1, AnsweredIsTold, CountsDownIsDone DEF MetadataAnswer, RequestKind
  <2>2. CASE MetadataRequest
    <3>1. ~HonestRemote
      BY <2>2 DEF MetadataRequest, Data, HonestRemote
    <3> QED  BY <1>0, <1>1, <1>5, <2>2, <3>1, CountsDownIsDone DEF MetadataRequest, Now
  <2> QED  BY <1>17, <2>1, <2>2
<1>18. CASE Timeout
  BY <1>1, <1>18 DEF Timeout, Done
<1>19. CASE CloseConnection
  BY <1>1, <1>19 DEF CloseConnection, Done
<1> QED
  BY <1>6, <1>7, <1>8, <1>9, <1>10, <1>11, <1>12, <1>13, <1>14, <1>15, <1>16, <1>17,
     <1>18, <1>19 DEF WireMessage

-----------------------------------------------------------------------------
(* The manager's actions and the wire: only types are at stake. *)

EnvTypes ==
  /\ mail_next \in BOOLEAN /\ paused \in BOOLEAN /\ registered \in BOOLEAN
  /\ mailbox \in Seq(Mails)
  /\ manager \in {"Metadata", "Downloading", "Seeding", "Gone"}
  /\ socket \in {"Open", "Closed"} /\ strayed \in BOOLEAN

LEMMA IInvParts == IInv <=> PeerInv /\ EnvTypes
  BY DEF IInv, TypeOK, PeerInv, PeerTypes, EnvTypes, Requests, Extensions

LEMMA MessagesAreMail ==
  /\ \A type \in {"FinishedFile", "FinishedPiece", "ExtensionData", "StartDownload",
                  "CancelDownload", "PauseDownload"} : Msg(type) \in Mails
  /\ \A n \in 1..Limit : [type |-> "NewBlockQueue", blocks |-> n] \in Mails
  /\ \A some \in BOOLEAN : [type |-> "Block", some |-> some] \in Mails
  /\ \A have \in {"Nothing", "Some", "All"} : [type |-> "WeHave", have |-> have] \in Mails
  BY DEF Mails, Msg

LEMMA OneMail == ASSUME NEW msg \in Mails PROVE <<msg>> \in Seq(Mails)
  OBVIOUS

LEMMA MailIsSent ==
  ASSUME EnvTypes, NEW msgs \in Seq(Mails), Reply(msgs) \/ Broadcast(msgs)
  PROVE  mailbox' \in Seq(Mails) /\ registered' \in BOOLEAN
<1>1. mailbox \o msgs \in Seq(Mails)
  BY DEF EnvTypes
<1> QED  BY <1>1 DEF Reply, Broadcast, EnvTypes

LEMMA PeerIsLeftAlone ==
  ASSUME PeerInv, UNCHANGED peerVars, inbox' \in Seq(Ask)
  PROVE  PeerInv'
  BY DEF PeerInv, PeerTypes, peerVars, InterestIsTold, NothingWaitsIdle, CanRequest, Now

LEMMA SenderLeavesPeerAlone ==
  ASSUME PeerInv, EnvTypes,
         \/ \E msg \in Ask : Asked(msg)
         \/ \E kind \in ManagerAction : OfItsOwn(kind)
  PROVE  /\ PeerInv' /\ UNCHANGED peerVars
         /\ mail_next' \in BOOLEAN /\ paused' \in BOOLEAN
         /\ socket' \in {"Open", "Closed"} /\ strayed' \in BOOLEAN
<1>1. UNCHANGED peerVars /\ UNCHANGED <<socket, strayed>>
  BY DEF Asked, OfItsOwn, remoteVars
<1>2. inbox \in Seq(Ask)
  BY DEF PeerInv, PeerTypes
<1>3. inbox' \in Seq(Ask)
  BY <1>2 DEF Asked, OfItsOwn
<1>4. PeerInv'
  BY <1>1, <1>3, PeerIsLeftAlone
<1> QED  BY <1>1, <1>4 DEF EnvTypes, peerVars

LEMMA FinishesPieceKeeps ==
  ASSUME EnvTypes, FinishesPiece
  PROVE  /\ mailbox' \in Seq(Mails) /\ registered' \in BOOLEAN
         /\ manager' \in {"Metadata", "Downloading", "Seeding", "Gone"}
<1>1. /\ <<Msg("FinishedPiece")>> \in Seq(Mails)
      /\ <<Msg("FinishedFile"), Msg("FinishedPiece")>> \in Seq(Mails)
  BY MessagesAreMail
<1> QED  BY <1>1, MailIsSent DEF FinishesPiece, EnvTypes

LEMMA TransitionKeeps ==
  ASSUME EnvTypes, TransitionDownloading
  PROVE  /\ mailbox' \in Seq(Mails) /\ registered' \in BOOLEAN
         /\ manager' \in {"Metadata", "Downloading", "Seeding", "Gone"}
<1>1. <<Msg("StartDownload")>> \in Seq(Mails)
  BY MessagesAreMail
<1> QED  BY <1>1, MailIsSent DEF TransitionDownloading

LEMMA ManagerAnswersKeep ==
  ASSUME PeerInv, EnvTypes, ManagerAnswers
  PROVE  PeerInv' /\ EnvTypes' /\ UNCHANGED peerVars
<1>1. \E msg \in Ask : Asked(msg)
  BY DEF ManagerAnswers, NewConnection, WhatDoWeHave, NeedBlockQueue, GotBlock, NeedBlock,
         ReceivedMetadataPiece, Noted, PeerDisconnected, Ask
<1>2. /\ PeerInv' /\ UNCHANGED peerVars
      /\ mail_next' \in BOOLEAN /\ paused' \in BOOLEAN
      /\ socket' \in {"Open", "Closed"} /\ strayed' \in BOOLEAN
  BY <1>1, SenderLeavesPeerAlone
<1>3. <<>> \in Seq(Mails)
  OBVIOUS
<1>4. SUFFICES /\ mailbox' \in Seq(Mails) /\ registered' \in BOOLEAN
               /\ manager' \in {"Metadata", "Downloading", "Seeding", "Gone"}
  BY <1>2 DEF EnvTypes
<1>5. CASE NewConnection
  <2>1. Msg("StartDownload") \in Mails
    BY MessagesAreMail
  <2>2. Append(mailbox, Msg("StartDownload")) \in Seq(Mails)
    BY <2>1 DEF EnvTypes
  <2> QED  BY <1>5, <2>2 DEF NewConnection, EnvTypes
<1>6. CASE WhatDoWeHave
  <2> DEFINE reply == [type |-> "WeHave",
                       have |-> CASE manager = "Metadata" -> "Nothing"
                                  [] manager = "Downloading" -> "Some"
                                  [] manager = "Seeding" -> "All"]
  <2>1. manager # "Gone"
    BY <1>6 DEF WhatDoWeHave, Asked, Idle
  <2>2. reply \in Mails
    BY <2>1, MessagesAreMail DEF EnvTypes
  <2>3. Reply(<<reply>>) /\ UNCHANGED manager
    BY <1>6 DEF WhatDoWeHave
  <2> HIDE DEF reply
  <2>4. <<reply>> \in Seq(Mails)
    BY <2>2, OneMail
  <2> QED  BY <2>3, <2>4, MailIsSent DEF EnvTypes
<1>7. CASE NeedBlockQueue
  <2>1. UNCHANGED manager
    BY <1>7 DEF NeedBlockQueue
  <2>2. \E msgs \in Seq(Mails) : Reply(msgs)
    <3>1. CASE Reply(<<>>)
      BY <1>3, <3>1
    <3>2. CASE \E n \in 1..Limit : Reply(<<[type |-> "NewBlockQueue", blocks |-> n]>>)
      <4>1. PICK n \in 1..Limit : Reply(<<[type |-> "NewBlockQueue", blocks |-> n]>>)
        BY <3>2
      <4>2. <<[type |-> "NewBlockQueue", blocks |-> n]>> \in Seq(Mails)
        BY MessagesAreMail, OneMail
      <4> QED  BY <4>1, <4>2
    <3>3. CASE \E n \in 1..MetadataBlocks : Reply([i \in 1..n |-> Msg("ExtensionData")])
      <4>1. PICK n \in 1..MetadataBlocks : Reply([i \in 1..n |-> Msg("ExtensionData")])
        BY <3>3
      <4>2. n \in Nat /\ Msg("ExtensionData") \in Mails
        BY MessagesAreMail, ConnectionAssumption
      <4>3. [i \in 1..n |-> Msg("ExtensionData")] \in Seq(Mails)
        BY <4>2
      <4> QED  BY <4>1, <4>3
    <3> QED  BY <1>7, <3>1, <3>2, <3>3 DEF NeedBlockQueue
  <2> QED  BY <2>1, <2>2, MailIsSent DEF EnvTypes
<1>8. CASE GotBlock
  BY <1>3, <1>8, MailIsSent, FinishesPieceKeeps DEF GotBlock, EnvTypes
<1>9. CASE NeedBlock
  <2>1. \E msgs \in Seq(Mails) : Reply(msgs)
    <3>1. CASE Reply(<<>>)
      BY <1>3, <3>1
    <3>2. CASE \E some \in BOOLEAN : Reply(<<[type |-> "Block", some |-> some]>>)
      <4>1. PICK some \in BOOLEAN : Reply(<<[type |-> "Block", some |-> some]>>)
        BY <3>2
      <4>2. <<[type |-> "Block", some |-> some]>> \in Seq(Mails)
        BY MessagesAreMail, OneMail
      <4> QED  BY <4>1, <4>2
    <3> QED  BY <1>9, <3>1, <3>2 DEF NeedBlock
  <2> QED  BY <1>9, <2>1, MailIsSent DEF NeedBlock, EnvTypes
<1>10. CASE ReceivedMetadataPiece
  BY <1>3, <1>10, MailIsSent, TransitionKeeps DEF ReceivedMetadataPiece, EnvTypes
<1>11. CASE Noted
  BY <1>11 DEF Noted, EnvTypes, managerVars
<1>12. CASE PeerDisconnected
  BY <1>12 DEF PeerDisconnected, EnvTypes
<1> QED
  BY <1>5, <1>6, <1>7, <1>8, <1>9, <1>10, <1>11, <1>12 DEF ManagerAnswers

LEMMA ManagerActsKeep ==
  ASSUME PeerInv, EnvTypes, ManagerActs
  PROVE  PeerInv' /\ EnvTypes' /\ UNCHANGED peerVars
<1>1. \E kind \in ManagerAction : OfItsOwn(kind)
  BY DEF ManagerActs, OthersFinishPiece, OthersGetMetadata, Pause, Resume, Stop, ManagerAction
<1>2. /\ PeerInv' /\ UNCHANGED peerVars
      /\ mail_next' \in BOOLEAN /\ paused' \in BOOLEAN
      /\ socket' \in {"Open", "Closed"} /\ strayed' \in BOOLEAN
  BY <1>1, SenderLeavesPeerAlone
<1>3. SUFFICES /\ mailbox' \in Seq(Mails) /\ registered' \in BOOLEAN
               /\ manager' \in {"Metadata", "Downloading", "Seeding", "Gone"}
  BY <1>2 DEF EnvTypes
<1>4. /\ <<Msg("PauseDownload")>> \in Seq(Mails) /\ <<Msg("StartDownload")>> \in Seq(Mails)
      /\ <<Msg("CancelDownload")>> \in Seq(Mails)
  BY MessagesAreMail
<1>5. CASE OthersFinishPiece
  BY <1>5, FinishesPieceKeeps DEF OthersFinishPiece
<1>6. CASE OthersGetMetadata
  BY <1>6, TransitionKeeps DEF OthersGetMetadata
<1>7. CASE Pause
  BY <1>4, <1>7, MailIsSent DEF Pause, EnvTypes
<1>8. CASE Resume
  BY <1>4, <1>8, MailIsSent DEF Resume, EnvTypes
<1>9. CASE Stop
  BY <1>4, <1>9, MailIsSent DEF Stop, EnvTypes
<1> QED  BY <1>5, <1>6, <1>7, <1>8, <1>9 DEF ManagerActs

LEMMA ManagerMessageKeepsEnv ==
  ASSUME EnvTypes, ManagerMessage
  PROVE  EnvTypes'
<1>1. \E type : Mail(type)
  BY DEF ManagerMessage, FinishedFile, FinishedPiece, NewBlockQueue, Block, WeHave,
         ExtensionData, StartDownload, PauseDownload, CancelDownload
<1>2. mailbox' \in Seq(Mails)
  BY <1>1, HeadIsMail DEF Mail, EnvTypes
<1>3. paused' \in BOOLEAN
  BY <1>1 DEF Mail, EnvTypes
<1> QED  BY <1>1, <1>2, <1>3 DEF Mail, EnvTypes, managerVars, remoteVars

LEMMA WireMessageKeepsEnv ==
  ASSUME EnvTypes, WireMessage
  PROVE  EnvTypes'
<1>1. \E kind : Data(kind)
  BY DEF WireMessage, Choke, Unchoke, Interested, NotInterested, Have, Bitfield, Request,
         Piece, UnaskedPiece, Cancel, KeepAlive, Handshake, MetadataAnswer, MetadataRequest,
         Timeout, CloseConnection
<1> QED  BY <1>1 DEF Data, Strays, EnvTypes, managerVars

-----------------------------------------------------------------------------
(* The theorems. *)

LEMMA InvInit == Init => IInv
<1>1. <<"NewConnection">> \in Seq(Ask) /\ <<>> \in Seq(Mails)
  BY DEF Ask
<1>2. Init => PeerTypes
  <2>1. Init => inbox \in Seq(Ask)
    BY <1>1, Zenon DEF Init
  <2>2. Init => extensions \in Extensions
    BY DEF Init, Extensions
  <2>3. Init => /\ running /\ ~am_interested /\ peer_choking /\ ~peer_interested /\ ~told
                /\ to_send = NoRequests /\ owed = NoRequests /\ have_sent = 0
    BY DEF Init
  <2>4. Init => to_send \in Requests /\ owed \in Requests /\ have_sent \in Nat
    BY <2>3, NoRequestsIsEmpty
  <2> QED  BY <2>1, <2>2, <2>4 DEF PeerTypes, Init
<1>3. Init => EnvTypes
  BY <1>1 DEF Init, EnvTypes
<1>4. Init => InterestIsTold /\ NothingWaitsIdle
  BY NoRequestsIsEmpty DEF Init, InterestIsTold, NothingWaitsIdle
<1> QED  BY <1>2, <1>3, <1>4, IInvParts DEF PeerInv

LEMMA InvNext == IInv /\ [Next]_vars => IInv'
<1> SUFFICES ASSUME IInv, [Next]_vars PROVE PeerInv' /\ EnvTypes'
  <2>1. (PeerInv' /\ EnvTypes') => IInv'
    BY DEF IInv, TypeOK, PeerInv, PeerTypes, EnvTypes, Requests, Extensions
  <2> QED  BY <2>1
<1>0. PeerInv /\ EnvTypes
  BY IInvParts
<1>1. CASE ManagerMessage
  <2>1. PICK t : Told(t) /\ Done(t)
    BY <1>0, <1>1, ManagerMessageIsDone DEF EnvTypes
  <2>2. PeerInv'
    BY <1>0, <2>1, TurnKeeps, QuitKeeps DEF Done, Told
  <2> QED  BY <1>0, <1>1, <2>2, ManagerMessageKeepsEnv
<1>2. CASE WireMessage
  <2>1. PICK t : Told(t) /\ Done(t)
    BY <1>0, <1>2, WireMessageIsDone
  <2>2. PeerInv'
    BY <1>0, <2>1, TurnKeeps, QuitKeeps DEF Done, Told
  <2> QED  BY <1>0, <1>2, <2>2, WireMessageKeepsEnv
<1>3. CASE RemoteCloses
  <2>1. UNCHANGED peerVars /\ inbox' \in Seq(Ask)
    BY <1>0, <1>3 DEF RemoteCloses, PeerInv, PeerTypes
  <2>2. PeerInv'
    BY <1>0, <2>1, PeerIsLeftAlone
  <2>3. EnvTypes'
    BY <1>0, <1>3 DEF RemoteCloses, EnvTypes, peerVars, managerVars
  <2> QED  BY <2>2, <2>3
<1>4. CASE SendFails
  <2>1. Told(Now) /\ Fails(Now)
    BY <1>0, <1>4, NowTells DEF SendFails
  <2>2. PeerInv'
    BY <1>0, <2>1, QuitKeeps DEF Told
  <2>3. EnvTypes'
    BY <1>0, <1>4 DEF SendFails, EnvTypes, managerVars, remoteVars
  <2> QED  BY <2>2, <2>3
<1>5. CASE ManagerAnswers
  BY <1>0, <1>5, ManagerAnswersKeep
<1>6. CASE ManagerActs
  BY <1>0, <1>6, ManagerActsKeep
<1>7. CASE SendExtendedHandshake
  <2>1. EnvTypes'
    BY <1>0, <1>7 DEF SendExtendedHandshake, EnvTypes, managerVars, remoteVars
  <2> QED  BY <1>0, <1>7, <2>1, GreetingKeeps
<1>8. CASE UNCHANGED vars
  <2>1. UNCHANGED peerVars /\ inbox' \in Seq(Ask)
    BY <1>0, <1>8 DEF vars, PeerInv, PeerTypes
  <2>2. PeerInv'
    BY <1>0, <2>1, PeerIsLeftAlone
  <2>3. EnvTypes'
    BY <1>0, <1>8 DEF vars, EnvTypes, peerVars, managerVars, remoteVars
  <2> QED  BY <2>2, <2>3
<1> QED  BY <1>1, <1>2, <1>3, <1>4, <1>5, <1>6, <1>7, <1>8 DEF Next

\* The inductive invariant of a connection.
THEOREM ConnectionInvariant == Spec => []IInv
  BY InvInit, InvNext, PTL DEF Spec

\* The peer's state, and what is in both channels, keep their types; have_sent
\* does even when it wraps around.
THEOREM ConnectionTypeCorrect == Spec => []TypeOK
<1>1. IInv => TypeOK
  BY DEF IInv
<1> QED  BY <1>1, ConnectionInvariant, PTL

\* The remote knows the interest the peer goes by, after every message of the
\* manager and of the wire (set_interested).
THEOREM InterestAlwaysTold == Spec => []InterestIsTold
<1>1. IInv => InterestIsTold
  BY DEF IInv
<1> QED  BY <1>1, ConnectionInvariant, PTL

\* Between two messages no queued request could have been sent: the loop's
\* tail leaves nothing to a message that may never come.
THEOREM NothingEverWaitsIdle == Spec => []NothingWaitsIdle
<1>1. IInv => NothingWaitsIdle
  BY DEF IInv
<1> QED  BY <1>1, ConnectionInvariant, PTL

-----------------------------------------------------------------------------
(* What is counted, when the remote only answers what it was asked. *)

\* The counter never runs below what is owed, and only grows to it.
CountedStep ==
  /\ Size(owed') <= have_sent'
  /\ have_sent' > have_sent => Size(owed') = have_sent'

LEMMA DoneCounts ==
  ASSUME PeerInv, OutstandingIsCounted, NEW t, Told(t), CountsNoMore(t), Done(t)
  PROVE  CountedStep
<1> DEFINE r == RequestNextBlocks(t)
<1>1. /\ t.to_send \in Requests /\ t.owed \in Requests
      /\ t.have_sent \in Nat /\ have_sent \in Nat
  BY DEF Told, Turns, PeerInv, PeerTypes
<1>2. Size(t.owed) \in Nat /\ Size(t.to_send) \in Nat
  BY <1>1, SizeIsNat
<1>3. \/ r.owed = t.owed /\ r.have_sent = t.have_sent
      \/ Size(r.owed) = r.have_sent /\ r.have_sent \in Nat
  <2>1. CASE ~CanRequest(t)
    BY <2>1 DEF RequestNextBlocks
  <2>2. CASE CanRequest(t)
    <3> DEFINE u == SendRequests(t)
    <3>1. Size(t.owed) = 0
      BY <1>2, <2>2 DEF CanRequest, CountsNoMore
    <3>2. Plus(t.owed, t.to_send) \in Requests /\ Size(Plus(t.owed, t.to_send)) = Size(t.to_send)
      BY <1>1, <1>2, <3>1, PlusAdds
    <3>3. Told(u) /\ u.owed = Plus(t.owed, t.to_send) /\ u.have_sent = Size(t.to_send)
      BY SendRequestsEmpties
    <3>4. r = RequestBlockQueue(u)
      BY <2>2 DEF RequestNextBlocks
    <3>5. SameCounts(r, u)
      BY <3>3, <3>4, RequestBlockQueueKeeps
    <3> QED  BY <1>2, <3>2, <3>3, <3>5 DEF SameCounts
  <2> QED  BY <2>1, <2>2
<1>4. \/ owed' = r.owed /\ have_sent' = r.have_sent
      \/ owed' = owed /\ have_sent' = have_sent
  BY DEF Done, Turn, Ends, Goes, Fails, Leaves, Quit
<1> HIDE DEF r
<1> QED  BY <1>1, <1>2, <1>3, <1>4 DEF CountsNoMore, OutstandingIsCounted, CountedStep

LEMMA NextCounts ==
  ASSUME HonestRemote, IInv, OutstandingIsCounted, [Next]_vars
  PROVE  CountedStep
<1>0. PeerInv /\ EnvTypes
  BY IInvParts
<1>1. CASE ManagerMessage
  <2>1. PICK t : Told(t) /\ SameCounts(t, Now) /\ Done(t)
    BY <1>0, <1>1, ManagerMessageIsDone DEF EnvTypes
  <2>2. CountsNoMore(t)
    BY <1>0, <2>1 DEF SameCounts, Now, CountsNoMore, OutstandingIsCounted, PeerInv, PeerTypes
  <2> QED  BY <1>0, <2>1, <2>2, DoneCounts
<1>2. CASE WireMessage
  <2>1. PICK t : Told(t) /\ Counted(t) /\ Done(t)
    BY <1>0, <1>2, WireMessageIsDone
  <2> QED  BY <1>0, <2>1, DoneCounts DEF Counted
<1>3. CASE UNCHANGED <<owed, have_sent>>
  BY <1>0, <1>3 DEF CountedStep, OutstandingIsCounted, PeerInv, PeerTypes
<1>6. SendExtendedHandshake => UNCHANGED <<owed, have_sent>>
  BY <1>0, GreetingKeeps
<1>4. RemoteCloses \/ SendFails \/ UNCHANGED vars => UNCHANGED <<owed, have_sent>>
  BY DEF RemoteCloses, SendFails, Fails, Quit, vars, peerVars
<1>5. ManagerAnswers \/ ManagerActs => UNCHANGED <<owed, have_sent>>
  BY <1>0, ManagerAnswersKeep, ManagerActsKeep DEF peerVars
<1> QED  BY <1>1, <1>2, <1>3, <1>4, <1>5, <1>6 DEF Next

LEMMA CountedNext ==
  ASSUME HonestRemote
  PROVE  IInv /\ OutstandingIsCounted /\ [Next]_vars => OutstandingIsCounted'
<1>1. IInv /\ OutstandingIsCounted /\ [Next]_vars => CountedStep
  BY NextCounts
<1>2. CountedStep => OutstandingIsCounted'
  BY DEF CountedStep, OutstandingIsCounted, Size
<1> QED  BY <1>1, <1>2

\* With a remote that only answers what it was asked, no request is in flight
\* that have_sent does not count: not after a choke, a pause, a broken write or
\* answers of both kinds.
THEOREM OutstandingAlwaysCounted ==
  ASSUME HonestRemote
  PROVE  Spec => []OutstandingIsCounted
<1>1. Init => OutstandingIsCounted
  BY NoRequestsIsEmpty DEF Init, OutstandingIsCounted
<1> QED  BY <1>1, CountedNext, ConnectionInvariant, PTL DEF Spec

\* With such a remote a batch of requests goes out only when nothing else is
\* in flight.
THEOREM BatchesNeverOverlap ==
  ASSUME HonestRemote
  PROVE  Spec => OneBatchAtATime
<1>1. IInv /\ OutstandingIsCounted /\ [Next]_vars
        => [have_sent' > have_sent => Size(owed') = have_sent']_vars
  BY NextCounts DEF CountedStep
<1> QED
  BY <1>1, ConnectionInvariant, OutstandingAlwaysCounted, PTL DEF Spec, OneBatchAtATime
=============================================================================
