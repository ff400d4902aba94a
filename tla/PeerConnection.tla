-------------------------- MODULE PeerConnection --------------------------
(***************************************************************************)
(* One connection: the event loop of a Peer (peer/event_loop.rs), between  *)
(* its mailbox, which the peer manager fills, and the wire.  Of a message  *)
(* only its type and the number of requests it carries are kept.           *)
(*                                                                         *)
(* A turn of the loop handles one message and then looks whether the next  *)
(* requests can be sent.  It is one action, since nobody else changes the  *)
(* peer's state; what it sends to the manager is appended to `inbox`, the  *)
(* part of the manager's queue that is from this peer.  A channel may hold *)
(* more than its capacity: the surplus is what its sender is still waiting *)
(* to put in, and a sender that waits does nothing else.                   *)
(*                                                                         *)
(* The manager and the remote peer are the environment.  The manager's     *)
(* handlers are reduced to what they send this peer.                       *)
(***************************************************************************)
EXTENDS Integers, Sequences

CONSTANTS
  ChannelSize,      \* the capacity of a peer's mailbox (16)
  InboxSize,        \* this peer's share of the manager's channel (64)
  MaxReq, Margin,   \* the remote's reqq, and what is subtracted from it (10)
  Word,             \* the values of a u32
  MetadataBlocks,   \* bound: metadata requests in one answer
  MaxQueued,        \* bound: no more blocks are handed out beyond it
  UsizeMax,         \* usize::MAX
  RemoteSends,      \* what the remote may do
  ManagerSends      \* what the manager may send of its own accord

RemoteAction ==
  {"Choke", "Unchoke", "Interested", "NotInterested", "Have", "Bitfield",
   "Request", "Piece", "UnaskedPiece", "Cancel", "KeepAlive", "Handshake",
   "MetadataAnswer", "MetadataRequest", "Silence", "Error", "Close"}

ManagerAction == {"FinishedPiece", "GotMetadata", "Pause", "Resume", "Stop"}

ASSUME ConnectionAssumption ==
  /\ {ChannelSize, InboxSize, MaxReq, Margin, MetadataBlocks, MaxQueued, UsizeMax, Word} \subseteq Nat
  /\ MaxReq < Word /\ Margin <= Word
  /\ RemoteSends \subseteq RemoteAction
  /\ ManagerSends \subseteq ManagerAction

VARIABLES
  running,          \* the task runs
  keeps_mailbox,    \* a task that has ended well still holds its mailbox
  am_interested, peer_choking, peer_interested,   \* PeerStateInner
  to_send,          \* the requests that wait: how many of each kind
  have_sent,        \* the requests that were sent and not answered yet
  extensions,       \* "Unsupported", "Greeting", "Unknown" or "Metadata"
  mail_next,        \* the merged stream looks at the mailbox first
  paused,           \* PauseDownload is the last order the peer was given
  mailbox,          \* manager -> peer
  inbox,            \* peer -> manager
  manager,          \* "Metadata", "Downloading", "Seeding" or "Gone"
  registered,       \* the manager's map of connections holds this one
  socket,           \* "Open", or "Closed" by the remote
  strayed,          \* the remote dropped requests, or answered what nobody asked
  told,             \* the interest the remote was last told
  owed              \* the requests the remote has not answered yet

peerVars == <<running, keeps_mailbox, am_interested, peer_choking, peer_interested, to_send,
              have_sent, extensions, mail_next, paused, told, owed>>
managerVars == <<manager, registered>>
remoteVars == <<socket, strayed>>
vars == <<peerVars, managerVars, remoteVars, mailbox, inbox>>

RequestKind == {"Block", "Metadata"}
NoRequests == [k \in RequestKind |-> 0]
Plus(a, b) == [k \in RequestKind |-> a[k] + b[k]]
Size(queue) == queue["Block"] + queue["Metadata"]

-----------------------------------------------------------------------------
(* A turn is a record: the peer's state, what it asks the manager (asks),   *)
(* and the number of asks before each of its writes to the socket (writes). *)

Now ==
  [am_interested |-> am_interested, peer_choking |-> peer_choking,
   peer_interested |-> peer_interested, to_send |-> to_send,
   have_sent |-> have_sent, extensions |-> extensions,
   told |-> told, owed |-> owed, asks |-> <<>>, writes |-> {}]

SendPeer(t) == [t EXCEPT !.writes = @ \cup {Len(t.asks)}]
SendPeerManager(t, msg) == [t EXCEPT !.asks = Append(@, msg)]

\* mutant: the remote is not told of a lost interest
TellsInterestOnly(t, interested) ==
  IF interested = t.am_interested THEN t
  ELSE IF interested THEN SendPeer([t EXCEPT !.am_interested = TRUE, !.told = TRUE])
  ELSE [t EXCEPT !.am_interested = FALSE]

SetInterested(t, interested) ==
  IF t.am_interested = interested THEN t
  ELSE SendPeer([t EXCEPT !.am_interested = interested, !.told = interested])

RequestBlockQueue(t) ==
  IF Size(t.to_send) = 0 /\ t.am_interested
  THEN SendPeerManager(t, "NeedBlockQueue") ELSE t

\* mutant: requests are sent over unanswered ones
CanRequestMore(t) == t.am_interested /\ ~t.peer_choking

CanRequest(t) == t.have_sent = 0 /\ t.am_interested /\ ~t.peer_choking

\* mutant: requests for metadata are not counted
CountsBlocksOnly(t) ==
  IF ~CanRequest(t) THEN t
  ELSE RequestBlockQueue(SendPeer(
         [t EXCEPT !.to_send = NoRequests, !.have_sent = t.to_send["Block"],
                   !.owed = Plus(@, t.to_send)]))

\* The end of every turn.
SendRequests(t) ==
  [t EXCEPT !.to_send = NoRequests, !.have_sent = Size(t.to_send),
            !.owed = Plus(@, t.to_send),
            !.writes = IF Size(t.to_send) > 0 THEN @ \cup {Len(t.asks)} ELSE @]

RequestNextBlocks(t) == IF CanRequest(t) THEN RequestBlockQueue(SendRequests(t)) ELSE t

\* Drop, after what the turn has asked: the manager is told; the remote too, if
\* it still can be.
Quit(t) ==
  /\ running' = FALSE
  /\ am_interested' = FALSE
  /\ told' = IF socket = "Open" THEN FALSE ELSE t.told
  /\ inbox' = IF manager = "Gone" THEN inbox ELSE Append(inbox \o t.asks, "PeerDisconnected")
  /\ UNCHANGED <<peer_choking, peer_interested, to_send, have_sent, extensions, owed>>

\* run() returns an error, or panics: the mailbox is dropped before the peer.
Fails(t) == Quit(t) /\ UNCHANGED keeps_mailbox

\* run() puts the mailbox back: it is there until the peer has been dropped.
Leaves(t) == Quit(t) /\ keeps_mailbox' = TRUE

Goes(t) ==
  /\ am_interested' = t.am_interested
  /\ peer_choking' = t.peer_choking
  /\ peer_interested' = t.peer_interested
  /\ to_send' = t.to_send
  /\ have_sent' = t.have_sent
  /\ extensions' = t.extensions
  /\ told' = t.told
  /\ owed' = t.owed
  /\ inbox' = inbox \o t.asks
  /\ UNCHANGED <<running, keeps_mailbox>>

\* What a turn has asked before a write that fails.
CutAt(t, n) == [t EXCEPT !.asks = SubSeq(@, 1, n)]

\* A write to a closed socket may still succeed, a send to a manager that is
\* gone never does.
Ends(t) ==
  \/ /\ t.asks = <<>> \/ manager # "Gone"
     /\ Goes(t)
  \/ /\ socket = "Closed"
     /\ \E n \in t.writes : Fails(CutAt(t, n))
  \/ /\ t.asks # <<>> /\ manager = "Gone"
     /\ Fails(t)

\* mutant: the next requests wait for a later message
TurnWithoutRequests(t) == Ends(t)

Turn(t) == Ends(RequestNextBlocks(t))

\* Nothing of the peer's waits to be put in the inbox.
Delivered == running /\ Len(inbox) <= InboxSize

\* Before the loop: a remote that knows extensions is sent a handshake.
SendExtendedHandshake ==
  /\ Delivered /\ extensions = "Greeting"
  /\ \/ Goes([Now EXCEPT !.extensions = "Unknown"])
     \/ socket = "Closed" /\ Fails(Now)
  /\ UNCHANGED <<managerVars, remoteVars, mailbox, mail_next, paused>>

\* The loop awaits the next message.
Waiting == Delivered /\ extensions # "Greeting"

-----------------------------------------------------------------------------
(* Msg::Manager *)

Mail(type) ==
  /\ Waiting
  /\ mailbox # <<>> /\ Head(mailbox).type = type
  /\ mailbox' = Tail(mailbox)
  /\ mail_next' = FALSE
  /\ paused' = CASE type = "PauseDownload" -> TRUE
                 [] type = "StartDownload" -> FALSE
                 [] OTHER -> paused
  /\ UNCHANGED <<managerVars, remoteVars>>

FinishedFile ==
  /\ Mail("FinishedFile")
  /\ IF peer_interested THEN Turn(Now) ELSE Leaves(Now)

FinishedPiece == Mail("FinishedPiece") /\ Turn(SendPeer(Now))

NewBlockQueue ==
  /\ Mail("NewBlockQueue")
  /\ Turn([Now EXCEPT !.to_send["Block"] = @ + Head(mailbox).blocks])

Block == Mail("Block") /\ Turn(IF Head(mailbox).some THEN SendPeer(Now) ELSE Now)

WeHave ==
  /\ Mail("WeHave")
  /\ Turn(CASE Head(mailbox).have = "All" -> SetInterested(Now, FALSE)
            [] Head(mailbox).have = "Some" ->
                 RequestBlockQueue(SendPeer(SetInterested(Now, TRUE)))
            [] Head(mailbox).have = "Nothing" ->
                 RequestBlockQueue(SetInterested(Now, TRUE)))

ExtensionData ==
  /\ Mail("ExtensionData")
  /\ Turn(IF extensions = "Metadata" THEN [Now EXCEPT !.to_send["Metadata"] = @ + 1] ELSE Now)

StartDownload == Mail("StartDownload") /\ Turn(SendPeerManager(Now, "WhatDoWeHave"))
PauseDownload == Mail("PauseDownload") /\ Turn(SetInterested(Now, FALSE))

CancelDownload ==
  /\ Mail("CancelDownload")
  /\ \/ Leaves(SetInterested(Now, FALSE))
     \/ am_interested /\ socket = "Closed" /\ Fails(Now)

ManagerMessage ==
  \/ FinishedFile \/ FinishedPiece \/ NewBlockQueue \/ Block \/ WeHave
  \/ ExtensionData \/ StartDownload \/ PauseDownload \/ CancelDownload

-----------------------------------------------------------------------------
(* Msg::Data, Msg::Timeout and Msg::CloseConnection *)

\* A choke drops the block requests in flight.
Strays(kind) ==
  kind \in {"UnaskedPiece", "MetadataRequest"} \/ (kind = "Choke" /\ owed["Block"] > 0)

\* tokio's merge alternates between its streams: after a message of the wire
\* it looks at the mailbox first.
Data(kind) ==
  /\ Waiting
  /\ ~mail_next
  /\ mail_next' = (mailbox # <<>>)
  /\ socket = "Open"
  /\ kind \in RemoteSends
  /\ strayed' = (strayed \/ Strays(kind))
  /\ UNCHANGED <<managerVars, socket, mailbox, paused>>

\* A remote that chokes drops the block requests it has not answered.
\* Bound: a remote does not repeat itself.
Choke ==
  /\ Data("Choke")
  /\ ~peer_choking
  /\ Turn([Now EXCEPT !.peer_choking = TRUE, !.owed["Block"] = 0])

Unchoke == Data("Unchoke") /\ peer_choking /\ Turn([Now EXCEPT !.peer_choking = FALSE])
Interested == Data("Interested") /\ Turn(SendPeer([Now EXCEPT !.peer_interested = TRUE]))
NotInterested == Data("NotInterested") /\ Turn([Now EXCEPT !.peer_interested = FALSE])
Have == Data("Have") /\ Turn(SendPeerManager(Now, "PeerHas"))

Bitfield ==
  /\ Data("Bitfield")
  /\ Turn(RequestBlockQueue(SendPeerManager(Now, "PeerBitfield")))

Request == Data("Request") /\ Turn(SendPeerManager(Now, "NeedBlock"))

\* mutant: answers to requests for metadata are not counted
CountsBlockAnswers(t, msg) ==
  Turn(SendPeerManager(
    [t EXCEPT !.have_sent = IF msg = "GotBlock" /\ @ > 0 THEN @ - 1 ELSE @], msg))

\* have_sent -= 1 wraps around; in a debug build it panics, which drops the
\* peer.
CountsDown(t, msg) ==
  \/ Turn(SendPeerManager(
       [t EXCEPT !.have_sent = IF @ = 0 THEN UsizeMax ELSE @ - 1], msg))
  \/ have_sent = 0 /\ Fails(Now)

Answered(kind) == [Now EXCEPT !.owed[kind] = @ - 1]

Piece == Data("Piece") /\ owed["Block"] > 0 /\ CountsDown(Answered("Block"), "GotBlock")
UnaskedPiece == Data("UnaskedPiece") /\ CountsDown(Now, "GotBlock")

\* todo!() panics
Cancel == Data("Cancel") /\ Fails(Now)

KeepAlive == Data("KeepAlive") /\ Turn(Now)

\* The remote's extended handshake names ut_metadata, with the metadata's
\* length or without.  Bound: it sends one.
Handshake ==
  /\ Data("Handshake")
  /\ extensions # "Metadata"
  /\ IF extensions = "Unsupported" THEN Turn(Now)
     ELSE \E ask \in {"GotMetadataLength", "NeedBlockQueue"} :
            Turn(SendPeerManager([Now EXCEPT !.extensions = "Metadata"], ask))

\* Data, a rejection and a request of the remote's own are all handled as a
\* received piece of the metadata.
MetadataAnswer ==
  /\ extensions = "Metadata"
  /\ Data("MetadataAnswer") /\ owed["Metadata"] > 0
  /\ CountsDown(Answered("Metadata"), "ReceivedMetadataPiece")

MetadataRequest ==
  /\ extensions = "Metadata"
  /\ Data("MetadataRequest") /\ CountsDown(Now, "ReceivedMetadataPiece")

\* KEEPALIVE_TIMEOUT: the keep-alive message is sent, but encoded as nothing.
Timeout == Data("Silence") /\ Turn(Now)

\* A read fails, or an extended handshake cannot be decoded.
CloseConnection == Data("Error") /\ Fails(Now)

WireMessage ==
  \/ Choke \/ Unchoke \/ Interested \/ NotInterested \/ Have \/ Bitfield
  \/ Request \/ Piece \/ UnaskedPiece \/ Cancel \/ KeepAlive \/ Handshake
  \/ MetadataAnswer \/ MetadataRequest
  \/ Timeout \/ CloseConnection

\* The wire's half of the merged stream ends, the loop goes on.
RemoteCloses ==
  /\ socket = "Open" /\ "Close" \in RemoteSends
  /\ socket' = "Closed"
  /\ UNCHANGED <<peerVars, managerVars, strayed, mailbox, inbox>>

\* The manager went while this peer waited to put something in its channel.
SendFails ==
  /\ running /\ manager = "Gone" /\ Len(inbox) > InboxSize
  /\ Fails(Now)
  /\ UNCHANGED <<managerVars, remoteVars, mailbox, mail_next, paused>>

-----------------------------------------------------------------------------
(* The manager: what its handlers send this peer (peer_manager/event_loop.rs)*)

\* The mailbox's receiver exists: the task runs, or it ended well and its Drop
\* still waits to put PeerDisconnected into the manager's channel.
HasMailbox == running \/ (keeps_mailbox /\ Len(inbox) > InboxSize)

\* The manager is not waiting for room in the mailbox.
Idle == manager # "Gone" /\ (HasMailbox => Len(mailbox) <= ChannelSize)

Msg(type) == [type |-> type]

\* send_peer, message by message; a failure takes the peer off the map.
Reply(msgs) ==
  IF registered /\ HasMailbox
  THEN mailbox' = mailbox \o msgs /\ UNCHANGED registered
  ELSE registered' = (registered /\ msgs = <<>>) /\ UNCHANGED mailbox

\* broadcast_peers
Broadcast(msgs) ==
  /\ mailbox' = IF registered /\ HasMailbox THEN mailbox \o msgs ELSE mailbox
  /\ UNCHANGED registered

Asked(msg) ==
  /\ Idle
  /\ inbox # <<>> /\ Head(inbox) = msg
  /\ inbox' = Tail(inbox)
  /\ UNCHANGED <<peerVars, remoteVars>>

NewConnection ==
  /\ Asked("NewConnection")
  /\ IF HasMailbox THEN registered' = TRUE /\ mailbox' = Append(mailbox, Msg("StartDownload"))
     ELSE UNCHANGED <<registered, mailbox>>
  /\ UNCHANGED manager

WhatDoWeHave ==
  /\ Asked("WhatDoWeHave")
  /\ Reply(<<[type |-> "WeHave",
              have |-> CASE manager = "Metadata" -> "Nothing"
                         [] manager = "Downloading" -> "Some"
                         [] manager = "Seeding" -> "All"]>>)
  /\ UNCHANGED manager

\* Bound: what is queued, and what a remote owes that upsets the count.
IsHandedOut(n) == Size(to_send) + n <= MaxQueued /\ Size(owed) <= MaxQueued

\* get_peers_max_req: below the margin it wraps around; a debug build panics.
Limit == IF MaxReq >= Margin THEN MaxReq - Margin ELSE MaxReq - Margin + Word

\* As many blocks as are left for this peer, within its limit.
NeedBlockQueue ==
  /\ Asked("NeedBlockQueue")
  /\ \/ Reply(<<>>)
     \/ /\ manager = "Downloading"
        /\ \E n \in 1..Limit :
             /\ IsHandedOut(n)
             /\ Reply(<<[type |-> "NewBlockQueue", blocks |-> n]>>)
     \/ /\ manager = "Metadata"
        /\ \E n \in 1..MetadataBlocks :
             /\ IsHandedOut(n)
             /\ Reply([i \in 1..n |-> Msg("ExtensionData")])
  /\ UNCHANGED manager

FinishesPiece ==
  /\ manager = "Downloading"
  /\ \/ Broadcast(<<Msg("FinishedPiece")>>) /\ UNCHANGED manager
     \/ Broadcast(<<Msg("FinishedFile"), Msg("FinishedPiece")>>) /\ manager' = "Seeding"

GotBlock ==
  /\ Asked("GotBlock")
  /\ \/ Broadcast(<<>>) /\ UNCHANGED manager
     \/ FinishesPiece

NeedBlock ==
  /\ Asked("NeedBlock")
  /\ IF manager = "Metadata" THEN Reply(<<>>)
     ELSE \E some \in BOOLEAN : Reply(<<[type |-> "Block", some |-> some]>>)
  /\ UNCHANGED manager

TransitionDownloading ==
  /\ manager = "Metadata" /\ manager' = "Downloading"
  /\ Broadcast(<<Msg("StartDownload")>>)

ReceivedMetadataPiece ==
  /\ Asked("ReceivedMetadataPiece")
  /\ \/ Broadcast(<<>>) /\ UNCHANGED manager
     \/ TransitionDownloading

\* Messages that the manager does not answer.
Noted ==
  /\ \E msg \in {"PeerHas", "PeerBitfield", "GotMetadataLength"} : Asked(msg)
  /\ UNCHANGED <<managerVars, mailbox>>

PeerDisconnected ==
  /\ Asked("PeerDisconnected")
  /\ registered' = FALSE
  /\ UNCHANGED <<manager, mailbox>>

ManagerAnswers ==
  \/ NewConnection \/ WhatDoWeHave \/ NeedBlockQueue \/ GotBlock \/ NeedBlock
  \/ ReceivedMetadataPiece \/ Noted \/ PeerDisconnected

\* What other peers' messages and the client make it send to this one.
OfItsOwn(kind) ==
  /\ Idle
  /\ kind \in ManagerSends
  /\ UNCHANGED <<peerVars, remoteVars, inbox>>

OthersFinishPiece == OfItsOwn("FinishedPiece") /\ FinishesPiece
OthersGetMetadata == OfItsOwn("GotMetadata") /\ TransitionDownloading
Pause == OfItsOwn("Pause") /\ Broadcast(<<Msg("PauseDownload")>>) /\ UNCHANGED manager
Resume == OfItsOwn("Resume") /\ Broadcast(<<Msg("StartDownload")>>) /\ UNCHANGED manager

\* Drop: the manager ends after its last message to every peer.
Stop ==
  /\ OfItsOwn("Stop")
  /\ Broadcast(<<Msg("CancelDownload")>>)
  /\ manager' = "Gone"

ManagerActs ==
  \/ OthersFinishPiece \/ OthersGetMetadata \/ Pause \/ Resume \/ Stop

-----------------------------------------------------------------------------

Init ==
  /\ running = TRUE /\ keeps_mailbox = FALSE
  /\ am_interested = FALSE /\ peer_choking = TRUE /\ peer_interested = FALSE
  /\ to_send = NoRequests /\ have_sent = 0
  /\ extensions \in {"Unsupported", "Greeting"} /\ mail_next = FALSE /\ paused = FALSE
  /\ mailbox = <<>> /\ inbox = <<"NewConnection">>
  /\ manager \in {"Metadata", "Downloading", "Seeding"} /\ registered = FALSE
  /\ socket = "Open" /\ strayed = FALSE /\ told = FALSE /\ owed = NoRequests

Next ==
  \/ SendExtendedHandshake
  \/ ManagerMessage \/ WireMessage \/ RemoteCloses \/ SendFails
  \/ ManagerAnswers \/ ManagerActs

Spec == Init /\ [][Next]_vars

-----------------------------------------------------------------------------

Mails ==
  [type: {"FinishedFile", "FinishedPiece", "ExtensionData", "StartDownload",
          "CancelDownload", "PauseDownload"}]
    \cup [type: {"NewBlockQueue"}, blocks: 1..Limit]
    \cup [type: {"Block"}, some: BOOLEAN]
    \cup [type: {"WeHave"}, have: {"Nothing", "Some", "All"}]

Ask == {"NewConnection", "WhatDoWeHave", "NeedBlockQueue", "GotBlock", "NeedBlock",
        "ReceivedMetadataPiece", "PeerHas", "PeerBitfield", "GotMetadataLength",
        "PeerDisconnected"}

\* The type of the state.
TypeOK ==
  /\ {running, keeps_mailbox, am_interested, peer_choking, peer_interested, mail_next, paused, registered, strayed, told} \subseteq BOOLEAN
  /\ to_send \in [RequestKind -> Nat] /\ owed \in [RequestKind -> Nat]
  /\ have_sent \in Nat
  /\ extensions \in {"Unsupported", "Greeting", "Unknown", "Metadata"}
  /\ mailbox \in Seq(Mails) /\ inbox \in Seq(Ask)
  /\ manager \in {"Metadata", "Downloading", "Seeding", "Gone"}
  /\ socket \in {"Open", "Closed"}

\* The remote was told the interest that the peer goes by (set_interested
\* sends only when the flag changes, and Drop takes it back).
InterestIsTold == running => told = am_interested

\* With a remote that only answers what it was asked, no request is in flight
\* that have_sent does not count: not after a choke, a pause or answers of
\* both kinds.
OutstandingIsCounted == Size(owed) <= have_sent

\* A batch of requests goes out only when nothing else is in flight: what is
\* counted afterwards is what the remote owes.
OneBatchAtATime == [][have_sent' > have_sent => Size(owed') = have_sent']_vars

\* The loop never waits for a message while it could send queued requests: no
\* later message need come.
NothingWaitsIdle == running /\ CanRequest(Now) => Size(to_send) = 0

\* tokio's merge polls its two streams in turn, so neither a full mailbox nor
\* a talkative remote keeps the other source waiting for ever.  The manager
\* handles its messages, and the remote answers what it was asked.
Fairness ==
  /\ WF_vars(SendExtendedHandshake)
  /\ WF_vars(ManagerAnswers) /\ SF_vars(ManagerMessage) /\ WF_vars(SendFails)
  /\ SF_vars(Piece) /\ SF_vars(MetadataAnswer)

FairSpec == Spec /\ Fairness

\* The manager waits for room in the peer's mailbox, and the peer, or its Drop,
\* for room in the manager's channel.
CircularWait ==
  HasMailbox /\ Len(inbox) > InboxSize /\ Len(mailbox) > ChannelSize

Sendable ==
  /\ running /\ socket = "Open"
  /\ Size(to_send) > 0 /\ am_interested /\ ~peer_choking

\* The queued requests of an interested peer that is not choked are sent, for a
\* remote that neither chokes with requests in flight nor sends an answer that
\* nobody asked for (have_sent would count what it does not owe, or not count
\* what it owes), unless the remote closes the connection or the two tasks wait
\* for each other for ever.
QueuedIsSent == Sendable /\ ~strayed ~> ~Sendable \/ strayed \/ CircularWait

-----------------------------------------------------------------------------
(* What the repository says and the code does not keep: the model refutes  *)
(* each of these (README, section 4).                                       *)

\* reqq is "the number of outstanding request messages this client supports
\* without dropping any" (protocol_extension_handshake.rs).
WithinMaxReq == owed["Block"] <= MaxReq

\* "if yes: send interested, request queue from manager, wait to become unchoked
\* then request the queue and such" (peer/event_loop.rs): it is requested also
\* when a remote that only answers what it was asked chokes and unchokes.
UnchokedIsAsked ==
  [](OutstandingIsCounted /\ have_sent # UsizeMax)
    => (Sendable ~> ~Sendable \/ CircularWait)

\* A paused peer asks for nothing until StartDownload continues it
\* (peer_manager/mod.rs, ResMessage::PauseDownload).
PausedIsNotInterested == paused => ~am_interested

\* The wire's None only means that data is still missing (peer/conn.rs), so it
\* never is the end of the connection's reading: that end is noticed.
EndOfStreamIsNoticed == socket = "Closed" ~> ~running
=============================================================================
