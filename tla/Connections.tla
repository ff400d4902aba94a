---------------------------- MODULE Connections ----------------------------
(***************************************************************************)
(* The connections of one torrent: the manager's map `peers`, which has    *)
(* room for one connection per peer id, the tasks of the connections, and  *)
(* the bounded channels between them (peer_manager/event_loop.rs,          *)
(* peer/conn.rs, peer_manager/peer_fetcher.rs).                            *)
(*                                                                         *)
(* A peer may be connected several times under its one id: every answer of *)
(* a tracker makes the manager connect to all its addresses again, and the *)
(* peer may connect to us meanwhile.  The manager finds a connection by id *)
(* only.  Its sender in the map is the only one, so a connection that has  *)
(* no entry gets what is in its mailbox and nothing more.                  *)
(*                                                                         *)
(* The manager handles one message at a time and sends what it has to say  *)
(* one message after the other (`sending`), waiting for room in a full     *)
(* mailbox.  `channel` is the manager's own queue; what is in it beyond    *)
(* InboxSize is what its senders still wait to put in, in their order.     *)
(***************************************************************************)
EXTENDS Integers, Sequences, FiniteSets, TLC

CONSTANTS
  Conn,             \* the connections that may be made
  PeerId,           \* the ids of remote peers
  Remotes,          \* connection -> peer id: who may be at the other ends
  Piece,
  InboxSize,        \* the capacity of the manager's channel (64)
  MailboxSize,      \* the capacity of a connection's mailbox (16)
  StoredBefore,     \* what an earlier run of the manager may have stored
  Closing,          \* bound: the connections that the remote may close
  MaxEvents         \* bound: messages of the remotes, orders of the client

ASSUME ConnectionsAssumption ==
  /\ IsFiniteSet(PeerId)
  /\ Remotes \subseteq [Conn -> PeerId]
  /\ StoredBefore \subseteq SUBSET Piece
  /\ Closing \subseteq Conn
  /\ {InboxSize, MailboxSize, MaxEvents} \subseteq Nat

VARIABLES
  id,               \* connection -> the peer id of its remote's handshake
  task,             \* connection -> how far it got
  wire,             \* connection -> "Open", or "Closed" by the remote
  told,             \* connection -> the pieces its remote was told of
  quiet,            \* the connections that kept a full bitfield to themselves
  mailbox,          \* connection -> the messages from the manager
  peers,            \* the manager's map: id -> connection
  peer_bitfields,   \* the ids that the piece selector keeps a bitfield of
  have,             \* the pieces that are recorded as stored
  finished,         \* the pieces that left the download queue
  sending,          \* what the manager still sends: <<[to, msg, reply], ...>>
  channel,          \* connections -> manager: <<[from, msg], ...>>
  events

connVars == <<id, task, wire, told, quiet>>
mapVars == <<peers, peer_bitfields>>
vars == <<connVars, mailbox, mapVars, have, finished, sending, channel, events>>

\* A connection's end is "Leaving" when run() returned Ok, which keeps the
\* mailbox until the Peer has been dropped, and "Failing" otherwise.
TaskState == {"New", "Running", "Leaving", "Failing"}

Ended(c) == task[c] \in {"Leaving", "Failing"}

\* Something of the connection's still waits for room in the channel.
Blocked(c) == \E k \in DOMAIN channel : k > InboxSize /\ channel[k].from = c

Awake(c) == task[c] = "Running" /\ ~Blocked(c)

HasMailbox(c) == task[c] = "Running" \/ (task[c] = "Leaving" /\ Blocked(c))

Registered(c) == id[c] \in DOMAIN peers /\ peers[id[c]] = c

MaySend == events < MaxEvents /\ events' = events + 1

-----------------------------------------------------------------------------
(* The connections *)

Tells(c, msg) == channel' = Append(channel, [from |-> c, msg |-> msg])

\* mutant: the manager is not told of an error
EndsSilently(c, how) ==
  /\ task' = [task EXCEPT ![c] = how]
  /\ UNCHANGED <<channel, id, wire, told, quiet>>

\* Drop for Peer
Ends(c, how) ==
  /\ task' = [task EXCEPT ![c] = how]
  /\ Tells(c, "PeerDisconnected")
  /\ UNCHANGED <<id, wire, told, quiet>>

\* The handshake is done, by whichever side connected: the mailbox is made,
\* and the manager is told.
Connect(c) ==
  /\ task[c] = "New"
  /\ task' = [task EXCEPT ![c] = "Running"]
  /\ Tells(c, "NewConnection")
  /\ UNCHANGED <<id, wire, told, quiet, mailbox, mapVars, have, finished, sending, events>>

\* A message of the remote's that makes the peer turn to the manager.
WireMessage(c, msg) ==
  /\ Awake(c) /\ wire[c] = "Open" /\ MaySend
  /\ Tells(c, msg)
  /\ UNCHANGED <<connVars, mailbox, mapVars, have, finished, sending>>

\* A broken frame, a reset connection.
WireFails(c) ==
  /\ Awake(c) /\ wire[c] = "Open"
  /\ Ends(c, "Failing")
  /\ UNCHANGED <<mailbox, mapVars, have, finished, sending, events>>

\* The stream's end only ends its half of the merged stream.
RemoteCloses(c) ==
  /\ c \in Closing
  /\ task[c] = "Running" /\ wire[c] = "Open"
  /\ wire' = [wire EXCEPT ![c] = "Closed"]
  /\ UNCHANGED <<id, task, told, quiet, mailbox, mapVars, have, finished, sending, channel, events>>

\* A write to a closed socket may still succeed.
WriteFails(c) == wire[c] = "Closed" /\ Ends(c, "Failing")

TellsRemote(c, pieces) ==
  \/ /\ told' = [told EXCEPT ![c] = @ \cup pieces]
     /\ UNCHANGED <<id, task, wire, quiet, channel>>
  \/ WriteFails(c)

\* mutant: the bitfield is for the peer itself only
NotesBitfield(c, pieces) == UNCHANGED <<connVars, channel>>

\* A bitfield that is full is not sent to the remote: what is written instead
\* is that we are not interested (any more).
KeepsQuiet(c) ==
  \/ quiet' = quiet \cup {c} /\ UNCHANGED <<id, task, wire, told, channel>>
  \/ WriteFails(c)

WeHave(c, pieces) == IF pieces = Piece THEN KeepsQuiet(c) ELSE TellsRemote(c, pieces)

HandleMail(c, mail) ==
  \/ mail.type = "StartDownload" /\ Tells(c, "WhatDoWeHave") /\ UNCHANGED connVars
  \/ mail.type = "WeHave" /\ WeHave(c, mail.pieces)
  \/ mail.type = "FinishedPiece" /\ TellsRemote(c, mail.pieces)
  \/ mail.type = "FinishedFile" /\ Ends(c, "Leaving")   \* the remote is not interested
  \/ mail.type \in {"FinishedFile", "Other"} /\ UNCHANGED <<connVars, channel>>
  \/ mail.type = "Other" /\ WriteFails(c)

ReadMail(c) ==
  /\ Awake(c) /\ mailbox[c] # <<>>
  /\ mailbox' = [mailbox EXCEPT ![c] = Tail(@)]
  /\ HandleMail(c, Head(mailbox[c]))
  /\ UNCHANGED <<mapVars, have, finished, sending, events>>

-----------------------------------------------------------------------------
(* The manager *)

Mail(type, pieces) == [type |-> type, pieces |-> pieces]
Start == Mail("StartDownload", {})

\* send_peer
Reply(i, mail) == <<[to |-> i, msg |-> mail, reply |-> TRUE]>>

\* The orders in which a HashMap of these ids may be iterated.
Orders(ids) ==
  { order \in [1..Cardinality(ids) -> ids] :
      \A i \in ids : \E k \in DOMAIN order : order[k] = i }

\* broadcast_peers
Broadcast(order, mail) ==
  [k \in DOMAIN order |-> [to |-> order[k], msg |-> mail, reply |-> FALSE]]

Without(map, i) == [j \in DOMAIN map \ {i} |-> map[j]]

\* mutant: a full mailbox is taken for a closed one
HasRoom(i) ==
  i \in DOMAIN peers /\ HasMailbox(peers[i]) /\ Len(mailbox[peers[i]]) < MailboxSize

\* A send to the connection of this id does not fail.
Reachable(i) == i \in DOMAIN peers /\ HasMailbox(peers[i])

\* One message of `sending` after the other; a reply that fails takes the
\* connection off the map, a broadcast that fails does nothing.
Send ==
  /\ sending # <<>>
  /\ LET s == Head(sending) IN
     \/ /\ Reachable(s.to)
        /\ Len(mailbox[peers[s.to]]) < MailboxSize
        /\ mailbox' = [mailbox EXCEPT ![peers[s.to]] = Append(@, s.msg)]
        /\ UNCHANGED peers
     \/ /\ ~Reachable(s.to)
        /\ peers' = IF s.reply THEN Without(peers, s.to) ELSE peers
        /\ UNCHANGED mailbox
  /\ sending' = Tail(sending)
  /\ UNCHANGED <<connVars, peer_bitfields, have, finished, channel, events>>

\* The event loop takes the next message.
Takes(c, msg) ==
  /\ sending = <<>>
  /\ channel # <<>> /\ Head(channel) = [from |-> c, msg |-> msg]
  /\ channel' = Tail(channel)
  /\ UNCHANGED <<connVars, mailbox, events>>

NewEntry(i, c) == [j \in DOMAIN peers \cup {i} |-> IF j = i THEN c ELSE peers[j]]

\* mutant: the connection is not started
JoinsSilently(c) ==
  /\ Takes(c, "NewConnection")
  /\ peers' = NewEntry(id[c], c)
  /\ peer_bitfields' = peer_bitfields \cup {id[c]}
  /\ UNCHANGED <<have, finished, sending>>

NewConnection(c) ==
  /\ Takes(c, "NewConnection")
  /\ peers' = NewEntry(id[c], c)
  /\ peer_bitfields' = peer_bitfields \cup {id[c]}
  /\ sending' = Reply(id[c], Start)
  /\ UNCHANGED <<have, finished>>

PeerDisconnected(c) ==
  /\ Takes(c, "PeerDisconnected")
  /\ peers' = Without(peers, id[c])
  /\ peer_bitfields' = peer_bitfields \ {id[c]}
  /\ UNCHANGED <<have, finished, sending>>

WhatDoWeHave(c) ==
  /\ Takes(c, "WhatDoWeHave")
  /\ sending' = Reply(id[c], Mail("WeHave", have))
  /\ UNCHANGED <<mapVars, have, finished>>

\* NeedBlock and NeedBlockQueue: an answer, or none.
NeedBlocks(c) ==
  /\ Takes(c, "NeedBlocks")
  /\ sending' \in {<<>>, Reply(id[c], Mail("Other", {}))}
  /\ UNCHANGED <<mapVars, have, finished>>

\* A block that is not the last one of its piece, or of a piece that is not
\* queued.
GotBlock(c) ==
  /\ Takes(c, "GotBlock")
  /\ UNCHANGED <<mapVars, have, finished, sending>>

\* The last block of a piece, whose hash may mismatch.
FinishesPiece(c, i) ==
  /\ Takes(c, "GotBlock")
  /\ i \notin finished
  /\ finished' = finished \cup {i}
  /\ have' \in {have, have \cup {i}}
  /\ \E order \in Orders(DOMAIN peers) :
       sending' = (IF have' = Piece THEN Broadcast(order, Mail("FinishedFile", {})) ELSE <<>>)
                    \o Broadcast(order, Mail("FinishedPiece", {i}))
  /\ UNCHANGED mapVars

\* ClientMessage: the download is paused, or resumed.
ClientOrders(mail) ==
  /\ sending = <<>> /\ MaySend
  /\ \E order \in Orders(DOMAIN peers) : sending' = Broadcast(order, mail)
  /\ UNCHANGED <<connVars, mailbox, mapVars, have, finished, channel>>

-----------------------------------------------------------------------------

Init ==
  /\ id \in Remotes
  /\ task = [c \in Conn |-> "New"]
  /\ wire = [c \in Conn |-> "Open"]
  /\ told = [c \in Conn |-> {}]
  /\ quiet = {}
  /\ mailbox = [c \in Conn |-> <<>>]
  /\ peers = [i \in {} |-> 0] /\ peer_bitfields = {}
  /\ have \in StoredBefore /\ finished = have
  /\ sending = <<>> /\ channel = <<>>
  /\ events = 0

ManagerTakes ==
  \/ \E c \in Conn :
       \/ NewConnection(c) \/ PeerDisconnected(c) \/ WhatDoWeHave(c)
       \/ NeedBlocks(c) \/ GotBlock(c)
       \/ \E i \in Piece : FinishesPiece(c, i)

Next ==
  \/ \E c \in Conn :
       \/ Connect(c) \/ WireFails(c) \/ RemoteCloses(c) \/ ReadMail(c)
       \/ \E msg \in {"NeedBlocks", "GotBlock"} : WireMessage(c, msg)
  \/ Send
  \/ ManagerTakes
  \/ \E mail \in {Start, Mail("Other", {})} : ClientOrders(mail)

Spec == Init /\ [][Next]_vars

-----------------------------------------------------------------------------
(* Properties *)

MailSet ==
  [type : {"WeHave", "FinishedPiece"}, pieces : SUBSET Piece]
    \cup [type : {"StartDownload", "FinishedFile", "Other"}, pieces : {{}}]
Ask == {"NewConnection", "PeerDisconnected", "WhatDoWeHave", "NeedBlocks", "GotBlock"}

\* The type of the state.
TypeOK ==
  /\ id \in [Conn -> PeerId]
  /\ task \in [Conn -> TaskState]
  /\ wire \in [Conn -> {"Open", "Closed"}]
  /\ told \in [Conn -> SUBSET Piece]
  /\ quiet \subseteq Conn
  /\ mailbox \in [Conn -> Seq(MailSet)]
  /\ DOMAIN peers \subseteq PeerId /\ \A i \in DOMAIN peers : peers[i] \in Conn
  /\ peer_bitfields \subseteq PeerId
  /\ have \subseteq Piece /\ finished \subseteq Piece
  /\ sending \in Seq([to : PeerId, msg : MailSet, reply : BOOLEAN])
  /\ channel \in Seq([from : Conn, msg : Ask])
  /\ events \in Nat

Queued(c, msg) == \E k \in DOMAIN channel : channel[k] = [from |-> c, msg |-> msg]

\* The mail that is under way to a registered connection.
Coming(c) ==
  { mailbox[c][k] : k \in DOMAIN mailbox[c] }
    \cup { sending[k].msg : k \in { j \in DOMAIN sending : sending[j].to = id[c] } }

\* The answer to WhatDoWeHave is still to be computed.
Asking(c) == Queued(c, "WhatDoWeHave") \/ \E mail \in Coming(c) : mail.type = "StartDownload"

\* Whatever pieces are finished while a connection joins, resumes or waits for
\* its bitfield: the remote of a registered connection was told of every stored
\* piece or will be, since the bitfield is a copy of what was there when the
\* manager handled WhatDoWeHave and later pieces are broadcast behind it.
NothingIsMissed ==
  \A c \in Conn :
    Registered(c) /\ HasMailbox(c) =>
      \/ have \subseteq told[c] \cup UNION { mail.pieces : mail \in Coming(c) }
      \/ Asking(c) \/ c \in quiet

\* No other connection was made under the id.
Alone(c) == \A d \in Conn : d # c /\ id[d] = id[c] => task[d] = "New"

\* A connection whose id is its own is in the map from the moment the manager
\* learnt of it until its task ends: neither the ends of other connections nor
\* failing sends take it off.
AloneIsRegistered ==
  \A c \in Conn :
    Alone(c) /\ task[c] = "Running" /\ ~Queued(c, "NewConnection") => Registered(c)

\* Once all connections of an id have ended and the manager has read what they
\* had to say, neither the map nor the piece selector knows the id any more: a
\* leftover would count as a holder of pieces that nobody can be asked for.
NothingIsLeftBehind ==
  \A i \in peer_bitfields \cup DOMAIN peers : \E c \in Conn :
    id[c] = i /\ (task[c] = "Running" \/ Queued(c, "PeerDisconnected"))

\* The selector keeps a bitfield for every connection that may be asked for
\* blocks, also after failed sends and ends of connections under the same id.
RegisteredIsKnown == DOMAIN peers \subseteq peer_bitfields

Fairness ==
  /\ WF_vars(Send) /\ WF_vars(ManagerTakes)
  /\ \A c \in Conn : WF_vars(ReadMail(c))

FairSpec == Spec /\ Fairness

\* The manager waits for room in a mailbox, and its owner, or its owner's Drop,
\* for room in the manager's channel.
CircularWait ==
  /\ sending # <<>>
  /\ \E c \in Conn :
       /\ Registered(c) /\ id[c] = Head(sending).to
       /\ HasMailbox(c) /\ Blocked(c) /\ Len(mailbox[c]) >= MailboxSize

\* Every stored piece is made known to the remote of every connection that
\* stays registered, unless the manager waits for a connection that waits for
\* it.
PiecesAreTold ==
  \A c \in Conn :
    Registered(c) ~>
      (have \subseteq told[c] \/ c \in quiet \/ ~Registered(c) \/ CircularWait)

\* Whoever ends is taken off the map, whatever other connections do.
EndedIsForgotten ==
  \A c \in Conn : Ended(c) ~> (~Registered(c) \/ CircularWait)

-----------------------------------------------------------------------------
(* What the repository says and the code does not keep: the model refutes  *)
(* each of these (README, section 4).                                       *)

\* Drop for Peer tells the manager "so he removes us" (peer/conn.rs:197): us,
\* and not the connection that took our place.
RemovesItself ==
  [][\A c \in Conn : PeerDisconnected(c) =>
       \A d \in Conn \ {c} : Registered(d) => Registered(d)']_vars

\* "nothing really happens here, we haven't received all the data yet": the
\* loop of a connection always has another message to wait for.
WaitsForSomething ==
  \A c \in Conn :
    Awake(c) /\ wire[c] = "Closed" =>
      Registered(c) \/ mailbox[c] # <<>> \/ Queued(c, "NewConnection")

\* "We create peer with our current have bitfield which he can send to new
\* connections" (peer_manager/mod.rs): also when the bitfield is full.
BitfieldIsSent == quiet = {}
=============================================================================
