------------------------- MODULE ConnectionsProofs -------------------------
(***************************************************************************)
(* What holds of the manager's map for any connections, peer ids, pieces   *)
(* and channel sizes.  The arguments rest on the order of the manager's    *)
(* channel: what a connection put in comes out in that order, so its       *)
(* NewConnection never comes after its PeerDisconnected.                   *)
(***************************************************************************)
EXTENDS Connections, FiniteSetTheorems, TLAPS

\* Only connections that were made have something in the channel.
SendersAreMade == \A k \in DOMAIN channel : task[channel[k].from] # "New"

\* A connection says that it is disconnected only when it has ended.
DisconnectedHaveEnded ==
  \A k \in DOMAIN channel : channel[k].msg = "PeerDisconnected" => Ended(channel[k].from)

\* The NewConnection of a connection that has ended is followed by its
\* PeerDisconnected.
EndFollowsStart ==
  \A k \in DOMAIN channel :
    channel[k].msg = "NewConnection" =>
      \/ task[channel[k].from] = "Running"
      \/ \E l \in DOMAIN channel :
           l > k /\ channel[l] = [from |-> channel[k].from, msg |-> "PeerDisconnected"]

ChannelInv == SendersAreMade /\ DisconnectedHaveEnded /\ EndFollowsStart

-----------------------------------------------------------------------------
(* The types. *)

Envelope == [from : Conn, msg : Ask]
Letter == [to : PeerId, msg : MailSet, reply : BOOLEAN]

LEMMA InitType == Init => TypeOK
  BY ConnectionsAssumption DEF Init, TypeOK, TaskState, MailSet, Ask

LEMMA TellsType ==
  ASSUME TypeOK, NEW c \in Conn, NEW msg \in Ask, Tells(c, msg)
  PROVE  channel' \in Seq(Envelope)
  BY DEF TypeOK, Tells, Envelope

LEMMA EndsType ==
  ASSUME TypeOK, NEW c \in Conn, NEW how \in {"Leaving", "Failing"}, Ends(c, how)
  PROVE  /\ id' = id /\ wire' = wire /\ told' = told /\ quiet' = quiet
         /\ task' \in [Conn -> TaskState]
         /\ channel' \in Seq(Envelope)
  <1>1. channel' \in Seq(Envelope)
    BY TellsType DEF Ends, Ask
  <1> QED BY <1>1 DEF TypeOK, Ends, TaskState

\* What a turn of a connection leaves of the types.
TurnType ==
  /\ id' = id /\ wire' = wire
  /\ task' \in [Conn -> TaskState]
  /\ told' \in [Conn -> SUBSET Piece]
  /\ quiet' \subseteq Conn
  /\ channel' \in Seq(Envelope)

LEMMA TellsRemoteType ==
  ASSUME TypeOK, NEW c \in Conn, NEW pieces \in SUBSET Piece, TellsRemote(c, pieces)
  PROVE  TurnType
  <1>1. CASE WriteFails(c)
    BY <1>1, EndsType DEF WriteFails, TurnType, TypeOK, Envelope
  <1>2. CASE /\ told' = [told EXCEPT ![c] = @ \cup pieces]
             /\ UNCHANGED <<id, task, wire, quiet, channel>>
    BY <1>2 DEF TurnType, TypeOK, Envelope
  <1> QED BY <1>1, <1>2 DEF TellsRemote

LEMMA HandleMailType ==
  ASSUME TypeOK, NEW c \in Conn, NEW mail \in MailSet, HandleMail(c, mail)
  PROVE  TurnType
  <1> /\ mail.pieces \in SUBSET Piece
      /\ mail.type \in {"StartDownload", "WeHave", "FinishedPiece", "FinishedFile", "Other"}
    BY DEF MailSet
  <1>1. CASE mail.type = "StartDownload"
    <2>1. Tells(c, "WhatDoWeHave") /\ UNCHANGED connVars
      BY <1>1 DEF HandleMail
    <2> QED BY <2>1, TellsType DEF TurnType, TypeOK, connVars, Ask
  <1>2. CASE mail.type = "WeHave"
    <2>1. WeHave(c, mail.pieces)
      BY <1>2 DEF HandleMail
    <2>2. CASE mail.pieces = Piece
      <3>1. CASE WriteFails(c)
        BY <3>1, EndsType DEF WriteFails, TurnType, TypeOK, Envelope
      <3>2. CASE quiet' = quiet \cup {c} /\ UNCHANGED <<id, task, wire, told, channel>>
        BY <3>2 DEF TurnType, TypeOK, Envelope
      <3> QED BY <2>1, <2>2, <3>1, <3>2 DEF WeHave, KeepsQuiet
    <2>3. CASE mail.pieces # Piece
      BY <2>1, <2>3, TellsRemoteType DEF WeHave
    <2> QED BY <2>2, <2>3
  <1>3. CASE mail.type = "FinishedPiece"
    BY <1>3, TellsRemoteType DEF HandleMail
  <1>4. CASE mail.type \in {"FinishedFile", "Other"}
    <2>1. Ends(c, "Leaving") \/ Ends(c, "Failing") \/ UNCHANGED <<connVars, channel>>
      BY <1>4 DEF HandleMail, WriteFails
    <2> QED BY <2>1, EndsType DEF TurnType, TypeOK, connVars, Envelope
  <1> QED BY <1>1, <1>2, <1>3, <1>4

LEMMA ReplyType ==
  ASSUME NEW i \in PeerId, NEW mail \in MailSet
  PROVE  Reply(i, mail) \in Seq(Letter)
  BY DEF Reply, Letter

LEMMA BroadcastType ==
  ASSUME NEW ids \in SUBSET PeerId, NEW order \in Orders(ids), NEW mail \in MailSet
  PROVE  /\ Broadcast(order, mail) \in Seq(Letter)
         /\ Len(Broadcast(order, mail)) = Cardinality(ids)
         /\ Cardinality(ids) \in Nat
  <1>1. Cardinality(ids) \in Nat
    BY ConnectionsAssumption, FS_Subset, FS_CardinalityType
  <1>2. order \in [1..Cardinality(ids) -> ids]
    BY DEF Orders
  <1> DEFINE n == Cardinality(ids)
             b == [k \in 1..n |-> [to |-> order[k], msg |-> mail, reply |-> FALSE]]
  <1>3. b \in [1..n -> Letter]
    BY <1>2 DEF Letter
  <1>4. Broadcast(order, mail) = b
    BY <1>2 DEF Broadcast
  <1> HIDE DEF b, n
  <1> QED BY <1>1, <1>3, <1>4 DEF n

LEMMA FinishesPieceType ==
  ASSUME TypeOK, NEW c \in Conn, NEW i \in Piece, FinishesPiece(c, i)
  PROVE  sending' \in Seq(Letter)
  <1>1. PICK order \in Orders(DOMAIN peers) :
          sending' = (IF have' = Piece THEN Broadcast(order, Mail("FinishedFile", {})) ELSE <<>>)
                       \o Broadcast(order, Mail("FinishedPiece", {i}))
    BY DEF FinishesPiece
  <1>2. Mail("FinishedFile", {}) \in MailSet /\ Mail("FinishedPiece", {i}) \in MailSet
    BY DEF Mail, MailSet
  <1>3. DOMAIN peers \in SUBSET PeerId
    BY DEF TypeOK
  <1>4. /\ Broadcast(order, Mail("FinishedFile", {})) \in Seq(Letter)
        /\ Broadcast(order, Mail("FinishedPiece", {i})) \in Seq(Letter)
    BY <1>2, <1>3, BroadcastType
  <1>5. <<>> \in Seq(Letter)
    OBVIOUS
  <1> QED BY <1>1, <1>4, <1>5

LEMMA ClientOrdersType ==
  ASSUME TypeOK, NEW mail \in MailSet, ClientOrders(mail)
  PROVE  sending' \in Seq(Letter)
  <1>1. PICK order \in Orders(DOMAIN peers) : sending' = Broadcast(order, mail)
    BY DEF ClientOrders
  <1>2. DOMAIN peers \in SUBSET PeerId
    BY DEF TypeOK
  <1> QED BY <1>1, <1>2, BroadcastType

LEMMA ReadMailType ==
  ASSUME TypeOK, NEW c \in Conn, ReadMail(c)
  PROVE  TypeOK'
  <1>1. Head(mailbox[c]) \in MailSet /\ Tail(mailbox[c]) \in Seq(MailSet)
    BY DEF ReadMail, TypeOK
  <1>2. TurnType
    BY <1>1, HandleMailType DEF ReadMail
  <1>3. mailbox' \in [Conn -> Seq(MailSet)]
    BY <1>1 DEF ReadMail, TypeOK
  <1> QED BY <1>2, <1>3 DEF TurnType, ReadMail, TypeOK, Envelope, mapVars

LEMMA SendType ==
  ASSUME TypeOK, Send
  PROVE  TypeOK'
  <1> DEFINE s == Head(sending)
  <1>0. sending \in Seq(Letter) /\ sending # <<>> /\ sending' = Tail(sending)
    BY DEF Send, TypeOK, Letter
  <1>1. s \in Letter /\ sending' \in Seq(Letter)
    BY <1>0
  <1>2. CASE /\ Reachable(s.to)
             /\ mailbox' = [mailbox EXCEPT ![peers[s.to]] = Append(@, s.msg)]
             /\ UNCHANGED peers
    <2>1. peers[s.to] \in Conn /\ s.msg \in MailSet
      BY <1>1, <1>2 DEF Reachable, TypeOK, Letter
    <2>2. mailbox' \in [Conn -> Seq(MailSet)]
      BY <1>2, <2>1 DEF TypeOK
    <2> QED BY <1>1, <1>2, <2>2 DEF Send, TypeOK, connVars, Letter
  <1>3. CASE /\ peers' = IF s.reply THEN Without(peers, s.to) ELSE peers
             /\ UNCHANGED mailbox
    <2>1. DOMAIN peers' \subseteq PeerId /\ \A i \in DOMAIN peers' : peers'[i] \in Conn
      BY <1>3 DEF TypeOK, Without
    <2> QED BY <1>1, <1>3, <2>1 DEF Send, TypeOK, connVars, Letter
  <1> QED BY <1>2, <1>3 DEF Send

\* The messages that the manager's loop takes.
LEMMA TakesType ==
  ASSUME TypeOK, NEW c \in Conn, NEW msg \in Ask, Takes(c, msg)
  PROVE  channel' \in Seq(Envelope)
  BY DEF TypeOK, Takes, Envelope

LEMMA ManagerTakesType ==
  ASSUME TypeOK, NEW c \in Conn,
         \/ NewConnection(c) \/ PeerDisconnected(c) \/ WhatDoWeHave(c)
         \/ NeedBlocks(c) \/ GotBlock(c) \/ \E i \in Piece : FinishesPiece(c, i)
  PROVE  TypeOK'
  <1> id[c] \in PeerId
    BY DEF TypeOK
  <1>1. CASE NewConnection(c)
    <2>1. Start \in MailSet
      BY DEF Start, Mail, MailSet
    <2>2. sending' \in Seq(Letter)
      BY <1>1, <2>1, ReplyType DEF NewConnection
    <2>3. channel' \in Seq(Envelope)
      BY <1>1, TakesType DEF NewConnection, Ask
    <2>4. DOMAIN peers' \subseteq PeerId /\ \A i \in DOMAIN peers' : peers'[i] \in Conn
      BY <1>1 DEF NewConnection, NewEntry, TypeOK
    <2> QED BY <1>1, <2>2, <2>3, <2>4 DEF NewConnection, Takes, TypeOK, connVars, Letter, Envelope
  <1>2. CASE PeerDisconnected(c)
    <2>1. channel' \in Seq(Envelope)
      BY <1>2, TakesType DEF PeerDisconnected, Ask
    <2> QED BY <1>2, <2>1 DEF PeerDisconnected, Takes, Without, TypeOK, connVars, Envelope
  <1>3. CASE WhatDoWeHave(c)
    <2>1. Mail("WeHave", have) \in MailSet
      BY DEF Mail, MailSet, TypeOK
    <2>2. sending' \in Seq(Letter)
      BY <1>3, <2>1, ReplyType DEF WhatDoWeHave
    <2>3. channel' \in Seq(Envelope)
      BY <1>3, TakesType DEF WhatDoWeHave, Ask
    <2> QED BY <1>3, <2>2, <2>3 DEF WhatDoWeHave, Takes, TypeOK, connVars, mapVars, Letter, Envelope
  <1>4. CASE NeedBlocks(c)
    <2>1. Mail("Other", {}) \in MailSet
      BY DEF Mail, MailSet
    <2>2. Reply(id[c], Mail("Other", {})) \in Seq(Letter) /\ <<>> \in Seq(Letter)
      BY <2>1, ReplyType
    <2>4. sending' \in Seq(Letter)
      BY <1>4, <2>2 DEF NeedBlocks
    <2>3. channel' \in Seq(Envelope)
      BY <1>4, TakesType DEF NeedBlocks, Ask
    <2> QED BY <1>4, <2>4, <2>3 DEF NeedBlocks, Takes, TypeOK, connVars, mapVars, Letter, Envelope
  <1>5. CASE GotBlock(c)
    <2>1. channel' \in Seq(Envelope)
      BY <1>5, TakesType DEF GotBlock, Ask
    <2> QED BY <1>5, <2>1 DEF GotBlock, Takes, TypeOK, connVars, mapVars, Envelope
  <1>6. CASE \E i \in Piece : FinishesPiece(c, i)
    <2>1. PICK i \in Piece : FinishesPiece(c, i)
      BY <1>6
    <2>2. sending' \in Seq(Letter)
      BY <2>1, FinishesPieceType
    <2>3. channel' \in Seq(Envelope)
      BY <2>1, TakesType DEF FinishesPiece, Ask
    <2> QED BY <2>1, <2>2, <2>3 DEF FinishesPiece, Takes, TypeOK, connVars, mapVars, Letter, Envelope
  <1> QED BY <1>1, <1>2, <1>3, <1>4, <1>5, <1>6

LEMMA NextType == TypeOK /\ [Next]_vars => TypeOK'
  <1> SUFFICES ASSUME TypeOK, [Next]_vars PROVE TypeOK'
    OBVIOUS
  <1>1. ASSUME NEW c \in Conn, Connect(c) PROVE TypeOK'
    <2>1. channel' \in Seq(Envelope)
      BY <1>1, TellsType DEF Connect, Ask
    <2> QED BY <1>1, <2>1 DEF Connect, TypeOK, TaskState, mapVars, Envelope
  <1>2. ASSUME NEW c \in Conn, WireFails(c) PROVE TypeOK'
    BY <1>2, EndsType DEF WireFails, TypeOK, mapVars, Envelope
  <1>3. ASSUME NEW c \in Conn, RemoteCloses(c) PROVE TypeOK'
    BY <1>3 DEF RemoteCloses, TypeOK, mapVars
  <1>4. ASSUME NEW c \in Conn, ReadMail(c) PROVE TypeOK'
    BY <1>4, ReadMailType
  <1>5. ASSUME NEW c \in Conn, NEW msg \in {"NeedBlocks", "GotBlock"}, WireMessage(c, msg)
        PROVE  TypeOK'
    <2>1. channel' \in Seq(Envelope)
      BY <1>5, TellsType DEF WireMessage, Ask
    <2> QED BY <1>5, <2>1 DEF WireMessage, MaySend, TypeOK, connVars, mapVars, Envelope
  <1>6. CASE Send
    BY <1>6, SendType
  <1>7. CASE ManagerTakes
    BY <1>7, ManagerTakesType DEF ManagerTakes
  <1>8. ASSUME NEW mail \in {Start, Mail("Other", {})}, ClientOrders(mail) PROVE TypeOK'
    <2>1. mail \in MailSet
      BY <1>8 DEF Start, Mail, MailSet
    <2>2. sending' \in Seq(Letter)
      BY <1>8, <2>1, ClientOrdersType
    <2> QED BY <1>8, <2>2 DEF ClientOrders, MaySend, TypeOK, connVars, mapVars, Letter
  <1>9. CASE UNCHANGED vars
    BY <1>9 DEF vars, connVars, mapVars, TypeOK
  <1> QED BY <1>1, <1>2, <1>3, <1>4, <1>5, <1>6, <1>7, <1>8, <1>9 DEF Next

\* The state has its type (Connections, every action).
THEOREM TypeCorrect == Spec => []TypeOK
  <1> QED BY InitType, NextType, PTL DEF Spec

-----------------------------------------------------------------------------
(* The order of the manager's channel. *)

\* What a step may do to the channel and to the tasks.
Joins(c) ==
  task[c] = "New" /\ task' = [task EXCEPT ![c] = "Running"] /\ Tells(c, "NewConnection")

Asks(c) ==
  /\ task[c] = "Running" /\ UNCHANGED task
  /\ \E msg \in {"WhatDoWeHave", "NeedBlocks", "GotBlock"} : Tells(c, msg)

Quits(c) == Awake(c) /\ \E how \in {"Leaving", "Failing"} : Ends(c, how)

ManagerReads(c) ==
  /\ UNCHANGED task
  /\ \E msg \in Ask : Takes(c, msg)

ChannelStep ==
  \/ \E c \in Conn : Joins(c) \/ Asks(c) \/ Quits(c) \/ ManagerReads(c)
  \/ UNCHANGED <<task, channel>>

LEMMA ReadMailChannel ==
  ASSUME NEW c \in Conn, ReadMail(c)
  PROVE  Asks(c) \/ Quits(c) \/ UNCHANGED <<task, channel>>
  <1>1. Awake(c) /\ HandleMail(c, Head(mailbox[c]))
    BY DEF ReadMail
  <1> DEFINE mail == Head(mailbox[c])
  <1> HIDE DEF mail
  <1>2. \/ Tells(c, "WhatDoWeHave") /\ UNCHANGED connVars
        \/ \E how \in {"Leaving", "Failing"} : Ends(c, how)
        \/ UNCHANGED <<task, channel>>
    BY <1>1 DEF HandleMail, WeHave, KeepsQuiet, TellsRemote, WriteFails, connVars, mail
  <1> QED BY <1>1, <1>2 DEF Asks, Quits, Awake, connVars

LEMMA ManagerChannel ==
  ASSUME NEW c \in Conn,
         \/ NewConnection(c) \/ PeerDisconnected(c) \/ WhatDoWeHave(c)
         \/ NeedBlocks(c) \/ GotBlock(c) \/ \E i \in Piece : FinishesPiece(c, i)
  PROVE  ManagerReads(c)
  <1>1. \E msg \in Ask : Takes(c, msg)
    BY DEF NewConnection, PeerDisconnected, WhatDoWeHave, NeedBlocks, GotBlock, FinishesPiece, Ask
  <1> QED BY <1>1 DEF ManagerReads, Takes, connVars

LEMMA NextChannel == [Next]_vars => ChannelStep
  <1> SUFFICES ASSUME [Next]_vars PROVE ChannelStep
    OBVIOUS
  <1>1. ASSUME NEW c \in Conn, Connect(c) PROVE ChannelStep
    BY <1>1 DEF Connect, ChannelStep, Joins
  <1>2. ASSUME NEW c \in Conn, WireFails(c) PROVE ChannelStep
    BY <1>2 DEF WireFails, ChannelStep, Quits
  <1>3. ASSUME NEW c \in Conn, RemoteCloses(c) PROVE ChannelStep
    BY <1>3 DEF RemoteCloses, ChannelStep
  <1>4. ASSUME NEW c \in Conn, ReadMail(c) PROVE ChannelStep
    BY <1>4, ReadMailChannel DEF ChannelStep
  <1>5. ASSUME NEW c \in Conn, NEW msg \in {"NeedBlocks", "GotBlock"}, WireMessage(c, msg)
        PROVE  ChannelStep
    BY <1>5 DEF WireMessage, ChannelStep, Asks, Awake, connVars
  <1>6. CASE Send
    BY <1>6 DEF Send, ChannelStep, connVars
  <1>7. CASE ManagerTakes
    BY <1>7, ManagerChannel DEF ManagerTakes, ChannelStep
  <1>8. ASSUME NEW mail \in {Start, Mail("Other", {})}, ClientOrders(mail) PROVE ChannelStep
    BY <1>8 DEF ClientOrders, ChannelStep, connVars
  <1>9. CASE UNCHANGED vars
    BY <1>9 DEF vars, connVars, ChannelStep
  <1> QED BY <1>1, <1>2, <1>3, <1>4, <1>5, <1>6, <1>7, <1>8, <1>9 DEF Next

LEMMA TellsChannel ==
  ASSUME TypeOK, NEW c \in Conn, NEW msg \in Ask, Tells(c, msg)
  PROVE  /\ DOMAIN channel' = 1..(Len(channel) + 1)
         /\ DOMAIN channel = 1..Len(channel) /\ Len(channel) \in Nat
         /\ \A k \in DOMAIN channel : channel'[k] = channel[k] /\ channel[k] \in Envelope
         /\ channel'[Len(channel) + 1] = [from |-> c, msg |-> msg]
  <1>1. channel \in Seq(Envelope)
    BY DEF TypeOK, Envelope
  <1>2. channel' = Append(channel, [from |-> c, msg |-> msg])
    BY DEF Tells
  <1> QED BY <1>1, <1>2

LEMMA TakesChannel ==
  ASSUME TypeOK, NEW c \in Conn, NEW msg \in Ask, Takes(c, msg)
  PROVE  /\ DOMAIN channel' = 1..(Len(channel) - 1)
         /\ DOMAIN channel = 1..Len(channel) /\ Len(channel) \in Nat \ {0}
         /\ \A k \in DOMAIN channel' : channel'[k] = channel[k + 1] /\ channel[k + 1] \in Envelope
         /\ channel[1] = [from |-> c, msg |-> msg]
  <1>1. channel \in Seq(Envelope)
    BY DEF TypeOK, Envelope
  <1>2. channel # <<>> /\ Head(channel) = [from |-> c, msg |-> msg] /\ channel' = Tail(channel)
    BY DEF Takes
  <1> QED BY <1>1, <1>2

LEMMA TakesHead ==
  ASSUME TypeOK, NEW c \in Conn, NEW msg \in Ask, Takes(c, msg)
  PROVE  1 \in DOMAIN channel /\ channel[1] = [from |-> c, msg |-> msg]
  <1> DEFINE n == Len(channel)
  <1>1. /\ DOMAIN channel = 1..n /\ n \in Nat \ {0}
        /\ channel[1] = [from |-> c, msg |-> msg]
    BY TakesChannel
  <1> HIDE DEF n
  <1> QED BY <1>1

LEMMA InitChannel == Init => ChannelInv
  BY DEF Init, ChannelInv, SendersAreMade, DisconnectedHaveEnded, EndFollowsStart

LEMMA ChannelOrder == TypeOK /\ ChannelInv /\ [Next]_vars => ChannelInv'
  <1> SUFFICES ASSUME TypeOK, ChannelInv, ChannelStep PROVE ChannelInv'
    BY NextChannel
  <1>1. ASSUME NEW c \in Conn, Joins(c) PROVE ChannelInv'
    <2>1. \A d \in Conn : task'[d] = IF d = c THEN "Running" ELSE task[d]
      BY <1>1 DEF Joins, TypeOK
    <2>2. task[c] = "New"
      BY <1>1 DEF Joins
    <2> DEFINE n == Len(channel)
    <2>3. /\ DOMAIN channel' = 1..(n + 1) /\ DOMAIN channel = 1..n /\ n \in Nat
          /\ \A k \in DOMAIN channel : channel'[k] = channel[k] /\ channel[k] \in Envelope
          /\ channel'[n + 1] = [from |-> c, msg |-> "NewConnection"]
      BY <1>1, TellsChannel DEF Joins, Ask
    <2> HIDE DEF n
    <2>4. SendersAreMade'
      BY <2>1, <2>3 DEF SendersAreMade, ChannelInv, Envelope
    <2>5. DisconnectedHaveEnded'
      BY <2>1, <2>2, <2>3 DEF DisconnectedHaveEnded, ChannelInv, SendersAreMade, Ended, Envelope
    <2>6. EndFollowsStart'
      BY <2>1, <2>3 DEF EndFollowsStart, ChannelInv, Envelope
    <2> QED BY <2>4, <2>5, <2>6 DEF ChannelInv
  <1>2. ASSUME NEW c \in Conn, Asks(c) PROVE ChannelInv'
    <2>1. PICK msg \in {"WhatDoWeHave", "NeedBlocks", "GotBlock"} : Tells(c, msg)
      BY <1>2 DEF Asks
    <2>2. task[c] = "Running" /\ task' = task
      BY <1>2 DEF Asks
    <2> DEFINE n == Len(channel)
    <2>3. /\ DOMAIN channel' = 1..(n + 1) /\ DOMAIN channel = 1..n /\ n \in Nat
          /\ \A k \in DOMAIN channel : channel'[k] = channel[k] /\ channel[k] \in Envelope
          /\ channel'[n + 1] = [from |-> c, msg |-> msg]
      BY <2>1, TellsChannel DEF Ask
    <2> HIDE DEF n
    <2>4. SendersAreMade'
      BY <2>2, <2>3 DEF SendersAreMade, ChannelInv
    <2>5. DisconnectedHaveEnded'
      BY <2>2, <2>3 DEF DisconnectedHaveEnded, ChannelInv, Ended
    <2>6. EndFollowsStart'
      BY <2>2, <2>3 DEF EndFollowsStart, ChannelInv
    <2> QED BY <2>4, <2>5, <2>6 DEF ChannelInv
  <1>3. ASSUME NEW c \in Conn, Quits(c) PROVE ChannelInv'
    <2>1. PICK how \in {"Leaving", "Failing"} : Ends(c, how)
      BY <1>3 DEF Quits
    <2>2. \A d \in Conn : task'[d] = IF d = c THEN how ELSE task[d]
      BY <2>1 DEF Ends, TypeOK
    <2> DEFINE n == Len(channel)
    <2>3. /\ DOMAIN channel' = 1..(n + 1) /\ DOMAIN channel = 1..n /\ n \in Nat
          /\ \A k \in DOMAIN channel : channel'[k] = channel[k] /\ channel[k] \in Envelope
          /\ channel'[n + 1] = [from |-> c, msg |-> "PeerDisconnected"]
      BY <2>1, TellsChannel DEF Ends, Ask
    <2> HIDE DEF n
    <2>4. SendersAreMade'
      BY <2>2, <2>3 DEF SendersAreMade, ChannelInv, Envelope
    <2>5. DisconnectedHaveEnded'
      BY <2>2, <2>3 DEF DisconnectedHaveEnded, ChannelInv, Ended, Envelope
    <2>6. EndFollowsStart'
      BY <2>2, <2>3 DEF EndFollowsStart, ChannelInv, Envelope
    <2> QED BY <2>4, <2>5, <2>6 DEF ChannelInv
  <1>4. ASSUME NEW c \in Conn, ManagerReads(c) PROVE ChannelInv'
    <2>1. PICK msg \in Ask : Takes(c, msg)
      BY <1>4 DEF ManagerReads
    <2>2. task' = task
      BY <1>4 DEF ManagerReads
    <2> DEFINE n == Len(channel)
    <2>3. /\ DOMAIN channel' = 1..(n - 1) /\ DOMAIN channel = 1..n /\ n \in Nat \ {0}
          /\ \A k \in DOMAIN channel' : channel'[k] = channel[k + 1]
      BY <2>1, TakesChannel
    <2> HIDE DEF n
    <2>4. SendersAreMade'
      BY <2>2, <2>3 DEF SendersAreMade, ChannelInv
    <2>5. DisconnectedHaveEnded'
      BY <2>2, <2>3 DEF DisconnectedHaveEnded, ChannelInv, Ended
    <2>6. EndFollowsStart'
      <3> SUFFICES ASSUME NEW k \in DOMAIN channel', channel'[k].msg = "NewConnection",
                          task[channel'[k].from] # "Running"
                   PROVE  \E l \in DOMAIN channel' :
                            l > k /\ channel'[l] = [from |-> channel'[k].from, msg |-> "PeerDisconnected"]
        BY <2>2 DEF EndFollowsStart
      <3>1. PICK l \in DOMAIN channel :
              l > k + 1 /\ channel[l] = [from |-> channel[k + 1].from, msg |-> "PeerDisconnected"]
        BY <2>3 DEF EndFollowsStart, ChannelInv
      <3>2. l - 1 \in DOMAIN channel' /\ l - 1 > k /\ channel'[l - 1] = channel[l]
        BY <2>3, <3>1
      <3> QED BY <2>3, <3>1, <3>2
    <2> QED BY <2>4, <2>5, <2>6 DEF ChannelInv
  <1>5. CASE UNCHANGED <<task, channel>>
    BY <1>5 DEF ChannelInv, SendersAreMade, DisconnectedHaveEnded, EndFollowsStart, Ended
  <1> QED BY <1>1, <1>2, <1>3, <1>4, <1>5 DEF ChannelStep

-----------------------------------------------------------------------------
(* The manager's map. *)

OtherReads(c) ==
  /\ UNCHANGED task
  /\ \E msg \in {"WhatDoWeHave", "NeedBlocks", "GotBlock"} : Takes(c, msg)

\* A step that leaves the map as it is.
OtherStep ==
  /\ UNCHANGED mapVars
  /\ \/ \E c \in Conn : Joins(c) \/ Asks(c) \/ Quits(c) \/ OtherReads(c)
     \/ UNCHANGED <<task, channel>>

MapStep ==
  \/ \E c \in Conn : NewConnection(c) \/ PeerDisconnected(c)
  \/ Send
  \/ OtherStep

LEMMA OtherReadsStep ==
  ASSUME NEW c \in Conn,
         WhatDoWeHave(c) \/ NeedBlocks(c) \/ GotBlock(c) \/ \E i \in Piece : FinishesPiece(c, i)
  PROVE  OtherReads(c) /\ id' = id /\ UNCHANGED mapVars
  <1>1. /\ \E msg \in {"WhatDoWeHave", "NeedBlocks", "GotBlock"} : Takes(c, msg)
        /\ UNCHANGED mapVars
    BY DEF WhatDoWeHave, NeedBlocks, GotBlock, FinishesPiece
  <1> QED BY <1>1 DEF OtherReads, Takes, connVars

LEMMA ReadMailId ==
  ASSUME NEW c \in Conn, ReadMail(c)
  PROVE  id' = id
  <1> DEFINE mail == Head(mailbox[c])
  <1>1. HandleMail(c, mail)
    BY DEF ReadMail
  <1> HIDE DEF mail
  <1> QED BY <1>1 DEF HandleMail, WeHave, KeepsQuiet, TellsRemote, WriteFails, Ends, connVars

LEMMA NextMap == [Next]_vars => id' = id /\ MapStep
  <1> SUFFICES ASSUME [Next]_vars PROVE id' = id /\ MapStep
    OBVIOUS
  <1>1. ASSUME NEW c \in Conn, Connect(c) PROVE id' = id /\ MapStep
    BY <1>1 DEF Connect, MapStep, OtherStep, Joins
  <1>2. ASSUME NEW c \in Conn, WireFails(c) PROVE id' = id /\ MapStep
    BY <1>2 DEF WireFails, MapStep, OtherStep, Quits, Ends
  <1>3. ASSUME NEW c \in Conn, RemoteCloses(c) PROVE id' = id /\ MapStep
    BY <1>3 DEF RemoteCloses, MapStep, OtherStep
  <1>4. ASSUME NEW c \in Conn, ReadMail(c) PROVE id' = id /\ MapStep
    <2>1. UNCHANGED mapVars
      BY <1>4 DEF ReadMail
    <2> QED BY <1>4, <2>1, ReadMailChannel, ReadMailId DEF MapStep, OtherStep
  <1>5. ASSUME NEW c \in Conn, NEW msg \in {"NeedBlocks", "GotBlock"}, WireMessage(c, msg)
        PROVE  id' = id /\ MapStep
    BY <1>5 DEF WireMessage, MapStep, OtherStep, Asks, Awake, connVars
  <1>6. CASE Send
    BY <1>6 DEF Send, MapStep, connVars
  <1>7. CASE ManagerTakes
    <2>1. PICK c \in Conn :
            \/ NewConnection(c) \/ PeerDisconnected(c) \/ WhatDoWeHave(c)
            \/ NeedBlocks(c) \/ GotBlock(c) \/ \E i \in Piece : FinishesPiece(c, i)
      BY <1>7 DEF ManagerTakes
    <2>2. CASE NewConnection(c) \/ PeerDisconnected(c)
      BY <2>2 DEF NewConnection, PeerDisconnected, Takes, connVars, MapStep
    <2>3. CASE WhatDoWeHave(c) \/ NeedBlocks(c) \/ GotBlock(c) \/ \E i \in Piece : FinishesPiece(c, i)
      BY <2>3, OtherReadsStep DEF MapStep, OtherStep
    <2> QED BY <2>1, <2>2, <2>3
  <1>8. ASSUME NEW mail \in {Start, Mail("Other", {})}, ClientOrders(mail)
        PROVE  id' = id /\ MapStep
    BY <1>8 DEF ClientOrders, MapStep, OtherStep, connVars
  <1>9. CASE UNCHANGED vars
    BY <1>9 DEF vars, connVars, mapVars, MapStep, OtherStep
  <1> QED BY <1>1, <1>2, <1>3, <1>4, <1>5, <1>6, <1>7, <1>8, <1>9 DEF Next

LEMMA QueuedAfterTells ==
  ASSUME TypeOK, NEW c \in Conn, NEW msg \in Ask, Tells(c, msg), NEW d \in Conn, NEW m \in Ask
  PROVE  /\ Queued(d, m) => Queued(d, m)'
         /\ Queued(d, m)' => Queued(d, m) \/ (d = c /\ m = msg)
         /\ Queued(c, msg)'
  <1> DEFINE n == Len(channel)
  <1>1. /\ DOMAIN channel' = 1..(n + 1) /\ DOMAIN channel = 1..n /\ n \in Nat
        /\ \A k \in DOMAIN channel : channel'[k] = channel[k]
        /\ channel'[n + 1] = [from |-> c, msg |-> msg]
    BY TellsChannel
  <1> HIDE DEF n
  <1> QED BY <1>1 DEF Queued

LEMMA QueuedAfterTakes ==
  ASSUME TypeOK, NEW c \in Conn, NEW msg \in Ask, Takes(c, msg), NEW d \in Conn, NEW m \in Ask
  PROVE  /\ Queued(d, m)' => Queued(d, m)
         /\ Queued(d, m) => Queued(d, m)' \/ (d = c /\ m = msg)
         /\ Queued(c, msg)
  <1> DEFINE n == Len(channel)
  <1>1. /\ DOMAIN channel' = 1..(n - 1) /\ DOMAIN channel = 1..n /\ n \in Nat \ {0}
        /\ \A k \in DOMAIN channel' : channel'[k] = channel[k + 1]
        /\ channel[1] = [from |-> c, msg |-> msg]
    BY TakesChannel
  <1> HIDE DEF n
  <1>2. Queued(d, m)' => Queued(d, m)
    BY <1>1 DEF Queued
  <1>3. ASSUME Queued(d, m), ~(d = c /\ m = msg) PROVE Queued(d, m)'
    <2>1. PICK k \in DOMAIN channel : channel[k] = [from |-> d, msg |-> m]
      BY <1>3 DEF Queued
    <2>2. k # 1
      BY <1>1, <1>3, <2>1
    <2>3. k - 1 \in DOMAIN channel' /\ channel'[k - 1] = channel[k]
      BY <1>1, <2>2
    <2> QED BY <2>1, <2>3 DEF Queued
  <1> QED BY <1>1, <1>2, <1>3 DEF Queued

\* What is left of an id when nobody is connected under it.
HasUser(i) == \E c \in Conn : id[c] = i /\ (task[c] = "Running" \/ Queued(c, "PeerDisconnected"))

LEMMA OtherStepUsers ==
  ASSUME TypeOK, OtherStep, id' = id, NEW i \in PeerId, HasUser(i)
  PROVE  HasUser(i)'
  <1>1. PICK u \in Conn : id[u] = i /\ (task[u] = "Running" \/ Queued(u, "PeerDisconnected"))
    BY DEF HasUser
  <1>2. ASSUME NEW c \in Conn, Joins(c) PROVE HasUser(i)'
    <2>1. Tells(c, "NewConnection") /\ task' = [task EXCEPT ![c] = "Running"]
      BY <1>2 DEF Joins
    <2>2. Queued(u, "PeerDisconnected") => Queued(u, "PeerDisconnected")'
      BY <2>1, QueuedAfterTells DEF Ask
    <2> QED BY <1>1, <2>1, <2>2 DEF HasUser, TypeOK
  <1>3. ASSUME NEW c \in Conn, Asks(c) PROVE HasUser(i)'
    <2>1. Queued(u, "PeerDisconnected") => Queued(u, "PeerDisconnected")'
      BY <1>3, QueuedAfterTells DEF Asks, Ask
    <2> QED BY <1>1, <1>3, <2>1 DEF HasUser, Asks
  <1>4. ASSUME NEW c \in Conn, Quits(c) PROVE HasUser(i)'
    <2>1. PICK how \in {"Leaving", "Failing"} : Ends(c, how)
      BY <1>4 DEF Quits
    <2>2. Tells(c, "PeerDisconnected") /\ task' = [task EXCEPT ![c] = how]
      BY <2>1 DEF Ends
    <2>3. Queued(u, "PeerDisconnected") \/ u = c => Queued(u, "PeerDisconnected")'
      BY <2>2, QueuedAfterTells DEF Ask
    <2> QED BY <1>1, <2>2, <2>3 DEF HasUser, TypeOK
  <1>5. ASSUME NEW c \in Conn, OtherReads(c) PROVE HasUser(i)'
    <2>1. Queued(u, "PeerDisconnected") => Queued(u, "PeerDisconnected")'
      BY <1>5, QueuedAfterTakes DEF OtherReads, Ask
    <2> QED BY <1>1, <1>5, <2>1 DEF HasUser, OtherReads
  <1>6. CASE UNCHANGED <<task, channel>>
    BY <1>1, <1>6 DEF HasUser, Queued
  <1> QED BY <1>2, <1>3, <1>4, <1>5, <1>6 DEF OtherStep

MapInv == NothingIsLeftBehind /\ RegisteredIsKnown

LEMMA InitMap == Init => MapInv /\ AloneIsRegistered
  BY DEF Init, MapInv, NothingIsLeftBehind, RegisteredIsKnown, AloneIsRegistered

LEMMA MapStays ==
  TypeOK /\ ChannelInv /\ MapInv /\ [Next]_vars => MapInv'
  <1> SUFFICES ASSUME TypeOK, ChannelInv, MapInv, MapStep, id' = id PROVE MapInv'
    BY NextMap
  <1>0. NothingIsLeftBehind <=> \A i \in peer_bitfields \cup DOMAIN peers : HasUser(i)
    BY DEF NothingIsLeftBehind, HasUser
  <1>1. peer_bitfields \cup DOMAIN peers \subseteq PeerId
    BY DEF TypeOK
  <1>2. ASSUME NEW c \in Conn, NewConnection(c) PROVE MapInv'
    <2>1. Takes(c, "NewConnection") /\ task' = task
      BY <1>2 DEF NewConnection, Takes, connVars
    <2>2. /\ DOMAIN peers' = DOMAIN peers \cup {id[c]}
          /\ peer_bitfields' = peer_bitfields \cup {id[c]}
      BY <1>2 DEF NewConnection, NewEntry
    <2>3. \A i \in PeerId : HasUser(i) => HasUser(i)'
      BY <2>1, QueuedAfterTakes DEF HasUser, Ask
    <2>4. task[c] = "Running" \/ Queued(c, "PeerDisconnected")'
      <3>1. /\ DOMAIN channel' = 1..(Len(channel) - 1)
            /\ DOMAIN channel = 1..Len(channel) /\ Len(channel) \in Nat \ {0}
            /\ \A k \in DOMAIN channel' : channel'[k] = channel[k + 1]
            /\ channel[1] = [from |-> c, msg |-> "NewConnection"]
        BY <2>1, TakesChannel DEF Ask
      <3>2. CASE task[c] # "Running"
        <4>1. PICK l \in DOMAIN channel :
                l > 1 /\ channel[l] = [from |-> c, msg |-> "PeerDisconnected"]
          BY <3>1, <3>2 DEF ChannelInv, EndFollowsStart
        <4>2. l - 1 \in DOMAIN channel' /\ channel'[l - 1] = channel[l]
          BY <3>1, <4>1
        <4> QED BY <4>1, <4>2 DEF Queued
      <3> QED BY <3>2
    <2>5. HasUser(id[c])'
      BY <2>1, <2>4 DEF HasUser
    <2>6. NothingIsLeftBehind'
      BY <1>0, <1>1, <2>2, <2>3, <2>5 DEF MapInv, NothingIsLeftBehind, HasUser
    <2> QED BY <2>2, <2>6 DEF MapInv, RegisteredIsKnown
  <1>3. ASSUME NEW c \in Conn, PeerDisconnected(c) PROVE MapInv'
    <2>1. Takes(c, "PeerDisconnected") /\ task' = task
      BY <1>3 DEF PeerDisconnected, Takes, connVars
    <2>2. /\ DOMAIN peers' = DOMAIN peers \ {id[c]}
          /\ peer_bitfields' = peer_bitfields \ {id[c]}
      BY <1>3 DEF PeerDisconnected, Without
    <2>3. \A i \in PeerId \ {id[c]} : HasUser(i) => HasUser(i)'
      BY <2>1, QueuedAfterTakes DEF HasUser, Ask
    <2>4. NothingIsLeftBehind'
      BY <1>0, <1>1, <2>2, <2>3 DEF MapInv, NothingIsLeftBehind, HasUser
    <2> QED BY <2>2, <2>4 DEF MapInv, RegisteredIsKnown
  <1>4. CASE Send
    <2>1. UNCHANGED <<task, channel, peer_bitfields>>
      BY <1>4 DEF Send, connVars
    <2>2. DOMAIN peers' \subseteq DOMAIN peers
      BY <1>4 DEF Send, Without
    <2> QED BY <2>1, <2>2 DEF MapInv, NothingIsLeftBehind, RegisteredIsKnown, Queued
  <1>5. CASE OtherStep
    <2>1. peers' = peers /\ peer_bitfields' = peer_bitfields
      BY <1>5 DEF OtherStep, mapVars
    <2>2. \A i \in PeerId : HasUser(i) => HasUser(i)'
      BY <1>5, OtherStepUsers
    <2>3. NothingIsLeftBehind'
      BY <1>0, <1>1, <2>1, <2>2 DEF MapInv, NothingIsLeftBehind, HasUser
    <2> QED BY <2>1, <2>3 DEF MapInv, RegisteredIsKnown
  <1> QED BY <1>2, <1>3, <1>4, <1>5 DEF MapStep

LEMMA AloneStays ==
  TypeOK /\ ChannelInv /\ AloneIsRegistered /\ [Next]_vars => AloneIsRegistered'
  <1> SUFFICES ASSUME TypeOK, ChannelInv, AloneIsRegistered, MapStep, id' = id,
                      NEW d \in Conn, Alone(d)', task'[d] = "Running",
                      ~Queued(d, "NewConnection")'
               PROVE  Registered(d)'
    BY NextMap DEF AloneIsRegistered
  <1>1. ASSUME NEW c \in Conn, NewConnection(c) PROVE Registered(d)'
    <2>1. Takes(c, "NewConnection") /\ task' = task /\ peers' = NewEntry(id[c], c)
      BY <1>1 DEF NewConnection, Takes, connVars
    <2>5. 1 \in DOMAIN channel /\ channel[1] = [from |-> c, msg |-> "NewConnection"]
      BY <2>1, TakesHead DEF Ask
    <2>2. task[c] # "New"
      BY <2>5 DEF ChannelInv, SendersAreMade
    <2>3. CASE d = c
      BY <2>1, <2>3 DEF Registered, NewEntry
    <2>4. CASE d # c
      <3>1. id[d] # id[c]
        BY <2>1, <2>2, <2>4 DEF Alone
      <3>2. ~Queued(d, "NewConnection")
        BY <2>1, <2>4, QueuedAfterTakes DEF Ask
      <3>3. Registered(d)
        BY <2>1, <3>2 DEF AloneIsRegistered, Alone
      <3> QED BY <2>1, <3>1, <3>3 DEF Registered, NewEntry
    <2> QED BY <2>3, <2>4
  <1>2. ASSUME NEW c \in Conn, PeerDisconnected(c) PROVE Registered(d)'
    <2>1. /\ Takes(c, "PeerDisconnected") /\ task' = task
          /\ peers' = Without(peers, id[c])
      BY <1>2 DEF PeerDisconnected, Takes, connVars
    <2>7. 1 \in DOMAIN channel /\ channel[1] = [from |-> c, msg |-> "PeerDisconnected"]
      BY <2>1, TakesHead DEF Ask
    <2>2. task[c] # "New" /\ Ended(c)
      BY <2>7 DEF ChannelInv, SendersAreMade, DisconnectedHaveEnded
    <2>3. d # c
      BY <2>1, <2>2 DEF Ended
    <2>4. id[d] # id[c]
      BY <2>1, <2>2, <2>3 DEF Alone
    <2>5. ~Queued(d, "NewConnection")
      BY <2>1, QueuedAfterTakes DEF Ask
    <2>6. Registered(d)
      BY <2>1, <2>5 DEF AloneIsRegistered, Alone
    <2> QED BY <2>1, <2>4, <2>6 DEF Registered, Without
  <1>3. CASE Send
    <2>1. UNCHANGED <<task, channel>>
      BY <1>3 DEF Send, connVars
    <2>2. Registered(d) /\ task[d] = "Running"
      BY <2>1 DEF AloneIsRegistered, Alone, Queued
    <2>3. Reachable(id[d])
      BY <2>2 DEF Reachable, Registered, HasMailbox
    <2>4. peers' = peers \/ \E i : ~Reachable(i) /\ peers' = Without(peers, i)
      BY <1>3 DEF Send
    <2> QED BY <2>2, <2>3, <2>4 DEF Registered, Without
  <1>4. CASE OtherStep
    <2>1. peers' = peers
      BY <1>4 DEF OtherStep, mapVars
    <2>2. ASSUME NEW c \in Conn, Joins(c) PROVE Registered(d)
      <3>1. Tells(c, "NewConnection") /\ \A e \in Conn : task'[e] = IF e = c THEN "Running" ELSE task[e]
        BY <2>2 DEF Joins, TypeOK
      <3>2. d # c /\ ~Queued(d, "NewConnection")
        BY <3>1, QueuedAfterTells DEF Ask
      <3>3. Alone(d)
        BY <3>1 DEF Alone
      <3> QED BY <3>1, <3>2, <3>3 DEF AloneIsRegistered
    <2>3. ASSUME NEW c \in Conn, Asks(c) PROVE Registered(d)
      <3>1. task' = task /\ ~Queued(d, "NewConnection")
        BY <2>3, QueuedAfterTells DEF Asks, Ask
      <3> QED BY <3>1 DEF AloneIsRegistered, Alone
    <2>4. ASSUME NEW c \in Conn, Quits(c) PROVE Registered(d)
      <3>1. PICK how \in {"Leaving", "Failing"} : Ends(c, how)
        BY <2>4 DEF Quits
      <3>2. /\ Tells(c, "PeerDisconnected") /\ task[c] = "Running"
            /\ \A e \in Conn : task'[e] = IF e = c THEN how ELSE task[e]
        BY <2>4, <3>1 DEF Ends, TypeOK, Quits, Awake
      <3>3. d # c /\ ~Queued(d, "NewConnection")
        BY <3>2, QueuedAfterTells DEF Ask
      <3>4. Alone(d)
        BY <3>2 DEF Alone
      <3> QED BY <3>2, <3>3, <3>4 DEF AloneIsRegistered
    <2>5. ASSUME NEW c \in Conn, OtherReads(c) PROVE Registered(d)
      <3>1. task' = task /\ ~Queued(d, "NewConnection")
        BY <2>5, QueuedAfterTakes DEF OtherReads, Ask
      <3> QED BY <3>1 DEF AloneIsRegistered, Alone
    <2>6. ASSUME UNCHANGED <<task, channel>> PROVE Registered(d)
      <3>1. task' = task /\ channel' = channel
        BY <2>6
      <3>2. Alone(d) /\ ~Queued(d, "NewConnection") /\ task[d] = "Running"
        BY <3>1 DEF Alone, Queued
      <3> QED BY <3>2 DEF AloneIsRegistered
    <2>7. Registered(d)
      BY <1>4, <2>2, <2>3, <2>4, <2>5, <2>6 DEF OtherStep
    <2> QED BY <2>1, <2>7 DEF Registered
  <1> QED BY <1>1, <1>2, <1>3, <1>4 DEF MapStep

\* Neither the map nor the selector keeps an id whose connections have all
\* ended and been heard of (PeerDisconnected, behind NewConnection).
THEOREM LeavesNothingBehind == Spec => []NothingIsLeftBehind
  <1>1. Init => TypeOK /\ ChannelInv /\ MapInv
    BY InitType, InitChannel, InitMap
  <1>2. TypeOK /\ ChannelInv /\ MapInv /\ [Next]_vars => (TypeOK /\ ChannelInv /\ MapInv)'
    BY NextType, ChannelOrder, MapStays
  <1>3. MapInv => NothingIsLeftBehind
    BY DEF MapInv
  <1> QED BY <1>1, <1>2, <1>3, PTL DEF Spec

\* The selector knows every peer of the map (send_peer, PeerDisconnected).
THEOREM KnowsRegistered == Spec => []RegisteredIsKnown
  <1>1. Init => TypeOK /\ ChannelInv /\ MapInv
    BY InitType, InitChannel, InitMap
  <1>2. TypeOK /\ ChannelInv /\ MapInv /\ [Next]_vars => (TypeOK /\ ChannelInv /\ MapInv)'
    BY NextType, ChannelOrder, MapStays
  <1>3. MapInv => RegisteredIsKnown
    BY DEF MapInv
  <1> QED BY <1>1, <1>2, <1>3, PTL DEF Spec

\* A connection that shares its id with nobody stays in the map as long as its
\* task runs (NewConnection, PeerDisconnected, send_peer).
THEOREM KeepsAlone == Spec => []AloneIsRegistered
  <1>1. Init => TypeOK /\ ChannelInv /\ AloneIsRegistered
    BY InitType, InitChannel, InitMap
  <1>2. TypeOK /\ ChannelInv /\ AloneIsRegistered /\ [Next]_vars
          => (TypeOK /\ ChannelInv /\ AloneIsRegistered)'
    BY NextType, ChannelOrder, AloneStays
  <1> QED BY <1>1, <1>2, PTL DEF Spec

-----------------------------------------------------------------------------
(* No piece is missed. *)

\* A connection in the map was made.
EntriesAreMade == \A c \in Conn : Registered(c) => task[c] # "New"

LEMMA EntriesStay ==
  TypeOK /\ ChannelInv /\ EntriesAreMade /\ [Next]_vars => EntriesAreMade'
  <1> SUFFICES ASSUME TypeOK, ChannelInv, EntriesAreMade, MapStep, ChannelStep, id' = id,
                      NEW d \in Conn, Registered(d)'
               PROVE  task'[d] # "New"
    <2>1. TypeOK /\ ChannelInv /\ EntriesAreMade /\ [Next]_vars
            => MapStep /\ ChannelStep /\ id' = id
      BY NextMap, NextChannel
    <2> QED BY <2>1 DEF EntriesAreMade
  <1>1. task[d] # "New" => task'[d] # "New"
    <2>1. ASSUME NEW c \in Conn, Joins(c) PROVE task[d] # "New" => task'[d] # "New"
      BY <2>1 DEF Joins, TypeOK
    <2>2. ASSUME NEW c \in Conn, Asks(c) \/ ManagerReads(c)
          PROVE  task[d] # "New" => task'[d] # "New"
      BY <2>2 DEF Asks, ManagerReads
    <2>3. ASSUME NEW c \in Conn, Quits(c) PROVE task[d] # "New" => task'[d] # "New"
      <3>1. PICK how \in {"Leaving", "Failing"} : Ends(c, how)
        BY <2>3 DEF Quits
      <3> QED BY <3>1 DEF Ends, TypeOK
    <2> QED BY <2>1, <2>2, <2>3 DEF ChannelStep
  <1>2. ASSUME NEW c \in Conn, NewConnection(c) PROVE task[d] # "New"
    <2>1. Takes(c, "NewConnection") /\ peers' = NewEntry(id[c], c)
      BY <1>2 DEF NewConnection
    <2>2. 1 \in DOMAIN channel /\ channel[1] = [from |-> c, msg |-> "NewConnection"]
      BY <2>1, TakesHead DEF Ask
    <2>3. task[c] # "New"
      BY <2>2 DEF ChannelInv, SendersAreMade
    <2>4. d = c \/ Registered(d)
      BY <2>1 DEF Registered, NewEntry
    <2> QED BY <2>3, <2>4 DEF EntriesAreMade
  <1>3. ASSUME NEW c \in Conn, PeerDisconnected(c) PROVE task[d] # "New"
    BY <1>3 DEF PeerDisconnected, Without, Registered, EntriesAreMade
  <1>4. CASE Send
    <2>1. peers' = peers \/ \E i : peers' = Without(peers, i)
      BY <1>4 DEF Send
    <2> QED BY <1>1, <2>1 DEF Registered, Without, EntriesAreMade
  <1>5. CASE OtherStep
    BY <1>1, <1>5 DEF OtherStep, mapVars, Registered, EntriesAreMade
  <1> QED BY <1>1, <1>2, <1>3, <1>4, <1>5 DEF MapStep

\* Once a connection's mailbox is gone it does not come back.
LEMMA MailboxStaysAway ==
  ASSUME TypeOK, ChannelStep, NEW c \in Conn, task[c] # "New", HasMailbox(c)'
  PROVE  HasMailbox(c)
  <1>1. CASE task[c] = "Running"
    BY <1>1 DEF HasMailbox
  <1>2. CASE task[c] # "Running"
    <2>1. task'[c] = task[c] /\ task[c] = "Leaving" /\ Blocked(c)'
      BY <1>2 DEF ChannelStep, Joins, Asks, Quits, Awake, ManagerReads, Ends, HasMailbox, TypeOK
    <2>2. ASSUME NEW d \in Conn, NEW msg \in Ask, Tells(d, msg), d # c PROVE Blocked(c)
      <3> DEFINE n == Len(channel)
      <3>1. /\ DOMAIN channel' = 1..(n + 1) /\ DOMAIN channel = 1..n /\ n \in Nat
            /\ \A k \in DOMAIN channel : channel'[k] = channel[k]
            /\ channel'[n + 1] = [from |-> d, msg |-> msg]
        BY <2>2, TellsChannel
      <3> HIDE DEF n
      <3> QED BY <2>1, <2>2, <3>1 DEF Blocked
    <2>3. ASSUME NEW d \in Conn, NEW msg \in Ask, Takes(d, msg) PROVE Blocked(c)
      <3> DEFINE n == Len(channel)
      <3>1. /\ DOMAIN channel' = 1..(n - 1) /\ DOMAIN channel = 1..n /\ n \in Nat \ {0}
            /\ \A k \in DOMAIN channel' : channel'[k] = channel[k + 1]
        BY <2>3, TakesChannel
      <3> HIDE DEF n
      <3>2. PICK k \in DOMAIN channel' : k > InboxSize /\ channel'[k].from = c
        BY <2>1 DEF Blocked
      <3>3. k + 1 \in DOMAIN channel /\ k + 1 > InboxSize /\ channel[k + 1].from = c
        BY <3>1, <3>2, ConnectionsAssumption
      <3> QED BY <3>3 DEF Blocked
    <2>4. \/ \E d \in Conn, msg \in Ask : Tells(d, msg) /\ d # c
          \/ \E d \in Conn, msg \in Ask : Takes(d, msg)
          \/ channel' = channel
      BY <1>2, <2>1 DEF ChannelStep, Joins, Asks, Quits, Awake, Ends, ManagerReads, Ask, TypeOK
    <2>5. Blocked(c)
      BY <2>1, <2>2, <2>3, <2>4 DEF Blocked
    <2> QED BY <2>1, <2>5 DEF HasMailbox
  <1> QED BY <1>1, <1>2

\* The mail is in the mailbox of c, or is being sent to it.
IsComing(c, mail) ==
  \/ \E k \in DOMAIN mailbox[c] : mailbox[c][k] = mail
  \/ \E k \in DOMAIN sending : sending[k].to = id[c] /\ sending[k].msg = mail

IsAsking(c) ==
  Queued(c, "WhatDoWeHave") \/ \E mail : IsComing(c, mail) /\ mail.type = "StartDownload"

Knows(c, i) == i \in told[c] \/ \E mail : IsComing(c, mail) /\ i \in mail.pieces

Informed(c) ==
  Registered(c) /\ HasMailbox(c) => (\A i \in have : Knows(c, i)) \/ IsAsking(c) \/ c \in quiet

LEMMA InformedAll == NothingIsMissed <=> \A c \in Conn : Informed(c)
  <1>1. \A c \in Conn : Asking(c) <=> IsAsking(c)
    BY DEF Asking, IsAsking, Coming, IsComing
  <1>2. \A c \in Conn :
          have \subseteq told[c] \cup UNION { mail.pieces : mail \in Coming(c) }
            <=> \A i \in have : Knows(c, i)
    BY DEF Knows, Coming, IsComing
  <1> QED BY <1>1, <1>2 DEF NothingIsMissed, Informed

\* A step that takes nothing from what c was told or will be.
Keeps(c) ==
  /\ Registered(c)' /\ HasMailbox(c)' => Registered(c)
  /\ told[c] \subseteq told'[c]
  /\ c \in quiet => c \in quiet'
  /\ Queued(c, "WhatDoWeHave") => Queued(c, "WhatDoWeHave")'
  /\ Registered(c)' /\ HasMailbox(c)' =>
       \A mail : IsComing(c, mail) => IsComing(c, mail)'

LEMMA KeepsInformed ==
  ASSUME TypeOK, EntriesAreMade, ChannelStep, NEW c \in Conn, Informed(c), Keeps(c), have' = have
  PROVE  Informed(c)'
  <1> SUFFICES ASSUME Registered(c)', HasMailbox(c)'
               PROVE  (\A i \in have : Knows(c, i)') \/ IsAsking(c)' \/ c \in quiet'
    BY DEF Informed
  <1>1. Registered(c) /\ HasMailbox(c)
    BY MailboxStaysAway DEF Keeps, EntriesAreMade
  <1>2. \A mail : IsComing(c, mail) => IsComing(c, mail)'
    BY DEF Keeps
  <1>3. \A i \in have : Knows(c, i) => Knows(c, i)'
    BY <1>2 DEF Knows, Keeps
  <1>4. IsAsking(c) => IsAsking(c)'
    BY <1>2 DEF IsAsking, Keeps
  <1> QED BY <1>1, <1>3, <1>4 DEF Informed, Keeps

\* A connection says something, or nothing, and reads nothing.
LEMMA TellsKeeps ==
  ASSUME TypeOK, NEW c \in Conn, UNCHANGED <<id, told, quiet, mailbox, peers, sending>>,
         channel' = channel \/ \E d \in Conn, msg \in Ask : Tells(d, msg)
  PROVE  Keeps(c)
  <1>1. Queued(c, "WhatDoWeHave") => Queued(c, "WhatDoWeHave")'
    BY QueuedAfterTells DEF Queued, Ask
  <1>2. \A mail : IsComing(c, mail) => IsComing(c, mail)'
    BY DEF IsComing
  <1> QED BY <1>1, <1>2 DEF Keeps, Registered

\* The manager sends nothing while it takes a message.
LEMMA TakesKeeps ==
  ASSUME TypeOK, NEW c \in Conn, NEW d \in Conn, NEW msg \in Ask, Takes(d, msg),
         Registered(c)' => Registered(c),
         d = c => msg # "WhatDoWeHave"
  PROVE  Keeps(c)
  <1>1. Queued(c, "WhatDoWeHave") => Queued(c, "WhatDoWeHave")'
    BY QueuedAfterTakes DEF Ask
  <1>2. sending = <<>> /\ mailbox' = mailbox /\ told' = told /\ quiet' = quiet
    BY DEF Takes, connVars
  <1>3. \A mail : IsComing(c, mail) => IsComing(c, mail)'
    BY <1>2 DEF IsComing
  <1> QED BY <1>1, <1>2, <1>3 DEF Keeps

\* A reply to c's id is on its way to c.
LEMMA ReplyComes ==
  ASSUME NEW c \in Conn, NEW mail, id' = id, sending' = Reply(id[c], mail)
  PROVE  IsComing(c, mail)'
  <1>1. 1 \in DOMAIN sending' /\ sending'[1] = [to |-> id[c], msg |-> mail, reply |-> TRUE]
    BY DEF Reply
  <1> QED BY <1>1 DEF IsComing

LEMMA SecondPart ==
  ASSUME NEW S, NEW s \in Seq(S), NEW t \in Seq(S), NEW k \in 1..Len(t)
  PROVE  /\ Len(s) + k \in DOMAIN (s \o t)
         /\ (s \o t)[Len(s) + k] = t[k]
  <1>1. s \o t \in Seq(S) /\ Len(s \o t) = Len(s) + Len(t)
    OBVIOUS
  <1>2. Len(s) + k \in 1..Len(s \o t)
    BY <1>1
  <1>3. (s \o t)[Len(s) + k] = t[k]
    BY <1>2
  <1> QED BY <1>1, <1>2, <1>3

\* A broadcast reaches every connection of the map.
LEMMA BroadcastComes ==
  ASSUME TypeOK, NEW c \in Conn, Registered(c), NEW mail \in MailSet,
         NEW order \in Orders(DOMAIN peers), id' = id,
         NEW before \in Seq(Letter), sending' = before \o Broadcast(order, mail)
  PROVE  IsComing(c, mail)'
  <1>1. PICK k \in DOMAIN order : order[k] = id[c]
    BY DEF Orders, Registered
  <1> DEFINE b == Broadcast(order, mail)
  <1>2. DOMAIN peers \in SUBSET PeerId
    BY DEF TypeOK
  <1>3. b \in Seq(Letter)
    BY <1>2, BroadcastType
  <1>4. k \in DOMAIN b /\ b[k] = [to |-> id[c], msg |-> mail, reply |-> FALSE]
    BY <1>1 DEF Broadcast
  <1> HIDE DEF b
  <1>5. k \in 1..Len(b)
    BY <1>3, <1>4
  <1>6. Len(before) + k \in DOMAIN (before \o b) /\ (before \o b)[Len(before) + k] = b[k]
    BY <1>3, <1>5, SecondPart
  <1> QED BY <1>4, <1>6 DEF IsComing, b

LEMMA SendKeeps ==
  ASSUME TypeOK, Send, NEW c \in Conn
  PROVE  Keeps(c)
  <1> DEFINE s == Head(sending)
             n == Len(sending)
  <1>1. UNCHANGED <<connVars, channel>>
    BY DEF Send
  <1>2. sending \in Seq(Letter) /\ sending # <<>> /\ sending' = Tail(sending)
    BY DEF Send, TypeOK, Letter
  <1>3. /\ n \in Nat \ {0} /\ DOMAIN sending = 1..n /\ DOMAIN sending' = 1..(n - 1)
        /\ s = sending[1] /\ s \in Letter
        /\ \A k \in DOMAIN sending' : sending'[k] = sending[k + 1]
    BY <1>2
  <1>4. \/ /\ Reachable(s.to)
           /\ mailbox' = [mailbox EXCEPT ![peers[s.to]] = Append(@, s.msg)]
           /\ peers' = peers
        \/ /\ ~Reachable(s.to) /\ mailbox' = mailbox
           /\ peers' = peers \/ peers' = Without(peers, s.to)
    BY DEF Send
  <1> HIDE DEF s, n
  <1>5. Registered(c)' => Registered(c)
    BY <1>1, <1>4 DEF Registered, Without, connVars
  <1>6. Reachable(s.to) => peers[s.to] \in Conn /\ s.msg \in MailSet
    BY <1>3 DEF Reachable, TypeOK, Letter
  <1>7. \A k \in DOMAIN mailbox[c] : k \in DOMAIN mailbox'[c] /\ mailbox'[c][k] = mailbox[c][k]
    <2>1. CASE mailbox'[c] = mailbox[c]
      BY <2>1
    <2>2. CASE mailbox'[c] = Append(mailbox[c], s.msg) /\ s.msg \in MailSet
      <3>1. mailbox[c] \in Seq(MailSet)
        BY DEF TypeOK
      <3> QED BY <2>2, <3>1
    <2>3. mailbox \in [Conn -> Seq(MailSet)]
      BY DEF TypeOK
    <2> QED BY <1>4, <1>6, <2>1, <2>2, <2>3
  <1>8. ASSUME Registered(c), HasMailbox(c), NEW mail, IsComing(c, mail)
        PROVE  IsComing(c, mail)'
    <2>1. CASE \E k \in DOMAIN mailbox[c] : mailbox[c][k] = mail
      BY <1>7, <2>1 DEF IsComing
    <2>2. ASSUME NEW k \in DOMAIN sending, sending[k].to = id[c], sending[k].msg = mail
          PROVE  IsComing(c, mail)'
      <3>1. CASE k # 1
        <4>1. k - 1 \in DOMAIN sending' /\ sending'[k - 1] = sending[k]
          BY <1>3, <3>1
        <4> QED BY <1>1, <2>2, <4>1 DEF IsComing, connVars
      <3>2. CASE k = 1
        <4>1. s.to = id[c] /\ s.msg = mail
          BY <1>3, <2>2, <3>2
        <4>2. Reachable(s.to) /\ peers[s.to] = c
          BY <1>8, <4>1 DEF Reachable, Registered
        <4>3. mailbox[c] \in Seq(MailSet) /\ mail \in MailSet
          BY <1>6, <4>1, <4>2 DEF TypeOK
        <4>4. mailbox'[c] = Append(mailbox[c], mail)
          BY <1>4, <4>1, <4>2 DEF TypeOK
        <4>5. Len(mailbox[c]) + 1 \in DOMAIN mailbox'[c] /\ mailbox'[c][Len(mailbox[c]) + 1] = mail
          BY <4>3, <4>4
        <4> QED BY <4>5 DEF IsComing
      <3> QED BY <3>1, <3>2
    <2> QED BY <1>8, <2>1, <2>2 DEF IsComing
  <1>9. HasMailbox(c)' => HasMailbox(c)
    BY <1>1 DEF HasMailbox, Blocked, connVars
  <1> QED BY <1>1, <1>5, <1>8, <1>9 DEF Keeps, connVars, Queued

\* What is read is told to the remote, asked for, or kept to itself.
LEMMA HandleMailTells ==
  ASSUME TypeOK, NEW c \in Conn, NEW mail \in MailSet, HandleMail(c, mail)
  PROVE  /\ \A d \in Conn : told[d] \subseteq told'[d]
         /\ quiet \subseteq quiet'
         /\ Queued(c, "WhatDoWeHave") => Queued(c, "WhatDoWeHave")'
         /\ \A d \in Conn : d # c /\ Queued(d, "WhatDoWeHave") => Queued(d, "WhatDoWeHave")'
         /\ HasMailbox(c)' =>
              \/ Queued(c, "WhatDoWeHave")'
              \/ mail.type # "StartDownload" /\ (mail.pieces \subseteq told'[c] \/ c \in quiet')
  <1> DEFINE Grows == /\ \A d \in Conn : told[d] \subseteq told'[d]
                      /\ quiet \subseteq quiet'
             Stays == \A d \in Conn : Queued(d, "WhatDoWeHave") => Queued(d, "WhatDoWeHave")'
             Done == \/ Queued(c, "WhatDoWeHave")'
                     \/ /\ mail.type # "StartDownload"
                        /\ mail.pieces \subseteq told'[c] \/ c \in quiet'
  <1> SUFFICES Grows /\ Stays /\ (HasMailbox(c)' => Done)
    OBVIOUS
  <1>0. channel' = channel => Stays
    BY DEF Queued
  <1>1. ASSUME NEW how \in {"Leaving", "Failing"}, Ends(c, how)
        PROVE  Grows /\ Stays /\ (how = "Failing" => ~HasMailbox(c)')
    <2>1. Tells(c, "PeerDisconnected") /\ task'[c] = how /\ told' = told /\ quiet' = quiet
      BY <1>1 DEF Ends, TypeOK
    <2>2. Stays
      BY <2>1, QueuedAfterTells DEF Ask
    <2> QED BY <2>1, <2>2 DEF HasMailbox
  <1>2. ASSUME NEW pieces, TellsRemote(c, pieces)
        PROVE  Grows /\ Stays /\ (HasMailbox(c)' => pieces \subseteq told'[c])
    <2>1. CASE WriteFails(c)
      BY <1>1, <2>1 DEF WriteFails
    <2>2. CASE /\ told' = [told EXCEPT ![c] = @ \cup pieces]
               /\ UNCHANGED <<id, task, wire, quiet, channel>>
      BY <1>0, <2>2 DEF TypeOK
    <2> QED BY <1>2, <2>1, <2>2 DEF TellsRemote
  <1>3. mail.type \in {"FinishedFile", "Other"} => mail.pieces = {}
    BY DEF MailSet
  <1>4. CASE mail.type = "StartDownload"
    <2>1. Tells(c, "WhatDoWeHave") /\ told' = told /\ quiet' = quiet
      BY <1>4 DEF HandleMail, connVars
    <2>2. Stays /\ Queued(c, "WhatDoWeHave")'
      BY <2>1, QueuedAfterTells DEF Ask
    <2> QED BY <2>1, <2>2
  <1>5. CASE mail.type = "WeHave"
    <2>1. WeHave(c, mail.pieces)
      BY <1>5 DEF HandleMail
    <2>2. CASE mail.pieces = Piece
      <3>1. CASE WriteFails(c)
        BY <1>1, <3>1 DEF WriteFails
      <3>2. CASE quiet' = quiet \cup {c} /\ UNCHANGED <<id, task, wire, told, channel>>
        BY <1>0, <1>5, <3>2
      <3> QED BY <2>1, <2>2, <3>1, <3>2 DEF WeHave, KeepsQuiet
    <2>3. CASE mail.pieces # Piece
      <3>1. TellsRemote(c, mail.pieces)
        BY <2>1, <2>3 DEF WeHave
      <3> QED BY <1>2, <1>5, <3>1
    <2> QED BY <2>2, <2>3
  <1>6. CASE mail.type = "FinishedPiece"
    <2>1. TellsRemote(c, mail.pieces)
      BY <1>6 DEF HandleMail
    <2> QED BY <1>2, <1>6, <2>1
  <1>7. CASE mail.type \in {"FinishedFile", "Other"}
    <2>1. Ends(c, "Leaving") \/ Ends(c, "Failing") \/ UNCHANGED <<connVars, channel>>
      BY <1>7 DEF HandleMail, WriteFails
    <2>2. Grows /\ Stays
      <3>1. CASE UNCHANGED <<connVars, channel>>
        BY <1>0, <3>1 DEF connVars
      <3> QED BY <1>1, <2>1, <3>1
    <2> QED BY <1>3, <1>7, <2>2
  <1> QED BY <1>4, <1>5, <1>6, <1>7 DEF MailSet

LEMMA ReadMailInforms ==
  ASSUME TypeOK, EntriesAreMade, ChannelStep, NEW d \in Conn, ReadMail(d),
         NEW c \in Conn, Informed(c)
  PROVE  Informed(c)'
  <1> DEFINE head == Head(mailbox[d])
             n == Len(mailbox[d])
  <1>1. mailbox \in [Conn -> Seq(MailSet)] /\ mailbox[d] # <<>>
    BY DEF ReadMail, TypeOK
  <1>2. /\ head \in MailSet /\ head = mailbox[d][1]
        /\ n \in Nat \ {0} /\ DOMAIN mailbox[d] = 1..n
        /\ DOMAIN Tail(mailbox[d]) = 1..(n - 1)
        /\ \A k \in 1..(n - 1) : Tail(mailbox[d])[k] = mailbox[d][k + 1]
    BY <1>1
  <1>3. /\ HandleMail(d, head)
        /\ UNCHANGED <<mapVars, have, sending>>
        /\ mailbox' = [mailbox EXCEPT ![d] = Tail(@)]
        /\ id' = id
    BY ReadMailId DEF ReadMail
  <1> HIDE DEF head, n
  <1>4. Registered(c)' <=> Registered(c)
    BY <1>3 DEF Registered, mapVars
  <1>5. CASE c # d
    <2>1. mailbox'[c] = mailbox[c]
      BY <1>1, <1>3, <1>5
    <2>2. \A mail : IsComing(c, mail) => IsComing(c, mail)'
      BY <1>3, <2>1 DEF IsComing
    <2>3. Keeps(c)
      BY <1>2, <1>3, <1>4, <1>5, <2>2, HandleMailTells DEF Keeps
    <2> QED BY <1>3, <2>3, KeepsInformed
  <1>6. CASE c = d
    <2> SUFFICES ASSUME Registered(c)', HasMailbox(c)'
                 PROVE  (\A i \in have : Knows(c, i)') \/ IsAsking(c)' \/ c \in quiet'
      BY <1>3 DEF Informed
    <2>1. Registered(c) /\ HasMailbox(c)
      BY <1>4, MailboxStaysAway DEF EntriesAreMade
    <2>2. mailbox'[c] = Tail(mailbox[c])
      BY <1>1, <1>3, <1>6
    <2>3. ASSUME NEW mail, IsComing(c, mail), mail # head PROVE IsComing(c, mail)'
      <3>1. CASE \E k \in DOMAIN sending : sending[k].to = id[c] /\ sending[k].msg = mail
        BY <1>3, <3>1 DEF IsComing
      <3>2. ASSUME NEW k \in DOMAIN mailbox[c], mailbox[c][k] = mail PROVE IsComing(c, mail)'
        <4>1. k # 1
          BY <1>2, <1>6, <2>3, <3>2
        <4>2. k - 1 \in DOMAIN mailbox'[c] /\ mailbox'[c][k - 1] = mailbox[c][k]
          BY <1>2, <1>6, <2>2, <4>1
        <4> QED BY <3>2, <4>2 DEF IsComing
      <3> QED BY <2>3, <3>1, <3>2 DEF IsComing
    <2>4. /\ told[c] \subseteq told'[c] /\ quiet \subseteq quiet'
          /\ Queued(c, "WhatDoWeHave") => Queued(c, "WhatDoWeHave")'
          /\ \/ Queued(c, "WhatDoWeHave")'
             \/ head.type # "StartDownload" /\ (head.pieces \subseteq told'[c] \/ c \in quiet')
      BY <1>2, <1>3, <1>6, HandleMailTells
    <2>5. CASE Queued(c, "WhatDoWeHave")'
      BY <2>5 DEF IsAsking
    <2>6. CASE c \in quiet'
      BY <2>6
    <2>7. CASE head.type # "StartDownload" /\ head.pieces \subseteq told'[c]
      <3>1. \A i \in have : Knows(c, i) => Knows(c, i)'
        BY <2>3, <2>4, <2>7 DEF Knows
      <3>2. IsAsking(c) => IsAsking(c)'
        BY <2>3, <2>4, <2>7 DEF IsAsking
      <3> QED BY <2>1, <2>4, <3>1, <3>2 DEF Informed
    <2> QED BY <2>4, <2>5, <2>6, <2>7
  <1> QED BY <1>5, <1>6

LEMMA ManagerInforms ==
  ASSUME TypeOK, EntriesAreMade, ChannelStep, NEW d \in Conn, NEW c \in Conn, Informed(c),
         \/ NewConnection(d) \/ PeerDisconnected(d) \/ WhatDoWeHave(d)
         \/ NeedBlocks(d) \/ GotBlock(d) \/ \E i \in Piece : FinishesPiece(d, i)
  PROVE  Informed(c)'
  <1>1. CASE NewConnection(d)
    <2>1. /\ Takes(d, "NewConnection") /\ id' = id /\ have' = have
          /\ peers' = NewEntry(id[d], d) /\ sending' = Reply(id[d], Start)
      BY <1>1 DEF NewConnection, Takes, connVars
    <2>2. CASE c = d
      <3>1. IsComing(c, Start)'
        BY <2>1, <2>2, ReplyComes
      <3> QED BY <3>1 DEF Informed, IsAsking, Start, Mail
    <2>3. CASE c # d
      <3>1. Registered(c)' => Registered(c)
        BY <2>1, <2>3 DEF Registered, NewEntry
      <3> QED BY <2>1, <3>1, TakesKeeps, KeepsInformed DEF Ask
    <2> QED BY <2>2, <2>3
  <1>2. CASE PeerDisconnected(d)
    <2>1. Takes(d, "PeerDisconnected") /\ have' = have /\ (Registered(c)' => Registered(c))
      BY <1>2 DEF PeerDisconnected, Without, Registered, Takes, connVars
    <2> QED BY <2>1, TakesKeeps, KeepsInformed DEF Ask
  <1>3. CASE WhatDoWeHave(d)
    <2>1. /\ Takes(d, "WhatDoWeHave") /\ id' = id /\ have' = have /\ peers' = peers
          /\ sending' = Reply(id[d], Mail("WeHave", have))
      BY <1>3 DEF WhatDoWeHave, Takes, connVars, mapVars
    <2>2. CASE id[c] = id[d]
      <3>1. IsComing(c, Mail("WeHave", have))'
        BY <2>1, <2>2, ReplyComes
      <3>2. \A i \in have : Knows(c, i)'
        BY <2>1, <3>1 DEF Knows, Mail
      <3> QED BY <2>1, <3>2 DEF Informed
    <2>3. CASE id[c] # id[d]
      <3>1. Registered(c)' => Registered(c)
        BY <2>1 DEF Registered
      <3> QED BY <2>1, <2>3, <3>1, TakesKeeps, KeepsInformed DEF Ask
    <2> QED BY <2>2, <2>3
  <1>4. CASE NeedBlocks(d) \/ GotBlock(d)
    <2>1. PICK msg \in {"NeedBlocks", "GotBlock"} : Takes(d, msg)
      BY <1>4 DEF NeedBlocks, GotBlock
    <2>2. have' = have /\ (Registered(c)' => Registered(c))
      BY <1>4 DEF NeedBlocks, GotBlock, mapVars, Registered, Takes, connVars
    <2> QED BY <2>1, <2>2, TakesKeeps, KeepsInformed DEF Ask
  <1>5. ASSUME NEW i \in Piece, FinishesPiece(d, i) PROVE Informed(c)'
    <2> SUFFICES ASSUME Registered(c)', HasMailbox(c)'
                 PROVE  (\A j \in have' : Knows(c, j)') \/ IsAsking(c)' \/ c \in quiet'
      BY DEF Informed
    <2>1. /\ Takes(d, "GotBlock") /\ id' = id /\ peers' = peers /\ told' = told
          /\ have' \subseteq have \cup {i} /\ quiet' = quiet
      BY <1>5 DEF FinishesPiece, Takes, connVars, mapVars
    <2>2. Registered(c)
      BY <2>1 DEF Registered
    <2>3. HasMailbox(c)
      BY <2>2, MailboxStaysAway DEF EntriesAreMade
    <2>4. Keeps(c)
      BY <2>1, <2>2, TakesKeeps DEF Ask
    <2>5. \A mail : IsComing(c, mail) => IsComing(c, mail)'
      BY <2>4 DEF Keeps
    <2>6. IsComing(c, Mail("FinishedPiece", {i}))'
      <3>1. PICK order \in Orders(DOMAIN peers) :
              sending' = (IF have' = Piece THEN Broadcast(order, Mail("FinishedFile", {})) ELSE <<>>)
                           \o Broadcast(order, Mail("FinishedPiece", {i}))
        BY <1>5 DEF FinishesPiece
      <3> DEFINE first == IF have' = Piece THEN Broadcast(order, Mail("FinishedFile", {})) ELSE <<>>
      <3>2. Mail("FinishedFile", {}) \in MailSet /\ Mail("FinishedPiece", {i}) \in MailSet
        BY DEF Mail, MailSet
      <3>3. DOMAIN peers \in SUBSET PeerId
        BY DEF TypeOK
      <3>4. first \in Seq(Letter)
        BY <3>2, <3>3, BroadcastType
      <3>5. sending' = first \o Broadcast(order, Mail("FinishedPiece", {i}))
        BY <3>1
      <3> HIDE DEF first
      <3> QED BY <2>1, <2>2, <3>2, <3>4, <3>5, BroadcastComes
    <2>7. Knows(c, i)'
      BY <2>6 DEF Knows, Mail
    <2>8. \A j \in have : Knows(c, j) => Knows(c, j)'
      BY <2>1, <2>5 DEF Knows
    <2>9. IsAsking(c) => IsAsking(c)'
      BY <2>4, <2>5 DEF IsAsking, Keeps
    <2> QED BY <2>1, <2>2, <2>3, <2>7, <2>8, <2>9 DEF Informed
  <1> QED BY <1>1, <1>2, <1>3, <1>4, <1>5

LEMMA StaysInformed ==
  TypeOK /\ ChannelInv /\ EntriesAreMade /\ NothingIsMissed /\ [Next]_vars => NothingIsMissed'
  <1> SUFFICES ASSUME TypeOK, EntriesAreMade, ChannelStep, [Next]_vars,
                      NEW c \in Conn, Informed(c)
               PROVE  Informed(c)'
    <2>1. NothingIsMissed => \A c \in Conn : Informed(c)
      BY InformedAll
    <2>2. (NothingIsMissed <=> \A c \in Conn : Informed(c))'
      BY InformedAll, PTL
    <2> QED BY <2>1, <2>2, NextChannel
  <1>1. ASSUME NEW d \in Conn, Connect(d) PROVE Informed(c)'
    BY <1>1, TellsKeeps, KeepsInformed DEF Connect, mapVars, Ask
  <1>2. ASSUME NEW d \in Conn, WireFails(d) PROVE Informed(c)'
    BY <1>2, TellsKeeps, KeepsInformed DEF WireFails, Ends, mapVars, Ask
  <1>3. ASSUME NEW d \in Conn, RemoteCloses(d) PROVE Informed(c)'
    BY <1>3, TellsKeeps, KeepsInformed DEF RemoteCloses, mapVars
  <1>4. ASSUME NEW d \in Conn, ReadMail(d) PROVE Informed(c)'
    BY <1>4, ReadMailInforms
  <1>5. ASSUME NEW d \in Conn, NEW msg \in {"NeedBlocks", "GotBlock"}, WireMessage(d, msg)
        PROVE  Informed(c)'
    BY <1>5, TellsKeeps, KeepsInformed DEF WireMessage, connVars, mapVars, Ask
  <1>6. CASE Send
    BY <1>6, SendKeeps, KeepsInformed DEF Send
  <1>7. CASE ManagerTakes
    BY <1>7, ManagerInforms DEF ManagerTakes
  <1>8. ASSUME NEW mail \in {Start, Mail("Other", {})}, ClientOrders(mail) PROVE Informed(c)'
    <2>1. /\ UNCHANGED <<connVars, mailbox, peers, have, channel>> /\ sending = <<>>
      BY <1>8 DEF ClientOrders, mapVars
    <2>2. \A m : IsComing(c, m) => IsComing(c, m)'
      BY <2>1 DEF IsComing, connVars
    <2>3. Keeps(c)
      BY <2>1, <2>2 DEF Keeps, Registered, Queued, connVars
    <2> QED BY <2>1, <2>3, KeepsInformed
  <1>9. CASE UNCHANGED vars
    BY <1>9, TellsKeeps, KeepsInformed DEF vars, connVars, mapVars
  <1> QED BY <1>1, <1>2, <1>3, <1>4, <1>5, <1>6, <1>7, <1>8, <1>9 DEF Next

\* The remote of every registered connection was told of every stored piece or
\* will be (WhatDoWeHave, WeHave, FinishedPiece).
THEOREM MissesNothing == Spec => []NothingIsMissed
  <1>1. Init => TypeOK /\ ChannelInv /\ EntriesAreMade /\ NothingIsMissed
    <2>1. Init => EntriesAreMade /\ NothingIsMissed
      BY DEF Init, EntriesAreMade, NothingIsMissed, Registered
    <2> QED BY <2>1, InitType, InitChannel
  <1>2. TypeOK /\ ChannelInv /\ EntriesAreMade /\ NothingIsMissed /\ [Next]_vars
          => (TypeOK /\ ChannelInv /\ EntriesAreMade /\ NothingIsMissed)'
    BY NextType, ChannelOrder, EntriesStay, StaysInformed
  <1> QED BY <1>1, <1>2, PTL DEF Spec

=============================================================================
